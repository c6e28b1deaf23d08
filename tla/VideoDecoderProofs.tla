------------------------- MODULE VideoDecoderProofs -------------------------
(***************************************************************************)
(* The invariants of the stateful video decoder, for any number of         *)
(* buffers, QBUFs, events and format changes: first what holds for every   *)
(* guest and every backend, then what the device promises a guest that     *)
(* follows the stateful decoder protocol, with a backend that does not     *)
(* fail.                                                                   *)
(***************************************************************************)
EXTENDS VideoDecoder, FiniteSetTheorems, SequenceTheorems, TLAPS

-----------------------------------------------------------------------------
(* The invariant for every guest.                                          *)

Flag == {"QUEUED", "ERROR", "LAST"}
State == {Stopped(in, out) : in, out \in BOOLEAN} \cup {Running, Paused}
IsFrame(e) == e.kind = "FrameCompleted"
IsDone(e) == e.kind = "InputBufferDone"
IsChange(e) == e.kind = "StreamFormatChanged"

\* The fields that only commands change, the buffers and events, and the guest's view.
SessionTyped ==
    /\ state \in State /\ life \in {"open", "closed", "panicked"}
    /\ flags \in [Queue -> Seq(SUBSET Flag)] /\ \A q \in Queue : Len(flags[q]) <= MaxBufs
    /\ format_change_pending \in BOOLEAN
PlacesTyped ==
    /\ pending_output_buffers \in Seq(Tagged) /\ be_inputs \in Seq(Tagged)
    /\ be_outputs \subseteq Tagged /\ be_events \in Seq(Event)
    /\ be_accepting \in BOOLEAN /\ be_changes \in Nat
GuestTyped ==
    /\ guest_queued \in [Queue -> SUBSET Index]
    /\ guest_told \in [src : Nat, eos : Nat, drains : Nat]
    /\ qbufs \in 0 .. MaxQbufs /\ last_qbuf \in [Queue -> [Index -> 0 .. MaxQbufs]]
    /\ stale \in BOOLEAN

\* A frame that marks a format change follows the event of that change, until the device
\* has seen the event.
ChangesMarked ==
    \A k \in DOMAIN be_events :
        IsFrame(be_events[k]) /\ be_events[k].mark = "change" =>
            IF k = 1 THEN format_change_pending ELSE IsChange(be_events[k - 1])

Inv == SessionTyped /\ PlacesTyped /\ GuestTyped /\ CaptureQuiet /\ ChangesMarked /\ NoEosAtChange

-----------------------------------------------------------------------------
(* Sequences, states and events.                                           *)

\* An element that is pushed is the last one.
LEMMA Pushed ==
    ASSUME NEW S, NEW s \in Seq(S), NEW e \in S
    PROVE  /\ Append(s, e) \in Seq(S) /\ Append(s, e) # <<>>
           /\ DOMAIN Append(s, e) = 1 .. Len(s) + 1 /\ DOMAIN s = 1 .. Len(s)
           /\ Len(s) \in Nat
           /\ Append(s, e)[Len(s) + 1] = e
           /\ \A k \in DOMAIN s : k \in DOMAIN Append(s, e) /\ Append(s, e)[k] = s[k]
           /\ \A k \in DOMAIN Append(s, e) : k \in DOMAIN s \/ k = Len(s) + 1
           /\ Len(s) + 1 \notin DOMAIN s
OBVIOUS

\* The first element is popped, the others move up.
LEMMA Popped ==
    ASSUME NEW S, NEW s \in Seq(S), s # <<>>
    PROVE  /\ Head(s) \in S /\ Head(s) = s[1] /\ 1 \in DOMAIN s /\ Tail(s) \in Seq(S)
           /\ \A k \in DOMAIN Tail(s) : /\ k + 1 \in DOMAIN s /\ k + 1 # 1 /\ k \in Nat
                                        /\ Tail(s)[k] = s[k + 1]
           /\ \A k \in DOMAIN s : k = 1 \/ (k - 1 \in DOMAIN Tail(s) /\ Tail(s)[k - 1] = s[k])
OBVIOUS

\* The states of the streaming state machine.
LEMMA StateFields ==
    ASSUME NEW s \in State
    PROVE  /\ s.in \in BOOLEAN /\ s.out \in BOOLEAN
           /\ s.phase \in {"Stopped", "Running", "Paused"}
           /\ s.phase # "Stopped" => s \in {Running, Paused} /\ s.in /\ s.out
           /\ s.phase = "Stopped" => s = Stopped(s.in, s.out)
<1>1. CASE s \in {Running, Paused}
  <2>1. /\ Running.in = TRUE /\ Running.out = TRUE /\ Running.phase = "Running"
        /\ Paused.in = TRUE /\ Paused.out = TRUE /\ Paused.phase = "Paused"
    BY DEF Running, Paused
  <2> QED BY <1>1, <2>1
<1>2. ASSUME NEW in \in BOOLEAN, NEW out \in BOOLEAN, s = Stopped(in, out)
      PROVE  /\ s.in \in BOOLEAN /\ s.out \in BOOLEAN /\ s.phase = "Stopped"
             /\ s = Stopped(s.in, s.out)
  BY <1>2 DEF Stopped
<1>3. s \in {Running, Paused} \/ \E in, out \in BOOLEAN : s = Stopped(in, out)
  BY DEF State
<1> QED BY <1>1, <1>2, <1>3

\* input_streamon and output_streamon never turn a queue off.
LEMMA StreamedOnState ==
    ASSUME NEW s \in State, NEW q \in Queue
    PROVE  StreamedOn(s, q) \in State /\ (s.out => StreamedOn(s, q).out)
<1>1. /\ s.in \in BOOLEAN /\ s.out \in BOOLEAN
  BY StateFields
<1> DEFINE in == (s.in \/ q = "OUTPUT")
           out == (s.out \/ q = "CAPTURE")
<1>2. in \in BOOLEAN /\ out \in BOOLEAN /\ (s.out => out)
  BY <1>1
<1> HIDE DEF in, out
<1>3. /\ StreamedOn(s, q) \in {s, Running, Stopped(in, out)}
  BY DEF StreamedOn, in, out
<1>4. Stopped(in, out) \in State /\ Stopped(in, out).out = out /\ Running \in State /\ Running.out
  BY <1>2 DEF State, Stopped, Running
<1> QED BY <1>2, <1>3, <1>4

\* input_streamoff and output_streamoff.
LEMMA StreamedOffState ==
    ASSUME NEW s \in State
    PROVE  /\ \A q \in Queue : StreamedOff(s, q) \in State
           /\ StreamedOff(s, "OUTPUT").out = s.out /\ StreamedOff(s, "CAPTURE").out = FALSE
<1>1. s.in \in BOOLEAN /\ s.out \in BOOLEAN
  BY StateFields
<1>2. \A in, out \in BOOLEAN : Stopped(in, out) \in State /\ Stopped(in, out).out = out
  BY DEF State, Stopped
<1>3. StreamedOff(s, "OUTPUT") = Stopped(FALSE, s.out)
  BY DEF StreamedOff
<1>4. \A q \in Queue : q # "OUTPUT" => StreamedOff(s, q) = Stopped(s.in, FALSE)
  BY DEF StreamedOff
<1> QED BY <1>1, <1>2, <1>3, <1>4 DEF Queue

\* The events, told apart by their kind.
LEMMA EventKinds ==
    ASSUME NEW e \in Event
    PROVE  /\ IsDone(e) \/ IsFrame(e) \/ IsChange(e)
           /\ IsDone(e) => e.index \in Index /\ e.qbuf \in 1 .. MaxQbufs /\ ~IsFrame(e)
           /\ IsFrame(e) => /\ e.index \in Index /\ e.qbuf \in 1 .. MaxQbufs /\ e.mark \in Mark
                            /\ ~IsDone(e) /\ ~IsChange(e)
BY DEF Event, IsDone, IsFrame, IsChange

\* The events the backend makes.
LEMMA EventsMade ==
    /\ \A b \in Tagged, error \in BOOLEAN :
          LET e == [kind |-> "InputBufferDone", index |-> b.index, qbuf |-> b.qbuf,
                    error |-> error]
          IN  e \in Event /\ IsDone(e) /\ ~IsFrame(e) /\ e.index = b.index /\ e.qbuf = b.qbuf
    /\ \A b \in Tagged, mark \in Mark :
          LET e == Frame(b, mark)
          IN  /\ e \in Event /\ IsFrame(e) /\ ~IsDone(e) /\ e.index = b.index
              /\ e.qbuf = b.qbuf /\ e.mark = mark
    /\ LET e == [kind |-> "StreamFormatChanged"]
       IN  e \in Event /\ IsChange(e) /\ ~IsFrame(e) /\ ~IsDone(e)
<1>1. ASSUME NEW b \in Tagged, NEW error \in BOOLEAN
      PROVE  LET e == [kind |-> "InputBufferDone", index |-> b.index, qbuf |-> b.qbuf,
                       error |-> error]
             IN  e \in Event /\ IsDone(e) /\ ~IsFrame(e) /\ e.index = b.index /\ e.qbuf = b.qbuf
  BY DEF Tagged, Event, IsDone, IsFrame
<1>2. ASSUME NEW b \in Tagged, NEW mark \in Mark
      PROVE  LET e == Frame(b, mark)
             IN  /\ e \in Event /\ IsFrame(e) /\ ~IsDone(e) /\ e.index = b.index
                 /\ e.qbuf = b.qbuf /\ e.mark = mark
  BY DEF Tagged, Event, IsDone, IsFrame, Frame
<1>3. LET e == [kind |-> "StreamFormatChanged"]
      IN  e \in Event /\ IsChange(e) /\ ~IsFrame(e) /\ ~IsDone(e)
  BY DEF Event, IsChange, IsFrame, IsDone
<1> QED BY <1>1, <1>2, <1>3

\* The first n elements of a sequence.
LEMMA Prefix ==
    ASSUME NEW S, NEW p \in Seq(S), NEW n \in 0 .. Len(p)
    PROVE  /\ SubSeq(p, 1, n) \in Seq(S) /\ Len(SubSeq(p, 1, n)) = n
           /\ DOMAIN SubSeq(p, 1, n) = 1 .. n /\ 1 .. n \subseteq DOMAIN p
           /\ \A i \in 1 .. n : SubSeq(p, 1, n)[i] = p[i]
<1> DEFINE r == SubSeq(p, 1, n)
<1>1. Len(p) \in Nat /\ DOMAIN p = 1 .. Len(p) /\ \A i \in DOMAIN p : p[i] \in S
  OBVIOUS
<1>2. n \in Int /\ 1 \in Int /\ \A i \in 1 .. n : i \in DOMAIN p
  BY <1>1
<1>3. \A i \in 1 .. n : p[i] \in S
  BY <1>1, <1>2
<1>4. /\ r \in Seq(S) /\ Len(r) = IF 1 <= n THEN n - 1 + 1 ELSE 0
      /\ \A i \in 1 .. n - 1 + 1 : r[i] = p[1 + i - 1]
  BY <1>2, <1>3, SubSeqProperties
<1> HIDE DEF r
<1>5. r \in Seq(S)
  BY <1>4
<1>6. DOMAIN r = 1 .. Len(r)
  BY <1>5
<1>7. n \in Nat
  BY <1>1
<1>8. Len(r) = n
  BY <1>4, <1>7
<1>9. \A i \in 1 .. n : i \in 1 .. n - 1 + 1 /\ 1 + i - 1 = i
  BY <1>7
<1>10. \A i \in 1 .. n : r[i] = p[i]
  BY <1>4, <1>9
<1> QED BY <1>2, <1>5, <1>6, <1>8, <1>10 DEF r

\* They are among its elements.
LEMMA PrefixSet ==
    ASSUME NEW S, NEW p \in Seq(S), NEW n \in 0 .. Len(p)
    PROVE  ToSet(SubSeq(p, 1, n)) \subseteq ToSet(p) /\ ToSet(p) \subseteq S
<1> DEFINE r == SubSeq(p, 1, n)
<1>1. \A i \in DOMAIN p : p[i] \in S
  OBVIOUS
<1>2. DOMAIN r = 1 .. n /\ 1 .. n \subseteq DOMAIN p /\ \A i \in 1 .. n : r[i] = p[i]
  BY Prefix
<1> HIDE DEF r
<1> QED BY <1>1, <1>2 DEF ToSet, r

\* try_send_pending_output_buffers gives the backend nothing while CAPTURE is stopped or
\* paused.
LEMMA PendingSent ==
    ASSUME PlacesTyped, life \in {"open", "closed", "panicked"}, NEW s, NEW ok,
           NEW p \in Seq(Tagged), TrySendPending(s, p, ok)
    PROVE  /\ pending_output_buffers' \in Seq(Tagged) /\ be_outputs' \subseteq Tagged
           /\ life' \in {"open", "closed", "panicked"}
           /\ ~IsOutputStreaming(s) => be_outputs' = be_outputs
<1>1. \A n \in 0 .. Len(p) : ToSet(SubSeq(p, 1, n)) \subseteq Tagged
  BY PrefixSet
<1>2. Len(p) \in Nat /\ <<>> \in Seq(Tagged) /\ be_outputs \subseteq Tagged
  BY DEF PlacesTyped
<1> DEFINE known == {k \in DOMAIN p : p[k].index \in DOMAIN flags["CAPTURE"]}
           Send(n) == be_outputs' = be_outputs \cup IF be_accepting' THEN ToSet(SubSeq(p, 1, n))
                                                                     ELSE {}
<1>3. \A n \in 0 .. Len(p) : Send(n) => be_outputs' \subseteq Tagged
  BY <1>1, <1>2
<1>4. \/ /\ ~IsOutputStreaming(s) /\ pending_output_buffers' = p
         /\ UNCHANGED <<be_outputs, life>>
      \/ /\ IsOutputStreaming(s) /\ pending_output_buffers' = <<>>
         /\ Send(Len(p)) /\ UNCHANGED life
      \/ /\ IsOutputStreaming(s) /\ pending_output_buffers' = <<>>
         /\ life' = "panicked" /\ UNCHANGED be_outputs
      \/ /\ IsOutputStreaming(s) /\ pending_output_buffers' = <<>>
         /\ (\E n \in 0 .. Len(p) - 1 : Send(n)) /\ UNCHANGED life
  BY DEF TrySendPending
<1>5. Len(p) \in 0 .. Len(p) /\ \A n \in 0 .. Len(p) - 1 : n \in 0 .. Len(p)
  BY <1>2
<1> HIDE DEF Send
<1> QED BY <1>2, <1>3, <1>4, <1>5

\* Reporting events one at a time or in a sequence is the same.
LEMMA Concatenated ==
    ASSUME NEW S, NEW s \in Seq(S), NEW d \in S, NEW e \in S
    PROVE  /\ s \o <<e>> = Append(s, e)
           /\ s \o Append(<<d>>, e) = Append(Append(s, d), e)
<1>1. <<d>> \in Seq(S) /\ <<e>> \in Seq(S) /\ Append(s, d) \in Seq(S)
  OBVIOUS
<1>2. \A t \in Seq(S) : Append(t, e) = t \o <<e>> /\ Append(t, d) = t \o <<d>>
  BY AppendIsConcat
<1>3. (s \o <<d>>) \o <<e>> = s \o (<<d>> \o <<e>>)
  BY <1>1, ConcatAssociative
<1> QED BY <1>1, <1>2, <1>3, Zenon

\* Setting one element keeps a sequence a sequence.
LEMMA ElementSet ==
    ASSUME NEW S, NEW s \in Seq(S), NEW i, NEW v \in S
    PROVE  /\ [s EXCEPT ![i] = v] \in Seq(S) /\ Len([s EXCEPT ![i] = v]) = Len(s)
           /\ DOMAIN [s EXCEPT ![i] = v] = DOMAIN s
<1> DEFINE n == Len(s)
           b == [s EXCEPT ![i] = v]
<1>1. n \in Nat /\ DOMAIN s = 1 .. n /\ s \in [1 .. n -> S]
  OBVIOUS
<1> HIDE DEF n
<1>2. b \in [1 .. n -> S] /\ DOMAIN b = 1 .. n
  BY <1>1
<1> HIDE DEF b
<1>3. b \in Seq(S) /\ Len(b) = n
  BY <1>1, <1>2
<1> QED BY <1>1, <1>2, <1>3 DEF n, b

\* The flags of one queue are replaced.
LEMMA FlagsSet ==
    ASSUME SessionTyped, NEW q \in Queue, NEW s \in Seq(SUBSET Flag), Len(s) <= MaxBufs,
           flags' = [flags EXCEPT ![q] = s]
    PROVE  /\ flags' \in [Queue -> Seq(SUBSET Flag)] /\ \A r \in Queue : Len(flags'[r]) <= MaxBufs
           /\ flags'[q] = s /\ \A r \in Queue : r # q => flags'[r] = flags[r]
BY DEF SessionTyped

\* The flags of one buffer are replaced.
LEMMA FlagSet ==
    ASSUME SessionTyped, NEW q \in Queue, NEW i, NEW v \in SUBSET Flag,
           flags' = [flags EXCEPT ![q][i] = v]
    PROVE  /\ flags' \in [Queue -> Seq(SUBSET Flag)] /\ \A r \in Queue : Len(flags'[r]) <= MaxBufs
           /\ flags'[q] = [flags[q] EXCEPT ![i] = v]
           /\ \A r \in Queue : r # q => flags'[r] = flags[r]
<1>1. flags[q] \in Seq(SUBSET Flag) /\ Len(flags[q]) <= MaxBufs
  BY DEF SessionTyped
<1> DEFINE s == [flags[q] EXCEPT ![i] = v]
<1>2. s \in Seq(SUBSET Flag) /\ Len(s) = Len(flags[q])
  BY <1>1, ElementSet
<1>3. flags' = [flags EXCEPT ![q] = s]
  OBVIOUS
<1> HIDE DEF s
<1>4. Len(s) <= MaxBufs
  BY <1>1, <1>2
<1>5. /\ flags' \in [Queue -> Seq(SUBSET Flag)] /\ \A r \in Queue : Len(flags'[r]) <= MaxBufs
      /\ flags'[q] = s /\ \A r \in Queue : r # q => flags'[r] = flags[r]
  BY <1>2, <1>3, <1>4, FlagsSet
<1> QED BY <1>5 DEF s

\* The QUEUED flags of a queue are dropped.
LEMMA UnqueuedFlags ==
    ASSUME SessionTyped, NEW q \in Queue
    PROVE  /\ Unqueued(q) \in Seq(SUBSET Flag) /\ Len(Unqueued(q)) = Len(flags[q])
           /\ DOMAIN Unqueued(q) = DOMAIN flags[q]
           /\ \A i \in DOMAIN flags[q] : Unqueued(q)[i] = flags[q][i] \ {"QUEUED"}
<1> DEFINE n == Len(flags[q])
           b == Unqueued(q)
<1>1. flags[q] \in Seq(SUBSET Flag)
  BY DEF SessionTyped
<1>2. n \in Nat /\ DOMAIN flags[q] = 1 .. n /\ \A i \in 1 .. n : flags[q][i] \in SUBSET Flag
  BY <1>1
<1>3. b \in [1 .. n -> SUBSET Flag] /\ \A i \in 1 .. n : b[i] = flags[q][i] \ {"QUEUED"}
  BY <1>2 DEF Unqueued
<1> HIDE DEF n, b
<1>4. b \in Seq(SUBSET Flag) /\ Len(b) = n /\ DOMAIN b = 1 .. n
  BY <1>2, <1>3
<1> QED BY <1>2, <1>3, <1>4 DEF n, b

-----------------------------------------------------------------------------
(* The commands preserve the invariant, for every guest.                   *)

\* A successful reqbufs changes the flags and the guest's view.
LEMMA ReqbufsKeeps ==
    ASSUME Inv, NEW q \in Queue, NEW s \in Seq(SUBSET Flag), Len(s) <= MaxBufs,
           flags' = [flags EXCEPT ![q] = s], GuestReqbufs(q)
    PROVE  Inv'
<1> USE DEF Inv, GuestReqbufs
<1>1. SessionTyped'
  BY FlagsSet DEF SessionTyped
<1>2. PlacesTyped' /\ CaptureQuiet' /\ ChangesMarked' /\ NoEosAtChange'
  BY DEF backendVars, PlacesTyped, CaptureQuiet, ChangesMarked, NoEosAtChange
<1>3. GuestTyped'
  BY DEF historyVars, GuestTyped
<1> QED BY <1>1, <1>2, <1>3

\* reqbufs to fewer buffers.
LEMMA ShrinkInv == ASSUME Inv, NEW q \in Queue, NEW n \in 0 .. MaxBufs, Shrink(q, n) PROVE Inv'
<1> DEFINE s == SubSeq(flags[q], 1, n)
<1>1. flags[q] \in Seq(SUBSET Flag)
  BY DEF Inv, SessionTyped
<1>2. n \in 0 .. Len(flags[q]) /\ n <= MaxBufs
  BY <1>1, DecoderAssumption DEF Shrink
<1>3. s \in Seq(SUBSET Flag) /\ Len(s) <= MaxBufs
  BY <1>1, <1>2, Prefix
<1>4. flags' = [flags EXCEPT ![q] = s] /\ GuestReqbufs(q)
  BY DEF Shrink
<1> QED BY <1>3, <1>4, ReqbufsKeeps

\* The flags of a queue that grows: the ones it had, then empty ones.
LEMMA GrownFlags ==
    ASSUME SessionTyped, NEW q \in Queue, NEW n \in 0 .. MaxBufs, Grow(q, n)
    PROVE  \E s \in Seq(SUBSET Flag) :
              /\ Len(s) = n /\ flags' = [flags EXCEPT ![q] = s]
              /\ Len(flags[q]) <= n
              /\ \A i \in 1 .. n : s[i] = IF i <= Len(flags[q]) THEN flags[q][i] ELSE {}
<1> DEFINE m == Len(flags[q])
           s == [i \in 1 .. n |-> IF i <= m THEN flags[q][i] ELSE {}]
<1>1. flags[q] \in Seq(SUBSET Flag) /\ n \in Nat
  BY DecoderAssumption DEF SessionTyped
<1>2. m \in Nat /\ DOMAIN flags[q] = 1 .. m /\ \A i \in 1 .. m : flags[q][i] \in SUBSET Flag
  BY <1>1
<1>3. flags' = [flags EXCEPT ![q] = s] /\ m <= n
  BY <1>1, <1>2 DEF Grow
<1>4. s \in [1 .. n -> SUBSET Flag] /\ \A i \in 1 .. n : s[i] = IF i <= m THEN flags[q][i] ELSE {}
  BY <1>1, <1>2
<1> HIDE DEF s
<1>5. s \in Seq(SUBSET Flag) /\ Len(s) = n
  BY <1>1, <1>4
<1> QED BY <1>3, <1>4, <1>5

\* reqbufs to as many buffers or more.
LEMMA GrowInv == ASSUME Inv, NEW q \in Queue, NEW n \in 0 .. MaxBufs, Grow(q, n) PROVE Inv'
<1>1. PICK s \in Seq(SUBSET Flag) : Len(s) = n /\ flags' = [flags EXCEPT ![q] = s]
  BY GrownFlags DEF Inv
<1>2. Len(s) <= MaxBufs
  BY <1>1, DecoderAssumption
<1>3. GuestReqbufs(q)
  BY DEF Grow
<1> QED BY <1>1, <1>2, <1>3, ReqbufsKeeps

\* reqbufs that fails leaves the buffers as they are.
LEMMA GrowFailsInv == ASSUME Inv, NEW q, NEW n, NEW k, GrowFails(q, n, k) PROVE Inv'
BY DEF Inv, GrowFails, SessionTyped, PlacesTyped, GuestTyped, CaptureQuiet, ChangesMarked,
       NoEosAtChange, backendVars, guestVars, historyVars

\* What the commands that try to send the pending buffers have in common.
LEMMA SendKeeps ==
    ASSUME Inv, NEW ok, NEW p \in Seq(Tagged), TrySendPending(state', p, ok),
           ~state'.out => ~state.out,
           be_inputs' = be_inputs, be_events' = be_events, be_accepting' \in BOOLEAN,
           be_changes' = be_changes, format_change_pending' = format_change_pending,
           guest_told' = guest_told
    PROVE  /\ PlacesTyped' /\ CaptureQuiet' /\ ChangesMarked' /\ NoEosAtChange'
           /\ life' \in {"open", "closed", "panicked"}
<1>1. /\ pending_output_buffers' \in Seq(Tagged) /\ be_outputs' \subseteq Tagged
      /\ life' \in {"open", "closed", "panicked"}
      /\ ~IsOutputStreaming(state') => be_outputs' = be_outputs
  BY PendingSent DEF Inv, SessionTyped
<1>2. PlacesTyped'
  BY <1>1 DEF Inv, PlacesTyped
<1>3. CaptureQuiet'
  BY <1>1 DEF Inv, CaptureQuiet, IsOutputStreaming
<1>4. ChangesMarked' /\ NoEosAtChange'
  BY DEF Inv, ChangesMarked, NoEosAtChange
<1> QED BY <1>1, <1>2, <1>3, <1>4

\* streamon sends nothing for a CAPTURE queue that does not stream.
LEMMA StreamOnInv ==
    ASSUME Inv, NEW q \in Queue, NEW ok \in BOOLEAN, StreamOn(q, ok)
    PROVE  Inv'
<1> USE DEF StreamOn
<1>1. state \in State /\ pending_output_buffers \in Seq(Tagged) /\ be_accepting \in BOOLEAN
  BY DEF Inv, SessionTyped, PlacesTyped
<1>2. state' \in State /\ (~state'.out => ~state.out)
  BY <1>1, StreamedOnState
<1>3. be_accepting' \in BOOLEAN
  OBVIOUS
<1>4. /\ PlacesTyped' /\ CaptureQuiet' /\ ChangesMarked' /\ NoEosAtChange'
      /\ life' \in {"open", "closed", "panicked"}
  BY <1>1, <1>2, <1>3, SendKeeps
<1>5. SessionTyped' /\ GuestTyped'
  BY <1>2, <1>4 DEF Inv, SessionTyped, GuestTyped, historyVars
<1> QED BY <1>4, <1>5 DEF Inv

\* Without frames among the events, no mark is wrong.
LEMMA NoFramesNoMarks ==
    ASSUME \A k \in DOMAIN be_events : be_events[k].kind # "FrameCompleted"
    PROVE  ChangesMarked
BY DEF ChangesMarked, IsFrame

\* clear_output_buffers leaves the events that are no frames.
LEMMA EventsCleared ==
    ASSUME be_events \in Seq(Event), ClearOutputBuffers
    PROVE  /\ be_outputs' = {} /\ be_events' \in Seq(Event)
           /\ \E place \in [DOMAIN be_events' -> DOMAIN be_events] :
                 /\ \A m, n \in DOMAIN be_events' : place[m] = place[n] => m = n
                 /\ \A n \in DOMAIN be_events' : /\ be_events'[n] = be_events[place[n]]
                                                 /\ be_events'[n].kind # "FrameCompleted"
<1> DEFINE stay == {k \in DOMAIN be_events : be_events[k].kind # "FrameCompleted"}
           c == Cardinality(stay)
<1>1. Len(be_events) \in Nat /\ DOMAIN be_events = 1 .. Len(be_events)
      /\ \A k \in DOMAIN be_events : be_events[k] \in Event
  OBVIOUS
<1>2. IsFiniteSet(1 .. Len(be_events)) /\ stay \subseteq 1 .. Len(be_events)
  BY <1>1, FS_Interval
<1>3. c \in Nat
  BY <1>2, FS_Subset, FS_CardinalityType
<1>4. PICK place \in [1 .. c -> stay] :
          /\ \A m, n \in DOMAIN place : m < n => place[m] < place[n]
          /\ be_outputs' = {} /\ be_events' = [n \in DOMAIN place |-> be_events[place[n]]]
  BY DEF ClearOutputBuffers
<1> HIDE DEF c
<1>5. DOMAIN place = 1 .. c /\ \A n \in 1 .. c : place[n] \in stay
  BY <1>4
<1>6. /\ be_events' \in [1 .. c -> Event] /\ DOMAIN be_events' = 1 .. c
      /\ \A n \in 1 .. c : be_events'[n] = be_events[place[n]]
  BY <1>1, <1>4, <1>5
<1>7. be_events' \in Seq(Event)
  BY <1>3, <1>6
<1>8. \A n \in 1 .. c : /\ be_events'[n] = be_events[place[n]] /\ place[n] \in DOMAIN be_events
                        /\ be_events'[n].kind # "FrameCompleted"
  BY <1>5, <1>6
<1>9. ASSUME NEW m \in 1 .. c, NEW n \in 1 .. c, place[m] = place[n] PROVE m = n
  <2>1. m \in Int /\ n \in Int /\ place[m] \in Int /\ place[n] \in Int
    BY <1>1, <1>3, <1>8
  <2>2. ~(m < n) /\ ~(n < m)
    BY <1>4, <1>5, <1>9, <2>1
  <2> QED BY <2>1, <2>2
<1>10. place \in [DOMAIN be_events' -> DOMAIN be_events]
  BY <1>4, <1>6
<1>11. \A m, n \in DOMAIN be_events' : place[m] = place[n] => m = n
  BY <1>6, <1>9
<1>12. \A n \in DOMAIN be_events' : /\ be_events'[n] = be_events[place[n]]
                                    /\ be_events'[n].kind # "FrameCompleted"
  BY <1>6, <1>8
<1> QED BY <1>4, <1>7, <1>10, <1>11, <1>12

\* streamoff of CAPTURE leaves no buffer with the backend and no frame.
LEMMA StreamOffCaptureInv == ASSUME Inv, StreamOffCapture PROVE Inv'
<1> USE DEF StreamOffCapture
<1> DEFINE u == Unqueued("CAPTURE")
<1>1. SessionTyped /\ be_events \in Seq(Event) /\ "CAPTURE" \in Queue /\ state \in State
  BY DEF Inv, PlacesTyped, SessionTyped, Queue
<1>2. be_outputs' = {} /\ be_events' \in Seq(Event)
      /\ \A k \in DOMAIN be_events' : be_events'[k].kind # "FrameCompleted"
  BY <1>1, EventsCleared
<1>3. u \in Seq(SUBSET Flag) /\ Len(u) <= MaxBufs /\ flags' = [flags EXCEPT !["CAPTURE"] = u]
  BY <1>1, UnqueuedFlags DEF SessionTyped
<1>4. state' \in State
  BY <1>1, StreamedOffState
<1> HIDE DEF u
<1>5. SessionTyped'
  BY <1>1, <1>3, <1>4, FlagsSet DEF SessionTyped
<1>6. CaptureQuiet' /\ ChangesMarked'
  BY <1>2, NoFramesNoMarks DEF CaptureQuiet, ChangesMarked, IsFrame
<1>7. PlacesTyped'
  BY <1>2 DEF Inv, PlacesTyped
<1>8. GuestTyped' /\ NoEosAtChange'
  BY DEF Inv, GuestStopped, GuestTyped, historyVars, NoEosAtChange
<1> QED BY <1>5, <1>6, <1>7, <1>8 DEF Inv

\* streamoff of OUTPUT does not concern CAPTURE.
LEMMA StreamOffOutputInv == ASSUME Inv, StreamOffOutput PROVE Inv'
<1> USE DEF StreamOffOutput
<1> DEFINE u == Unqueued("OUTPUT")
<1>1. SessionTyped /\ "OUTPUT" \in Queue /\ state \in State
  BY DEF Inv, SessionTyped, Queue
<1>2. u \in Seq(SUBSET Flag) /\ Len(u) <= MaxBufs /\ flags' = [flags EXCEPT !["OUTPUT"] = u]
  BY <1>1, UnqueuedFlags DEF SessionTyped
<1>3. state' \in State /\ state'.out = state.out
  BY <1>1, StreamedOffState
<1> HIDE DEF u
<1>4. SessionTyped'
  BY <1>1, <1>2, <1>3, FlagsSet DEF SessionTyped
<1>5. PlacesTyped' /\ CaptureQuiet' /\ ChangesMarked'
  BY <1>3 DEF Inv, backendVars, PlacesTyped, CaptureQuiet, ChangesMarked
<1>6. GuestTyped' /\ NoEosAtChange'
  BY DEF Inv, GuestStopped, GuestTyped, historyVars, NoEosAtChange
<1> QED BY <1>4, <1>5, <1>6 DEF Inv

\* A QBUF of the guest, and the tagged buffer it stands for.
LEMMA GuestQueuesTyped ==
    ASSUME Inv, NEW q \in Queue, NEW i \in Index, NEW ok \in BOOLEAN, GuestQueues(q, i, ok)
    PROVE  /\ GuestTyped' /\ NoEosAtChange' /\ guest_told' = guest_told
           /\ [index |-> i, qbuf |-> qbufs + 1] \in Tagged
<1> USE DEF GuestQueues
<1>1. qbufs + 1 \in 1 .. MaxQbufs /\ qbufs + 1 \in 0 .. MaxQbufs
  BY DecoderAssumption DEF Inv, GuestTyped
<1>2. [index |-> i, qbuf |-> qbufs + 1] \in Tagged
  BY <1>1 DEF Tagged
<1>3. last_qbuf' \in [Queue -> [Index -> 0 .. MaxQbufs]]
  BY <1>1 DEF Inv, GuestTyped
<1>4. guest_queued' \in [Queue -> SUBSET Index]
  BY DEF Inv, GuestTyped
<1> QED BY <1>1, <1>2, <1>3, <1>4 DEF Inv, GuestTyped, NoEosAtChange

\* qbuf on OUTPUT.
LEMMA QbufOutputInv ==
    ASSUME Inv, NEW i \in Index, NEW ok \in BOOLEAN, QbufOutput(i, ok)
    PROVE  Inv'
<1> USE DEF QbufOutput
<1> DEFINE b == [index |-> i, qbuf |-> qbufs + 1]
           v == flags["OUTPUT"][i] \cup {"QUEUED"}
<1>1. SessionTyped /\ "OUTPUT" \in Queue /\ i \in DOMAIN flags["OUTPUT"]
  BY DEF Inv, Queue, GuestQueues
<1>2. GuestTyped' /\ NoEosAtChange' /\ guest_told' = guest_told /\ b \in Tagged
  BY <1>1, GuestQueuesTyped
<1>3. v \in SUBSET Flag /\ flags' \in {flags, [flags EXCEPT !["OUTPUT"][i] = v]}
  BY <1>1 DEF SessionTyped, Flag
<1>4. be_inputs' \in {be_inputs, Append(be_inputs, b)}
  OBVIOUS
<1> HIDE DEF b, v
<1>5. SessionTyped'
  BY <1>1, <1>3, FlagSet DEF SessionTyped
<1>6. be_inputs \in Seq(Tagged)
  BY DEF Inv, PlacesTyped
<1>7. Append(be_inputs, b) \in Seq(Tagged)
  BY <1>2, <1>6
<1>8. PlacesTyped' /\ CaptureQuiet' /\ ChangesMarked'
  BY <1>4, <1>6, <1>7 DEF Inv, PlacesTyped, CaptureQuiet, ChangesMarked
<1> QED BY <1>2, <1>5, <1>8 DEF Inv

\* qbuf on CAPTURE sends the buffer only when the queue streams.
LEMMA QbufCaptureInv ==
    ASSUME Inv, NEW i \in Index, NEW ok \in BOOLEAN, QbufCapture(i, ok)
    PROVE  Inv'
<1> USE DEF QbufCapture
<1> DEFINE b == [index |-> i, qbuf |-> qbufs + 1]
           v == (flags["CAPTURE"][i] \cup {"QUEUED"}) \ {"LAST"}
           p == Append(pending_output_buffers, b)
<1>1. SessionTyped /\ "CAPTURE" \in Queue /\ i \in DOMAIN flags["CAPTURE"]
  BY DEF Inv, Queue, GuestQueues
<1>2. GuestTyped' /\ NoEosAtChange' /\ guest_told' = guest_told /\ b \in Tagged
  BY <1>1, GuestQueuesTyped
<1>3. v \in SUBSET Flag /\ flags' = [flags EXCEPT !["CAPTURE"][i] = v]
  BY <1>1 DEF SessionTyped, Flag
<1>4. TrySendPending(state, p, ok)
  OBVIOUS
<1>5. state' = state /\ TrySendPending(state', p, ok)
  BY <1>4
<1> HIDE DEF b, v, p
<1>6. pending_output_buffers \in Seq(Tagged) /\ be_accepting' \in BOOLEAN
  BY DEF Inv, PlacesTyped
<1>7. p \in Seq(Tagged)
  BY <1>2, <1>6 DEF p
<1>8. /\ PlacesTyped' /\ CaptureQuiet' /\ ChangesMarked'
      /\ life' \in {"open", "closed", "panicked"}
  BY <1>2, <1>5, <1>6, <1>7, SendKeeps
<1>9. SessionTyped'
  BY <1>1, <1>3, <1>8, FlagSet DEF SessionTyped
<1> QED BY <1>2, <1>8, <1>9 DEF Inv

\* The commands that change the state of the decoder, not its buffers.
LEMMA StateInv ==
    ASSUME Inv, state' \in State, ~state'.out => ~state.out,
           UNCHANGED <<flags, life, format_change_pending, pending_output_buffers, be_inputs,
                       be_outputs, be_events, be_accepting, be_changes, guestVars, historyVars>>
    PROVE  Inv'
BY DEF Inv, SessionTyped, PlacesTyped, GuestTyped, CaptureQuiet, ChangesMarked, NoEosAtChange,
       guestVars, historyVars

\* decoder_cmd with Stop.
LEMMA CmdStopInv == ASSUME Inv, CmdStop PROVE Inv'
<1>1. \A in, out \in BOOLEAN : Stopped(in, out) \in State /\ Stopped(in, out).out = out
  BY DEF State, Stopped
<1>2. state' \in {state, Stopped(TRUE, TRUE)}
  BY DEF CmdStop
<1>3. state' \in State /\ (~state'.out => ~state.out)
  BY <1>1, <1>2 DEF Inv, SessionTyped
<1> QED BY <1>3, StateInv DEF CmdStop

\* decoder_cmd with Start.
LEMMA CmdStartInv == ASSUME Inv, NEW ok \in BOOLEAN, CmdStart(ok) PROVE Inv'
<1> USE DEF CmdStart
<1>1. /\ Running \in State /\ Running.out = TRUE /\ state \in State
      /\ pending_output_buffers \in Seq(Tagged)
  BY DEF State, Running, Inv, SessionTyped, PlacesTyped
<1>2. state' \in State /\ (~state'.out => ~state.out)
  BY <1>1
<1>3. be_accepting' \in BOOLEAN
  OBVIOUS
<1>4. guest_told' = guest_told
  BY DEF guestVars
<1>5. /\ PlacesTyped' /\ CaptureQuiet' /\ ChangesMarked' /\ NoEosAtChange'
      /\ life' \in {"open", "closed", "panicked"}
  BY <1>1, <1>2, <1>3, <1>4, SendKeeps
<1>6. SessionTyped' /\ GuestTyped'
  BY <1>2, <1>5 DEF Inv, SessionTyped, GuestTyped, historyVars, guestVars
<1> QED BY <1>5, <1>6 DEF Inv

\* decoder_cmd with Pause and Resume.
LEMMA PauseInv == ASSUME Inv, CmdPause \/ CmdResume PROVE Inv'
<1>1. Running \in State /\ Paused \in State /\ Running.out /\ Paused.out
  BY DEF State, Running, Paused
<1> QED BY <1>1, StateInv DEF CmdPause, CmdResume, backendVars

\* subscribe_event and unsubscribe_event.
LEMMA SubscriptionInv ==
    ASSUME Inv, NEW e, Subscribe(e) \/ Unsubscribe(e)
    PROVE  Inv'
BY StateInv DEF Subscribe, Unsubscribe, backendVars, Inv, SessionTyped

\* close_session.
LEMMA CloseSessionInv == ASSUME Inv, CloseSession PROVE Inv'
<1> USE DEF CloseSession
<1>1. <<>> \in Seq(SUBSET Flag) /\ Len(<<>>) = 0 /\ 0 <= MaxBufs
  BY DecoderAssumption
<1>2. SessionTyped'
  BY <1>1 DEF Inv, SessionTyped
<1>3. PlacesTyped' /\ GuestTyped' /\ CaptureQuiet' /\ ChangesMarked' /\ NoEosAtChange'
  BY DEF Inv, PlacesTyped, GuestTyped, CaptureQuiet, ChangesMarked, NoEosAtChange,
         backendVars, guestVars, historyVars
<1> QED BY <1>2, <1>3 DEF Inv

-----------------------------------------------------------------------------
(* The events and the backend preserve the invariant, for every backend.   *)

\* Taking an event off the queue keeps the marks in order when a format change that was
\* first is now pending.
LEMMA MarksPopped ==
    ASSUME ChangesMarked, be_events \in Seq(Event), be_events # <<>>, be_events' = Tail(be_events),
           IsChange(Head(be_events)) => format_change_pending'
    PROVE  ChangesMarked'
<1> SUFFICES ASSUME NEW k \in DOMAIN Tail(be_events), IsFrame(Tail(be_events)[k]),
                    Tail(be_events)[k].mark = "change"
             PROVE  IF k = 1 THEN format_change_pending' ELSE IsChange(Tail(be_events)[k - 1])
  BY DEF ChangesMarked, IsFrame, IsChange
<1>1. /\ k + 1 \in DOMAIN be_events /\ k + 1 # 1 /\ k \in Nat /\ Tail(be_events)[k] = be_events[k + 1]
      /\ Head(be_events) = be_events[1]
  BY Popped
<1>2. IsChange(be_events[k + 1 - 1]) /\ k + 1 - 1 = k
  BY <1>1 DEF ChangesMarked
<1>3. CASE k = 1
  BY <1>1, <1>2, <1>3
<1>4. CASE k # 1
  <2>1. k \in DOMAIN be_events /\ Tail(be_events)[k - 1] = be_events[k]
    BY <1>4
  <2> QED BY <1>2, <1>4, <2>1
<1> QED BY <1>3, <1>4

\* What taking an event has in common for every kind of event.
LEMMA EventTaken ==
    ASSUME Inv, NEW kind, NextEvent(kind), IsChange(Head(be_events)) => format_change_pending'
    PROVE  PlacesTyped' /\ CaptureQuiet' /\ ChangesMarked'
<1> USE DEF NextEvent
<1>1. be_events \in Seq(Event) /\ be_events # <<>> /\ be_events' = Tail(be_events)
  BY DEF Inv, PlacesTyped
<1>2. Tail(be_events) \in Seq(Event)
      /\ \A k \in DOMAIN Tail(be_events) : k + 1 \in DOMAIN be_events
                                           /\ Tail(be_events)[k] = be_events[k + 1]
  BY <1>1, Popped
<1>3. PlacesTyped'
  BY <1>1, <1>2 DEF Inv, PlacesTyped
<1>4. CaptureQuiet'
  BY <1>1, <1>2 DEF Inv, CaptureQuiet
<1>5. ChangesMarked'
  BY <1>1, MarksPopped DEF Inv
<1> QED BY <1>3, <1>4, <1>5

\* The guest gets a buffer back.
LEMMA DqbufTyped ==
    ASSUME GuestTyped, NEW q \in Queue, NEW i, NEW n, SendDqbuf(q, i, n)
    PROVE  guest_queued' \in [Queue -> SUBSET Index] /\ stale' \in BOOLEAN
BY DEF GuestTyped, SendDqbuf

\* process_events, for a consumed input.
LEMMA InputBufferDoneInv == ASSUME Inv, InputBufferDone PROVE Inv'
<1> USE DEF InputBufferDone
<1> DEFINE e == Head(be_events)
           rest == flags["OUTPUT"][e.index] \ {"QUEUED"}
           v == IF e.error THEN rest \cup {"ERROR"} ELSE rest
<1>1. NextEvent("InputBufferDone") /\ e.kind = "InputBufferDone" /\ ~IsChange(e)
  BY DEF NextEvent, IsChange
<1>2. SessionTyped /\ GuestTyped /\ "OUTPUT" \in Queue
  BY DEF Inv, Queue
<1>3. PlacesTyped' /\ CaptureQuiet' /\ ChangesMarked'
  BY <1>1, EventTaken
<1>4. CASE e.index \in DOMAIN flags["OUTPUT"]
  <2>1. flags' = [flags EXCEPT !["OUTPUT"][e.index] = v] /\ SendDqbuf("OUTPUT", e.index, e.qbuf)
        /\ UNCHANGED <<format_change_pending, guest_told>>
    BY <1>4
  <2>2. v \in SUBSET Flag
    BY <1>2, <1>4 DEF SessionTyped, Flag
  <2> HIDE DEF e, v
  <2>3. SessionTyped'
    BY <1>1, <1>2, <2>1, <2>2, FlagSet DEF SessionTyped, NextEvent
  <2>4. GuestTyped'
    BY <1>1, <1>2, <2>1, DqbufTyped DEF GuestTyped, NextEvent
  <2>5. NoEosAtChange'
    BY <2>1 DEF Inv, NoEosAtChange
  <2> QED BY <1>3, <2>3, <2>4, <2>5 DEF Inv
<1>5. CASE e.index \notin DOMAIN flags["OUTPUT"]
  <2>1. Dropped
    BY <1>5
  <2>2. SessionTyped' /\ GuestTyped' /\ NoEosAtChange'
    BY <1>1, <1>2, <2>1 DEF Inv, SessionTyped, GuestTyped, NoEosAtChange, Dropped, NextEvent
  <2> QED BY <1>3, <2>2 DEF Inv
<1> QED BY <1>4, <1>5

\* process_events, for a format change: the marked frame that follows it is not an EOS.
LEMMA StreamFormatChangedInv == ASSUME Inv, StreamFormatChanged PROVE Inv'
<1> USE DEF StreamFormatChanged
<1>1. NextEvent("StreamFormatChanged") /\ format_change_pending' = TRUE
  OBVIOUS
<1>2. PlacesTyped' /\ CaptureQuiet' /\ ChangesMarked'
  BY <1>1, EventTaken
<1>3. SessionTyped'
  BY <1>1 DEF Inv, SessionTyped, NextEvent
<1>4. /\ guest_told' \in [src : Nat, eos : Nat, drains : Nat]
      /\ guest_told'.eos = guest_told.eos /\ guest_told'.drains = guest_told.drains
  BY DEF Inv, GuestTyped
<1>5. GuestTyped' /\ NoEosAtChange'
  BY <1>1, <1>4 DEF Inv, GuestTyped, NoEosAtChange, NextEvent
<1> QED BY <1>2, <1>3, <1>5 DEF Inv

\* A frame that is told to the guest as the end of the stream is the last one of a drain.
LEMMA EosIsDrain ==
    ASSUME Inv, be_events # <<>>, IsFrame(Head(be_events)),
           EndOfStream(Head(be_events).mark # "none")
    PROVE  Head(be_events).mark = "drain"
<1>1. be_events \in Seq(Event)
  BY DEF Inv, PlacesTyped
<1>2. Head(be_events) \in Event /\ Head(be_events) = be_events[1] /\ 1 \in DOMAIN be_events
  BY <1>1, Popped
<1>3. Head(be_events).mark \in Mark
  BY <1>2, EventKinds
<1>4. Head(be_events).mark # "change"
  BY <1>2 DEF Inv, ChangesMarked, EndOfStream
<1> QED BY <1>3, <1>4 DEF EndOfStream, Mark

\* process_events, for a frame: it counts as an EOS only after a drain.
LEMMA FrameCompletedInv == ASSUME Inv, FrameCompleted PROVE Inv'
<1> USE DEF FrameCompleted
<1> DEFINE e == Head(be_events)
           last == e.mark # "none"
           v == IF last THEN {"LAST"} ELSE {}
<1>1. NextEvent("FrameCompleted") /\ e.kind = "FrameCompleted" /\ ~IsChange(e) /\ IsFrame(e)
      /\ be_events # <<>>
  BY DEF NextEvent, IsChange, IsFrame
<1>2. SessionTyped /\ GuestTyped /\ NoEosAtChange /\ "CAPTURE" \in Queue
  BY DEF Inv, Queue
<1>3. PlacesTyped' /\ CaptureQuiet' /\ ChangesMarked'
  BY <1>1, EventTaken
<1>4. CASE e.index \in DOMAIN flags["CAPTURE"]
  <2>1. /\ flags' = [flags EXCEPT !["CAPTURE"][e.index] = v]
        /\ SendDqbuf("CAPTURE", e.index, e.qbuf)
        /\ format_change_pending' = (format_change_pending /\ ~last)
        /\ guest_told' = [guest_told EXCEPT
             !.eos = IF EndOfStream(last) /\ "eos" \in subscribed THEN @ + 1 ELSE @,
             !.drains = IF e.mark = "drain" THEN @ + 1 ELSE @]
    BY <1>4
  <2>2. v \in SUBSET Flag /\ format_change_pending' \in BOOLEAN
    BY <2>1 DEF Flag
  <2>3. EndOfStream(last) => e.mark = "drain"
    BY <1>1, EosIsDrain
  <2> HIDE DEF e, v, last
  <2>4. SessionTyped'
    BY <1>1, <1>2, <2>1, <2>2, FlagSet DEF SessionTyped, NextEvent
  <2>5. /\ guest_told.eos \in Nat /\ guest_told.drains \in Nat
        /\ guest_told.eos + 1 \in Nat /\ guest_told.drains + 1 \in Nat
        /\ guest_told \in [src : Nat, eos : Nat, drains : Nat]
    BY <1>2 DEF GuestTyped
  <2>6. /\ guest_told' \in [src : Nat, eos : Nat, drains : Nat]
        /\ guest_told'.eos = IF EndOfStream(last) /\ "eos" \in subscribed THEN guest_told.eos + 1
                             ELSE guest_told.eos
        /\ guest_told'.drains = IF e.mark = "drain" THEN guest_told.drains + 1
                                ELSE guest_told.drains
    BY <2>1, <2>5
  <2>7. GuestTyped'
    BY <1>1, <1>2, <2>1, <2>6, DqbufTyped DEF GuestTyped, NextEvent
  <2>8. guest_told'.eos <= guest_told'.drains
    BY <1>2, <2>3, <2>5, <2>6 DEF NoEosAtChange
  <2> QED BY <1>3, <2>4, <2>7, <2>8 DEF Inv, NoEosAtChange
<1>5. CASE e.index \notin DOMAIN flags["CAPTURE"]
  <2>1. Dropped
    BY <1>5
  <2>2. SessionTyped' /\ GuestTyped' /\ NoEosAtChange'
    BY <1>1, <1>2, <2>1 DEF Inv, SessionTyped, GuestTyped, NoEosAtChange, Dropped, NextEvent
  <2> QED BY <1>3, <2>2 DEF Inv
<1> QED BY <1>4, <1>5

\* A report of the backend that is no marked frame, and a frame only for a queue that
\* streams.
LEMMA Reported ==
    ASSUME Inv, NEW x \in Event, be_events' = Append(be_events, x),
           IsFrame(x) => x.mark # "change" /\ be_outputs # {},
           be_inputs' \in Seq(Tagged), be_outputs' \subseteq be_outputs, be_accepting' \in BOOLEAN,
           be_changes' \in Nat, UNCHANGED <<sessionVars, guestVars, historyVars>>
    PROVE  Inv'
<1>1. be_events \in Seq(Event) /\ be_outputs \subseteq Tagged
  BY DEF Inv, PlacesTyped
<1>2. /\ Append(be_events, x) \in Seq(Event)
      /\ \A k \in DOMAIN Append(be_events, x) : \/ k \in DOMAIN be_events
                                                  /\ Append(be_events, x)[k] = be_events[k]
                                                \/ k = Len(be_events) + 1
                                                  /\ Append(be_events, x)[k] = x
      /\ DOMAIN be_events = 1 .. Len(be_events) /\ Len(be_events) \in Nat
  BY <1>1, Pushed
<1>3. \A k \in DOMAIN be_events : k # 1 => k - 1 \in DOMAIN be_events
                                          /\ Append(be_events, x)[k - 1] = be_events[k - 1]
  BY <1>1, <1>2, Pushed
<1>4. SessionTyped' /\ GuestTyped' /\ NoEosAtChange'
  BY DEF Inv, sessionVars, guestVars, historyVars, SessionTyped, GuestTyped, NoEosAtChange
<1>5. PlacesTyped'
  BY <1>1, <1>2 DEF Inv, sessionVars, PlacesTyped
<1>6. CaptureQuiet'
  BY <1>2 DEF Inv, sessionVars, CaptureQuiet, IsFrame
<1>7. ASSUME NEW k \in DOMAIN be_events', IsFrame(be_events'[k]), be_events'[k].mark = "change"
      PROVE  IF k = 1 THEN format_change_pending' ELSE IsChange(be_events'[k - 1])
  <2>1. k \in DOMAIN be_events /\ be_events'[k] = be_events[k]
    BY <1>2, <1>7
  <2>2. IF k = 1 THEN format_change_pending ELSE IsChange(be_events[k - 1])
    BY <1>7, <2>1 DEF Inv, ChangesMarked
  <2> QED BY <1>3, <2>1, <2>2 DEF sessionVars
<1>8. ChangesMarked'
  BY <1>7 DEF ChangesMarked, IsFrame, IsChange
<1> QED BY <1>4, <1>5, <1>6, <1>8 DEF Inv

\* The backend reports an input that it has consumed.
LEMMA BackendConsumesInv ==
    ASSUME Inv, NEW error \in BOOLEAN, BackendConsumes(error)
    PROVE  Inv'
<1> USE DEF BackendConsumes
<1> DEFINE b == Head(be_inputs)
           x == [kind |-> "InputBufferDone", index |-> b.index, qbuf |-> b.qbuf, error |-> error]
<1>1. be_inputs \in Seq(Tagged) /\ be_inputs # <<>> /\ be_events \in Seq(Event)
  BY DEF Inv, PlacesTyped
<1>2. b \in Tagged /\ be_inputs' \in Seq(Tagged)
  BY <1>1
<1>3. x \in Event /\ ~IsFrame(x)
  BY <1>2, EventsMade
<1>4. Report(<<x>>)
  OBVIOUS
<1> HIDE DEF b, x
<1>5. be_events' = Append(be_events, x) /\ UNCHANGED <<sessionVars, guestVars, historyVars>>
  BY <1>1, <1>3, <1>4, Concatenated DEF Report
<1>6. be_outputs' \subseteq be_outputs /\ be_accepting' \in BOOLEAN /\ be_changes' \in Nat
  BY DEF Inv, PlacesTyped
<1> QED BY <1>2, <1>3, <1>5, <1>6, Reported

\* A frame, marked or not, of one of the buffers that the backend has.
LEMMA FrameReported ==
    ASSUME Inv, NEW b \in be_outputs, NEW mark \in {"none", "drain"}, Report(<<Frame(b, mark)>>),
           be_outputs' = be_outputs \ {b}, UNCHANGED <<be_inputs, be_accepting, be_changes>>
    PROVE  Inv'
<1> DEFINE x == Frame(b, mark)
<1>1. be_events \in Seq(Event) /\ b \in Tagged /\ mark \in Mark /\ be_outputs # {}
  BY DEF Inv, PlacesTyped, Mark
<1>2. x \in Event /\ x.mark = mark
  BY <1>1, EventsMade
<1>3. Report(<<x>>)
  OBVIOUS
<1> HIDE DEF x
<1>4. be_events' = Append(be_events, x) /\ UNCHANGED <<sessionVars, guestVars, historyVars>>
  BY <1>1, <1>2, <1>3, Concatenated DEF Report
<1>5. /\ be_inputs' \in Seq(Tagged) /\ be_outputs' \subseteq be_outputs
      /\ be_accepting' \in BOOLEAN /\ be_changes' \in Nat
  BY DEF Inv, PlacesTyped
<1> QED BY <1>1, <1>2, <1>4, <1>5, Reported

\* The backend reports a frame, or the last one of a drain.
LEMMA BackendDecodesInv ==
    ASSUME Inv, NEW b \in be_outputs, BackendDecodes(b) \/ BackendDrained(b)
    PROVE  Inv'
<1>1. \E mark \in {"none", "drain"} : Report(<<Frame(b, mark)>>)
  BY DEF BackendDecodes, BackendDrained
<1> QED BY <1>1, FrameReported DEF BackendDecodes, BackendDrained

\* A format change whose last frame is marked, reported in one go.
LEMMA ChangeReported ==
    ASSUME Inv, NEW c \in Event, NEW x \in Event, IsChange(c), ~IsFrame(c),
           be_outputs # {}, be_outputs' = {}, be_accepting' \in BOOLEAN, be_changes' \in Nat,
           be_events' = Append(Append(be_events, c), x),
           UNCHANGED <<be_inputs, sessionVars, guestVars, historyVars>>
    PROVE  Inv'
<1> DEFINE n == Len(be_events)
           s == Append(be_events, c)
           t == Append(s, x)
<1>1. be_events \in Seq(Event)
  BY DEF Inv, PlacesTyped
<1>2. /\ s \in Seq(Event) /\ DOMAIN s = 1 .. n + 1 /\ DOMAIN be_events = 1 .. n /\ n \in Nat
      /\ s[n + 1] = c /\ \A k \in 1 .. n : s[k] = be_events[k]
  BY <1>1, Pushed
<1> HIDE DEF s
<1>3. Len(s) = n + 1
  BY <1>2
<1>4. /\ t \in Seq(Event) /\ DOMAIN t = 1 .. n + 2 /\ \A k \in 1 .. n + 1 : t[k] = s[k]
  BY <1>2, <1>3, Pushed
<1> HIDE DEF t, n
<1>5. be_events' = t
  BY DEF s, t
<1>6. SessionTyped' /\ GuestTyped' /\ NoEosAtChange'
  BY DEF Inv, sessionVars, guestVars, historyVars, SessionTyped, GuestTyped, NoEosAtChange
<1>7. PlacesTyped'
  BY <1>4, <1>5 DEF Inv, sessionVars, PlacesTyped
<1>8. CaptureQuiet'
  BY DEF Inv, sessionVars, CaptureQuiet
<1>9. ASSUME NEW k \in DOMAIN t, IsFrame(t[k]), t[k].mark = "change"
      PROVE  IF k = 1 THEN format_change_pending ELSE IsChange(t[k - 1])
  <2>1. CASE k \in 1 .. n
    <3>1. t[k] = be_events[k] /\ (k # 1 => k - 1 \in 1 .. n /\ t[k - 1] = be_events[k - 1])
      BY <1>2, <1>4, <2>1
    <3> QED BY <1>2, <1>9, <2>1, <3>1 DEF Inv, ChangesMarked
  <2>2. CASE k = n + 1
    BY <1>2, <1>4, <1>9, <2>2
  <2>3. CASE k = n + 2
    <3>1. k # 1 /\ k - 1 = n + 1
      BY <1>2, <2>3
    <3> QED BY <1>2, <1>4, <3>1
  <2> QED BY <1>2, <1>4, <2>1, <2>2, <2>3
<1>10. ChangesMarked'
  BY <1>5, <1>9 DEF ChangesMarked, IsFrame, IsChange, sessionVars
<1> QED BY <1>6, <1>7, <1>8, <1>10 DEF Inv

\* The backend reports a format change, with its last frame marked or not.
LEMMA BackendChangesFormatInv == ASSUME Inv, BackendChangesFormat PROVE Inv'
<1> USE DEF BackendChangesFormat
<1> DEFINE c == [kind |-> "StreamFormatChanged"]
<1>1. be_events \in Seq(Event) /\ be_outputs \subseteq Tagged /\ be_inputs \in Seq(Tagged)
      /\ be_changes \in Nat
  BY DEF Inv, PlacesTyped
<1>2. c \in Event /\ IsChange(c) /\ ~IsFrame(c)
  BY EventsMade
<1>3. (\E b \in be_outputs : Report(Append(<<c>>, Frame(b, "change")))) \/ Report(<<c>>)
  OBVIOUS
<1>4. "change" \in Mark
  BY DEF Mark
<1> HIDE DEF c
<1>5. be_outputs' = {} /\ be_inputs' = be_inputs
  OBVIOUS
<1>6. be_accepting' \in BOOLEAN
  OBVIOUS
<1>7. be_changes' \in Nat
  BY <1>1
<1>8. ASSUME NEW b \in be_outputs, Report(Append(<<c>>, Frame(b, "change"))) PROVE Inv'
  <2> DEFINE x == Frame(b, "change")
  <2>1. x \in Event
    BY <1>1, <1>4, EventsMade
  <2>2. Report(Append(<<c>>, x))
    BY <1>8
  <2> HIDE DEF x
  <2>3. be_events \o Append(<<c>>, x) = Append(Append(be_events, c), x)
    BY <1>1, <1>2, <2>1, Concatenated
  <2>4. /\ be_events' = Append(Append(be_events, c), x)
        /\ UNCHANGED <<sessionVars, guestVars, historyVars>>
    BY <2>2, <2>3, Zenon DEF Report
  <2>5. be_outputs # {}
    OBVIOUS
  <2> QED BY <1>2, <1>5, <1>6, <1>7, <2>1, <2>5, <2>4, ChangeReported
<1>9. CASE Report(<<c>>)
  <2>1. /\ be_events' = Append(be_events, c)
        /\ UNCHANGED <<sessionVars, guestVars, historyVars>>
    BY <1>1, <1>2, <1>9, Concatenated DEF Report
  <2>2. be_inputs' \in Seq(Tagged) /\ be_outputs' \subseteq be_outputs
    BY <1>1, <1>5
  <2> QED BY <1>2, <1>5, <1>6, <1>7, <2>1, <2>2, Reported
<1> QED BY <1>3, <1>8, <1>9

-----------------------------------------------------------------------------
(* What holds for every guest and every backend.                           *)

\* A new session.
LEMMA InitInv == ASSUME Init PROVE Inv
<1> USE DEF Init
<1>1. /\ <<>> \in Seq(SUBSET Flag) /\ Len(<<>>) = 0 /\ 0 <= MaxBufs /\ <<>> \in Seq(Tagged)
      /\ <<>> \in Seq(Event) /\ DOMAIN <<>> = {} /\ 0 \in 0 .. MaxQbufs
  BY DecoderAssumption
<1>2. state \in State
  <2>1. \A in, out \in BOOLEAN : Stopped(in, out) \in State
    BY DEF State
  <2> QED BY <2>1
<1>3. SessionTyped
  BY <1>1, <1>2 DEF SessionTyped
<1>4. PlacesTyped /\ GuestTyped
  BY <1>1 DEF PlacesTyped, GuestTyped
<1>5. CaptureQuiet /\ ChangesMarked /\ NoEosAtChange
  BY <1>1 DEF CaptureQuiet, ChangesMarked, NoEosAtChange
<1> QED BY <1>3, <1>4, <1>5 DEF Inv

\* Every step preserves the invariant.
LEMMA NextInv == ASSUME Inv, [Next]_vars PROVE Inv'
<1>1. CASE UNCHANGED vars
  BY <1>1 DEF vars, sessionVars, backendVars, guestVars, historyVars, Inv, SessionTyped,
              PlacesTyped, GuestTyped, CaptureQuiet, ChangesMarked, NoEosAtChange
<1>2. CASE Command
  <2>1. ASSUME NEW q \in Queue, NEW n \in 0 .. MaxBufs,
               Shrink(q, n) \/ Grow(q, n) \/ \E k \in 0 .. MaxBufs : GrowFails(q, n, k)
        PROVE  Inv'
    BY <2>1, ShrinkInv, GrowInv, GrowFailsInv
  <2>2. CASE Reqbufs
    BY <2>1, <2>2, Zenon DEF Reqbufs
  <2>3. CASE \E q \in Queue, ok \in BOOLEAN : StreamOn(q, ok)
    BY <2>3, StreamOnInv
  <2>4. CASE StreamOffCapture \/ StreamOffOutput
    BY <2>4, StreamOffCaptureInv, StreamOffOutputInv
  <2>5. CASE \E i \in Index, ok \in BOOLEAN : QbufOutput(i, ok) \/ QbufCapture(i, ok)
    BY <2>5, QbufOutputInv, QbufCaptureInv
  <2>6. CASE CmdStop \/ (\E ok \in BOOLEAN : CmdStart(ok)) \/ CmdPause \/ CmdResume
    BY <2>6, CmdStopInv, CmdStartInv, PauseInv
  <2>7. CASE \/ \E event \in Subscribable : Subscribe(event)
             \/ \E events \in (SUBSET Subscribable) \ {{}} : Unsubscribe(events)
    BY <2>7, SubscriptionInv
  <2>8. CASE CloseSession
    BY <2>8, CloseSessionInv
  <2> QED BY <1>2, <2>2, <2>3, <2>4, <2>5, <2>6, <2>7, <2>8, Zenon DEF Command
<1>3. CASE InputBufferDone \/ StreamFormatChanged \/ FrameCompleted
  BY <1>3, InputBufferDoneInv, StreamFormatChangedInv, FrameCompletedInv
<1>4. CASE Backend
  <2>1. CASE \E error \in BOOLEAN : BackendConsumes(error)
    BY <2>1, BackendConsumesInv
  <2>2. CASE \E b \in be_outputs : BackendDecodes(b) \/ BackendDrained(b)
    BY <2>2, BackendDecodesInv
  <2>3. CASE BackendChangesFormat
    BY <2>3, BackendChangesFormatInv
  <2> QED BY <1>4, <2>1, <2>2, <2>3 DEF Backend
<1> QED BY <1>1, <1>2, <1>3, <1>4 DEF Next

\* The invariant of the session, the buffers on their way and the marked frames holds for
\* every guest and every backend.
THEOREM DecoderInvariant == Spec => []Inv
BY InitInv, NextInv, PTL DEF Spec

\* For every guest and backend: once CAPTURE is streamed off, the backend holds none of its
\* buffers and no frame is on its way (streamoff, try_send_pending_output_buffers).
THEOREM CaptureAlwaysQuiet == Spec => []CaptureQuiet
<1>1. Inv => CaptureQuiet
  BY DEF Inv
<1> QED BY <1>1, DecoderInvariant, PTL

\* For every guest and backend: the frame that marks a format change is never told as the
\* end of the stream (process_events).
THEOREM NeverEosAtChange == Spec => []NoEosAtChange
<1>1. Inv => NoEosAtChange
  BY DEF Inv
<1> QED BY <1>1, DecoderInvariant, PTL

-----------------------------------------------------------------------------
(* Where the queued buffers are, for a guest that follows the protocol.    *)

\* A buffer or an event that is for the last QBUF of a buffer that the guest has queued.
Fresh(b, queued, last) == b.index \in queued /\ b.qbuf = last[b.index]

\* An OUTPUT buffer is in one place at most: with the backend, or in an event.
OutputPlaces(in, e, queued, last) ==
    /\ \A k \in DOMAIN in : Fresh(in[k], queued, last)
    /\ \A k \in DOMAIN e : IsDone(e[k]) => Fresh(e[k], queued, last)
    /\ \A k, l \in DOMAIN in : in[k].index = in[l].index => k = l
    /\ \A k \in DOMAIN in, l \in DOMAIN e : IsDone(e[l]) => in[k].index # e[l].index
    /\ \A k, l \in DOMAIN e : IsDone(e[k]) /\ IsDone(e[l]) /\ e[k].index = e[l].index => k = l

\* A CAPTURE buffer is in one place at most: kept back, with the backend, or in a frame.
CapturePlaces(p, o, e, queued, last) ==
    /\ \A k \in DOMAIN p : Fresh(p[k], queued, last)
    /\ \A b \in o : Fresh(b, queued, last)
    /\ \A k \in DOMAIN e : IsFrame(e[k]) => Fresh(e[k], queued, last)
    /\ \A k, l \in DOMAIN p : p[k].index = p[l].index => k = l
    /\ \A k \in DOMAIN p, b \in o : p[k].index # b.index
    /\ \A k \in DOMAIN p, l \in DOMAIN e : IsFrame(e[l]) => p[k].index # e[l].index
    /\ \A b \in o, l \in DOMAIN e : IsFrame(e[l]) => b.index # e[l].index
    /\ \A k, l \in DOMAIN e : IsFrame(e[k]) /\ IsFrame(e[l]) /\ e[k].index = e[l].index => k = l

\* And in one place at least.
CaptureComplete(p, o, e, queued) ==
    \A i \in queued : \/ \E k \in DOMAIN p : p[k].index = i
                      \/ \E b \in o : b.index = i
                      \/ \E k \in DOMAIN e : IsFrame(e[k]) /\ e[k].index = i

\* The events of a kind in d are events of e, each of them once, and f tells where they were.
Embeds(d, e, f, kind) ==
    /\ \A k \in DOMAIN d : d[k].kind = kind => f[k] \in DOMAIN e /\ d[k] = e[f[k]]
    /\ \A k, l \in DOMAIN d : d[k].kind = kind /\ d[l].kind = kind /\ f[k] = f[l] => k = l

\* The events of a kind in e are still in d.
Covers(d, e, kind) ==
    \A k \in DOMAIN e : e[k].kind = kind => \E l \in DOMAIN d : d[l] = e[k]

\* An event was added that is of another kind.
LEMMA PushEmbeds ==
    ASSUME NEW e \in Seq(Event), NEW x \in Event, NEW kind, x.kind # kind
    PROVE  /\ \E f : Embeds(Append(e, x), e, f, kind)
           /\ Covers(Append(e, x), e, kind)
<1> DEFINE d == Append(e, x)
           f == [k \in DOMAIN d |-> k]
<1>1. /\ \A k \in DOMAIN e : k \in DOMAIN d /\ d[k] = e[k]
      /\ \A k \in DOMAIN d : k \in DOMAIN e \/ d[k] = x
  BY Pushed
<1> HIDE DEF d
<1>2. \A k \in DOMAIN d : f[k] = k
  OBVIOUS
<1> HIDE DEF f
<1>3. Embeds(d, e, f, kind)
  BY <1>1, <1>2 DEF Embeds
<1>4. Covers(d, e, kind)
  BY <1>1 DEF Covers
<1> QED BY <1>3, <1>4 DEF d

\* The first event was taken.
LEMMA PopEmbeds ==
    ASSUME NEW e \in Seq(Event), e # <<>>, NEW kind
    PROVE  /\ \E f : /\ Embeds(Tail(e), e, f, kind)
                     /\ \A k \in DOMAIN Tail(e) : f[k] # 1
           /\ Head(e).kind # kind => Covers(Tail(e), e, kind)
<1> DEFINE d == Tail(e)
           f == [k \in DOMAIN d |-> k + 1]
<1>1. /\ \A k \in DOMAIN d : k + 1 \in DOMAIN e /\ k + 1 # 1 /\ k \in Nat /\ d[k] = e[k + 1]
      /\ \A k \in DOMAIN e : k = 1 \/ (k - 1 \in DOMAIN d /\ d[k - 1] = e[k])
      /\ Head(e) = e[1]
  BY Popped
<1> HIDE DEF d
<1>2. \A k \in DOMAIN d : f[k] = k + 1
  OBVIOUS
<1> HIDE DEF f
<1>3. \A k, l \in DOMAIN d : f[k] = f[l] => k = l
  BY <1>1, <1>2
<1>4. Embeds(d, e, f, kind) /\ \A k \in DOMAIN d : f[k] # 1
  BY <1>1, <1>2, <1>3 DEF Embeds
<1>5. Head(e).kind # kind => Covers(d, e, kind)
  BY <1>1 DEF Covers
<1> QED BY <1>4, <1>5 DEF d

\* Changing the events of other kinds leaves the OUTPUT buffers where they were.
LEMMA OutputEmbeds ==
    ASSUME NEW in, NEW e, NEW d, NEW queued, NEW last, NEW f,
           OutputPlaces(in, e, queued, last), Embeds(d, e, f, "InputBufferDone")
    PROVE  OutputPlaces(in, d, queued, last)
BY DEF OutputPlaces, Embeds, IsDone, Fresh

\* Changing the events of other kinds leaves the CAPTURE buffers where they were.
LEMMA CaptureEmbeds ==
    ASSUME NEW p, NEW o, NEW e, NEW d, NEW queued, NEW last, NEW f,
           CapturePlaces(p, o, e, queued, last), Embeds(d, e, f, "FrameCompleted")
    PROVE  CapturePlaces(p, o, d, queued, last)
BY DEF CapturePlaces, Embeds, IsFrame, Fresh

\* And each is still in a place.
LEMMA CaptureCovers ==
    ASSUME NEW p, NEW o, NEW e, NEW d, NEW queued,
           CaptureComplete(p, o, e, queued), Covers(d, e, "FrameCompleted")
    PROVE  CaptureComplete(p, o, d, queued)
BY DEF CaptureComplete, Covers, IsFrame

\* The history tag of the buffer that is queued, and of the others.
LEMMA LastSet ==
    ASSUME NEW last \in [Index -> Nat], NEW i \in Index, NEW n
    PROVE  /\ [last EXCEPT ![i] = n][i] = n
           /\ \A j \in Index : j # i => [last EXCEPT ![i] = n][j] = last[j]
OBVIOUS

\* What is fresh stays fresh when another buffer is queued.
LEMMA FreshKept ==
    ASSUME NEW last \in [Index -> Nat], NEW i \in Index, NEW n, NEW queued \in SUBSET Index,
           i \notin queued
    PROVE  \A b : Fresh(b, queued, last)
                    => Fresh(b, queued \cup {i}, [last EXCEPT ![i] = n]) /\ b.index # i
BY LastSet DEF Fresh

\* An OUTPUT buffer that is queued goes to the backend.
LEMMA OutputQueued ==
    ASSUME NEW in \in Seq(Tagged), NEW e \in Seq(Event), NEW queued \in SUBSET Index,
           NEW last \in [Index -> Nat], NEW b \in Tagged, b.index \notin queued,
           OutputPlaces(in, e, queued, last)
    PROVE  OutputPlaces(Append(in, b), e, queued \cup {b.index},
                        [last EXCEPT ![b.index] = b.qbuf])
<1> DEFINE i == b.index
           s == Append(in, b)
           q == queued \cup {i}
           a == [last EXCEPT ![i] = b.qbuf]
<1>1. i \in Index
  BY DEF Tagged
<1>2. /\ \A c : Fresh(c, queued, last) => Fresh(c, q, a) /\ c.index # i
  BY <1>1, FreshKept
<1>3. a[i] = b.qbuf
  BY <1>1, LastSet
<1>4. /\ \A k \in DOMAIN s : (k \in DOMAIN in /\ s[k] = in[k]) \/ (k = Len(in) + 1 /\ s[k] = b)
  BY Pushed
<1> HIDE DEF s, a
<1>5. Fresh(b, q, a)
  BY <1>3 DEF Fresh
<1> HIDE DEF q, i
<1>6. (\A k \in DOMAIN s : Fresh(s[k], q, a)) /\ (\A k \in DOMAIN e : IsDone(e[k]) => Fresh(e[k], q, a))
  BY <1>2, <1>4, <1>5 DEF OutputPlaces
<1>7. \A k, l \in DOMAIN s : s[k].index = s[l].index => k = l
  BY <1>2, <1>4 DEF OutputPlaces, i
<1>8. \A k \in DOMAIN s, l \in DOMAIN e : IsDone(e[l]) => s[k].index # e[l].index
  BY <1>2, <1>4 DEF OutputPlaces, i
<1>9. OutputPlaces(s, e, q, a)
  BY <1>6, <1>7, <1>8 DEF OutputPlaces
<1> QED BY <1>9 DEF s, q, a, i

\* The backend consumes its first input: the buffer moves to the event.
LEMMA OutputConsumed ==
    ASSUME NEW in \in Seq(Tagged), in # <<>>, NEW e \in Seq(Event), NEW queued, NEW last,
           NEW x \in Event, IsDone(x), x.index = Head(in).index, x.qbuf = Head(in).qbuf,
           OutputPlaces(in, e, queued, last)
    PROVE  OutputPlaces(Tail(in), Append(e, x), queued, last)
<1> DEFINE t == Tail(in)
           d == Append(e, x)
<1>1. /\ \A k \in DOMAIN t : /\ k + 1 \in DOMAIN in /\ k + 1 # 1 /\ k \in Nat
                             /\ t[k] = in[k + 1]
      /\ 1 \in DOMAIN in /\ Head(in) = in[1]
  BY Popped
<1>2. \A k \in DOMAIN d : (k \in DOMAIN e /\ d[k] = e[k]) \/ (k = Len(e) + 1 /\ d[k] = x)
  BY Pushed
<1> HIDE DEF t, d
<1>3. Fresh(x, queued, last)
  BY <1>1 DEF OutputPlaces, Fresh
<1>4. /\ \A k \in DOMAIN t : Fresh(t[k], queued, last) /\ t[k].index # x.index
      /\ \A k \in DOMAIN t, l \in DOMAIN e : IsDone(e[l]) => t[k].index # e[l].index
      /\ \A k \in DOMAIN e : IsDone(e[k]) => Fresh(e[k], queued, last) /\ e[k].index # x.index
  BY <1>1 DEF OutputPlaces
<1>5. \A k, l \in DOMAIN t : t[k].index = t[l].index => k = l
  <2>1. \A k, l \in DOMAIN t : t[k].index = t[l].index => k + 1 = l + 1
    BY <1>1 DEF OutputPlaces
  <2> QED BY <1>1, <2>1
<1>6. /\ \A k \in DOMAIN d : IsDone(d[k]) => Fresh(d[k], queued, last)
      /\ \A k \in DOMAIN t, l \in DOMAIN d : IsDone(d[l]) => t[k].index # d[l].index
  BY <1>2, <1>3, <1>4
<1>7. \A k, l \in DOMAIN d : IsDone(d[k]) /\ IsDone(d[l]) /\ d[k].index = d[l].index => k = l
  BY <1>2, <1>4 DEF OutputPlaces
<1>8. OutputPlaces(t, d, queued, last)
  BY <1>4, <1>5, <1>6, <1>7 DEF OutputPlaces
<1> QED BY <1>8 DEF t, d

\* An OUTPUT buffer is given back: no other place has it.
LEMMA OutputDelivered ==
    ASSUME NEW in, NEW e \in Seq(Event), e # <<>>, IsDone(Head(e)), NEW queued, NEW last,
           OutputPlaces(in, e, queued, last)
    PROVE  /\ Fresh(Head(e), queued, last)
           /\ OutputPlaces(in, Tail(e), queued \ {Head(e).index}, last)
<1> DEFINE d == Tail(e)
           q == queued \ {Head(e).index}
<1>1. PICK f : Embeds(d, e, f, "InputBufferDone") /\ \A k \in DOMAIN d : f[k] # 1
  BY PopEmbeds
<1>2. Head(e) = e[1] /\ 1 \in DOMAIN e
  BY Popped
<1>3. Fresh(Head(e), queued, last)
  BY <1>2 DEF OutputPlaces
<1>4. OutputPlaces(in, d, queued, last)
  BY <1>1, OutputEmbeds
<1> HIDE DEF d
<1>5. \A k \in DOMAIN in : in[k].index # Head(e).index
  BY <1>2 DEF OutputPlaces
<1>6. \A k \in DOMAIN d : IsDone(d[k]) => d[k].index # Head(e).index
  BY <1>1, <1>2 DEF OutputPlaces, Embeds, IsDone
<1>7. OutputPlaces(in, d, q, last)
  BY <1>4, <1>5, <1>6 DEF OutputPlaces, Fresh
<1> QED BY <1>3, <1>7 DEF d

\* A CAPTURE buffer that is queued is kept back at first.
LEMMA CaptureQueued ==
    ASSUME NEW p \in Seq(Tagged), NEW o, NEW e \in Seq(Event), NEW queued \in SUBSET Index,
           NEW last \in [Index -> Nat], NEW b \in Tagged, b.index \notin queued,
           CapturePlaces(p, o, e, queued, last)
    PROVE  /\ CapturePlaces(Append(p, b), o, e, queued \cup {b.index},
                            [last EXCEPT ![b.index] = b.qbuf])
           /\ CaptureComplete(p, o, e, queued)
                => CaptureComplete(Append(p, b), o, e, queued \cup {b.index})
<1> DEFINE i == b.index
           s == Append(p, b)
           q == queued \cup {i}
           a == [last EXCEPT ![i] = b.qbuf]
<1>1. i \in Index
  BY DEF Tagged
<1>2. /\ \A c : Fresh(c, queued, last) => Fresh(c, q, a) /\ c.index # i
  BY <1>1, FreshKept
<1>3. a[i] = b.qbuf
  BY <1>1, LastSet
<1>4. /\ \A k \in DOMAIN s : (k \in DOMAIN p /\ s[k] = p[k]) \/ (k = Len(p) + 1 /\ s[k] = b)
      /\ \A k \in DOMAIN p : k \in DOMAIN s /\ s[k] = p[k]
      /\ Len(p) + 1 \in DOMAIN s /\ s[Len(p) + 1] = b
  BY Pushed
<1> HIDE DEF s, a
<1>5. Fresh(b, q, a)
  BY <1>3 DEF Fresh
<1>6. ASSUME CaptureComplete(p, o, e, queued) PROVE CaptureComplete(s, o, e, q)
  BY <1>4, <1>6 DEF CaptureComplete
<1> HIDE DEF q, i
<1>7. /\ \A k \in DOMAIN s : Fresh(s[k], q, a)
      /\ \A c \in o : Fresh(c, q, a)
      /\ \A k \in DOMAIN e : IsFrame(e[k]) => Fresh(e[k], q, a)
  BY <1>2, <1>4, <1>5 DEF CapturePlaces
<1>8. \A k, l \in DOMAIN s : s[k].index = s[l].index => k = l
  BY <1>2, <1>4 DEF CapturePlaces, i
<1>9. /\ \A k \in DOMAIN s, c \in o : s[k].index # c.index
      /\ \A k \in DOMAIN s, l \in DOMAIN e : IsFrame(e[l]) => s[k].index # e[l].index
  BY <1>2, <1>4 DEF CapturePlaces, i
<1>10. CapturePlaces(s, o, e, q, a)
  BY <1>7, <1>8, <1>9 DEF CapturePlaces
<1> QED BY <1>6, <1>10 DEF s, q, a, i

\* The buffers kept back are given to the backend, all of them or some.
LEMMA CaptureSent ==
    ASSUME NEW p, NEW o, NEW e, NEW queued, NEW last, NEW S \in SUBSET ToSet(p),
           CapturePlaces(p, o, e, queued, last)
    PROVE  CapturePlaces(<<>>, o \cup S, e, queued, last)
<1>1. \A b \in S : \E k \in DOMAIN p : b = p[k]
  BY DEF ToSet
<1>2. DOMAIN <<>> = {}
  OBVIOUS
<1>3. /\ \A b \in o \cup S : Fresh(b, queued, last)
      /\ \A b \in o \cup S, l \in DOMAIN e : IsFrame(e[l]) => b.index # e[l].index
  BY <1>1 DEF CapturePlaces
<1> QED BY <1>2, <1>3 DEF CapturePlaces

\* When all of them are, none is lost.
LEMMA CaptureAllSent ==
    ASSUME NEW p, NEW o, NEW e, NEW queued, CaptureComplete(p, o, e, queued)
    PROVE  CaptureComplete(<<>>, o \cup ToSet(p), e, queued)
<1>1. \A k \in DOMAIN p : p[k] \in ToSet(p)
  BY DEF ToSet
<1> QED BY <1>1 DEF CaptureComplete

\* The backend fills a buffer: it moves to the frame.
LEMMA CaptureFilled ==
    ASSUME NEW p, NEW o, NEW e \in Seq(Event), NEW queued, NEW last, NEW b \in o,
           NEW x \in Event, IsFrame(x), x.index = b.index, x.qbuf = b.qbuf,
           \A c \in o : c.index = b.index => c = b,
           CapturePlaces(p, o, e, queued, last)
    PROVE  /\ CapturePlaces(p, o \ {b}, Append(e, x), queued, last)
           /\ CaptureComplete(p, o, e, queued) => CaptureComplete(p, o \ {b}, Append(e, x), queued)
<1> DEFINE d == Append(e, x)
<1>1. /\ \A k \in DOMAIN d : (k \in DOMAIN e /\ d[k] = e[k]) \/ (k = Len(e) + 1 /\ d[k] = x)
      /\ \A k \in DOMAIN e : k \in DOMAIN d /\ d[k] = e[k]
      /\ Len(e) + 1 \in DOMAIN d /\ d[Len(e) + 1] = x
  BY Pushed
<1> HIDE DEF d
<1>2. Fresh(x, queued, last)
  BY DEF CapturePlaces, Fresh
<1>3. /\ \A k \in DOMAIN d : IsFrame(d[k]) => Fresh(d[k], queued, last)
      /\ \A k \in DOMAIN p, l \in DOMAIN d : IsFrame(d[l]) => p[k].index # d[l].index
  BY <1>1, <1>2 DEF CapturePlaces
<1>4. \A c \in o \ {b}, l \in DOMAIN d : IsFrame(d[l]) => c.index # d[l].index
  BY <1>1 DEF CapturePlaces
<1>5. \A k, l \in DOMAIN d : IsFrame(d[k]) /\ IsFrame(d[l]) /\ d[k].index = d[l].index => k = l
  BY <1>1 DEF CapturePlaces
<1>6. CapturePlaces(p, o \ {b}, d, queued, last)
  BY <1>3, <1>4, <1>5 DEF CapturePlaces
<1>7. ASSUME CaptureComplete(p, o, e, queued) PROVE CaptureComplete(p, o \ {b}, d, queued)
  <2> SUFFICES ASSUME NEW i \in queued
               PROVE  \/ \E k \in DOMAIN p : p[k].index = i
                      \/ \E c \in o \ {b} : c.index = i
                      \/ \E k \in DOMAIN d : IsFrame(d[k]) /\ d[k].index = i
    BY DEF CaptureComplete
  <2>1. CASE i = b.index
    BY <1>1, <2>1
  <2>2. CASE i # b.index
    BY <1>1, <1>7, <2>2 DEF CaptureComplete
  <2> QED BY <2>1, <2>2
<1> QED BY <1>6, <1>7 DEF d

\* The backend gives buffers up.
LEMMA CaptureGivenUp ==
    ASSUME NEW p, NEW o, NEW e, NEW queued, NEW last, CapturePlaces(p, o, e, queued, last)
    PROVE  CapturePlaces(p, {}, e, queued, last)
BY DEF CapturePlaces

\* A CAPTURE buffer is given back: no other place has it, and the others stay in theirs.
LEMMA CaptureDelivered ==
    ASSUME NEW p, NEW o, NEW e \in Seq(Event), e # <<>>, IsFrame(Head(e)), NEW queued, NEW last,
           CapturePlaces(p, o, e, queued, last)
    PROVE  /\ Fresh(Head(e), queued, last)
           /\ CapturePlaces(p, o, Tail(e), queued \ {Head(e).index}, last)
           /\ CaptureComplete(p, o, e, queued)
                => CaptureComplete(p, o, Tail(e), queued \ {Head(e).index})
<1> DEFINE d == Tail(e)
           q == queued \ {Head(e).index}
<1>1. PICK f : Embeds(d, e, f, "FrameCompleted") /\ \A k \in DOMAIN d : f[k] # 1
  BY PopEmbeds
<1>2. Head(e) = e[1] /\ 1 \in DOMAIN e
      /\ \A k \in DOMAIN e : k = 1 \/ (k - 1 \in DOMAIN d /\ d[k - 1] = e[k])
  BY Popped
<1>3. Fresh(Head(e), queued, last)
  BY <1>2 DEF CapturePlaces
<1>4. CapturePlaces(p, o, d, queued, last)
  BY <1>1, CaptureEmbeds
<1> HIDE DEF d
<1>5. /\ \A k \in DOMAIN p : p[k].index # Head(e).index
      /\ \A b \in o : b.index # Head(e).index
  BY <1>2 DEF CapturePlaces
<1>6. \A k \in DOMAIN d : IsFrame(d[k]) => d[k].index # Head(e).index
  BY <1>1, <1>2 DEF CapturePlaces, Embeds, IsFrame
<1>7. CapturePlaces(p, o, d, q, last)
  BY <1>4, <1>5, <1>6 DEF CapturePlaces, Fresh
<1>8. CaptureComplete(p, o, e, queued) => CaptureComplete(p, o, d, q)
  BY <1>2 DEF CaptureComplete
<1> QED BY <1>3, <1>7, <1>8 DEF d

\* The buffers of a queue that have the QUEUED flag.
Queued(s) == {i \in DOMAIN s : "QUEUED" \in s[i]}

\* The flag is set on one buffer, or taken from it.
LEMMA QueuedSet ==
    ASSUME NEW s \in Seq(SUBSET Flag), NEW i \in DOMAIN s, NEW v
    PROVE  /\ "QUEUED" \in v => Queued([s EXCEPT ![i] = v]) = Queued(s) \cup {i}
           /\ "QUEUED" \notin v => Queued([s EXCEPT ![i] = v]) = Queued(s) \ {i}
<1> DEFINE t == [s EXCEPT ![i] = v]
<1>1. DOMAIN t = DOMAIN s /\ t[i] = v /\ \A j \in DOMAIN s : j # i => t[j] = s[j]
  OBVIOUS
<1> HIDE DEF t
<1> QED BY <1>1 DEF Queued, t

\* While the session is open, the guest and the device agree and every queued buffer is in
\* its place; until the format changes the backend takes the CAPTURE buffers it is given.
Agreed == \A q \in Queue : guest_queued[q] = Queued(flags[q])
OutputHeld ==
    OutputPlaces(be_inputs, be_events, guest_queued["OUTPUT"], last_qbuf["OUTPUT"])
CaptureHeld ==
    CapturePlaces(pending_output_buffers, be_outputs, be_events, guest_queued["CAPTURE"],
                  last_qbuf["CAPTURE"])
NoneLost ==
    be_changes = 0 =>
        be_accepting /\ CaptureComplete(pending_output_buffers, be_outputs, be_events,
                                        guest_queued["CAPTURE"])
OpenInv == Agreed /\ OutputHeld /\ CaptureHeld /\ NoneLost

\* The invariant for a guest that follows the protocol and a backend that does not fail.
OInv == ~stale /\ life # "panicked" /\ (life = "open" => OpenInv)

\* Where a step of an open session starts.
Ready == Inv /\ OpenInv /\ ~stale /\ life = "open"

\* The types of what the steps are about.
LEMMA ReadyTypes ==
    ASSUME Ready
    PROVE  /\ "OUTPUT" \in Queue /\ "CAPTURE" \in Queue
           /\ SessionTyped /\ PlacesTyped /\ GuestTyped
           /\ \A q \in Queue : /\ flags[q] \in Seq(SUBSET Flag)
                               /\ guest_queued[q] \in SUBSET Index
                               /\ last_qbuf[q] \in [Index -> Nat]
<1>1. \A q \in Queue : last_qbuf[q] \in [Index -> 0 .. MaxQbufs]
  BY DEF Ready, Inv, GuestTyped
<1>2. 0 .. MaxQbufs \subseteq Nat
  BY DecoderAssumption
<1>3. \A q \in Queue : last_qbuf[q] \in [Index -> Nat]
  BY <1>1, <1>2
<1> QED BY <1>3 DEF Ready, Inv, SessionTyped, GuestTyped, Queue

\* reqbufs of a queue whose buffers the guest all has back.
LEMMA ReqbufsOrderly ==
    ASSUME Ready, NEW q \in Queue, NEW s \in Seq(SUBSET Flag), Len(s) <= MaxBufs,
           flags' = [flags EXCEPT ![q] = s], GuestReqbufs(q), guest_queued[q] = {},
           \A i \in DOMAIN s : "QUEUED" \notin s[i]
    PROVE  OInv'
<1> USE DEF GuestReqbufs
<1>1. guest_queued' = guest_queued
  BY ReadyTypes DEF GuestTyped
<1>2. flags'[q] = s /\ \A r \in Queue : r # q => flags'[r] = flags[r]
  BY ReadyTypes, FlagsSet
<1>3. Queued(s) = {}
  BY DEF Queued
<1>4. Agreed'
  BY <1>1, <1>2, <1>3 DEF Ready, OpenInv, Agreed
<1>5. OutputHeld' /\ CaptureHeld' /\ NoneLost'
  BY <1>1 DEF Ready, OpenInv, OutputHeld, CaptureHeld, NoneLost, backendVars, historyVars
<1>6. ~stale' /\ life' # "panicked"
  BY DEF Ready, historyVars
<1> QED BY <1>4, <1>5, <1>6 DEF OInv, OpenInv

\* reqbufs to fewer buffers: none of the ones that go is queued.
LEMMA ShrinkOrderly ==
    ASSUME Ready, Orderly, NEW q \in Queue, NEW n \in 0 .. MaxBufs, Shrink(q, n)
    PROVE  OInv'
<1> DEFINE s == SubSeq(flags[q], 1, n)
<1>1. flags[q] \in Seq(SUBSET Flag)
  BY ReadyTypes
<1>2. n \in 0 .. Len(flags[q]) /\ n <= MaxBufs
  BY <1>1, DecoderAssumption DEF Shrink
<1>3. /\ s \in Seq(SUBSET Flag) /\ Len(s) <= MaxBufs
      /\ \A i \in DOMAIN s : i \in DOMAIN flags[q] /\ s[i] = flags[q][i]
  BY <1>1, <1>2, Prefix
<1>4. flags' = [flags EXCEPT ![q] = s] /\ GuestReqbufs(q) /\ guest_queued[q] = {}
  BY DEF Shrink, MayReqbufs
<1> HIDE DEF s
<1>5. \A i \in DOMAIN s : "QUEUED" \notin s[i]
  BY <1>3, <1>4 DEF Ready, OpenInv, Agreed, Queued
<1> QED BY <1>3, <1>4, <1>5, ReqbufsOrderly

\* reqbufs to as many buffers or more: the new ones are not queued.
LEMMA GrowOrderly ==
    ASSUME Ready, Orderly, NEW q \in Queue, NEW n \in 0 .. MaxBufs, Grow(q, n)
    PROVE  OInv'
<1>1. SessionTyped
  BY DEF Ready, Inv
<1>2. PICK s \in Seq(SUBSET Flag) :
         /\ Len(s) = n /\ flags' = [flags EXCEPT ![q] = s]
         /\ Len(flags[q]) <= n
         /\ \A i \in 1 .. n : s[i] = IF i <= Len(flags[q]) THEN flags[q][i] ELSE {}
  BY <1>1, GrownFlags
<1>3. Len(s) <= MaxBufs /\ DOMAIN s = 1 .. n
  BY <1>2, DecoderAssumption
<1>4. GuestReqbufs(q) /\ guest_queued[q] = {}
  BY DEF Grow, MayReqbufs
<1>5. flags[q] \in Seq(SUBSET Flag)
  BY ReadyTypes
<1>6. \A i \in 1 .. n : i <= Len(flags[q]) => i \in DOMAIN flags[q]
  BY <1>5
<1>7. \A i \in DOMAIN flags[q] : "QUEUED" \notin flags[q][i]
  BY <1>4 DEF Ready, OpenInv, Agreed, Queued
<1>8. \A i \in DOMAIN s : "QUEUED" \notin s[i]
  BY <1>2, <1>3, <1>6, <1>7
<1> QED BY <1>2, <1>3, <1>4, <1>8, ReqbufsOrderly

\* Without a failing backend, a buffer that is sent has arrived, and none of them panics.
LEMMA SentOrderly ==
    ASSUME PlacesTyped, ~FailingBackend, NEW s, NEW ok, NEW p \in Seq(Tagged),
           TrySendPending(s, p, ok), NEW queued, NEW last,
           CapturePlaces(p, be_outputs, be_events, queued, last),
           \A k \in DOMAIN p : p[k].index \in DOMAIN flags["CAPTURE"]
    PROVE  /\ life' = life /\ ok
           /\ CapturePlaces(pending_output_buffers', be_outputs', be_events, queued, last)
           /\ be_accepting' /\ CaptureComplete(p, be_outputs, be_events, queued)
                => CaptureComplete(pending_output_buffers', be_outputs', be_events, queued)
<1> DEFINE r == SubSeq(p, 1, Len(p))
           S == IF be_accepting' THEN ToSet(r) ELSE {}
<1>1. Len(p) \in 0 .. Len(p) /\ DOMAIN p = 1 .. Len(p)
  OBVIOUS
<1>2. DOMAIN r = DOMAIN p /\ \A i \in DOMAIN p : r[i] = p[i]
  BY <1>1, Prefix
<1> HIDE DEF r
<1>3. ToSet(r) = ToSet(p)
  BY <1>2 DEF ToSet
<1>4. \/ /\ ok /\ pending_output_buffers' = p /\ UNCHANGED <<be_outputs, life>>
      \/ /\ ok /\ pending_output_buffers' = <<>> /\ UNCHANGED life
         /\ be_outputs' = be_outputs \cup S
  <2>1. {k \in DOMAIN p : p[k].index \in DOMAIN flags["CAPTURE"]} = DOMAIN p
    OBVIOUS
  <2> QED BY <2>1 DEF TrySendPending, r
<1>5. S \in SUBSET ToSet(p) /\ (be_accepting' => S = ToSet(p))
  BY <1>3
<1> HIDE DEF S
<1>6. CASE ok /\ pending_output_buffers' = p /\ UNCHANGED <<be_outputs, life>>
  BY <1>6
<1>7. CASE ok /\ pending_output_buffers' = <<>> /\ UNCHANGED life /\ be_outputs' = be_outputs \cup S
  <2>1. CapturePlaces(<<>>, be_outputs \cup S, be_events, queued, last)
    BY <1>5, CaptureSent
  <2>2. be_accepting' /\ CaptureComplete(p, be_outputs, be_events, queued)
           => CaptureComplete(<<>>, be_outputs \cup S, be_events, queued)
    BY <1>5, CaptureAllSent
  <2> QED BY <1>7, <2>1, <2>2
<1> QED BY <1>4, <1>6, <1>7

\* A buffer kept back is one that the guest has queued, so the session still has it.
LEMMA KeptKnown ==
    ASSUME Ready
    PROVE  \A k \in DOMAIN pending_output_buffers :
              pending_output_buffers[k].index \in DOMAIN flags["CAPTURE"]
BY ReadyTypes DEF Ready, OpenInv, Agreed, Queued, CaptureHeld, CapturePlaces, Fresh

\* What streamon and decoder_cmd do with the buffers kept back.
LEMMA SendOrderly ==
    ASSUME Ready, ~FailingBackend, NEW s, NEW ok, TrySendPending(s, pending_output_buffers, ok),
           be_accepting => be_accepting',
           UNCHANGED <<flags, be_inputs, be_events, be_changes, guest_queued, last_qbuf, stale>>
    PROVE  OInv'
<1> DEFINE p == pending_output_buffers
           queued == guest_queued["CAPTURE"]
           last == last_qbuf["CAPTURE"]
<1>1. PlacesTyped /\ p \in Seq(Tagged) /\ TrySendPending(s, p, ok)
      /\ \A k \in DOMAIN p : p[k].index \in DOMAIN flags["CAPTURE"]
  BY ReadyTypes, KeptKnown DEF PlacesTyped
<1>2. CapturePlaces(p, be_outputs, be_events, queued, last)
  BY DEF Ready, OpenInv, CaptureHeld
<1> HIDE DEF p, queued, last
<1>3. /\ life' = life
      /\ CapturePlaces(pending_output_buffers', be_outputs', be_events, queued, last)
      /\ be_accepting' /\ CaptureComplete(p, be_outputs, be_events, queued)
           => CaptureComplete(pending_output_buffers', be_outputs', be_events, queued)
  BY <1>1, <1>2, SentOrderly
<1>4. CaptureHeld'
  BY <1>3 DEF CaptureHeld, queued, last
<1>5. NoneLost'
  BY <1>3 DEF Ready, OpenInv, NoneLost, queued, p
<1>6. Agreed' /\ OutputHeld'
  BY DEF Ready, OpenInv, Agreed, OutputHeld
<1>7. ~stale' /\ life' # "panicked"
  BY <1>3 DEF Ready
<1> QED BY <1>4, <1>5, <1>6, <1>7 DEF OInv, OpenInv

\* streamon sends the buffers kept back.
LEMMA StreamOnOrderly ==
    ASSUME Ready, ~FailingBackend, NEW q \in Queue, NEW ok \in BOOLEAN, StreamOn(q, ok)
    PROVE  OInv'
<1>1. TrySendPending(state', pending_output_buffers, ok)
  BY DEF StreamOn
<1>2. be_accepting => be_accepting'
  BY DEF StreamOn
<1>3. UNCHANGED <<flags, be_inputs, be_events, be_changes, guest_queued, last_qbuf, stale>>
  BY DEF StreamOn, historyVars
<1> DEFINE s == state'
<1>4. TrySendPending(s, pending_output_buffers, ok)
  BY <1>1
<1> HIDE DEF s
<1> QED BY <1>2, <1>3, <1>4, SendOrderly

\* decoder_cmd with Start sends the buffers kept back.
LEMMA CmdStartOrderly ==
    ASSUME Ready, ~FailingBackend, NEW ok \in BOOLEAN, CmdStart(ok)
    PROVE  OInv'
<1> DEFINE s == state'
<1>1. TrySendPending(s, pending_output_buffers, ok)
  BY DEF CmdStart
<1>2. be_accepting => be_accepting'
  BY DEF CmdStart
<1>3. UNCHANGED <<flags, be_inputs, be_events, be_changes, guest_queued, last_qbuf, stale>>
  BY DEF CmdStart, historyVars, guestVars
<1> HIDE DEF s
<1> QED BY <1>1, <1>2, <1>3, SendOrderly

\* The guest queues buffer i, whose flags are v then.
QueuesWith(q, i, v) ==
    /\ GuestQueues(q, i, TRUE) /\ v \in SUBSET Flag /\ "QUEUED" \in v
    /\ flags' = [flags EXCEPT ![q][i] = v]

\* The guest queues a buffer that the device, too, regards as not queued.
LEMMA QueuesOrderly ==
    ASSUME Ready, NEW q \in Queue, NEW i \in Index, NEW v, QueuesWith(q, i, v)
    PROVE  /\ Agreed' /\ i \notin guest_queued[q]
           /\ guest_queued'[q] = guest_queued[q] \cup {i}
           /\ last_qbuf'[q] = [last_qbuf[q] EXCEPT ![i] = qbufs + 1]
           /\ \A r \in Queue : r # q => /\ guest_queued'[r] = guest_queued[r]
                                        /\ last_qbuf'[r] = last_qbuf[r]
           /\ [index |-> i, qbuf |-> qbufs + 1] \in Tagged
<1>1. /\ i \in DOMAIN flags[q] /\ i \notin guest_queued[q]
      /\ last_qbuf' = [last_qbuf EXCEPT ![q][i] = qbufs + 1]
      /\ guest_queued' = [guest_queued EXCEPT ![q] = @ \cup {i}]
      /\ v \in SUBSET Flag /\ "QUEUED" \in v /\ flags' = [flags EXCEPT ![q][i] = v]
  BY DEF QueuesWith, GuestQueues
<1>2. /\ guest_queued'[q] = guest_queued[q] \cup {i}
      /\ last_qbuf'[q] = [last_qbuf[q] EXCEPT ![i] = qbufs + 1]
      /\ \A r \in Queue : r # q => /\ guest_queued'[r] = guest_queued[r]
                                   /\ last_qbuf'[r] = last_qbuf[r]
  BY <1>1, ReadyTypes DEF GuestTyped
<1>3. flags'[q] = [flags[q] EXCEPT ![i] = v] /\ \A r \in Queue : r # q => flags'[r] = flags[r]
  BY <1>1, ReadyTypes, FlagSet
<1>4. Queued(flags'[q]) = Queued(flags[q]) \cup {i}
  <2> DEFINE s == flags[q]
  <2>1. s \in Seq(SUBSET Flag) /\ i \in DOMAIN s /\ flags'[q] = [s EXCEPT ![i] = v]
    BY <1>1, <1>3, ReadyTypes
  <2> HIDE DEF s
  <2>2. Queued([s EXCEPT ![i] = v]) = Queued(s) \cup {i}
    BY <1>1, <2>1, QueuedSet
  <2> QED BY <2>1, <2>2 DEF s
<1>5. Agreed'
  BY <1>2, <1>3, <1>4 DEF Ready, OpenInv, Agreed
<1>6. [index |-> i, qbuf |-> qbufs + 1] \in Tagged
  <2> DEFINE ok == TRUE
  <2>1. ok \in BOOLEAN /\ GuestQueues(q, i, ok) /\ Inv
    BY DEF Ready, QueuesWith
  <2> HIDE DEF ok
  <2> QED BY <2>1, GuestQueuesTyped
<1> QED BY <1>1, <1>2, <1>5, <1>6

\* qbuf on OUTPUT.
LEMMA QbufOutputOrderly ==
    ASSUME Ready, ~FailingBackend, NEW i \in Index, NEW ok \in BOOLEAN, QbufOutput(i, ok)
    PROVE  OInv'
<1> USE DEF QbufOutput
<1> DEFINE b == [index |-> i, qbuf |-> qbufs + 1]
           v == flags["OUTPUT"][i] \cup {"QUEUED"}
<1>1. /\ GuestQueues("OUTPUT", i, ok) /\ i \in DOMAIN flags["OUTPUT"] /\ ok
      /\ be_inputs' = Append(be_inputs, b) /\ flags' = [flags EXCEPT !["OUTPUT"][i] = v]
  BY DEF GuestQueues
<1>2. v \in SUBSET Flag /\ "QUEUED" \in v
  BY <1>1, ReadyTypes DEF Flag
<1>3. b.index = i /\ b.qbuf = qbufs + 1
  OBVIOUS
<1> HIDE DEF v
<1>4. /\ Agreed' /\ i \notin guest_queued["OUTPUT"]
      /\ guest_queued'["OUTPUT"] = guest_queued["OUTPUT"] \cup {i}
      /\ last_qbuf'["OUTPUT"] = [last_qbuf["OUTPUT"] EXCEPT ![i] = qbufs + 1]
      /\ guest_queued'["CAPTURE"] = guest_queued["CAPTURE"]
      /\ last_qbuf'["CAPTURE"] = last_qbuf["CAPTURE"]
      /\ b \in Tagged
  <2> DEFINE q == "OUTPUT"
  <2>1. q \in Queue /\ "CAPTURE" \in Queue /\ "CAPTURE" # q
    BY DEF Queue
  <2>2. QueuesWith(q, i, v)
    BY <1>1, <1>2 DEF QueuesWith
  <2> HIDE DEF q
  <2>3. /\ Agreed' /\ i \notin guest_queued[q]
        /\ guest_queued'[q] = guest_queued[q] \cup {i}
        /\ last_qbuf'[q] = [last_qbuf[q] EXCEPT ![i] = qbufs + 1]
        /\ \A r \in Queue : r # q => /\ guest_queued'[r] = guest_queued[r]
                                     /\ last_qbuf'[r] = last_qbuf[r]
        /\ [index |-> i, qbuf |-> qbufs + 1] \in Tagged
    BY <2>1, <2>2, QueuesOrderly
  <2> QED BY <2>1, <2>3 DEF q
<1> HIDE DEF b
<1>5. be_inputs \in Seq(Tagged) /\ be_events \in Seq(Event)
  BY ReadyTypes DEF PlacesTyped
<1>6. OutputPlaces(Append(be_inputs, b), be_events, guest_queued["OUTPUT"] \cup {b.index},
                   [last_qbuf["OUTPUT"] EXCEPT ![b.index] = b.qbuf])
  BY <1>3, <1>4, <1>5, ReadyTypes, OutputQueued DEF Ready, OpenInv, OutputHeld
<1>7. OutputHeld'
  BY <1>1, <1>3, <1>4, <1>6 DEF OutputHeld
<1>8. CaptureHeld' /\ NoneLost'
  BY <1>4 DEF Ready, OpenInv, CaptureHeld, NoneLost
<1>9. ~stale' /\ life' # "panicked"
  BY <1>1 DEF Ready, GuestQueues
<1> QED BY <1>4, <1>7, <1>8, <1>9 DEF OInv, OpenInv

\* qbuf on CAPTURE: the buffer is kept back, or sent with the others.
LEMMA QbufCaptureOrderly ==
    ASSUME Ready, ~FailingBackend, NEW i \in Index, NEW ok \in BOOLEAN, QbufCapture(i, ok)
    PROVE  OInv'
<1> USE DEF QbufCapture
<1> DEFINE b == [index |-> i, qbuf |-> qbufs + 1]
           v == (flags["CAPTURE"][i] \cup {"QUEUED"}) \ {"LAST"}
           p == Append(pending_output_buffers, b)
           queued == guest_queued["CAPTURE"] \cup {i}
           last == [last_qbuf["CAPTURE"] EXCEPT ![i] = qbufs + 1]
<1>1. TrySendPending(state, p, ok)
  OBVIOUS
<1>2. ok
  BY <1>1 DEF TrySendPending
<1>3. /\ GuestQueues("CAPTURE", i, ok) /\ i \in DOMAIN flags["CAPTURE"]
      /\ flags' = [flags EXCEPT !["CAPTURE"][i] = v]
  BY <1>2 DEF GuestQueues
<1>4. v \in SUBSET Flag /\ "QUEUED" \in v
  BY <1>3, ReadyTypes DEF Flag
<1>5. b.index = i /\ b.qbuf = qbufs + 1
  OBVIOUS
<1> HIDE DEF v
<1>6. /\ Agreed' /\ i \notin guest_queued["CAPTURE"]
      /\ guest_queued'["CAPTURE"] = queued /\ last_qbuf'["CAPTURE"] = last
      /\ guest_queued'["OUTPUT"] = guest_queued["OUTPUT"]
      /\ last_qbuf'["OUTPUT"] = last_qbuf["OUTPUT"]
      /\ b \in Tagged
  <2> DEFINE q == "CAPTURE"
  <2>1. q \in Queue /\ "OUTPUT" \in Queue /\ "OUTPUT" # q
    BY DEF Queue
  <2>2. QueuesWith(q, i, v)
    BY <1>2, <1>3, <1>4 DEF QueuesWith
  <2> HIDE DEF q
  <2>3. /\ Agreed' /\ i \notin guest_queued[q]
        /\ guest_queued'[q] = guest_queued[q] \cup {i}
        /\ last_qbuf'[q] = [last_qbuf[q] EXCEPT ![i] = qbufs + 1]
        /\ \A r \in Queue : r # q => /\ guest_queued'[r] = guest_queued[r]
                                     /\ last_qbuf'[r] = last_qbuf[r]
        /\ [index |-> i, qbuf |-> qbufs + 1] \in Tagged
    BY <2>1, <2>2, QueuesOrderly
  <2> QED BY <2>1, <2>3 DEF q
<1> HIDE DEF b
<1>7. pending_output_buffers \in Seq(Tagged) /\ be_events \in Seq(Event) /\ PlacesTyped
  BY ReadyTypes DEF PlacesTyped
<1>8. /\ CapturePlaces(p, be_outputs, be_events, queued, last)
      /\ CaptureComplete(pending_output_buffers, be_outputs, be_events, guest_queued["CAPTURE"])
           => CaptureComplete(p, be_outputs, be_events, queued)
  <2> DEFINE old == guest_queued["CAPTURE"]
             then == last_qbuf["CAPTURE"]
  <2>1. old \in SUBSET Index /\ then \in [Index -> Nat]
    BY ReadyTypes
  <2>2. CapturePlaces(pending_output_buffers, be_outputs, be_events, old, then)
    BY DEF Ready, OpenInv, CaptureHeld
  <2>3. b.index \notin old /\ queued = old \cup {b.index} /\ last = [then EXCEPT ![b.index] = b.qbuf]
    BY <1>5, <1>6
  <2> HIDE DEF old, then, queued, last
  <2>4. b \in Tagged /\ p = Append(pending_output_buffers, b)
    BY <1>6
  <2> HIDE DEF p
  <2>5. /\ CapturePlaces(Append(pending_output_buffers, b), be_outputs, be_events,
                         old \cup {b.index}, [then EXCEPT ![b.index] = b.qbuf])
        /\ CaptureComplete(pending_output_buffers, be_outputs, be_events, old)
             => CaptureComplete(Append(pending_output_buffers, b), be_outputs, be_events,
                                old \cup {b.index})
    BY <1>7, <2>1, <2>2, <2>3, <2>4, CaptureQueued
  <2> QED BY <2>3, <2>4, <2>5, Zenon DEF old
<1>9. /\ p \in Seq(Tagged)
      /\ \A k \in DOMAIN p :
            \/ k \in DOMAIN pending_output_buffers /\ p[k] = pending_output_buffers[k]
            \/ p[k] = b
  BY <1>6, <1>7, Pushed
<1> HIDE DEF p, queued, last
<1>10. \A k \in DOMAIN p : p[k].index \in DOMAIN flags["CAPTURE"]
  BY <1>3, <1>5, <1>9, KeptKnown
<1>11. /\ life' = life
       /\ CapturePlaces(pending_output_buffers', be_outputs', be_events, queued, last)
       /\ be_accepting' /\ CaptureComplete(p, be_outputs, be_events, queued)
            => CaptureComplete(pending_output_buffers', be_outputs', be_events, queued)
  BY <1>1, <1>7, <1>8, <1>9, <1>10, SentOrderly
<1>12. CaptureHeld'
  BY <1>6, <1>11 DEF CaptureHeld
<1>13. NoneLost'
  BY <1>6, <1>8, <1>11 DEF Ready, OpenInv, NoneLost
<1>14. OutputHeld'
  BY <1>6 DEF Ready, OpenInv, OutputHeld
<1>15. ~stale' /\ life' # "panicked"
  BY <1>3, <1>11 DEF Ready, GuestQueues
<1> QED BY <1>6, <1>12, <1>13, <1>14, <1>15 DEF OInv, OpenInv

\* streamoff of CAPTURE: all its buffers are the guest's again.
LEMMA StreamOffCaptureOrderly == ASSUME Ready, StreamOffCapture PROVE OInv'
<1> USE DEF StreamOffCapture, GuestStopped
<1> DEFINE u == Unqueued("CAPTURE")
<1>1. be_events \in Seq(Event) /\ ClearOutputBuffers /\ SessionTyped
  BY ReadyTypes DEF PlacesTyped
<1>2. be_outputs' = {} /\ pending_output_buffers' = <<>>
      /\ \A k \in DOMAIN be_events' : be_events'[k].kind # "FrameCompleted"
  BY <1>1, EventsCleared
<1>3. PICK place \in [DOMAIN be_events' -> DOMAIN be_events] :
         /\ \A m, n \in DOMAIN be_events' : place[m] = place[n] => m = n
         /\ \A n \in DOMAIN be_events' : be_events'[n] = be_events[place[n]]
  BY <1>1, EventsCleared
<1>4. guest_queued'["CAPTURE"] = {} /\ guest_queued'["OUTPUT"] = guest_queued["OUTPUT"]
  BY ReadyTypes DEF GuestTyped
<1>5. /\ u \in Seq(SUBSET Flag) /\ Len(u) <= MaxBufs /\ Queued(u) = {}
      /\ flags' = [flags EXCEPT !["CAPTURE"] = u]
  BY ReadyTypes, UnqueuedFlags DEF SessionTyped, Queued
<1> HIDE DEF u
<1>6. flags'["CAPTURE"] = u /\ flags'["OUTPUT"] = flags["OUTPUT"]
  BY <1>1, <1>5, ReadyTypes, FlagsSet
<1>7. Agreed'
  BY <1>4, <1>5, <1>6 DEF Ready, OpenInv, Agreed, Queue
<1>8. CaptureHeld' /\ NoneLost'
  BY <1>2, <1>4 DEF Ready, OpenInv, CaptureHeld, CapturePlaces, NoneLost, CaptureComplete, IsFrame
<1> DEFINE d == be_events'
<1>9. Embeds(d, be_events, place, "InputBufferDone")
  BY <1>3 DEF Embeds
<1> HIDE DEF d
<1>10. OutputPlaces(be_inputs, d, guest_queued["OUTPUT"], last_qbuf["OUTPUT"])
  BY <1>9, OutputEmbeds DEF Ready, OpenInv, OutputHeld
<1>11. OutputHeld'
  BY <1>4, <1>10 DEF OutputHeld, historyVars, d
<1>12. ~stale' /\ life' # "panicked"
  BY DEF Ready, historyVars
<1> QED BY <1>7, <1>8, <1>11, <1>12 DEF OInv, OpenInv

\* streamoff of OUTPUT, once the guest has all its buffers back.
LEMMA StreamOffOutputOrderly == ASSUME Ready, Orderly, StreamOffOutput PROVE OInv'
<1> USE DEF StreamOffOutput, GuestStopped
<1> DEFINE u == Unqueued("OUTPUT")
<1>1. guest_queued' = guest_queued /\ guest_queued["OUTPUT"] = {} /\ SessionTyped
  BY ReadyTypes DEF GuestTyped
<1>2. /\ u \in Seq(SUBSET Flag) /\ Len(u) <= MaxBufs /\ Queued(u) = {}
      /\ flags' = [flags EXCEPT !["OUTPUT"] = u]
  BY ReadyTypes, UnqueuedFlags DEF SessionTyped, Queued
<1> HIDE DEF u
<1>3. flags'["OUTPUT"] = u /\ flags'["CAPTURE"] = flags["CAPTURE"]
  BY <1>1, <1>2, ReadyTypes, FlagsSet
<1>4. Agreed'
  BY <1>1, <1>2, <1>3 DEF Ready, OpenInv, Agreed, Queue
<1>5. OutputHeld' /\ CaptureHeld' /\ NoneLost' /\ ~stale' /\ life' # "panicked"
  BY <1>1 DEF Ready, OpenInv, OutputHeld, CaptureHeld, NoneLost, backendVars, historyVars
<1> QED BY <1>4, <1>5 DEF OInv, OpenInv

\* The steps that change neither buffers nor events.
LEMMA OtherOrderly ==
    ASSUME Ready,
           UNCHANGED <<flags, life, pending_output_buffers, be_inputs, be_outputs, be_events,
                       be_accepting, be_changes, guest_queued, last_qbuf, stale>>
    PROVE  OInv'
BY DEF Ready, OInv, OpenInv, Agreed, OutputHeld, CaptureHeld, NoneLost

\* The commands that do not concern buffers.
LEMMA CommandsOrderly ==
    ASSUME Ready, NEW e,
           CmdStop \/ CmdPause \/ CmdResume \/ Subscribe(e) \/ Unsubscribe(e)
    PROVE  OInv'
<1>1. UNCHANGED <<flags, life, pending_output_buffers, be_inputs, be_outputs, be_events,
                  be_accepting, be_changes, guest_queued, last_qbuf, stale>>
  BY DEF CmdStop, CmdPause, CmdResume, Subscribe, Unsubscribe, backendVars, guestVars, historyVars
<1> QED BY <1>1, OtherOrderly

\* close_session.
LEMMA CloseSessionOrderly == ASSUME Ready, CloseSession PROVE OInv'
BY DEF Ready, CloseSession, OInv, historyVars

\* An event of another kind is taken: the CAPTURE buffers stay where they are.
LEMMA CapturePopped ==
    ASSUME Ready, be_events # <<>>, be_events' = Tail(be_events), ~IsFrame(Head(be_events)),
           UNCHANGED <<pending_output_buffers, be_outputs, be_accepting, be_changes>>,
           guest_queued'["CAPTURE"] = guest_queued["CAPTURE"],
           last_qbuf'["CAPTURE"] = last_qbuf["CAPTURE"]
    PROVE  CaptureHeld' /\ NoneLost'
<1> DEFINE d == Tail(be_events)
           p == pending_output_buffers
           queued == guest_queued["CAPTURE"]
           last == last_qbuf["CAPTURE"]
<1>1. be_events \in Seq(Event)
  BY ReadyTypes DEF PlacesTyped
<1>2. /\ \E f : Embeds(d, be_events, f, "FrameCompleted")
      /\ Covers(d, be_events, "FrameCompleted")
  BY <1>1, PopEmbeds DEF IsFrame
<1>3. CapturePlaces(p, be_outputs, be_events, queued, last)
  BY DEF Ready, OpenInv, CaptureHeld
<1> HIDE DEF d, p, queued, last
<1>4. CapturePlaces(p, be_outputs, d, queued, last)
  BY <1>2, <1>3, CaptureEmbeds
<1>5. CaptureComplete(p, be_outputs, be_events, queued)
        => CaptureComplete(p, be_outputs, d, queued)
  BY <1>2, CaptureCovers
<1>6. CaptureHeld'
  BY <1>4 DEF CaptureHeld, d, p, queued, last
<1>7. NoneLost'
  BY <1>5 DEF Ready, OpenInv, NoneLost, d, p, queued
<1> QED BY <1>6, <1>7

\* An event of another kind is taken: the OUTPUT buffers stay where they are.
LEMMA OutputPopped ==
    ASSUME Ready, be_events # <<>>, be_events' = Tail(be_events), be_inputs' = be_inputs,
           guest_queued'["OUTPUT"] = guest_queued["OUTPUT"],
           last_qbuf'["OUTPUT"] = last_qbuf["OUTPUT"]
    PROVE  OutputHeld'
<1> DEFINE d == Tail(be_events)
           queued == guest_queued["OUTPUT"]
           last == last_qbuf["OUTPUT"]
<1>1. be_events \in Seq(Event)
  BY ReadyTypes DEF PlacesTyped
<1>2. \E f : Embeds(d, be_events, f, "InputBufferDone")
  BY <1>1, PopEmbeds
<1>3. OutputPlaces(be_inputs, be_events, queued, last)
  BY DEF Ready, OpenInv, OutputHeld
<1> HIDE DEF d, queued, last
<1>4. OutputPlaces(be_inputs, d, queued, last)
  BY <1>2, <1>3, OutputEmbeds
<1> QED BY <1>4 DEF OutputHeld, d, queued, last

\* A buffer is given back to the guest that has it queued: the device agrees, and the DQBUF
\* event is not stale.
LEMMA DqbufOrderly ==
    ASSUME Ready, NEW q \in Queue, NEW i \in guest_queued[q], NEW n, n = last_qbuf[q][i],
           SendDqbuf(q, i, n), NEW v \in SUBSET Flag, "QUEUED" \notin v,
           flags' = [flags EXCEPT ![q][i] = v]
    PROVE  /\ Agreed' /\ ~stale' /\ guest_queued'[q] = guest_queued[q] \ {i}
           /\ \A r \in Queue : r # q => guest_queued'[r] = guest_queued[r]
<1> DEFINE s == flags[q]
<1>1. ~stale'
  BY DEF SendDqbuf, Ready
<1>2. /\ guest_queued'[q] = guest_queued[q] \ {i}
      /\ \A r \in Queue : r # q => guest_queued'[r] = guest_queued[r]
  BY ReadyTypes DEF SendDqbuf, GuestTyped
<1>3. flags'[q] = [s EXCEPT ![i] = v] /\ \A r \in Queue : r # q => flags'[r] = flags[r]
  BY ReadyTypes, FlagSet
<1>4. s \in Seq(SUBSET Flag) /\ i \in DOMAIN s
  BY ReadyTypes DEF Ready, OpenInv, Agreed, Queued
<1> HIDE DEF s
<1>5. Queued([s EXCEPT ![i] = v]) = Queued(s) \ {i}
  BY <1>4, QueuedSet
<1> USE DEF s
<1>6. Agreed'
  BY <1>2, <1>3, <1>5 DEF Ready, OpenInv, Agreed
<1> QED BY <1>1, <1>2, <1>6

\* process_events, for a consumed input: the guest gets the buffer that it queued.
LEMMA InputBufferDoneOrderly == ASSUME Ready, InputBufferDone PROVE OInv'
<1> USE DEF InputBufferDone
<1> DEFINE e == Head(be_events)
           q == "OUTPUT"
           i == e.index
           n == e.qbuf
           rest == flags[q][i] \ {"QUEUED"}
           v == IF e.error THEN rest \cup {"ERROR"} ELSE rest
<1>1. /\ be_events # <<>> /\ IsDone(e) /\ ~IsFrame(e) /\ be_events' = Tail(be_events)
      /\ UNCHANGED <<pending_output_buffers, life, be_inputs, be_outputs, be_accepting,
                     be_changes, last_qbuf>>
  BY DEF NextEvent, IsDone, IsFrame
<1>2. be_events \in Seq(Event) /\ q \in Queue /\ "CAPTURE" \in Queue /\ "CAPTURE" # q
  BY ReadyTypes DEF PlacesTyped
<1>3. OutputPlaces(be_inputs, be_events, guest_queued[q], last_qbuf[q])
  BY DEF Ready, OpenInv, OutputHeld
<1>4. /\ Fresh(e, guest_queued[q], last_qbuf[q])
      /\ OutputPlaces(be_inputs, Tail(be_events), guest_queued[q] \ {i}, last_qbuf[q])
  BY <1>1, <1>2, <1>3, OutputDelivered
<1>5. i \in guest_queued[q] /\ n = last_qbuf[q][i]
  BY <1>4 DEF Fresh
<1>6. i \in DOMAIN flags[q]
  BY <1>2, <1>5 DEF Ready, OpenInv, Agreed, Queued
<1>7. flags' = [flags EXCEPT ![q][i] = v] /\ SendDqbuf(q, i, n)
  BY <1>6
<1>8. v \in SUBSET Flag /\ "QUEUED" \notin v
  BY <1>2, <1>6, ReadyTypes DEF Flag
<1> HIDE DEF e, q, i, n, v
<1>9. /\ Agreed' /\ ~stale' /\ guest_queued'[q] = guest_queued[q] \ {i}
      /\ guest_queued'["CAPTURE"] = guest_queued["CAPTURE"]
  BY <1>2, <1>5, <1>7, <1>8, DqbufOrderly
<1>10. OutputHeld'
  BY <1>1, <1>4, <1>9 DEF OutputHeld, q
<1>11. CaptureHeld' /\ NoneLost'
  BY <1>1, <1>9, CapturePopped DEF e
<1>12. life' # "panicked"
  BY <1>1 DEF Ready
<1> QED BY <1>9, <1>10, <1>11, <1>12 DEF OInv, OpenInv

\* process_events, for a format change: no buffer moves.
LEMMA StreamFormatChangedOrderly == ASSUME Ready, StreamFormatChanged PROVE OInv'
<1> USE DEF StreamFormatChanged
<1>1. /\ be_events # <<>> /\ ~IsFrame(Head(be_events)) /\ be_events' = Tail(be_events)
      /\ UNCHANGED <<flags, pending_output_buffers, life, be_inputs, be_outputs, be_accepting,
                     be_changes, last_qbuf, guest_queued, stale>>
  BY DEF NextEvent, IsFrame
<1>2. OutputHeld' /\ CaptureHeld' /\ NoneLost'
  BY <1>1, OutputPopped, CapturePopped
<1>3. Agreed' /\ ~stale' /\ life' # "panicked"
  BY <1>1 DEF Ready, OpenInv, Agreed
<1> QED BY <1>2, <1>3 DEF OInv, OpenInv

\* process_events, for a frame: the guest gets the buffer that it queued.
LEMMA FrameCompletedOrderly == ASSUME Ready, FrameCompleted PROVE OInv'
<1> USE DEF FrameCompleted
<1> DEFINE e == Head(be_events)
           q == "CAPTURE"
           i == e.index
           n == e.qbuf
           v == IF e.mark # "none" THEN {"LAST"} ELSE {}
           p == pending_output_buffers
           queued == guest_queued[q]
<1>1. /\ be_events # <<>> /\ IsFrame(e) /\ be_events' = Tail(be_events)
      /\ UNCHANGED <<pending_output_buffers, life, be_inputs, be_outputs, be_accepting,
                     be_changes, last_qbuf>>
  BY DEF NextEvent, IsFrame
<1>2. be_events \in Seq(Event) /\ q \in Queue /\ "OUTPUT" \in Queue /\ "OUTPUT" # q
  BY ReadyTypes DEF PlacesTyped
<1>3. CapturePlaces(p, be_outputs, be_events, queued, last_qbuf[q])
  BY DEF Ready, OpenInv, CaptureHeld
<1>4. /\ Fresh(e, queued, last_qbuf[q])
      /\ CapturePlaces(p, be_outputs, Tail(be_events), queued \ {i}, last_qbuf[q])
      /\ CaptureComplete(p, be_outputs, be_events, queued)
           => CaptureComplete(p, be_outputs, Tail(be_events), queued \ {i})
  BY <1>1, <1>2, <1>3, CaptureDelivered
<1>5. i \in guest_queued[q] /\ n = last_qbuf[q][i]
  BY <1>4 DEF Fresh
<1>6. i \in DOMAIN flags[q]
  BY <1>2, <1>5 DEF Ready, OpenInv, Agreed, Queued
<1>7. flags' = [flags EXCEPT ![q][i] = v] /\ SendDqbuf(q, i, n)
  BY <1>6
<1>8. v \in SUBSET Flag /\ "QUEUED" \notin v
  BY DEF Flag
<1> HIDE DEF e, q, i, n, v
<1>9. /\ Agreed' /\ ~stale' /\ guest_queued'[q] = guest_queued[q] \ {i}
      /\ guest_queued'["OUTPUT"] = guest_queued["OUTPUT"]
  BY <1>2, <1>5, <1>7, <1>8, DqbufOrderly
<1>10. CaptureHeld'
  BY <1>1, <1>4, <1>9 DEF CaptureHeld, q
<1>11. NoneLost'
  BY <1>1, <1>4, <1>9 DEF Ready, OpenInv, NoneLost, q
<1>12. OutputHeld'
  BY <1>1, <1>9, OutputPopped
<1>13. life' # "panicked"
  BY <1>1 DEF Ready
<1> QED BY <1>9, <1>10, <1>11, <1>12, <1>13 DEF OInv, OpenInv

\* The backend reports something else than a finished input: the OUTPUT buffers stay.
LEMMA OutputPushed ==
    ASSUME Ready, NEW x \in Event, be_events' = Append(be_events, x), ~IsDone(x),
           UNCHANGED <<be_inputs, guest_queued, last_qbuf>>
    PROVE  OutputHeld'
<1> DEFINE d == Append(be_events, x)
           queued == guest_queued["OUTPUT"]
           last == last_qbuf["OUTPUT"]
<1>1. be_events \in Seq(Event)
  BY ReadyTypes DEF PlacesTyped
<1>2. \E f : Embeds(d, be_events, f, "InputBufferDone")
  BY <1>1, PushEmbeds DEF IsDone
<1>3. OutputPlaces(be_inputs, be_events, queued, last)
  BY DEF Ready, OpenInv, OutputHeld
<1> HIDE DEF d, queued, last
<1>4. OutputPlaces(be_inputs, d, queued, last)
  BY <1>2, <1>3, OutputEmbeds
<1> QED BY <1>4 DEF OutputHeld, d, queued, last

\* The backend reports something else than a frame: the CAPTURE buffers stay.
LEMMA CapturePushed ==
    ASSUME Ready, NEW x \in Event, ~IsFrame(x)
    PROVE  /\ CapturePlaces(pending_output_buffers, be_outputs, Append(be_events, x),
                            guest_queued["CAPTURE"], last_qbuf["CAPTURE"])
           /\ be_changes = 0 => CaptureComplete(pending_output_buffers, be_outputs,
                                                Append(be_events, x), guest_queued["CAPTURE"])
<1> DEFINE d == Append(be_events, x)
           p == pending_output_buffers
           queued == guest_queued["CAPTURE"]
           last == last_qbuf["CAPTURE"]
<1>1. be_events \in Seq(Event)
  BY ReadyTypes DEF PlacesTyped
<1>2. /\ \E f : Embeds(d, be_events, f, "FrameCompleted")
      /\ Covers(d, be_events, "FrameCompleted")
  BY <1>1, PushEmbeds DEF IsFrame
<1>3. /\ CapturePlaces(p, be_outputs, be_events, queued, last)
      /\ be_changes = 0 => CaptureComplete(p, be_outputs, be_events, queued)
  BY DEF Ready, OpenInv, CaptureHeld, NoneLost
<1> HIDE DEF d, p, queued, last
<1>4. CapturePlaces(p, be_outputs, d, queued, last)
  BY <1>2, <1>3, CaptureEmbeds
<1>5. be_changes = 0 => CaptureComplete(p, be_outputs, d, queued)
  BY <1>2, <1>3, CaptureCovers
<1> QED BY <1>4, <1>5 DEF d, p, queued, last

\* What a report of the backend leaves alone.
LEMMA ReportKeeps ==
    ASSUME Ready, NEW s, Report(s)
    PROVE  /\ Agreed' /\ ~stale' /\ life' # "panicked"
           /\ UNCHANGED <<guest_queued, last_qbuf, pending_output_buffers>>
BY DEF Ready, OpenInv, Agreed, Report, sessionVars, guestVars, historyVars

\* A consumed input is in the event only.
LEMMA BackendConsumesOrderly ==
    ASSUME Ready, NEW error \in BOOLEAN, BackendConsumes(error)
    PROVE  OInv'
<1> USE DEF BackendConsumes
<1> DEFINE b == Head(be_inputs)
           x == [kind |-> "InputBufferDone", index |-> b.index, qbuf |-> b.qbuf, error |-> error]
<1>1. be_inputs \in Seq(Tagged) /\ be_inputs # <<>> /\ be_events \in Seq(Event)
  BY ReadyTypes DEF PlacesTyped
<1>2. b \in Tagged
  BY <1>1
<1>3. x \in Event /\ ~IsFrame(x) /\ IsDone(x) /\ x.index = b.index /\ x.qbuf = b.qbuf
  BY <1>2, EventsMade
<1>4. Report(<<x>>)
  OBVIOUS
<1> HIDE DEF x
<1>5. be_events' = Append(be_events, x)
  BY <1>1, <1>3, <1>4, Concatenated DEF Report
<1>6. /\ Agreed' /\ ~stale' /\ life' # "panicked"
      /\ UNCHANGED <<guest_queued, last_qbuf, pending_output_buffers>>
  BY <1>4, ReportKeeps
<1>7. OutputPlaces(Tail(be_inputs), Append(be_events, x), guest_queued["OUTPUT"],
                   last_qbuf["OUTPUT"])
  BY <1>1, <1>3, OutputConsumed DEF Ready, OpenInv, OutputHeld
<1>8. OutputHeld'
  BY <1>5, <1>6, <1>7 DEF OutputHeld
<1>9. CaptureHeld' /\ NoneLost'
  BY <1>3, <1>5, <1>6, CapturePushed DEF Ready, OpenInv, CaptureHeld, NoneLost
<1> QED BY <1>6, <1>8, <1>9 DEF OInv, OpenInv

\* The backend has no two buffers of the same index.
LEMMA OutputsDiffer ==
    ASSUME Ready, NEW b \in be_outputs
    PROVE  \A c \in be_outputs : c.index = b.index => c = b
<1>1. \A c \in be_outputs : c \in Tagged /\ c.qbuf = last_qbuf["CAPTURE"][c.index]
  BY ReadyTypes DEF PlacesTyped, Ready, OpenInv, CaptureHeld, CapturePlaces, Fresh
<1>2. \A c, d \in Tagged : c.index = d.index /\ c.qbuf = d.qbuf => c = d
  BY DEF Tagged
<1> QED BY <1>1, <1>2

\* A filled buffer is in the frame only.
LEMMA BackendDecodesOrderly ==
    ASSUME Ready, NEW b \in be_outputs, BackendDecodes(b) \/ BackendDrained(b)
    PROVE  OInv'
<1>1. PICK mark \in {"none", "drain"} : Report(<<Frame(b, mark)>>)
  BY DEF BackendDecodes, BackendDrained
<1> DEFINE x == Frame(b, mark)
           p == pending_output_buffers
           queued == guest_queued["CAPTURE"]
           last == last_qbuf["CAPTURE"]
<1>2. be_events \in Seq(Event) /\ b \in Tagged /\ mark \in Mark
  BY ReadyTypes DEF PlacesTyped, Mark
<1>3. x \in Event /\ IsFrame(x) /\ ~IsDone(x) /\ x.index = b.index /\ x.qbuf = b.qbuf
  BY <1>2, EventsMade
<1>4. Report(<<x>>)
  BY <1>1
<1> HIDE DEF x
<1>5. be_events' = Append(be_events, x)
  BY <1>2, <1>3, <1>4, Concatenated DEF Report
<1>6. /\ Agreed' /\ ~stale' /\ life' # "panicked"
      /\ UNCHANGED <<guest_queued, last_qbuf, pending_output_buffers>>
  BY <1>4, ReportKeeps
<1>7. be_outputs' = be_outputs \ {b} /\ UNCHANGED <<be_inputs, be_accepting, be_changes>>
  BY DEF BackendDecodes, BackendDrained
<1>8. CapturePlaces(p, be_outputs, be_events, queued, last)
  BY DEF Ready, OpenInv, CaptureHeld
<1>9. \A c \in be_outputs : c.index = b.index => c = b
  BY OutputsDiffer
<1> HIDE DEF p, queued, last
<1>10. /\ CapturePlaces(p, be_outputs \ {b}, Append(be_events, x), queued, last)
       /\ CaptureComplete(p, be_outputs, be_events, queued)
            => CaptureComplete(p, be_outputs \ {b}, Append(be_events, x), queued)
  BY <1>2, <1>3, <1>8, <1>9, CaptureFilled
<1>11. CaptureHeld'
  BY <1>5, <1>6, <1>7, <1>10 DEF CaptureHeld, p, queued, last
<1>12. NoneLost'
  BY <1>5, <1>6, <1>7, <1>10 DEF Ready, OpenInv, NoneLost, p, queued
<1>13. OutputHeld'
  BY <1>3, <1>5, <1>6, <1>7, OutputPushed
<1> QED BY <1>6, <1>11, <1>12, <1>13 DEF OInv, OpenInv

\* At a format change the backend gives its buffers up, but for a last frame.
LEMMA BackendChangesFormatOrderly == ASSUME Ready, BackendChangesFormat PROVE OInv'
<1> USE DEF BackendChangesFormat
<1> DEFINE c == [kind |-> "StreamFormatChanged"]
           s == Append(be_events, c)
           p == pending_output_buffers
           queued == guest_queued["CAPTURE"]
           last == last_qbuf["CAPTURE"]
<1>1. be_events \in Seq(Event) /\ be_outputs \subseteq Tagged /\ be_changes \in Nat
  BY ReadyTypes DEF PlacesTyped
<1>2. c \in Event /\ ~IsDone(c) /\ ~IsFrame(c)
  BY EventsMade
<1>3. (\E b \in be_outputs : Report(Append(<<c>>, Frame(b, "change")))) \/ Report(<<c>>)
  OBVIOUS
<1>4. "change" \in Mark
  BY DEF Mark
<1> HIDE DEF c
<1>5. be_outputs' = {} /\ be_inputs' = be_inputs
  OBVIOUS
<1>6. NoneLost'
  <2>1. be_changes' # 0
    BY <1>1
  <2> QED BY <2>1 DEF NoneLost
<1>7. CapturePlaces(p, be_outputs, s, queued, last)
  BY <1>2, CapturePushed
<1>8. s \in Seq(Event)
  BY <1>1, <1>2, Pushed
<1>9. ASSUME NEW b \in be_outputs, Report(Append(<<c>>, Frame(b, "change"))) PROVE OInv'
  <2> DEFINE x == Frame(b, "change")
             d == Append(s, x)
             q == guest_queued["OUTPUT"]
             l == last_qbuf["OUTPUT"]
  <2>1. x \in Event /\ IsFrame(x) /\ ~IsDone(x) /\ x.index = b.index /\ x.qbuf = b.qbuf
    BY <1>1, <1>4, EventsMade
  <2>2. Report(Append(<<c>>, x))
    BY <1>9
  <2> HIDE DEF x
  <2>3. be_events \o Append(<<c>>, x) = d
    BY <1>1, <1>2, <2>1, Concatenated
  <2>4. be_events' = d
    BY <2>2, <2>3, Zenon DEF Report
  <2>5. /\ Agreed' /\ ~stale' /\ life' # "panicked"
        /\ UNCHANGED <<guest_queued, last_qbuf, pending_output_buffers>>
    BY <2>2, ReportKeeps
  <2>6. (\E f : Embeds(s, be_events, f, "InputBufferDone")) /\ \E f : Embeds(d, s, f, "InputBufferDone")
    <3>1. \E f : Embeds(s, be_events, f, "InputBufferDone")
      BY <1>1, <1>2, PushEmbeds DEF IsDone
    <3> HIDE DEF s
    <3>2. \E f : Embeds(d, s, f, "InputBufferDone")
      BY <1>8, <2>1, PushEmbeds DEF IsDone
    <3> QED BY <3>1, <3>2
  <2>7. OutputPlaces(be_inputs, be_events, q, l)
    BY DEF Ready, OpenInv, OutputHeld
  <2> HIDE DEF d, s, q, l, p, queued, last
  <2>8. OutputPlaces(be_inputs, s, q, l)
    BY <2>6, <2>7, OutputEmbeds
  <2>9. OutputPlaces(be_inputs, d, q, l)
    BY <2>6, <2>8, OutputEmbeds
  <2>10. OutputHeld'
    BY <1>5, <2>4, <2>5, <2>9 DEF OutputHeld, q, l
  <2>11. \A o \in be_outputs : o.index = b.index => o = b
    BY OutputsDiffer
  <2>12. CapturePlaces(p, be_outputs \ {b}, Append(s, x), queued, last)
    BY <1>7, <1>8, <2>1, <2>11, CaptureFilled
  <2>13. CapturePlaces(p, {}, d, queued, last)
    BY <2>12, CaptureGivenUp DEF d
  <2>14. CaptureHeld'
    BY <1>5, <2>4, <2>5, <2>13 DEF CaptureHeld, p, queued, last
  <2> QED BY <1>6, <2>5, <2>10, <2>14 DEF OInv, OpenInv
<1>10. CASE Report(<<c>>)
  <2>1. be_events' = s
    BY <1>1, <1>2, <1>10, Concatenated DEF Report
  <2>2. /\ Agreed' /\ ~stale' /\ life' # "panicked"
        /\ UNCHANGED <<guest_queued, last_qbuf, pending_output_buffers>>
    BY <1>10, ReportKeeps
  <2>3. OutputHeld'
    BY <1>2, <1>5, <2>1, <2>2, OutputPushed
  <2> HIDE DEF s, p, queued, last
  <2>4. CapturePlaces(p, {}, s, queued, last)
    BY <1>7, CaptureGivenUp
  <2>5. CaptureHeld'
    BY <1>5, <2>1, <2>2, <2>4 DEF CaptureHeld, p, queued, last
  <2> QED BY <1>6, <2>2, <2>3, <2>5 DEF OInv, OpenInv
<1> QED BY <1>3, <1>9, <1>10

-----------------------------------------------------------------------------
(* What holds for a guest that follows the protocol.                       *)

\* A new session has no buffers.
LEMMA InitOrderly == ASSUME Init PROVE OInv
<1> USE DEF Init
<1>1. DOMAIN <<>> = {}
  OBVIOUS
<1>2. Agreed
  BY <1>1 DEF Agreed, Queued
<1>3. OutputHeld /\ CaptureHeld /\ NoneLost
  BY <1>1 DEF OutputHeld, OutputPlaces, CaptureHeld, CapturePlaces, NoneLost, CaptureComplete, Queue
<1> QED BY <1>2, <1>3 DEF OInv, OpenInv

\* Every step of such a guest and backend preserves the places of the buffers.
LEMMA NextOrderly ==
    ASSUME Orderly, ~FailingBackend, Inv, OInv, [Next]_vars
    PROVE  OInv'
<1>1. CASE UNCHANGED vars
  BY <1>1 DEF vars, sessionVars, backendVars, guestVars, historyVars, OInv, OpenInv, Agreed,
              OutputHeld, CaptureHeld, NoneLost
<1>2. CASE Next
  <2>1. Ready
    BY <1>2 DEF Next, Ready, OInv
  <2>2. CASE Command
    <3>1. ASSUME NEW q \in Queue, NEW n \in 0 .. MaxBufs,
                 Shrink(q, n) \/ Grow(q, n) \/ \E k \in 0 .. MaxBufs : GrowFails(q, n, k)
          PROVE  OInv'
      BY <2>1, <3>1, ShrinkOrderly, GrowOrderly DEF GrowFails
    <3>2. CASE Reqbufs
      BY <3>1, <3>2, Zenon DEF Reqbufs
    <3>3. CASE \E q \in Queue, ok \in BOOLEAN : StreamOn(q, ok)
      BY <2>1, <3>3, StreamOnOrderly
    <3>4. CASE StreamOffCapture \/ StreamOffOutput
      BY <2>1, <3>4, StreamOffCaptureOrderly, StreamOffOutputOrderly
    <3>5. CASE \E i \in Index, ok \in BOOLEAN : QbufOutput(i, ok) \/ QbufCapture(i, ok)
      BY <2>1, <3>5, QbufOutputOrderly, QbufCaptureOrderly
    <3>6. CASE CmdStop \/ (\E ok \in BOOLEAN : CmdStart(ok)) \/ CmdPause \/ CmdResume
      BY <2>1, <3>6, CmdStartOrderly, CommandsOrderly
    <3>7. CASE \/ \E event \in Subscribable : Subscribe(event)
               \/ \E events \in (SUBSET Subscribable) \ {{}} : Unsubscribe(events)
      BY <2>1, <3>7, CommandsOrderly
    <3>8. CASE CloseSession
      BY <2>1, <3>8, CloseSessionOrderly
    <3> QED BY <2>2, <3>2, <3>3, <3>4, <3>5, <3>6, <3>7, <3>8, Zenon DEF Command
  <2>3. CASE InputBufferDone \/ StreamFormatChanged \/ FrameCompleted
    BY <2>1, <2>3, InputBufferDoneOrderly, StreamFormatChangedOrderly, FrameCompletedOrderly
  <2>4. CASE Backend
    <3>1. CASE \E error \in BOOLEAN : BackendConsumes(error)
      BY <2>1, <3>1, BackendConsumesOrderly
    <3>2. CASE \E b \in be_outputs : BackendDecodes(b) \/ BackendDrained(b)
      BY <2>1, <3>2, BackendDecodesOrderly
    <3>3. CASE BackendChangesFormat
      BY <2>1, <3>3, BackendChangesFormatOrderly
    <3> QED BY <2>4, <3>1, <3>2, <3>3 DEF Backend
  <2> QED BY <1>2, <2>2, <2>3, <2>4 DEF Next
<1> QED BY <1>1, <1>2

\* With a guest that follows the protocol and a backend that does not fail, every queued
\* buffer is in its place.
THEOREM OrderlyInvariant == ASSUME Orderly, ~FailingBackend PROVE Spec => [](Inv /\ OInv)
<1>1. Init => Inv /\ OInv
  BY InitInv, InitOrderly
<1>2. (Inv /\ OInv) /\ [Next]_vars => (Inv /\ OInv)'
  BY NextInv, NextOrderly
<1> QED BY <1>1, <1>2, PTL DEF Spec

\* For every such guest and backend, the device and the guest agree on which buffers are
\* queued (qbuf, streamoff, process_events).
THEOREM QueuedAlwaysAgrees == ASSUME Orderly, ~FailingBackend PROVE Spec => []QueuedAgrees
<1>1. Inv /\ OInv => QueuedAgrees
  BY DEF OInv, OpenInv, Agreed, Queued, QueuedAgrees
<1> QED BY <1>1, OrderlyInvariant, PTL

\* No DQBUF event is for an earlier QBUF, or for a buffer that is not queued.
THEOREM CompletionsAlwaysFresh == ASSUME Orderly, ~FailingBackend PROVE Spec => []CompletionsFresh
<1>1. Inv /\ OInv => CompletionsFresh
  BY DEF OInv, CompletionsFresh
<1> QED BY <1>1, OrderlyInvariant, PTL

\* A set whose elements are all the same.
LEMMA AtMostOne ==
    ASSUME NEW S, \A a, b \in S : a = b
    PROVE  Cardinality(S) = IF S = {} THEN 0 ELSE 1
<1>1. CASE S = {}
  BY <1>1, FS_EmptySet
<1>2. CASE S # {}
  <2>1. PICK a \in S : TRUE
    BY <1>2
  <2>2. S = {a}
    BY <2>1
  <2>3. Cardinality({a}) = 1
    BY FS_Singleton
  <2> QED BY <1>2, <2>2, <2>3
<1> QED BY <1>1, <1>2

\* Until the format changes, a CAPTURE buffer that the guest has queued is in exactly one
\* place: kept back, with the backend, or in a frame on its way.
THEOREM CaptureAlwaysConserved ==
    ASSUME Orderly, ~FailingBackend PROVE Spec => []CaptureConserved
<1>1. ASSUME Inv, OInv, be_changes = 0, life = "open", NEW i \in Index
      PROVE  LET kept == {k \in DOMAIN pending_output_buffers :
                            pending_output_buffers[k].index = i}
                 given == {b \in be_outputs : b.index = i}
                 done == {k \in DOMAIN be_events : IsFrameOf(be_events[k], i)}
             IN  Cardinality(kept) + Cardinality(given) + Cardinality(done)
                   = IF i \in guest_queued["CAPTURE"] THEN 1 ELSE 0
  <2> DEFINE kept == {k \in DOMAIN pending_output_buffers : pending_output_buffers[k].index = i}
             given == {b \in be_outputs : b.index = i}
             done == {k \in DOMAIN be_events : IsFrameOf(be_events[k], i)}
             queued == guest_queued["CAPTURE"]
  <2>1. Ready
    BY <1>1 DEF Ready, OInv
  <2>2. /\ \A a, b \in kept : a = b
        /\ \A a, b \in done : a = b
    BY <2>1 DEF Ready, OpenInv, CaptureHeld, CapturePlaces, IsFrameOf, IsFrame
  <2>3. \A a, b \in given : a = b
    BY <2>1, OutputsDiffer
  <2>4. (kept = {} \/ given = {}) /\ (kept = {} \/ done = {}) /\ (given = {} \/ done = {})
    BY <2>1 DEF Ready, OpenInv, CaptureHeld, CapturePlaces, IsFrameOf, IsFrame
  <2>5. i \notin queued => kept = {} /\ given = {} /\ done = {}
    BY <2>1 DEF Ready, OpenInv, CaptureHeld, CapturePlaces, Fresh, IsFrameOf, IsFrame
  <2>6. i \in queued => kept # {} \/ given # {} \/ done # {}
    BY <1>1, <2>1 DEF Ready, OpenInv, NoneLost, CaptureComplete, IsFrameOf, IsFrame
  <2> HIDE DEF kept, given, done, queued
  <2>7. /\ Cardinality(kept) = IF kept = {} THEN 0 ELSE 1
        /\ Cardinality(given) = IF given = {} THEN 0 ELSE 1
        /\ Cardinality(done) = IF done = {} THEN 0 ELSE 1
    BY <2>2, <2>3, AtMostOne
  <2>8. Cardinality(kept) + Cardinality(given) + Cardinality(done) = IF i \in queued THEN 1 ELSE 0
    BY <2>4, <2>5, <2>6, <2>7
  <2> QED BY <2>8 DEF kept, given, done, queued
<1>2. Inv /\ OInv => CaptureConserved
  BY <1>1 DEF CaptureConserved
<1> QED BY <1>2, OrderlyInvariant, PTL
=============================================================================
