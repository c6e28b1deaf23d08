------------------------- MODULE FfmpegDecoderProofs -------------------------
(***************************************************************************)
(* The invariants of the ffmpeg backend, for every set of buffers and every*)
(* bound: what it holds of the device's buffers, when it may end a drain,  *)
(* and when its eventfd is readable.                                       *)
(***************************************************************************)
EXTENDS FfmpegDecoder, FiniteSetTheorems, SequenceTheorems, WellFoundedInduction, TLAPS

-----------------------------------------------------------------------------
(* The inductive invariant.                                                *)

IsDone(e) == e.type = "InputBufferDone"
IsFrame(e) == e.type = "FrameCompleted"

Event == [type : {"InputBufferDone"}, id : Input]
         \cup [type : {"FrameCompleted"}, id : Capture, is_last : BOOLEAN]
         \cup [type : {"StreamFormatChanged"}]

\* The fields of the session and of the decoding context have their types.
TypeOK ==
    /\ context \in BOOLEAN /\ accepting_output_buffers \in BOOLEAN
    /\ jobs \in Seq(Input \cup {"Drain"})
    /\ drain_state \in DrainState /\ avframe \in 1 .. MaxFormats \cup {None}
    /\ codec \in [inside : 0 .. MaxInside, flushed : BOOLEAN]
    /\ stream_format \in 1 .. MaxFormats
    /\ available_output_frames \in Seq(Capture)
    /\ events \in Seq(Event) /\ signalled \in BOOLEAN
    /\ at \in {None, "output", "receive", "send"}
    /\ owed \in SUBSET Input /\ given \in SUBSET Capture /\ failed \in BOOLEAN

\* While the LAST frame is due, libavcodec takes no packet that could fill it again.
DrainFlushed == drain_state = "AwaitingFinalFrame" => codec.flushed

\* FramesConserved, place by place: a CAPTURE buffer is in one place, and given.
FramePlaces ==
    /\ \A k, l \in DOMAIN available_output_frames :
          available_output_frames[k] = available_output_frames[l] => k = l
    /\ \A k, l \in DOMAIN events :
          IsFrame(events[k]) /\ IsFrame(events[l]) /\ events[k].id = events[l].id => k = l
    /\ \A k \in DOMAIN available_output_frames : \A l \in DOMAIN events :
          IsFrame(events[l]) => available_output_frames[k] # events[l].id
    /\ \A k \in DOMAIN available_output_frames : available_output_frames[k] \in given
    /\ \A l \in DOMAIN events : IsFrame(events[l]) => events[l].id \in given

\* InputsConserved, place by place: an input is in one place if and only if it is owed.
InputPlaces ==
    /\ \A k, l \in DOMAIN jobs : jobs[k] = jobs[l] /\ jobs[k] # "Drain" => k = l
    /\ \A k, l \in DOMAIN events :
          IsDone(events[k]) /\ IsDone(events[l]) /\ events[k].id = events[l].id => k = l
    /\ \A k \in DOMAIN jobs : \A l \in DOMAIN events :
          IsDone(events[l]) => jobs[k] # events[l].id
    /\ \A k \in DOMAIN jobs : jobs[k] # "Drain" => jobs[k] \in owed
    /\ \A l \in DOMAIN events : IsDone(events[l]) => events[l].id \in owed
    /\ \A i \in owed : \/ \E k \in DOMAIN jobs : jobs[k] = i
                       \/ \E l \in DOMAIN events : IsDone(events[l]) /\ events[l].id = i

Inv ==
    /\ TypeOK /\ SignalFollows /\ DrainFlushed /\ DrainIsClean
    /\ FramePlaces /\ (~failed => InputPlaces)

-----------------------------------------------------------------------------
(* The queues, element by element.                                         *)

\* push_back
LEMMA Pushed ==
    ASSUME NEW S, NEW s \in Seq(S), NEW e \in S
    PROVE  /\ Append(s, e) \in Seq(S) /\ Append(s, e) # <<>>
           /\ DOMAIN Append(s, e) = 1 .. Len(s) + 1 /\ DOMAIN s = 1 .. Len(s)
           /\ Len(s) \in Nat
           /\ Append(s, e)[Len(s) + 1] = e
           /\ \A k \in DOMAIN s : k \in DOMAIN Append(s, e) /\ Append(s, e)[k] = s[k]
           /\ \A k \in DOMAIN Append(s, e) : k \in DOMAIN s \/ k = Len(s) + 1
OBVIOUS

\* pop_front
LEMMA Popped ==
    ASSUME NEW S, NEW s \in Seq(S), s # <<>>
    PROVE  /\ Head(s) \in S /\ Head(s) = s[1] /\ 1 \in DOMAIN s /\ Tail(s) \in Seq(S)
           /\ \A k \in DOMAIN Tail(s) : /\ k + 1 \in DOMAIN s /\ k + 1 # 1
                                        /\ Tail(s)[k] = s[k + 1]
           /\ \A k \in DOMAIN s : k = 1 \/ (k - 1 \in DOMAIN Tail(s) /\ Tail(s)[k - 1] = s[k])
           /\ \A k, l \in DOMAIN Tail(s) : k + 1 = l + 1 => k = l
OBVIOUS

\* Every set of numbers that is not empty has a least element.
LEMMA LeastNumber ==
    ASSUME NEW T \in SUBSET Nat, T # {}
    PROVE  \E x \in T : \A y \in T : x <= y
<1> DEFINE R == {ss \in Nat \X Nat : ss[1] < ss[2]}
<1>1. IsWellFoundedOn(R, Nat)
  BY NatLessThanWellFounded, Zenon DEF OpToRel
<1>2. \A x, y \in Nat : x < y => <<x, y>> \in R
  OBVIOUS
<1> HIDE DEF R
<1>3. PICK x \in T : \A y \in T : ~ (<<y, x>> \in R)
  BY <1>1, WFMin
<1>4. ASSUME NEW y \in T PROVE x <= y
  <2>1. x \in Nat /\ y \in Nat /\ ~(<<y, x>> \in R)
    BY <1>3
  <2>2. ~(y < x)
    BY <1>2, <2>1
  <2> QED BY <2>1, <2>2
<1> QED BY <1>4

\* p lists the elements of a set of n numbers in ascending order.
Ascending(p, n, T) == p \in [1 .. n -> T] /\ \A k, l \in 1 .. n : k < l => p[k] < p[l]

\* A finite set of numbers can be listed in ascending order.  By induction on its size:
\* the least element comes before a list of the others.
LEMMA AscendingExists ==
    ASSUME NEW n \in Nat, NEW T \in SUBSET Nat, IsFiniteSet(T), Cardinality(T) = n
    PROVE  \E p : Ascending(p, n, T)
<1> DEFINE P(m) == \A U \in SUBSET Nat :
                      IsFiniteSet(U) /\ Cardinality(U) = m => \E p : Ascending(p, m, U)
           bad == {m \in Nat : ~P(m)}
<1>1. ASSUME bad # {} PROVE FALSE
  <2>1. PICK m \in bad : \A y \in bad : m <= y
    BY <1>1, LeastNumber
  <2>2. PICK U \in SUBSET Nat : /\ IsFiniteSet(U) /\ Cardinality(U) = m
                                /\ ~ \E p : Ascending(p, m, U)
    BY <2>1
  <2>3. m \in Nat
    BY <2>1
  <2>4. CASE m = 0
    <3>1. Ascending([k \in 1 .. 0 |-> 0], 0, U)
      BY DEF Ascending
    <3> QED BY <2>2, <2>4, <3>1
  <2>5. CASE m # 0
    <3>1. U # {}
      BY <2>2, <2>5, FS_EmptySet
    <3>2. PICK x \in U : \A y \in U : x <= y
      BY <3>1, LeastNumber
    <3>3. U \ {x} \in SUBSET Nat /\ IsFiniteSet(U \ {x}) /\ Cardinality(U \ {x}) = m - 1
      BY <2>2, FS_RemoveElement
    <3>4. m - 1 \in Nat /\ m - 1 \notin bad
      BY <2>1, <2>3, <2>5
    <3>5. P(m - 1)
      BY <3>4
    <3>6. PICK q : Ascending(q, m - 1, U \ {x})
      BY <3>3, <3>5
    <3> DEFINE p == [k \in 1 .. m |-> IF k = 1 THEN x ELSE q[k - 1]]
    <3>7. \A k \in 2 .. m : q[k - 1] \in U \ {x} /\ x < q[k - 1]
      <4> SUFFICES ASSUME NEW k \in 2 .. m PROVE q[k - 1] \in U \ {x} /\ x < q[k - 1]
        OBVIOUS
      <4>1. k - 1 \in 1 .. m - 1
        BY <2>3
      <4>2. q[k - 1] \in U \ {x}
        BY <3>6, <4>1 DEF Ascending
      <4>3. x \in Nat /\ q[k - 1] \in Nat /\ x <= q[k - 1] /\ x # q[k - 1]
        BY <3>2, <4>2
      <4> QED BY <4>2, <4>3
    <3>8. p \in [1 .. m -> U]
      BY <2>3, <3>7
    <3>9. ASSUME NEW k \in 1 .. m, NEW l \in 1 .. m, k < l PROVE p[k] < p[l]
      <4>1. l \in 2 .. m /\ p[l] = q[l - 1]
        BY <2>3, <3>9
      <4>2. CASE k = 1
        BY <3>7, <4>1, <4>2
      <4>3. CASE k # 1
        <5>1. k - 1 \in 1 .. m - 1 /\ l - 1 \in 1 .. m - 1 /\ k - 1 < l - 1
          BY <2>3, <3>9, <4>3
        <5>2. p[k] = q[k - 1]
          BY <4>3
        <5> QED BY <3>6, <4>1, <5>1, <5>2 DEF Ascending
      <4> QED BY <4>2, <4>3
    <3>10. Ascending(p, m, U)
      BY <3>8, <3>9 DEF Ascending
    <3> QED BY <2>2, <3>10
  <2> QED BY <2>4, <2>5
<1>2. P(n)
  BY <1>1
<1> QED BY <1>2

\* retain keeps exactly the events that are no frames, each once and in order.
LEMMA RetainedPlaces ==
    ASSUME events \in Seq(Event)
    PROVE  \E place :
              /\ Retained \in Seq(Event)
              /\ \A n \in DOMAIN Retained :
                    /\ place[n] \in DOMAIN events /\ Retained[n] = events[place[n]]
                    /\ ~IsFrame(Retained[n])
              /\ \A m, n \in DOMAIN Retained : place[m] = place[n] => m = n
              /\ \A k \in DOMAIN events : ~IsFrame(events[k])
                    => \E n \in DOMAIN Retained : place[n] = k
<1> DEFINE stay == {k \in DOMAIN events : events[k].type # "FrameCompleted"}
           N == Cardinality(stay)
           Good(p) == \A m, n \in DOMAIN p : m < n => p[m] < p[n]
           place == CHOOSE p \in [1 .. N -> stay] : Good(p)
<1>1. IsFiniteSet(stay) /\ N \in Nat /\ stay \in SUBSET Nat
  <2>1. IsFiniteSet(DOMAIN events)
    BY FS_Interval
  <2>2. IsFiniteSet(stay)
    BY <2>1, FS_Subset
  <2> QED BY <2>2, FS_CardinalityType
<1>2. \E p \in [1 .. N -> stay] : Good(p)
  <2>1. PICK p : Ascending(p, N, stay)
    BY <1>1, AscendingExists
  <2>2. p \in [1 .. N -> stay] /\ Good(p)
    BY <2>1 DEF Ascending
  <2> QED BY <2>2
<1>3. Retained = [n \in DOMAIN place |-> events[place[n]]]
  BY DEF Retained
<1>4. place \in [1 .. N -> stay] /\ Good(place)
  BY <1>2
<1> HIDE DEF place
<1>5. \A m, n \in 1 .. N : place[m] = place[n] => m = n
  <2> SUFFICES ASSUME NEW m \in 1 .. N, NEW n \in 1 .. N, place[m] = place[n] PROVE m = n
    OBVIOUS
  <2>1. place[m] \in Nat /\ place[n] \in Nat
    BY <1>1, <1>4
  <2> QED BY <1>1, <1>4, <2>1
<1>6. \A k \in stay : \E n \in 1 .. N : place[n] = k
  <2>1. place \in Injection(1 .. N, stay)
    BY <1>4, <1>5 DEF Injection, IsInjective
  <2>2. Cardinality(1 .. N) = N
    BY <1>1, FS_Interval
  <2>3. place \in Surjection(1 .. N, stay)
    BY <1>1, <2>1, <2>2, FS_Injection
  <2> QED BY <2>3 DEF Surjection
<1> HIDE DEF N
<1>7. Retained \in Seq(Event) /\ DOMAIN Retained = 1 .. N
  <2>1. Retained = [n \in 1 .. N |-> events[place[n]]]
    BY <1>3, <1>4
  <2>2. \A n \in 1 .. N : events[place[n]] \in Event
    BY <1>4
  <2>3. Retained \in [1 .. N -> Event]
    BY <2>1, <2>2
  <2> QED BY <1>1, <2>1, <2>3, SeqDef
<1>8. \A n \in DOMAIN Retained :
         /\ place[n] \in DOMAIN events /\ Retained[n] = events[place[n]]
         /\ ~IsFrame(Retained[n])
  BY <1>3, <1>4, <1>7 DEF IsFrame
<1>9. \A k \in DOMAIN events : ~IsFrame(events[k]) => k \in stay
  BY DEF IsFrame
<1>10. \A k \in DOMAIN events : ~IsFrame(events[k])
          => \E n \in DOMAIN Retained : place[n] = k
  BY <1>6, <1>7, <1>9
<1> HIDE DEF stay, Good
<1> WITNESS place
<1> QED BY <1>5, <1>7, <1>8, <1>10

\* The events.
LEMMA EventTypes ==
    /\ \A i \in Input : Done(i) \in Event /\ IsDone(Done(i)) /\ ~IsFrame(Done(i)) /\ Done(i).id = i
    /\ \A b \in Capture, last \in BOOLEAN :
          LET e == Frame(b, last)
          IN  e \in Event /\ IsFrame(e) /\ ~IsDone(e) /\ e.id = b
    /\ Changed \in Event /\ ~IsFrame(Changed) /\ ~IsDone(Changed)
    /\ \A e \in Event : /\ IsDone(e) => e.id \in Input /\ ~IsFrame(e) /\ e = Done(e.id)
                        /\ IsFrame(e) => e.id \in Capture /\ ~IsDone(e)
BY DEF Event, IsDone, IsFrame, Done, Frame, Changed

-----------------------------------------------------------------------------
(* How the places of the CAPTURE buffers change.                           *)

\* They change with the two queues and with what the device has given only.
LEMMA FramesUnchanged ==
    ASSUME FramePlaces, UNCHANGED <<available_output_frames, events, given>>
    PROVE  FramePlaces'
BY DEF FramePlaces, IsFrame

\* An event that is no frame takes no CAPTURE buffer.
LEMMA FramesOtherEvent ==
    ASSUME TypeOK, FramePlaces, NEW e \in Event, ~IsFrame(e), events' = Append(events, e),
           available_output_frames' \in {available_output_frames, <<>>}, given' = given
    PROVE  FramePlaces'
<1>1. events \in Seq(Event) /\ available_output_frames \in Seq(Capture)
  BY DEF TypeOK
<1>2. /\ \A k \in DOMAIN events : k \in DOMAIN events' /\ events'[k] = events[k]
      /\ \A k \in DOMAIN events' : k \in DOMAIN events \/ ~IsFrame(events'[k])
  BY <1>1, Pushed
<1>3. CASE available_output_frames' = available_output_frames
  BY <1>2, <1>3 DEF FramePlaces, IsFrame
<1>4. CASE available_output_frames' = <<>>
  <2>1. DOMAIN available_output_frames' = {}
    BY <1>4
  <2> QED BY <1>2, <2>1 DEF FramePlaces, IsFrame
<1> QED BY <1>3, <1>4

\* A buffer moves from the front of the queue to the event that reports it.
LEMMA FrameSent ==
    ASSUME TypeOK, FramePlaces, available_output_frames # <<>>, NEW last \in BOOLEAN,
           available_output_frames' = Tail(available_output_frames),
           events' = Append(events, Frame(Head(available_output_frames), last)),
           given' = given
    PROVE  FramePlaces'
<1> DEFINE e == Frame(Head(available_output_frames), last)
           q == available_output_frames
<1>1. events \in Seq(Event) /\ q \in Seq(Capture) /\ q # <<>>
  BY DEF TypeOK
<1>2. /\ Head(q) \in Capture /\ Head(q) = q[1] /\ 1 \in DOMAIN q
      /\ \A k \in DOMAIN q' : k + 1 \in DOMAIN q /\ k + 1 # 1 /\ q'[k] = q[k + 1]
      /\ \A k, l \in DOMAIN q' : k + 1 = l + 1 => k = l
  BY <1>1, Popped
<1>3. e \in Event /\ IsFrame(e) /\ e.id = q[1]
  BY <1>2, EventTypes
<1>4. /\ events'[Len(events) + 1] = e
      /\ \A k \in DOMAIN events : k \in DOMAIN events' /\ events'[k] = events[k]
      /\ \A k \in DOMAIN events' : k \in DOMAIN events \/ k = Len(events) + 1
  BY <1>1, <1>3, Pushed
<1> HIDE DEF e, q
<1>5. \A k, l \in DOMAIN q : q[k] = q[l] => k = l
  BY DEF FramePlaces, q
<1>6. \A k \in DOMAIN q : \A l \in DOMAIN events : IsFrame(events[l]) => q[k] # events[l].id
  BY DEF FramePlaces, q
<1>7. \A k \in DOMAIN q : q[k] \in given
  BY DEF FramePlaces, q
<1>8. \A l \in DOMAIN events' : IsFrame(events'[l])
         => \/ l = Len(events) + 1 /\ events'[l].id = q[1]
            \/ l \in DOMAIN events /\ IsFrame(events[l]) /\ events'[l].id = events[l].id
  BY <1>3, <1>4
<1>9. \A k, l \in DOMAIN q' : q'[k] = q'[l] => k = l
  BY <1>2, <1>5
<1>10. ASSUME NEW k \in DOMAIN events', NEW l \in DOMAIN events', IsFrame(events'[k]),
              IsFrame(events'[l]), events'[k].id = events'[l].id
       PROVE  k = l
  BY <1>2, <1>6, <1>8, <1>10 DEF FramePlaces
<1>11. ASSUME NEW k \in DOMAIN q', NEW l \in DOMAIN events', IsFrame(events'[l])
       PROVE  q'[k] # events'[l].id
  <2>1. k + 1 \in DOMAIN q /\ q'[k] = q[k + 1] /\ q'[k] # q[1]
    BY <1>2, <1>5
  <2> QED BY <1>6, <1>8, <1>11, <2>1
<1>12. /\ \A k \in DOMAIN q' : q'[k] \in given'
       /\ \A l \in DOMAIN events' : IsFrame(events'[l]) => events'[l].id \in given'
  BY <1>2, <1>7, <1>8 DEF FramePlaces
<1>13. q' = available_output_frames'
  BY DEF q
<1> QED BY <1>9, <1>10, <1>11, <1>12, <1>13 DEF FramePlaces, IsFrame

\* A frame that cannot be converted is lost with its buffer.
LEMMA FrameLost ==
    ASSUME TypeOK, FramePlaces, available_output_frames # <<>>,
           available_output_frames' = Tail(available_output_frames),
           events' = events, given' = given
    PROVE  FramePlaces'
<1> DEFINE q == available_output_frames
<1>1. q \in Seq(Capture) /\ q # <<>>
  BY DEF TypeOK
<1>2. /\ \A k \in DOMAIN q' : k + 1 \in DOMAIN q /\ q'[k] = q[k + 1]
      /\ \A k, l \in DOMAIN q' : k + 1 = l + 1 => k = l
  BY <1>1, Popped
<1> QED BY <1>2 DEF FramePlaces, IsFrame

\* use_as_output: a buffer the backend does not have.
LEMMA FrameGiven ==
    ASSUME TypeOK, FramePlaces, NEW b \in Capture, b \notin given, given' = given \cup {b},
           events' = events,
           available_output_frames' \in
              {available_output_frames, Append(available_output_frames, b)}
    PROVE  FramePlaces'
<1> DEFINE q == available_output_frames
<1>1. CASE q' = q
  BY <1>1 DEF FramePlaces, IsFrame
<1>2. CASE q' = Append(q, b)
  <2>1. q \in Seq(Capture)
    BY DEF TypeOK
  <2>2. /\ \A k \in DOMAIN q : k \in DOMAIN q' /\ q'[k] = q[k]
        /\ \A k \in DOMAIN q' : k \in DOMAIN q \/ k = Len(q) + 1
        /\ q'[Len(q) + 1] = b
    BY <1>2, <2>1, Pushed
  <2> QED BY <2>2 DEF FramePlaces, IsFrame
<1> QED BY <1>1, <1>2

\* clear_output_buffers: neither a buffer nor an event of one is left.
LEMMA FramesCleared ==
    ASSUME TypeOK, available_output_frames' = <<>>, events' = Retained
    PROVE  FramePlaces'
<1>1. PICK place : \A n \in DOMAIN Retained : ~IsFrame(Retained[n])
  BY RetainedPlaces DEF TypeOK
<1>2. DOMAIN available_output_frames' = {}
  OBVIOUS
<1> QED BY <1>1, <1>2 DEF FramePlaces, IsFrame

\* next_event returns what its event reports.
LEMMA FrameTaken ==
    ASSUME TypeOK, FramePlaces, events # <<>>, events' = Tail(events),
           available_output_frames' = available_output_frames,
           given' = IF IsFrame(Head(events)) THEN given \ {Head(events).id} ELSE given
    PROVE  FramePlaces'
<1>1. events \in Seq(Event)
  BY DEF TypeOK
<1>2. /\ Head(events) = events[1] /\ 1 \in DOMAIN events
      /\ \A k \in DOMAIN events' : /\ k + 1 \in DOMAIN events /\ k + 1 # 1
                                   /\ events'[k] = events[k + 1]
      /\ \A k, l \in DOMAIN events' : k + 1 = l + 1 => k = l
  BY <1>1, Popped
<1> QED BY <1>2 DEF FramePlaces, IsFrame

-----------------------------------------------------------------------------
(* How the places of the inputs change.                                    *)

\* They change with the jobs, the events and what the device waits for only.
LEMMA InputsUnchanged ==
    ASSUME InputPlaces, UNCHANGED <<jobs, events, owed>>
    PROVE  InputPlaces'
BY DEF InputPlaces, IsDone

\* An event that returns no input changes nothing for the inputs.
LEMMA InputsOtherEvent ==
    ASSUME TypeOK, InputPlaces, NEW e \in Event, ~IsDone(e), events' = Append(events, e),
           UNCHANGED <<jobs, owed>>
    PROVE  InputPlaces'
<1>1. events \in Seq(Event)
  BY DEF TypeOK
<1>2. /\ \A k \in DOMAIN events : k \in DOMAIN events' /\ events'[k] = events[k]
      /\ \A k \in DOMAIN events' : k \in DOMAIN events \/ ~IsDone(events'[k])
  BY <1>1, Pushed
<1> QED BY <1>2 DEF InputPlaces, IsDone

\* A drain leaves the jobs, or joins them.
LEMMA DrainMoves ==
    ASSUME TypeOK, InputPlaces, UNCHANGED <<events, owed>>,
           \/ jobs # <<>> /\ Head(jobs) = "Drain" /\ jobs' = Tail(jobs)
           \/ jobs' = Append(jobs, "Drain")
    PROVE  InputPlaces'
<1>1. jobs \in Seq(Input \cup {"Drain"}) /\ owed \subseteq Input /\ "Drain" \notin Input
  BY FfmpegDecoderAssumption DEF TypeOK
<1>2. CASE jobs # <<>> /\ Head(jobs) = "Drain" /\ jobs' = Tail(jobs)
  <2>1. /\ jobs[1] = "Drain"
        /\ \A k \in DOMAIN jobs' : k + 1 \in DOMAIN jobs /\ jobs'[k] = jobs[k + 1]
        /\ \A k \in DOMAIN jobs : k = 1 \/ (k - 1 \in DOMAIN jobs' /\ jobs'[k - 1] = jobs[k])
        /\ \A k, l \in DOMAIN jobs' : k + 1 = l + 1 => k = l
    BY <1>1, <1>2, Popped
  <2>2. \A k, l \in DOMAIN jobs' : jobs'[k] = jobs'[l] /\ jobs'[k] # "Drain" => k = l
    BY <2>1 DEF InputPlaces
  <2>3. ASSUME NEW k \in DOMAIN jobs'
        PROVE  /\ jobs'[k] # "Drain" => jobs'[k] \in owed
               /\ \A l \in DOMAIN events : IsDone(events[l]) => jobs'[k] # events[l].id
    BY <2>1 DEF InputPlaces
  <2>4. ASSUME NEW i \in owed, NEW k \in DOMAIN jobs, jobs[k] = i
        PROVE  \E l \in DOMAIN jobs' : jobs'[l] = i
    <3>1. k # 1
      BY <1>1, <2>1, <2>4
    <3>2. k - 1 \in DOMAIN jobs' /\ jobs'[k - 1] = i
      BY <2>1, <2>4, <3>1
    <3> QED BY <3>2
  <2>5. \A i \in owed : \/ \E k \in DOMAIN jobs' : jobs'[k] = i
                        \/ \E l \in DOMAIN events : IsDone(events[l]) /\ events[l].id = i
    BY <2>4 DEF InputPlaces
  <2> QED BY <2>2, <2>3, <2>5 DEF InputPlaces, IsDone
<1>3. CASE jobs' = Append(jobs, "Drain")
  <2>1. /\ \A k \in DOMAIN jobs : k \in DOMAIN jobs' /\ jobs'[k] = jobs[k]
        /\ \A k \in DOMAIN jobs' : k \in DOMAIN jobs \/ jobs'[k] = "Drain"
    BY <1>1, <1>3, Pushed
  <2>2. \A l \in DOMAIN events : IsDone(events[l]) => events[l].id # "Drain"
    BY <1>1 DEF InputPlaces
  <2> QED BY <1>1, <2>1, <2>2 DEF InputPlaces, IsDone
<1> QED BY <1>2, <1>3

\* A packet leaves the jobs, and the event that returns its input is queued.
LEMMA InputSent ==
    ASSUME TypeOK, InputPlaces, jobs # <<>>, Head(jobs) # "Drain", jobs' = Tail(jobs),
           events' = Append(events, Done(Head(jobs))), owed' = owed
    PROVE  InputPlaces'
<1> DEFINE e == Done(Head(jobs))
<1>1. /\ jobs \in Seq(Input \cup {"Drain"}) /\ owed \subseteq Input /\ "Drain" \notin Input
      /\ events \in Seq(Event)
  BY FfmpegDecoderAssumption DEF TypeOK
<1>2. /\ Head(jobs) \in Input /\ Head(jobs) = jobs[1] /\ 1 \in DOMAIN jobs
      /\ \A k \in DOMAIN jobs' : k + 1 \in DOMAIN jobs /\ k + 1 # 1 /\ jobs'[k] = jobs[k + 1]
      /\ \A k \in DOMAIN jobs : k = 1 \/ (k - 1 \in DOMAIN jobs' /\ jobs'[k - 1] = jobs[k])
      /\ \A k, l \in DOMAIN jobs' : k + 1 = l + 1 => k = l
  BY <1>1, Popped
<1>3. e \in Event /\ IsDone(e) /\ e.id = jobs[1]
  BY <1>2, EventTypes
<1>4. /\ events'[Len(events) + 1] = e /\ Len(events) + 1 \in DOMAIN events'
      /\ \A k \in DOMAIN events : k \in DOMAIN events' /\ events'[k] = events[k]
      /\ \A k \in DOMAIN events' : k \in DOMAIN events \/ k = Len(events) + 1
  BY <1>1, <1>3, Pushed
<1> HIDE DEF e
<1>5. \A l \in DOMAIN events' : IsDone(events'[l])
         => \/ l = Len(events) + 1 /\ events'[l].id = jobs[1]
            \/ l \in DOMAIN events /\ IsDone(events[l]) /\ events'[l].id = events[l].id
  BY <1>3, <1>4
<1>6. \A k, l \in DOMAIN jobs' : jobs'[k] = jobs'[l] /\ jobs'[k] # "Drain" => k = l
  BY <1>2 DEF InputPlaces
<1>7. ASSUME NEW k \in DOMAIN events', NEW l \in DOMAIN events', IsDone(events'[k]),
             IsDone(events'[l]), events'[k].id = events'[l].id
      PROVE  k = l
  BY <1>2, <1>5, <1>7 DEF InputPlaces
<1>8. ASSUME NEW k \in DOMAIN jobs', NEW l \in DOMAIN events', IsDone(events'[l])
      PROVE  jobs'[k] # events'[l].id
  <2>1. k + 1 \in DOMAIN jobs /\ jobs'[k] = jobs[k + 1] /\ jobs'[k] # jobs[1]
    BY <1>1, <1>2 DEF InputPlaces
  <2> QED BY <1>5, <1>8, <2>1 DEF InputPlaces
<1>9. /\ \A k \in DOMAIN jobs' : jobs'[k] # "Drain" => jobs'[k] \in owed
      /\ \A l \in DOMAIN events' : IsDone(events'[l]) => events'[l].id \in owed
  BY <1>1, <1>2, <1>5 DEF InputPlaces
<1>10. ASSUME NEW i \in owed
       PROVE  \/ \E k \in DOMAIN jobs' : jobs'[k] = i
              \/ \E l \in DOMAIN events' : IsDone(events'[l]) /\ events'[l].id = i
  <2>1. CASE \E k \in DOMAIN jobs : jobs[k] = i
    <3>1. PICK k \in DOMAIN jobs : jobs[k] = i
      BY <2>1
    <3>2. CASE k = 1
      BY <1>3, <1>4, <3>1, <3>2
    <3>3. CASE k # 1
      <4>1. k - 1 \in DOMAIN jobs' /\ jobs'[k - 1] = i
        BY <1>2, <3>1, <3>3
      <4> QED BY <4>1
    <3> QED BY <3>2, <3>3
  <2>2. CASE \E l \in DOMAIN events : IsDone(events[l]) /\ events[l].id = i
    BY <1>4, <2>2
  <2> QED BY <2>1, <2>2 DEF InputPlaces
<1> QED BY <1>6, <1>7, <1>8, <1>9, <1>10 DEF InputPlaces, IsDone

\* decode: an input the backend does not have becomes a job.
LEMMA InputGiven ==
    ASSUME TypeOK, InputPlaces, NEW i \in Input, i \notin owed, owed' = owed \cup {i},
           events' = events, jobs' = Append(jobs, i)
    PROVE  InputPlaces'
<1>1. /\ jobs \in Seq(Input \cup {"Drain"}) /\ owed \subseteq Input /\ "Drain" \notin Input
      /\ i # "Drain"
  BY FfmpegDecoderAssumption DEF TypeOK
<1>2. /\ \A k \in DOMAIN jobs : k \in DOMAIN jobs' /\ jobs'[k] = jobs[k]
      /\ \A k \in DOMAIN jobs' : k \in DOMAIN jobs \/ k = Len(jobs) + 1
      /\ jobs'[Len(jobs) + 1] = i /\ Len(jobs) + 1 \in DOMAIN jobs'
  BY <1>1, Pushed
<1> QED BY <1>1, <1>2 DEF InputPlaces, IsDone

\* clear_output_buffers keeps every event that returns an input.
LEMMA InputsRetained ==
    ASSUME TypeOK, InputPlaces, events' = Retained, UNCHANGED <<jobs, owed>>
    PROVE  InputPlaces'
<1>1. PICK place :
         /\ \A n \in DOMAIN Retained :
               place[n] \in DOMAIN events /\ Retained[n] = events[place[n]]
         /\ \A m, n \in DOMAIN Retained : place[m] = place[n] => m = n
         /\ \A k \in DOMAIN events : ~IsFrame(events[k])
               => \E n \in DOMAIN Retained : place[n] = k
  BY RetainedPlaces DEF TypeOK
<1>2. \A k \in DOMAIN events : IsDone(events[k]) => ~IsFrame(events[k])
  BY DEF IsDone, IsFrame
<1> HIDE DEF Retained
<1>3. ASSUME NEW k \in DOMAIN events, IsDone(events[k])
      PROVE  \E n \in DOMAIN events' : events'[n] = events[k]
  BY <1>1, <1>2, <1>3
<1>4. \A k, l \in DOMAIN events' :
         IsDone(events'[k]) /\ IsDone(events'[l]) /\ events'[k].id = events'[l].id => k = l
  BY <1>1 DEF InputPlaces
<1>5. \A l \in DOMAIN events' : IsDone(events'[l]) =>
         events'[l].id \in owed /\ \A k \in DOMAIN jobs : jobs[k] # events'[l].id
  BY <1>1 DEF InputPlaces
<1>6. \A i \in owed : \/ \E k \in DOMAIN jobs : jobs[k] = i
                      \/ \E l \in DOMAIN events' : IsDone(events'[l]) /\ events'[l].id = i
  BY <1>3 DEF InputPlaces
<1> QED BY <1>4, <1>5, <1>6 DEF InputPlaces, IsDone

\* next_event returns what its event reports.
LEMMA InputTaken ==
    ASSUME TypeOK, InputPlaces, events # <<>>, events' = Tail(events), jobs' = jobs,
           owed' = IF IsDone(Head(events)) THEN owed \ {Head(events).id} ELSE owed
    PROVE  InputPlaces'
<1>1. events \in Seq(Event) /\ owed \subseteq Input /\ "Drain" \notin Input
  BY FfmpegDecoderAssumption DEF TypeOK
<1>2. /\ Head(events) = events[1] /\ 1 \in DOMAIN events
      /\ \A k \in DOMAIN events' : /\ k + 1 \in DOMAIN events /\ k + 1 # 1
                                   /\ events'[k] = events[k + 1]
      /\ \A k \in DOMAIN events :
            k = 1 \/ (k - 1 \in DOMAIN events' /\ events'[k - 1] = events[k])
      /\ \A k, l \in DOMAIN events' : k + 1 = l + 1 => k = l
  BY <1>1, Popped
<1>3. \A k, l \in DOMAIN events' :
         IsDone(events'[k]) /\ IsDone(events'[l]) /\ events'[k].id = events'[l].id => k = l
  BY <1>2 DEF InputPlaces
<1>4. \A l \in DOMAIN events' : IsDone(events'[l]) =>
         events'[l].id \in owed' /\ \A k \in DOMAIN jobs : jobs[k] # events'[l].id
  BY <1>2 DEF InputPlaces
<1>5. \A k \in DOMAIN jobs : jobs[k] # "Drain" => jobs[k] \in owed'
  BY <1>2 DEF InputPlaces
<1>6. \A i \in owed' : \/ \E k \in DOMAIN jobs : jobs[k] = i
                       \/ \E l \in DOMAIN events' : IsDone(events'[l]) /\ events'[l].id = i
  BY <1>2 DEF InputPlaces
<1>7. \A k, l \in DOMAIN jobs : jobs[k] = jobs[l] /\ jobs[k] # "Drain" => k = l
  BY DEF InputPlaces
<1> QED BY <1>3, <1>4, <1>5, <1>6, <1>7 DEF InputPlaces, IsDone

-----------------------------------------------------------------------------
(* Every state satisfies the invariant.                                    *)

\* queue_event keeps the eventfd in step with the queue.
LEMMA EventQueued ==
    ASSUME TypeOK, SignalFollows, NEW e \in Event, QueueEvent(e)
    PROVE  /\ events' = Append(events, e) /\ events' \in Seq(Event)
           /\ signalled' \in BOOLEAN /\ SignalFollows'
<1>1. events \in Seq(Event) /\ signalled \in BOOLEAN
  BY DEF TypeOK
<1>2. events' = Append(events, e) /\ signalled' = (signalled \/ events = <<>>)
  BY DEF QueueEvent
<1>3. events' \in Seq(Event) /\ events' # <<>>
  BY <1>1, <1>2, Pushed
<1>4. signalled' = TRUE
  BY <1>2 DEF SignalFollows
<1> QED BY <1>2, <1>3, <1>4 DEF SignalFollows

\* A step that touches neither queue of buffers keeps what is said of them.
LEMMA QueuesUnchanged ==
    ASSUME Inv, UNCHANGED <<available_output_frames, events, signalled, jobs, owed, given>>,
           failed' \in {failed, TRUE}, failed' \in BOOLEAN
    PROVE  SignalFollows' /\ FramePlaces' /\ (~failed' => InputPlaces')
<1>1. SignalFollows'
  BY DEF Inv, SignalFollows
<1>2. FramePlaces'
  BY FramesUnchanged DEF Inv
<1>3. ASSUME ~failed' PROVE InputPlaces'
  BY <1>3, InputsUnchanged DEF Inv, TypeOK
<1> QED BY <1>1, <1>2, <1>3

\* The initial state.
LEMMA InitInv == Init => Inv
<1> SUFFICES ASSUME Init PROVE Inv
  OBVIOUS
<1>1. TypeOK
  <2>1. <<>> \in Seq(Input \cup {"Drain"}) /\ <<>> \in Seq(Capture) /\ <<>> \in Seq(Event)
    OBVIOUS
  <2>2. 1 \in 1 .. MaxFormats /\ 0 \in 0 .. MaxInside
    BY FfmpegDecoderAssumption
  <2> QED BY <2>1, <2>2 DEF Init, TypeOK, DrainState
<1>2. SignalFollows /\ DrainFlushed /\ DrainIsClean
  BY DEF Init, SignalFollows, DrainFlushed, DrainIsClean
<1>3. DOMAIN jobs = {} /\ DOMAIN events = {} /\ DOMAIN available_output_frames = {} /\ owed = {}
  BY DEF Init
<1>4. FramePlaces /\ InputPlaces
  BY <1>3 DEF FramePlaces, InputPlaces
<1> QED BY <1>1, <1>2, <1>4 DEF Inv

\* try_output_frame
LEMMA TryOutputFrameInv == Inv /\ TryOutputFrame => Inv'
<1> SUFFICES ASSUME Inv, TryOutputFrame PROVE Inv'
  OBVIOUS
<1> DEFINE q == available_output_frames
<1>1. /\ TypeOK /\ SignalFollows /\ DrainFlushed /\ DrainIsClean /\ FramePlaces
      /\ ~failed => InputPlaces
  BY DEF Inv
<1>2. UNCHANGED <<context, jobs, accepting_output_buffers, codec, stream_format, owed, given>>
  BY DEF TryOutputFrame
<1>3. CASE at' = "receive" /\ UNCHANGED <<drain_state, avframe, q, events, signalled, failed>>
  <2>1. TypeOK'
    BY <1>1, <1>2, <1>3 DEF TypeOK
  <2>2. DrainFlushed' /\ DrainIsClean'
    BY <1>1, <1>2, <1>3 DEF DrainFlushed, DrainIsClean
  <2> QED BY <1>2, <1>3, <2>1, <2>2, QueuesUnchanged DEF Inv, TypeOK
<1>4. CASE /\ q # <<>> /\ drain_state = "AwaitingFinalFrame" /\ avframe = None
           /\ drain_state' = "None" /\ QueueEvent(Frame(Head(q), TRUE)) /\ q' = Tail(q)
           /\ UNCHANGED <<avframe, at, failed>>
  <2>1. Head(q) \in Capture /\ q' \in Seq(Capture)
    BY <1>1, <1>4, Popped DEF TypeOK
  <2>2. Frame(Head(q), TRUE) \in Event /\ ~IsDone(Frame(Head(q), TRUE))
    BY <2>1, EventTypes
  <2>3. /\ events' = Append(events, Frame(Head(q), TRUE)) /\ events' \in Seq(Event)
        /\ signalled' \in BOOLEAN /\ SignalFollows'
    BY <1>1, <1>4, <2>2, EventQueued
  <2>4. TypeOK'
    BY <1>1, <1>2, <1>4, <2>1, <2>3 DEF TypeOK, DrainState
  <2>5. DrainFlushed' /\ DrainIsClean'
    BY <1>4 DEF DrainFlushed, DrainIsClean
  <2>6. FramePlaces'
    BY <1>1, <1>2, <1>4, <2>3, FrameSent
  <2>7. ~failed' => InputPlaces'
    BY <1>1, <1>2, <1>4, <2>2, <2>3, InputsOtherEvent
  <2> QED BY <2>3, <2>4, <2>5, <2>6, <2>7 DEF Inv
<1>5. CASE /\ q # <<>> /\ drain_state # "AwaitingFinalFrame" /\ avframe # None
           /\ avframe' = None /\ QueueEvent(Frame(Head(q), FALSE)) /\ q' = Tail(q)
           /\ UNCHANGED <<drain_state, at, failed>>
  <2>1. Head(q) \in Capture /\ q' \in Seq(Capture)
    BY <1>1, <1>5, Popped DEF TypeOK
  <2>2. Frame(Head(q), FALSE) \in Event /\ ~IsDone(Frame(Head(q), FALSE))
    BY <2>1, EventTypes
  <2>3. /\ events' = Append(events, Frame(Head(q), FALSE)) /\ events' \in Seq(Event)
        /\ signalled' \in BOOLEAN /\ SignalFollows'
    BY <1>1, <1>5, <2>2, EventQueued
  <2>4. TypeOK'
    BY <1>1, <1>2, <1>5, <2>1, <2>3 DEF TypeOK
  <2>5. DrainFlushed' /\ DrainIsClean'
    BY <1>5 DEF DrainFlushed, DrainIsClean
  <2>6. FramePlaces'
    BY <1>1, <1>2, <1>5, <2>3, FrameSent
  <2>7. ~failed' => InputPlaces'
    BY <1>1, <1>2, <1>5, <2>2, <2>3, InputsOtherEvent
  <2> QED BY <2>3, <2>4, <2>5, <2>6, <2>7 DEF Inv
<1>6. CASE /\ q # <<>> /\ drain_state # "AwaitingFinalFrame" /\ avframe # None
           /\ avframe' = None /\ q' = Tail(q) /\ failed' = TRUE /\ at' = None
           /\ UNCHANGED <<drain_state, events, signalled>>
  <2>1. q' \in Seq(Capture)
    BY <1>1, <1>6, Popped DEF TypeOK
  <2>2. TypeOK'
    BY <1>1, <1>2, <1>6, <2>1 DEF TypeOK
  <2>3. SignalFollows' /\ DrainFlushed' /\ DrainIsClean'
    BY <1>1, <1>6 DEF SignalFollows, DrainFlushed, DrainIsClean
  <2>4. FramePlaces'
    BY <1>1, <1>2, <1>6, FrameLost
  <2> QED BY <1>6, <2>2, <2>3, <2>4 DEF Inv
<1> QED BY <1>3, <1>4, <1>5, <1>6 DEF TryOutputFrame

\* Of the answers of libavcodec only a frame of another format touches the queues.
LEMMA TryReceiveFrameInv == Inv /\ TryReceiveFrame => Inv'
<1> SUFFICES ASSUME Inv, TryReceiveFrame PROVE Inv'
  OBVIOUS
<1>1. /\ TypeOK /\ SignalFollows /\ DrainFlushed /\ DrainIsClean /\ FramePlaces
      /\ ~failed => InputPlaces
  BY DEF Inv
<1>2. UNCHANGED <<context, jobs, owed, given>>
  BY DEF TryReceiveFrame
<1>3. /\ codec \in [inside : 0 .. MaxInside, flushed : BOOLEAN]
      /\ {MaxInside, MaxFormats} \subseteq Nat
  BY <1>1, FfmpegDecoderAssumption DEF TypeOK
<1>4. CASE FrameWaits \/ TryAgain \/ FlushCompleted
  <2>1. /\ UNCHANGED <<avframe, stream_format, available_output_frames,
                       accepting_output_buffers, events, signalled>>
        /\ drain_state' \in DrainState /\ at' \in {None, "output", "receive", "send"}
        /\ failed' \in {failed, TRUE}
        /\ codec' \in {codec, [codec EXCEPT !.flushed = TRUE]}
    BY <1>1, <1>4 DEF FrameWaits, TryAgain, FlushCompleted, TypeOK, DrainState
  <2>2. codec' \in [inside : 0 .. MaxInside, flushed : BOOLEAN]
    BY <1>3, <2>1
  <2>3. TypeOK'
    BY <1>1, <1>2, <2>1, <2>2 DEF TypeOK
  <2>4. DrainFlushed' /\ DrainIsClean'
    BY <1>1, <1>3, <1>4
       DEF FrameWaits, TryAgain, FlushCompleted, DrainFlushed, DrainIsClean
  <2> QED BY <1>2, <2>1, <2>3, <2>4, QueuesUnchanged DEF Inv, TypeOK
<1>5. CASE ReceiveError \/ ReceivedNoConverter
  <2>1. /\ UNCHANGED <<avframe, drain_state, available_output_frames,
                       accepting_output_buffers, events, signalled>>
        /\ stream_format' \in 1 .. MaxFormats /\ at' \in {None, "output", "receive", "send"}
        /\ failed' \in {failed, TRUE}
        /\ codec.inside > 0 /\ codec' = [codec EXCEPT !.inside = @ - 1]
    <3>1. CASE ReceiveError
      BY <1>1, <3>1 DEF ReceiveError, TypeOK
    <3>2. CASE ReceivedNoConverter
      <4>1. stream_format \in 1 .. MaxFormats /\ stream_format < MaxFormats
        BY <1>1, <3>2 DEF ReceivedNoConverter, TypeOK
      <4>2. stream_format + 1 \in 1 .. MaxFormats
        BY <1>3, <4>1
      <4> QED BY <3>2, <4>2 DEF ReceivedNoConverter
    <3> QED BY <1>5, <3>1, <3>2
  <2>2. codec' \in [inside : 0 .. MaxInside, flushed : BOOLEAN]
    BY <1>3, <2>1
  <2>3. TypeOK'
    BY <1>1, <1>2, <2>1, <2>2 DEF TypeOK
  <2>4. DrainFlushed' /\ DrainIsClean'
    BY <1>1, <1>3, <2>1 DEF DrainFlushed, DrainIsClean
  <2> QED BY <1>2, <2>1, <2>3, <2>4, QueuesUnchanged DEF Inv, TypeOK
<1>6. ASSUME NEW fmt \in 1 .. MaxFormats, Received(fmt) PROVE Inv'
  <2>1. /\ UNCHANGED <<drain_state, failed>> /\ stream_format' = fmt /\ avframe' = fmt
        /\ codec.inside > 0 /\ codec' = [codec EXCEPT !.inside = @ - 1] /\ at' = "output"
        /\ ReceiveFormat(fmt)
    BY <1>6 DEF Received
  <2>2. codec' \in [inside : 0 .. MaxInside, flushed : BOOLEAN]
    BY <1>3, <2>1
  <2>3. DrainFlushed' /\ DrainIsClean'
    BY <1>1, <1>3, <2>1 DEF DrainFlushed, DrainIsClean
  <2>4. CASE fmt = stream_format
    <3>1. UNCHANGED <<available_output_frames, accepting_output_buffers, events, signalled>>
      BY <2>1, <2>4 DEF ReceiveFormat
    <3>2. TypeOK'
      BY <1>1, <1>2, <2>1, <2>2, <3>1 DEF TypeOK
    <3> QED BY <1>2, <2>1, <2>3, <3>1, <3>2, QueuesUnchanged DEF Inv, TypeOK
  <2>5. CASE fmt # stream_format
    <3>1. /\ available_output_frames' = <<>> /\ accepting_output_buffers' = FALSE
          /\ QueueEvent(Changed)
      BY <2>1, <2>5 DEF ReceiveFormat
    <3>2. Changed \in Event /\ ~IsFrame(Changed) /\ ~IsDone(Changed)
      BY EventTypes
    <3>3. /\ events' = Append(events, Changed) /\ events' \in Seq(Event)
          /\ signalled' \in BOOLEAN /\ SignalFollows'
      BY <1>1, <3>1, <3>2, EventQueued
    <3>4. TypeOK'
      <4>1. available_output_frames' \in Seq(Capture)
        BY <3>1
      <4> QED BY <1>1, <1>2, <2>1, <2>2, <3>1, <3>3, <4>1 DEF TypeOK
    <3>5. FramePlaces'
      BY <1>1, <1>2, <3>1, <3>2, <3>3, FramesOtherEvent
    <3>6. ~failed' => InputPlaces'
      BY <1>1, <1>2, <2>1, <3>2, <3>3, InputsOtherEvent
    <3> QED BY <2>3, <3>3, <3>4, <3>5, <3>6 DEF Inv
  <2> QED BY <2>4, <2>5
<1> QED BY <1>4, <1>5, <1>6 DEF TryReceiveFrame

\* try_send_input_job
LEMMA TrySendInputJobInv == Inv /\ TrySendInputJob => Inv'
<1> SUFFICES ASSUME Inv, TrySendInputJob PROVE Inv'
  OBVIOUS
<1>1. /\ TypeOK /\ SignalFollows /\ DrainFlushed /\ DrainIsClean /\ FramePlaces
      /\ ~failed => InputPlaces
  BY DEF Inv
<1>2. UNCHANGED <<context, accepting_output_buffers, avframe, stream_format,
                  available_output_frames, owed, given>>
  BY DEF TrySendInputJob
<1>3. /\ codec \in [inside : 0 .. MaxInside, flushed : BOOLEAN] /\ MaxInside \in Nat
      /\ jobs \in Seq(Input \cup {"Drain"}) /\ "Drain" \notin Input
  BY <1>1, FfmpegDecoderAssumption DEF TypeOK
<1>4. jobs # <<>> => Head(jobs) \in Input \cup {"Drain"} /\ Tail(jobs) \in Seq(Input \cup {"Drain"})
  BY <1>3, Popped
<1>5. CASE SendDrain
  <2>1. /\ jobs # <<>> /\ Head(jobs) = "Drain" /\ jobs' = Tail(jobs)
        /\ drain_state' = "Initiated" /\ at' = "output"
        /\ UNCHANGED <<codec, events, signalled, failed>>
    BY <1>5 DEF SendDrain
  <2>2. TypeOK'
    BY <1>1, <1>2, <1>4, <2>1 DEF TypeOK, DrainState
  <2>3. SignalFollows' /\ DrainFlushed' /\ DrainIsClean'
    BY <1>1, <2>1 DEF SignalFollows, DrainFlushed, DrainIsClean
  <2>4. FramePlaces'
    BY <1>1, <1>2, <2>1, FramesUnchanged
  <2>5. ~failed' => InputPlaces'
    BY <1>1, <1>2, <2>1, DrainMoves
  <2> QED BY <2>2, <2>3, <2>4, <2>5 DEF Inv
<1>6. CASE /\ jobs # <<>> /\ Head(jobs) # "Drain" /\ ~codec.flushed /\ codec.inside < MaxInside
           /\ \E k \in {0, 1} : codec' = [codec EXCEPT !.inside = @ + k]
           /\ QueueEvent(Done(Head(jobs))) /\ jobs' = Tail(jobs) /\ at' = "output"
           /\ UNCHANGED <<failed, drain_state>>
  <2>1. codec' \in [inside : 0 .. MaxInside, flushed : BOOLEAN]
    BY <1>3, <1>6
  <2>2. Done(Head(jobs)) \in Event /\ ~IsFrame(Done(Head(jobs)))
    BY <1>3, <1>4, <1>6, EventTypes
  <2>3. /\ events' = Append(events, Done(Head(jobs))) /\ events' \in Seq(Event)
        /\ signalled' \in BOOLEAN /\ SignalFollows'
    BY <1>1, <1>6, <2>2, EventQueued
  <2>4. TypeOK'
    BY <1>1, <1>2, <1>4, <1>6, <2>1, <2>3 DEF TypeOK
  <2>5. DrainFlushed' /\ DrainIsClean'
    BY <1>1, <1>6 DEF DrainFlushed, DrainIsClean
  <2>6. FramePlaces'
    BY <1>1, <1>2, <2>2, <2>3, FramesOtherEvent
  <2>7. ~failed' => InputPlaces'
    BY <1>1, <1>2, <1>6, <2>3, InputSent
  <2> QED BY <2>3, <2>4, <2>5, <2>6, <2>7 DEF Inv
<1>7. CASE at' = None /\ UNCHANGED <<codec, events, signalled, jobs, failed, drain_state>>
  <2>1. TypeOK'
    BY <1>1, <1>2, <1>7 DEF TypeOK
  <2>2. DrainFlushed' /\ DrainIsClean'
    BY <1>1, <1>2, <1>7 DEF DrainFlushed, DrainIsClean
  <2> QED BY <1>2, <1>7, <2>1, <2>2, QueuesUnchanged DEF Inv, TypeOK
<1>8. CASE /\ jobs # <<>> /\ jobs' = Tail(jobs) /\ at' = None /\ failed' = TRUE
           /\ UNCHANGED <<codec, events, signalled, drain_state>>
  <2>1. TypeOK'
    BY <1>1, <1>2, <1>4, <1>8 DEF TypeOK
  <2>2. SignalFollows' /\ DrainFlushed' /\ DrainIsClean'
    BY <1>1, <1>2, <1>8 DEF SignalFollows, DrainFlushed, DrainIsClean
  <2>3. FramePlaces'
    BY <1>1, <1>2, <1>8, FramesUnchanged
  <2> QED BY <1>8, <2>1, <2>2, <2>3 DEF Inv
<1>9. CASE SendPacket
  BY <1>6, <1>7, <1>8, <1>9 DEF SendPacket
<1>10. CASE NoJob
  BY <1>7, <1>10 DEF NoJob
<1> QED BY <1>5, <1>9, <1>10 DEF TrySendInputJob

\* decode
LEMMA DecodeInv == ASSUME NEW i \in Input PROVE Inv /\ Decode(i) => Inv'
<1> SUFFICES ASSUME Inv, Decode(i) PROVE Inv'
  OBVIOUS
<1>1. /\ TypeOK /\ SignalFollows /\ DrainFlushed /\ DrainIsClean /\ FramePlaces
      /\ ~failed => InputPlaces
  BY DEF Inv
<1>2. /\ i \notin owed /\ context' = TRUE /\ at' = "output"
      /\ jobs' = Append(jobs, i) /\ owed' = owed \cup {i}
      /\ UNCHANGED <<accepting_output_buffers, drain_state, avframe, codec, stream_format,
                     available_output_frames, events, signalled, given, failed>>
  BY DEF Decode, queueVars
<1>3. TypeOK'
  <2>1. jobs' \in Seq(Input \cup {"Drain"})
    BY <1>1, <1>2 DEF TypeOK
  <2> QED BY <1>1, <1>2, <2>1 DEF TypeOK
<1>4. SignalFollows' /\ DrainFlushed' /\ DrainIsClean'
  BY <1>1, <1>2 DEF SignalFollows, DrainFlushed, DrainIsClean
<1>5. FramePlaces'
  BY <1>1, <1>2, FramesUnchanged
<1>6. ~failed' => InputPlaces'
  BY <1>1, <1>2, InputGiven
<1> QED BY <1>3, <1>4, <1>5, <1>6 DEF Inv

\* drain
LEMMA DrainInv == Inv /\ Drain => Inv'
<1> SUFFICES ASSUME Inv, Drain PROVE Inv'
  OBVIOUS
<1>1. /\ TypeOK /\ SignalFollows /\ DrainFlushed /\ DrainIsClean /\ FramePlaces
      /\ ~failed => InputPlaces
  BY DEF Inv
<1>2. /\ at' = "output" /\ jobs' = Append(jobs, "Drain")
      /\ UNCHANGED <<context, accepting_output_buffers, drain_state, avframe, codec,
                     stream_format, available_output_frames, events, signalled,
                     owed, given, failed>>
  BY DEF Drain, queueVars, historyVars
<1>3. TypeOK'
  <2>1. jobs' \in Seq(Input \cup {"Drain"})
    BY <1>1, <1>2 DEF TypeOK
  <2> QED BY <1>1, <1>2, <2>1 DEF TypeOK
<1>4. SignalFollows' /\ DrainFlushed' /\ DrainIsClean'
  BY <1>1, <1>2 DEF SignalFollows, DrainFlushed, DrainIsClean
<1>5. FramePlaces'
  BY <1>1, <1>2, FramesUnchanged
<1>6. ~failed' => InputPlaces'
  BY <1>1, <1>2, DrainMoves
<1> QED BY <1>3, <1>4, <1>5, <1>6 DEF Inv

\* use_as_output
LEMMA UseAsOutputInv == ASSUME NEW b \in Capture PROVE Inv /\ UseAsOutput(b) => Inv'
<1> SUFFICES ASSUME Inv, UseAsOutput(b) PROVE Inv'
  OBVIOUS
<1>1. /\ TypeOK /\ SignalFollows /\ DrainFlushed /\ DrainIsClean /\ FramePlaces
      /\ ~failed => InputPlaces
  BY DEF Inv
<1>2. /\ b \notin given /\ given' = given \cup {b}
      /\ available_output_frames' \in
            {available_output_frames, Append(available_output_frames, b)}
      /\ UNCHANGED <<context, jobs, accepting_output_buffers, drain_state, avframe, codec,
                     stream_format, events, signalled, at, owed, failed>>
  BY DEF UseAsOutput, contextVars
<1>3. TypeOK'
  <2>1. available_output_frames' \in Seq(Capture)
    BY <1>1, <1>2 DEF TypeOK
  <2> QED BY <1>1, <1>2, <2>1 DEF TypeOK
<1>4. SignalFollows' /\ DrainFlushed' /\ DrainIsClean'
  BY <1>1, <1>2 DEF SignalFollows, DrainFlushed, DrainIsClean
<1>5. FramePlaces'
  BY <1>1, <1>2, FrameGiven
<1>6. ~failed' => InputPlaces'
  BY <1>1, <1>2, InputsUnchanged
<1> QED BY <1>3, <1>4, <1>5, <1>6 DEF Inv

\* clear_output_buffers: a queue that was empty stays empty and is not signalled.
LEMMA ClearOutputBuffersInv == Inv /\ ClearOutputBuffers => Inv'
<1> SUFFICES ASSUME Inv, ClearOutputBuffers PROVE Inv'
  OBVIOUS
<1>1. /\ TypeOK /\ SignalFollows /\ DrainFlushed /\ DrainIsClean /\ FramePlaces
      /\ ~failed => InputPlaces
  BY DEF Inv
<1>2. /\ available_output_frames' = <<>> /\ given' = {} /\ events' = Retained
      /\ signalled' = (signalled /\ ~(events # <<>> /\ Retained = <<>>))
      /\ UNCHANGED <<context, jobs, accepting_output_buffers, drain_state, avframe, codec,
                     stream_format, at, owed, failed>>
  BY DEF ClearOutputBuffers, contextVars
<1>3. Retained \in Seq(Event)
  BY <1>1, RetainedPlaces DEF TypeOK
<1>4. events = <<>> => Retained = <<>>
  <2>1. PICK place : \A n \in DOMAIN Retained : place[n] \in DOMAIN events
    BY <1>1, RetainedPlaces DEF TypeOK
  <2>2. events = <<>> => DOMAIN Retained = {}
    BY <2>1
  <2>3. \A s \in Seq(Event) : DOMAIN s = {} => s = <<>>
    OBVIOUS
  <2> QED BY <1>3, <2>2, <2>3
<1> HIDE DEF Retained
<1>5. TypeOK'
  <2>1. available_output_frames' \in Seq(Capture) /\ given' \in SUBSET Capture
    BY <1>2
  <2>2. signalled' \in BOOLEAN
    BY <1>2
  <2> QED BY <1>1, <1>2, <1>3, <2>1, <2>2 DEF TypeOK
<1>6. SignalFollows'
  BY <1>1, <1>2, <1>4, Zenon DEF SignalFollows
<1>7. DrainFlushed' /\ DrainIsClean'
  BY <1>1, <1>2 DEF DrainFlushed, DrainIsClean
<1>8. FramePlaces'
  BY <1>1, <1>2, FramesCleared
<1>9. ~failed' => InputPlaces'
  BY <1>1, <1>2, InputsRetained
<1> QED BY <1>5, <1>6, <1>7, <1>8, <1>9 DEF Inv

\* streaming_state, and a step that changes nothing
LEMMA StreamingStateInv == Inv /\ (StreamingState \/ UNCHANGED vars) => Inv'
<1> SUFFICES ASSUME Inv, StreamingState \/ UNCHANGED vars PROVE Inv'
  OBVIOUS
<1>1. /\ accepting_output_buffers' \in {accepting_output_buffers, TRUE}
      /\ UNCHANGED <<context, jobs, drain_state, avframe, codec, stream_format,
                     available_output_frames, events, signalled, at, owed, given, failed>>
  BY DEF StreamingState, vars, contextVars, queueVars, historyVars
<1>2. TypeOK'
  BY <1>1 DEF Inv, TypeOK
<1>3. DrainFlushed' /\ DrainIsClean'
  BY <1>1 DEF Inv, DrainFlushed, DrainIsClean
<1> QED BY <1>1, <1>2, <1>3, QueuesUnchanged DEF Inv, TypeOK

\* next_event: the eventfd is read with the last event.
LEMMA NextEventInv == Inv /\ NextEvent => Inv'
<1> SUFFICES ASSUME Inv, NextEvent PROVE Inv'
  OBVIOUS
<1>1. /\ TypeOK /\ SignalFollows /\ DrainFlushed /\ DrainIsClean /\ FramePlaces
      /\ ~failed => InputPlaces
  BY DEF Inv
<1>2. /\ events # <<>> /\ events' = Tail(events)
      /\ owed' = IF IsDone(Head(events)) THEN owed \ {Head(events).id} ELSE owed
      /\ given' = IF IsFrame(Head(events)) THEN given \ {Head(events).id} ELSE given
      /\ signalled' = (signalled /\ Tail(events) # <<>>)
      /\ UNCHANGED <<context, jobs, accepting_output_buffers, drain_state, avframe, codec,
                     stream_format, available_output_frames, at, failed>>
  BY DEF NextEvent, contextVars, IsDone, IsFrame
<1>3. TypeOK'
  <2>1. events' \in Seq(Event)
    BY <1>1, <1>2, Popped DEF TypeOK
  <2>2. signalled' \in BOOLEAN
    BY <1>2
  <2>3. owed' \in SUBSET Input /\ given' \in SUBSET Capture
    BY <1>1, <1>2 DEF TypeOK
  <2> QED BY <1>1, <1>2, <2>1, <2>2, <2>3 DEF TypeOK
<1>4. SignalFollows'
  BY <1>1, <1>2, Zenon DEF SignalFollows
<1>5. DrainFlushed' /\ DrainIsClean'
  BY <1>1, <1>2 DEF DrainFlushed, DrainIsClean
<1>6. FramePlaces'
  BY <1>1, <1>2, FrameTaken
<1>7. ~failed' => InputPlaces'
  BY <1>1, <1>2, InputTaken
<1> QED BY <1>3, <1>4, <1>5, <1>6, <1>7 DEF Inv

\* The invariant is inductive.
LEMMA NextInv == Inv /\ [Next]_vars => Inv'
BY TryOutputFrameInv, TryReceiveFrameInv, TrySendInputJobInv, DecodeInv, DrainInv,
   UseAsOutputInv, ClearOutputBuffersInv, StreamingStateInv, NextEventInv
   DEF Next, TryDecode

\* Every state of every behaviour satisfies the inductive invariant.
THEOREM BackendInvariant == Spec => []Inv
BY InitInv, NextInv, PTL DEF Spec

-----------------------------------------------------------------------------
(* What it says of the properties.                                         *)

\* The fields of the session and of the decoding context always have their types.
THEOREM BackendTypeCorrect == Spec => []TypeOK
<1>1. Inv => TypeOK
  BY DEF Inv
<1> QED BY <1>1, BackendInvariant, PTL

\* EventQueue's eventfd is readable exactly while pending_events is not empty, whatever
\* queue_event, dequeue_event and retain do.
THEOREM SignalAlwaysFollows == Spec => []SignalFollows
<1>1. Inv => SignalFollows
  BY DEF Inv
<1> QED BY <1>1, BackendInvariant, PTL

\* The LAST frame is due only when libavcodec and avframe are empty: try_send_input_job
\* never puts another packet between the flush and the end of the drain.
THEOREM DrainAlwaysClean == Spec => []DrainIsClean
<1>1. Inv => DrainIsClean
  BY DEF Inv
<1> QED BY <1>1, BackendInvariant, PTL

\* The size of a set with at most one element.
LEMMA AtMostOne ==
    ASSUME NEW S, \A k, l \in S : k = l
    PROVE  Cardinality(S) = IF S = {} THEN 0 ELSE 1
<1>1. CASE S = {}
  BY <1>1, FS_EmptySet
<1>2. CASE S # {}
  <2>1. PICK x : x \in S
    BY <1>2
  <2>2. S = {x}
    BY <2>1
  <2> QED BY <1>2, <2>2, FS_Singleton
<1> QED BY <1>1, <1>2

\* A CAPTURE buffer is with the backend at most once, and only while the device has given
\* it: use_as_output, try_output_frame, clear_output_buffers and next_event never leave
\* two owners.
THEOREM FramesAlwaysConserved == Spec => []FramesConserved
<1>1. ASSUME Inv PROVE FramesConserved
  <2> SUFFICES ASSUME NEW b \in Capture
               PROVE  LET n == Count(available_output_frames, LAMBDA f : f = b)
                               + Count(events, LAMBDA e : e.type = "FrameCompleted" /\ e.id = b)
                      IN  n <= IF b \in given THEN 1 ELSE 0
    BY DEF FramesConserved
  <2> DEFINE A == {k \in DOMAIN available_output_frames : available_output_frames[k] = b}
             B == {k \in DOMAIN events : events[k].type = "FrameCompleted" /\ events[k].id = b}
  <2>1. FramePlaces
    BY <1>1 DEF Inv
  <2>2. \A k, l \in A : k = l
    BY <2>1 DEF FramePlaces
  <2>3. \A k, l \in B : k = l
    BY <2>1 DEF FramePlaces, IsFrame
  <2>4. (A = {} \/ B = {}) /\ (b \notin given => A = {} /\ B = {})
    BY <2>1 DEF FramePlaces, IsFrame
  <2>5. /\ Cardinality(A) = IF A = {} THEN 0 ELSE 1
        /\ Cardinality(B) = IF B = {} THEN 0 ELSE 1
    <3> HIDE DEF A, B
    <3> QED BY <2>2, <2>3, AtMostOne
  <2>6. /\ Count(available_output_frames, LAMBDA f : f = b) = Cardinality(A)
        /\ Count(events, LAMBDA e : e.type = "FrameCompleted" /\ e.id = b) = Cardinality(B)
    BY DEF Count
  <2> HIDE DEF A, B
  <2> QED BY <2>4, <2>5, <2>6
<1> QED BY <1>1, BackendInvariant, PTL

\* Until a call fails, an input the device waits for is in exactly one place, a job or the
\* event that returns it, and one it does not wait for is in none: decode,
\* try_send_input_job, clear_output_buffers and next_event lose and duplicate none.
THEOREM InputsAlwaysConserved == Spec => []InputsConserved
<1>1. ASSUME Inv PROVE InputsConserved
  <2> SUFFICES ASSUME ~failed, NEW i \in Input
               PROVE  LET n == Count(jobs, LAMBDA j : j = i)
                               + Count(events, LAMBDA e : e = Done(i))
                      IN  n = IF i \in owed THEN 1 ELSE 0
    BY DEF InputsConserved
  <2> DEFINE A == {k \in DOMAIN jobs : jobs[k] = i}
             B == {k \in DOMAIN events : events[k] = Done(i)}
  <2>1. InputPlaces /\ events \in Seq(Event) /\ i # "Drain"
    BY <1>1, FfmpegDecoderAssumption DEF Inv, TypeOK
  <2>2. \A k \in DOMAIN events : events[k] = Done(i) <=> IsDone(events[k]) /\ events[k].id = i
    <3>1. \A k \in DOMAIN events : events[k] \in Event
      BY <2>1
    <3> QED BY <3>1, EventTypes
  <2>3. \A k, l \in A : k = l
    BY <2>1 DEF InputPlaces
  <2>4. \A k, l \in B : k = l
    BY <2>1, <2>2 DEF InputPlaces
  <2>5. /\ A = {} \/ B = {}
        /\ i \in owed <=> (A # {} \/ B # {})
    BY <2>1, <2>2 DEF InputPlaces
  <2>6. /\ Cardinality(A) = IF A = {} THEN 0 ELSE 1
        /\ Cardinality(B) = IF B = {} THEN 0 ELSE 1
    <3> HIDE DEF A, B
    <3> QED BY <2>3, <2>4, AtMostOne
  <2>7. /\ Count(jobs, LAMBDA j : j = i) = Cardinality(A)
        /\ Count(events, LAMBDA e : e = Done(i)) = Cardinality(B)
    BY DEF Count
  <2> HIDE DEF A, B
  <2> QED BY <2>5, <2>6, <2>7
<1> QED BY <1>1, BackendInvariant, PTL
=============================================================================
