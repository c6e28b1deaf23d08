------------------------- MODULE SimpleDeviceProofs -------------------------
(***************************************************************************)
(* The invariants of the simple capture device, for any number of          *)
(* sessions, buffers and pages.                                            *)
(***************************************************************************)
EXTENDS SimpleDevice, FiniteSetTheorems, SequenceTheorems, WellFoundedInduction, TLAPS

-----------------------------------------------------------------------------
(* The invariant of one session: its fields, with what the guest thinks of *)
(* it.  Without a fault the two agree; guest_streams => streaming is what  *)
(* a REQBUFS that follows a fault needs.                                   *)

Agrees(se, isOwed, guestStreams) ==
    /\ isOwed = Range(se.queued_buffers)
    /\ \A i \in DOMAIN se.buffers : i \in isOwed <=> se.buffers[i].state = "Incoming"
    /\ se.streaming => isOwed = {}
    /\ guestStreams <=> se.streaming

SessionTyped(se) ==
    /\ se \in SimpleCaptureDeviceSession /\ Len(se.buffers) <= MaxCount
    /\ Range(se.queued_buffers) \subseteq DOMAIN se.buffers

DistinctOffsets(se) ==
    \A i, j \in DOMAIN se.buffers : se.buffers[i].offset = se.buffers[j].offset => i = j

SessionOK(se, isOwed, guestStreams, isFaulted) ==
    /\ SessionTyped(se) /\ DistinctOffsets(se) /\ isOwed \subseteq DOMAIN se.buffers
    /\ guestStreams => se.streaming
    /\ ~isFaulted => Agrees(se, isOwed, guestStreams)

TableOK(t) ==
    /\ DOMAIN t \subseteq 0 .. MaxPage
    /\ \A p \in DOMAIN t : t[p] \in TableEntry(1 .. MaxMems \cup {None})

FieldsOK ==
    /\ DOMAIN sess = Session /\ owed \in [Session -> SUBSET Nat]
    /\ guest_streams \in [Session -> BOOLEAN] /\ faulted \in [Session -> BOOLEAN]
    /\ stale \in [Session -> BOOLEAN]
    /\ active_session \in Session \cup {None} /\ mems \in 0 .. MaxMems

SessionsOK ==
    \A s \in Session :
        IF s \in Open THEN SessionOK(sess[s], owed[s], guest_streams[s], faulted[s])
        ELSE ~faulted[s] /\ ~stale[s] /\ owed[s] = {} /\ ~guest_streams[s]

Inv == FieldsOK /\ TableOK(table) /\ SessionsOK /\ BuffersOwned /\ MapsShowBuffers

-----------------------------------------------------------------------------
(* The operations on the table of pages.                                   *)

\* Every non-empty set of numbers has a least element.
LEMMA LeastPage ==
    ASSUME NEW T \in SUBSET Nat, T # {}
    PROVE  \E x \in T : \A y \in T : x <= y
<1> DEFINE R == {ss \in Nat \X Nat : ss[1] < ss[2]}
<1>1. IsWellFoundedOn(R, Nat)
  BY NatLessThanWellFounded, Zenon DEF OpToRel
<1>2. \A x, y \in Nat : x < y => <<x, y>> \in R
  OBVIOUS
<1> HIDE DEF R
<1>3. PICK x \in T : \A y \in T : ~(<<y, x>> \in R)
  BY <1>1, WFMin
<1>4. \A y \in T : ~(y < x) /\ y \in Nat /\ x \in Nat
  BY <1>2, <1>3
<1>5. \A y \in T : x <= y
  BY <1>4
<1> QED BY <1>5

\* register_buffer(None, ..) chooses an offset, whatever the table holds.
LEMMA AutoPageType == ASSUME NEW t, TableOK(t) PROVE AutoPage(t) \in Nat
<1> DEFINE D == DOMAIN t
           T == {MaxPage - y : y \in D}
<1>1. MaxPage \in Nat /\ D \subseteq 0 .. MaxPage
  BY SimpleDeviceAssumption DEF TableOK
<1>2. CASE D # {}
  <2>1. T \in SUBSET Nat /\ T # {}
    BY <1>1, <1>2
  <2>2. PICK x \in T : \A y \in T : x <= y
    BY <2>1, LeastPage
  <2>3. PICK m \in D : x = MaxPage - m
    BY <2>2
  <2>4. \A y \in D : MaxPage - y \in T
    OBVIOUS
  <2> HIDE DEF T, D
  <2>5. \A y \in D : m >= y
    BY <1>1, <2>2, <2>3, <2>4
  <2>6. Max(D) \in D
    BY <2>5 DEF Max
  <2> QED BY <1>1, <1>2, <2>6 DEF AutoPage, D
<1>3. CASE D = {}
  BY <1>3 DEF AutoPage
<1> QED BY <1>2, <1>3

\* What a table shows, another one shows the same way.
ShowsSame(t, u) == \A p \in MappedPages(u) : p \in MappedPages(t) /\ u[p].mem = t[p].mem

\* unregister_buffer of some pages: their mappings stay as they are.
LEMMA Unregistered ==
    ASSUME NEW t, TableOK(t), NEW pages
    PROVE  LET u == UnregisterPages(t, pages)
           IN  /\ TableOK(u) /\ ShowsSame(t, u)
               /\ RegisteredPages(u) = RegisteredPages(t) \ pages
<1> DEFINE u == UnregisterPages(t, pages)
<1>1. DOMAIN u = {q \in DOMAIN t : q \notin pages \/ t[q].maps > 0}
  BY DEF UnregisterPages
<1>2. \A p \in DOMAIN u : u[p] = [t[p] EXCEPT !.registered = @ /\ p \notin pages]
  BY DEF UnregisterPages
<1> HIDE DEF u
<1>3. \A p \in DOMAIN u : /\ p \in DOMAIN t /\ u[p] \in TableEntry(1 .. MaxMems \cup {None})
                          /\ u[p].maps = t[p].maps /\ u[p].mem = t[p].mem
                          /\ (u[p].registered <=> t[p].registered /\ p \notin pages)
  BY <1>1, <1>2 DEF TableOK, TableEntry
<1>4. TableOK(u)
  BY <1>3 DEF TableOK
<1>5. ShowsSame(t, u)
  BY <1>3 DEF ShowsSame, MappedPages
<1>6. RegisteredPages(u) = RegisteredPages(t) \ pages
  BY <1>1, <1>3 DEF RegisteredPages
<1> QED BY <1>4, <1>5, <1>6 DEF u

\* register_buffer of some pages: nothing is mapped there.
LEMMA Registered ==
    ASSUME NEW t, TableOK(t), NEW pages \in SUBSET (0 .. MaxPage)
    PROVE  LET u == RegisterPages(t, pages, None)
           IN  /\ TableOK(u) /\ ShowsSame(t, u) /\ pages \cap MappedPages(u) = {}
               /\ RegisteredPages(u) = RegisteredPages(t) \cup pages
<1> DEFINE u == RegisterPages(t, pages, None)
<1>1. DOMAIN u = DOMAIN t \cup pages
  BY DEF RegisterPages
<1>2. \A p \in DOMAIN u : p \in pages => u[p] = [registered |-> TRUE, maps |-> 0, mem |-> None]
  BY DEF RegisterPages
<1>3. \A p \in DOMAIN u : p \notin pages => p \in DOMAIN t /\ u[p] = t[p]
  BY DEF RegisterPages
<1> HIDE DEF u
<1>4. \A p \in DOMAIN u : u[p] \in TableEntry(1 .. MaxMems \cup {None})
  <2>1. [registered |-> TRUE, maps |-> 0, mem |-> None] \in TableEntry(1 .. MaxMems \cup {None})
    BY DEF TableEntry
  <2> QED BY <1>2, <1>3, <2>1 DEF TableOK
<1>5. TableOK(u)
  BY <1>1, <1>4 DEF TableOK
<1>6. \A p \in pages : p \in DOMAIN u /\ u[p].maps = 0 /\ u[p].registered
  BY <1>1, <1>2
<1>7. ShowsSame(t, u) /\ pages \cap MappedPages(u) = {}
  <2>1. \A p \in MappedPages(u) : p \in DOMAIN u /\ u[p].maps > 0
    BY DEF MappedPages
  <2>2. ASSUME NEW p \in MappedPages(u), p \in pages PROVE FALSE
    <3>1. u[p].maps > 0 /\ u[p].maps = 0
      BY <1>6, <2>1, <2>2
    <3> QED BY <3>1
  <2> QED BY <1>3, <2>1, <2>2 DEF ShowsSame, MappedPages
<1>8. RegisteredPages(u) = RegisteredPages(t) \cup pages
  BY <1>1, <1>3, <1>6 DEF RegisteredPages
<1> QED BY <1>5, <1>7, <1>8 DEF u

-----------------------------------------------------------------------------
(* The operations on a session.                                            *)

\* The buffers of two sessions are the same but for their state.
SameBuffers(a, b) ==
    /\ DOMAIN a.buffers = DOMAIN b.buffers
    /\ \A i \in DOMAIN a.buffers : /\ a.buffers[i].offset = b.buffers[i].offset
                                   /\ a.buffers[i].mem = b.buffers[i].mem

\* A session with its type is not None.
LEMMA SessionIsOpen == ASSUME NEW se, SessionTyped(se) PROVE se # None
BY SimpleDeviceAssumption DEF SessionTyped

\* Buffers that are the same have the same offsets.
LEMMA SameOffsets ==
    ASSUME NEW a, NEW b, SameBuffers(a, b)
    PROVE  Offsets(a) = Offsets(b)
BY DEF SameBuffers, Offsets

\* A session without buffers has no offsets.
LEMMA NoOffsets ==
    ASSUME NEW se, SessionTyped(se)
    PROVE  /\ se.buffers = <<>> <=> DOMAIN se.buffers = {}
           /\ se.buffers = <<>> => Offsets(se) = {}
<1>1. se.buffers \in Seq(Buffer)
  BY DEF SessionTyped, SimpleCaptureDeviceSession
<1>2. se.buffers = <<>> <=> DOMAIN se.buffers = {}
  BY <1>1
<1> QED BY <1>2 DEF Offsets

\* A session whose buffers change state only keeps its type and its offsets.
LEMMA StateOnly ==
    ASSUME NEW se, SessionTyped(se), DistinctOffsets(se), NEW new, SameBuffers(new, se),
           new \in SimpleCaptureDeviceSession,
           Range(new.queued_buffers) \subseteq DOMAIN se.buffers
    PROVE  SessionTyped(new) /\ DistinctOffsets(new)
<1>1. se.buffers \in Seq(Buffer) /\ new.buffers \in Seq(Buffer)
  BY DEF SessionTyped, SimpleCaptureDeviceSession
<1>2. Len(new.buffers) = Len(se.buffers)
  BY <1>1 DEF SameBuffers
<1>3. SessionTyped(new)
  BY <1>2 DEF SessionTyped, SameBuffers
<1>4. DistinctOffsets(new)
  BY DEF DistinctOffsets, SameBuffers
<1> QED BY <1>3, <1>4

\* set_state on some of the buffers of a session.
LEMMA StateSet ==
    ASSUME NEW se, SessionTyped(se), NEW q, NEW state \in BufferState
    PROVE  LET b == SetState(se, q, state)
           IN  /\ b \in Seq(Buffer) /\ DOMAIN b = DOMAIN se.buffers
               /\ \A i \in DOMAIN b :
                     /\ b[i].offset = se.buffers[i].offset /\ b[i].mem = se.buffers[i].mem
                     /\ b[i].state = IF i \in q THEN state ELSE se.buffers[i].state
<1> DEFINE b == SetState(se, q, state)
<1>1. se.buffers \in Seq(Buffer)
  BY DEF SessionTyped, SimpleCaptureDeviceSession
<1>2. \A i \in DOMAIN se.buffers : se.buffers[i] \in Buffer
  BY <1>1
<1>3. DOMAIN b = DOMAIN se.buffers
  BY DEF SetState
<1>4. \A i \in DOMAIN b :
         b[i] = IF i \in q THEN [se.buffers[i] EXCEPT !.state = state] ELSE se.buffers[i]
  BY DEF SetState
<1>5. b = [i \in 1 .. Len(se.buffers) |-> b[i]] /\ Len(se.buffers) \in Nat
  BY <1>1 DEF SetState
<1> HIDE DEF b
<1>6. \A i \in DOMAIN b :
         /\ b[i] \in Buffer
         /\ b[i].offset = se.buffers[i].offset /\ b[i].mem = se.buffers[i].mem
         /\ b[i].state = IF i \in q THEN state ELSE se.buffers[i].state
  BY <1>2, <1>3, <1>4 DEF Buffer
<1>7. b \in Seq(Buffer)
  <2>1. b \in [1 .. Len(se.buffers) -> Buffer]
    BY <1>5, <1>6
  <2> QED BY <1>5, <2>1
<1> QED BY <1>3, <1>6, <1>7 DEF b

\* STREAMOFF and REQBUFS leave nothing queued.
LEMMA ClearedOK ==
    ASSUME NEW se, SessionTyped(se)
    PROVE  /\ Cleared(se) \in SimpleCaptureDeviceSession /\ SameBuffers(Cleared(se), se)
           /\ Cleared(se).queued_buffers = <<>> /\ Cleared(se).streaming = se.streaming
           /\ \A i \in DOMAIN se.buffers : Cleared(se).buffers[i].state = "New"
<1> DEFINE b == SetState(se, DOMAIN se.buffers, "New")
<1>1. se \in SimpleCaptureDeviceSession
  BY DEF SessionTyped
<1>2. Cleared(se) = [se EXCEPT !.queued_buffers = <<>>, !.buffers = b]
  <2>1. b = [i \in DOMAIN se.buffers |-> [se.buffers[i] EXCEPT !.state = "New"]]
    BY DEF SetState
  <2> QED BY <2>1 DEF Cleared
<1>3. /\ b \in Seq(Buffer) /\ DOMAIN b = DOMAIN se.buffers
      /\ \A i \in DOMAIN b : /\ b[i].offset = se.buffers[i].offset
                             /\ b[i].mem = se.buffers[i].mem
                             /\ b[i].state = "New"
  BY StateSet DEF BufferState
<1> HIDE DEF b
<1>4. /\ Cleared(se).queued_buffers = <<>> /\ Cleared(se).streaming = se.streaming
      /\ Cleared(se).buffers = b
  BY <1>1, <1>2 DEF SimpleCaptureDeviceSession
<1>5. <<>> \in Seq(Nat)
  OBVIOUS
<1>6. Cleared(se) \in SimpleCaptureDeviceSession
  BY <1>1, <1>2, <1>3, <1>5 DEF SimpleCaptureDeviceSession
<1> QED BY <1>3, <1>4, <1>6 DEF SameBuffers

\* The empty queue is over no buffers.
LEMMA EmptyRange == Range(<<>>) = {}
BY DEF Range

\* A buffer that joins a queue is the only new one.
LEMMA AppendedRange ==
    ASSUME NEW q \in Seq(Nat), NEW i \in Nat
    PROVE  Range(Append(q, i)) = Range(q) \cup {i}
<1> DEFINE a == Append(q, i)
<1>1. Len(q) \in Nat /\ DOMAIN q = 1 .. Len(q) /\ DOMAIN a = 1 .. Len(q) + 1
  OBVIOUS
<1>2. a[Len(q) + 1] = i /\ \A k \in DOMAIN q : a[k] = q[k]
  OBVIOUS
<1>3. \A k \in DOMAIN a : k \in DOMAIN q \/ k = Len(q) + 1
  BY <1>1
<1>4. Len(q) + 1 \in DOMAIN a /\ DOMAIN q \subseteq DOMAIN a
  BY <1>1
<1> HIDE DEF a
<1>5. Range(a) = Range(q) \cup {i}
  BY <1>2, <1>3, <1>4 DEF Range
<1> QED BY <1>5 DEF a

\* What follows the first buffers of a queue is part of the queue.
LEMMA RestOfQueue ==
    ASSUME NEW q \in Seq(Nat), NEW k \in DOMAIN q
    PROVE  SubSeq(q, k + 1, Len(q)) \in Seq(Nat) /\ Range(SubSeq(q, k + 1, Len(q))) \subseteq Range(q)
<1> DEFINE m == k + 1
           n == Len(q)
           rest == SubSeq(q, m, n)
<1>1. k \in 1 .. n /\ n \in Nat /\ DOMAIN q = 1 .. n
  OBVIOUS
<1>2. \A i \in DOMAIN q : q[i] \in Nat
  OBVIOUS
<1> HIDE DEF n
<1>3. m \in Int /\ n \in Int /\ m \in 1 .. n + 1
  BY <1>1
<1> HIDE DEF m
<1>4. \A i \in m .. n : i \in DOMAIN q
  BY <1>1, <1>3
<1>5. \A i \in m .. n : q[i] \in Nat
  BY <1>2, <1>4
<1>6. /\ rest \in Seq(Nat) /\ Len(rest) = IF m <= n THEN n - m + 1 ELSE 0
      /\ \A i \in 1 .. n - m + 1 : rest[i] = q[m + i - 1]
  BY <1>3, <1>5, SubSeqProperties
<1> HIDE DEF rest
<1>7. rest \in Seq(Nat)
  BY <1>6
<1>8. DOMAIN rest = 1 .. Len(rest)
  BY <1>7
<1>9. DOMAIN rest = 1 .. n - m + 1
  BY <1>3, <1>6, <1>8
<1>10. \A i \in 1 .. n - m + 1 : m + i - 1 \in m .. n
  BY <1>3
<1>11. \A i \in DOMAIN rest : rest[i] \in Range(q)
  BY <1>4, <1>6, <1>9, <1>10 DEF Range
<1> QED BY <1>7, <1>11 DEF rest, m, n, Range

\* process_queued_buffers: on success the queue is empty and all its buffers are
\* reported, on failure the session still has its buffers.
LEMMA ProcessOK ==
    ASSUME NEW se, SessionTyped(se), NEW p \in Process(se)
    PROVE  /\ p.se \in SimpleCaptureDeviceSession /\ SameBuffers(p.se, se)
           /\ p.se.streaming = se.streaming /\ p.ok \in BOOLEAN
           /\ Range(p.se.queued_buffers) \subseteq DOMAIN se.buffers
           /\ p.ok => /\ p.se.queued_buffers = <<>> /\ p.out = Range(se.queued_buffers)
                      /\ \A i \in DOMAIN se.buffers : i \notin Range(se.queued_buffers) =>
                            p.se.buffers[i].state = se.buffers[i].state
                      /\ \A i \in Range(se.queued_buffers) : p.se.buffers[i].state = "Outgoing"
<1> DEFINE q == se.queued_buffers
           After(done, rest) == [se EXCEPT !.buffers = SetState(se, Range(done), "Outgoing"),
                                           !.queued_buffers = rest]
<1>1. se \in SimpleCaptureDeviceSession /\ q \in Seq(Nat) /\ Range(q) \subseteq DOMAIN se.buffers
  BY DEF SessionTyped, SimpleCaptureDeviceSession
<1>2. ASSUME NEW done, NEW rest \in Seq(Nat), Range(rest) \subseteq DOMAIN se.buffers,
             p.se = After(done, rest)
      PROVE  /\ p.se \in SimpleCaptureDeviceSession /\ SameBuffers(p.se, se)
             /\ p.se.streaming = se.streaming /\ p.se.queued_buffers = rest
             /\ Range(p.se.queued_buffers) \subseteq DOMAIN se.buffers
             /\ \A i \in DOMAIN se.buffers :
                   p.se.buffers[i].state = IF i \in Range(done) THEN "Outgoing"
                                           ELSE se.buffers[i].state
  <2> DEFINE b == SetState(se, Range(done), "Outgoing")
  <2>1. /\ b \in Seq(Buffer) /\ DOMAIN b = DOMAIN se.buffers
        /\ \A i \in DOMAIN b :
              /\ b[i].offset = se.buffers[i].offset /\ b[i].mem = se.buffers[i].mem
              /\ b[i].state = IF i \in Range(done) THEN "Outgoing" ELSE se.buffers[i].state
    BY StateSet DEF BufferState
  <2> HIDE DEF b
  <2>2. p.se = [se EXCEPT !.buffers = b, !.queued_buffers = rest]
    BY <1>2 DEF b
  <2>3. p.se.buffers = b /\ p.se.queued_buffers = rest /\ p.se.streaming = se.streaming
    BY <1>1, <2>2 DEF SimpleCaptureDeviceSession
  <2>4. p.se \in SimpleCaptureDeviceSession
    BY <1>1, <2>1, <2>2 DEF SimpleCaptureDeviceSession
  <2> QED BY <1>2, <2>1, <2>3, <2>4 DEF SameBuffers
<1>3. \/ p = [se |-> After(q, <<>>), out |-> Range(q), ok |-> TRUE]
      \/ \E k \in DOMAIN q :
            p = [se |-> After(SubSeq(q, 1, k - 1), SubSeq(q, k + 1, Len(q))),
                 out |-> Range(SubSeq(q, 1, k - 1)), ok |-> FALSE]
  BY DEF Process
<1>4. CASE p = [se |-> After(q, <<>>), out |-> Range(q), ok |-> TRUE]
  <2>1. p.se = After(q, <<>>) /\ p.out = Range(q) /\ p.ok = TRUE
    BY <1>4
  <2>2. <<>> \in Seq(Nat) /\ Range(<<>>) \subseteq DOMAIN se.buffers
    BY EmptyRange
  <2> HIDE DEF After
  <2>3. /\ p.se \in SimpleCaptureDeviceSession /\ SameBuffers(p.se, se)
        /\ p.se.streaming = se.streaming /\ p.se.queued_buffers = <<>>
        /\ Range(p.se.queued_buffers) \subseteq DOMAIN se.buffers
        /\ \A i \in DOMAIN se.buffers :
              p.se.buffers[i].state = IF i \in Range(q) THEN "Outgoing"
                                      ELSE se.buffers[i].state
    BY <1>2, <2>1, <2>2
  <2> QED BY <1>1, <2>1, <2>3
<1>5. ASSUME NEW k \in DOMAIN q,
             p = [se |-> After(SubSeq(q, 1, k - 1), SubSeq(q, k + 1, Len(q))),
                  out |-> Range(SubSeq(q, 1, k - 1)), ok |-> FALSE]
      PROVE  /\ p.se \in SimpleCaptureDeviceSession /\ SameBuffers(p.se, se)
             /\ p.se.streaming = se.streaming /\ p.ok = FALSE
             /\ Range(p.se.queued_buffers) \subseteq DOMAIN se.buffers
  <2> DEFINE rest == SubSeq(q, k + 1, Len(q))
             done == SubSeq(q, 1, k - 1)
  <2>1. p.se = After(done, rest) /\ p.ok = FALSE
    BY <1>5
  <2>2. rest \in Seq(Nat) /\ Range(rest) \subseteq Range(q)
    BY <1>1, RestOfQueue
  <2> HIDE DEF rest, done
  <2> HIDE DEF After, q
  <2> QED BY <1>1, <1>2, <2>1, <2>2
<1> HIDE DEF After, q
<1> QED BY <1>3, <1>4, <1>5 DEF q

-----------------------------------------------------------------------------
(* The steps of the device.                                                *)

\* A step gives session s its fields, and the guest its view of it.
SessionSet(s, se, isOwed, guestStreams, isFaulted) ==
    /\ sess' = [sess EXCEPT ![s] = se]
    /\ owed' = [owed EXCEPT ![s] = isOwed]
    /\ guest_streams' = [guest_streams EXCEPT ![s] = guestStreams]
    /\ faulted' = [faulted EXCEPT ![s] = isFaulted]

\* The other fields keep their types, and the other sessions their mark.
FieldsSet(s) ==
    /\ stale' \in [Session -> BOOLEAN] /\ \A r \in Session : r # s => stale'[r] = stale[r]
    /\ active_session' \in Session \cup {None} /\ mems' \in 0 .. MaxMems

\* What the invariant says of an open session.
LEMMA OpenOK ==
    ASSUME Inv, NEW s \in Open
    PROVE  /\ s \in Session /\ SessionOK(sess[s], owed[s], guest_streams[s], faulted[s])
           /\ owed[s] \in SUBSET Nat /\ guest_streams[s] \in BOOLEAN /\ faulted[s] \in BOOLEAN
           /\ SessionTyped(sess[s]) /\ DistinctOffsets(sess[s])
BY DEF Inv, SessionsOK, Open, FieldsOK, SessionOK

\* A step that sets one session leaves the others as they are.
LEMMA SessionStep ==
    ASSUME Inv, NEW s \in Session, NEW se, NEW isOwed \in SUBSET Nat,
           NEW guestStreams \in BOOLEAN, NEW isFaulted \in BOOLEAN,
           SessionOK(se, isOwed, guestStreams, isFaulted),
           SessionSet(s, se, isOwed, guestStreams, isFaulted), FieldsSet(s)
    PROVE  /\ FieldsOK' /\ SessionsOK' /\ Open' = Open \cup {s} /\ sess'[s] = se
           /\ \A r \in Open : r # s => sess'[r] = sess[r]
<1>1. FieldsOK /\ SessionsOK
  BY DEF Inv
<1>2. FieldsOK'
  BY <1>1 DEF FieldsOK, SessionSet, FieldsSet
<1>3. /\ sess'[s] = se /\ owed'[s] = isOwed /\ guest_streams'[s] = guestStreams
      /\ faulted'[s] = isFaulted
      /\ \A r \in Session : r # s =>
            /\ sess'[r] = sess[r] /\ owed'[r] = owed[r]
            /\ guest_streams'[r] = guest_streams[r] /\ faulted'[r] = faulted[r]
  BY <1>1 DEF FieldsOK, SessionSet
<1>4. se # None
  BY SessionIsOpen DEF SessionOK
<1>5. Open' = Open \cup {s}
  BY <1>3, <1>4 DEF Open
<1>6. ASSUME NEW r \in Session
      PROVE  IF r \in Open' THEN SessionOK(sess'[r], owed'[r], guest_streams'[r], faulted'[r])
             ELSE ~faulted'[r] /\ ~stale'[r] /\ owed'[r] = {} /\ ~guest_streams'[r]
  <2>1. CASE r = s
    BY <1>3, <1>5, <2>1
  <2>2. CASE r # s
    <3>1. r \in Open' <=> r \in Open
      BY <1>5, <2>2
    <3>2. IF r \in Open THEN SessionOK(sess[r], owed[r], guest_streams[r], faulted[r])
          ELSE ~faulted[r] /\ ~stale[r] /\ owed[r] = {} /\ ~guest_streams[r]
      BY <1>1 DEF SessionsOK
    <3>3. stale'[r] = stale[r]
      BY <2>2 DEF FieldsSet
    <3> QED BY <1>3, <2>2, <3>1, <3>2, <3>3
  <2> QED BY <2>1, <2>2
<1>7. SessionsOK'
  BY <1>6 DEF SessionsOK
<1> QED BY <1>2, <1>3, <1>5, <1>7 DEF Open

\* A step that changes no buffer of a session, and no page but to map or unmap it.
LEMMA OwnedKept ==
    ASSUME Inv, Open' = Open, \A r \in Open : SameBuffers(sess'[r], sess[r]),
           \A r \in Open : SessionTyped(sess'[r]),
           RegisteredPages(table') = RegisteredPages(table),
           RegisteredPages(table) \cap leaked \subseteq leaked',
           UNCHANGED <<active_session, stale>>
    PROVE  BuffersOwned'
<1>1. BuffersOwned
  BY DEF Inv
<1>2. \A r \in Open : Offsets(sess'[r]) = Offsets(sess[r])
  BY SameOffsets
<1>3. \A r \in Open : sess'[r].buffers # <<>> => sess[r].buffers # <<>>
  BY OpenOK, NoOffsets DEF SameBuffers
<1>4. UNION {Offsets(sess'[r]) : r \in Open} = UNION {Offsets(sess[r]) : r \in Open}
  BY <1>2
<1>5. \A s \in Open' : sess'[s].buffers # <<>> => active_session' = s
  BY <1>1, <1>3 DEF BuffersOwned
<1>6. active_session' # None => active_session' \in Open'
  BY <1>1 DEF BuffersOwned
<1>7. RegisteredPages(table') \subseteq (UNION {Offsets(sess'[r]) : r \in Open'}) \cup leaked'
  <2> DEFINE used == UNION {Offsets(sess[r]) : r \in Open}
  <2>1. RegisteredPages(table) \subseteq used \cup leaked
    BY <1>1 DEF BuffersOwned
  <2>2. UNION {Offsets(sess'[r]) : r \in Open'} = used
    BY <1>4
  <2> HIDE DEF used
  <2>3. RegisteredPages(table') \subseteq used \cup leaked'
    BY <2>1
  <2> QED BY <2>2, <2>3
<1>8. \A s \in Open' : stale'[s] \/ Offsets(sess'[s]) \subseteq RegisteredPages(table')
  BY <1>1, <1>2 DEF BuffersOwned
<1> QED BY <1>5, <1>6, <1>7, <1>8 DEF BuffersOwned, RegisteredPages

\* A step that changes one session, and none of its buffers but for their state.
LEMMA QuietStep ==
    ASSUME Inv, NEW s \in Open, NEW se, NEW isOwed \in SUBSET Nat,
           NEW guestStreams \in BOOLEAN, NEW isFaulted \in BOOLEAN,
           SessionOK(se, isOwed, guestStreams, isFaulted), SameBuffers(se, sess[s]),
           SessionSet(s, se, isOwed, guestStreams, isFaulted),
           UNCHANGED <<active_session, table, mems, stale, leaked>>
    PROVE  Inv'
<1>1. /\ s \in Session /\ stale \in [Session -> BOOLEAN]
      /\ active_session \in Session \cup {None} /\ mems \in 0 .. MaxMems
  BY DEF Inv, FieldsOK, Open
<1>2. FieldsSet(s)
  BY <1>1 DEF FieldsSet
<1>3. /\ FieldsOK' /\ SessionsOK' /\ Open' = Open \cup {s} /\ sess'[s] = se
      /\ \A r \in Open : r # s => sess'[r] = sess[r]
  <2>1. s \in Session
    BY <1>1
  <2> QED BY <1>2, <2>1, SessionStep
<1>4. Open' = Open
  BY <1>3
<1>5. \A r \in Open : SameBuffers(sess'[r], sess[r]) /\ SessionTyped(sess'[r])
  <2>1. \A r \in Open : SameBuffers(sess[r], sess[r])
    BY DEF SameBuffers
  <2> QED BY <1>3, <2>1, OpenOK DEF SessionOK
<1>6. BuffersOwned'
  BY <1>4, <1>5, OwnedKept DEF RegisteredPages
<1>7. MapsShowBuffers'
  <2>1. MapsShowBuffers
    BY DEF Inv
  <2> QED BY <1>4, <1>5, <2>1 DEF MapsShowBuffers, SameBuffers, MappedPages
<1>8. TableOK(table)'
  BY DEF Inv, TableOK
<1> QED BY <1>3, <1>6, <1>7, <1>8 DEF Inv

\* qbuf
LEMMA QbufInv == ASSUME Inv, NEW s \in Session, NEW i \in Nat, Qbuf(s, i) PROVE Inv'
<1> DEFINE q == Queue(sess[s], i)
           b == SetState(sess[s], {i}, "Incoming")
<1>1. /\ s \in Open /\ SessionOK(sess[s], owed[s], guest_streams[s], faulted[s])
      /\ owed[s] \in SUBSET Nat /\ guest_streams[s] \in BOOLEAN /\ faulted[s] \in BOOLEAN
      /\ SessionTyped(sess[s]) /\ DistinctOffsets(sess[s]) /\ i \in DOMAIN sess[s].buffers
  BY OpenOK DEF Qbuf, Qbuffable
<1>2. PICK p \in IF sess[s].streaming THEN Process(q)
                 ELSE {[se |-> q, out |-> {}, ok |-> TRUE]} :
         /\ sess' = [sess EXCEPT ![s] = p.se]
         /\ owed' = [owed EXCEPT ![s] = ((@ \cup {i}) \ p.out) \ IF p.ok THEN {} ELSE {i}]
         /\ faulted' = [faulted EXCEPT ![s] = @ \/ ~p.ok]
  BY DEF Qbuf
<1>3. UNCHANGED <<active_session, table, mems, guest_streams, stale, leaked>>
  BY DEF Qbuf
<1>4. /\ q \in SimpleCaptureDeviceSession /\ SameBuffers(q, sess[s])
      /\ q.streaming = sess[s].streaming
      /\ Range(q.queued_buffers) = Range(sess[s].queued_buffers) \cup {i}
      /\ \A j \in DOMAIN sess[s].buffers :
            q.buffers[j].state = IF j = i THEN "Incoming" ELSE sess[s].buffers[j].state
  <2>1. /\ b \in Seq(Buffer) /\ DOMAIN b = DOMAIN sess[s].buffers
        /\ \A j \in DOMAIN b :
              /\ b[j].offset = sess[s].buffers[j].offset /\ b[j].mem = sess[s].buffers[j].mem
              /\ b[j].state = IF j \in {i} THEN "Incoming" ELSE sess[s].buffers[j].state
    BY <1>1, StateSet DEF BufferState
  <2> HIDE DEF b
  <2>2. sess[s] \in SimpleCaptureDeviceSession /\ sess[s].queued_buffers \in Seq(Nat)
    BY <1>1 DEF SessionTyped, SimpleCaptureDeviceSession
  <2>3. q = [sess[s] EXCEPT !.buffers = b, !.queued_buffers = Append(sess[s].queued_buffers, i)]
    BY <2>2 DEF Queue, b, SimpleCaptureDeviceSession
  <2>4. Append(sess[s].queued_buffers, i) \in Seq(Nat)
    BY <2>2
  <2>5. /\ q.buffers = b /\ q.queued_buffers = Append(sess[s].queued_buffers, i)
        /\ q.streaming = sess[s].streaming
    BY <2>2, <2>3 DEF SimpleCaptureDeviceSession
  <2>6. q \in SimpleCaptureDeviceSession
    BY <2>1, <2>2, <2>3, <2>4 DEF SimpleCaptureDeviceSession
  <2> HIDE DEF q
  <2>7. Range(Append(sess[s].queued_buffers, i)) = Range(sess[s].queued_buffers) \cup {i}
    BY <2>2, AppendedRange
  <2> QED BY <2>1, <2>5, <2>6, <2>7 DEF SameBuffers
<1> HIDE DEF q, b
<1>5. Range(q.queued_buffers) \subseteq DOMAIN sess[s].buffers
  BY <1>1, <1>4 DEF SessionTyped
<1>6. SessionTyped(q) /\ DistinctOffsets(q)
  BY <1>1, <1>4, <1>5, StateOnly
<1>7. /\ p.se \in SimpleCaptureDeviceSession /\ SameBuffers(p.se, sess[s])
      /\ p.se.streaming = sess[s].streaming /\ p.ok \in BOOLEAN
      /\ Range(p.se.queued_buffers) \subseteq DOMAIN sess[s].buffers
  <2>1. CASE sess[s].streaming
    <3>1. p \in Process(q)
      BY <1>2, <2>1
    <3>2. /\ p.se \in SimpleCaptureDeviceSession /\ SameBuffers(p.se, q)
          /\ p.se.streaming = q.streaming /\ p.ok \in BOOLEAN
          /\ Range(p.se.queued_buffers) \subseteq DOMAIN q.buffers
      BY <1>6, <3>1, ProcessOK
    <3> QED BY <1>4, <3>2 DEF SameBuffers
  <2>2. CASE ~sess[s].streaming
    <3>1. p = [se |-> q, out |-> {}, ok |-> TRUE]
      BY <1>2, <2>2
    <3> QED BY <1>4, <1>5, <3>1
  <2> QED BY <2>1, <2>2
<1>8. SessionTyped(p.se) /\ DistinctOffsets(p.se)
  BY <1>1, <1>7, StateOnly
<1> DEFINE ow == ((owed[s] \cup {i}) \ p.out) \ IF p.ok THEN {} ELSE {i}
           fa == (faulted[s] \/ ~p.ok)
<1>9. ow \in SUBSET Nat /\ fa \in BOOLEAN /\ ow \subseteq DOMAIN sess[s].buffers
  BY <1>1, <1>7 DEF SessionOK
<1>10. ASSUME ~fa PROVE Agrees(p.se, ow, guest_streams[s])
  <2>1. Agrees(sess[s], owed[s], guest_streams[s]) /\ p.ok
    BY <1>1, <1>10 DEF SessionOK
  <2>2. ow = (owed[s] \cup {i}) \ p.out
    BY <2>1
  <2> HIDE DEF ow
  <2>3. CASE sess[s].streaming
    <3>1. /\ p.se.queued_buffers = <<>> /\ p.out = Range(q.queued_buffers)
          /\ \A j \in DOMAIN q.buffers : j \notin Range(q.queued_buffers) =>
                p.se.buffers[j].state = q.buffers[j].state
          /\ \A j \in Range(q.queued_buffers) : p.se.buffers[j].state = "Outgoing"
      BY <1>2, <1>6, <2>1, <2>3, ProcessOK
    <3>2. ow = {} /\ Range(p.se.queued_buffers) = {}
      BY <1>4, <2>1, <2>2, <3>1, EmptyRange DEF Agrees
    <3>3. \A j \in DOMAIN p.se.buffers : p.se.buffers[j].state # "Incoming"
      BY <1>4, <1>7, <2>1, <3>1 DEF SameBuffers, Agrees
    <3> QED BY <1>7, <2>1, <3>2, <3>3 DEF Agrees
  <2>4. CASE ~sess[s].streaming
    <3>1. p.se = q /\ p.out = {}
      BY <1>2, <2>4
    <3> QED BY <1>1, <1>4, <2>1, <2>2, <2>4, <3>1 DEF Agrees, SameBuffers
  <2> QED BY <2>3, <2>4
<1>11. SessionOK(p.se, ow, guest_streams[s], fa)
  BY <1>1, <1>7, <1>8, <1>9, <1>10 DEF SessionOK, SameBuffers
<1>12. SessionSet(s, p.se, ow, guest_streams[s], fa)
  <2>1. guest_streams' = [guest_streams EXCEPT ![s] = guest_streams[s]]
    BY <1>3 DEF Inv, FieldsOK
  <2> QED BY <1>2, <2>1 DEF SessionSet
<1> HIDE DEF ow, fa
<1> QED BY <1>1, <1>3, <1>7, <1>9, <1>11, <1>12, QuietStep

\* streamon
LEMMA StreamonInv == ASSUME Inv, NEW s \in Session, Streamon(s) PROVE Inv'
<1> DEFINE on == [sess[s] EXCEPT !.streaming = TRUE]
<1>1. /\ s \in Open /\ SessionOK(sess[s], owed[s], guest_streams[s], faulted[s])
      /\ owed[s] \in SUBSET Nat /\ guest_streams[s] \in BOOLEAN /\ faulted[s] \in BOOLEAN
      /\ SessionTyped(sess[s]) /\ DistinctOffsets(sess[s])
  BY OpenOK DEF Streamon
<1>2. PICK p \in Process(on) :
         /\ sess' = [sess EXCEPT ![s] = p.se]
         /\ owed' = [owed EXCEPT ![s] = @ \ p.out]
         /\ guest_streams' = [guest_streams EXCEPT ![s] = @ \/ p.ok]
         /\ faulted' = [faulted EXCEPT ![s] = @ \/ ~p.ok]
  BY DEF Streamon
<1>3. UNCHANGED <<active_session, table, mems, stale, leaked>>
  BY DEF Streamon
<1>4. /\ on \in SimpleCaptureDeviceSession /\ on.buffers = sess[s].buffers
      /\ on.queued_buffers = sess[s].queued_buffers /\ on.streaming = TRUE
  BY <1>1 DEF SessionTyped, SimpleCaptureDeviceSession
<1> HIDE DEF on
<1>5. SessionTyped(on) /\ DistinctOffsets(on)
  BY <1>1, <1>4 DEF SessionTyped, DistinctOffsets
<1>6. /\ p.se \in SimpleCaptureDeviceSession /\ SameBuffers(p.se, on)
      /\ p.se.streaming = on.streaming /\ p.ok \in BOOLEAN
      /\ Range(p.se.queued_buffers) \subseteq DOMAIN on.buffers
      /\ p.ok => /\ p.se.queued_buffers = <<>> /\ p.out = Range(on.queued_buffers)
                 /\ \A i \in DOMAIN on.buffers : i \notin Range(on.queued_buffers) =>
                       p.se.buffers[i].state = on.buffers[i].state
                 /\ \A i \in Range(on.queued_buffers) : p.se.buffers[i].state = "Outgoing"
  BY <1>2, <1>5, ProcessOK
<1>7. SessionTyped(p.se) /\ DistinctOffsets(p.se) /\ SameBuffers(p.se, sess[s])
  <2>1. SameBuffers(p.se, sess[s])
    BY <1>4, <1>6 DEF SameBuffers
  <2> QED BY <1>5, <1>6, <2>1, StateOnly
<1> DEFINE ow == owed[s] \ p.out
           gs == (guest_streams[s] \/ p.ok)
           fa == (faulted[s] \/ ~p.ok)
<1>8. /\ ow \in SUBSET Nat /\ gs \in BOOLEAN /\ fa \in BOOLEAN
      /\ ow \subseteq DOMAIN sess[s].buffers
  BY <1>1, <1>6 DEF SessionOK
<1>9. ASSUME ~fa PROVE Agrees(p.se, ow, gs)
  <2>1. Agrees(sess[s], owed[s], guest_streams[s]) /\ p.ok
    BY <1>1, <1>9 DEF SessionOK
  <2>2. ow = {} /\ Range(p.se.queued_buffers) = {} /\ gs
    BY <1>4, <1>6, <2>1, EmptyRange DEF Agrees
  <2> HIDE DEF ow, gs
  <2>3. \A i \in DOMAIN p.se.buffers : p.se.buffers[i].state # "Incoming"
    BY <1>4, <1>6, <2>1 DEF SameBuffers, Agrees
  <2> QED BY <1>4, <1>6, <2>2, <2>3 DEF Agrees
<1>10. SessionOK(p.se, ow, gs, fa)
  BY <1>4, <1>6, <1>7, <1>8, <1>9 DEF SessionOK, SameBuffers
<1>11. SessionSet(s, p.se, ow, gs, fa)
  BY <1>2 DEF SessionSet
<1> HIDE DEF ow, gs, fa
<1> QED BY <1>1, <1>3, <1>7, <1>8, <1>10, <1>11, QuietStep

\* A session that has been cleared, once the guest has been told.
LEMMA ClearedAgrees ==
    ASSUME NEW se, SessionTyped(se), DistinctOffsets(se), NEW new, SameBuffers(new, Cleared(se)),
           new \in SimpleCaptureDeviceSession, new.queued_buffers = <<>>,
           \A i \in DOMAIN new.buffers : new.buffers[i].state = "New", ~new.streaming
    PROVE  SessionOK(new, {}, FALSE, FALSE) /\ SameBuffers(new, se)
<1>1. SameBuffers(Cleared(se), se)
  BY ClearedOK
<1>2. SameBuffers(new, se)
  BY <1>1 DEF SameBuffers
<1>3. Range(new.queued_buffers) = {}
  BY EmptyRange
<1>4. SessionTyped(new) /\ DistinctOffsets(new)
  BY <1>2, <1>3, StateOnly
<1>5. Agrees(new, {}, FALSE)
  BY <1>3 DEF Agrees
<1> QED BY <1>2, <1>4, <1>5 DEF SessionOK

\* streamoff
LEMMA StreamoffInv == ASSUME Inv, NEW s \in Session, Streamoff(s) PROVE Inv'
<1> DEFINE c == Cleared(sess[s])
           off == [c EXCEPT !.streaming = FALSE]
<1>1. s \in Open /\ SessionTyped(sess[s]) /\ DistinctOffsets(sess[s])
  BY OpenOK DEF Streamoff
<1>2. /\ sess' = [sess EXCEPT ![s] = off]
      /\ UNCHANGED <<active_session, table, mems, stale, leaked>>
  BY DEF Streamoff
<1>3. /\ c \in SimpleCaptureDeviceSession /\ SameBuffers(c, sess[s])
      /\ c.queued_buffers = <<>>
      /\ \A i \in DOMAIN sess[s].buffers : c.buffers[i].state = "New"
  BY <1>1, ClearedOK
<1>4. SessionSet(s, off, {}, FALSE, FALSE)
  BY <1>2 DEF Streamoff, GuestCleared, SessionSet
<1> HIDE DEF c
<1>5. /\ off \in SimpleCaptureDeviceSession /\ off.buffers = c.buffers
      /\ off.queued_buffers = <<>> /\ ~off.streaming
  BY <1>3 DEF SimpleCaptureDeviceSession
<1> HIDE DEF off
<1>6. SessionOK(off, {}, FALSE, FALSE) /\ SameBuffers(off, sess[s])
  <2>1. SameBuffers(off, c) /\ \A i \in DOMAIN off.buffers : off.buffers[i].state = "New"
    BY <1>3, <1>5 DEF SameBuffers
  <2> QED BY <1>1, <1>5, <2>1, ClearedAgrees DEF c
<1> QED BY <1>1, <1>2, <1>4, <1>6, QuietStep

\* new_session
LEMMA OpenSessionInv == ASSUME Inv, NEW s \in Session, OpenSession(s) PROVE Inv'
<1>1. /\ s \notin Open /\ sess' = [sess EXCEPT ![s] = NewSession]
      /\ UNCHANGED <<active_session, table, mems, owed, guest_streams, faulted, stale, leaked>>
  BY DEF OpenSession, Open, historyVars
<1>2. /\ owed[s] = {} /\ guest_streams[s] = FALSE /\ faulted[s] = FALSE /\ FieldsOK
  BY <1>1 DEF Inv, SessionsOK, FieldsOK
<1>3. SessionSet(s, NewSession, {}, FALSE, FALSE)
  BY <1>1, <1>2 DEF SessionSet, FieldsOK
<1>4. NewSession.buffers = <<>> /\ NewSession.queued_buffers = <<>> /\ NewSession.streaming = FALSE
  BY DEF NewSession
<1>5. SessionOK(NewSession, {}, FALSE, FALSE)
  <2>1. <<>> \in Seq(Nat) /\ <<>> \in Seq(Buffer) /\ DOMAIN <<>> = {} /\ Len(<<>>) = 0
    OBVIOUS
  <2>2. NewSession \in SimpleCaptureDeviceSession
    BY <2>1 DEF NewSession, SimpleCaptureDeviceSession
  <2>3. SessionTyped(NewSession)
    BY <1>4, <2>1, <2>2, EmptyRange, SimpleDeviceAssumption DEF SessionTyped
  <2>4. DistinctOffsets(NewSession) /\ Agrees(NewSession, {}, FALSE)
    BY <1>4, <2>1, EmptyRange DEF DistinctOffsets, Agrees
  <2> QED BY <1>4, <2>1, <2>3, <2>4 DEF SessionOK
<1>6. FieldsSet(s)
  BY <1>1, <1>2 DEF FieldsOK, FieldsSet
<1>7. /\ FieldsOK' /\ SessionsOK' /\ Open' = Open \cup {s} /\ sess'[s] = NewSession
      /\ \A r \in Open : r # s => sess'[r] = sess[r]
  BY <1>3, <1>5, <1>6, SessionStep
<1>8. Offsets(sess'[s]) = {} /\ DOMAIN sess'[s].buffers = {}
  BY <1>4, <1>7 DEF Offsets
<1>9. \A r \in Open' : r = s \/ (r \in Open /\ sess'[r] = sess[r])
  BY <1>1, <1>7
<1>10. BuffersOwned'
  <2> DEFINE used == UNION {Offsets(sess[r]) : r \in Open}
  <2>1. /\ \A r \in Open : sess[r].buffers # <<>> => active_session = r
        /\ active_session # None => active_session \in Open
        /\ RegisteredPages(table) \subseteq used \cup leaked
        /\ \A r \in Open : stale[r] \/ Offsets(sess[r]) \subseteq RegisteredPages(table)
    BY DEF Inv, BuffersOwned
  <2>2. used \subseteq UNION {Offsets(sess'[r]) : r \in Open'}
    BY <1>1, <1>7
  <2> HIDE DEF used
  <2>3. RegisteredPages(table') \subseteq (UNION {Offsets(sess'[r]) : r \in Open'}) \cup leaked'
    BY <1>1, <2>1, <2>2
  <2>4. \A r \in Open' : sess'[r].buffers # <<>> => active_session' = r
    BY <1>1, <1>4, <1>7, <1>9, <2>1
  <2>5. active_session' # None => active_session' \in Open'
    BY <1>1, <1>7, <2>1
  <2>6. \A r \in Open' : stale'[r] \/ Offsets(sess'[r]) \subseteq RegisteredPages(table')
    BY <1>1, <1>8, <1>9, <2>1
  <2> QED BY <2>3, <2>4, <2>5, <2>6 DEF BuffersOwned, RegisteredPages
<1>11. MapsShowBuffers'
  BY <1>1, <1>8, <1>9 DEF Inv, MapsShowBuffers, MappedPages
<1>12. TableOK(table)'
  BY <1>1 DEF Inv, TableOK
<1> QED BY <1>7, <1>10, <1>11, <1>12 DEF Inv

\* Sessions do not share offsets: only one of them has any.
LEMMA OffsetsDisjoint ==
    ASSUME Inv, NEW s \in Open, NEW r \in Open, r # s
    PROVE  /\ Offsets(sess[s]) \cap Offsets(sess[r]) = {}
           /\ active_session \in {None, s} => Offsets(sess[r]) = {} /\ sess[r].buffers = <<>>
<1>1. /\ SessionTyped(sess[s]) /\ SessionTyped(sess[r]) /\ s \in Session /\ r \in Session
  BY OpenOK
<1>2. /\ sess[s].buffers # <<>> => active_session = s
      /\ sess[r].buffers # <<>> => active_session = r
  BY DEF Inv, BuffersOwned
<1>3. r # None
  BY <1>1, SimpleDeviceAssumption
<1> QED BY <1>1, <1>2, <1>3, NoOffsets

\* close_session
LEMMA CloseSessionInv == ASSUME Inv, NEW s \in Session, CloseSession(s) PROVE Inv'
<1> DEFINE gone == Offsets(sess[s])
<1>1. /\ s \in Open
      /\ active_session' = IF active_session = s THEN None ELSE active_session
      /\ table' = UnregisterPages(table, gone)
      /\ sess' = [sess EXCEPT ![s] = None] /\ owed' = [owed EXCEPT ![s] = {}]
      /\ guest_streams' = [guest_streams EXCEPT ![s] = FALSE]
      /\ faulted' = [faulted EXCEPT ![s] = FALSE] /\ stale' = [stale EXCEPT ![s] = FALSE]
      /\ leaked' = leaked \ gone /\ mems' = mems
  BY DEF CloseSession
<1>2. /\ TableOK(table') /\ ShowsSame(table, table')
      /\ RegisteredPages(table') = RegisteredPages(table) \ gone
  BY <1>1, Unregistered DEF Inv
<1>3. FieldsOK /\ SessionsOK
  BY DEF Inv
<1>4. FieldsOK'
  BY <1>1, <1>3 DEF FieldsOK
<1>5. /\ sess'[s] = None /\ owed'[s] = {} /\ ~guest_streams'[s] /\ ~faulted'[s] /\ ~stale'[s]
      /\ \A r \in Session : r # s =>
            /\ sess'[r] = sess[r] /\ owed'[r] = owed[r] /\ stale'[r] = stale[r]
            /\ guest_streams'[r] = guest_streams[r] /\ faulted'[r] = faulted[r]
  BY <1>1, <1>3 DEF FieldsOK
<1>6. Open' = Open \ {s} /\ \A r \in Open' : r \in Open /\ r # s /\ sess'[r] = sess[r]
  BY <1>5 DEF Open
<1>7. SessionsOK'
  <2>1. ASSUME NEW r \in Session
        PROVE  IF r \in Open' THEN SessionOK(sess'[r], owed'[r], guest_streams'[r], faulted'[r])
               ELSE ~faulted'[r] /\ ~stale'[r] /\ owed'[r] = {} /\ ~guest_streams'[r]
    <3>1. CASE r = s
      BY <1>5, <1>6, <3>1
    <3>2. CASE r # s
      <4>1. IF r \in Open THEN SessionOK(sess[r], owed[r], guest_streams[r], faulted[r])
            ELSE ~faulted[r] /\ ~stale[r] /\ owed[r] = {} /\ ~guest_streams[r]
        BY <1>3 DEF SessionsOK
      <4>2. r \in Open' <=> r \in Open
        BY <1>6, <3>2
      <4> QED BY <1>5, <3>2, <4>1, <4>2
    <3> QED BY <3>1, <3>2
  <2> QED BY <2>1 DEF SessionsOK
<1>8. \A r \in Open' : gone \cap Offsets(sess[r]) = {}
  BY <1>1, <1>6, OffsetsDisjoint
<1>9. \A r \in Open : r # s => Offsets(sess[r]) \subseteq UNION {Offsets(sess'[q]) : q \in Open'}
  BY <1>5, <1>6
<1> HIDE DEF gone
<1>10. BuffersOwned'
  <2> DEFINE left == UNION {Offsets(sess'[q]) : q \in Open'}
  <2>1. /\ \A r \in Open : sess[r].buffers # <<>> => active_session = r
        /\ active_session # None => active_session \in Open
        /\ \A r \in Open : stale[r] \/ Offsets(sess[r]) \subseteq RegisteredPages(table)
    BY DEF Inv, BuffersOwned
  <2>2. \A p \in RegisteredPages(table) : p \in leaked \/ \E r \in Open : p \in Offsets(sess[r])
    BY DEF Inv, BuffersOwned
  <2> HIDE DEF left
  <2>3. \A r \in Open : r # s => Offsets(sess[r]) \subseteq left
    BY <1>9 DEF left
  <2>4. RegisteredPages(table') \subseteq left \cup leaked'
    BY <1>1, <1>2, <2>2, <2>3 DEF gone
  <2>5. \A r \in Open' : sess'[r].buffers # <<>> => active_session' = r
    BY <1>1, <1>6, <2>1
  <2>6. active_session' # None => active_session' \in Open'
    BY <1>1, <1>6, <2>1
  <2>7. \A r \in Open' : stale'[r] \/ Offsets(sess'[r]) \subseteq RegisteredPages(table')
    <3>1. \A r \in Open' : stale'[r] = stale[r]
      BY <1>5, <1>6 DEF Open
    <3> QED BY <1>2, <1>6, <1>8, <2>1, <3>1
  <2> QED BY <2>4, <2>5, <2>6, <2>7 DEF BuffersOwned, RegisteredPages, left
<1>11. MapsShowBuffers'
  <2>1. MapsShowBuffers
    BY DEF Inv
  <2> QED BY <1>2, <1>6, <2>1 DEF MapsShowBuffers, ShowsSame, MappedPages
<1>12. TableOK(table)'
  BY <1>2 DEF TableOK
<1> QED BY <1>4, <1>7, <1>10, <1>11, <1>12 DEF Inv

\* The buffers REQBUFS makes have pages and memory of their own.
LEMMA NewBuffersOK ==
    ASSUME NEW first \in Nat, NEW n \in 0 .. MaxCount, mems \in Nat, mems + n <= MaxMems,
           first + n - 1 <= MaxPage
    PROVE  LET b == NewBuffers(first, n)
           IN  /\ b \in Seq(Buffer) /\ DOMAIN b = 1 .. n /\ Len(b) = n
               /\ \A i \in 1 .. n : b[i].offset = first + i - 1 /\ b[i].state = "New"
<1> DEFINE b == NewBuffers(first, n)
<1>1. n \in Nat /\ MaxMems \in Nat /\ MaxPage \in Nat
  BY SimpleDeviceAssumption
<1>2. DOMAIN b = 1 .. n
  BY DEF NewBuffers
<1>3. \A i \in 1 .. n : b[i] = [offset |-> first + i - 1, state |-> "New", mem |-> mems + i]
  BY DEF NewBuffers
<1>4. \A i \in 1 .. n : first + i - 1 \in 0 .. MaxPage /\ mems + i \in 1 .. MaxMems
  BY <1>1
<1>5. b = [i \in 1 .. n |-> b[i]]
  BY DEF NewBuffers
<1> HIDE DEF b
<1>6. \A i \in 1 .. n : b[i] \in Buffer
  <2>1. "New" \in BufferState
    BY DEF BufferState
  <2>2. \A o \in 0 .. MaxPage, m \in 1 .. MaxMems :
           [offset |-> o, state |-> "New", mem |-> m] \in Buffer
    BY <2>1 DEF Buffer
  <2> QED BY <1>3, <1>4, <2>2
<1>7. b \in [1 .. n -> Buffer]
  BY <1>5, <1>6
<1>8. b \in Seq(Buffer) /\ Len(b) = n
  BY <1>1, <1>7
<1> QED BY <1>2, <1>3, <1>8 DEF b

\* reqbufs
LEMMA ReqbufsInv ==
    ASSUME Inv, NEW s \in Session, NEW n \in 0 .. MaxCount, Reqbufs(s, n)
    PROVE  Inv'
<1> DEFINE gone == Offsets(sess[s])
           old == UnregisterPages(table, gone)
           first == AutoPage(old)
           pages == first .. first + n - 1
           c == Cleared(sess[s])
           b == NewBuffers(first, n)
           se == [c EXCEPT !.buffers = b]
<1>1. /\ s \in Open /\ ~sess[s].streaming /\ active_session \in {None, s}
      /\ mems + n <= MaxMems /\ first + n - 1 <= MaxPage
      /\ active_session' = IF n = 0 THEN None ELSE s
      /\ table' = RegisterPages(old, pages, None)
      /\ sess' = [sess EXCEPT ![s] = se] /\ mems' = mems + n
      /\ GuestCleared(s) /\ stale' = [stale EXCEPT ![s] = FALSE]
      /\ leaked' = leaked \ gone /\ guest_streams' = guest_streams
  BY DEF Reqbufs, Refused, Allocate
<1>2. /\ SessionTyped(sess[s]) /\ DistinctOffsets(sess[s]) /\ guest_streams[s] = FALSE
      /\ TableOK(table) /\ FieldsOK
  BY <1>1, OpenOK DEF SessionOK, Inv
<1> HIDE DEF gone
<1>3. TableOK(old) /\ ShowsSame(table, old) /\ RegisteredPages(old) = RegisteredPages(table) \ gone
  BY <1>2, Unregistered
<1> HIDE DEF old
<1>4. first \in Nat
  BY <1>3, AutoPageType
<1> HIDE DEF first
<1>5. pages \in SUBSET (0 .. MaxPage) /\ n \in Nat /\ mems \in Nat /\ mems' \in 0 .. MaxMems
  BY <1>1, <1>2, <1>4, SimpleDeviceAssumption DEF FieldsOK
<1>6. /\ b \in Seq(Buffer) /\ DOMAIN b = 1 .. n /\ Len(b) = n
      /\ \A i \in 1 .. n : b[i].offset = first + i - 1 /\ b[i].state = "New"
  BY <1>1, <1>4, <1>5, NewBuffersOK
<1>7. {b[i].offset : i \in 1 .. n} = pages
  <2>1. \A i \in 1 .. n : b[i].offset \in pages
    BY <1>4, <1>5, <1>6
  <2>2. \A p \in pages : p - first + 1 \in 1 .. n /\ b[p - first + 1].offset = p
    BY <1>4, <1>5, <1>6
  <2> HIDE DEF pages, b
  <2> QED BY <2>1, <2>2
<1> HIDE DEF pages
<1>8. /\ TableOK(table') /\ ShowsSame(old, table') /\ pages \cap MappedPages(table') = {}
      /\ RegisteredPages(table') = RegisteredPages(old) \cup pages
  BY <1>1, <1>3, <1>5, Registered
<1>9. /\ c \in SimpleCaptureDeviceSession /\ c.queued_buffers = <<>> /\ c.streaming = FALSE
  <2>1. sess[s].streaming = FALSE
    BY <1>1, <1>2 DEF SessionTyped, SimpleCaptureDeviceSession
  <2> QED BY <1>2, <2>1, ClearedOK
<1> HIDE DEF b, c
<1>10. /\ se \in SimpleCaptureDeviceSession /\ se.buffers = b /\ se.queued_buffers = <<>>
       /\ se.streaming = FALSE
  BY <1>6, <1>9 DEF SimpleCaptureDeviceSession
<1> HIDE DEF se
<1>11. SessionOK(se, {}, FALSE, FALSE) /\ Offsets(se) = pages
  <2>1. SessionTyped(se)
    BY <1>5, <1>6, <1>10, EmptyRange DEF SessionTyped
  <2>2. DistinctOffsets(se)
    BY <1>4, <1>5, <1>6, <1>10 DEF DistinctOffsets
  <2>3. Agrees(se, {}, FALSE)
    BY <1>6, <1>10, EmptyRange DEF Agrees
  <2>4. Offsets(se) = pages
    BY <1>6, <1>7, <1>10 DEF Offsets
  <2> QED BY <2>1, <2>2, <2>3, <2>4 DEF SessionOK
<1>12. SessionSet(s, se, {}, FALSE, FALSE)
  BY <1>1, <1>2 DEF SessionSet, GuestCleared, FieldsOK
<1>13. FieldsSet(s)
  BY <1>1, <1>2, <1>5 DEF FieldsOK, FieldsSet
<1>14. /\ FieldsOK' /\ SessionsOK' /\ Open' = Open \cup {s} /\ sess'[s] = se
       /\ \A r \in Open : r # s => sess'[r] = sess[r]
  BY <1>11, <1>12, <1>13, SessionStep
<1>15. \A r \in Open : r # s => sess[r].buffers = <<>> /\ Offsets(sess[r]) = {}
  BY <1>1, OffsetsDisjoint
<1>16. /\ \A r \in Open' : r \in Open
       /\ \A r \in Open' : r # s => /\ sess'[r].buffers = <<>> /\ Offsets(sess'[r]) = {}
                                    /\ DOMAIN sess'[r].buffers = {}
  BY <1>1, <1>14, <1>15
<1>17. BuffersOwned'
  <2>1. \A p \in RegisteredPages(table) : p \in leaked \/ \E r \in Open : p \in Offsets(sess[r])
    BY DEF Inv, BuffersOwned
  <2>2. \A p \in RegisteredPages(table) : p \in leaked \/ p \in gone
    BY <1>15, <2>1 DEF gone
  <2>3. pages \subseteq UNION {Offsets(sess'[r]) : r \in Open'}
    BY <1>11, <1>14
  <2>4. RegisteredPages(table') \subseteq (UNION {Offsets(sess'[r]) : r \in Open'}) \cup leaked'
    BY <1>1, <1>3, <1>8, <2>2, <2>3
  <2>5. n = 0 => se.buffers = <<>>
    BY <1>6, <1>10
  <2>6. \A r \in Open' : sess'[r].buffers # <<>> => active_session' = r
    BY <1>1, <1>14, <1>16, <2>5
  <2>7. active_session' # None => active_session' \in Open'
    BY <1>1, <1>14
  <2>8. \A r \in Open' : Offsets(sess'[r]) \subseteq RegisteredPages(table')
    BY <1>8, <1>11, <1>14, <1>16
  <2> QED BY <2>4, <2>6, <2>7, <2>8 DEF BuffersOwned, RegisteredPages
<1>18. MapsShowBuffers'
  <2>1. \A i \in DOMAIN se.buffers : se.buffers[i].offset \in pages
    BY <1>11 DEF Offsets
  <2>2. \A r \in Open' : \A i \in DOMAIN sess'[r].buffers :
           sess'[r].buffers[i].offset \notin MappedPages(table')
    BY <1>8, <1>14, <1>16, <2>1
  <2> QED BY <2>2 DEF MapsShowBuffers, MappedPages
<1>19. TableOK(table)'
  BY <1>8 DEF TableOK
<1> QED BY <1>14, <1>17, <1>18, <1>19 DEF Inv

\* reqbufs that fails half way
LEMMA ReqbufsFailsInv ==
    ASSUME Inv, NEW s \in Session, NEW n \in 1 .. MaxCount, NEW k \in 0 .. MaxCount,
           ReqbufsFails(s, n, k)
    PROVE  Inv'
<1> DEFINE gone == Offsets(sess[s])
           old == UnregisterPages(table, gone)
           first == AutoPage(old)
           pages == first .. first + k - 1
           c == Cleared(sess[s])
<1>1. /\ s \in Open /\ active_session \in {None, s} /\ first + k - 1 <= MaxPage
      /\ active_session' = s
      /\ table' = RegisterPages(old, pages, None)
      /\ sess' = [sess EXCEPT ![s] = Cleared(@)]
      /\ faulted' = [faulted EXCEPT ![s] = TRUE] /\ stale' = [stale EXCEPT ![s] = TRUE]
      /\ leaked' = (leaked \ gone) \cup pages /\ UNCHANGED <<mems, owed, guest_streams>>
  BY DEF ReqbufsFails, Refused
<1>2. /\ SessionOK(sess[s], owed[s], guest_streams[s], faulted[s])
      /\ SessionTyped(sess[s]) /\ DistinctOffsets(sess[s])
      /\ owed[s] \in SUBSET Nat /\ guest_streams[s] \in BOOLEAN /\ TableOK(table) /\ FieldsOK
  BY <1>1, OpenOK DEF Inv
<1> HIDE DEF gone
<1>3. TableOK(old) /\ ShowsSame(table, old) /\ RegisteredPages(old) = RegisteredPages(table) \ gone
  BY <1>2, Unregistered
<1> HIDE DEF old
<1>4. first \in Nat
  BY <1>3, AutoPageType
<1> HIDE DEF first
<1>5. pages \in SUBSET (0 .. MaxPage) /\ mems' \in 0 .. MaxMems
  BY <1>1, <1>2, <1>4, SimpleDeviceAssumption DEF FieldsOK
<1> HIDE DEF pages
<1>6. /\ TableOK(table') /\ ShowsSame(old, table')
      /\ RegisteredPages(table') = RegisteredPages(old) \cup pages
  BY <1>1, <1>3, <1>5, Registered
<1>7. /\ c \in SimpleCaptureDeviceSession /\ SameBuffers(c, sess[s])
      /\ c.queued_buffers = <<>> /\ c.streaming = sess[s].streaming
  BY <1>2, ClearedOK
<1>8. sess' = [sess EXCEPT ![s] = c]
  BY <1>1
<1> HIDE DEF c
<1>9. Range(c.queued_buffers) \subseteq DOMAIN sess[s].buffers
  BY <1>7, EmptyRange
<1>10. SessionTyped(c) /\ DistinctOffsets(c)
  BY <1>2, <1>7, <1>9, StateOnly
<1>11. SessionOK(c, owed[s], guest_streams[s], TRUE)
  BY <1>2, <1>7, <1>10 DEF SessionOK, SameBuffers
<1>12. SessionSet(s, c, owed[s], guest_streams[s], TRUE)
  BY <1>1, <1>2, <1>8 DEF SessionSet, FieldsOK
<1>13. FieldsSet(s) /\ stale'[s] = TRUE
  BY <1>1, <1>2, <1>5 DEF FieldsOK, FieldsSet
<1>14. /\ FieldsOK' /\ SessionsOK' /\ Open' = Open \cup {s} /\ sess'[s] = c
       /\ \A r \in Open : r # s => sess'[r] = sess[r]
  <2> DEFINE isOwed == owed[s]
             streams == guest_streams[s]
             isFaulted == TRUE
  <2>1. isOwed \in SUBSET Nat /\ streams \in BOOLEAN /\ isFaulted \in BOOLEAN
    BY <1>2
  <2>2. SessionOK(c, isOwed, streams, isFaulted) /\ SessionSet(s, c, isOwed, streams, isFaulted)
    BY <1>11, <1>12
  <2>3. FieldsSet(s)
    BY <1>13
  <2> HIDE DEF isOwed, streams, isFaulted
  <2> QED BY <2>1, <2>2, <2>3, SessionStep
<1>15. \A r \in Open : r # s => sess[r].buffers = <<>> /\ Offsets(sess[r]) = {}
  BY <1>1, OffsetsDisjoint
<1>16. /\ \A r \in Open' : r \in Open
       /\ \A r \in Open' : r # s => /\ sess'[r].buffers = <<>> /\ Offsets(sess'[r]) = {}
                                    /\ DOMAIN sess'[r].buffers = {}
  BY <1>1, <1>14, <1>15
<1>17. BuffersOwned'
  <2>1. \A p \in RegisteredPages(table) : p \in leaked \/ \E r \in Open : p \in Offsets(sess[r])
    BY DEF Inv, BuffersOwned
  <2>2. \A p \in RegisteredPages(table) : p \in leaked \/ p \in gone
    BY <1>15, <2>1 DEF gone
  <2>3. RegisteredPages(table') \subseteq leaked'
    BY <1>1, <1>3, <1>6, <2>2
  <2>4. RegisteredPages(table') \subseteq (UNION {Offsets(sess'[r]) : r \in Open'}) \cup leaked'
    BY <2>3
  <2>5. \A r \in Open' : sess'[r].buffers # <<>> => active_session' = r
    BY <1>1, <1>16
  <2>6. active_session' # None => active_session' \in Open'
    BY <1>1, <1>14
  <2>7. \A r \in Open' : stale'[r] \/ Offsets(sess'[r]) \subseteq RegisteredPages(table')
    BY <1>13, <1>16
  <2> QED BY <2>4, <2>5, <2>6, <2>7 DEF BuffersOwned, RegisteredPages
<1>18. MapsShowBuffers'
  <2>1. ShowsSame(table, table')
    BY <1>3, <1>6 DEF ShowsSame
  <2>2. \A i \in DOMAIN c.buffers : LET b == c.buffers[i]
                                    IN  b.offset \in MappedPages(table') => table'[b.offset].mem = b.mem
    BY <1>1, <1>7, <2>1 DEF Inv, MapsShowBuffers, ShowsSame, SameBuffers
  <2> QED BY <1>14, <1>16, <2>2 DEF MapsShowBuffers, MappedPages
<1>19. TableOK(table)'
  BY <1>6 DEF TableOK
<1> QED BY <1>14, <1>17, <1>18, <1>19 DEF Inv

\* create_mapping keeps the type of an entry.
LEMMA EntryMapped ==
    ASSUME NEW M, NEW e \in TableEntry(M), NEW m \in M
    PROVE  [e EXCEPT !.maps = @ + 1, !.mem = m] \in TableEntry(M)
<1>1. e.maps + 1 \in Nat
  BY DEF TableEntry
<1> QED BY <1>1 DEF TableEntry

\* do_mmap
LEMMA DoMmapInv == ASSUME Inv, NEW s \in Session, NEW i, DoMmap(s, i) PROVE Inv'
<1> DEFINE b == sess[s].buffers[i]
           o == b.offset
<1>1. /\ s \in Open /\ i \in DOMAIN sess[s].buffers /\ o \in DOMAIN table
      /\ table' = MapPage(table, o, b.mem)
      /\ UNCHANGED <<sess, active_session, mems, owed, guest_streams, faulted, stale, leaked>>
  BY DEF DoMmap, CanMap, historyVars
<1>2. SessionTyped(sess[s]) /\ DistinctOffsets(sess[s]) /\ TableOK(table)
  BY <1>1, OpenOK DEF Inv
<1>3. b.mem \in 1 .. MaxMems
  <2>1. sess[s].buffers \in Seq(Buffer)
    BY <1>2 DEF SessionTyped, SimpleCaptureDeviceSession
  <2>2. b \in Buffer
    BY <1>1, <2>1
  <2> HIDE DEF b
  <2> QED BY <2>2 DEF Buffer
<1> HIDE DEF o
<1>4. /\ DOMAIN table' = DOMAIN table
      /\ \A p \in DOMAIN table : p # o => table'[p] = table[p]
      /\ table[o].registered = table'[o].registered
      /\ table'[o].mem = IF table[o].maps = 0 THEN b.mem ELSE table[o].mem
      /\ table'[o] \in TableEntry(1 .. MaxMems \cup {None})
  <2>1. table[o] \in TableEntry(1 .. MaxMems \cup {None})
    BY <1>1, <1>2 DEF TableOK
  <2>2. table' = [table EXCEPT ![o] = [table[o] EXCEPT !.maps = @ + 1,
                                          !.mem = IF table[o].maps = 0 THEN b.mem ELSE @]]
    BY <1>1 DEF MapPage
  <2>3. table'[o] = [table[o] EXCEPT !.maps = @ + 1,
                                     !.mem = IF table[o].maps = 0 THEN b.mem ELSE @]
    BY <1>1, <2>2
  <2> DEFINE mem == IF table[o].maps = 0 THEN b.mem ELSE table[o].mem
  <2>4. mem \in 1 .. MaxMems \cup {None}
    BY <1>3, <2>1 DEF TableEntry
  <2>5. table'[o] = [table[o] EXCEPT !.maps = @ + 1, !.mem = mem]
    BY <2>1, <2>3 DEF TableEntry
  <2> HIDE DEF b
  <2>6. table[o].registered = table'[o].registered /\ table'[o].mem = mem
    <3> HIDE DEF mem
    <3> QED BY <2>1, <2>5 DEF TableEntry
  <2>7. table'[o] \in TableEntry(1 .. MaxMems \cup {None})
    <3> HIDE DEF mem
    <3>1. [table[o] EXCEPT !.maps = @ + 1, !.mem = mem] \in TableEntry(1 .. MaxMems \cup {None})
      BY <2>1, <2>4, EntryMapped
    <3> QED BY <2>5, <3>1
  <2> QED BY <1>1, <2>2, <2>6, <2>7
<1>5. TableOK(table')
  BY <1>2, <1>4 DEF TableOK
<1>6. RegisteredPages(table') = RegisteredPages(table)
  BY <1>4 DEF RegisteredPages
<1>7. Open' = Open /\ \A r \in Open : SameBuffers(sess'[r], sess[r])
  BY <1>1 DEF Open, SameBuffers
<1>8. \A r \in Open : SessionTyped(sess'[r])
  BY <1>1, OpenOK
<1>9. BuffersOwned'
  BY <1>1, <1>6, <1>7, <1>8, OwnedKept
<1>10. MapsShowBuffers'
  <2>1. ASSUME NEW r \in Open, NEW j \in DOMAIN sess[r].buffers,
               sess[r].buffers[j].offset \in MappedPages(table')
        PROVE  table'[sess[r].buffers[j].offset].mem = sess[r].buffers[j].mem
    <3> DEFINE p == sess[r].buffers[j].offset
    <3>1. p \in MappedPages(table) => table[p].mem = sess[r].buffers[j].mem
      BY DEF Inv, MapsShowBuffers
    <3>2. p \in DOMAIN table
      BY <1>4, <2>1 DEF MappedPages
    <3>3. CASE p # o
      <4> HIDE DEF p
      <4>1. p \in MappedPages(table)
        BY <1>4, <2>1, <3>2, <3>3 DEF MappedPages, p
      <4> QED BY <1>4, <3>1, <3>2, <3>3, <4>1 DEF p
    <3>4. CASE p = o
      <4>1. r = s
        <5>1. o \in Offsets(sess[s]) /\ p \in Offsets(sess[r])
          BY <1>1 DEF Offsets, o
        <5> QED BY <1>1, <3>4, <5>1, OffsetsDisjoint
      <4>2. j = i
        BY <1>1, <1>2, <2>1, <3>4, <4>1 DEF DistinctOffsets, o
      <4>3. sess[r].buffers[j].mem = b.mem
        BY <4>1, <4>2
      <4>4. table[o].maps # 0 => o \in MappedPages(table)
        BY <1>1, <1>2 DEF TableOK, TableEntry, MappedPages
      <4> QED BY <1>4, <3>1, <3>4, <4>3, <4>4
    <3> QED BY <3>3, <3>4
  <2> QED BY <1>1, <1>7, <2>1 DEF MapsShowBuffers, MappedPages
<1>11. FieldsOK' /\ SessionsOK'
  BY <1>1, <1>7 DEF Inv, FieldsOK, SessionsOK
<1>12. TableOK(table)'
  BY <1>5 DEF TableOK
<1> QED BY <1>9, <1>10, <1>11, <1>12 DEF Inv

\* do_munmap
LEMMA DoMunmapInv == ASSUME Inv, NEW o, DoMunmap(o) PROVE Inv'
<1>1. /\ o \in DOMAIN table /\ table[o].maps > 0
      /\ table' = UnmapPage(table, o) /\ leaked' = leaked \cap DOMAIN table'
      /\ UNCHANGED <<sess, active_session, mems, owed, guest_streams, faulted, stale>>
  BY DEF DoMunmap, MappedPages
<1>2. TableOK(table) /\ table[o] \in TableEntry(1 .. MaxMems \cup {None})
  BY <1>1 DEF Inv, TableOK
<1>3. TableOK(table') /\ ShowsSame(table, table') /\ RegisteredPages(table') = RegisteredPages(table)
  <2>1. CASE table[o].maps = 1 /\ ~table[o].registered
    <3>1. /\ DOMAIN table' = DOMAIN table \ {o}
          /\ \A p \in DOMAIN table' : table'[p] = table[p]
      BY <1>1, <2>1 DEF UnmapPage, Restrict
    <3> QED BY <1>2, <2>1, <3>1 DEF TableOK, ShowsSame, MappedPages, RegisteredPages
  <2>2. CASE ~(table[o].maps = 1 /\ ~table[o].registered)
    <3>1. table' = [table EXCEPT ![o] = [table[o] EXCEPT !.maps = @ - 1]]
      BY <1>1, <2>2 DEF UnmapPage
    <3>2. /\ DOMAIN table' = DOMAIN table
          /\ \A p \in DOMAIN table : p # o => table'[p] = table[p]
          /\ table'[o] = [table[o] EXCEPT !.maps = @ - 1]
      BY <1>1, <3>1
    <3>3. /\ table'[o] \in TableEntry(1 .. MaxMems \cup {None})
          /\ table'[o].registered = table[o].registered /\ table'[o].mem = table[o].mem
      BY <1>1, <1>2, <3>2 DEF TableEntry
    <3>4. TableOK(table')
      BY <1>2, <3>2, <3>3 DEF TableOK
    <3>5. ShowsSame(table, table')
      BY <1>1, <3>2, <3>3 DEF ShowsSame, MappedPages
    <3>6. RegisteredPages(table') = RegisteredPages(table)
      BY <3>2, <3>3 DEF RegisteredPages
    <3> QED BY <3>4, <3>5, <3>6
  <2> QED BY <2>1, <2>2
<1>4. Open' = Open /\ \A r \in Open : SameBuffers(sess'[r], sess[r])
  BY <1>1 DEF Open, SameBuffers
<1>5. \A r \in Open : SessionTyped(sess'[r])
  BY <1>1, OpenOK
<1>6. RegisteredPages(table) \cap leaked \subseteq leaked'
  BY <1>1, <1>3 DEF RegisteredPages
<1>7. BuffersOwned'
  BY <1>1, <1>3, <1>4, <1>5, <1>6, OwnedKept
<1>8. MapsShowBuffers'
  BY <1>1, <1>3, <1>4 DEF Inv, MapsShowBuffers, ShowsSame, MappedPages
<1>9. FieldsOK' /\ SessionsOK'
  BY <1>1, <1>4 DEF Inv, FieldsOK, SessionsOK
<1>10. TableOK(table)'
  BY <1>3 DEF TableOK
<1> QED BY <1>7, <1>8, <1>9, <1>10 DEF Inv

\* The device starts with no session and an empty table.
LEMMA InitInv == Init => Inv
<1> SUFFICES ASSUME Init PROVE Inv
  OBVIOUS
<1>1. Open = {} /\ DOMAIN table = {}
  BY DEF Init, Open
<1>2. FieldsOK
  BY SimpleDeviceAssumption DEF Init, FieldsOK
<1>3. SessionsOK
  BY <1>1 DEF Init, SessionsOK
<1>4. TableOK(table) /\ RegisteredPages(table) = {}
  BY <1>1 DEF TableOK, RegisteredPages
<1>5. BuffersOwned /\ MapsShowBuffers
  BY <1>1, <1>4 DEF Init, BuffersOwned, MapsShowBuffers
<1> QED BY <1>2, <1>3, <1>4, <1>5 DEF Inv

\* Every command, whether it succeeds or fails half way, keeps the invariant.
LEMMA NextInv == Inv /\ [Next]_vars => Inv'
<1> SUFFICES ASSUME Inv, [Next]_vars PROVE Inv'
  OBVIOUS
<1>1. ASSUME NEW s \in Session,
             OpenSession(s) \/ CloseSession(s) \/ Streamon(s) \/ Streamoff(s)
      PROVE  Inv'
  BY <1>1, OpenSessionInv, CloseSessionInv, StreamonInv, StreamoffInv
<1>2. ASSUME NEW s \in Session, NEW n \in 0 .. MaxCount, Reqbufs(s, n) PROVE Inv'
  BY <1>2, ReqbufsInv
<1>3. ASSUME NEW s \in Session, NEW n \in 1 .. MaxCount, NEW k \in 0 .. MaxCount,
             ReqbufsFails(s, n, k)
      PROVE  Inv'
  BY <1>3, ReqbufsFailsInv
<1>4. ASSUME NEW s \in Session, NEW i \in 1 .. MaxCount, Qbuf(s, i) \/ DoMmap(s, i) PROVE Inv'
  <2>1. i \in Nat
    BY SimpleDeviceAssumption
  <2> QED BY <1>4, <2>1, QbufInv, DoMmapInv
<1>5. ASSUME NEW p \in 0 .. MaxPage, DoMunmap(p) PROVE Inv'
  BY <1>5, DoMunmapInv
<1>6. CASE UNCHANGED vars
  <2>1. /\ sess' = sess /\ active_session' = active_session /\ table' = table /\ mems' = mems
        /\ owed' = owed /\ guest_streams' = guest_streams /\ faulted' = faulted
        /\ stale' = stale /\ leaked' = leaked
    BY <1>6 DEF vars, deviceVars, historyVars
  <2>2. FieldsOK' /\ TableOK(table)' /\ SessionsOK'
    BY <2>1 DEF Inv, FieldsOK, TableOK, SessionsOK, Open
  <2>3. BuffersOwned' /\ MapsShowBuffers'
    BY <2>1 DEF Inv, BuffersOwned, MapsShowBuffers, Open, RegisteredPages, MappedPages
  <2> QED BY <2>2, <2>3 DEF Inv
<1>7. CASE Next
  BY <1>1, <1>2, <1>3, <1>4, <1>5, <1>7, Zenon DEF Next
<1> QED BY <1>6, <1>7

-----------------------------------------------------------------------------
(* The theorems.                                                           *)

\* The device's sessions and table stay related as the invariant says, whatever the order
\* of the commands and wherever one of them fails.
THEOREM DeviceInvariant == Spec => []Inv
BY InitInv, NextInv, PTL DEF Spec

\* The variables keep the types of the device's fields.
THEOREM DeviceTypeCorrect == Spec => []TypeOK
<1>1. Inv => TypeOK
  <2> SUFFICES ASSUME Inv PROVE TypeOK
    OBVIOUS
  <2>1. ASSUME NEW s \in Open
        PROVE  /\ sess[s].buffers \in Seq(Buffer) /\ Len(sess[s].buffers) <= MaxCount
               /\ Range(sess[s].queued_buffers) \subseteq DOMAIN sess[s].buffers
               /\ sess[s].streaming \in BOOLEAN /\ owed[s] \subseteq DOMAIN sess[s].buffers
    BY OpenOK DEF SessionOK, SessionTyped, SimpleCaptureDeviceSession
  <2> QED BY <2>1 DEF Inv, FieldsOK, TableOK, TypeOK
<1> QED BY <1>1, DeviceInvariant, PTL

\* However many sessions compete for the camera, and wherever REQBUFS fails, the buffers
\* and the registered offsets belong to one open session that the device knows.
THEOREM BuffersAlwaysOwned == Spec => []BuffersOwned
<1>1. Inv => BuffersOwned
  BY DEF Inv
<1> QED BY <1>1, DeviceInvariant, PTL

\* A mapping that outlives its buffer never shows through a buffer that is in use.
THEOREM MapsAlwaysShowBuffers == Spec => []MapsShowBuffers
<1>1. Inv => MapsShowBuffers
  BY DEF Inv
<1> QED BY <1>1, DeviceInvariant, PTL

\* Without a command that fails half way, the guest's view of its queue and of streaming
\* is the device's, for any number of buffers.
THEOREM GuestAlwaysAgrees == Spec => []GuestAgrees
<1>1. ASSUME Inv, NEW s \in Open, ~faulted[s]
      PROVE  /\ owed[s] = Range(sess[s].queued_buffers)
             /\ owed[s] = {i \in DOMAIN sess[s].buffers : sess[s].buffers[i].state = "Incoming"}
             /\ sess[s].streaming => owed[s] = {}
             /\ guest_streams[s] = sess[s].streaming
  <2>1. /\ Agrees(sess[s], owed[s], guest_streams[s]) /\ owed[s] \subseteq DOMAIN sess[s].buffers
        /\ guest_streams[s] \in BOOLEAN
    BY <1>1, OpenOK DEF SessionOK
  <2>2. sess[s].streaming \in BOOLEAN
    BY <1>1, OpenOK DEF SessionTyped, SimpleCaptureDeviceSession
  <2>3. owed[s] = {i \in DOMAIN sess[s].buffers : sess[s].buffers[i].state = "Incoming"}
    BY <2>1 DEF Agrees
  <2>4. guest_streams[s] = sess[s].streaming
    BY <2>1, <2>2, Zenon DEF Agrees
  <2> QED BY <2>1, <2>3, <2>4 DEF Agrees
<1>2. Inv => GuestAgrees
  BY <1>1 DEF GuestAgrees
<1> QED BY <1>2, DeviceInvariant, PTL
=============================================================================
