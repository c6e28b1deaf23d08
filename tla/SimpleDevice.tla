---------------------------- MODULE SimpleDevice ----------------------------
(***************************************************************************)
(* SimpleCaptureDevice (device/src/devices/simple_device.rs): sessions     *)
(* that share one camera, whose frames are written when a buffer is queued *)
(* or streaming starts.  A command runs to its end before the next one;    *)
(* memory, the mmap manager and the writing of a frame may fail.           *)
(***************************************************************************)
EXTENDS Integers, SequencesExt, MmapTable

CONSTANTS
    Session, None,  \* sessions, and no session, memory
    MaxCount,       \* the buffers REQBUFS gives at most (32 in the code)
    MaxPage,        \* bound on the offsets used
    MaxMems,        \* bound on the buffers allocated in a behaviour
    MaxMaps         \* bound on the mappings of one page

BufferState == {"New", "Incoming", "Outgoing"}
Buffer == [offset : 0 .. MaxPage, state : BufferState, mem : 1 .. MaxMems]
SimpleCaptureDeviceSession ==
    [buffers : Seq(Buffer), queued_buffers : Seq(Nat), streaming : BOOLEAN]

ASSUME SimpleDeviceAssumption ==
    /\ MaxCount \in Nat \ {0} /\ MaxPage \in Nat /\ MaxMems \in Nat /\ MaxMaps \in Nat
    /\ None \notin Session \cup SimpleCaptureDeviceSession

VARIABLES
    sess,           \* SimpleCaptureDeviceSession, None before and after it exists
    active_session,
    table,          \* mmap_manager
    mems,           \* buffers allocated so far; each is memory of its own
    \* history: the buffers the guest has queued and not got back, whether it thinks it
    \* streams, whether a command has failed half way since the queue was last cleared,
    \* whether the last REQBUFS has, and the pages that it registered before
    owed, guest_streams, faulted, stale, leaked

deviceVars == <<sess, active_session, table, mems>>
historyVars == <<owed, guest_streams, faulted, stale, leaked>>
vars == <<deviceVars, historyVars>>

NewSession == [buffers |-> <<>>, queued_buffers |-> <<>>, streaming |-> FALSE]
Open == {s \in Session : sess[s] # None}
Offsets(se) == {se.buffers[i].offset : i \in DOMAIN se.buffers}

Init ==
    /\ sess = [s \in Session |-> None] /\ active_session = None
    /\ table = <<>> /\ mems = 0
    /\ owed = [s \in Session |-> {}] /\ guest_streams = [s \in Session |-> FALSE]
    /\ faulted = [s \in Session |-> FALSE] /\ stale = [s \in Session |-> FALSE]
    /\ leaked = {}

-----------------------------------------------------------------------------
\* new_session and close_session.
OpenSession(s) ==
    /\ sess[s] = None
    /\ sess' = [sess EXCEPT ![s] = NewSession]
    /\ UNCHANGED <<active_session, table, mems, historyVars>>

CloseSession(s) ==
    /\ s \in Open
    /\ active_session' = IF active_session = s THEN None ELSE active_session
    /\ table' = UnregisterPages(table, Offsets(sess[s]))
    /\ sess' = [sess EXCEPT ![s] = None]
    /\ owed' = [owed EXCEPT ![s] = {}]
    /\ guest_streams' = [guest_streams EXCEPT ![s] = FALSE]
    /\ faulted' = [faulted EXCEPT ![s] = FALSE]
    /\ stale' = [stale EXCEPT ![s] = FALSE]
    /\ leaked' = leaked \ Offsets(sess[s])
    /\ UNCHANGED mems

\* set_state on every buffer, as STREAMOFF and REQBUFS do after they clear the queue.
Cleared(se) ==
    [se EXCEPT !.queued_buffers = <<>>,
               !.buffers = [i \in DOMAIN se.buffers |->
                               [se.buffers[i] EXCEPT !.state = "New"]]]

\* The guest has every buffer back.
GuestCleared(s) ==
    /\ owed' = [owed EXCEPT ![s] = {}]
    /\ faulted' = [faulted EXCEPT ![s] = FALSE]

-----------------------------------------------------------------------------
\* The n buffers REQBUFS makes from page p on.
NewBuffers(p, n) ==
    [i \in 1 .. n |-> [offset |-> p + i - 1, state |-> "New", mem |-> mems + i]]

Refused(s) == sess[s].streaming \/ active_session \notin {None, s}

\* Session s, with the fields se, gets n buffers from page first on in the table old.
Allocate(s, n, old, first, se) ==
    /\ mems + n <= MaxMems /\ first + n - 1 <= MaxPage
    /\ active_session' = IF n = 0 THEN None ELSE s
    /\ table' = RegisterPages(old, first .. first + n - 1, None)
    /\ sess' = [sess EXCEPT ![s] = [se EXCEPT !.buffers = NewBuffers(first, n)]]
    /\ mems' = mems + n
    /\ GuestCleared(s)
    /\ stale' = [stale EXCEPT ![s] = FALSE]
    /\ leaked' = leaked \ Offsets(sess[s])
    /\ UNCHANGED guest_streams

\* Faulty variants of Reqbufs: the offsets of the old buffers stay registered; the new
\* buffers take over the offsets of the old ones.
ReqbufsKeepsOld(s, n) ==
    s \in Open /\ ~Refused(s) /\ Allocate(s, n, table, AutoPage(table), Cleared(sess[s]))
ReqbufsReuses(s, n) ==
    /\ s \in Open /\ ~Refused(s)
    /\ IF n = Len(sess[s].buffers) /\ n > 0
       THEN /\ sess' = [sess EXCEPT ![s].buffers = NewBuffers(@[1].offset, n)]
            /\ mems + n <= MaxMems /\ mems' = mems + n
            /\ UNCHANGED <<active_session, table, historyVars>>
       ELSE LET old == UnregisterPages(table, Offsets(sess[s]))
            IN  Allocate(s, n, old, AutoPage(old), Cleared(sess[s]))

\* reqbufs of n buffers.  The session becomes the active one before anything is
\* allocated; no buffers means the camera is free again.
Reqbufs(s, n) ==
    LET old == UnregisterPages(table, Offsets(sess[s]))
    IN  s \in Open /\ ~Refused(s) /\ Allocate(s, n, old, AutoPage(old), Cleared(sess[s]))

\* As Reqbufs, when the allocation fails after k of the n buffers: the old buffers
\* stay, their offsets do not, and the offsets of the k stay registered.  The guest
\* is told of an error and goes on waiting for what it had queued.
ReqbufsFails(s, n, k) ==
    LET old == UnregisterPages(table, Offsets(sess[s]))
        first == AutoPage(old)
        pages == first .. first + k - 1
    IN  /\ s \in Open /\ ~Refused(s) /\ k < n /\ first + k - 1 <= MaxPage
        /\ active_session' = s
        /\ table' = RegisterPages(old, pages, None)
        /\ sess' = [sess EXCEPT ![s] = Cleared(@)]
        /\ faulted' = [faulted EXCEPT ![s] = TRUE]
        /\ stale' = [stale EXCEPT ![s] = TRUE]
        /\ leaked' = (leaked \ Offsets(sess[s])) \cup pages
        /\ UNCHANGED <<mems, owed, guest_streams>>

-----------------------------------------------------------------------------
SetState(se, q, state) ==
    [i \in DOMAIN se.buffers |->
        IF i \in q THEN [se.buffers[i] EXCEPT !.state = state] ELSE se.buffers[i]]

\* process_queued_buffers: what becomes of the session, the buffers it reports, and
\* whether it succeeds.  A frame that cannot be written has left the queue already.
Process(se) ==
    LET q == se.queued_buffers
        After(done, rest) == [se EXCEPT !.buffers = SetState(se, Range(done), "Outgoing"),
                                        !.queued_buffers = rest]
    IN  {[se |-> After(q, <<>>), out |-> Range(q), ok |-> TRUE]}
        \cup {[se |-> After(SubSeq(q, 1, k - 1), SubSeq(q, k + 1, Len(q))),
               out |-> Range(SubSeq(q, 1, k - 1)), ok |-> FALSE] : k \in DOMAIN q}

\* A buffer joins the end of the queue.
Queue(se, i) ==
    [se EXCEPT !.buffers = SetState(se, {i}, "Incoming"),
               !.queued_buffers = Append(@, i)]

Qbuffable(s, i) ==
    s \in Open /\ i \in DOMAIN sess[s].buffers /\ sess[s].buffers[i].state # "Incoming"

\* qbuf.  A guest whose QBUF fails takes the buffer back.
Qbuf(s, i) ==
    /\ Qbuffable(s, i)
    /\ LET q == Queue(sess[s], i)
       IN  \E p \in IF sess[s].streaming THEN Process(q)
                    ELSE {[se |-> q, out |-> {}, ok |-> TRUE]} :
              /\ sess' = [sess EXCEPT ![s] = p.se]
              /\ owed' = [owed EXCEPT ![s] =
                             ((@ \cup {i}) \ p.out) \ IF p.ok THEN {} ELSE {i}]
              /\ faulted' = [faulted EXCEPT ![s] = @ \/ ~p.ok]
    /\ UNCHANGED <<active_session, table, mems, guest_streams, stale, leaked>>

\* Faulty variant: buffers queued before STREAMON are not processed.
StreamonIdle(s) ==
    /\ s \in Open /\ sess[s].buffers # <<>>
    /\ sess' = [sess EXCEPT ![s].streaming = TRUE]
    /\ guest_streams' = [guest_streams EXCEPT ![s] = TRUE]
    /\ UNCHANGED <<active_session, table, mems, owed, faulted, stale, leaked>>

\* streamon: the session streams even if its first frames cannot be written.
Streamon(s) ==
    /\ s \in Open /\ sess[s].buffers # <<>>
    /\ \E p \in Process([sess[s] EXCEPT !.streaming = TRUE]) :
          /\ sess' = [sess EXCEPT ![s] = p.se]
          /\ owed' = [owed EXCEPT ![s] = @ \ p.out]
          /\ guest_streams' = [guest_streams EXCEPT ![s] = @ \/ p.ok]
          /\ faulted' = [faulted EXCEPT ![s] = @ \/ ~p.ok]
    /\ UNCHANGED <<active_session, table, mems, stale, leaked>>

\* streamoff
Streamoff(s) ==
    /\ s \in Open
    /\ sess' = [sess EXCEPT ![s] = [Cleared(@) EXCEPT !.streaming = FALSE]]
    /\ GuestCleared(s)
    /\ guest_streams' = [guest_streams EXCEPT ![s] = FALSE]
    /\ UNCHANGED <<active_session, table, mems, stale, leaked>>

-----------------------------------------------------------------------------
\* do_mmap: a session maps its own buffers only.
DoMmap(s, i) ==
    /\ s \in Open /\ i \in DOMAIN sess[s].buffers
    /\ LET b == sess[s].buffers[i]
       IN  /\ CanMap(table, b.offset) /\ table[b.offset].maps < MaxMaps
           /\ table' = MapPage(table, b.offset, b.mem)
    /\ UNCHANGED <<sess, active_session, mems, historyVars>>

\* do_munmap
DoMunmap(p) ==
    /\ p \in MappedPages(table)
    /\ table' = UnmapPage(table, p)
    /\ leaked' = leaked \cap DOMAIN table'
    /\ UNCHANGED <<sess, active_session, mems, owed, guest_streams, faulted, stale>>

Next ==
    \/ \E s \in Session : OpenSession(s) \/ CloseSession(s) \/ Streamon(s) \/ Streamoff(s)
    \/ \E s \in Session, n \in 0 .. MaxCount : Reqbufs(s, n)
    \/ \E s \in Session, n \in 1 .. MaxCount, k \in 0 .. MaxCount : ReqbufsFails(s, n, k)
    \/ \E s \in Session, i \in 1 .. MaxCount : Qbuf(s, i) \/ DoMmap(s, i)
    \/ \E p \in 0 .. MaxPage : DoMunmap(p)

Spec == Init /\ [][Next]_vars

-----------------------------------------------------------------------------
\* The variables have the types of the device's fields.
TypeOK ==
    /\ active_session \in Session \cup {None} /\ mems \in 0 .. MaxMems
    /\ \A s \in Open :
          /\ sess[s].buffers \in Seq(Buffer) /\ Len(sess[s].buffers) <= MaxCount
          /\ Range(sess[s].queued_buffers) \subseteq DOMAIN sess[s].buffers
          /\ sess[s].streaming \in BOOLEAN /\ owed[s] \subseteq DOMAIN sess[s].buffers
    /\ DOMAIN table \subseteq 0 .. MaxPage
    /\ \A p \in DOMAIN table : table[p] \in TableEntry(1 .. MaxMems \cup {None})

\* Only one session has buffers ("only a single session can have allocated buffers
\* at a given time"), the device knows which, and one that is gone does not keep the
\* camera from the others.  The registered offsets are those of the buffers in use,
\* but for what REQBUFS leaves behind when it fails half way.
BuffersOwned ==
    /\ \A s \in Open : sess[s].buffers # <<>> => active_session = s
    /\ active_session # None => active_session \in Open
    /\ RegisteredPages(table) \subseteq (UNION {Offsets(sess[s]) : s \in Open}) \cup leaked
    /\ \A s \in Open : stale[s] \/ Offsets(sess[s]) \subseteq RegisteredPages(table)

\* A mapping of a buffer in use shows that buffer's memory, whatever was unregistered
\* while it was mapped.
MapsShowBuffers ==
    \A s \in Open : \A i \in DOMAIN sess[s].buffers :
        LET b == sess[s].buffers[i]
        IN  b.offset \in MappedPages(table) => table[b.offset].mem = b.mem

\* As long as no command fails half way, the buffers the guest waits for are exactly the
\* ones in the queue, the queue is empty while streaming, and both sides agree on
\* whether there is streaming.
GuestAgrees ==
    \A s \in Open : ~faulted[s] =>
        /\ owed[s] = Range(sess[s].queued_buffers)
        /\ owed[s] = {i \in DOMAIN sess[s].buffers : sess[s].buffers[i].state = "Incoming"}
        /\ sess[s].streaming => owed[s] = {}
        /\ guest_streams[s] = sess[s].streaming
=============================================================================
