------------------------- MODULE ProxyDeviceProofs -------------------------
(***************************************************************************)
(* The invariants of the V4L2 proxy, for any number of sessions and        *)
(* buffers: its view of the host's queues, its poller, the guest memory it *)
(* holds for the host, and the offsets it has registered.                  *)
(***************************************************************************)
EXTENDS ProxyDevice, FiniteSetTheorems, TLAPS

-----------------------------------------------------------------------------
(* The invariant of one session, as a relation between the proxy's record  *)
(* of it, the host's queues and the two history variables.                 *)

HostRecord(q) ==
    [n : {0} \cup Index(q), queued : SUBSET Index(q), done : SUBSET Index(q),
     mem : SUBSET (Index(q) \X Addr), streaming : BOOLEAN, last : Nat, eos : BOOLEAN,
     uncounted : BOOLEAN]

\* The host takes buffer i of queue q, with memory mem, and is told so or not.
TakenBy(h, q, i, mem) == [h EXCEPT ![q].queued = @ \cup {i}, ![q].mem = mem]
LostBy(h, q, i, mem) ==
    [h EXCEPT ![q].queued = @ \cup {i}, ![q].mem = mem, ![q].uncounted = TRUE]

\* The host gives back the buffers idx of the OUTPUT queue.
OutputsGiven(h, idx) ==
    [h EXCEPT !["OUTPUT"].done = @ \ idx, !["OUTPUT"].mem = Released(@, idx)]

\* The memory m of a buffer of queue q is the buffer's own entry, or was taken over.
MemOK(se, q, m) ==
    \/ [addr |-> m[2], queue |-> q, index |-> m[1]] \in se.userptr_buffers
    \/ m[2] \in se.reused

\* The proxy's view of queue q covers what the host h does with it.
QueueOK(se, h, q, isStale) ==
    /\ h[q] \in HostRecord(q) /\ h[q].queued \cap h[q].done = {}
    /\ se.streaming[q] <=> h[q].streaming
    /\ se.num_queued[q] >= Cardinality(Held(h[q])) \/ h[q].uncounted
    /\ q = "CAPTURE" =>
          se.num_queued[q] = Cardinality(Held(h[q])) \/ isStale \/ h[q].uncounted
    /\ \A m \in h[q].mem : MemOK(se, q, m)

\* LAST can only have left buffers behind in a queue that is polled otherwise.
PollerOK(se, isAfter) ==
    /\ se.polling <=> (ShouldPollCapture(se) /\ ~isAfter)
    /\ isAfter => ShouldPollCapture(se)

SessionOK(se, h, isStale, isAfter) ==
    /\ se \in V4l2Session /\ DOMAIN h = Queue
    /\ \A q \in Queue : QueueOK(se, h, q, isStale)
    /\ PollerOK(se, isAfter)

-----------------------------------------------------------------------------
(* What the operations on one session do to it.                            *)

\* The buffers a host queue holds are finitely many.
LEMMA HeldFinite ==
    ASSUME NEW q \in Queue, NEW c \in HostRecord(q)
    PROVE  /\ IsFiniteSet(Held(c)) /\ Cardinality(Held(c)) \in Nat
           /\ Held(c) \subseteq Index(q) /\ Index(q) \subseteq Nat \ {0}
<1>1. Index(q) \subseteq Nat \ {0} /\ IsFiniteSet(Index(q))
  <2>1. Index(q) = 1 .. (IF q = "CAPTURE" THEN MaxCapture ELSE MaxOutput)
    BY DEF Index
  <2>2. (IF q = "CAPTURE" THEN MaxCapture ELSE MaxOutput) \in Int
    BY ProxyDeviceAssumption
  <2> QED BY <2>1, <2>2, FS_Interval
<1>2. Held(c) \subseteq Index(q)
  BY DEF HostRecord, Held
<1> QED BY <1>1, <1>2, FS_Subset, FS_CardinalityType

\* new_session
LEMMA NewSessionOK ==
    ASSUME NEW mem \in Memory
    PROVE  SessionOK(NewSession(mem), [q \in Queue |-> HostQueue(0)], FALSE, FALSE)
<1> DEFINE se == NewSession(mem)
           h == [q \in Queue |-> HostQueue(0)]
<1>1. se \in V4l2Session
  BY DEF NewSession, V4l2Session
<1>2. ASSUME NEW q \in Queue PROVE QueueOK(se, h, q, FALSE)
  <2>1. h[q] = HostQueue(0)
    OBVIOUS
  <2>2. HostQueue(0) \in HostRecord(q) /\ Held(HostQueue(0)) = {} /\ HostQueue(0).mem = {}
    BY DEF HostQueue, HostRecord, Held
  <2>3. Cardinality({}) = 0
    BY FS_EmptySet
  <2>4. se.streaming[q] = FALSE /\ se.num_queued[q] = 0
    BY DEF NewSession
  <2> QED BY <2>1, <2>2, <2>3, <2>4 DEF QueueOK, HostQueue
<1>3. PollerOK(se, FALSE)
  BY DEF PollerOK, ShouldPollCapture, NewSession, Queue
<1> QED BY <1>1, <1>2, <1>3 DEF SessionOK

\* A queue that stops, with the host that gives its buffers back and may reallocate them.
LEMMA StoppedOK ==
    ASSUME NEW se, NEW h, NEW isStale \in BOOLEAN, NEW isAfter \in BOOLEAN, NEW q \in Queue,
           SessionOK(se, h, isStale, isAfter), NEW n \in {0} \cup Index(q)
    PROVE  SessionOK(Stopped(se, q), [h EXCEPT ![q] = HostQueue(n)],
                     isStale /\ q # "CAPTURE", isAfter /\ q # "CAPTURE")
<1> DEFINE new == Stopped(se, q)
           g == [h EXCEPT ![q] = HostQueue(n)]
<1>1. se \in V4l2Session /\ DOMAIN h = Queue
  BY DEF SessionOK
<1>2. /\ new \in V4l2Session /\ new.memory = se.memory
      /\ new.userptr_buffers = se.userptr_buffers /\ new.reused = se.reused
      /\ new.streaming[q] = FALSE /\ new.num_queued[q] = 0
      /\ \A r \in Queue : r # q => /\ new.streaming[r] = se.streaming[r]
                                   /\ new.num_queued[r] = se.num_queued[r]
      /\ new.polling <=> se.polling /\ ~(q = "CAPTURE" /\ ShouldPollCapture(se))
  BY <1>1 DEF Stopped, V4l2Session
<1>5. DOMAIN g = Queue /\ g[q] = HostQueue(n) /\ \A r \in Queue : r # q => g[r] = h[r]
  BY <1>1
<1> HIDE DEF new, g
<1>3. ASSUME NEW r \in Queue PROVE QueueOK(new, g, r, isStale /\ q # "CAPTURE")
  <2>1. CASE r = q
    <3>1. g[r] = HostQueue(n)
      BY <1>5, <2>1
    <3>2. HostQueue(n) \in HostRecord(q) /\ Held(HostQueue(n)) = {}
      BY DEF HostQueue, HostRecord, Held
    <3>3. Cardinality({}) = 0
      BY FS_EmptySet
    <3>4. /\ HostQueue(n).queued \cap HostQueue(n).done = {}
          /\ HostQueue(n).streaming = FALSE /\ HostQueue(n).mem = {}
      BY DEF HostQueue
    <3>5. new.num_queued[r] = Cardinality(Held(g[r])) /\ new.num_queued[r] = 0
      BY <1>2, <2>1, <3>1, <3>2, <3>3
    <3> QED BY <1>2, <2>1, <3>1, <3>2, <3>4, <3>5 DEF QueueOK
  <2>2. CASE r # q
    <3>1. g[r] = h[r] /\ QueueOK(se, h, r, isStale)
      BY <1>5, <2>2 DEF SessionOK
    <3>2. r = "CAPTURE" => q # "CAPTURE"
      BY <2>2
    <3> QED BY <1>2, <2>2, <3>1, <3>2 DEF QueueOK, MemOK
  <2> QED BY <2>1, <2>2
<1>4. PollerOK(new, isAfter /\ q # "CAPTURE")
  BY <1>2 DEF SessionOK, PollerOK, ShouldPollCapture, Queue
<1> QED BY <1>2, <1>3, <1>4, <1>5 DEF SessionOK, new, g

\* The host goes on with the buffers it holds, or has more to be queued.
LEMMA HostChangesOK ==
    ASSUME NEW se, NEW h, NEW isStale \in BOOLEAN, NEW isAfter \in BOOLEAN, NEW q \in Queue,
           SessionOK(se, h, isStale, isAfter), NEW c \in HostRecord(q),
           Held(c) = Held(h[q]), c.queued \cap c.done = {}, c.streaming = h[q].streaming,
           c.uncounted = h[q].uncounted, \A m \in c.mem : MemOK(se, q, m)
    PROVE  SessionOK(se, [h EXCEPT ![q] = c], isStale, isAfter)
<1> DEFINE g == [h EXCEPT ![q] = c]
<1>1. DOMAIN g = Queue /\ g[q] = c /\ \A r \in Queue : r # q => g[r] = h[r]
  BY DEF SessionOK
<1> HIDE DEF g
<1>2. ASSUME NEW r \in Queue PROVE QueueOK(se, g, r, isStale)
  <2>1. QueueOK(se, h, r, isStale)
    BY DEF SessionOK
  <2> QED BY <1>1, <2>1 DEF QueueOK
<1> QED BY <1>1, <1>2 DEF SessionOK, g

\* REQBUFS of a queue that does not stream leaves the count behind.
LEMMA ReqbufsOK ==
    ASSUME NEW se, NEW h, NEW isStale \in BOOLEAN, NEW isAfter \in BOOLEAN, NEW q \in Queue,
           SessionOK(se, h, isStale, isAfter), NEW n \in Index(q), ~h[q].streaming
    PROVE  SessionOK(se, [h EXCEPT ![q] = HostQueue(n)],
                     isStale \/ (q = "CAPTURE" /\ se.num_queued[q] > 0), isAfter)
<1> DEFINE g == [h EXCEPT ![q] = HostQueue(n)]
           newStale == isStale \/ (q = "CAPTURE" /\ se.num_queued[q] > 0)
<1>1. DOMAIN g = Queue /\ g[q] = HostQueue(n) /\ \A r \in Queue : r # q => g[r] = h[r]
  BY DEF SessionOK
<1>2. newStale \in BOOLEAN /\ (isStale => newStale)
      /\ (q = "CAPTURE" /\ se.num_queued[q] > 0 => newStale)
  OBVIOUS
<1> HIDE DEF g, newStale
<1>3. ASSUME NEW r \in Queue PROVE QueueOK(se, g, r, newStale)
  <2>1. QueueOK(se, h, r, isStale)
    BY DEF SessionOK
  <2>2. CASE r = q
    <3>1. g[r] \in HostRecord(r) /\ Held(g[r]) = {} /\ g[r].streaming = FALSE
          /\ g[r].queued \cap g[r].done = {} /\ g[r].mem = {}
      <4>1. g[r] = HostQueue(n) /\ n \in Index(r)
        BY <1>1, <2>2
      <4> QED BY <4>1 DEF HostQueue, HostRecord, Held
    <3>2. Cardinality(Held(g[r])) = 0
      BY <3>1, FS_EmptySet
    <3>3. se.num_queued[r] \in Nat
      BY DEF SessionOK, V4l2Session
    <3>4. r = "CAPTURE" => se.num_queued[r] = 0 \/ newStale
      BY <1>2, <2>2, <3>3
    <3>5. se.num_queued[r] >= Cardinality(Held(g[r]))
      BY <3>2, <3>3
    <3>6. se.streaming[r] <=> g[r].streaming
      BY <2>1, <2>2, <3>1 DEF QueueOK
    <3> QED BY <3>1, <3>2, <3>4, <3>5, <3>6 DEF QueueOK
  <2>3. CASE r # q
    <3>1. g[r] = h[r]
      BY <1>1, <2>3
    <3> QED BY <1>2, <2>1, <3>1 DEF QueueOK
  <2> QED BY <2>2, <2>3
<1> QED BY <1>1, <1>3 DEF SessionOK, g, newStale

\* What streamon does to a session and its host.
StreamonEffect(se, h, q, new, g) ==
    /\ new \in V4l2Session /\ new.memory = se.memory
    /\ new.userptr_buffers = se.userptr_buffers /\ new.reused = se.reused
    /\ new.num_queued = se.num_queued /\ new.streaming[q] = TRUE
    /\ \A r \in Queue : r # q => new.streaming[r] = se.streaming[r]
    /\ new.polling <=> \/ se.polling
                       \/ q = "CAPTURE" /\ ~se.streaming[q] /\ ShouldPollCapture(new)
    /\ DOMAIN g = Queue /\ g[q] \in HostRecord(q) /\ g[q].streaming = TRUE
    /\ g[q].queued = h[q].queued /\ g[q].done = h[q].done /\ g[q].mem = h[q].mem
    /\ g[q].uncounted = h[q].uncounted
    /\ \A r \in Queue : r # q => g[r] = h[r]

\* streamon
LEMMA StreamonOK ==
    ASSUME NEW se, NEW h, NEW isStale \in BOOLEAN, NEW isAfter \in BOOLEAN, NEW q \in Queue,
           SessionOK(se, h, isStale, isAfter), NEW new, NEW g, StreamonEffect(se, h, q, new, g)
    PROVE  SessionOK(new, g, isStale, isAfter)
<1>1. ASSUME NEW r \in Queue PROVE QueueOK(new, g, r, isStale)
  <2>1. QueueOK(se, h, r, isStale)
    BY DEF SessionOK
  <2>2. CASE r = q
    <3>1. /\ g[r] \in HostRecord(r) /\ g[r].streaming = TRUE
          /\ g[r].queued = h[r].queued /\ g[r].done = h[r].done /\ g[r].mem = h[r].mem
          /\ g[r].uncounted = h[r].uncounted
          /\ new.num_queued = se.num_queued /\ new.streaming[r] = TRUE
          /\ new.userptr_buffers = se.userptr_buffers /\ new.reused = se.reused
      BY <2>2 DEF StreamonEffect
    <3>2. Held(g[r]) = Held(h[r])
      BY <3>1 DEF Held
    <3> QED BY <2>1, <3>1, <3>2 DEF QueueOK, MemOK
  <2>3. CASE r # q
    <3>1. /\ g[r] = h[r] /\ new.streaming[r] = se.streaming[r]
          /\ new.num_queued[r] = se.num_queued[r]
          /\ new.userptr_buffers = se.userptr_buffers /\ new.reused = se.reused
      BY <2>3 DEF StreamonEffect
    <3> QED BY <2>1, <3>1 DEF QueueOK, MemOK
  <2> QED BY <2>2, <2>3
<1>2. PollerOK(new, isAfter)
  BY DEF SessionOK, PollerOK, ShouldPollCapture, Queue, StreamonEffect
<1> QED BY <1>1, <1>2 DEF SessionOK, StreamonEffect

\* register_userptr_addresses
LEMMA RegisterUserptrKeeps ==
    ASSUME NEW se \in V4l2Session, NEW q \in Queue, NEW i \in Index(q), NEW a \in Addr
    PROVE  LET new == RegisterUserptr(se, q, i, a)
           IN  /\ new \in V4l2Session /\ new.memory = se.memory
               /\ new.num_queued = se.num_queued
               /\ new.streaming = se.streaming /\ new.polling = se.polling
               /\ \A r, m : MemOK(se, r, m) => MemOK(new, r, m)
               /\ se.memory = "USERPTR" => MemOK(new, q, <<i, a>>)
<1> DEFINE entry == [addr |-> a, queue |-> q, index |-> i]
           others == {u \in se.userptr_buffers : u.addr = a /\ u # entry}
           users == (se.userptr_buffers \ others) \cup {entry}
           re == IF others = {} THEN se.reused ELSE se.reused \cup {a}
           new == RegisterUserptr(se, q, i, a)
<1>1. i \in Nat
  BY ProxyDeviceAssumption DEF Index
<1>2. entry \in V4l2UserPlaneInfo
  BY <1>1 DEF V4l2UserPlaneInfo
<1>3. users \in SUBSET V4l2UserPlaneInfo /\ re \in SUBSET Addr
  BY <1>2 DEF V4l2Session
<1>4. CASE se.memory # "USERPTR"
  BY <1>4 DEF RegisterUserptr
<1>5. CASE se.memory = "USERPTR"
  <2>1. new = [se EXCEPT !.userptr_buffers = users, !.reused = re]
    BY <1>5, Zenon DEF RegisterUserptr
  <2>2. /\ entry \in users
        /\ \A u \in se.userptr_buffers : u \in users \/ u.addr \in re
        /\ \A b \in se.reused : b \in re
    OBVIOUS
  <2> HIDE DEF users, re, new
  <2>3. /\ new \in V4l2Session /\ new.memory = se.memory /\ new.num_queued = se.num_queued
        /\ new.streaming = se.streaming /\ new.polling = se.polling
        /\ new.userptr_buffers = users /\ new.reused = re
    BY <1>3, <2>1 DEF V4l2Session
  <2>4. ASSUME NEW r, NEW m, MemOK(se, r, m) PROVE MemOK(new, r, m)
    BY <2>2, <2>3, <2>4 DEF MemOK
  <2>5. MemOK(new, q, <<i, a>>)
    BY <2>2, <2>3 DEF MemOK
  <2> QED BY <2>3, <2>4, <2>5 DEF new
<1> QED BY <1>4, <1>5

\* Registering a USERPTR buffer keeps what the invariant says of the session.
LEMMA RegisterUserptrOK ==
    ASSUME NEW se, NEW h, NEW isStale \in BOOLEAN, NEW isAfter \in BOOLEAN, NEW q \in Queue,
           NEW i \in Index(q), NEW a \in Addr, SessionOK(se, h, isStale, isAfter)
    PROVE  SessionOK(RegisterUserptr(se, q, i, a), h, isStale, isAfter)
<1> DEFINE new == RegisterUserptr(se, q, i, a)
<1>1. se \in V4l2Session
  BY DEF SessionOK
<1>2. /\ new \in V4l2Session /\ new.memory = se.memory /\ new.num_queued = se.num_queued
      /\ new.streaming = se.streaming /\ new.polling = se.polling
      /\ \A r, m : MemOK(se, r, m) => MemOK(new, r, m)
  BY <1>1, RegisterUserptrKeeps
<1> HIDE DEF new
<1>3. ASSUME NEW r \in Queue PROVE QueueOK(new, h, r, isStale)
  <2>1. QueueOK(se, h, r, isStale)
    BY DEF SessionOK
  <2>2. /\ new.num_queued[r] = se.num_queued[r] /\ new.streaming[r] = se.streaming[r]
    BY <1>2
  <2> QED BY <1>2, <2>1, <2>2 DEF QueueOK
<1>4. PollerOK(new, isAfter)
  BY <1>2 DEF SessionOK, PollerOK, ShouldPollCapture
<1> QED BY <1>2, <1>3, <1>4 DEF SessionOK, new

\* The host has the memory of a buffer that has just been registered.
LEMMA GivenOK ==
    ASSUME NEW se, NEW q \in Queue, NEW i \in Index(q), NEW a \in Addr,
           NEW mem \in SUBSET (Index(q) \X Addr), \A m \in mem : MemOK(se, q, m),
           se.memory = "USERPTR" => MemOK(se, q, <<i, a>>)
    PROVE  /\ Given(se, mem, i, a) \in SUBSET (Index(q) \X Addr)
           /\ \A m \in Given(se, mem, i, a) : MemOK(se, q, m)
BY DEF Given

\* The host has queued buffer i: the count grows with what the host holds.
LEMMA QueuedOK ==
    ASSUME NEW se, NEW h, NEW isStale \in BOOLEAN, NEW isAfter \in BOOLEAN, NEW q \in Queue,
           NEW i \in Index(q), SessionOK(se, h, isStale, isAfter), i \notin Held(h[q]),
           NEW mem \in SUBSET (Index(q) \X Addr), \A m \in mem : MemOK(se, q, m)
    PROVE  SessionOK(Queued(se, q), TakenBy(h, q, i, mem), isStale, isAfter)
<1> DEFINE one == [se EXCEPT !.num_queued[q] = @ + 1]
           new == [one EXCEPT !.polling = \/ @
                                          \/ ~ShouldPollCapture(se) /\ ShouldPollCapture(one)]
           g == TakenBy(h, q, i, mem)
<1>1. se \in V4l2Session /\ DOMAIN h = Queue /\ h[q] \in HostRecord(q)
  BY DEF SessionOK, QueueOK
<1>2. /\ new \in V4l2Session /\ new.memory = se.memory
      /\ new.userptr_buffers = se.userptr_buffers /\ new.streaming = se.streaming
      /\ new.reused = se.reused /\ new.num_queued[q] = se.num_queued[q] + 1
      /\ \A r \in Queue : r # q => new.num_queued[r] = se.num_queued[r]
      /\ new.polling <=> \/ se.polling
                         \/ ~ShouldPollCapture(se) /\ ShouldPollCapture(one)
      /\ one.num_queued = new.num_queued /\ one.streaming = se.streaming
  <2>1. /\ one \in V4l2Session /\ one.memory = se.memory
        /\ one.userptr_buffers = se.userptr_buffers /\ one.streaming = se.streaming
        /\ one.reused = se.reused
        /\ one.num_queued[q] = se.num_queued[q] + 1 /\ one.polling = se.polling
        /\ \A r \in Queue : r # q => one.num_queued[r] = se.num_queued[r]
    BY <1>1 DEF V4l2Session
  <2> HIDE DEF one
  <2> QED BY <2>1 DEF V4l2Session
<1>3. /\ DOMAIN g = Queue /\ g[q] = [h[q] EXCEPT !.queued = @ \cup {i}, !.mem = mem]
      /\ \A r \in Queue : r # q => g[r] = h[r]
  BY <1>1 DEF TakenBy
<1> HIDE DEF one, new, g
<1>4. ASSUME NEW r \in Queue PROVE QueueOK(new, g, r, isStale)
  <2>1. QueueOK(se, h, r, isStale)
    BY DEF SessionOK
  <2>2. CASE r = q
    <3>1. /\ g[r] \in HostRecord(r) /\ g[r].streaming = h[r].streaming
          /\ g[r].queued = h[r].queued \cup {i} /\ g[r].done = h[r].done
          /\ g[r].mem = mem /\ g[r].uncounted = h[r].uncounted
      <4>1. h[q].queued \cup {i} \in SUBSET Index(q)
        BY <1>1 DEF HostRecord
      <4>2. g[q] \in HostRecord(q)
        BY <1>1, <1>3, <4>1 DEF HostRecord
      <4>3. /\ g[q].streaming = h[q].streaming /\ g[q].queued = h[q].queued \cup {i}
            /\ g[q].done = h[q].done /\ g[q].mem = mem /\ g[q].uncounted = h[q].uncounted
        BY <1>1, <1>3 DEF HostRecord
      <4> QED BY <2>2, <4>2, <4>3
    <3>2. Held(g[r]) = Held(h[r]) \cup {i} /\ g[r].queued \cap g[r].done = {}
      BY <2>1, <2>2, <3>1 DEF Held, QueueOK
    <3>3. IsFiniteSet(Held(h[r])) /\ Cardinality(Held(h[r])) \in Nat
      BY <2>1, HeldFinite DEF QueueOK
    <3>4. Cardinality(Held(g[r])) = Cardinality(Held(h[r])) + 1
      BY <2>2, <3>2, <3>3, FS_AddElement
    <3>5. se.num_queued[r] \in Nat
      BY <1>1 DEF V4l2Session
    <3>6. /\ new.num_queued[r] >= Cardinality(Held(g[r])) \/ g[r].uncounted
          /\ r = "CAPTURE" =>
                new.num_queued[r] = Cardinality(Held(g[r])) \/ isStale \/ g[r].uncounted
      BY <1>2, <2>1, <2>2, <3>1, <3>3, <3>4, <3>5 DEF QueueOK
    <3>7. \A m \in g[r].mem : MemOK(new, r, m)
      BY <1>2, <2>2, <3>1 DEF MemOK
    <3>8. new.streaming[r] <=> g[r].streaming
      BY <1>2, <2>1, <3>1 DEF QueueOK
    <3> QED BY <3>1, <3>2, <3>6, <3>7, <3>8 DEF QueueOK
  <2>3. CASE r # q
    <3>1. /\ g[r] = h[r] /\ new.num_queued[r] = se.num_queued[r]
          /\ new.streaming[r] = se.streaming[r] /\ new.reused = se.reused
          /\ new.userptr_buffers = se.userptr_buffers
      BY <1>2, <1>3, <2>3
    <3> QED BY <2>1, <3>1 DEF QueueOK, MemOK
  <2> QED BY <2>2, <2>3
<1>5. PollerOK(new, isAfter)
  <2>1. se.num_queued["CAPTURE"] \in Nat /\ "CAPTURE" \in Queue
    BY <1>1 DEF V4l2Session, Queue
  <2>2. ShouldPollCapture(se) => ShouldPollCapture(new)
    BY <1>2, <2>1 DEF ShouldPollCapture
  <2>3. ShouldPollCapture(one) <=> ShouldPollCapture(new)
    BY <1>2 DEF ShouldPollCapture
  <2> QED BY <1>2, <2>2, <2>3 DEF SessionOK, PollerOK
<1> QED BY <1>2, <1>3, <1>4, <1>5 DEF SessionOK, Queued, one, new, g

\* The host has queued buffer i, and the guest is told of a failure.
LEMMA UncountedOK ==
    ASSUME NEW se, NEW h, NEW isStale \in BOOLEAN, NEW isAfter \in BOOLEAN, NEW q \in Queue,
           NEW i \in Index(q), SessionOK(se, h, isStale, isAfter), i \notin Held(h[q]),
           NEW mem \in SUBSET (Index(q) \X Addr), \A m \in mem : MemOK(se, q, m)
    PROVE  SessionOK(se, LostBy(h, q, i, mem), isStale, isAfter)
<1> DEFINE g == LostBy(h, q, i, mem)
<1>1. DOMAIN h = Queue /\ h[q] \in HostRecord(q)
  BY DEF SessionOK, QueueOK
<1>2. /\ DOMAIN g = Queue
      /\ g[q] = [h[q] EXCEPT !.queued = @ \cup {i}, !.mem = mem, !.uncounted = TRUE]
      /\ \A r \in Queue : r # q => g[r] = h[r]
  BY <1>1 DEF LostBy
<1> HIDE DEF g
<1>3. /\ g[q] \in HostRecord(q) /\ g[q].streaming = h[q].streaming
      /\ g[q].queued = h[q].queued \cup {i} /\ g[q].done = h[q].done
      /\ g[q].mem = mem /\ g[q].uncounted = TRUE
  <2>1. h[q].queued \cup {i} \in SUBSET Index(q)
    BY <1>1 DEF HostRecord
  <2>2. g[q] \in HostRecord(q)
    BY <1>1, <1>2, <2>1 DEF HostRecord
  <2>3. /\ g[q].streaming = h[q].streaming /\ g[q].queued = h[q].queued \cup {i}
        /\ g[q].done = h[q].done /\ g[q].mem = mem /\ g[q].uncounted = TRUE
    BY <1>1, <1>2 DEF HostRecord
  <2> QED BY <2>2, <2>3
<1>4. ASSUME NEW r \in Queue PROVE QueueOK(se, g, r, isStale)
  <2>1. QueueOK(se, h, r, isStale)
    BY DEF SessionOK
  <2>2. CASE r = q
    <3>1. g[q].queued \cap g[q].done = {}
      BY <1>3, <2>1, <2>2 DEF QueueOK, Held
    <3> QED BY <1>3, <2>1, <2>2, <3>1 DEF QueueOK
  <2>3. CASE r # q
    BY <1>2, <2>1, <2>3 DEF QueueOK
  <2> QED BY <2>2, <2>3
<1> QED BY <1>2, <1>4 DEF SessionOK, g

\* DropUserptrs keeps the memory of the buffers it is not asked to drop.
LEMMA UserptrsDropped ==
    ASSUME NEW se \in V4l2Session, NEW q \in Queue, NEW idx
    PROVE  /\ DropUserptrs(se, q, idx) \in SUBSET V4l2UserPlaneInfo
           /\ \A u \in se.userptr_buffers : (u.queue # q \/ u.index \notin idx)
                                               => u \in DropUserptrs(se, q, idx)
BY DEF DropUserptrs, V4l2Session

\* A session that drops the entries of buffers idx still has the memory of the others.
LEMMA DroppedMemOK ==
    ASSUME NEW se \in V4l2Session, NEW q \in Queue, NEW idx, NEW new,
           new.userptr_buffers = DropUserptrs(se, q, idx), new.reused = se.reused,
           NEW r \in Queue, NEW m, MemOK(se, r, m), r # q \/ m[1] \notin idx
    PROVE  MemOK(new, r, m)
<1> DEFINE u == [addr |-> m[2], queue |-> r, index |-> m[1]]
<1>1. CASE m[2] \in se.reused
  BY <1>1 DEF MemOK
<1>2. CASE u \in se.userptr_buffers
  <2>1. u.queue = r /\ u.index = m[1]
    OBVIOUS
  <2>2. u \in DropUserptrs(se, q, idx)
    BY <1>2, <2>1, UserptrsDropped
  <2> QED BY <2>2 DEF MemOK
<1> QED BY <1>1, <1>2 DEF MemOK

\* What a session keeps when buffers are dequeued.
Keeps(se, h, new, g) ==
    /\ new.memory = se.memory
    /\ \A q \in Queue : g[q].n = h[q].n

\* OUTPUT buffers idx are dequeued: the count of the queue stays.
LEMMA OutputAfterOK ==
    ASSUME NEW se, NEW h, NEW isStale \in BOOLEAN, NEW isAfter \in BOOLEAN,
           SessionOK(se, h, isStale, isAfter), NEW idx \in SUBSET h["OUTPUT"].done
    PROVE  LET new == [se EXCEPT !.userptr_buffers = DropUserptrs(se, "OUTPUT", idx)]
               g == OutputsGiven(h, idx)
           IN  /\ SessionOK(new, g, isStale, isAfter) /\ Keeps(se, h, new, g)
               /\ new.num_queued = se.num_queued /\ g["CAPTURE"] = h["CAPTURE"]
<1> DEFINE new == [se EXCEPT !.userptr_buffers = DropUserptrs(se, "OUTPUT", idx)]
           g == OutputsGiven(h, idx)
           q == "OUTPUT"
<1>1. se \in V4l2Session /\ DOMAIN h = Queue /\ q \in Queue /\ h[q] \in HostRecord(q)
  BY DEF SessionOK, QueueOK, Queue
<1>2. /\ new \in V4l2Session /\ new.memory = se.memory /\ new.num_queued = se.num_queued
      /\ new.streaming = se.streaming /\ new.polling = se.polling
      /\ new.userptr_buffers = DropUserptrs(se, q, idx) /\ new.reused = se.reused
  <2>1. DropUserptrs(se, q, idx) \in SUBSET V4l2UserPlaneInfo
    BY <1>1, UserptrsDropped
  <2> QED BY <1>1, <2>1 DEF V4l2Session
<1>3. /\ DOMAIN g = Queue
      /\ g[q] = [h[q] EXCEPT !.done = @ \ idx, !.mem = Released(@, idx)]
      /\ \A r \in Queue : r # q => g[r] = h[r]
  BY <1>1 DEF OutputsGiven
<1> HIDE DEF new, g
<1>4. ASSUME NEW r \in Queue, NEW m, MemOK(se, r, m), r # q \/ m[1] \notin idx
      PROVE  MemOK(new, r, m)
  BY <1>1, <1>2, <1>4, DroppedMemOK
<1>5. /\ g[q] \in HostRecord(q) /\ g[q].streaming = h[q].streaming /\ g[q].n = h[q].n
      /\ g[q].queued = h[q].queued /\ g[q].done = h[q].done \ idx
      /\ g[q].mem = Released(h[q].mem, idx) /\ g[q].uncounted = h[q].uncounted
  <2>1. Released(h[q].mem, idx) \subseteq Index(q) \X Addr
    BY <1>1 DEF HostRecord, Released
  <2> QED BY <1>1, <1>3, <2>1 DEF HostRecord
<1>6. QueueOK(new, g, q, isStale)
  <2>1. QueueOK(se, h, q, isStale)
    BY <1>1 DEF SessionOK
  <2>2. Held(g[q]) \subseteq Held(h[q]) /\ g[q].queued \cap g[q].done = {}
    BY <1>5, <2>1 DEF Held, QueueOK
  <2>3. /\ Cardinality(Held(g[q])) <= Cardinality(Held(h[q]))
        /\ Cardinality(Held(g[q])) \in Nat /\ Cardinality(Held(h[q])) \in Nat
    BY <1>1, <1>5, <2>2, HeldFinite, FS_Subset
  <2>4. se.num_queued[q] \in Nat
    BY <1>1 DEF V4l2Session
  <2>5. new.num_queued[q] >= Cardinality(Held(g[q])) \/ g[q].uncounted
    BY <1>2, <1>5, <2>1, <2>3, <2>4 DEF QueueOK
  <2>6. \A m \in g[q].mem : MemOK(new, q, m)
    <3>1. \A m \in g[q].mem : m \in h[q].mem /\ m[1] \notin idx
      BY <1>5 DEF Released
    <3> QED BY <1>1, <1>4, <2>1, <3>1 DEF QueueOK
  <2>7. new.streaming[q] <=> g[q].streaming
    BY <1>2, <1>5, <2>1 DEF QueueOK
  <2> QED BY <1>5, <2>2, <2>5, <2>6, <2>7 DEF QueueOK
<1>7. ASSUME NEW r \in Queue, r # q PROVE QueueOK(new, g, r, isStale)
  <2>1. QueueOK(se, h, r, isStale) /\ g[r] = h[r]
    BY <1>3, <1>7 DEF SessionOK
  <2>2. /\ new.num_queued[r] = se.num_queued[r] /\ new.streaming[r] = se.streaming[r]
        /\ \A m : MemOK(se, r, m) => MemOK(new, r, m)
    BY <1>2, <1>4, <1>7
  <2> QED BY <2>1, <2>2 DEF QueueOK
<1>8. PollerOK(new, isAfter)
  BY <1>2 DEF SessionOK, PollerOK, ShouldPollCapture
<1>9. SessionOK(new, g, isStale, isAfter)
  BY <1>2, <1>3, <1>6, <1>7, <1>8 DEF SessionOK
<1>10. Keeps(se, h, new, g) /\ g["CAPTURE"] = h["CAPTURE"]
  BY <1>2, <1>3, <1>5 DEF Keeps, Queue
<1> QED BY <1>2, <1>9, <1>10 DEF new, g

\* dequeue_output_buffers
LEMMA DequeueOutputBuffersOK ==
    ASSUME NEW se, NEW h, NEW isStale \in BOOLEAN, NEW isAfter \in BOOLEAN,
           SessionOK(se, h, isStale, isAfter), NEW d \in DequeueOutputBuffers(se, h)
    PROVE  /\ SessionOK(d.se, d.h, isStale, isAfter) /\ Keeps(se, h, d.se, d.h)
           /\ d.se.num_queued = se.num_queued /\ d.h["CAPTURE"] = h["CAPTURE"]
<1> DEFINE After(idx, ok) ==
              [se |-> [se EXCEPT !.userptr_buffers = DropUserptrs(se, "OUTPUT", idx)],
               h |-> OutputsGiven(h, idx), ok |-> ok]
<1>2. \E idx \in SUBSET h["OUTPUT"].done, ok \in BOOLEAN : d = After(idx, ok)
  <2>1. \/ d = After({}, TRUE) \/ d = After(h["OUTPUT"].done, TRUE)
        \/ \E idx \in SUBSET h["OUTPUT"].done : d = After(idx, FALSE)
    BY Zenon DEF DequeueOutputBuffers, OutputsGiven
  <2> HIDE DEF After
  <2> QED BY <2>1
<1>3. PICK idx \in SUBSET h["OUTPUT"].done, ok \in BOOLEAN : d = After(idx, ok)
  BY <1>2
<1>1. /\ d.se = [se EXCEPT !.userptr_buffers = DropUserptrs(se, "OUTPUT", idx)]
      /\ d.h = OutputsGiven(h, idx)
  BY <1>3
<1> QED BY <1>1, OutputAfterOK

\* dequeue_capture_buffer, which only runs while the poller listens.  The buffer flagged
\* LAST turns the poller off, whether others are left or not.
LEMMA DequeueCaptureBufferOK ==
    ASSUME NEW se, NEW h, NEW isStale \in BOOLEAN, NEW isAfter \in BOOLEAN,
           SessionOK(se, h, isStale, isAfter), se.polling,
           NEW d \in DequeueCaptureBuffer(se, h)
    PROVE  LET left == /\ h["CAPTURE"].last # 0 /\ d.h["CAPTURE"].last = 0
                       /\ d.se.num_queued["CAPTURE"] > 0
           IN  SessionOK(d.se, d.h, isStale, isAfter \/ left) /\ Keeps(se, h, d.se, d.h)
<1> DEFINE c == h["CAPTURE"]
           q == "CAPTURE"
           left == c.last # 0 /\ d.h[q].last = 0 /\ d.se.num_queued[q] > 0
<1>1. /\ se \in V4l2Session /\ DOMAIN h = Queue /\ q \in Queue /\ c \in HostRecord(q)
      /\ QueueOK(se, h, q, isStale)
  BY DEF SessionOK, QueueOK, Queue
<1>2. CASE d.se = se /\ d.h = h
  <2>1. ~left
    BY <1>2
  <2>2. (isAfter \/ left) = isAfter
    BY <2>1
  <2> QED BY <1>2, <2>2 DEF Keeps
<1>3. ASSUME NEW i \in c.done, d.se = CaptureDequeued(se, i, i = c.last),
             d.h = [h EXCEPT ![q].done = @ \ {i}, ![q].mem = Released(@, {i}),
                             ![q].last = IF i = @ THEN 0 ELSE @,
                             ![q].eos = @ \/ i = c.last]
      PROVE  SessionOK(d.se, d.h, isStale, isAfter \/ left) /\ Keeps(se, h, d.se, d.h)
  <2> DEFINE new == d.se
             g == d.h
  <2>1. /\ ShouldPollCapture(se) /\ ~isAfter /\ se.num_queued[q] \in Nat
        /\ se.num_queued[q] > 0
    BY <1>1 DEF SessionOK, PollerOK, ShouldPollCapture, V4l2Session
  <2>2. /\ new \in V4l2Session /\ new.memory = se.memory /\ new.streaming = se.streaming
        /\ new.userptr_buffers = DropUserptrs(se, q, {i}) /\ new.reused = se.reused
        /\ new.num_queued[q] = se.num_queued[q] - 1
        /\ \A r \in Queue : r # q => new.num_queued[r] = se.num_queued[r]
        /\ new.polling <=> se.num_queued[q] - 1 # 0 /\ i # c.last
    <3>1. DropUserptrs(se, q, {i}) \in SUBSET V4l2UserPlaneInfo
      BY <1>1, UserptrsDropped
    <3>2. new = [se EXCEPT !.userptr_buffers = DropUserptrs(se, q, {i}),
                           !.num_queued[q] = se.num_queued[q] - 1,
                           !.polling = @ /\ ~(ShouldPollCapture(se) /\ se.num_queued[q] - 1 = 0)
                                         /\ ~(i = c.last)]
      BY <1>3 DEF CaptureDequeued
    <3>3. se.num_queued[q] - 1 \in Nat
      BY <2>1
    <3>4. /\ new.memory = se.memory /\ new.streaming = se.streaming
          /\ new.userptr_buffers = DropUserptrs(se, q, {i}) /\ new.reused = se.reused
          /\ new.num_queued = [se.num_queued EXCEPT ![q] = se.num_queued[q] - 1]
      BY <1>1, <3>2 DEF V4l2Session
    <3>5. /\ new.num_queued \in [Queue -> Nat] /\ new.num_queued[q] = se.num_queued[q] - 1
          /\ \A r \in Queue : r # q => new.num_queued[r] = se.num_queued[r]
      BY <1>1, <3>3, <3>4 DEF V4l2Session
    <3>6. /\ new.polling \in BOOLEAN
          /\ new.polling <=> se.num_queued[q] - 1 # 0 /\ i # c.last
      BY <1>1, <2>1, <3>2 DEF V4l2Session
    <3>7. new \in V4l2Session
      BY <1>1, <3>1, <3>2, <3>4, <3>5, <3>6 DEF V4l2Session
    <3> QED BY <3>4, <3>5, <3>6, <3>7
  <2>3. ASSUME NEW r \in Queue, NEW m, MemOK(se, r, m), r # q \/ m[1] # i
        PROVE  MemOK(new, r, m)
    <3> HIDE DEF new
    <3>1. r # q \/ m[1] \notin {i}
      BY <2>3
    <3> QED BY <1>1, <2>2, <2>3, <3>1, DroppedMemOK
  <2>4. /\ DOMAIN g = Queue
        /\ g[q] = [c EXCEPT !.done = @ \ {i}, !.mem = Released(@, {i}),
                            !.last = IF i = @ THEN 0 ELSE @, !.eos = @ \/ i = c.last]
        /\ \A r \in Queue : r # q => g[r] = h[r]
    BY <1>1, <1>3
  <2> HIDE DEF new, g, c
  <2>5. /\ g[q] \in HostRecord(q) /\ g[q].streaming = c.streaming /\ g[q].n = c.n
        /\ g[q].queued = c.queued /\ g[q].done = c.done \ {i}
        /\ g[q].mem = Released(c.mem, {i}) /\ g[q].uncounted = c.uncounted
        /\ g[q].last = IF i = c.last THEN 0 ELSE c.last
    <3>1. (c.eos \/ i = c.last) \in BOOLEAN
      OBVIOUS
    <3>2. (IF i = c.last THEN 0 ELSE c.last) \in Nat
      BY <1>1 DEF HostRecord
    <3>3. /\ g[q].streaming = c.streaming /\ g[q].n = c.n /\ g[q].queued = c.queued
          /\ g[q].done = c.done \ {i} /\ g[q].last = IF i = c.last THEN 0 ELSE c.last
          /\ g[q].mem = Released(c.mem, {i}) /\ g[q].uncounted = c.uncounted
          /\ g[q].eos \in BOOLEAN
      BY <1>1, <2>4, <3>1 DEF HostRecord
    <3>5. Released(c.mem, {i}) \subseteq Index(q) \X Addr
      BY <1>1 DEF HostRecord, Released
    <3>4. g[q] \in HostRecord(q)
      BY <1>1, <2>4, <3>2, <3>3, <3>5 DEF HostRecord
    <3> QED BY <3>3, <3>4
  <2>6. i # 0
    BY <1>1, <1>3, HeldFinite DEF Held
  <2>7. left <=> (i = c.last /\ se.num_queued[q] - 1 > 0)
    <3>1. left <=> c.last # 0 /\ g[q].last = 0 /\ new.num_queued[q] > 0
      BY DEF new, g
    <3> QED BY <2>2, <2>5, <2>6, <3>1
  <2> HIDE DEF left
  <2>8. QueueOK(new, g, q, isStale)
    <3>1. /\ Held(g[q]) = Held(c) \ {i} /\ i \in Held(c)
          /\ g[q].queued \cap g[q].done = {}
      BY <1>1, <1>3, <2>5 DEF Held, QueueOK, c
    <3>2. IsFiniteSet(Held(c)) /\ Cardinality(Held(c)) \in Nat
      BY <1>1, HeldFinite
    <3>3. Cardinality(Held(g[q])) = Cardinality(Held(c)) - 1
      BY <3>1, <3>2, FS_RemoveElement
    <3>4. /\ new.num_queued[q] >= Cardinality(Held(g[q])) \/ g[q].uncounted
          /\ new.num_queued[q] = Cardinality(Held(g[q])) \/ isStale \/ g[q].uncounted
      BY <1>1, <2>1, <2>2, <2>5, <3>2, <3>3 DEF QueueOK, c
    <3>5. \A m \in g[q].mem : MemOK(new, q, m)
      <4>1. \A m \in g[q].mem : m \in c.mem /\ m[1] # i
        BY <2>5 DEF Released
      <4> QED BY <1>1, <2>3, <4>1 DEF QueueOK, c
    <3>6. new.streaming[q] <=> g[q].streaming
      BY <1>1, <2>2, <2>5 DEF QueueOK, c
    <3> QED BY <2>5, <3>1, <3>4, <3>5, <3>6 DEF QueueOK
  <2>9. ASSUME NEW r \in Queue, r # q PROVE QueueOK(new, g, r, isStale)
    <3>1. /\ QueueOK(se, h, r, isStale) /\ g[r] = h[r]
          /\ new.num_queued[r] = se.num_queued[r] /\ new.streaming[r] = se.streaming[r]
      BY <2>2, <2>4, <2>9 DEF SessionOK
    <3>2. \A m : MemOK(se, r, m) => MemOK(new, r, m)
      BY <2>3, <2>9
    <3> QED BY <3>1, <3>2 DEF QueueOK
  <2>10. PollerOK(new, isAfter \/ left)
    <3>1. ShouldPollCapture(new) <=> se.num_queued[q] - 1 > 0
      BY <2>1, <2>2 DEF ShouldPollCapture
    <3>2. se.num_queued[q] - 1 # 0 <=> se.num_queued[q] - 1 > 0
      BY <2>1
    <3> QED BY <2>1, <2>2, <2>7, <3>1, <3>2 DEF PollerOK
  <2>11. SessionOK(new, g, isStale, isAfter \/ left)
    BY <2>2, <2>4, <2>8, <2>9, <2>10 DEF SessionOK
  <2>12. Keeps(se, h, new, g)
    BY <2>2, <2>4, <2>5 DEF Keeps, Queue, c
  <2> QED BY <2>11, <2>12 DEF new, g
<1>4. \/ d.se = se /\ d.h = h
      \/ \E i \in c.done :
            /\ d.se = CaptureDequeued(se, i, i = c.last)
            /\ d.h = [h EXCEPT ![q].done = @ \ {i}, ![q].mem = Released(@, {i}),
                               ![q].last = IF i = @ THEN 0 ELSE @,
                               ![q].eos = @ \/ i = c.last]
  <2> DEFINE next == IF c.done # {c.last} THEN c.done \ {c.last} ELSE c.done
             After(i) == [se |-> CaptureDequeued(se, i, i = c.last), ok |-> TRUE,
                          h |-> [h EXCEPT ![q].done = @ \ {i},
                                          ![q].mem = Released(@, {i}),
                                          ![q].last = IF i = @ THEN 0 ELSE @,
                                          ![q].eos = @ \/ i = c.last]]
  <2>1. \/ d = [se |-> se, h |-> h, ok |-> FALSE] \/ d = [se |-> se, h |-> h, ok |-> TRUE]
        \/ \E i \in next : d = After(i)
    BY Zenon DEF DequeueCaptureBuffer
  <2>2. next \subseteq c.done
    OBVIOUS
  <2>3. ASSUME NEW i \in next, d = After(i)
        PROVE  /\ i \in c.done /\ d.se = CaptureDequeued(se, i, i = c.last)
               /\ d.h = [h EXCEPT ![q].done = @ \ {i}, ![q].mem = Released(@, {i}),
                                  ![q].last = IF i = @ THEN 0 ELSE @,
                                  ![q].eos = @ \/ i = c.last]
    <3> HIDE DEF next
    <3> QED BY <2>2, <2>3
  <2>4. CASE \E i \in next : d = After(i)
    <3>1. PICK i \in next : d = After(i)
      BY <2>4
    <3> QED BY <2>3, <3>1
  <2>5. CASE \/ d = [se |-> se, h |-> h, ok |-> FALSE]
             \/ d = [se |-> se, h |-> h, ok |-> TRUE]
    <3>1. d.se = se /\ d.h = h
      BY <2>5
    <3> QED BY <3>1
  <2> QED BY <2>1, <2>4, <2>5
<1> QED BY <1>2, <1>3, <1>4

\* What process_events does for a CaptureReady event.
LEMMA OnCaptureReadyOK ==
    ASSUME NEW se, NEW h, NEW isStale \in BOOLEAN, NEW isAfter \in BOOLEAN,
           SessionOK(se, h, isStale, isAfter), se.polling, NEW d \in OnCaptureReady(se, h)
    PROVE  LET left == /\ h["CAPTURE"].last # 0 /\ d.h["CAPTURE"].last = 0
                       /\ d.se.num_queued["CAPTURE"] > 0
           IN  SessionOK(d.se, d.h, isStale, isAfter \/ left) /\ Keeps(se, h, d.se, d.h)
<1>1. PICK e \in DequeueCaptureBuffer(se, h) : d \in IF e.ok THEN DequeueOutputBuffers(e.se, e.h)
                                                     ELSE {e}
  BY DEF OnCaptureReady
<1> DEFINE left == /\ h["CAPTURE"].last # 0 /\ e.h["CAPTURE"].last = 0
                   /\ e.se.num_queued["CAPTURE"] > 0
<1>2. SessionOK(e.se, e.h, isStale, isAfter \/ left) /\ Keeps(se, h, e.se, e.h)
  BY DequeueCaptureBufferOK
<1>3. (isAfter \/ left) \in BOOLEAN
  OBVIOUS
<1>4. CASE d = e
  BY <1>2, <1>4
<1>5. CASE d \in DequeueOutputBuffers(e.se, e.h)
  <2>1. /\ SessionOK(d.se, d.h, isStale, isAfter \/ left) /\ Keeps(e.se, e.h, d.se, d.h)
        /\ d.se.num_queued = e.se.num_queued /\ d.h["CAPTURE"] = e.h["CAPTURE"]
    <3> DEFINE after == isAfter \/ left
    <3>1. after \in BOOLEAN /\ SessionOK(e.se, e.h, isStale, after)
      BY <1>2, <1>3
    <3> HIDE DEF after
    <3>2. /\ SessionOK(d.se, d.h, isStale, after) /\ Keeps(e.se, e.h, d.se, d.h)
          /\ d.se.num_queued = e.se.num_queued /\ d.h["CAPTURE"] = e.h["CAPTURE"]
      BY <1>5, <3>1, DequeueOutputBuffersOK
    <3> QED BY <3>2 DEF after
  <2>2. Keeps(se, h, d.se, d.h)
    BY <1>2, <2>1 DEF Keeps
  <2> QED BY <2>1, <2>2
<1> QED BY <1>1, <1>4, <1>5

-----------------------------------------------------------------------------
(* The inductive invariant.                                                *)

TypeOK ==
    /\ DOMAIN sess = Session /\ DOMAIN host = Session
    /\ pending \in [Session -> BOOLEAN] /\ stale \in [Session -> BOOLEAN]
    /\ after_last \in [Session -> BOOLEAN]
    /\ \A p \in DOMAIN table : table[p] \in TableEntry(Session \cup {None})
    /\ panicked \in {None, "offset", "payload"}

SessionsOK ==
    \A s \in Session :
        IF s \in Open THEN SessionOK(sess[s], host[s], stale[s], after_last[s])
        ELSE ~stale[s] /\ ~after_last[s]

FewOpen == IsFiniteSet(Open) /\ Cardinality(Open) <= MaxOpen

\* OffsetsMatch, buffer by buffer: each MMAP buffer of the host has the one entry of its
\* offset, and there are no others.
OffsetsOK ==
    panicked = None =>
        /\ RegisteredPages(table) = DOMAIN mmap_buffers
        /\ \A o \in DOMAIN mmap_buffers :
              LET b == mmap_buffers[o]
              IN  /\ b.session \in Open /\ b.queue \in Queue /\ o = Offset(b.queue, b.index)
                  /\ sess[b.session].memory = "MMAP"
                  /\ b.index \in 1 .. host[b.session][b.queue].n
        /\ \A s \in Open : sess[s].memory = "MMAP" =>
              \A q \in Queue : \A i \in 1 .. host[s][q].n :
                 /\ Offset(q, i) \in DOMAIN mmap_buffers
                 /\ mmap_buffers[Offset(q, i)] = [session |-> s, queue |-> q, index |-> i]

Inv == TypeOK /\ SessionsOK /\ FewOpen /\ OffsetsOK

\* A session the invariant describes is not None.
LEMMA SessionIsOpen ==
    ASSUME NEW se, NEW h, NEW st, NEW al, SessionOK(se, h, st, al)
    PROVE  se # None
BY ProxyDeviceAssumption DEF SessionOK

\* A step changes session s only, to what is given.
OnlySession(s, se, h, st, al) ==
    /\ DOMAIN sess' = Session /\ DOMAIN host' = Session
    /\ stale' \in [Session -> BOOLEAN] /\ after_last' \in [Session -> BOOLEAN]
    /\ sess'[s] = se /\ host'[s] = h /\ stale'[s] = st /\ after_last'[s] = al
    /\ \A r \in Session : r # s => /\ sess'[r] = sess[r] /\ host'[r] = host[r]
                                   /\ stale'[r] = stale[r] /\ after_last'[r] = after_last[r]

\* A step of one open session that the lemmas above describe.
LEMMA SessionStep ==
    ASSUME Inv, NEW s \in Open, NEW se, NEW h, NEW st \in BOOLEAN, NEW al \in BOOLEAN,
           SessionOK(se, h, st, al),
           OnlySession(s, se, h, st, al)
    PROVE  Open' = Open /\ SessionsOK' /\ FewOpen'
<1>1. s \in Session
  BY DEF Open
<1>2. /\ DOMAIN sess' = Session /\ DOMAIN host' = Session
      /\ stale' \in [Session -> BOOLEAN] /\ after_last' \in [Session -> BOOLEAN]
      /\ sess'[s] = se /\ host'[s] = h /\ stale'[s] = st /\ after_last'[s] = al
      /\ \A r \in Session : r # s => /\ sess'[r] = sess[r] /\ host'[r] = host[r]
                                     /\ stale'[r] = stale[r] /\ after_last'[r] = after_last[r]
  BY DEF OnlySession
<1>3. Open' = Open
  BY <1>1, <1>2, SessionIsOpen DEF Open
<1>4. SessionsOK'
  <2> SUFFICES ASSUME NEW r \in Session
               PROVE  IF r \in Open
                      THEN SessionOK(sess'[r], host'[r], stale'[r], after_last'[r])
                      ELSE ~stale'[r] /\ ~after_last'[r]
    BY <1>3 DEF SessionsOK
  <2>1. CASE r = s
    BY <1>2, <2>1
  <2>2. CASE r # s
    BY <1>2, <2>2 DEF Inv, SessionsOK
  <2> QED BY <2>1, <2>2
<1>5. FewOpen'
  BY <1>3 DEF Inv, FewOpen
<1> QED BY <1>3, <1>4, <1>5

\* The offsets are those of the buffers the host has.
LEMMA OffsetsKept ==
    ASSUME OffsetsOK, UNCHANGED <<mmap_buffers, panicked>>,
           RegisteredPages(table') = RegisteredPages(table), Open' = Open,
           \A r \in Open : Keeps(sess[r], host[r], sess'[r], host'[r])
    PROVE  OffsetsOK'
<1>1. CASE panicked = None
  <2>1. RegisteredPages(table)' = DOMAIN mmap_buffers'
    BY <1>1 DEF OffsetsOK, RegisteredPages
  <2>2. ASSUME NEW o \in DOMAIN mmap_buffers'
        PROVE  LET b == mmap_buffers'[o]
               IN  /\ b.session \in Open' /\ b.queue \in Queue /\ o = Offset(b.queue, b.index)
                   /\ sess'[b.session].memory = "MMAP"
                   /\ b.index \in 1 .. host'[b.session][b.queue].n
    BY <1>1 DEF OffsetsOK, Keeps
  <2>3. ASSUME NEW r \in Open', sess'[r].memory = "MMAP", NEW q \in Queue,
               NEW i \in 1 .. host'[r][q].n
        PROVE  /\ Offset(q, i) \in DOMAIN mmap_buffers'
               /\ mmap_buffers'[Offset(q, i)] = [session |-> r, queue |-> q, index |-> i]
    BY <1>1, <2>3 DEF OffsetsOK, Keeps
  <2> QED BY <2>1, <2>2, <2>3 DEF OffsetsOK, Offset
<1>2. CASE panicked # None
  BY <1>2 DEF OffsetsOK
<1> QED BY <1>1, <1>2

\* A step of one open session that leaves its buffers and the table alone.
LEMMA QuietStep ==
    ASSUME Inv, NEW s \in Open, NEW se, NEW h, NEW st \in BOOLEAN, NEW al \in BOOLEAN,
           SessionOK(se, h, st, al), Keeps(sess[s], host[s], se, h),
           OnlySession(s, se, h, st, al),
           pending' \in [Session -> BOOLEAN], UNCHANGED <<mmap_buffers, table, panicked>>
    PROVE  Inv'
<1>1. Open' = Open /\ SessionsOK' /\ FewOpen'
  BY SessionStep
<1>2. TypeOK'
  BY DEF Inv, TypeOK, OnlySession
<1>3. \A r \in Open : Keeps(sess[r], host[r], sess'[r], host'[r])
  <2> SUFFICES ASSUME NEW r \in Open PROVE Keeps(sess[r], host[r], sess'[r], host'[r])
    OBVIOUS
  <2>1. CASE r = s
    BY <2>1 DEF OnlySession
  <2>2. CASE r # s
    BY <2>2 DEF Keeps, Open, OnlySession
  <2> QED BY <2>1, <2>2
<1>4. OffsetsOK'
  BY <1>1, <1>3, OffsetsKept DEF Inv
<1> QED BY <1>1, <1>2, <1>4 DEF Inv

\* What a session that runs satisfies.
LEMMA AliveOK ==
    ASSUME Inv, NEW s \in Session, Alive(s)
    PROVE  /\ s \in Open /\ panicked = None
           /\ SessionOK(sess[s], host[s], stale[s], after_last[s])
           /\ stale[s] \in BOOLEAN /\ after_last[s] \in BOOLEAN
           /\ DOMAIN sess = Session /\ DOMAIN host = Session /\ DOMAIN host[s] = Queue
           /\ stale \in [Session -> BOOLEAN] /\ after_last \in [Session -> BOOLEAN]
           /\ pending \in [Session -> BOOLEAN]
           /\ \A q \in Queue : host[s][q] \in HostRecord(q)
<1>1. s \in Open /\ panicked = None
  BY DEF Alive
<1>2. SessionOK(sess[s], host[s], stale[s], after_last[s])
  BY <1>1 DEF Inv, SessionsOK
<1>3. DOMAIN host[s] = Queue /\ \A q \in Queue : host[s][q] \in HostRecord(q)
  BY <1>2 DEF SessionOK, QueueOK
<1> QED BY <1>1, <1>2, <1>3 DEF Inv, TypeOK

-----------------------------------------------------------------------------
(* The steps that leave the buffers and the table alone.                   *)

\* A step that changes at most pending.
LEMMA PendingInv ==
    ASSUME Inv, pending' \in [Session -> BOOLEAN],
           UNCHANGED <<sess, mmap_buffers, table, panicked, host, stale, after_last>>
    PROVE  Inv'
<1>1. Open' = Open
  BY DEF Open
<1>2. TypeOK'
  BY DEF Inv, TypeOK
<1>3. SessionsOK' /\ FewOpen'
  BY <1>1 DEF Inv, SessionsOK, FewOpen
<1>4. OffsetsOK'
  BY <1>1, OffsetsKept DEF Inv, Keeps
<1> QED BY <1>2, <1>3, <1>4 DEF Inv

\* subscribe_event, and an event of the host
LEMMA EventInv ==
    ASSUME NEW s \in Session, Inv, SubscribeEvent(s) \/ HostEvent(s)
    PROVE  Inv'
<1>1. /\ UNCHANGED <<sess, mmap_buffers, table, panicked, host, stale, after_last>>
      /\ pending' \in [Session -> BOOLEAN]
  BY DEF SubscribeEvent, HostEvent, Inv, TypeOK, deviceVars
<1> QED BY <1>1, PendingInv

\* A step that changes nothing.
LEMMA StutterInv == ASSUME Inv, UNCHANGED vars PROVE Inv'
<1>1. /\ UNCHANGED <<sess, mmap_buffers, table, panicked, host, stale, after_last>>
      /\ pending' \in [Session -> BOOLEAN]
  BY DEF Inv, TypeOK, vars, deviceVars
<1> QED BY <1>1, PendingInv

\* decoder_cmd
LEMMA DecoderCmdInv == ASSUME NEW s \in Session, Inv, DecoderCmd(s) PROVE Inv'
<1> DEFINE q == "CAPTURE"
           c == [host[s][q] EXCEPT !.eos = FALSE]
           h == [host[s] EXCEPT ![q] = c]
<1>1. /\ s \in Open /\ SessionOK(sess[s], host[s], stale[s], after_last[s])
      /\ stale[s] \in BOOLEAN /\ after_last[s] \in BOOLEAN
      /\ DOMAIN sess = Session /\ DOMAIN host = Session /\ DOMAIN host[s] = Queue
      /\ stale \in [Session -> BOOLEAN] /\ after_last \in [Session -> BOOLEAN]
      /\ host[s][q] \in HostRecord(q) /\ q \in Queue /\ pending \in [Session -> BOOLEAN]
  BY AliveOK DEF DecoderCmd, Queue
<1>2. /\ c \in HostRecord(q) /\ c.streaming = host[s][q].streaming /\ c.n = host[s][q].n
      /\ c.queued = host[s][q].queued /\ c.done = host[s][q].done
      /\ c.mem = host[s][q].mem /\ c.uncounted = host[s][q].uncounted
  BY <1>1 DEF HostRecord
<1>3. UNCHANGED <<sess, mmap_buffers, table, panicked, pending, stale, after_last>>
  BY DEF DecoderCmd, deviceVars
<1>4. host' = [host EXCEPT ![s] = h]
  BY <1>1 DEF DecoderCmd
<1>5. /\ h[q] = c /\ \A r \in Queue : r # q => h[r] = host[s][r]
  BY <1>1
<1>6. OnlySession(s, sess[s], h, stale[s], after_last[s])
  BY <1>1, <1>3, <1>4 DEF OnlySession
<1> HIDE DEF c
<1>7. SessionOK(sess[s], h, stale[s], after_last[s])
  <2>1. Held(c) = Held(host[s][q]) /\ c.queued \cap c.done = {}
    BY <1>1, <1>2 DEF Held, SessionOK, QueueOK
  <2>2. SessionOK(sess[s], host[s], stale[s], after_last[s]) /\ stale[s] \in BOOLEAN
        /\ after_last[s] \in BOOLEAN
    BY <1>1
  <2>3. c \in HostRecord(q) /\ c.streaming = host[s][q].streaming /\ q \in Queue
        /\ c.uncounted = host[s][q].uncounted /\ \A m \in c.mem : MemOK(sess[s], q, m)
    BY <1>1, <1>2 DEF SessionOK, QueueOK
  <2> QED BY <2>1, <2>2, <2>3, HostChangesOK
<1> HIDE DEF h
<1>8. Keeps(sess[s], host[s], sess[s], h)
  BY <1>2, <1>5 DEF Keeps
<1> QED BY <1>1, <1>3, <1>6, <1>7, <1>8, QuietStep

\* The host completes a buffer.
LEMMA HostDoneInv ==
    ASSUME NEW s \in Session, NEW q \in Queue, NEW i \in Index(q), NEW last \in BOOLEAN, Inv,
           HostDone(s, q, i, last)
    PROVE  Inv'
<1> DEFINE c == [host[s][q] EXCEPT !.queued = @ \ {i}, !.done = @ \cup {i},
                                   !.last = IF last THEN i ELSE @]
           h == [host[s] EXCEPT ![q] = c]
<1>1. /\ s \in Open /\ SessionOK(sess[s], host[s], stale[s], after_last[s])
      /\ stale[s] \in BOOLEAN /\ after_last[s] \in BOOLEAN
      /\ DOMAIN sess = Session /\ DOMAIN host = Session /\ DOMAIN host[s] = Queue
      /\ stale \in [Session -> BOOLEAN] /\ after_last \in [Session -> BOOLEAN]
      /\ host[s][q] \in HostRecord(q) /\ pending \in [Session -> BOOLEAN]
  BY AliveOK DEF HostDone
<1>2. /\ c \in HostRecord(q) /\ c.streaming = host[s][q].streaming /\ c.n = host[s][q].n
      /\ c.queued = host[s][q].queued \ {i} /\ c.done = host[s][q].done \cup {i}
      /\ c.mem = host[s][q].mem /\ c.uncounted = host[s][q].uncounted
  <2>1. (IF last THEN i ELSE host[s][q].last) \in Nat
    BY <1>1, HeldFinite DEF HostRecord
  <2> QED BY <1>1, <2>1 DEF HostRecord
<1>3. UNCHANGED <<sess, mmap_buffers, table, panicked, pending, stale, after_last>>
  BY DEF HostDone, deviceVars
<1>4. host' = [host EXCEPT ![s] = h] /\ i \in host[s][q].queued
  BY <1>1 DEF HostDone
<1>5. /\ h[q] = c /\ \A r \in Queue : r # q => h[r] = host[s][r]
  BY <1>1
<1>6. OnlySession(s, sess[s], h, stale[s], after_last[s])
  BY <1>1, <1>3, <1>4 DEF OnlySession
<1> HIDE DEF c
<1>7. SessionOK(sess[s], h, stale[s], after_last[s])
  <2>1. Held(c) = Held(host[s][q]) /\ c.queued \cap c.done = {}
    BY <1>1, <1>2, <1>4 DEF Held, SessionOK, QueueOK
  <2>2. SessionOK(sess[s], host[s], stale[s], after_last[s]) /\ stale[s] \in BOOLEAN
        /\ after_last[s] \in BOOLEAN
    BY <1>1
  <2>3. c \in HostRecord(q) /\ c.streaming = host[s][q].streaming /\ q \in Queue
        /\ c.uncounted = host[s][q].uncounted /\ \A m \in c.mem : MemOK(sess[s], q, m)
    BY <1>1, <1>2 DEF SessionOK, QueueOK
  <2> QED BY <2>1, <2>2, <2>3, HostChangesOK
<1> HIDE DEF h
<1>8. Keeps(sess[s], host[s], sess[s], h)
  BY <1>2, <1>5 DEF Keeps
<1> QED BY <1>1, <1>3, <1>6, <1>7, <1>8, QuietStep

\* streamon
LEMMA StreamonInv ==
    ASSUME NEW s \in Session, NEW q \in Queue, Inv, Streamon(s, q)
    PROVE  Inv'
<1> DEFINE on == [sess[s] EXCEPT !.streaming[q] = TRUE]
           se == [on EXCEPT !.polling = @ \/ (/\ q = "CAPTURE" /\ ~sess[s].streaming[q]
                                              /\ ShouldPollCapture(on))]
           h == [host[s] EXCEPT ![q].streaming = TRUE]
<1>1. /\ s \in Open /\ SessionOK(sess[s], host[s], stale[s], after_last[s])
      /\ stale[s] \in BOOLEAN /\ after_last[s] \in BOOLEAN
      /\ DOMAIN sess = Session /\ DOMAIN host = Session /\ DOMAIN host[s] = Queue
      /\ stale \in [Session -> BOOLEAN] /\ after_last \in [Session -> BOOLEAN]
      /\ pending \in [Session -> BOOLEAN] /\ \A r \in Queue : host[s][r] \in HostRecord(r)
  BY AliveOK DEF Streamon
<1>2. UNCHANGED <<mmap_buffers, table, panicked, pending, stale, after_last>>
  BY DEF Streamon
<1>3. sess' = [sess EXCEPT ![s] = se] /\ host' = [host EXCEPT ![s] = h]
  BY DEF Streamon
<1>4. SessionOK(se, h, stale[s], after_last[s])
  <2>1. SessionOK(sess[s], host[s], stale[s], after_last[s]) /\ stale[s] \in BOOLEAN
        /\ after_last[s] \in BOOLEAN /\ sess[s] \in V4l2Session
    BY <1>1 DEF SessionOK
  <2>2. /\ se \in V4l2Session /\ se.memory = sess[s].memory
        /\ se.userptr_buffers = sess[s].userptr_buffers /\ se.reused = sess[s].reused
        /\ se.num_queued = sess[s].num_queued /\ se.streaming[q] = TRUE
        /\ \A r \in Queue : r # q => se.streaming[r] = sess[s].streaming[r]
        /\ on.num_queued = se.num_queued /\ on.streaming = se.streaming
        /\ se.polling <=> \/ sess[s].polling
                          \/ q = "CAPTURE" /\ ~sess[s].streaming[q] /\ ShouldPollCapture(on)
    BY <2>1 DEF V4l2Session
  <2>3. /\ DOMAIN h = Queue /\ h[q] \in HostRecord(q) /\ h[q].streaming = TRUE
        /\ h[q].queued = host[s][q].queued /\ h[q].done = host[s][q].done
        /\ h[q].mem = host[s][q].mem /\ h[q].uncounted = host[s][q].uncounted
        /\ \A r \in Queue : r # q => h[r] = host[s][r]
    BY <1>1 DEF HostRecord
  <2> HIDE DEF on, se, h
  <2>4. ShouldPollCapture(on) <=> ShouldPollCapture(se)
    BY <2>2 DEF ShouldPollCapture
  <2>5. StreamonEffect(sess[s], host[s], q, se, h)
    BY <2>2, <2>3, <2>4 DEF StreamonEffect
  <2> QED BY <2>1, <2>5, StreamonOK
<1>5. Keeps(sess[s], host[s], se, h)
  <2>1. sess[s] \in V4l2Session
    BY <1>1 DEF SessionOK
  <2>2. se.memory = sess[s].memory
    BY <2>1 DEF V4l2Session
  <2>3. \A r \in Queue : h[r].n = host[s][r].n
    BY <1>1 DEF HostRecord
  <2> QED BY <2>2, <2>3 DEF Keeps
<1> HIDE DEF on, se, h
<1>6. OnlySession(s, se, h, stale[s], after_last[s])
  BY <1>1, <1>2, <1>3 DEF OnlySession
<1> QED BY <1>1, <1>2, <1>4, <1>5, <1>6, QuietStep

\* streamoff
LEMMA StreamoffInv ==
    ASSUME NEW s \in Session, NEW q \in Queue, Inv, Streamoff(s, q)
    PROVE  Inv'
<1> DEFINE se == Stopped(sess[s], q)
           n == host[s][q].n
           h == [host[s] EXCEPT ![q] = HostQueue(n)]
           st == stale[s] /\ q # "CAPTURE"
           al == after_last[s] /\ q # "CAPTURE"
<1>1. /\ s \in Open /\ SessionOK(sess[s], host[s], stale[s], after_last[s])
      /\ stale[s] \in BOOLEAN /\ after_last[s] \in BOOLEAN
      /\ DOMAIN sess = Session /\ DOMAIN host = Session /\ DOMAIN host[s] = Queue
      /\ stale \in [Session -> BOOLEAN] /\ after_last \in [Session -> BOOLEAN]
      /\ pending \in [Session -> BOOLEAN] /\ \A r \in Queue : host[s][r] \in HostRecord(r)
  BY AliveOK DEF Streamoff
<1>2. UNCHANGED <<mmap_buffers, table, panicked, pending>>
  BY DEF Streamoff
<1>3. /\ sess' = [sess EXCEPT ![s] = se] /\ host' = [host EXCEPT ![s] = h]
      /\ stale' = [stale EXCEPT ![s] = st] /\ after_last' = [after_last EXCEPT ![s] = al]
  BY DEF Streamoff, ForgetHistory
<1>4. SessionOK(se, h, st, al)
  <2>1. n \in {0} \cup Index(q)
    BY <1>1 DEF HostRecord
  <2> HIDE DEF n
  <2>2. SessionOK(sess[s], host[s], stale[s], after_last[s]) /\ stale[s] \in BOOLEAN
        /\ after_last[s] \in BOOLEAN
    BY <1>1
  <2> QED BY <2>1, <2>2, StoppedOK
<1>5. Keeps(sess[s], host[s], se, h)
  <2>1. sess[s] \in V4l2Session
    BY <1>1 DEF SessionOK
  <2>2. se.memory = sess[s].memory
    BY <2>1 DEF V4l2Session, Stopped
  <2>3. \A r \in Queue : h[r].n = host[s][r].n
    BY <1>1 DEF HostRecord, HostQueue
  <2> QED BY <2>2, <2>3 DEF Keeps
<1>6. st \in BOOLEAN /\ al \in BOOLEAN
  OBVIOUS
<1> HIDE DEF se, h, st, al
<1>7. OnlySession(s, se, h, st, al)
  BY <1>1, <1>3, <1>6 DEF OnlySession
<1> QED BY <1>1, <1>2, <1>4, <1>5, <1>6, <1>7, QuietStep

\* prepare_buf, which the host may refuse
LEMMA PrepareBufInv ==
    ASSUME NEW s \in Session, NEW q \in Queue, NEW i \in Index(q), NEW a \in Addr, Inv,
           PrepareBuf(s, q, i, a)
    PROVE  Inv'
<1> DEFINE se == RegisterUserptr(sess[s], q, i, a)
           mem == Given(sess[s], host[s][q].mem, i, a)
           c == [host[s][q] EXCEPT !.mem = mem]
           h == [host[s] EXCEPT ![q] = c]
<1>1. /\ s \in Open /\ SessionOK(sess[s], host[s], stale[s], after_last[s])
      /\ stale[s] \in BOOLEAN /\ after_last[s] \in BOOLEAN
      /\ DOMAIN sess = Session /\ DOMAIN host = Session /\ DOMAIN host[s] = Queue
      /\ stale \in [Session -> BOOLEAN] /\ after_last \in [Session -> BOOLEAN]
      /\ pending \in [Session -> BOOLEAN] /\ host[s][q] \in HostRecord(q)
  BY AliveOK DEF PrepareBuf
<1>2. UNCHANGED <<mmap_buffers, table, panicked, pending, stale, after_last>>
  BY DEF PrepareBuf
<1>3. sess' = [sess EXCEPT ![s] = se] /\ (host' = host \/ host' = [host EXCEPT ![s] = h])
  BY DEF PrepareBuf
<1>4. /\ SessionOK(se, host[s], stale[s], after_last[s]) /\ se.memory = sess[s].memory
      /\ se.memory = "USERPTR" => MemOK(se, q, <<i, a>>)
  <2>1. SessionOK(sess[s], host[s], stale[s], after_last[s]) /\ stale[s] \in BOOLEAN
        /\ after_last[s] \in BOOLEAN
    BY <1>1
  <2>2. SessionOK(se, host[s], stale[s], after_last[s])
    BY <2>1, RegisterUserptrOK
  <2>3. se.memory = sess[s].memory /\ (sess[s].memory = "USERPTR" => MemOK(se, q, <<i, a>>))
    BY <2>1, RegisterUserptrKeeps DEF SessionOK
  <2> QED BY <2>2, <2>3
<1> HIDE DEF se
<1>5. ASSUME NEW g, host' = [host EXCEPT ![s] = g]
      PROVE  OnlySession(s, se, g, stale[s], after_last[s])
  BY <1>1, <1>2, <1>3, <1>5 DEF OnlySession
<1>6. CASE host' = host
  <2>1. OnlySession(s, se, host[s], stale[s], after_last[s])
    BY <1>1, <1>2, <1>3, <1>6 DEF OnlySession
  <2>2. Keeps(sess[s], host[s], se, host[s])
    BY <1>4 DEF Keeps
  <2> QED BY <1>1, <1>2, <1>4, <2>1, <2>2, QuietStep
<1>7. CASE host' = [host EXCEPT ![s] = h]
  <2>1. OnlySession(s, se, h, stale[s], after_last[s])
    BY <1>5, <1>7
  <2>2. /\ mem = Given(se, host[s][q].mem, i, a)
        /\ host[s][q].mem \in SUBSET (Index(q) \X Addr)
        /\ \A m \in host[s][q].mem : MemOK(se, q, m)
    BY <1>1, <1>4 DEF Given, HostRecord, SessionOK, QueueOK
  <2>3. mem \in SUBSET (Index(q) \X Addr) /\ \A m \in mem : MemOK(se, q, m)
    BY <1>4, <2>2, GivenOK
  <2> HIDE DEF mem
  <2>4. /\ c \in HostRecord(q) /\ c.streaming = host[s][q].streaming /\ c.n = host[s][q].n
        /\ c.queued = host[s][q].queued /\ c.done = host[s][q].done
        /\ c.mem = mem /\ c.uncounted = host[s][q].uncounted
    BY <1>1, <2>3 DEF HostRecord
  <2>5. h[q] = c /\ \A r \in Queue : r # q => h[r] = host[s][r]
    BY <1>1
  <2> HIDE DEF c
  <2>6. SessionOK(se, h, stale[s], after_last[s])
    <3>1. Held(c) = Held(host[s][q]) /\ c.queued \cap c.done = {}
      BY <1>1, <2>4 DEF Held, SessionOK, QueueOK
    <3>2. SessionOK(se, host[s], stale[s], after_last[s]) /\ stale[s] \in BOOLEAN
          /\ after_last[s] \in BOOLEAN
      BY <1>1, <1>4
    <3>3. c \in HostRecord(q) /\ c.streaming = host[s][q].streaming
          /\ c.uncounted = host[s][q].uncounted /\ \A m \in c.mem : MemOK(se, q, m)
      BY <2>3, <2>4
    <3> QED BY <3>1, <3>2, <3>3, HostChangesOK
  <2> HIDE DEF h
  <2>7. Keeps(sess[s], host[s], se, h)
    BY <1>4, <2>4, <2>5 DEF Keeps
  <2> QED BY <1>1, <1>2, <2>1, <2>6, <2>7, QuietStep
<1> QED BY <1>3, <1>6, <1>7

\* qbuf, in each of its four ends: the guest's memory cannot be mapped, the host refuses
\* the buffer, the host takes it, or it takes it and the guest is told of a failure.
LEMMA QbufInv ==
    ASSUME NEW s \in Session, NEW q \in Queue, NEW i \in Index(q), NEW a \in Addr, Inv,
           Qbuf(s, q, i, a)
    PROVE  Inv'
<1>1. /\ s \in Open /\ SessionOK(sess[s], host[s], stale[s], after_last[s])
      /\ stale[s] \in BOOLEAN /\ after_last[s] \in BOOLEAN
      /\ DOMAIN sess = Session /\ DOMAIN host = Session
      /\ stale \in [Session -> BOOLEAN] /\ after_last \in [Session -> BOOLEAN]
      /\ pending \in [Session -> BOOLEAN]
  BY AliveOK DEF Qbuf
<1>2. UNCHANGED <<mmap_buffers, table, panicked, pending, stale, after_last>>
  BY DEF Qbuf
<1>3. PICK d \in DequeueOutputBuffers(sess[s], host[s]) :
         LET reg == RegisterUserptr(d.se, q, i, a)
             mem == Given(reg, d.h[q].mem, i, a)
         IN  \/ /\ sess' = [sess EXCEPT ![s] = d.se]
                /\ host' = [host EXCEPT ![s] = d.h]
             \/ /\ sess' = [sess EXCEPT ![s] = reg]
                /\ host' = [host EXCEPT ![s] = d.h]
             \/ /\ i \notin Held(d.h[q])
                /\ sess' = [sess EXCEPT ![s] = Queued(reg, q)]
                /\ host' = [host EXCEPT ![s] = TakenBy(d.h, q, i, mem)]
             \/ /\ i \notin Held(d.h[q])
                /\ sess' = [sess EXCEPT ![s] = reg]
                /\ host' = [host EXCEPT ![s] = LostBy(d.h, q, i, mem)]
  BY DEF Qbuf, TakenBy, LostBy
<1> DEFINE reg == RegisterUserptr(d.se, q, i, a)
           mem == Given(reg, d.h[q].mem, i, a)
<1>4. SessionOK(d.se, d.h, stale[s], after_last[s]) /\ Keeps(sess[s], host[s], d.se, d.h)
  BY <1>1, DequeueOutputBuffersOK
<1>5. ASSUME NEW se, NEW h, sess' = [sess EXCEPT ![s] = se], host' = [host EXCEPT ![s] = h]
      PROVE  OnlySession(s, se, h, stale[s], after_last[s])
  BY <1>1, <1>2, <1>5 DEF OnlySession
<1>6. CASE sess' = [sess EXCEPT ![s] = d.se] /\ host' = [host EXCEPT ![s] = d.h]
  <2>1. OnlySession(s, d.se, d.h, stale[s], after_last[s])
    BY <1>5, <1>6
  <2> QED BY <1>1, <1>2, <1>4, <2>1, QuietStep
<1>7. /\ SessionOK(reg, d.h, stale[s], after_last[s]) /\ reg.memory = d.se.memory
      /\ reg.memory = "USERPTR" => MemOK(reg, q, <<i, a>>)
  <2>1. SessionOK(reg, d.h, stale[s], after_last[s])
    BY <1>1, <1>4, RegisterUserptrOK
  <2>2. /\ reg.memory = d.se.memory
        /\ d.se.memory = "USERPTR" => MemOK(reg, q, <<i, a>>)
    BY <1>4, RegisterUserptrKeeps DEF SessionOK
  <2> QED BY <2>1, <2>2
<1> HIDE DEF reg
<1>8. /\ reg \in V4l2Session /\ DOMAIN d.h = Queue
      /\ \A r \in Queue : d.h[r] \in HostRecord(r)
  BY <1>7 DEF SessionOK, QueueOK
<1>9. mem \in SUBSET (Index(q) \X Addr) /\ \A m \in mem : MemOK(reg, q, m)
  <2>1. d.h[q].mem \in SUBSET (Index(q) \X Addr) /\ \A m \in d.h[q].mem : MemOK(reg, q, m)
    BY <1>7, <1>8 DEF HostRecord, SessionOK, QueueOK
  <2> QED BY <1>7, <2>1, GivenOK
<1> HIDE DEF mem
<1>10. CASE sess' = [sess EXCEPT ![s] = reg] /\ host' = [host EXCEPT ![s] = d.h]
  <2>1. OnlySession(s, reg, d.h, stale[s], after_last[s])
    BY <1>5, <1>10
  <2>2. Keeps(sess[s], host[s], reg, d.h)
    BY <1>4, <1>7 DEF Keeps
  <2> QED BY <1>1, <1>2, <1>7, <2>1, <2>2, QuietStep
<1> DEFINE dh == d.h
           isStale == stale[s]
           isAfter == after_last[s]
<1>11. /\ SessionOK(reg, dh, isStale, isAfter) /\ isStale \in BOOLEAN /\ isAfter \in BOOLEAN
       /\ \A r \in Queue : /\ TakenBy(dh, q, i, mem)[r].n = dh[r].n
                            /\ LostBy(dh, q, i, mem)[r].n = dh[r].n
  <2>1. \A r \in Queue : TakenBy(dh, q, i, mem)[r].n = dh[r].n
    BY <1>8 DEF HostRecord, TakenBy
  <2>2. \A r \in Queue : LostBy(dh, q, i, mem)[r].n = dh[r].n
    BY <1>8 DEF HostRecord, LostBy
  <2> QED BY <1>1, <1>7, <2>1, <2>2
<1>12. CASE /\ i \notin Held(dh[q])
            /\ sess' = [sess EXCEPT ![s] = Queued(reg, q)]
            /\ host' = [host EXCEPT ![s] = TakenBy(dh, q, i, mem)]
  <2> DEFINE se == Queued(reg, q)
             h == TakenBy(dh, q, i, mem)
  <2>1. OnlySession(s, se, h, stale[s], after_last[s])
    BY <1>5, <1>12
  <2>2. SessionOK(se, h, isStale, isAfter)
    <3> HIDE DEF dh, isStale, isAfter
    <3> QED BY <1>9, <1>11, <1>12, QueuedOK
  <2>3. Keeps(sess[s], host[s], se, h)
    <3>1. se.memory = reg.memory
      BY <1>8 DEF V4l2Session, Queued
    <3> HIDE DEF se
    <3> QED BY <1>4, <1>7, <1>11, <3>1 DEF Keeps
  <2> HIDE DEF se, h
  <2> QED BY <1>1, <1>2, <2>1, <2>2, <2>3, QuietStep
<1>13. CASE /\ i \notin Held(dh[q])
            /\ sess' = [sess EXCEPT ![s] = reg]
            /\ host' = [host EXCEPT ![s] = LostBy(dh, q, i, mem)]
  <2> DEFINE h == LostBy(dh, q, i, mem)
  <2>1. OnlySession(s, reg, h, stale[s], after_last[s])
    BY <1>5, <1>13
  <2>2. SessionOK(reg, h, isStale, isAfter)
    <3> HIDE DEF dh, isStale, isAfter
    <3> QED BY <1>9, <1>11, <1>13, UncountedOK
  <2>3. Keeps(sess[s], host[s], reg, h)
    <3> QED BY <1>4, <1>7, <1>11 DEF Keeps
  <2> HIDE DEF h
  <2> QED BY <1>1, <1>2, <2>1, <2>2, <2>3, QuietStep
<1> QED BY <1>3, <1>6, <1>10, <1>12, <1>13 DEF reg, mem

\* process_events
LEMMA ProcessEventsInv == ASSUME NEW s \in Session, Inv, ProcessEvents(s) PROVE Inv'
<1>1. /\ s \in Open /\ SessionOK(sess[s], host[s], stale[s], after_last[s])
      /\ stale[s] \in BOOLEAN /\ after_last[s] \in BOOLEAN
      /\ DOMAIN sess = Session /\ DOMAIN host = Session
      /\ stale \in [Session -> BOOLEAN] /\ after_last \in [Session -> BOOLEAN]
      /\ pending \in [Session -> BOOLEAN]
  BY AliveOK DEF ProcessEvents
<1>2. UNCHANGED <<mmap_buffers, table, panicked, stale>>
  BY DEF ProcessEvents
<1>3. PICK evs \in SUBSET Ready(s) \ {{}} :
         /\ \E d \in IF "CaptureReady" \in evs THEN OnCaptureReady(sess[s], host[s])
                     ELSE {[se |-> sess[s], h |-> host[s]]} :
               /\ sess' = [sess EXCEPT ![s] = d.se]
               /\ host' = [host EXCEPT ![s] = d.h]
         /\ pending' = [pending EXCEPT ![s] = @ /\ "V4L2Event" \notin evs]
  BY DEF ProcessEvents
<1>4. PICK d \in IF "CaptureReady" \in evs THEN OnCaptureReady(sess[s], host[s])
                 ELSE {[se |-> sess[s], h |-> host[s]]} :
         sess' = [sess EXCEPT ![s] = d.se] /\ host' = [host EXCEPT ![s] = d.h]
  BY <1>3
<1> DEFINE left == /\ host[s]["CAPTURE"].last # 0 /\ d.h["CAPTURE"].last = 0
                   /\ d.se.num_queued["CAPTURE"] > 0
           al == after_last[s] \/ left
<1>5. SessionOK(d.se, d.h, stale[s], al) /\ Keeps(sess[s], host[s], d.se, d.h)
  <2>1. CASE "CaptureReady" \in evs
    <3>1. sess[s].polling
      BY <1>3, <2>1 DEF Ready
    <3> QED BY <1>1, <1>4, <2>1, <3>1, OnCaptureReadyOK
  <2>2. CASE "CaptureReady" \notin evs
    <3>1. d.se = sess[s] /\ d.h = host[s]
      BY <1>4, <2>2
    <3>2. al = after_last[s]
      BY <1>1, <3>1
    <3> HIDE DEF al
    <3> QED BY <1>1, <3>1, <3>2 DEF Keeps
  <2> QED BY <2>1, <2>2
<1>6. pending' \in [Session -> BOOLEAN]
  BY <1>1, <1>3
<1>7. sess'[s] = d.se /\ host'[s] = d.h
  BY <1>1, <1>4
<1>8. after_last' = [after_last EXCEPT ![s] = al]
  BY <1>7 DEF ProcessEvents
<1>9. al \in BOOLEAN
  OBVIOUS
<1> HIDE DEF al
<1>10. OnlySession(s, d.se, d.h, stale[s], al)
  BY <1>1, <1>2, <1>4, <1>8, <1>9 DEF OnlySession
<1> QED BY <1>1, <1>2, <1>5, <1>6, <1>9, <1>10, QuietStep

-----------------------------------------------------------------------------
(* The steps that register or unregister offsets.                          *)

\* unregister_buffer, for the buffers in pages
LEMMA PagesUnregistered ==
    ASSUME NEW t, NEW M, NEW pages, \A p \in DOMAIN t : t[p] \in TableEntry(M)
    PROVE  LET u == UnregisterPages(t, pages)
           IN  /\ \A p \in DOMAIN u : u[p] \in TableEntry(M)
               /\ RegisteredPages(u) = RegisteredPages(t) \ pages
<1> DEFINE u == UnregisterPages(t, pages)
<1>1. /\ DOMAIN u = {q \in DOMAIN t : q \notin pages \/ t[q].maps > 0}
      /\ \A p \in DOMAIN u : u[p] = [t[p] EXCEPT !.registered = @ /\ p \notin pages]
  BY DEF UnregisterPages
<1> HIDE DEF u
<1>2. ASSUME NEW p \in DOMAIN t
      PROVE  /\ [t[p] EXCEPT !.registered = @ /\ p \notin pages] \in TableEntry(M)
             /\ [t[p] EXCEPT !.registered = @ /\ p \notin pages].registered
                   <=> t[p].registered /\ p \notin pages
  <2>1. t[p] \in TableEntry(M)
    OBVIOUS
  <2> QED BY <2>1 DEF TableEntry
<1>3. \A p \in DOMAIN u : u[p] \in TableEntry(M)
  BY <1>1, <1>2
<1>4. RegisteredPages(u) = RegisteredPages(t) \ pages
  BY <1>1, <1>2 DEF RegisteredPages
<1> QED BY <1>3, <1>4 DEF u

\* register_buffer, for the buffers in pages
LEMMA PagesRegistered ==
    ASSUME NEW t, NEW M, NEW pages, NEW nothing \in M,
           \A p \in DOMAIN t : t[p] \in TableEntry(M)
    PROVE  LET u == RegisterPages(t, pages, nothing)
           IN  /\ \A p \in DOMAIN u : u[p] \in TableEntry(M)
               /\ RegisteredPages(u) = RegisteredPages(t) \cup pages
<1> DEFINE u == RegisterPages(t, pages, nothing)
<1>1. /\ DOMAIN u = DOMAIN t \cup pages
      /\ \A p \in DOMAIN u :
            u[p] = IF p \in pages THEN [registered |-> TRUE, maps |-> 0, mem |-> nothing]
                   ELSE t[p]
  BY DEF RegisterPages
<1> HIDE DEF u
<1>2. /\ [registered |-> TRUE, maps |-> 0, mem |-> nothing] \in TableEntry(M)
      /\ [registered |-> TRUE, maps |-> 0, mem |-> nothing].registered = TRUE
  BY DEF TableEntry
<1>3. \A p \in DOMAIN u : u[p] \in TableEntry(M)
  BY <1>1, <1>2
<1>4. RegisteredPages(u) = RegisteredPages(t) \cup pages
  BY <1>1, <1>2 DEF RegisteredPages
<1> QED BY <1>3, <1>4 DEF u

\* The host gives two buffers the same offset only if they are the same.
LEMMA OffsetInjective ==
    ASSUME NEW q \in Queue, NEW i \in Index(q), NEW r \in Queue, NEW j \in Index(r),
           Offset(q, i) = Offset(r, j)
    PROVE  q = r /\ i = j
<1>1. MaxOutput \in Nat /\ MaxCapture \in Nat
  BY ProxyDeviceAssumption
<1>2. CASE q = "CAPTURE" /\ r = "CAPTURE"
  BY <1>1, <1>2 DEF Offset, Index
<1>3. CASE q = "OUTPUT" /\ r = "OUTPUT"
  BY <1>1, <1>3 DEF Offset, Index
<1>4. CASE q = "CAPTURE" /\ r = "OUTPUT"
  BY <1>1, <1>4 DEF Offset, Index
<1>5. CASE q = "OUTPUT" /\ r = "CAPTURE"
  BY <1>1, <1>5 DEF Offset, Index
<1> QED BY <1>2, <1>3, <1>4, <1>5 DEF Queue

\* new_session
LEMMA OpenSessionInv ==
    ASSUME NEW s \in Session, NEW mem \in Memory, Inv, OpenSession(s, mem)
    PROVE  Inv'
<1> DEFINE h == [q \in Queue |-> HostQueue(0)]
<1>1. /\ DOMAIN sess = Session /\ DOMAIN host = Session /\ s \notin Open
      /\ ~stale[s] /\ ~after_last[s] /\ stale[s] \in BOOLEAN /\ after_last[s] \in BOOLEAN
      /\ IsFiniteSet(Open) /\ Cardinality(Open) < MaxOpen /\ panicked = None
  BY DEF OpenSession, Inv, TypeOK, FewOpen, Open, SessionsOK
<1>2. /\ sess' = [sess EXCEPT ![s] = NewSession(mem)] /\ host' = [host EXCEPT ![s] = h]
      /\ UNCHANGED <<mmap_buffers, table, panicked, pending, stale, after_last>>
  BY DEF OpenSession
<1>3. SessionOK(NewSession(mem), h, FALSE, FALSE) /\ NewSession(mem) # None
  BY NewSessionOK, SessionIsOpen
<1>4. \A q \in Queue : h[q].n = 0
  BY DEF HostQueue
<1> HIDE DEF h
<1>5. /\ DOMAIN sess' = Session /\ DOMAIN host' = Session
      /\ sess'[s] = NewSession(mem) /\ host'[s] = h
      /\ \A r \in Session : r # s => sess'[r] = sess[r] /\ host'[r] = host[r]
  BY <1>1, <1>2
<1>6. Open' = Open \cup {s}
  BY <1>3, <1>5 DEF Open
<1>7. TypeOK'
  BY <1>2, <1>5 DEF Inv, TypeOK
<1>8. SessionsOK'
  <2> SUFFICES ASSUME NEW r \in Session
               PROVE  IF r \in Open'
                      THEN SessionOK(sess'[r], host'[r], stale'[r], after_last'[r])
                      ELSE ~stale'[r] /\ ~after_last'[r]
    BY DEF SessionsOK
  <2>1. CASE r = s
    <3>1. stale'[r] = FALSE /\ after_last'[r] = FALSE
      BY <1>1, <1>2, <2>1
    <3> QED BY <1>3, <1>5, <1>6, <2>1, <3>1
  <2>2. CASE r # s
    BY <1>2, <1>5, <1>6, <2>2 DEF Inv, SessionsOK
  <2> QED BY <2>1, <2>2
<1>9. FewOpen'
  <2>1. /\ IsFiniteSet(Open \cup {s}) /\ Cardinality(Open \cup {s}) = Cardinality(Open) + 1
        /\ Cardinality(Open) \in Nat
    BY <1>1, FS_AddElement, FS_CardinalityType
  <2> QED BY <1>1, <1>6, <2>1, ProxyDeviceAssumption DEF FewOpen
<1>10. OffsetsOK'
  <2>1. RegisteredPages(table)' = DOMAIN mmap_buffers'
    BY <1>1, <1>2 DEF Inv, OffsetsOK, RegisteredPages
  <2>2. ASSUME NEW o \in DOMAIN mmap_buffers'
        PROVE  LET b == mmap_buffers'[o]
               IN  /\ b.session \in Open' /\ b.queue \in Queue /\ o = Offset(b.queue, b.index)
                   /\ sess'[b.session].memory = "MMAP"
                   /\ b.index \in 1 .. host'[b.session][b.queue].n
    <3> DEFINE b == mmap_buffers[o]
    <3>1. /\ b.session \in Open /\ b.queue \in Queue /\ o = Offset(b.queue, b.index)
          /\ sess[b.session].memory = "MMAP"
          /\ b.index \in 1 .. host[b.session][b.queue].n
      BY <1>1, <1>2 DEF Inv, OffsetsOK
    <3>2. b.session \in Session /\ b.session # s
      BY <1>1, <3>1 DEF Open
    <3> QED BY <1>2, <1>5, <1>6, <3>1, <3>2
  <2>3. ASSUME NEW r \in Open', sess'[r].memory = "MMAP", NEW q \in Queue,
               NEW i \in 1 .. host'[r][q].n
        PROVE  /\ Offset(q, i) \in DOMAIN mmap_buffers'
               /\ mmap_buffers'[Offset(q, i)] = [session |-> r, queue |-> q, index |-> i]
    <3>1. r # s
      BY <1>4, <1>5, <2>3
    <3>2. r \in Open /\ sess'[r] = sess[r] /\ host'[r] = host[r]
      BY <1>5, <1>6, <3>1 DEF Open
    <3> QED BY <1>1, <1>2, <2>3, <3>2 DEF Inv, OffsetsOK
  <2> QED BY <2>1, <2>2, <2>3 DEF OffsetsOK, Offset
<1> QED BY <1>7, <1>8, <1>9, <1>10 DEF Inv

\* close_session: with the session go its buffers, and no others.
LEMMA CloseSessionInv == ASSUME NEW s \in Session, Inv, CloseSession(s) PROVE Inv'
<1> DEFINE gone == {o \in DOMAIN mmap_buffers : mmap_buffers[o].session = s}
<1>1. /\ s \in Open /\ DOMAIN sess = Session /\ DOMAIN host = Session /\ panicked = None
      /\ stale \in [Session -> BOOLEAN] /\ after_last \in [Session -> BOOLEAN]
      /\ pending \in [Session -> BOOLEAN]
      /\ \A p \in DOMAIN table : table[p] \in TableEntry(Session \cup {None})
  BY AliveOK DEF CloseSession, Inv, TypeOK
<1>2. /\ table' = UnregisterPages(table, gone)
      /\ mmap_buffers' = Restrict(mmap_buffers, DOMAIN mmap_buffers \ gone)
      /\ sess' = [sess EXCEPT ![s] = None] /\ host' = [host EXCEPT ![s] = None]
      /\ pending' = [pending EXCEPT ![s] = FALSE] /\ stale' = [stale EXCEPT ![s] = FALSE]
      /\ after_last' = [after_last EXCEPT ![s] = FALSE] /\ panicked' = panicked
  BY DEF CloseSession
<1>3. /\ DOMAIN sess' = Session /\ DOMAIN host' = Session
      /\ sess'[s] = None /\ stale'[s] = FALSE /\ after_last'[s] = FALSE
      /\ \A r \in Session : r # s => /\ sess'[r] = sess[r] /\ host'[r] = host[r]
                                     /\ stale'[r] = stale[r] /\ after_last'[r] = after_last[r]
      /\ stale' \in [Session -> BOOLEAN] /\ after_last' \in [Session -> BOOLEAN]
      /\ pending' \in [Session -> BOOLEAN]
  BY <1>1, <1>2
<1>4. Open' = Open \ {s}
  BY <1>3 DEF Open
<1>5. /\ \A p \in DOMAIN table' : table'[p] \in TableEntry(Session \cup {None})
      /\ RegisteredPages(table') = RegisteredPages(table) \ gone
  <2> HIDE DEF gone
  <2> QED BY <1>1, <1>2, PagesUnregistered
<1>6. /\ DOMAIN mmap_buffers' = DOMAIN mmap_buffers \ gone
      /\ \A o \in DOMAIN mmap_buffers' : mmap_buffers'[o] = mmap_buffers[o]
  <2> HIDE DEF gone
  <2> QED BY <1>2 DEF Restrict
<1>7. TypeOK'
  BY <1>1, <1>2, <1>3, <1>5 DEF TypeOK
<1>8. SessionsOK'
  BY <1>3, <1>4 DEF Inv, SessionsOK
<1>9. FewOpen'
  <2>1. IsFiniteSet(Open) /\ Cardinality(Open) <= MaxOpen /\ MaxOpen \in Nat
    BY ProxyDeviceAssumption DEF Inv, FewOpen
  <2>2. IsFiniteSet(Open \ {s}) /\ Cardinality(Open \ {s}) = Cardinality(Open) - 1
        /\ Cardinality(Open) \in Nat
    BY <1>1, <2>1, FS_RemoveElement, FS_CardinalityType
  <2> QED BY <1>4, <2>1, <2>2 DEF FewOpen
<1>10. OffsetsOK'
  <2>1. RegisteredPages(table)' = DOMAIN mmap_buffers'
    BY <1>1, <1>5, <1>6 DEF Inv, OffsetsOK, RegisteredPages
  <2>2. ASSUME NEW o \in DOMAIN mmap_buffers'
        PROVE  LET b == mmap_buffers'[o]
               IN  /\ b.session \in Open' /\ b.queue \in Queue /\ o = Offset(b.queue, b.index)
                   /\ sess'[b.session].memory = "MMAP"
                   /\ b.index \in 1 .. host'[b.session][b.queue].n
    <3> DEFINE b == mmap_buffers[o]
    <3>1. /\ o \in DOMAIN mmap_buffers /\ b.session # s /\ mmap_buffers'[o] = b
      BY <1>6
    <3>2. /\ b.session \in Open /\ b.queue \in Queue /\ o = Offset(b.queue, b.index)
          /\ sess[b.session].memory = "MMAP"
          /\ b.index \in 1 .. host[b.session][b.queue].n
      BY <1>1, <3>1 DEF Inv, OffsetsOK
    <3>3. b.session \in Session
      BY <3>2 DEF Open
    <3> QED BY <1>3, <1>4, <3>1, <3>2, <3>3
  <2>3. ASSUME NEW r \in Open', sess'[r].memory = "MMAP", NEW q \in Queue,
               NEW i \in 1 .. host'[r][q].n
        PROVE  /\ Offset(q, i) \in DOMAIN mmap_buffers'
               /\ mmap_buffers'[Offset(q, i)] = [session |-> r, queue |-> q, index |-> i]
    <3>1. r \in Open /\ r # s /\ sess'[r] = sess[r] /\ host'[r] = host[r]
      BY <1>3, <1>4 DEF Open
    <3>2. /\ Offset(q, i) \in DOMAIN mmap_buffers
          /\ mmap_buffers[Offset(q, i)] = [session |-> r, queue |-> q, index |-> i]
      BY <1>1, <2>3, <3>1 DEF Inv, OffsetsOK
    <3> QED BY <1>6, <3>1, <3>2
  <2> QED BY <2>1, <2>2, <2>3 DEF OffsetsOK, Offset
<1> QED BY <1>7, <1>8, <1>9, <1>10 DEF Inv

\* The end of the device.
LEMMA ExtCtrlsInv == ASSUME NEW s \in Session, Inv, ExtCtrls(s) PROVE Inv'
<1>1. /\ Open' = {} /\ panicked' = "payload" /\ DOMAIN table' = {}
      /\ DOMAIN sess' = Session /\ DOMAIN host' = Session
      /\ pending' \in [Session -> BOOLEAN] /\ stale' \in [Session -> BOOLEAN]
      /\ after_last' \in [Session -> BOOLEAN]
      /\ \A r \in Session : stale'[r] = FALSE /\ after_last'[r] = FALSE
  BY DEF ExtCtrls, Open
<1>2. TypeOK' /\ SessionsOK'
  BY <1>1 DEF TypeOK, SessionsOK
<1>3. FewOpen'
  BY <1>1, FS_EmptySet, ProxyDeviceAssumption DEF FewOpen
<1>4. OffsetsOK'
  BY <1>1, ProxyDeviceAssumption DEF OffsetsOK
<1> QED BY <1>2, <1>3, <1>4 DEF Inv

\* A step of the table that registers and unregisters nothing.
LEMMA TableInv ==
    ASSUME Inv, panicked = None, RegisteredPages(table') = RegisteredPages(table),
           \A p \in DOMAIN table' : table'[p] \in TableEntry(Session \cup {None}),
           UNCHANGED <<sess, mmap_buffers, panicked, host, pending, stale, after_last>>
    PROVE  Inv'
<1>1. Open' = Open
  BY DEF Open
<1>2. TypeOK' /\ SessionsOK' /\ FewOpen'
  BY <1>1 DEF Inv, TypeOK, SessionsOK, FewOpen
<1>3. OffsetsOK'
  BY <1>1, OffsetsKept DEF Inv, Keeps
<1> QED BY <1>2, <1>3 DEF Inv

\* do_mmap
LEMMA DoMmapInv == ASSUME NEW s \in Session, NEW o, Inv, DoMmap(s, o) PROVE Inv'
<1>1. /\ panicked = None /\ o \in DOMAIN table
      /\ table' = MapPage(table, o, s)
      /\ UNCHANGED <<sess, mmap_buffers, panicked, host, pending, stale, after_last>>
      /\ \A p \in DOMAIN table : table[p] \in TableEntry(Session \cup {None})
  BY AliveOK DEF DoMmap, CanMap, Inv, TypeOK
<1>2. /\ DOMAIN table' = DOMAIN table
      /\ \A p \in DOMAIN table : p # o => table'[p] = table[p]
      /\ table'[o] = [table[o] EXCEPT !.maps = @ + 1,
                                      !.mem = IF table[o].maps = 0 THEN s ELSE @]
  BY <1>1 DEF MapPage
<1>3. /\ table'[o] \in TableEntry(Session \cup {None})
      /\ table'[o].registered = table[o].registered
  <2>1. table[o] \in TableEntry(Session \cup {None})
    BY <1>1
  <2>2. /\ table[o].maps + 1 \in Nat
        /\ (IF table[o].maps = 0 THEN s ELSE table[o].mem) \in Session \cup {None}
    BY <2>1 DEF TableEntry
  <2> QED BY <1>2, <2>1, <2>2 DEF TableEntry
<1>4. RegisteredPages(table') = RegisteredPages(table)
  BY <1>2, <1>3 DEF RegisteredPages
<1> QED BY <1>1, <1>2, <1>3, <1>4, TableInv

\* do_munmap
LEMMA DoMunmapInv == ASSUME NEW o, Inv, DoMunmap(o) PROVE Inv'
<1>1. /\ panicked = None /\ o \in DOMAIN table /\ table[o].maps > 0
      /\ table' = UnmapPage(table, o)
      /\ UNCHANGED <<sess, mmap_buffers, panicked, host, pending, stale, after_last>>
      /\ \A p \in DOMAIN table : table[p] \in TableEntry(Session \cup {None})
  BY DEF DoMunmap, MappedPages, Inv, TypeOK
<1>2. CASE table[o].maps = 1 /\ ~table[o].registered
  <2>1. /\ DOMAIN table' = DOMAIN table \ {o}
        /\ \A p \in DOMAIN table' : table'[p] = table[p]
    BY <1>1, <1>2 DEF UnmapPage, Restrict
  <2>2. RegisteredPages(table') = RegisteredPages(table)
    BY <1>2, <2>1 DEF RegisteredPages
  <2> QED BY <1>1, <2>1, <2>2, TableInv
<1>3. CASE ~(table[o].maps = 1 /\ ~table[o].registered)
  <2>1. /\ DOMAIN table' = DOMAIN table
        /\ \A p \in DOMAIN table : p # o => table'[p] = table[p]
        /\ table'[o] = [table[o] EXCEPT !.maps = @ - 1]
    BY <1>1, <1>3 DEF UnmapPage
  <2>2. /\ table'[o] \in TableEntry(Session \cup {None})
        /\ table'[o].registered = table[o].registered
    <3>1. table[o] \in TableEntry(Session \cup {None}) /\ table[o].maps > 0
      BY <1>1
    <3>2. table[o].maps - 1 \in Nat
      BY <3>1 DEF TableEntry
    <3> QED BY <2>1, <3>1, <3>2 DEF TableEntry
  <2>3. RegisteredPages(table') = RegisteredPages(table)
    BY <2>1, <2>2 DEF RegisteredPages
  <2> QED BY <1>1, <2>1, <2>2, <2>3, TableInv
<1> QED BY <1>2, <1>3

\* A step of session s gives queue q n buffers from first on, or none at all: it then has
\* m buffers.
BuffersUpdated(s, q, first, n, m) ==
    /\ panicked = None /\ UpdateMmapOffsets(s, q, first, n) /\ Open' = Open
    /\ n \in {0} \cup Index(q) /\ m \in {0} \cup Index(q) /\ first \in 1 .. host[s][q].n + 1
    /\ m = IF n = 0 THEN 0 ELSE first + n - 1
    /\ \A r \in Open : sess'[r].memory = sess[r].memory
    /\ \A r \in Open, p \in Queue :
          host'[r][p].n = IF r = s /\ p = q THEN m ELSE host[r][p].n
    /\ \A r \in Open, p \in Queue : host[r][p].n \in {0} \cup Index(p)

\* update_mmap_offsets gives queue q the buffers from first on, or none: every other
\* buffer keeps its entry.
LEMMA OffsetsUpdated ==
    ASSUME Inv, NEW s \in Open, NEW q \in Queue, NEW n, NEW first, NEW m,
           BuffersUpdated(s, q, first, n, m)
    PROVE  /\ OffsetsOK'
           /\ \A p \in DOMAIN table' : table'[p] \in TableEntry(Session \cup {None})
           /\ panicked' \in {None, "offset"}
<1> DEFINE gone == {o \in DOMAIN mmap_buffers :
                       /\ mmap_buffers[o].session = s /\ mmap_buffers[o].queue = q
                       /\ n = 0 \/ mmap_buffers[o].index >= first}
           t == UnregisterPages(table, gone)
           kept == Restrict(mmap_buffers, DOMAIN mmap_buffers \ gone)
           new == IF sess[s].memory = "MMAP" THEN first .. first + n - 1 ELSE {}
           offsets == {Offset(q, i) : i \in new}
<1> USE DEF BuffersUpdated
<1>1. /\ \A p \in Queue : Index(p) \subseteq Nat \ {0}
      /\ \A p \in Queue : \A j \in {0} \cup Index(p) : 1 .. j \subseteq Index(p)
  BY ProxyDeviceAssumption DEF Index
<1>2. n \in Nat /\ m \in Nat /\ first \in Nat \ {0} /\ host[s][q].n \in Nat
  BY <1>1
<1>3. new \subseteq 1 .. m /\ new \subseteq Index(q)
  BY <1>1, <1>2
<1>4. /\ \A p \in DOMAIN t : t[p] \in TableEntry(Session \cup {None})
      /\ RegisteredPages(t) = RegisteredPages(table) \ gone
  <2>1. \A p \in DOMAIN table : table[p] \in TableEntry(Session \cup {None})
    BY DEF Inv, TypeOK
  <2> HIDE DEF gone
  <2> QED BY <2>1, PagesUnregistered
<1>5. /\ DOMAIN kept = DOMAIN mmap_buffers \ gone
      /\ \A o \in DOMAIN kept : kept[o] = mmap_buffers[o]
  <2> HIDE DEF gone
  <2> QED BY DEF Restrict
<1>6. RegisterOffsets(s, q, t, kept, new)
  BY DEF UpdateMmapOffsets
<1>7. RegisteredPages(table) = DOMAIN mmap_buffers
  BY DEF Inv, OffsetsOK
<1>8. ASSUME NEW o \in DOMAIN mmap_buffers
      PROVE  LET b == mmap_buffers[o]
             IN  /\ b.session \in Open /\ b.queue \in Queue /\ o = Offset(b.queue, b.index)
                 /\ sess[b.session].memory = "MMAP"
                 /\ b.index \in 1 .. host[b.session][b.queue].n
                 /\ b.index \in Index(b.queue)
  BY <1>1 DEF Inv, OffsetsOK
<1>9. \A o \in DOMAIN mmap_buffers \ gone : o \in DOMAIN t
  BY <1>4, <1>7 DEF RegisteredPages
<1>10. \A i, j \in new : Offset(q, i) = Offset(q, j) => i = j
  BY <1>3, OffsetInjective
<1>11. \A o \in gone : mmap_buffers[o].session = s /\ mmap_buffers[o].queue = q
                       /\ (n = 0 \/ mmap_buffers[o].index >= first)
  OBVIOUS
<1>12. \A o \in DOMAIN mmap_buffers \ gone :
          \/ mmap_buffers[o].session # s \/ mmap_buffers[o].queue # q
          \/ n # 0 /\ ~(mmap_buffers[o].index >= first)
  OBVIOUS
<1>13. new # {} => n # 0 /\ sess[s].memory = "MMAP"
  BY <1>2
<1>14. \A i \in 1 .. m : sess[s].memory = "MMAP" => n # 0 /\ (i < first \/ i \in new)
  BY <1>2
<1> HIDE DEF gone, t, kept, new
<1>15. CASE \A i \in new : CanRegister(t, Offset(q, i))
  <2>1. /\ table' = RegisterPages(t, offsets, None)
        /\ mmap_buffers' = [o \in DOMAIN kept \cup offsets |->
              IF o \in offsets
              THEN [session |-> s, queue |-> q, index |-> CHOOSE i \in new : Offset(q, i) = o]
              ELSE kept[o]]
        /\ panicked' = None
    BY <1>6, <1>15 DEF RegisterOffsets
  <2>2. /\ DOMAIN mmap_buffers' = (DOMAIN mmap_buffers \ gone) \cup offsets
        /\ \A o \in DOMAIN mmap_buffers \ gone : o \notin offsets
        /\ \A o \in DOMAIN mmap_buffers \ gone : mmap_buffers'[o] = mmap_buffers[o]
    <3>1. \A o \in offsets : o \notin DOMAIN t
      BY <1>15 DEF CanRegister
    <3> HIDE DEF offsets
    <3> QED BY <1>5, <1>9, <2>1, <3>1
  <2>3. ASSUME NEW i \in new
        PROVE  /\ Offset(q, i) \in offsets
               /\ mmap_buffers'[Offset(q, i)] = [session |-> s, queue |-> q, index |-> i]
    <3>1. Offset(q, i) \in offsets
      OBVIOUS
    <3>2. (CHOOSE j \in new : Offset(q, j) = Offset(q, i)) = i
      BY <1>10
    <3> HIDE DEF offsets
    <3> QED BY <2>1, <3>1, <3>2
  <2>4. \A o \in offsets : \E i \in new : o = Offset(q, i)
    OBVIOUS
  <2> HIDE DEF offsets
  <2>5. /\ \A p \in DOMAIN table' : table'[p] \in TableEntry(Session \cup {None})
        /\ RegisteredPages(table') = RegisteredPages(t) \cup offsets
    <3>1. None \in Session \cup {None}
      OBVIOUS
    <3> QED BY <1>4, <2>1, <3>1, PagesRegistered
  <2>6. RegisteredPages(table)' = DOMAIN mmap_buffers'
    BY <1>4, <1>7, <2>2, <2>5 DEF RegisteredPages
  <2>7. ASSUME NEW o \in DOMAIN mmap_buffers'
        PROVE  LET b == mmap_buffers'[o]
               IN  /\ b.session \in Open' /\ b.queue \in Queue /\ o = Offset(b.queue, b.index)
                   /\ sess'[b.session].memory = "MMAP"
                   /\ b.index \in 1 .. host'[b.session][b.queue].n
    <3>1. CASE o \in offsets
      <4>1. PICK i \in new : o = Offset(q, i)
        BY <2>4, <3>1
      <4>2. mmap_buffers'[o] = [session |-> s, queue |-> q, index |-> i]
        BY <2>3, <4>1
      <4>3. host'[s][q].n = m /\ sess'[s].memory = "MMAP" /\ i \in 1 .. m
        BY <1>3, <1>13
      <4> QED BY <4>1, <4>2, <4>3
    <3>2. CASE o \in DOMAIN mmap_buffers \ gone
      <4> DEFINE b == mmap_buffers[o]
      <4>1. /\ b.session \in Open /\ b.queue \in Queue /\ o = Offset(b.queue, b.index)
            /\ sess[b.session].memory = "MMAP"
            /\ b.index \in 1 .. host[b.session][b.queue].n
        BY <1>8, <3>2
      <4>2. mmap_buffers'[o] = b
        BY <2>2, <3>2
      <4>3. \/ b.session # s
            \/ b.queue # q
            \/ (n # 0 /\ ~(b.index >= first))
        BY <1>12, <3>2
      <4> HIDE DEF b
      <4>4. CASE b.session # s \/ b.queue # q
        <5>1. host'[b.session][b.queue].n = host[b.session][b.queue].n
          BY <4>1, <4>4
        <5> QED BY <4>1, <4>2, <5>1
      <4>5. CASE b.session = s /\ b.queue = q /\ n # 0 /\ ~(b.index >= first)
        <5>1. host'[b.session][b.queue].n = m /\ m = first + n - 1
          BY <4>5
        <5>2. b.index \in 1 .. m
          BY <1>2, <4>1, <4>5, <5>1
        <5> QED BY <4>1, <4>2, <5>1, <5>2
      <4> QED BY <4>3, <4>4, <4>5
    <3> QED BY <2>2, <3>1, <3>2
  <2>8. ASSUME NEW r \in Open', sess'[r].memory = "MMAP", NEW p \in Queue,
               NEW i \in 1 .. host'[r][p].n
        PROVE  /\ Offset(p, i) \in DOMAIN mmap_buffers'
               /\ mmap_buffers'[Offset(p, i)] = [session |-> r, queue |-> p, index |-> i]
    <3>1. r \in Open /\ sess[r].memory = "MMAP"
      BY <2>8
    <3>2. CASE r = s /\ p = q /\ i \in new
      BY <2>2, <2>3, <3>2
    <3>3. CASE ~(r = s /\ p = q /\ i \in new)
      <4>1. i \in 1 .. host[r][p].n /\ (r = s /\ p = q => n # 0 /\ i < first)
        <5>1. CASE r = s /\ p = q
          <6>1. i \in 1 .. m
            BY <5>1
          <6>2. n # 0 /\ i < first
            BY <1>14, <3>1, <3>3, <5>1, <6>1
          <6>3. i \in 1 .. host[s][q].n
            BY <1>2, <6>1, <6>2
          <6> QED BY <5>1, <6>2, <6>3
        <5>2. CASE ~(r = s /\ p = q)
          BY <3>1, <5>2
        <5> QED BY <5>1, <5>2
      <4>2. /\ Offset(p, i) \in DOMAIN mmap_buffers
            /\ mmap_buffers[Offset(p, i)] = [session |-> r, queue |-> p, index |-> i]
        BY <3>1, <4>1 DEF Inv, OffsetsOK
      <4>3. Offset(p, i) \notin gone
        <5>1. /\ mmap_buffers[Offset(p, i)].session = r
              /\ mmap_buffers[Offset(p, i)].queue = p
              /\ mmap_buffers[Offset(p, i)].index = i
          BY <4>2
        <5>2. i \in Nat
          BY <4>1
        <5>3. i < first => ~(i >= first)
          BY <1>2, <5>2
        <5> QED BY <1>11, <4>1, <5>1, <5>3
      <4> QED BY <2>2, <4>2, <4>3
    <3> QED BY <3>2, <3>3
  <2>9. OffsetsOK'
    BY <2>6, <2>7, <2>8 DEF OffsetsOK, Offset
  <2> QED BY <2>1, <2>5, <2>9
<1>16. CASE ~(\A i \in new : CanRegister(t, Offset(q, i)))
  <2>1. panicked' = "offset" /\ table' = t
    BY <1>6, <1>16 DEF RegisterOffsets
  <2>2. OffsetsOK'
    BY <2>1, ProxyDeviceAssumption DEF OffsetsOK
  <2> QED BY <1>4, <2>1, <2>2
<1> QED BY <1>15, <1>16

\* reqbufs
LEMMA ReqbufsInv ==
    ASSUME NEW s \in Session, NEW q \in Queue, NEW n \in {0} \cup Index(q), Inv,
           Reqbufs(s, q, n)
    PROVE  Inv'
<1> DEFINE h == [host[s] EXCEPT ![q] = HostQueue(n)]
<1>1. /\ s \in Open /\ SessionOK(sess[s], host[s], stale[s], after_last[s])
      /\ stale[s] \in BOOLEAN /\ after_last[s] \in BOOLEAN /\ panicked = None
      /\ DOMAIN sess = Session /\ DOMAIN host = Session /\ DOMAIN host[s] = Queue
      /\ stale \in [Session -> BOOLEAN] /\ after_last \in [Session -> BOOLEAN]
      /\ pending \in [Session -> BOOLEAN] /\ host[s][q] \in HostRecord(q)
  BY AliveOK DEF Reqbufs
<1>2. /\ host' = [host EXCEPT ![s] = h] /\ UpdateMmapOffsets(s, q, 1, n)
      /\ host[s][q].streaming => n = 0
      /\ pending' = pending
  BY DEF Reqbufs
<1>3. /\ \A p \in Queue : p # q => h[p] = host[s][p]
      /\ h[q].n = n
  BY <1>1 DEF HostQueue
<1>4. PICK se \in V4l2Session, st \in BOOLEAN, al \in BOOLEAN :
         /\ SessionOK(se, h, st, al) /\ OnlySession(s, se, h, st, al)
         /\ se.memory = sess[s].memory
  <2>1. SessionOK(sess[s], host[s], stale[s], after_last[s]) /\ stale[s] \in BOOLEAN
        /\ after_last[s] \in BOOLEAN /\ sess[s] \in V4l2Session
    BY <1>1 DEF SessionOK
  <2>2. CASE n = 0
    <3> DEFINE se == Stopped(sess[s], q)
               st == stale[s] /\ q # "CAPTURE"
               al == after_last[s] /\ q # "CAPTURE"
    <3>1. /\ sess' = [sess EXCEPT ![s] = se] /\ stale' = [stale EXCEPT ![s] = st]
          /\ after_last' = [after_last EXCEPT ![s] = al]
      BY <2>2 DEF Reqbufs, ForgetHistory
    <3>2. SessionOK(se, h, st, al)
      BY <2>1, StoppedOK
    <3>3. se.memory = sess[s].memory
      BY <2>1 DEF V4l2Session, Stopped
    <3>4. st \in BOOLEAN /\ al \in BOOLEAN
      OBVIOUS
    <3> HIDE DEF se, st, al, h
    <3>5. OnlySession(s, se, h, st, al)
      BY <1>1, <1>2, <3>1, <3>4 DEF OnlySession
    <3>6. se \in V4l2Session
      BY <3>2 DEF SessionOK
    <3> QED BY <3>2, <3>3, <3>4, <3>5, <3>6
  <2>3. CASE n # 0
    <3> DEFINE st == stale[s] \/ (q = "CAPTURE" /\ sess[s].num_queued[q] > 0)
    <3>1. /\ UNCHANGED <<sess, after_last>> /\ stale' = [stale EXCEPT ![s] = st]
      BY <2>3 DEF Reqbufs
    <3>2. SessionOK(sess[s], h, st, after_last[s])
      <4>1. n \in Index(q) /\ ~host[s][q].streaming
        BY <1>2, <2>3
      <4> QED BY <2>1, <4>1, ReqbufsOK
    <3>3. st \in BOOLEAN
      OBVIOUS
    <3> HIDE DEF st, h
    <3>4. OnlySession(s, sess[s], h, st, after_last[s])
      BY <1>1, <1>2, <3>1, <3>3 DEF OnlySession
    <3> QED BY <2>1, <3>2, <3>3, <3>4
  <2> QED BY <2>2, <2>3
<1> HIDE DEF h
<1>5. Open' = Open /\ SessionsOK' /\ FewOpen'
  BY <1>1, <1>4, SessionStep
<1>6. \A r \in Open : sess'[r].memory = sess[r].memory
  BY <1>4 DEF OnlySession, Open
<1>7. \A r \in Open, p \in Queue :
         host'[r][p].n = IF r = s /\ p = q THEN n ELSE host[r][p].n
  BY <1>3, <1>4 DEF OnlySession, Open
<1>8. \A r \in Open, p \in Queue : host[r][p].n \in {0} \cup Index(p)
  <2>1. \A r \in Open, p \in Queue : host[r][p] \in HostRecord(p)
    BY DEF Inv, SessionsOK, SessionOK, QueueOK, Open
  <2> QED BY <2>1 DEF HostRecord
<1>9. /\ OffsetsOK'
      /\ \A p \in DOMAIN table' : table'[p] \in TableEntry(Session \cup {None})
      /\ panicked' \in {None, "offset"}
  <2>1. n \in Nat /\ host[s][q].n \in Nat
    BY <1>1, <1>8, ProxyDeviceAssumption DEF Index
  <2>2. 1 \in 1 .. host[s][q].n + 1 /\ n = IF n = 0 THEN 0 ELSE 1 + n - 1
    BY <2>1
  <2>3. BuffersUpdated(s, q, 1, n, n)
    BY <1>1, <1>2, <1>5, <1>6, <1>7, <1>8, <2>2 DEF BuffersUpdated
  <2> QED BY <1>1, <2>3, OffsetsUpdated
<1>10. TypeOK'
  BY <1>1, <1>2, <1>4, <1>9 DEF TypeOK, OnlySession
<1> QED BY <1>5, <1>9, <1>10 DEF Inv

\* create_bufs
LEMMA CreateBufsInv ==
    ASSUME NEW s \in Session, NEW q \in Queue, NEW n \in Index(q), Inv, CreateBufs(s, q, n)
    PROVE  Inv'
<1> DEFINE c == [host[s][q] EXCEPT !.n = @ + n]
           h == [host[s] EXCEPT ![q] = c]
           m == host[s][q].n + n
<1>1. /\ s \in Open /\ SessionOK(sess[s], host[s], stale[s], after_last[s])
      /\ stale[s] \in BOOLEAN /\ after_last[s] \in BOOLEAN /\ panicked = None
      /\ DOMAIN sess = Session /\ DOMAIN host = Session /\ DOMAIN host[s] = Queue
      /\ stale \in [Session -> BOOLEAN] /\ after_last \in [Session -> BOOLEAN]
      /\ pending \in [Session -> BOOLEAN] /\ host[s][q] \in HostRecord(q)
  BY AliveOK DEF CreateBufs
<1>2. /\ host' = [host EXCEPT ![s] = h] /\ m \in Index(q)
      /\ UpdateMmapOffsets(s, q, host[s][q].n + 1, n)
      /\ UNCHANGED <<sess, pending, stale, after_last>>
  BY <1>1 DEF CreateBufs
<1>3. /\ c \in HostRecord(q) /\ c.streaming = host[s][q].streaming /\ c.n = m
      /\ c.queued = host[s][q].queued /\ c.done = host[s][q].done
      /\ c.mem = host[s][q].mem /\ c.uncounted = host[s][q].uncounted
  BY <1>1, <1>2 DEF HostRecord
<1>4. /\ \A p \in Queue : p # q => h[p] = host[s][p]
      /\ h[q] = c
  BY <1>1
<1>5. OnlySession(s, sess[s], h, stale[s], after_last[s])
  BY <1>1, <1>2 DEF OnlySession
<1> HIDE DEF c
<1>6. SessionOK(sess[s], h, stale[s], after_last[s])
  <2>1. Held(c) = Held(host[s][q]) /\ c.queued \cap c.done = {}
    BY <1>1, <1>3 DEF Held, SessionOK, QueueOK
  <2>2. SessionOK(sess[s], host[s], stale[s], after_last[s]) /\ stale[s] \in BOOLEAN
        /\ after_last[s] \in BOOLEAN
    BY <1>1
  <2>3. c \in HostRecord(q) /\ c.streaming = host[s][q].streaming /\ q \in Queue
        /\ c.uncounted = host[s][q].uncounted /\ \A x \in c.mem : MemOK(sess[s], q, x)
    BY <1>1, <1>3 DEF SessionOK, QueueOK
  <2> QED BY <2>1, <2>2, <2>3, HostChangesOK
<1> HIDE DEF h, m
<1>7. Open' = Open /\ SessionsOK' /\ FewOpen'
  BY <1>1, <1>5, <1>6, SessionStep
<1>8. \A r \in Open : sess'[r].memory = sess[r].memory
  BY <1>2
<1>9. \A r \in Open, p \in Queue :
         host'[r][p].n = IF r = s /\ p = q THEN m ELSE host[r][p].n
  BY <1>3, <1>4, <1>5 DEF OnlySession, Open
<1>10. \A r \in Open, p \in Queue : host[r][p].n \in {0} \cup Index(p)
  <2>1. \A r \in Open, p \in Queue : host[r][p] \in HostRecord(p)
    BY DEF Inv, SessionsOK, SessionOK, QueueOK, Open
  <2> QED BY <2>1 DEF HostRecord
<1>11. /\ OffsetsOK'
       /\ \A p \in DOMAIN table' : table'[p] \in TableEntry(Session \cup {None})
       /\ panicked' \in {None, "offset"}
  <2>1. n \in Nat \ {0} /\ host[s][q].n \in Nat
    BY <1>1, <1>10, ProxyDeviceAssumption DEF Index
  <2>2. /\ host[s][q].n + 1 \in 1 .. host[s][q].n + 1
        /\ m = IF n = 0 THEN 0 ELSE host[s][q].n + 1 + n - 1
        /\ n \in {0} \cup Index(q) /\ m \in {0} \cup Index(q)
    BY <1>2, <2>1 DEF m
  <2>3. BuffersUpdated(s, q, host[s][q].n + 1, n, m)
    BY <1>1, <1>2, <1>7, <1>8, <1>9, <1>10, <2>2 DEF BuffersUpdated
  <2> QED BY <1>1, <2>3, OffsetsUpdated
<1>12. TypeOK'
  BY <1>1, <1>2, <1>5, <1>11 DEF TypeOK, OnlySession
<1> QED BY <1>7, <1>11, <1>12 DEF Inv

-----------------------------------------------------------------------------
(* The invariant, and the properties it implies.                           *)

\* The device starts with no session and no buffer.
LEMMA InitInv == Init => Inv
<1> SUFFICES ASSUME Init PROVE Inv
  OBVIOUS
<1>1. Open = {} /\ DOMAIN mmap_buffers = {} /\ DOMAIN table = {}
  BY DEF Init, Open
<1>2. TypeOK
  BY <1>1 DEF Init, TypeOK
<1>3. SessionsOK
  BY <1>1 DEF Init, SessionsOK
<1>4. FewOpen
  BY <1>1, FS_EmptySet, ProxyDeviceAssumption DEF FewOpen
<1>5. OffsetsOK
  BY <1>1 DEF OffsetsOK, RegisteredPages
<1> QED BY <1>2, <1>3, <1>4, <1>5 DEF Inv

\* Every operation of the proxy and of the host keeps the invariant.
LEMMA NextInv == Inv /\ [Next]_vars => Inv'
<1> SUFFICES ASSUME Inv, [Next]_vars PROVE Inv'
  OBVIOUS
<1>1. ASSUME NEW s \in Session, NEW mem \in Memory, OpenSession(s, mem) PROVE Inv'
  BY <1>1, OpenSessionInv
<1>2. ASSUME NEW s \in Session,
             \/ CloseSession(s) \/ ProcessEvents(s) \/ SubscribeEvent(s)
             \/ DecoderCmd(s) \/ ExtCtrls(s) \/ HostEvent(s)
      PROVE  Inv'
  BY <1>2, CloseSessionInv, ProcessEventsInv, EventInv, DecoderCmdInv, ExtCtrlsInv
<1>3. ASSUME NEW s \in Session, NEW q \in Queue, Streamon(s, q) \/ Streamoff(s, q)
      PROVE  Inv'
  BY <1>3, StreamonInv, StreamoffInv
<1>4. ASSUME NEW s \in Session, NEW q \in Queue, NEW n \in {0} \cup Index(q), Reqbufs(s, q, n)
      PROVE  Inv'
  BY <1>4, ReqbufsInv
<1>5. ASSUME NEW s \in Session, NEW q \in Queue, NEW n \in Index(q), CreateBufs(s, q, n)
      PROVE  Inv'
  BY <1>5, CreateBufsInv
<1>6. ASSUME NEW s \in Session, NEW q \in Queue, NEW i \in Index(q), NEW a \in Addr,
             Qbuf(s, q, i, a) \/ PrepareBuf(s, q, i, a)
      PROVE  Inv'
  BY <1>6, QbufInv, PrepareBufInv
<1>7. ASSUME NEW s \in Session, NEW q \in Queue, NEW i \in Index(q), NEW last \in BOOLEAN,
             HostDone(s, q, i, last)
      PROVE  Inv'
  BY <1>7, HostDoneInv
<1>8. ASSUME NEW s \in Session, NEW o, DoMmap(s, o) PROVE Inv'
  BY <1>8, DoMmapInv
<1>9. ASSUME NEW o, DoMunmap(o) PROVE Inv'
  BY <1>9, DoMunmapInv
<1>10. CASE UNCHANGED vars
  BY <1>10, StutterInv
<1>11. CASE Next
  BY <1>1, <1>2, <1>3, <1>4, <1>5, <1>6, <1>7, <1>8, <1>9, <1>11, Zenon DEF Next
<1> QED BY <1>10, <1>11

\* The proxy's sessions, the host's queues and the registered offsets stay related as
\* the invariant says, whatever the order of the guest's ioctls and the host's events.
THEOREM ProxyInvariant == Spec => []Inv
BY InitInv, NextInv, PTL DEF Spec

\* The state of the proxy and of the host keeps its type.
THEOREM ProxyTypeCorrect == Spec => []TypeOK
<1>1. Inv => TypeOK
  BY DEF Inv
<1> QED BY <1>1, ProxyInvariant, PTL

\* The counter that dequeue_capture_buffer decrements without a check never underflows and
\* is never below the number of buffers the host holds, unless the guest was told that a
\* QBUF failed which the host had accepted, for any number of sessions and buffers.
THEOREM CountAlwaysCoversHost == Spec => []CountCoversHost
<1>1. ASSUME Inv, NEW s \in Open, NEW q \in Queue
      PROVE  LET held == Cardinality(Held(host[s][q]))
                 n == sess[s].num_queued[q]
             IN  /\ sess[s].streaming[q] = host[s][q].streaming
                 /\ n >= 0
                 /\ n >= held \/ host[s][q].uncounted
                 /\ q = "CAPTURE" => n = held \/ stale[s] \/ host[s][q].uncounted
  <2>1. SessionOK(sess[s], host[s], stale[s], after_last[s])
    BY <1>1 DEF Inv, SessionsOK, Open
  <2>2. sess[s] \in V4l2Session /\ QueueOK(sess[s], host[s], q, stale[s])
    BY <1>1, <2>1 DEF SessionOK
  <2>3. sess[s].streaming[q] \in BOOLEAN /\ host[s][q].streaming \in BOOLEAN
    BY <1>1, <2>2 DEF V4l2Session, QueueOK, HostRecord
  <2>4. sess[s].streaming[q] = host[s][q].streaming
    <3>1. sess[s].streaming[q] <=> host[s][q].streaming
      BY <2>2 DEF QueueOK
    <3>2. ASSUME NEW x \in BOOLEAN, NEW y \in BOOLEAN, x <=> y PROVE x = y
      BY <3>2
    <3> QED BY <2>3, <3>1, <3>2
  <2>5. sess[s].num_queued[q] >= 0
    BY <1>1, <2>2 DEF V4l2Session
  <2> QED BY <2>2, <2>4, <2>5 DEF QueueOK
<1>2. Inv => CountCoversHost
  BY <1>1 DEF CountCoversHost
<1> QED BY <1>2, ProxyInvariant, PTL

\* No order of QBUF, STREAMON, STREAMOFF, REQBUFS and host events leaves the poller
\* disabled with buffers to wait for, but for a LAST buffer that leaves some behind.
THEOREM PollerAlwaysFollows == Spec => []PollerFollows
<1>1. ASSUME Inv, NEW s \in Open
      PROVE  sess[s].polling = (ShouldPollCapture(sess[s]) /\ ~after_last[s])
  <2>1. SessionOK(sess[s], host[s], stale[s], after_last[s])
    BY <1>1 DEF Inv, SessionsOK, Open
  <2>2. sess[s].polling \in BOOLEAN
    BY <2>1 DEF SessionOK, V4l2Session
  <2>3. sess[s].polling <=> (ShouldPollCapture(sess[s]) /\ ~after_last[s])
    BY <2>1 DEF SessionOK, PollerOK
  <2> QED BY <2>2, <2>3, Zenon
<1>2. Inv => PollerFollows
  BY <1>1 DEF PollerFollows
<1> QED BY <1>2, ProxyInvariant, PTL

\* No buffer's guest memory is released, by a dequeue of another index or by a second
\* QBUF or PREPARE_BUF of the same one, while the host has it: only another buffer that is
\* registered at the same address takes the entry over.
THEOREM UserptrsAlwaysPinned == Spec => []UserptrsPinned
<1>1. ASSUME Inv, NEW s \in Open, NEW q \in Queue, NEW m \in host[s][q].mem
      PROVE  (\E u \in sess[s].userptr_buffers : u.addr = m[2]) \/ m[2] \in sess[s].reused
  <2>1. SessionOK(sess[s], host[s], stale[s], after_last[s])
    BY <1>1 DEF Inv, SessionsOK, Open
  <2>2. MemOK(sess[s], q, m)
    BY <1>1, <2>1 DEF SessionOK, QueueOK
  <2>3. CASE [addr |-> m[2], queue |-> q, index |-> m[1]] \in sess[s].userptr_buffers
    <3>1. [addr |-> m[2], queue |-> q, index |-> m[1]].addr = m[2]
      OBVIOUS
    <3> QED BY <2>3, <3>1, Zenon
  <2> QED BY <2>2, <2>3 DEF MemOK
<1>2. Inv => UserptrsPinned
  BY <1>1 DEF UserptrsPinned
<1> QED BY <1>2, ProxyInvariant, PTL

\* The offsets registered with the MMAP manager are those of the buffers the host has,
\* for any number of sessions, after any REQBUFS, CREATE_BUFS and end of a session.
THEOREM OffsetsAlwaysMatch == Spec => []OffsetsMatch
<1>1. ASSUME Inv, panicked = None
      PROVE  /\ RegisteredPages(table) = DOMAIN mmap_buffers
             /\ DOMAIN mmap_buffers =
                   UNION {UNION {IF sess[s].memory = "MMAP"
                                 THEN {Offset(q, i) : i \in 1 .. host[s][q].n} ELSE {} :
                                     q \in Queue} : s \in Open}
  <2> DEFINE Of(s, q) == IF sess[s].memory = "MMAP"
                         THEN {Offset(q, i) : i \in 1 .. host[s][q].n} ELSE {}
             all == UNION {UNION {Of(s, q) : q \in Queue} : s \in Open}
  <2>1. RegisteredPages(table) = DOMAIN mmap_buffers
    BY <1>1 DEF Inv, OffsetsOK
  <2>2. ASSUME NEW o \in DOMAIN mmap_buffers PROVE o \in all
    <3>1. PICK s \in Open, q \in Queue :
             /\ sess[s].memory = "MMAP"
             /\ \E i \in 1 .. host[s][q].n : o = Offset(q, i)
      BY <1>1, <2>2 DEF Inv, OffsetsOK
    <3>2. o \in Of(s, q)
      BY <3>1
    <3> HIDE DEF Of
    <3> QED BY <3>2
  <2>3. ASSUME NEW o \in all PROVE o \in DOMAIN mmap_buffers
    <3>1. PICK s \in Open, q \in Queue : o \in Of(s, q)
      <4> HIDE DEF Of
      <4> QED BY <2>3
    <3>2. sess[s].memory = "MMAP" /\ \E i \in 1 .. host[s][q].n : o = Offset(q, i)
      BY <3>1
    <3> HIDE DEF Of
    <3> QED BY <1>1, <3>2 DEF Inv, OffsetsOK
  <2> HIDE DEF all
  <2>4. DOMAIN mmap_buffers = all
    BY <2>2, <2>3
  <2> QED BY <2>1, <2>4 DEF all
<1>2. Inv => OffsetsMatch
  BY <1>1 DEF OffsetsMatch
<1> QED BY <1>2, ProxyInvariant, PTL
=============================================================================
