----------------------------- MODULE MmapManager -----------------------------
(***************************************************************************)
(* The MMAP range manager of the virtio-media device (device/src/mmap.rs): *)
(* a vector of buffers sorted by offset, each registered or not, and       *)
(* mapped zero or more times into the guest.  Devices register and         *)
(* unregister buffers; MMAP and MUNMAP commands create and remove          *)
(* mappings.  The memory mapper that provides guest addresses is external. *)
(***************************************************************************)
EXTENDS Integers, SequencesExt

CONSTANTS
    PageSize,     \* PAGE_SIZE, 0x1000 in the code
    Space,        \* number of values of the offset type, 2^32 in the code
    Sizes,        \* sizes devices ask for, 0 included
    GuestAddr,    \* addresses the memory mapper may hand out
    NoAddr,       \* not an address
    MaxMappings   \* bound on the number of mappings of one buffer

ASSUME ConstantsAssumption ==
    /\ PageSize \in Nat \ {0}
    /\ Space \in Nat \ {0}
    /\ Space % PageSize = 0
    /\ Sizes \subseteq Nat
    /\ NoAddr \notin GuestAddr
    /\ MaxMappings \in Nat

VARIABLES
    buffers,      \* MmapMappingManager::buffers
    host,         \* guest addresses the external mapper has mapped
    owed,         \* history: for each address, MMAPs answered with it and not undone
    ret,          \* the last call, and what it returned
    panicked      \* an arithmetic overflow check ended the device

vars == <<buffers, host, owed, ret, panicked>>

Offset == 0 .. Space - 1

Mapping == [num_mappings : Nat, guest_addr : GuestAddr \cup {NoAddr}, rw : BOOLEAN]

\* MmapBuffer::mapping = None
NoMapping == [num_mappings |-> 0, guest_addr |-> NoAddr, rw |-> FALSE]

MmapBuffer == [offset : Offset, size : Nat, registered : BOOLEAN, mapping : Mapping]

\* What the calls return, Rust's Ok and true included.
Result == {"Ok", "True", "False", "Panic",
           "EmptyBuffer", "UnalignedOffset", "OffsetOccupied",
           "InvalidOffset", "UnregisteredBuffer", "MappingFailure",
           "NonMatchingPermissions"}

NoOffset == Space

Ret == [op : {"none", "register", "alloc", "unregister", "map", "unmap"},
        key : Offset \cup {NoOffset}, res : Result]

IsMapped(b) == b.mapping # NoMapping

Init ==
    /\ buffers = <<>>
    /\ host = {}
    /\ owed = [a \in GuestAddr |-> 0]
    /\ ret = [op |-> "none", key |-> NoOffset, res |-> "Ok"]
    /\ panicked = FALSE

-----------------------------------------------------------------------------
\* The vector is only ever searched by offset, with slice::binary_search_by_key.

\* Ok(i): the index of the buffer at offset o.
FoundAt(o, i) == i \in DOMAIN buffers /\ buffers[i].offset = o

Found(o) == \E i \in DOMAIN buffers : FoundAt(o, i)

\* Faulty variant of InsertionPoint: new buffers are pushed at the end.
InsertionPointAtEnd(o, i) == i = Len(buffers) + 1

\* Err(i): where a buffer at offset o keeps the vector sorted.
InsertionPoint(o, i) ==
    /\ i \in 1 .. Len(buffers) + 1
    /\ \A j \in 1 .. i - 1 : buffers[j].offset < o
    /\ \A j \in i .. Len(buffers) : o < buffers[j].offset

Return(op, o, r) == ret' = [op |-> op, key |-> o, res |-> r]

Fail(op, o, error) == Return(op, o, error) /\ UNCHANGED <<buffers, host, owed, panicked>>

-----------------------------------------------------------------------------
\* MmapBuffer::new
NewBuffer(o, size) ==
    [offset |-> o, size |-> size, registered |-> TRUE, mapping |-> NoMapping]

\* Faulty variant of RegisterByOffset: an unregistered buffer that is still mapped
\* is registered anew, with the mappings it has.
RegisterByOffsetReuse(op, o, size) ==
    \/ /\ size # 0 /\ o % PageSize = 0 /\ ~Found(o)
       /\ \E i \in 1 .. Len(buffers) + 1 :
             /\ InsertionPoint(o, i)
             /\ buffers' = InsertAt(buffers, i, NewBuffer(o, size))
       /\ Return(op, o, "Ok")
       /\ UNCHANGED <<host, owed, panicked>>
    \/ \E i \in DOMAIN buffers :
          /\ size # 0 /\ FoundAt(o, i) /\ ~buffers[i].registered
          /\ buffers' = [buffers EXCEPT ![i].registered = TRUE, ![i].size = size]
          /\ Return(op, o, "Ok")
          /\ UNCHANGED <<host, owed, panicked>>

\* The three guards and the sorted insertion of register_buffer_by_offset.
RegisterByOffset(op, o, size) ==
    \/ size = 0 /\ Fail(op, o, "EmptyBuffer")
    \/ size # 0 /\ o % PageSize # 0 /\ Fail(op, o, "UnalignedOffset")
    \/ size # 0 /\ o % PageSize = 0 /\ Found(o) /\ Fail(op, o, "OffsetOccupied")
    \/ /\ size # 0 /\ o % PageSize = 0 /\ ~Found(o)
       /\ \E i \in 1 .. Len(buffers) + 1 :
             /\ InsertionPoint(o, i)
             /\ buffers' = InsertAt(buffers, i, NewBuffer(o, size))
       /\ Return(op, o, "Ok")
       /\ UNCHANGED <<host, owed, panicked>>

\* The first multiple of PageSize above o, before the offset type truncates it.
NextPage(o) == (o \div PageSize + 1) * PageSize

AutoOffset == IF buffers = <<>> THEN 0 ELSE NextPage(buffers[Len(buffers)].offset)

\* register_buffer(Some(o), size)
RegisterAt(o, size) ==
    /\ ~panicked
    /\ RegisterByOffset("register", o, size)

\* register_buffer(None, size).  Past the last page a build with overflow checks
\* panics and one without them wraps around.
RegisterAuto(size) ==
    /\ ~panicked
    /\ \/ RegisterByOffset("alloc", AutoOffset % Space, size)
       \/ /\ AutoOffset >= Space
          /\ panicked' = TRUE
          /\ Return("alloc", NoOffset, "Panic")
          /\ UNCHANGED <<buffers, host, owed>>

\* Faulty variant of UnregisterBuffer: the mappings of the buffer are forgotten.
UnregisterBufferForgetful(o) ==
    /\ ~panicked
    /\ \E i \in DOMAIN buffers :
          /\ FoundAt(o, i)
          /\ buffers' = RemoveAt(buffers, i)
          /\ Return("unregister", o, "True")
          /\ UNCHANGED <<host, owed, panicked>>

\* unregister_buffer: a buffer that is still mapped stays in the vector.
UnregisterBuffer(o) ==
    /\ ~panicked
    /\ \/ /\ ~Found(o)
          /\ Fail("unregister", o, "False")
       \/ \E i \in DOMAIN buffers :
             /\ FoundAt(o, i)
             /\ buffers' = IF IsMapped(buffers[i])
                           THEN [buffers EXCEPT ![i].registered = FALSE]
                           ELSE RemoveAt(buffers, i)
             /\ Return("unregister", o, "True")
             /\ UNCHANGED <<host, owed, panicked>>

-----------------------------------------------------------------------------
\* The last byte of the buffer does not fit the offset type.
TooLong(b) == b.offset + (b.size - 1) >= Space

\* Faulty variant of FirstMapping: the first mapping itself is not counted, so that
\* removing it takes the count below zero.
FirstMappingUncounted(o, i, rw) ==
    \E a \in GuestAddr \ host :
       /\ buffers' = [buffers EXCEPT ![i].mapping =
                         [num_mappings |-> 0, guest_addr |-> a, rw |-> rw]]
       /\ host' = host \cup {a}
       /\ owed' = [owed EXCEPT ![a] = @ + 1]
       /\ Return("map", o, "Ok")
       /\ UNCHANGED panicked

\* The mapper is called only for the first mapping; it may refuse.
FirstMapping(o, i, rw) ==
    \/ \E a \in GuestAddr \ host :
          /\ buffers' = [buffers EXCEPT ![i].mapping =
                            [num_mappings |-> 1, guest_addr |-> a, rw |-> rw]]
          /\ host' = host \cup {a}
          /\ owed' = [owed EXCEPT ![a] = @ + 1]
          /\ Return("map", o, "Ok")
          /\ UNCHANGED panicked
    \/ Fail("map", o, "MappingFailure")

\* Further mappings share the first one, if they ask for the same permissions.
SharedMapping(o, i, rw) ==
    LET m == buffers[i].mapping
    IN  \/ m.rw # rw /\ Fail("map", o, "NonMatchingPermissions")
        \/ /\ m.rw = rw
           /\ m.num_mappings < MaxMappings
           /\ buffers' = [buffers EXCEPT ![i].mapping.num_mappings = @ + 1]
           /\ owed' = [owed EXCEPT ![m.guest_addr] = @ + 1]
           /\ Return("map", o, "Ok")
           /\ UNCHANGED <<host, panicked>>

\* create_mapping.  Its SizeOutOfBounds test compares a number with itself.
CreateMapping(o, rw) ==
    /\ ~panicked
    /\ \/ ~Found(o) /\ Fail("map", o, "InvalidOffset")
       \/ \E i \in DOMAIN buffers :
             /\ FoundAt(o, i)
             /\ \/ TooLong(buffers[i]) /\ Fail("map", o, "InvalidOffset")
                \/ /\ ~TooLong(buffers[i]) /\ ~buffers[i].registered
                   /\ Fail("map", o, "UnregisteredBuffer")
                \/ /\ ~TooLong(buffers[i]) /\ buffers[i].registered
                   /\ IF IsMapped(buffers[i]) THEN SharedMapping(o, i, rw)
                                              ELSE FirstMapping(o, i, rw)

-----------------------------------------------------------------------------
\* The first buffer, in vector order, that is mapped at a.
FirstMappedAt(a, i) ==
    /\ i \in DOMAIN buffers
    /\ IsMapped(buffers[i]) /\ buffers[i].mapping.guest_addr = a
    /\ \A j \in 1 .. i - 1 : IsMapped(buffers[j]) => buffers[j].mapping.guest_addr # a

\* A failure to unmap is logged and otherwise ignored: the address stays in use.
MapperRemoves(a) == host' = host \ {a} \/ UNCHANGED host

\* Faulty variant of Unmapped: unregistered buffers are left behind.
UnmappedLingers(i) == [buffers EXCEPT ![i].mapping = NoMapping]

\* buffers after the last mapping of buffers[i] is gone.
Unmapped(i) ==
    IF buffers[i].registered
    THEN [buffers EXCEPT ![i].mapping = NoMapping]
    ELSE RemoveAt(buffers, i)

\* remove_mapping
RemoveMapping(a) ==
    /\ ~panicked
    /\ \/ /\ \A i \in DOMAIN buffers : ~FirstMappedAt(a, i)
          /\ Fail("unmap", NoOffset, "InvalidOffset")
       \/ \E i \in DOMAIN buffers :
             /\ FirstMappedAt(a, i)
             /\ owed' = [owed EXCEPT ![a] = @ - 1]
             /\ UNCHANGED panicked
             /\ \/ /\ buffers[i].mapping.num_mappings = 1
                   /\ MapperRemoves(a)
                   /\ buffers' = Unmapped(i)
                   /\ Return("unmap", buffers[i].offset, "False")
                \/ /\ buffers[i].mapping.num_mappings # 1
                   /\ buffers' = [buffers EXCEPT ![i].mapping.num_mappings = @ - 1]
                   /\ Return("unmap", buffers[i].offset, "True")
                   /\ UNCHANGED host

Next ==
    \/ \E size \in Sizes : RegisterAuto(size)
    \/ \E o \in Offset, size \in Sizes : RegisterAt(o, size)
    \/ \E o \in Offset : UnregisterBuffer(o)
    \/ \E o \in Offset, rw \in BOOLEAN : CreateMapping(o, rw)
    \/ \E a \in GuestAddr : RemoveMapping(a)

Spec == Init /\ [][Next]_vars

-----------------------------------------------------------------------------
\* Type correctness: the counts of mappings, unsigned in the code and decremented
\* unchecked by remove_mapping, never go below zero, however mappings of a buffer
\* are shared, refused and removed.
TypeOK ==
    /\ buffers \in Seq(MmapBuffer)
    /\ host \in SUBSET GuestAddr
    /\ owed \in [GuestAddr -> Nat]
    /\ ret \in Ret
    /\ panicked \in BOOLEAN

\* The vector is strictly sorted by offset, whatever mixture of fixed and
\* allocated offsets devices register: binary_search_by_key relies on it.
Sorted ==
    \A i, j \in DOMAIN buffers : i < j => buffers[i].offset < buffers[j].offset

\* A buffer that is neither registered nor mapped does not linger in the range.
NoDeadBuffer == \A i \in DOMAIN buffers : buffers[i].registered \/ IsMapped(buffers[i])

\* An address the guest holds mappings of is mapped by the host and backed by
\* exactly one buffer, which counts exactly the mappings the guest still has to
\* undo: "the mapping will also persist until an identical number of calls to
\* remove_mapping are performed" (create_mapping's documentation).
MappingsCounted ==
    /\ \A i \in DOMAIN buffers :
          IsMapped(buffers[i]) =>
             /\ buffers[i].mapping.guest_addr \in host
             /\ buffers[i].mapping.num_mappings > 0
             /\ owed[buffers[i].mapping.guest_addr] = buffers[i].mapping.num_mappings
    /\ \A i, j \in DOMAIN buffers :
          IsMapped(buffers[i]) /\ IsMapped(buffers[j]) /\ i # j
             => buffers[i].mapping.guest_addr # buffers[j].mapping.guest_addr
    /\ \A a \in GuestAddr :
          owed[a] > 0 => \E i \in DOMAIN buffers :
                            IsMapped(buffers[i]) /\ buffers[i].mapping.guest_addr = a

\* The buffer mapped at address a.
Backing(a) == {[offset |-> b.offset, size |-> b.size, rw |-> b.mapping.rw] :
                 b \in {c \in ToSet(buffers) : IsMapped(c) /\ c.mapping.guest_addr = a}}

\* While the guest holds a mapping, the memory it sees stays the same buffer,
\* with the same permissions: registering, unregistering or mapping another
\* buffer never takes it over.
MappingStable ==
    [][\A a \in GuestAddr : owed[a] > 0 /\ owed'[a] > 0 => Backing(a)' = Backing(a)]_vars

\* The abstract range a state of the manager stands for.
Registered == {[offset |-> b.offset, size |-> b.size] :
                 b \in {c \in ToSet(buffers) : c.registered}}

Views == {[addr |-> b.mapping.guest_addr, offset |-> b.offset, size |-> b.size,
           rw |-> b.mapping.rw, count |-> b.mapping.num_mappings,
           live |-> b.registered] :
            b \in {c \in ToSet(buffers) : IsMapped(c)}}

AbstractRange == INSTANCE MmapRange WITH registered <- Registered, views <- Views

\* The vector of mmap.rs, its binary searches and its removals implement the
\* abstract range: no step of the code does more than one abstract operation,
\* none of its failures changes what device and guest can see, and a buffer that
\* was unregistered while the guest maps it never counts as registered again.
ImplementsRange == AbstractRange!RangeSpec
=============================================================================
