--------------------------- MODULE MmapRangeProofs ---------------------------
(***************************************************************************)
(* The MMAP range manager implements the abstract range of MmapRange, and  *)
(* never changes the buffer behind an address the guest holds.  Both are   *)
(* about the set of the buffers in the vector, so the first part shows     *)
(* what each call does to that set: the vector is sorted, and therefore    *)
(* holds every buffer once.                                                *)
(***************************************************************************)
EXTENDS MmapManagerProofs

\* The buffers in the vector.
Held == ToSet(buffers)

-----------------------------------------------------------------------------
(* The operations on the vector, as operations on the set of its elements. *)

\* Vec::insert adds one element.
LEMMA InsertAtSet ==
    ASSUME NEW s \in Seq(MmapBuffer), NEW e \in MmapBuffer, NEW i \in 1 .. Len(s) + 1
    PROVE  ToSet(InsertAt(s, i, e)) = ToSet(s) \cup {e}
<1> DEFINE t == InsertAt(s, i, e)
<1>1. /\ t \in Seq(MmapBuffer) /\ Len(t) = Len(s) + 1
      /\ \A j \in 1 .. Len(s) + 1 :
            t[j] = IF j < i THEN s[j] ELSE IF j = i THEN e ELSE s[j - 1]
  BY InsertAtElements
<1> HIDE DEF t
<1>2. DOMAIN t = 1 .. Len(s) + 1 /\ DOMAIN s = 1 .. Len(s) /\ Len(s) \in Nat
  BY <1>1
<1>3. ASSUME NEW j \in DOMAIN t PROVE t[j] \in ToSet(s) \cup {e}
  BY <1>1, <1>2 DEF ToSet
<1>4. ASSUME NEW j \in DOMAIN s PROVE s[j] \in ToSet(t)
  <2>1. CASE j < i
    BY <1>1, <1>2, <2>1 DEF ToSet
  <2>2. CASE j >= i
    <3>1. j + 1 \in DOMAIN t /\ t[j + 1] = s[j]
      BY <1>1, <1>2, <2>2
    <3> QED BY <3>1 DEF ToSet
  <2> QED BY <1>2, <2>1, <2>2
<1>5. e \in ToSet(t)
  BY <1>1, <1>2 DEF ToSet
<1>6. ToSet(t) \subseteq ToSet(s) \cup {e}
  BY <1>3 DEF ToSet
<1>7. ToSet(s) \subseteq ToSet(t)
  BY <1>4 DEF ToSet
<1> QED BY <1>5, <1>6, <1>7 DEF t

\* Vec::remove takes one element away, when no other equals it.
LEMMA RemoveAtSet ==
    ASSUME NEW s \in Seq(MmapBuffer), NEW i \in 1 .. Len(s),
           \A j \in DOMAIN s : s[j] = s[i] => j = i
    PROVE  ToSet(RemoveAt(s, i)) = ToSet(s) \ {s[i]}
<1> DEFINE t == RemoveAt(s, i)
<1>1. /\ t \in Seq(MmapBuffer) /\ Len(t) = Len(s) - 1
      /\ \A j \in 1 .. Len(s) - 1 : t[j] = IF j < i THEN s[j] ELSE s[j + 1]
  BY RemoveAtBuffers
<1> HIDE DEF t
<1>2. DOMAIN t = 1 .. Len(s) - 1 /\ DOMAIN s = 1 .. Len(s) /\ Len(s) \in Nat
  BY <1>1
<1>3. ASSUME NEW j \in DOMAIN t PROVE t[j] \in ToSet(s) \ {s[i]}
  <2>1. CASE j < i
    <3>1. j \in DOMAIN s /\ t[j] = s[j] /\ j # i
      BY <1>1, <1>2, <2>1
    <3> QED BY <3>1 DEF ToSet
  <2>2. CASE j >= i
    <3>1. j + 1 \in DOMAIN s /\ t[j] = s[j + 1] /\ j + 1 # i
      BY <1>1, <1>2, <2>2
    <3> QED BY <3>1 DEF ToSet
  <2> QED BY <1>2, <2>1, <2>2
<1>4. ASSUME NEW j \in DOMAIN s, j # i PROVE s[j] \in ToSet(t)
  <2>1. CASE j < i
    <3>1. j \in DOMAIN t /\ t[j] = s[j]
      BY <1>1, <1>2, <2>1
    <3> QED BY <3>1 DEF ToSet
  <2>2. CASE j > i
    <3>1. j - 1 \in DOMAIN t /\ t[j - 1] = s[j]
      BY <1>1, <1>2, <2>2
    <3> QED BY <3>1 DEF ToSet
  <2> QED BY <1>2, <1>4, <2>1, <2>2
<1>5. ToSet(t) \subseteq ToSet(s) \ {s[i]}
  BY <1>3 DEF ToSet
<1>6. ToSet(s) \ {s[i]} \subseteq ToSet(t)
  BY <1>4 DEF ToSet
<1> QED BY <1>5, <1>6 DEF t

\* Changing an element replaces it, when no other equals it.
LEMMA ReplaceSet ==
    ASSUME NEW s \in Seq(MmapBuffer), NEW e \in MmapBuffer, NEW i \in DOMAIN s,
           \A j \in DOMAIN s : s[j] = s[i] => j = i
    PROVE  ToSet([s EXCEPT ![i] = e]) = (ToSet(s) \ {s[i]}) \cup {e}
BY DEF ToSet

-----------------------------------------------------------------------------
\* What the invariant says of the set: no two buffers have the same offset or are
\* mapped at the same address, and each mapping is counted.
LEMMA HeldFacts ==
    ASSUME Inv
    PROVE  /\ \A b \in Held : b \in MmapBuffer
           /\ \A b, c \in Held : b.offset = c.offset => b = c
           /\ \A b, c \in Held :
                 IsMapped(b) /\ IsMapped(c) /\ b.mapping.guest_addr = c.mapping.guest_addr
                    => b = c
           /\ \A b \in Held : IsMapped(b) =>
                 /\ b.mapping.guest_addr \in host \cap GuestAddr
                 /\ b.mapping.num_mappings \in Nat \ {0}
                 /\ owed[b.mapping.guest_addr] = b.mapping.num_mappings
           /\ \A i, j \in DOMAIN buffers : buffers[i] = buffers[j] => i = j
<1>1. DOMAIN buffers = 1 .. Len(buffers) /\ Len(buffers) \in Nat
  BY DEF Inv, TypeOK
<1>2. \A i, j \in DOMAIN buffers : buffers[i].offset = buffers[j].offset => i = j
  <2> SUFFICES ASSUME NEW i \in DOMAIN buffers, NEW j \in DOMAIN buffers,
                      buffers[i].offset = buffers[j].offset
               PROVE  i = j
    OBVIOUS
  <2>1. buffers[i].offset \in Int /\ buffers[j].offset \in Int
    BY BufferType, ConstantsAssumption DEF Offset
  <2> QED BY <1>1, <2>1 DEF Inv, Sorted
<1>3. \A b \in Held : b \in MmapBuffer
  BY BufferType DEF Held, ToSet
<1>4. \A b, c \in Held : b.offset = c.offset => b = c
  BY <1>2 DEF Held, ToSet
<1>5. \A b, c \in Held :
         IsMapped(b) /\ IsMapped(c) /\ b.mapping.guest_addr = c.mapping.guest_addr => b = c
  BY DEF Held, ToSet, Inv, MappingsCounted
<1>6. \A b \in Held : IsMapped(b) =>
         /\ b.mapping.guest_addr \in host \cap GuestAddr
         /\ b.mapping.num_mappings \in Nat \ {0}
         /\ owed[b.mapping.guest_addr] = b.mapping.num_mappings
  BY MappedType DEF Held, ToSet
<1> QED BY <1>2, <1>3, <1>4, <1>5, <1>6

(* What a call does to the set.                                            *)

\* A failure, or a panic.
Same == Held' = Held /\ owed' = owed

\* register_buffer
Added(o, size) ==
    /\ \A c \in Held : c.offset # o
    /\ Held' = Held \cup {NewBuffer(o, size)} /\ owed' = owed

\* unregister_buffer, of a buffer that is mapped and of one that is not
Unregistered(b) ==
    /\ IsMapped(b) /\ owed' = owed
    /\ Held' = (Held \ {b}) \cup {[b EXCEPT !.registered = FALSE]}
Dropped(b) == ~IsMapped(b) /\ owed' = owed /\ Held' = Held \ {b}

\* create_mapping, the first and a further one
Shown(b, a, rw) ==
    /\ ~IsMapped(b) /\ b.registered /\ a \notin host
    /\ owed' = [owed EXCEPT ![a] = @ + 1]
    /\ Held' = (Held \ {b}) \cup
          {[b EXCEPT !.mapping = [num_mappings |-> 1, guest_addr |-> a, rw |-> rw]]}
Shared(b) ==
    /\ IsMapped(b) /\ b.registered
    /\ owed' = [owed EXCEPT ![b.mapping.guest_addr] = @ + 1]
    /\ Held' = (Held \ {b}) \cup
          {[b EXCEPT !.mapping = [b.mapping EXCEPT !.num_mappings = @ + 1]]}

\* remove_mapping, of the last mapping of a buffer and of another one
Hidden(b) ==
    /\ IsMapped(b) /\ b.mapping.num_mappings = 1
    /\ owed' = [owed EXCEPT ![b.mapping.guest_addr] = @ - 1]
    /\ Held' = (Held \ {b}) \cup IF b.registered THEN {[b EXCEPT !.mapping = NoMapping]}
                                                 ELSE {}
Unshared(b) ==
    /\ IsMapped(b) /\ b.mapping.num_mappings # 1
    /\ owed' = [owed EXCEPT ![b.mapping.guest_addr] = @ - 1]
    /\ Held' = (Held \ {b}) \cup
          {[b EXCEPT !.mapping = [b.mapping EXCEPT !.num_mappings = @ - 1]]}

HeldStep ==
    \/ Same
    \/ \E o \in Offset, size \in Sizes : Added(o, size)
    \/ \E b \in Held : \/ Unregistered(b) \/ Dropped(b) \/ Shared(b)
                       \/ Hidden(b) \/ Unshared(b)
                       \/ \E a \in GuestAddr, rw \in BOOLEAN : Shown(b, a, rw)

\* register_buffer_by_offset adds a buffer at an offset that is free, or nothing.
LEMMA RegisterHeld ==
    ASSUME Inv, NEW op, NEW o \in Offset, NEW size \in Sizes, RegisterByOffset(op, o, size)
    PROVE  HeldStep
<1>1. CASE UNCHANGED <<buffers, host, owed, panicked>>
  BY <1>1 DEF HeldStep, Same, Held
<1>2. ASSUME ~Found(o), owed' = owed, NEW i \in 1 .. Len(buffers) + 1,
             buffers' = InsertAt(buffers, i, NewBuffer(o, size))
      PROVE  HeldStep
  <2>1. NewBuffer(o, size) \in MmapBuffer
    BY ConstantsAssumption DEF NewBuffer, MmapBuffer, Mapping, NoMapping
  <2>2. buffers \in Seq(MmapBuffer)
    BY DEF Inv, TypeOK
  <2>3. Held' = Held \cup {NewBuffer(o, size)}
    BY <1>2, <2>1, <2>2, InsertAtSet DEF Held
  <2>4. \A c \in Held : c.offset # o
    BY <1>2 DEF Held, ToSet, Found, FoundAt
  <2> QED BY <1>2, <2>3, <2>4 DEF HeldStep, Added
<1> QED BY <1>1, <1>2 DEF RegisterByOffset, Fail

\* Replacing and removing the buffer at index i.
LEMMA AtIndex ==
    ASSUME Inv, NEW i \in DOMAIN buffers
    PROVE  /\ buffers[i] \in Held
           /\ ToSet(RemoveAt(buffers, i)) = Held \ {buffers[i]}
           /\ \A e \in MmapBuffer :
                 ToSet([buffers EXCEPT ![i] = e]) = (Held \ {buffers[i]}) \cup {e}
<1>1. buffers \in Seq(MmapBuffer) /\ i \in 1 .. Len(buffers)
  BY DEF Inv, TypeOK
<1>2. \A j \in DOMAIN buffers : buffers[j] = buffers[i] => j = i
  BY HeldFacts
<1>3. buffers[i] \in Held
  BY DEF Held, ToSet
<1>4. ToSet(RemoveAt(buffers, i)) = Held \ {buffers[i]}
  BY <1>1, <1>2, RemoveAtSet DEF Held
<1>5. ASSUME NEW e \in MmapBuffer
      PROVE  ToSet([buffers EXCEPT ![i] = e]) = (Held \ {buffers[i]}) \cup {e}
  BY <1>1, <1>2, ReplaceSet DEF Held
<1> QED BY <1>3, <1>4, <1>5

\* unregister_buffer
LEMMA UnregisterHeld ==
    ASSUME Inv, NEW o \in Offset, UnregisterBuffer(o)
    PROVE  HeldStep
<1>1. CASE UNCHANGED <<buffers, host, owed, panicked>>
  BY <1>1 DEF HeldStep, Same, Held
<1>2. ASSUME NEW i \in DOMAIN buffers, owed' = owed,
             buffers' = IF IsMapped(buffers[i])
                        THEN [buffers EXCEPT ![i].registered = FALSE]
                        ELSE RemoveAt(buffers, i)
      PROVE  HeldStep
  <2> DEFINE b == buffers[i]
             e == [b EXCEPT !.registered = FALSE]
  <2>1. e \in MmapBuffer
    BY BufferType DEF MmapBuffer
  <2>2. CASE IsMapped(b)
    <3>1. buffers' = [buffers EXCEPT ![i] = e]
      BY <1>2, <2>2
    <3>2. Held' = (Held \ {b}) \cup {e}
      BY <2>1, <3>1, AtIndex DEF Held
    <3> QED BY <1>2, <2>2, <3>2, AtIndex DEF HeldStep, Unregistered
  <2>3. CASE ~IsMapped(b)
    <3>1. Held' = Held \ {b}
      BY <1>2, <2>3, AtIndex DEF Held
    <3> QED BY <1>2, <2>3, <3>1, AtIndex DEF HeldStep, Dropped
  <2> QED BY <2>2, <2>3
<1> QED BY <1>1, <1>2 DEF UnregisterBuffer, Fail

\* create_mapping
LEMMA CreateHeld ==
    ASSUME Inv, NEW o \in Offset, NEW rw \in BOOLEAN, CreateMapping(o, rw)
    PROVE  HeldStep
<1>1. CASE UNCHANGED <<buffers, host, owed, panicked>>
  BY <1>1 DEF HeldStep, Same, Held
<1>2. ASSUME NEW i \in DOMAIN buffers, buffers[i].registered, ~IsMapped(buffers[i]),
             NEW a \in GuestAddr \ host,
             buffers' = [buffers EXCEPT ![i].mapping =
                            [num_mappings |-> 1, guest_addr |-> a, rw |-> rw]],
             owed' = [owed EXCEPT ![a] = @ + 1]
      PROVE  HeldStep
  <2> DEFINE b == buffers[i]
             e == [b EXCEPT !.mapping = [num_mappings |-> 1, guest_addr |-> a, rw |-> rw]]
  <2>1. e \in MmapBuffer
    BY BufferType DEF MmapBuffer, Mapping
  <2>2. buffers' = [buffers EXCEPT ![i] = e]
    BY <1>2
  <2>3. Held' = (Held \ {b}) \cup {e} /\ b \in Held
    BY <2>1, <2>2, AtIndex DEF Held
  <2>4. Shown(b, a, rw)
    BY <1>2, <2>3 DEF Shown
  <2> QED BY <2>3, <2>4 DEF HeldStep
<1>3. ASSUME NEW i \in DOMAIN buffers, buffers[i].registered, IsMapped(buffers[i]),
             buffers' = [buffers EXCEPT ![i].mapping.num_mappings = @ + 1],
             owed' = [owed EXCEPT ![buffers[i].mapping.guest_addr] = @ + 1]
      PROVE  HeldStep
  <2> DEFINE b == buffers[i]
             m == [b.mapping EXCEPT !.num_mappings = @ + 1]
             e == [b EXCEPT !.mapping = m]
  <2>1. b \in MmapBuffer /\ b.mapping \in Mapping
    BY BufferType
  <2>2. m \in Mapping
    BY <2>1 DEF Mapping
  <2>3. e \in MmapBuffer
    BY <2>1, <2>2 DEF MmapBuffer
  <2>4. buffers' = [buffers EXCEPT ![i] = e]
    BY <1>3
  <2>5. Held' = (Held \ {b}) \cup {e} /\ b \in Held
    BY <2>3, <2>4, AtIndex DEF Held
  <2>6. Shared(b)
    BY <1>3, <2>5 DEF Shared
  <2> QED BY <2>5, <2>6 DEF HeldStep
<1> QED BY <1>1, <1>2, <1>3 DEF CreateMapping, FirstMapping, SharedMapping, Fail

\* remove_mapping
LEMMA RemoveHeld ==
    ASSUME Inv, NEW a \in GuestAddr, RemoveMapping(a)
    PROVE  HeldStep
<1>1. CASE UNCHANGED <<buffers, host, owed, panicked>>
  BY <1>1 DEF HeldStep, Same, Held
<1>2. ASSUME NEW i \in DOMAIN buffers, FirstMappedAt(a, i),
             owed' = [owed EXCEPT ![a] = @ - 1],
             buffers[i].mapping.num_mappings = 1, buffers' = Unmapped(i)
      PROVE  HeldStep
  <2> DEFINE b == buffers[i]
             e == [b EXCEPT !.mapping = NoMapping]
  <2>1. IsMapped(b) /\ b.mapping.guest_addr = a /\ b \in MmapBuffer /\ b \in Held
    BY <1>2, BufferType, AtIndex DEF FirstMappedAt
  <2>2. NoMapping \in Mapping
    BY DEF NoMapping, Mapping
  <2>3. e \in MmapBuffer
    BY <2>1, <2>2 DEF MmapBuffer
  <2>4. Held' = (Held \ {b}) \cup IF b.registered THEN {e} ELSE {}
    <3>1. CASE b.registered
      <4>1. buffers' = [buffers EXCEPT ![i] = e]
        BY <1>2, <3>1 DEF Unmapped
      <4> QED BY <2>3, <3>1, <4>1, AtIndex DEF Held
    <3>2. CASE ~b.registered
      BY <1>2, <3>2, AtIndex DEF Held, Unmapped
    <3> QED BY <3>1, <3>2
  <2>5. Hidden(b)
    BY <1>2, <2>1, <2>4 DEF Hidden
  <2> QED BY <2>1, <2>5 DEF HeldStep
<1>3. ASSUME NEW i \in DOMAIN buffers, FirstMappedAt(a, i),
             owed' = [owed EXCEPT ![a] = @ - 1],
             buffers[i].mapping.num_mappings # 1,
             buffers' = [buffers EXCEPT ![i].mapping.num_mappings = @ - 1]
      PROVE  HeldStep
  <2> DEFINE b == buffers[i]
             m == [b.mapping EXCEPT !.num_mappings = @ - 1]
             e == [b EXCEPT !.mapping = m]
  <2>1. IsMapped(b) /\ b.mapping.guest_addr = a /\ b \in MmapBuffer /\ b \in Held
    BY <1>3, BufferType, AtIndex DEF FirstMappedAt
  <2>2. b.mapping \in Mapping /\ b.mapping.num_mappings \in Nat \ {0}
    BY <2>1, BufferType, MappedType
  <2>3. m \in Mapping
    BY <2>2 DEF Mapping
  <2>4. e \in MmapBuffer
    BY <2>1, <2>3 DEF MmapBuffer
  <2>5. buffers' = [buffers EXCEPT ![i] = e]
    BY <1>3
  <2>6. Held' = (Held \ {b}) \cup {e}
    BY <2>4, <2>5, AtIndex DEF Held
  <2>7. Unshared(b)
    BY <1>3, <2>1, <2>6 DEF Unshared
  <2> QED BY <2>1, <2>7 DEF HeldStep
<1> QED BY <1>1, <1>2, <1>3 DEF RemoveMapping, Fail

\* Every step of the manager is one of these.
LEMMA NextHeld == Inv /\ [Next]_vars => HeldStep
<1> SUFFICES ASSUME Inv, [Next]_vars PROVE HeldStep
  OBVIOUS
<1>1. ASSUME NEW size \in Sizes, RegisterAuto(size) PROVE HeldStep
  <2>1. CASE UNCHANGED <<buffers, host, owed>>
    BY <2>1 DEF HeldStep, Same, Held
  <2> QED BY <1>1, <2>1, AutoOffsetType, RegisterHeld DEF RegisterAuto
<1>2. ASSUME NEW o \in Offset, NEW size \in Sizes, RegisterAt(o, size) PROVE HeldStep
  BY <1>2, RegisterHeld DEF RegisterAt
<1>3. ASSUME NEW o \in Offset, UnregisterBuffer(o) PROVE HeldStep
  BY <1>3, UnregisterHeld
<1>4. ASSUME NEW o \in Offset, NEW rw \in BOOLEAN, CreateMapping(o, rw) PROVE HeldStep
  BY <1>4, CreateHeld
<1>5. ASSUME NEW a \in GuestAddr, RemoveMapping(a) PROVE HeldStep
  BY <1>5, RemoveHeld
<1>6. CASE UNCHANGED vars
  BY <1>6 DEF vars, HeldStep, Same, Held
<1> QED BY <1>1, <1>2, <1>3, <1>4, <1>5, <1>6 DEF Next

-----------------------------------------------------------------------------
(* The memory behind an address.                                           *)

\* What the guest sees of a mapped buffer.
Face(b) == [offset |-> b.offset, size |-> b.size, rw |-> b.mapping.rw]

\* Backing(a) is the face of the buffers mapped at a.
LEMMA BackingFaces ==
    ASSUME NEW a
    PROVE  Backing(a) = {Face(b) : b \in {c \in Held : IsMapped(c) /\ c.mapping.guest_addr = a}}
BY DEF Backing, Face, Held

\* An address with mappings left is in use by the host.
LEMMA OwedMapped ==
    ASSUME Inv, NEW a \in GuestAddr, owed[a] > 0
    PROVE  a \in host
<1>1. PICK i \in DOMAIN buffers : IsMapped(buffers[i]) /\ buffers[i].mapping.guest_addr = a
  BY DEF Inv, MappingsCounted
<1> QED BY <1>1, MappedType

\* No step changes what is behind an address that has mappings before and after it.
LEMMA StepStable ==
    ASSUME Inv, [Next]_vars, NEW a \in GuestAddr, owed[a] > 0, owed'[a] > 0
    PROVE  Backing(a)' = Backing(a)
<1> DEFINE At(c) == IsMapped(c) /\ c.mapping.guest_addr = a
<1>1. Backing(a) = {Face(b) : b \in {c \in Held : At(c)}}
  BY BackingFaces
<1>2. Backing(a)' = {Face(b) : b \in {c \in Held' : At(c)}}
  BY DEF Backing, Face, Held, IsMapped
<1>3. \A b \in Held : b \in MmapBuffer /\ b.mapping \in Mapping
  BY HeldFacts DEF MmapBuffer
<1>t. owed \in [GuestAddr -> Nat]
  BY DEF Inv, TypeOK
<1>4. ASSUME NEW b \in Held, NEW e, Held' = (Held \ {b}) \cup {e},
             At(e) = At(b), At(b) => Face(e) = Face(b)
      PROVE  Backing(a)' = Backing(a)
  <2> HIDE DEF At
  <2> QED BY <1>1, <1>2, <1>4
<1>5. CASE Same
  BY <1>1, <1>2, <1>5 DEF Same
<1>6. ASSUME NEW o \in Offset, NEW size \in Sizes, Added(o, size)
      PROVE  Backing(a)' = Backing(a)
  <2>1. ~At(NewBuffer(o, size))
    BY DEF NewBuffer, IsMapped
  <2> HIDE DEF At
  <2> QED BY <1>1, <1>2, <1>6, <2>1 DEF Added
<1>7. ASSUME NEW b \in Held, Unregistered(b) PROVE Backing(a)' = Backing(a)
  <2>1. /\ At([b EXCEPT !.registered = FALSE]) = At(b)
        /\ Face([b EXCEPT !.registered = FALSE]) = Face(b)
    BY <1>3 DEF MmapBuffer, IsMapped, Face
  <2> QED BY <1>4, <1>7, <2>1 DEF Unregistered
<1>8. ASSUME NEW b \in Held, Dropped(b) PROVE Backing(a)' = Backing(a)
  <2>1. ~At(b)
    BY <1>8 DEF Dropped
  <2> HIDE DEF At
  <2> QED BY <1>1, <1>2, <1>8, <2>1 DEF Dropped
<1>9. ASSUME NEW b \in Held, NEW x \in GuestAddr, NEW rw \in BOOLEAN, Shown(b, x, rw)
      PROVE  Backing(a)' = Backing(a)
  <2> DEFINE e == [b EXCEPT !.mapping = [num_mappings |-> 1, guest_addr |-> x, rw |-> rw]]
  <2>1. x # a
    BY <1>9, OwedMapped DEF Shown
  <2>2. e.mapping.guest_addr = x
    BY <1>3 DEF MmapBuffer
  <2>3. ~At(b) /\ ~At(e)
    BY <1>9, <2>1, <2>2 DEF Shown
  <2> QED BY <1>4, <1>9, <2>3 DEF Shown
<1>10. ASSUME NEW b \in Held, NEW n \in Nat \ {0}, IsMapped(b),
              Held' = (Held \ {b}) \cup
                 {[b EXCEPT !.mapping = [b.mapping EXCEPT !.num_mappings = n]]}
       PROVE  Backing(a)' = Backing(a)
  <2> DEFINE m == [b.mapping EXCEPT !.num_mappings = n]
             e == [b EXCEPT !.mapping = m]
  <2>1. /\ m.guest_addr = b.mapping.guest_addr /\ m.rw = b.mapping.rw
        /\ m.num_mappings = n
    BY <1>3 DEF Mapping
  <2>2. e.mapping = m /\ e.offset = b.offset /\ e.size = b.size
    BY <1>3 DEF MmapBuffer
  <2>3. IsMapped(e)
    BY <2>1, <2>2 DEF IsMapped, NoMapping
  <2>4. At(e) = At(b) /\ Face(e) = Face(b)
    BY <1>10, <2>1, <2>2, <2>3 DEF Face
  <2> QED BY <1>4, <1>10, <2>4
<1>11. ASSUME NEW b \in Held, Shared(b) PROVE Backing(a)' = Backing(a)
  <2>1. b.mapping.num_mappings + 1 \in Nat \ {0}
    BY <1>11, HeldFacts DEF Shared
  <2> QED BY <1>10, <1>11, <2>1 DEF Shared
<1>12. ASSUME NEW b \in Held, Unshared(b) PROVE Backing(a)' = Backing(a)
  <2>1. b.mapping.num_mappings - 1 \in Nat \ {0}
    BY <1>12, HeldFacts DEF Unshared
  <2> QED BY <1>10, <1>12, <2>1 DEF Unshared
<1>13. ASSUME NEW b \in Held, Hidden(b) PROVE Backing(a)' = Backing(a)
  <2> DEFINE e == [b EXCEPT !.mapping = NoMapping]
  <2>1. b.mapping.guest_addr # a
    BY <1>t, <1>13, HeldFacts DEF Hidden
  <2>2. e.mapping = NoMapping
    BY <1>3 DEF MmapBuffer
  <2>3. ~At(b) /\ At(e) = At(b)
    BY <2>1, <2>2 DEF IsMapped
  <2>4. CASE b.registered
    <3>1. Held' = (Held \ {b}) \cup {e}
      BY <1>13, <2>4 DEF Hidden
    <3> HIDE DEF At, e
    <3> QED BY <1>4, <2>3, <3>1
  <2>5. CASE ~b.registered
    <3> HIDE DEF At
    <3> QED BY <1>1, <1>2, <1>13, <2>3, <2>5 DEF Hidden
  <2> QED BY <2>4, <2>5
<1> QED BY <1>5, <1>6, <1>7, <1>8, <1>9, <1>11, <1>12, <1>13, NextHeld DEF HeldStep

\* While the guest holds a mapping at an address, create_mapping, remove_mapping and
\* the (un)registrations leave the buffer it sees there, and its permissions, alone.
THEOREM MappingsAlwaysStable == Spec => MappingStable
<1>1. Inv /\ [Next]_vars =>
         [\A a \in GuestAddr : owed[a] > 0 /\ owed'[a] > 0 => Backing(a)' = Backing(a)]_vars
  BY StepStable
<1> QED BY <1>1, Invariance, PTL DEF Spec, MappingStable

-----------------------------------------------------------------------------
(* The refinement.                                                         *)

\* What the abstract range knows of a registered and of a mapped buffer.
Entry(b) == [offset |-> b.offset, size |-> b.size]
View(b) == [addr |-> b.mapping.guest_addr, offset |-> b.offset, size |-> b.size,
            rw |-> b.mapping.rw, count |-> b.mapping.num_mappings, live |-> b.registered]

\* The refinement mapping, element by element.
LEMMA RangeSets ==
    /\ Registered = {Entry(b) : b \in {c \in Held : c.registered}}
    /\ Views = {View(b) : b \in {c \in Held : IsMapped(c)}}
    /\ Registered' = {Entry(b) : b \in {c \in Held' : c.registered}}
    /\ Views' = {View(b) : b \in {c \in Held' : IsMapped(c)}}
BY DEF Registered, Views, Entry, View, Held, IsMapped

\* A change of buffer b that keeps what the abstract range knows of it is a stutter, and
\* one that changes its view changes that view only.
LEMMA ReplacedMapped ==
    ASSUME Inv, NEW b \in Held, NEW e \in MmapBuffer, Held' = (Held \ {b}) \cup {e}
    PROVE  /\ e.registered = b.registered /\ Entry(e) = Entry(b) => Registered' = Registered
           /\ IsMapped(b) /\ IsMapped(e) => Views' = (Views \ {View(b)}) \cup {View(e)}
           /\ IsMapped(b) /\ ~IsMapped(e) => Views' = Views \ {View(b)}
           /\ ~IsMapped(b) /\ IsMapped(e) => Views' = Views \cup {View(e)}
<1>1. b \in MmapBuffer /\ \A c \in Held : c \in MmapBuffer
  BY HeldFacts
<1>2. ASSUME e.registered = b.registered, Entry(e) = Entry(b)
      PROVE  Registered' = Registered
  <2> HIDE DEF MmapBuffer
  <2> QED BY <1>2, RangeSets
<1>3. \A c \in Held : IsMapped(c) /\ IsMapped(b) /\ View(c) = View(b) => c = b
  BY HeldFacts DEF View
<1>4. ASSUME IsMapped(b), IsMapped(e) PROVE Views' = (Views \ {View(b)}) \cup {View(e)}
  BY <1>3, <1>4, RangeSets
<1>5. ASSUME IsMapped(b), ~IsMapped(e) PROVE Views' = Views \ {View(b)}
  BY <1>3, <1>5, RangeSets
<1>6. ASSUME ~IsMapped(b), IsMapped(e) PROVE Views' = Views \cup {View(e)}
  BY <1>6, RangeSets
<1> QED BY <1>2, <1>4, <1>5, <1>6

\* Initially both are empty.
LEMMA InitRange == Init => AbstractRange!RangeInit
<1> SUFFICES ASSUME Init PROVE AbstractRange!RangeInit
  OBVIOUS
<1>1. Held = {}
  BY DEF Init, Held, ToSet
<1> QED BY <1>1, RangeSets DEF AbstractRange!RangeInit

\* Every step of the manager is a step of the abstract range, or changes nothing of it.
LEMMA StepRange ==
    Inv /\ [Next]_vars => [AbstractRange!RangeNext]_(AbstractRange!rangeVars)
<1> SUFFICES ASSUME Inv, [Next]_vars
             PROVE  AbstractRange!RangeNext \/ (Registered' = Registered /\ Views' = Views)
  BY DEF AbstractRange!rangeVars
<1>1. \A b \in Held : /\ b \in MmapBuffer /\ b.mapping \in Mapping /\ b.offset \in Offset
                      /\ b.registered \in BOOLEAN
  BY HeldFacts DEF MmapBuffer
<1>2. CASE Same
  BY <1>2, RangeSets DEF Same
<1>3. ASSUME NEW o \in Offset, NEW size \in Sizes, Added(o, size)
      PROVE  AbstractRange!Register(o, size)
  <2> DEFINE e == NewBuffer(o, size)
  <2>1. e.registered /\ ~IsMapped(e) /\ Entry(e) = [offset |-> o, size |-> size]
    BY DEF NewBuffer, IsMapped, Entry
  <2> HIDE DEF e
  <2>2. Held' = Held \cup {e}
    BY <1>3 DEF Added, e
  <2>3. Registered' = Registered \cup {[offset |-> o, size |-> size]}
    BY <2>1, <2>2, RangeSets
  <2>4. Views' = Views
    BY <2>1, <2>2, RangeSets
  <2>5. \A r \in Registered : r.offset # o
    BY <1>3, RangeSets DEF Added, Entry
  <2> QED BY <2>3, <2>4, <2>5 DEF AbstractRange!Register
<1>4. ASSUME NEW b \in Held, Held' = Held \ {b} \/ \E e \in MmapBuffer :
                                /\ Held' = (Held \ {b}) \cup {e} /\ ~e.registered
      PROVE  Registered' = {r \in Registered : r.offset # b.offset}
  <2>1. \A c \in Held : c.offset = b.offset => c = b
    BY HeldFacts
  <2>2. \A c \in Held : Entry(c).offset = c.offset
    BY DEF Entry
  <2> QED BY <1>4, <2>1, <2>2, RangeSets
<1>v. ASSUME NEW b \in Held, NEW v \in Views, v.offset = b.offset
      PROVE  v = View(b)
  BY <1>v, RangeSets, HeldFacts DEF View
<1>5. ASSUME NEW b \in Held, Unregistered(b) PROVE AbstractRange!Unregister(b.offset)
  <2> DEFINE e == [b EXCEPT !.registered = FALSE]
  <2>1. /\ e \in MmapBuffer /\ e.registered = FALSE /\ e.mapping = b.mapping
        /\ e.offset = b.offset /\ e.size = b.size
    BY <1>1 DEF MmapBuffer
  <2>2. Held' = (Held \ {b}) \cup {e} /\ IsMapped(b) /\ IsMapped(e)
    BY <1>5, <2>1 DEF Unregistered, IsMapped
  <2> HIDE DEF e
  <2>3. View(b) \in Views
    BY <2>2, RangeSets
  <2>4. View(e) = [View(b) EXCEPT !.live = FALSE] /\ View(b).offset = b.offset
    <3>1. View(e) = [addr |-> b.mapping.guest_addr, offset |-> b.offset, size |-> b.size,
                     rw |-> b.mapping.rw, count |-> b.mapping.num_mappings, live |-> FALSE]
      BY <2>1 DEF View
    <3>2. ASSUME NEW x PROVE [View(b) EXCEPT !.live = x] =
                    [addr |-> b.mapping.guest_addr, offset |-> b.offset, size |-> b.size,
                     rw |-> b.mapping.rw, count |-> b.mapping.num_mappings, live |-> x]
      BY DEF View
    <3> QED BY <3>1, <3>2 DEF View
  <2>5. \A v \in Views : v.offset = b.offset => v = View(b)
    BY <1>v
  <2>6. Views' = (Views \ {View(b)}) \cup {View(e)}
    BY <2>1, <2>2, ReplacedMapped
  <2>7. Views' = {IF v.offset = b.offset THEN [v EXCEPT !.live = FALSE] ELSE v : v \in Views}
    BY <2>3, <2>4, <2>5, <2>6
  <2> QED BY <1>4, <2>1, <2>2, <2>7 DEF AbstractRange!Unregister
<1>6. ASSUME NEW b \in Held, Dropped(b) PROVE AbstractRange!Unregister(b.offset)
  <2>1. Views' = Views
    BY <1>6, RangeSets DEF Dropped
  <2>2. \A v \in Views : v.offset # b.offset
    BY <1>6, RangeSets, HeldFacts DEF Dropped, View
  <2>3. Views' = {IF v.offset = b.offset THEN [v EXCEPT !.live = FALSE] ELSE v : v \in Views}
    BY <2>1, <2>2
  <2> QED BY <1>4, <1>6, <2>3 DEF Dropped, AbstractRange!Unregister
<1>7. ASSUME NEW b \in Held, NEW a \in GuestAddr, NEW rw \in BOOLEAN, Shown(b, a, rw)
      PROVE  Entry(b) \in Registered /\ AbstractRange!Show(Entry(b), a, rw)
  <2> DEFINE m == [num_mappings |-> 1, guest_addr |-> a, rw |-> rw]
             e == [b EXCEPT !.mapping = m]
  <2>1. m \in Mapping /\ m # NoMapping
    BY DEF Mapping, NoMapping
  <2>2. /\ e \in MmapBuffer /\ e.registered = b.registered /\ e.mapping = m
        /\ e.offset = b.offset /\ e.size = b.size
    BY <1>1, <2>1 DEF MmapBuffer
  <2>3. /\ IsMapped(e) /\ Entry(e) = Entry(b)
        /\ View(e) = [addr |-> a, offset |-> b.offset, size |-> b.size, rw |-> rw,
                      count |-> 1, live |-> b.registered]
    BY <2>1, <2>2 DEF IsMapped, Entry, View
  <2>4. Held' = (Held \ {b}) \cup {e} /\ ~IsMapped(b) /\ b.registered
    BY <1>7 DEF Shown
  <2> HIDE DEF e, m
  <2>5. Registered' = Registered /\ Views' = Views \cup {View(e)}
    BY <2>2, <2>3, <2>4, ReplacedMapped
  <2>6. Entry(b) \in Registered
    BY <2>4, RangeSets
  <2>7. ASSUME NEW v \in Views PROVE v.offset # b.offset /\ v.addr # a
    <3>1. PICK c \in Held : IsMapped(c) /\ v = View(c)
      BY RangeSets
    <3>2. c # b /\ v.offset = c.offset /\ v.addr = c.mapping.guest_addr
      BY <2>4, <3>1 DEF View
    <3> QED BY <1>7, <3>1, <3>2, HeldFacts DEF Shown
  <2>8. Entry(b).offset = b.offset /\ Entry(b).size = b.size
    BY DEF Entry
  <2>9. b.registered = TRUE
    BY <1>1, <2>4
  <2> QED BY <2>3, <2>5, <2>6, <2>7, <2>8, <2>9 DEF AbstractRange!Show
<1>8. ASSUME NEW b \in Held, IsMapped(b), NEW n \in Nat \ {0},
             Held' = (Held \ {b}) \cup
                {[b EXCEPT !.mapping = [b.mapping EXCEPT !.num_mappings = n]]}
      PROVE  /\ Registered' = Registered /\ View(b) \in Views
             /\ Views' = (Views \ {View(b)}) \cup {[View(b) EXCEPT !.count = n]}
  <2> DEFINE m == [b.mapping EXCEPT !.num_mappings = n]
             e == [b EXCEPT !.mapping = m]
  <2>1. /\ m \in Mapping /\ m.num_mappings = n
        /\ m.guest_addr = b.mapping.guest_addr /\ m.rw = b.mapping.rw
    BY <1>1 DEF Mapping
  <2>2. /\ e \in MmapBuffer /\ e.mapping = m /\ e.offset = b.offset /\ e.size = b.size
        /\ e.registered = b.registered
    BY <1>1, <2>1 DEF MmapBuffer
  <2>3. IsMapped(e) /\ Entry(e) = Entry(b)
    BY <2>1, <2>2 DEF IsMapped, NoMapping, Entry
  <2>4. Held' = (Held \ {b}) \cup {e}
    BY <1>8
  <2> HIDE DEF e, m
  <2>5. View(e) = [View(b) EXCEPT !.count = n]
    BY <2>1, <2>2 DEF View
  <2> QED BY <1>8, <2>2, <2>3, <2>4, <2>5, ReplacedMapped, RangeSets
<1>9. ASSUME NEW b \in Held, Shared(b)
      PROVE  View(b) \in Views /\ AbstractRange!Share(View(b))
  <2>1. b.mapping.num_mappings + 1 \in Nat \ {0} /\ View(b).count = b.mapping.num_mappings
    BY <1>9, HeldFacts DEF Shared, View
  <2>2. /\ Registered' = Registered /\ View(b) \in Views
        /\ Views' = (Views \ {View(b)}) \cup {[View(b) EXCEPT !.count = @ + 1]}
    BY <1>8, <1>9, <2>1 DEF Shared
  <2>3. View(b).live
    BY <1>9 DEF Shared, View
  <2> QED BY <2>2, <2>3 DEF AbstractRange!Share
<1>10. ASSUME NEW b \in Held, Unshared(b)
       PROVE  View(b) \in Views /\ AbstractRange!Hide(View(b))
  <2>1. b.mapping.num_mappings - 1 \in Nat \ {0} /\ View(b).count = b.mapping.num_mappings
    BY <1>10, HeldFacts DEF Unshared, View
  <2>2. /\ Registered' = Registered /\ View(b) \in Views
        /\ Views' = (Views \ {View(b)}) \cup {[View(b) EXCEPT !.count = @ - 1]}
    BY <1>8, <1>10, <2>1 DEF Unshared
  <2> QED BY <1>10, <2>1, <2>2 DEF AbstractRange!Hide, Unshared
<1>11. ASSUME NEW b \in Held, Hidden(b)
       PROVE  View(b) \in Views /\ AbstractRange!Hide(View(b))
  <2> DEFINE e == [b EXCEPT !.mapping = NoMapping]
  <2>1. NoMapping \in Mapping
    BY DEF NoMapping, Mapping
  <2>2. /\ e \in MmapBuffer /\ ~IsMapped(e) /\ e.registered = b.registered
        /\ Entry(e) = Entry(b)
    BY <1>1, <2>1 DEF MmapBuffer, IsMapped, Entry
  <2> HIDE DEF e
  <2>3. IsMapped(b) /\ View(b).count = 1
    BY <1>11 DEF Hidden, View
  <2>4. View(b) \in Views
    BY <2>3, RangeSets
  <2>5. Registered' = Registered /\ Views' = Views \ {View(b)}
    <3>1. CASE b.registered
      <4>1. Held' = (Held \ {b}) \cup {e}
        BY <1>11, <3>1 DEF Hidden, e
      <4> QED BY <2>2, <2>3, <4>1, ReplacedMapped
    <3>2. CASE ~b.registered
      <4>1. Held' = Held \ {b}
        BY <1>11, <3>2 DEF Hidden
      <4>2. \A c \in Held : IsMapped(c) /\ View(c) = View(b) => c = b
        BY <2>3, HeldFacts DEF View
      <4> QED BY <2>3, <3>2, <4>1, <4>2, RangeSets
    <3> QED BY <3>1, <3>2
  <2> QED BY <2>3, <2>4, <2>5 DEF AbstractRange!Hide
<1> QED
  BY <1>1, <1>2, <1>3, <1>5, <1>6, <1>7, <1>9, <1>10, <1>11, NextHeld
  DEF HeldStep, AbstractRange!RangeNext

\* The manager of mmap.rs implements the abstract range, for every page size, range and
\* set of addresses: its vector, its searches and its removals show the guest and the
\* devices nothing else.
THEOREM RangeImplemented == Spec => ImplementsRange
BY InitRange, StepRange, Invariance, PTL DEF Spec, ImplementsRange, AbstractRange!RangeSpec
=============================================================================
