-------------------------- MODULE MmapManagerProofs --------------------------
(***************************************************************************)
(* The invariants of the MMAP range manager, for every page size, range,   *)
(* set of sizes and set of guest addresses.                                *)
(***************************************************************************)
EXTENDS MmapManager, SequenceTheorems, TLAPS

-----------------------------------------------------------------------------
(* The two operations on the vector, element by element.                   *)

\* Vec::insert shifts the elements from position i on by one.
LEMMA InsertAtElements ==
    ASSUME NEW S, NEW s \in Seq(S), NEW e \in S, NEW i \in 1 .. Len(s) + 1
    PROVE  /\ InsertAt(s, i, e) \in Seq(S)
           /\ Len(InsertAt(s, i, e)) = Len(s) + 1
           /\ \A j \in 1 .. Len(s) + 1 :
                 InsertAt(s, i, e)[j] = IF j < i THEN s[j]
                                        ELSE IF j = i THEN e ELSE s[j - 1]
<1> DEFINE front == SubSeq(s, 1, i - 1)
           back  == SubSeq(s, i, Len(s))
           one   == <<e>>
           fe    == front \o one
           all   == fe \o back
<1>1. /\ front \in Seq(S) /\ Len(front) = i - 1
      /\ \A j \in 1 .. i - 1 : front[j] = s[j]
  OBVIOUS
<1>2. /\ back \in Seq(S) /\ Len(back) = Len(s) - i + 1
      /\ \A j \in 1 .. Len(s) - i + 1 : back[j] = s[i + j - 1]
  OBVIOUS
<1>3. one \in Seq(S) /\ Len(one) = 1 /\ one[1] = e
  OBVIOUS
<1>4. InsertAt(s, i, e) = all
  BY DEF InsertAt
<1> HIDE DEF front, back, one, all
<1>a. front \in Seq(S) /\ back \in Seq(S) /\ one \in Seq(S)
  BY <1>1, <1>2, <1>3
<1>5. /\ fe \in Seq(S)
      /\ Len(fe) = Len(front) + Len(one)
      /\ \A j \in 1 .. Len(front) + Len(one) :
            fe[j] = IF j <= Len(front) THEN front[j] ELSE one[j - Len(front)]
  BY <1>a, ConcatProperties, Zenon
<1> HIDE DEF fe
<1>b. fe \in Seq(S)
  BY <1>5
<1>6. /\ all \in Seq(S)
      /\ Len(all) = Len(fe) + Len(back)
      /\ \A j \in 1 .. Len(fe) + Len(back) :
            all[j] = IF j <= Len(fe) THEN fe[j] ELSE back[j - Len(fe)]
  BY <1>a, <1>b, ConcatProperties, Zenon DEF all
<1>7. /\ Len(fe) = i
      /\ \A j \in 1 .. i : fe[j] = IF j < i THEN s[j] ELSE e
  BY <1>1, <1>3, <1>5
<1> QED BY <1>2, <1>4, <1>6, <1>7

\* Vec::remove closes the gap at position i.
LEMMA RemoveAtElements ==
    ASSUME NEW S, NEW s \in Seq(S), NEW i \in 1 .. Len(s)
    PROVE  /\ RemoveAt(s, i) \in Seq(S)
           /\ Len(RemoveAt(s, i)) = Len(s) - 1
           /\ \A j \in 1 .. Len(s) - 1 :
                 RemoveAt(s, i)[j] = IF j < i THEN s[j] ELSE s[j + 1]
<1> DEFINE front == SubSeq(s, 1, i - 1)
           back  == SubSeq(s, i + 1, Len(s))
           all   == front \o back
<1>1. /\ front \in Seq(S) /\ Len(front) = i - 1
      /\ \A j \in 1 .. i - 1 : front[j] = s[j]
  OBVIOUS
<1>2. /\ back \in Seq(S) /\ Len(back) = Len(s) - i
      /\ \A j \in 1 .. Len(s) - i : back[j] = s[i + j]
  OBVIOUS
<1>3. RemoveAt(s, i) = all
  BY DEF RemoveAt
<1> HIDE DEF front, back
<1>a. front \in Seq(S) /\ back \in Seq(S)
  BY <1>1, <1>2
<1>4. /\ all \in Seq(S)
      /\ Len(all) = Len(front) + Len(back)
      /\ \A j \in 1 .. Len(front) + Len(back) :
            all[j] = IF j <= Len(front) THEN front[j] ELSE back[j - Len(front)]
  BY <1>a, ConcatProperties, Zenon
<1> HIDE DEF all
<1>5. Len(front) = i - 1 /\ Len(front) + Len(back) = Len(s) - 1
  BY <1>1, <1>2
<1>6. ASSUME NEW j \in 1 .. Len(s) - 1
      PROVE  all[j] = IF j < i THEN s[j] ELSE s[j + 1]
  <2>1. CASE j < i
    BY <1>1, <1>4, <1>5, <2>1
  <2>2. CASE ~(j < i)
    <3>1. j - (i - 1) \in 1 .. Len(s) - i /\ i + (j - (i - 1)) = j + 1
      BY <2>2
    <3>2. j \in 1 .. Len(front) + Len(back) /\ ~(j <= Len(front))
      BY <1>5, <2>2
    <3>3. all[j] = back[j - Len(front)]
      BY <1>4, <3>2, Zenon
    <3>4. all[j] = back[j - (i - 1)]
      BY <1>5, <3>3, Zenon
    <3> QED BY <1>2, <2>2, <3>1, <3>4
  <2> QED BY <2>1, <2>2
<1> QED BY <1>3, <1>4, <1>5, <1>6

-----------------------------------------------------------------------------
(* The inductive invariant.  Type correctness is not inductive by itself:  *)
(* remove_mapping decrements a count, which stays a natural number only    *)
(* because mapped buffers count the mappings the guest holds.              *)

Inv == TypeOK /\ Sorted /\ NoDeadBuffer /\ MappingsCounted

\* Initially the range is empty.
LEMMA InitInv == Init => Inv
<1> SUFFICES ASSUME Init PROVE Inv
  OBVIOUS
<1>1. buffers \in Seq(MmapBuffer) /\ DOMAIN buffers = {}
  BY DEF Init
<1>2. ret \in Ret
  BY DEF Init, Ret, Result
<1>3. TypeOK
  BY <1>1, <1>2 DEF Init, TypeOK
<1>4. Sorted /\ NoDeadBuffer /\ MappingsCounted
  BY <1>1 DEF Init, Sorted, NoDeadBuffer, MappingsCounted
<1> QED BY <1>3, <1>4 DEF Inv

\* A call that fails changes nothing but the value it returns.
LEMMA FailInv ==
    ASSUME Inv, UNCHANGED <<buffers, host, owed, panicked>>, ret' \in Ret
    PROVE  Inv'
<1>1. TypeOK'
  BY DEF Inv, TypeOK
<1>2. Sorted' /\ NoDeadBuffer' /\ MappingsCounted'
  BY DEF Inv, Sorted, NoDeadBuffer, MappingsCounted, IsMapped
<1> QED BY <1>1, <1>2 DEF Inv

\* Inserting a registered, unmapped buffer where the sort order wants it.
LEMMA InsertInv ==
    ASSUME Inv, NEW i \in 1 .. Len(buffers) + 1,
           NEW o \in Offset, NEW size \in Nat, InsertionPoint(o, i),
           buffers' = InsertAt(buffers, i, NewBuffer(o, size)),
           UNCHANGED <<host, owed, panicked>>, ret' \in Ret
    PROVE  Inv'
<1> DEFINE b == NewBuffer(o, size)
           n == Len(buffers)
<1>1. b \in MmapBuffer /\ b.offset = o /\ b.registered /\ ~IsMapped(b)
  BY DEF NewBuffer, MmapBuffer, Mapping, NoMapping, IsMapped
<1> HIDE DEF b
<1>2. buffers \in Seq(MmapBuffer) /\ n \in Nat /\ DOMAIN buffers = 1 .. n
  BY DEF Inv, TypeOK
<1>3. /\ buffers' \in Seq(MmapBuffer)
      /\ Len(buffers') = n + 1
      /\ \A j \in 1 .. n + 1 :
            buffers'[j] = IF j < i THEN buffers[j] ELSE IF j = i THEN b ELSE buffers[j - 1]
  <2>1. buffers' = InsertAt(buffers, i, b)
    BY DEF b
  <2>2. b \in MmapBuffer /\ buffers \in Seq(MmapBuffer) /\ i \in 1 .. Len(buffers) + 1
    BY <1>1, <1>2
  <2>3. /\ InsertAt(buffers, i, b) \in Seq(MmapBuffer)
        /\ Len(InsertAt(buffers, i, b)) = Len(buffers) + 1
        /\ \A j \in 1 .. Len(buffers) + 1 :
              InsertAt(buffers, i, b)[j] = IF j < i THEN buffers[j]
                                           ELSE IF j = i THEN b ELSE buffers[j - 1]
    BY <2>2, InsertAtElements, SMT
  <2> QED BY <2>1, <2>3, Zenon
<1>4. DOMAIN buffers' = 1 .. n + 1
  BY <1>3
<1>5. TypeOK'
  BY <1>3 DEF Inv, TypeOK
<1>6. /\ \A j \in 1 .. i - 1 : buffers[j].offset < o
      /\ \A j \in i .. n : o < buffers[j].offset
  BY DEF InsertionPoint
<1>7. ASSUME NEW j \in 1 .. n + 1
      PROVE  \/ j = i /\ buffers'[j] = b
             \/ j < i /\ j \in 1 .. n /\ buffers'[j] = buffers[j]
             \/ j > i /\ j - 1 \in 1 .. n /\ buffers'[j] = buffers[j - 1]
  BY <1>2, <1>3
<1>8. Sorted'
  <2> SUFFICES ASSUME NEW j \in 1 .. n + 1, NEW k \in 1 .. n + 1, j < k
               PROVE  buffers'[j].offset < buffers'[k].offset
    BY <1>4 DEF Sorted
  <2>1. \A x, y \in 1 .. n : x < y => buffers[x].offset < buffers[y].offset
    BY <1>2 DEF Inv, Sorted
  <2>2. CASE j < i /\ k < i
    BY <1>3, <2>1, <2>2
  <2>3. CASE j < i /\ k = i
    BY <1>1, <1>3, <1>6, <2>3
  <2>4. CASE j < i /\ k > i
    <3>1. buffers'[j] = buffers[j] /\ j \in 1 .. n
      BY <1>7, <2>4
    <3>2. buffers'[k] = buffers[k - 1] /\ k - 1 \in 1 .. n /\ j < k - 1
      BY <1>7, <2>4
    <3> QED BY <2>1, <3>1, <3>2
  <2>5. CASE j = i /\ k > i
    BY <1>1, <1>3, <1>6, <2>5
  <2>6. CASE j > i /\ k > i
    BY <1>7, <2>1, <2>6
  <2> QED BY <1>2, <2>2, <2>3, <2>4, <2>5, <2>6
<1>9. NoDeadBuffer'
  BY <1>1, <1>2, <1>4, <1>7 DEF Inv, NoDeadBuffer, IsMapped
<1>10. MappingsCounted'
  <2>1. ASSUME NEW j \in 1 .. n + 1, IsMapped(buffers'[j])
        PROVE  \E k \in 1 .. n : /\ buffers'[j] = buffers[k]
                                 /\ j # i
                                 /\ k = IF j < i THEN j ELSE j - 1
    BY <1>1, <1>7, <2>1
  <2>2. ASSUME NEW j \in 1 .. n + 1, IsMapped(buffers'[j])
        PROVE  /\ buffers'[j].mapping.guest_addr \in host
               /\ buffers'[j].mapping.num_mappings > 0
               /\ owed[buffers'[j].mapping.guest_addr] = buffers'[j].mapping.num_mappings
    BY <1>2, <2>1, <2>2 DEF Inv, MappingsCounted
  <2>3. ASSUME NEW j \in 1 .. n + 1, NEW k \in 1 .. n + 1, j # k,
               IsMapped(buffers'[j]), IsMapped(buffers'[k])
        PROVE  buffers'[j].mapping.guest_addr # buffers'[k].mapping.guest_addr
    <3>1. PICK x \in 1 .. n : buffers'[j] = buffers[x] /\ j # i /\ x = IF j < i THEN j ELSE j - 1
      BY <2>1, <2>3
    <3>2. PICK y \in 1 .. n : buffers'[k] = buffers[y] /\ k # i /\ y = IF k < i THEN k ELSE k - 1
      BY <2>1, <2>3
    <3>3. x # y
      BY <2>3, <3>1, <3>2
    <3> QED BY <1>2, <2>3, <3>1, <3>2, <3>3 DEF Inv, MappingsCounted
  <2>4. ASSUME NEW a \in GuestAddr, owed[a] > 0
        PROVE  \E j \in 1 .. n + 1 : IsMapped(buffers'[j]) /\ buffers'[j].mapping.guest_addr = a
    <3>1. PICK x \in 1 .. n : IsMapped(buffers[x]) /\ buffers[x].mapping.guest_addr = a
      BY <1>2, <2>4 DEF Inv, MappingsCounted
    <3>2. CASE x < i
      <4>1. x \in 1 .. n + 1 /\ buffers'[x] = buffers[x]
        BY <1>2, <1>3, <3>2
      <4> QED BY <3>1, <4>1
    <3>3. CASE x >= i
      <4>1. x + 1 \in 1 .. n + 1 /\ buffers'[x + 1] = buffers[x]
        BY <1>2, <1>3, <3>3
      <4> QED BY <3>1, <4>1
    <3> QED BY <3>2, <3>3
  <2>5. host' = host /\ owed' = owed /\ DOMAIN buffers' = 1 .. n + 1
    BY <1>4
  <2> QED BY <2>2, <2>3, <2>4, <2>5 DEF MappingsCounted, IsMapped
<1> QED BY <1>5, <1>8, <1>9, <1>10 DEF Inv

\* The other mappings survive a step that changes or removes buffers[i]: their
\* addresses stay mapped and their counts stay right.
OthersKept(i) ==
    \A k \in DOMAIN buffers :
       k # i /\ IsMapped(buffers[k])
          => /\ buffers[k].mapping.guest_addr \in host'
             /\ owed'[buffers[k].mapping.guest_addr] = owed[buffers[k].mapping.guest_addr]

\* Replacing buffers[i] by a buffer b at the same offset that is counted right.
LEMMA UpdateInv ==
    ASSUME Inv, NEW i \in DOMAIN buffers, NEW b \in MmapBuffer,
           buffers' = [buffers EXCEPT ![i] = b],
           b.offset = buffers[i].offset,
           b.registered \/ IsMapped(b),
           host' \in SUBSET GuestAddr, owed' \in [GuestAddr -> Nat],
           panicked' \in BOOLEAN, ret' \in Ret,
           OthersKept(i),
           IsMapped(b) => /\ b.mapping.guest_addr \in host'
                          /\ b.mapping.num_mappings > 0
                          /\ owed'[b.mapping.guest_addr] = b.mapping.num_mappings
                          /\ \A k \in DOMAIN buffers : k # i /\ IsMapped(buffers[k])
                                => buffers[k].mapping.guest_addr # b.mapping.guest_addr,
           \A a \in GuestAddr : owed'[a] > 0
              => \/ IsMapped(b) /\ b.mapping.guest_addr = a
                 \/ owed[a] > 0 /\ ~(IsMapped(buffers[i]) /\ buffers[i].mapping.guest_addr = a)
    PROVE  Inv'
<1> DEFINE n == Len(buffers)
<1>1. buffers \in Seq(MmapBuffer) /\ n \in Nat /\ DOMAIN buffers = 1 .. n
  BY DEF Inv, TypeOK
<1>2. /\ buffers' \in Seq(MmapBuffer) /\ DOMAIN buffers' = 1 .. n
      /\ \A k \in 1 .. n : buffers'[k] = IF k = i THEN b ELSE buffers[k]
  BY <1>1
<1>3. TypeOK'
  BY <1>2 DEF TypeOK
<1>4. Sorted'
  BY <1>1, <1>2 DEF Inv, Sorted
<1>5. NoDeadBuffer'
  BY <1>1, <1>2 DEF Inv, NoDeadBuffer, IsMapped
<1>6. ASSUME NEW k \in 1 .. n, IsMapped(buffers'[k])
      PROVE  /\ buffers'[k].mapping.guest_addr \in host'
             /\ buffers'[k].mapping.num_mappings > 0
             /\ owed'[buffers'[k].mapping.guest_addr] = buffers'[k].mapping.num_mappings
  <2>1. CASE k = i
    BY <1>2, <1>6, <2>1
  <2>2. CASE k # i
    <3>1. buffers'[k] = buffers[k] /\ IsMapped(buffers[k])
      BY <1>2, <1>6, <2>2
    <3> QED BY <1>1, <2>2, <3>1 DEF Inv, MappingsCounted, OthersKept
  <2> QED BY <2>1, <2>2
<1>7. ASSUME NEW j \in 1 .. n, NEW k \in 1 .. n, j # k,
             IsMapped(buffers'[j]), IsMapped(buffers'[k])
      PROVE  buffers'[j].mapping.guest_addr # buffers'[k].mapping.guest_addr
  <2>1. CASE j = i \/ k = i
    BY <1>1, <1>2, <1>7, <2>1
  <2>2. CASE j # i /\ k # i
    BY <1>1, <1>2, <1>7, <2>2 DEF Inv, MappingsCounted
  <2> QED BY <2>1, <2>2
<1>8. ASSUME NEW a \in GuestAddr, owed'[a] > 0
      PROVE  \E k \in 1 .. n : IsMapped(buffers'[k]) /\ buffers'[k].mapping.guest_addr = a
  <2>1. CASE IsMapped(b) /\ b.mapping.guest_addr = a
    BY <1>1, <1>2, <2>1
  <2>2. CASE owed[a] > 0 /\ ~(IsMapped(buffers[i]) /\ buffers[i].mapping.guest_addr = a)
    <3>1. PICK k \in 1 .. n : IsMapped(buffers[k]) /\ buffers[k].mapping.guest_addr = a
      BY <1>1, <2>2 DEF Inv, MappingsCounted
    <3> QED BY <1>2, <2>2, <3>1
  <2> QED BY <1>8, <2>1, <2>2
<1>9. MappingsCounted'
  BY <1>2, <1>6, <1>7, <1>8 DEF MappingsCounted, IsMapped
<1> QED BY <1>3, <1>4, <1>5, <1>9 DEF Inv

\* RemoveAtElements for the vector of buffers.
LEMMA RemoveAtBuffers ==
    ASSUME NEW s \in Seq(MmapBuffer), NEW i \in 1 .. Len(s)
    PROVE  /\ RemoveAt(s, i) \in Seq(MmapBuffer)
           /\ Len(RemoveAt(s, i)) = Len(s) - 1
           /\ \A j \in 1 .. Len(s) - 1 :
                 RemoveAt(s, i)[j] = IF j < i THEN s[j] ELSE s[j + 1]
BY RemoveAtElements

\* Removing buffers[i] when the guest has no mapping of it left.
LEMMA RemoveInv ==
    ASSUME Inv, NEW i \in DOMAIN buffers,
           buffers' = RemoveAt(buffers, i),
           host' \in SUBSET GuestAddr, owed' \in [GuestAddr -> Nat],
           panicked' \in BOOLEAN, ret' \in Ret,
           OthersKept(i),
           \A a \in GuestAddr : owed'[a] > 0
              => owed[a] > 0 /\ ~(IsMapped(buffers[i]) /\ buffers[i].mapping.guest_addr = a)
    PROVE  Inv'
<1> DEFINE n == Len(buffers)
           from(j) == IF j < i THEN j ELSE j + 1
<1>1. buffers \in Seq(MmapBuffer) /\ n \in Nat /\ DOMAIN buffers = 1 .. n
  BY DEF Inv, TypeOK
<1>2. /\ RemoveAt(buffers, i) \in Seq(MmapBuffer)
      /\ Len(RemoveAt(buffers, i)) = Len(buffers) - 1
      /\ \A j \in 1 .. Len(buffers) - 1 :
            RemoveAt(buffers, i)[j] = IF j < i THEN buffers[j] ELSE buffers[j + 1]
  <2>1. buffers \in Seq(MmapBuffer) /\ i \in 1 .. Len(buffers)
    BY <1>1
  <2> QED BY <2>1, RemoveAtBuffers, Zenon
<1>3. buffers' \in Seq(MmapBuffer) /\ DOMAIN buffers' = 1 .. n - 1
  BY <1>1, <1>2
<1>4. ASSUME NEW j \in 1 .. n - 1
      PROVE  from(j) \in 1 .. n /\ from(j) # i /\ buffers'[j] = buffers[from(j)]
  BY <1>1, <1>2
<1>5. \A j, k \in 1 .. n - 1 : j < k => from(j) < from(k)
  BY <1>1
<1>6. \A k \in 1 .. n : k # i => \E j \in 1 .. n - 1 : from(j) = k
  <2> SUFFICES ASSUME NEW k \in 1 .. n, k # i PROVE \E j \in 1 .. n - 1 : from(j) = k
    OBVIOUS
  <2>1. CASE k < i
    <3>1. k \in 1 .. n - 1 /\ from(k) = k
      BY <1>1, <2>1
    <3> QED BY <3>1
  <2>2. CASE k > i
    <3>1. k - 1 \in 1 .. n - 1 /\ from(k - 1) = k
      BY <1>1, <2>2
    <3> QED BY <3>1
  <2> QED BY <1>1, <2>1, <2>2
<1> HIDE DEF from
<1>7. TypeOK'
  BY <1>3 DEF TypeOK
<1>8. Sorted'
  <2> SUFFICES ASSUME NEW j \in 1 .. n - 1, NEW k \in 1 .. n - 1, j < k
               PROVE  buffers'[j].offset < buffers'[k].offset
    BY <1>3 DEF Sorted
  <2>1. from(j) \in 1 .. n /\ from(k) \in 1 .. n /\ from(j) < from(k)
    BY <1>4, <1>5
  <2>2. buffers[from(j)].offset < buffers[from(k)].offset
    BY <1>1, <2>1 DEF Inv, Sorted
  <2> QED BY <1>4, <2>2
<1>9. NoDeadBuffer'
  BY <1>1, <1>3, <1>4 DEF Inv, NoDeadBuffer, IsMapped
<1>10. ASSUME NEW j \in 1 .. n - 1, IsMapped(buffers'[j])
       PROVE  /\ buffers'[j].mapping.guest_addr \in host'
              /\ buffers'[j].mapping.num_mappings > 0
              /\ owed'[buffers'[j].mapping.guest_addr] = buffers'[j].mapping.num_mappings
  <2>1. IsMapped(buffers[from(j)]) /\ from(j) \in 1 .. n /\ from(j) # i
    BY <1>4, <1>10
  <2> QED BY <1>1, <1>4, <2>1 DEF Inv, MappingsCounted, OthersKept
<1>11. ASSUME NEW j \in 1 .. n - 1, NEW k \in 1 .. n - 1, j # k,
              IsMapped(buffers'[j]), IsMapped(buffers'[k])
       PROVE  buffers'[j].mapping.guest_addr # buffers'[k].mapping.guest_addr
  <2>1. from(j) # from(k)
    BY <1>1, <1>4, <1>5, <1>11
  <2>2. /\ IsMapped(buffers[from(j)]) /\ from(j) \in 1 .. n
        /\ IsMapped(buffers[from(k)]) /\ from(k) \in 1 .. n
    BY <1>4, <1>11
  <2> QED BY <1>1, <1>4, <2>1, <2>2 DEF Inv, MappingsCounted
<1>12. ASSUME NEW a \in GuestAddr, owed'[a] > 0
       PROVE  \E j \in 1 .. n - 1 : IsMapped(buffers'[j]) /\ buffers'[j].mapping.guest_addr = a
  <2>1. PICK k \in 1 .. n : IsMapped(buffers[k]) /\ buffers[k].mapping.guest_addr = a
    BY <1>1, <1>12 DEF Inv, MappingsCounted
  <2>2. k # i
    BY <1>12, <2>1
  <2>3. PICK j \in 1 .. n - 1 : from(j) = k
    BY <1>6, <2>2
  <2> QED BY <1>4, <2>1, <2>3
<1>13. MappingsCounted'
  <2>1. \A j \in DOMAIN buffers' : IsMapped(buffers'[j])
           => /\ buffers'[j].mapping.guest_addr \in host'
              /\ buffers'[j].mapping.num_mappings > 0
              /\ owed'[buffers'[j].mapping.guest_addr] = buffers'[j].mapping.num_mappings
    BY <1>3, <1>10
  <2>2. \A j, k \in DOMAIN buffers' : IsMapped(buffers'[j]) /\ IsMapped(buffers'[k]) /\ j # k
           => buffers'[j].mapping.guest_addr # buffers'[k].mapping.guest_addr
    BY <1>3, <1>11
  <2>3. \A a \in GuestAddr : owed'[a] > 0
           => \E j \in DOMAIN buffers' :
                 IsMapped(buffers'[j]) /\ buffers'[j].mapping.guest_addr = a
    BY <1>3, <1>12
  <2> QED BY <2>1, <2>2, <2>3, Zenon DEF MappingsCounted, IsMapped
<1> QED BY <1>7, <1>8, <1>9, <1>13 DEF Inv

-----------------------------------------------------------------------------
(* Every call preserves the invariant.                                     *)

\* What is known of the buffer at index i, for the provers.
LEMMA BufferType ==
    ASSUME Inv, NEW i \in DOMAIN buffers
    PROVE  /\ buffers[i] \in MmapBuffer
           /\ buffers[i].offset \in Offset /\ buffers[i].size \in Nat
           /\ buffers[i].registered \in BOOLEAN /\ buffers[i].mapping \in Mapping
<1>1. buffers[i] \in MmapBuffer
  BY DEF Inv, TypeOK
<1> QED BY <1>1 DEF MmapBuffer

\* A mapped buffer and the guest agree on the number of its mappings.
LEMMA MappedType ==
    ASSUME Inv, NEW i \in DOMAIN buffers, IsMapped(buffers[i])
    PROVE  LET m == buffers[i].mapping
           IN  /\ m.guest_addr \in GuestAddr /\ m.guest_addr \in host
               /\ m.num_mappings \in Nat \ {0} /\ m.rw \in BOOLEAN
               /\ owed[m.guest_addr] = m.num_mappings
               /\ \A k \in DOMAIN buffers : k # i /\ IsMapped(buffers[k])
                     => buffers[k].mapping.guest_addr # m.guest_addr
<1>1. buffers[i].mapping \in Mapping
  BY BufferType
<1> QED BY <1>1 DEF Inv, TypeOK, MappingsCounted, Mapping

\* Failures return one of the results.
LEMMA FailStep ==
    ASSUME Inv, NEW op \in {"register", "alloc", "unregister", "map", "unmap"},
           NEW o \in Offset \cup {NoOffset}, NEW r \in Result, Fail(op, o, r)
    PROVE  Inv'
<1>1. ret' \in Ret
  BY DEF Fail, Return, Ret
<1> QED BY <1>1, FailInv DEF Fail

\* register_buffer_by_offset preserves the invariant: it fails, or inserts a buffer
\* at an offset that no buffer has.
LEMMA RegisterByOffsetInv ==
    ASSUME Inv, NEW op \in {"register", "alloc"}, NEW o \in Offset, NEW size \in Nat,
           RegisterByOffset(op, o, size)
    PROVE  Inv'
<1>1. CASE \E r \in {"EmptyBuffer", "UnalignedOffset", "OffsetOccupied"} : Fail(op, o, r)
  BY <1>1, FailStep DEF Result
<1>2. CASE /\ \E i \in 1 .. Len(buffers) + 1 :
                 /\ InsertionPoint(o, i)
                 /\ buffers' = InsertAt(buffers, i, NewBuffer(o, size))
           /\ Return(op, o, "Ok")
           /\ UNCHANGED <<host, owed, panicked>>
  <2>1. ret' \in Ret
    BY <1>2 DEF Return, Ret, Result
  <2> QED BY <1>2, <2>1, InsertInv
<1> QED BY <1>1, <1>2 DEF RegisterByOffset

\* The offset register_buffer(None, ..) chooses is one of the range.
LEMMA AutoOffsetType == Inv => AutoOffset % Space \in Offset
<1> SUFFICES ASSUME Inv PROVE AutoOffset % Space \in Offset
  OBVIOUS
<1>1. Space \in Nat \ {0} /\ PageSize \in Nat \ {0}
  BY ConstantsAssumption
<1>2. AutoOffset \in Nat
  <2>1. CASE buffers = <<>>
    BY <2>1 DEF AutoOffset
  <2>2. CASE buffers # <<>>
    <3>1. Len(buffers) \in DOMAIN buffers
      BY <2>2 DEF Inv, TypeOK
    <3>2. buffers[Len(buffers)].offset \in Nat
      BY <1>1, <3>1, BufferType DEF Offset
    <3>3. buffers[Len(buffers)].offset \div PageSize \in Nat
      BY <1>1, <3>2
    <3>4. \A q \in Nat : (q + 1) * PageSize \in Nat
      BY <1>1
    <3> QED BY <2>2, <3>3, <3>4 DEF AutoOffset, NextPage
  <2> QED BY <2>1, <2>2
<1> QED BY <1>1, <1>2 DEF Offset

\* register_buffer(None, ..) preserves the invariant, truncated offset included.
LEMMA RegisterAutoInv ==
    ASSUME Inv, NEW size \in Sizes, RegisterAuto(size)
    PROVE  Inv'
<1>1. size \in Nat /\ Space \in Nat \ {0} /\ PageSize \in Nat \ {0}
  BY ConstantsAssumption
<1>2. CASE RegisterByOffset("alloc", AutoOffset % Space, size)
  BY <1>1, <1>2, AutoOffsetType, RegisterByOffsetInv
<1>3. CASE /\ panicked' = TRUE
           /\ Return("alloc", NoOffset, "Panic")
           /\ UNCHANGED <<buffers, host, owed>>
  <2>1. ret' \in Ret
    BY <1>3 DEF Return, Ret, Result
  <2>2. TypeOK'
    BY <1>3, <2>1 DEF Inv, TypeOK
  <2>3. Sorted' /\ NoDeadBuffer' /\ MappingsCounted'
    BY <1>3 DEF Inv, Sorted, NoDeadBuffer, MappingsCounted, IsMapped
  <2> QED BY <2>2, <2>3 DEF Inv
<1> QED BY <1>2, <1>3 DEF RegisterAuto

\* unregister_buffer preserves the invariant: a mapped buffer stays in the vector,
\* an unmapped one is removed.
LEMMA UnregisterBufferInv ==
    ASSUME Inv, NEW o \in Offset, UnregisterBuffer(o)
    PROVE  Inv'
<1>1. CASE Fail("unregister", o, "False")
  BY <1>1, FailStep DEF Result
<1>2. ASSUME NEW i \in DOMAIN buffers,
             buffers' = IF IsMapped(buffers[i])
                        THEN [buffers EXCEPT ![i].registered = FALSE]
                        ELSE RemoveAt(buffers, i),
             Return("unregister", o, "True"),
             UNCHANGED <<host, owed, panicked>>
      PROVE  Inv'
  <2>1. ret' \in Ret
    BY <1>2 DEF Return, Ret, Result
  <2>2. /\ host' \in SUBSET GuestAddr /\ owed' \in [GuestAddr -> Nat]
        /\ panicked' \in BOOLEAN
    BY <1>2 DEF Inv, TypeOK
  <2>3. OthersKept(i)
    BY <1>2 DEF Inv, MappingsCounted, OthersKept
  <2>4. CASE IsMapped(buffers[i])
    <3> DEFINE b == [buffers[i] EXCEPT !.registered = FALSE]
    <3>1. /\ b \in MmapBuffer /\ b.offset = buffers[i].offset
          /\ b.mapping = buffers[i].mapping /\ IsMapped(b)
      BY <2>4, BufferType DEF MmapBuffer, IsMapped
    <3>2. buffers' = [buffers EXCEPT ![i] = b]
      BY <1>2, <2>4
    <3>3. /\ b.mapping.guest_addr \in host' /\ b.mapping.num_mappings > 0
          /\ owed'[b.mapping.guest_addr] = b.mapping.num_mappings
          /\ \A k \in DOMAIN buffers : k # i /\ IsMapped(buffers[k])
                => buffers[k].mapping.guest_addr # b.mapping.guest_addr
      BY <1>2, <2>4, <3>1, MappedType
    <3>4. \A a \in GuestAddr : owed'[a] > 0
             => \/ IsMapped(b) /\ b.mapping.guest_addr = a
                \/ owed[a] > 0 /\ ~(IsMapped(buffers[i]) /\ buffers[i].mapping.guest_addr = a)
      BY <1>2, <3>1
    <3> HIDE DEF b
    <3> QED BY <2>1, <2>2, <2>3, <3>1, <3>2, <3>3, <3>4, UpdateInv
  <2>5. CASE ~IsMapped(buffers[i])
    <3>1. buffers' = RemoveAt(buffers, i)
      BY <1>2, <2>5
    <3>2. \A a \in GuestAddr : owed'[a] > 0
             => owed[a] > 0 /\ ~(IsMapped(buffers[i]) /\ buffers[i].mapping.guest_addr = a)
      BY <1>2, <2>5
    <3> QED BY <2>1, <2>2, <2>3, <3>1, <3>2, RemoveInv
  <2> QED BY <2>4, <2>5
<1> QED BY <1>1, <1>2 DEF UnregisterBuffer

\* The first mapping of a buffer preserves the invariant: the mapper hands out an
\* address that no buffer is mapped at.
LEMMA FirstMappingInv ==
    ASSUME Inv, NEW o \in Offset, NEW rw \in BOOLEAN, NEW i \in DOMAIN buffers,
           buffers[i].registered, ~IsMapped(buffers[i]), FirstMapping(o, i, rw)
    PROVE  Inv'
<1>1. CASE Fail("map", o, "MappingFailure")
  BY <1>1, FailStep DEF Result
<1>2. ASSUME NEW a \in GuestAddr \ host,
             buffers' = [buffers EXCEPT ![i].mapping =
                            [num_mappings |-> 1, guest_addr |-> a, rw |-> rw]],
             host' = host \cup {a},
             owed' = [owed EXCEPT ![a] = @ + 1],
             Return("map", o, "Ok"),
             UNCHANGED panicked
      PROVE  Inv'
  <2> DEFINE m == [num_mappings |-> 1, guest_addr |-> a, rw |-> rw]
             b == [buffers[i] EXCEPT !.mapping = m]
  <2>1. ret' \in Ret
    BY <1>2 DEF Return, Ret, Result
  <2>2. owed \in [GuestAddr -> Nat] /\ owed[a] = 0
    <3>1. owed \in [GuestAddr -> Nat] /\ a \in GuestAddr /\ a \notin host
      BY <1>2 DEF Inv, TypeOK
    <3>2. ~(owed[a] > 0)
      BY <3>1, MappedType DEF Inv, MappingsCounted
    <3> QED BY <3>1, <3>2
  <2>3. /\ host' \in SUBSET GuestAddr /\ owed' \in [GuestAddr -> Nat]
        /\ panicked' \in BOOLEAN
    BY <1>2, <2>2 DEF Inv, TypeOK
  <2>4. /\ b \in MmapBuffer /\ b.offset = buffers[i].offset
        /\ b.registered = buffers[i].registered /\ b.mapping = m
    BY <1>2, BufferType DEF MmapBuffer, Mapping
  <2>5. m # NoMapping
    BY DEF NoMapping
  <2>6. b.registered /\ IsMapped(b)
    BY <2>4, <2>5 DEF IsMapped
  <2>7. buffers' = [buffers EXCEPT ![i] = b]
    BY <1>2
  <2>8. OthersKept(i)
    BY <1>2, <2>2, MappedType DEF OthersKept
  <2>9. /\ b.mapping.guest_addr \in host' /\ b.mapping.num_mappings > 0
        /\ owed'[b.mapping.guest_addr] = b.mapping.num_mappings
        /\ \A k \in DOMAIN buffers : k # i /\ IsMapped(buffers[k])
              => buffers[k].mapping.guest_addr # b.mapping.guest_addr
    BY <1>2, <2>2, <2>4, MappedType
  <2>10. \A c \in GuestAddr : owed'[c] > 0
            => \/ IsMapped(b) /\ b.mapping.guest_addr = c
               \/ owed[c] > 0 /\ ~(IsMapped(buffers[i]) /\ buffers[i].mapping.guest_addr = c)
    BY <1>2, <2>2, <2>4, <2>6
  <2> HIDE DEF b
  <2> QED BY <2>1, <2>3, <2>4, <2>6, <2>7, <2>8, <2>9, <2>10, UpdateInv
<1> QED BY <1>1, <1>2 DEF FirstMapping

\* One more mapping of a mapped buffer preserves the invariant.
LEMMA SharedMappingInv ==
    ASSUME Inv, NEW o \in Offset, NEW rw \in BOOLEAN, NEW i \in DOMAIN buffers,
           IsMapped(buffers[i]), SharedMapping(o, i, rw)
    PROVE  Inv'
<1> DEFINE m == buffers[i].mapping
           x == [m EXCEPT !.num_mappings = @ + 1]
           b == [buffers[i] EXCEPT !.mapping = x]
<1>1. CASE Fail("map", o, "NonMatchingPermissions")
  BY <1>1, FailStep DEF Result
<1>2. CASE /\ buffers' = [buffers EXCEPT ![i].mapping.num_mappings = @ + 1]
           /\ owed' = [owed EXCEPT ![m.guest_addr] = @ + 1]
           /\ Return("map", o, "Ok")
           /\ UNCHANGED <<host, panicked>>
  <2>1. ret' \in Ret
    BY <1>2 DEF Return, Ret, Result
  <2>2. /\ owed \in [GuestAddr -> Nat] /\ m \in Mapping
        /\ m.guest_addr \in GuestAddr /\ m.guest_addr \in host
        /\ m.num_mappings \in Nat \ {0} /\ owed[m.guest_addr] = m.num_mappings
    BY BufferType, MappedType DEF Inv, TypeOK
  <2>3. /\ host' \in SUBSET GuestAddr /\ owed' \in [GuestAddr -> Nat]
        /\ panicked' \in BOOLEAN
    BY <1>2, <2>2 DEF Inv, TypeOK
  <2>4. /\ x \in Mapping /\ x.guest_addr = m.guest_addr
        /\ x.num_mappings = m.num_mappings + 1 /\ x # NoMapping
    BY <2>2 DEF Mapping, NoMapping
  <2>5. /\ b \in MmapBuffer /\ b.offset = buffers[i].offset /\ b.mapping = x
    BY <2>4, BufferType DEF MmapBuffer
  <2>6. IsMapped(b)
    BY <2>4, <2>5 DEF IsMapped
  <2>7. buffers' = [buffers EXCEPT ![i] = b]
    BY <1>2
  <2>8. OthersKept(i)
    BY <1>2, <2>2, MappedType DEF OthersKept
  <2>9. /\ b.mapping.guest_addr \in host' /\ b.mapping.num_mappings > 0
        /\ owed'[b.mapping.guest_addr] = b.mapping.num_mappings
        /\ \A k \in DOMAIN buffers : k # i /\ IsMapped(buffers[k])
              => buffers[k].mapping.guest_addr # b.mapping.guest_addr
    <3>1. \A k \in DOMAIN buffers : k # i /\ IsMapped(buffers[k])
             => buffers[k].mapping.guest_addr # m.guest_addr
      BY MappedType
    <3>2. owed'[m.guest_addr] = m.num_mappings + 1
      BY <1>2, <2>2
    <3>3. b.mapping.guest_addr = m.guest_addr /\ b.mapping.num_mappings = m.num_mappings + 1
      BY <2>4, <2>5
    <3> QED BY <1>2, <2>2, <3>1, <3>2, <3>3
  <2>10. \A c \in GuestAddr : owed'[c] > 0
            => \/ IsMapped(b) /\ b.mapping.guest_addr = c
               \/ owed[c] > 0 /\ ~(IsMapped(buffers[i]) /\ buffers[i].mapping.guest_addr = c)
    BY <1>2, <2>2, <2>4, <2>5, <2>6
  <2> HIDE DEF b
  <2> QED BY <2>1, <2>3, <2>5, <2>6, <2>7, <2>8, <2>9, <2>10, UpdateInv
<1> QED BY <1>1, <1>2 DEF SharedMapping

\* create_mapping preserves the invariant.
LEMMA CreateMappingInv ==
    ASSUME Inv, NEW o \in Offset, NEW rw \in BOOLEAN, CreateMapping(o, rw)
    PROVE  Inv'
<1>1. CASE \E r \in {"InvalidOffset", "UnregisteredBuffer"} : Fail("map", o, r)
  BY <1>1, FailStep DEF Result
<1>2. ASSUME NEW i \in DOMAIN buffers, buffers[i].registered,
             IF IsMapped(buffers[i]) THEN SharedMapping(o, i, rw)
                                     ELSE FirstMapping(o, i, rw)
      PROVE  Inv'
  BY <1>2, FirstMappingInv, SharedMappingInv
<1> QED BY <1>1, <1>2 DEF CreateMapping

\* remove_mapping preserves the invariant: the first buffer mapped at the address
\* is the only one, so its count and the guest's stay equal.
LEMMA RemoveMappingInv ==
    ASSUME Inv, NEW a \in GuestAddr, RemoveMapping(a)
    PROVE  Inv'
<1>1. CASE Fail("unmap", NoOffset, "InvalidOffset")
  BY <1>1, FailStep DEF Result
<1>2. ASSUME NEW i \in DOMAIN buffers,
             FirstMappedAt(a, i),
             owed' = [owed EXCEPT ![a] = @ - 1],
             UNCHANGED panicked,
             \/ /\ buffers[i].mapping.num_mappings = 1
                /\ MapperRemoves(a)
                /\ buffers' = Unmapped(i)
                /\ Return("unmap", buffers[i].offset, "False")
             \/ /\ buffers[i].mapping.num_mappings # 1
                /\ buffers' = [buffers EXCEPT ![i].mapping.num_mappings = @ - 1]
                /\ Return("unmap", buffers[i].offset, "True")
                /\ UNCHANGED host
      PROVE  Inv'
  <2> DEFINE m == buffers[i].mapping
  <2>1. ret' \in Ret
    BY <1>2, BufferType DEF Return, Ret, Result
  <2>2. /\ IsMapped(buffers[i]) /\ m.guest_addr = a /\ m \in Mapping
        /\ owed \in [GuestAddr -> Nat] /\ owed[a] = m.num_mappings
        /\ m.num_mappings \in Nat \ {0}
    BY <1>2, BufferType, MappedType DEF FirstMappedAt, Inv, TypeOK
  <2>3. /\ host' \in SUBSET GuestAddr /\ owed' \in [GuestAddr -> Nat]
        /\ panicked' \in BOOLEAN
    BY <1>2, <2>2 DEF Inv, TypeOK, MapperRemoves
  <2>4. host \ {a} \subseteq host' /\ host' \subseteq host
    BY <1>2 DEF MapperRemoves
  <2>5. OthersKept(i)
    BY <1>2, <2>2, <2>4, MappedType DEF OthersKept
  <2>6. CASE buffers[i].mapping.num_mappings = 1
    <3>1. owed'[a] = 0 /\ \A c \in GuestAddr : c # a => owed'[c] = owed[c]
      BY <1>2, <2>2, <2>6
    <3>2. \A c \in GuestAddr : owed'[c] > 0
             => owed[c] > 0 /\ ~(IsMapped(buffers[i]) /\ buffers[i].mapping.guest_addr = c)
      BY <2>2, <3>1
    <3>3. CASE buffers[i].registered
      <4> DEFINE b == [buffers[i] EXCEPT !.mapping = NoMapping]
      <4>1. NoMapping \in Mapping
        BY DEF NoMapping, Mapping
      <4>2. /\ b \in MmapBuffer /\ b.offset = buffers[i].offset
            /\ b.registered = buffers[i].registered /\ b.mapping = NoMapping
        BY <4>1, BufferType DEF MmapBuffer
      <4>3. b.registered /\ ~IsMapped(b)
        BY <3>3, <4>2 DEF IsMapped
      <4>4. buffers' = [buffers EXCEPT ![i] = b]
        BY <1>2, <2>6, <3>3 DEF Unmapped
      <4> HIDE DEF b
      <4> QED BY <2>1, <2>3, <2>5, <3>2, <4>2, <4>3, <4>4, UpdateInv
    <3>4. CASE ~buffers[i].registered
      <4>1. buffers' = RemoveAt(buffers, i)
        BY <1>2, <2>6, <3>4 DEF Unmapped
      <4> QED BY <2>1, <2>3, <2>5, <3>2, <4>1, RemoveInv
    <3> QED BY <3>3, <3>4
  <2>7. CASE buffers[i].mapping.num_mappings # 1
    <3> DEFINE x == [m EXCEPT !.num_mappings = @ - 1]
               b == [buffers[i] EXCEPT !.mapping = x]
    <3>1. /\ x \in Mapping /\ x.guest_addr = a
          /\ x.num_mappings = m.num_mappings - 1 /\ x.num_mappings > 0 /\ x # NoMapping
      BY <2>2, <2>7 DEF Mapping, NoMapping
    <3>2. b \in MmapBuffer /\ b.offset = buffers[i].offset /\ b.mapping = x
      BY <3>1, BufferType DEF MmapBuffer
    <3>3. IsMapped(b)
      BY <3>1, <3>2 DEF IsMapped
    <3>4. buffers' = [buffers EXCEPT ![i] = b]
      BY <1>2, <2>7
    <3>5. /\ b.mapping.guest_addr \in host' /\ b.mapping.num_mappings > 0
          /\ owed'[b.mapping.guest_addr] = b.mapping.num_mappings
          /\ \A k \in DOMAIN buffers : k # i /\ IsMapped(buffers[k])
                => buffers[k].mapping.guest_addr # b.mapping.guest_addr
      <4>1. /\ a \in host
            /\ \A k \in DOMAIN buffers : k # i /\ IsMapped(buffers[k])
                  => buffers[k].mapping.guest_addr # a
        BY <2>2, MappedType
      <4>2. host' = host /\ owed'[a] = m.num_mappings - 1
        BY <1>2, <2>2, <2>7
      <4>3. b.mapping.guest_addr = a /\ b.mapping.num_mappings = m.num_mappings - 1
        BY <3>1, <3>2
      <4> QED BY <3>1, <3>2, <4>1, <4>2, <4>3
    <3>6. \A c \in GuestAddr : owed'[c] > 0
             => \/ IsMapped(b) /\ b.mapping.guest_addr = c
                \/ owed[c] > 0 /\ ~(IsMapped(buffers[i]) /\ buffers[i].mapping.guest_addr = c)
      BY <1>2, <2>2, <3>1, <3>2, <3>3
    <3> HIDE DEF b
    <3> QED BY <2>1, <2>3, <2>5, <3>2, <3>3, <3>4, <3>5, <3>6, UpdateInv
  <2> QED BY <2>6, <2>7
<1> QED BY <1>1, <1>2 DEF RemoveMapping

-----------------------------------------------------------------------------
\* Every step of every behaviour preserves the invariant.
LEMMA NextInv == Inv /\ [Next]_vars => Inv'
<1> SUFFICES ASSUME Inv, [Next]_vars PROVE Inv'
  OBVIOUS
<1>1. ASSUME NEW size \in Sizes, RegisterAuto(size) PROVE Inv'
  BY <1>1, RegisterAutoInv
<1>2. ASSUME NEW o \in Offset, NEW size \in Sizes, RegisterAt(o, size) PROVE Inv'
  BY <1>2, ConstantsAssumption, RegisterByOffsetInv DEF RegisterAt
<1>3. ASSUME NEW o \in Offset, UnregisterBuffer(o) PROVE Inv'
  BY <1>3, UnregisterBufferInv
<1>4. ASSUME NEW o \in Offset, NEW rw \in BOOLEAN, CreateMapping(o, rw) PROVE Inv'
  BY <1>4, CreateMappingInv
<1>5. ASSUME NEW a \in GuestAddr, RemoveMapping(a) PROVE Inv'
  BY <1>5, RemoveMappingInv
<1>6. CASE UNCHANGED vars
  <2>1. TypeOK'
    BY <1>6 DEF Inv, TypeOK, vars
  <2>2. Sorted' /\ NoDeadBuffer' /\ MappingsCounted'
    BY <1>6 DEF Inv, Sorted, NoDeadBuffer, MappingsCounted, IsMapped, vars
  <2> QED BY <2>1, <2>2 DEF Inv
<1> QED BY <1>1, <1>2, <1>3, <1>4, <1>5, <1>6 DEF Next

\* The invariant holds in every reachable state.
THEOREM Invariance == Spec => []Inv
BY InitInv, NextInv, PTL DEF Spec

\* The state of the manager always has its declared type: in particular no
\* mapping count, of a buffer or of the guest, ever goes below zero.
THEOREM TypeCorrect == Spec => []TypeOK
<1>1. Inv => TypeOK
  BY DEF Inv
<1> QED BY <1>1, Invariance, PTL

\* mmap.rs may search its vector by bisection: it is always strictly sorted.
THEOREM AlwaysSorted == Spec => []Sorted
<1>1. Inv => Sorted
  BY DEF Inv
<1> QED BY <1>1, Invariance, PTL

\* A guest address with mappings left is mapped by the host and backed by
\* exactly one buffer, whose count is the number of mappings left.
THEOREM MappingsAlwaysCounted == Spec => []MappingsCounted
<1>1. Inv => MappingsCounted
  BY DEF Inv
<1> QED BY <1>1, Invariance, PTL

\* Buffers that are neither registered nor mapped are always gone.
THEOREM NeverDeadBuffer == Spec => []NoDeadBuffer
<1>1. Inv => NoDeadBuffer
  BY DEF Inv
<1> QED BY <1>1, Invariance, PTL
=============================================================================
