----------------------------- MODULE MmapTable -----------------------------
(***************************************************************************)
(* The MmapMappingManager of MmapManager.tla as the devices use it: one    *)
(* page per buffer, a table from the occupied offsets to what is known     *)
(* about them.  Each operator is a method's effect on the table.           *)
(***************************************************************************)
EXTENDS Integers, FiniteSetsExt, Functions

\* A buffer with the number of its mappings and the memory they show, if any.
TableEntry(Memory) == [registered : BOOLEAN, maps : Nat, mem : Memory]

\* The offset register_buffer(None, ..) chooses: the page after the last one.
AutoPage(t) == IF DOMAIN t = {} THEN 0 ELSE Max(DOMAIN t) + 1

\* register_buffer: the offset must be free.
CanRegister(t, p) == p \notin DOMAIN t
RegisterPages(t, pages, nothing) ==
    [p \in DOMAIN t \cup pages |->
        IF p \in pages THEN [registered |-> TRUE, maps |-> 0, mem |-> nothing] ELSE t[p]]

\* unregister_buffer of each of the pages: what is mapped stays until it is not.
UnregisterPages(t, pages) ==
    [p \in {q \in DOMAIN t : q \notin pages \/ t[q].maps > 0} |->
        [t[p] EXCEPT !.registered = @ /\ p \notin pages]]

\* create_mapping: the first mapping decides which memory is shown.
CanMap(t, p) == p \in DOMAIN t /\ t[p].registered
MapPage(t, p, mem) ==
    [t EXCEPT ![p].maps = @ + 1, ![p].mem = IF t[p].maps = 0 THEN mem ELSE @]

\* remove_mapping: an unregistered buffer goes with its last mapping.
UnmapPage(t, p) ==
    IF t[p].maps = 1 /\ ~t[p].registered THEN Restrict(t, DOMAIN t \ {p})
    ELSE [t EXCEPT ![p].maps = @ - 1]

RegisteredPages(t) == {p \in DOMAIN t : t[p].registered}
MappedPages(t) == {p \in DOMAIN t : t[p].maps > 0}
=============================================================================
