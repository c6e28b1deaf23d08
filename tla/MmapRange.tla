------------------------------ MODULE MmapRange ------------------------------
(***************************************************************************)
(* What MmapMappingManager promises to the device and to the guest, without*)
(* its vector: buffers are registered at distinct offsets, and a guest     *)
(* address shows one buffer, shared by all its mappings, until each of     *)
(* them has been removed.  A buffer the guest still sees after it was      *)
(* unregistered takes no space: its offset may be registered again, and    *)
(* the new buffer is never taken for the old one.                          *)
(***************************************************************************)
EXTENDS Integers

CONSTANTS
    Offset,       \* the MMAP range
    Sizes,        \* sizes of buffers
    GuestAddr     \* addresses at which the guest can see a buffer

VARIABLES
    registered,   \* the registered buffers: records offset, size
    views         \* what the guest sees: records addr, offset, size, rw, count,
                  \* and live: the buffer shown is still registered

rangeVars == <<registered, views>>

RangeInit == registered = {} /\ views = {}

\* A buffer takes a place no registered buffer has.
Register(o, size) ==
    /\ \A r \in registered : r.offset # o
    /\ registered' = registered \cup {[offset |-> o, size |-> size]}
    /\ UNCHANGED views

\* Unregistering a buffer takes nothing away from the guest.
Unregister(o) ==
    /\ registered' = {r \in registered : r.offset # o}
    /\ views' = {IF v.offset = o THEN [v EXCEPT !.live = FALSE] ELSE v : v \in views}

\* A registered buffer nobody sees appears at an address nobody uses.
Show(r, a, rw) ==
    /\ r \in registered
    /\ \A v \in views : (v.live => v.offset # r.offset) /\ v.addr # a
    /\ views' = views \cup {[addr |-> a, offset |-> r.offset, size |-> r.size,
                             rw |-> rw, count |-> 1, live |-> TRUE]}
    /\ UNCHANGED registered

\* A registered buffer the guest sees is mapped once more.
Share(v) ==
    /\ v \in views /\ v.live
    /\ views' = (views \ {v}) \cup {[v EXCEPT !.count = @ + 1]}
    /\ UNCHANGED registered

\* One mapping less; the last one takes the buffer out of sight.
Hide(v) ==
    /\ v \in views
    /\ views' = (views \ {v}) \cup
                (IF v.count = 1 THEN {} ELSE {[v EXCEPT !.count = @ - 1]})
    /\ UNCHANGED registered

RangeNext ==
    \/ \E o \in Offset, size \in Sizes : Register(o, size)
    \/ \E o \in Offset : Unregister(o)
    \/ \E r \in registered, a \in GuestAddr, rw \in BOOLEAN : Show(r, a, rw)
    \/ \E v \in views : Share(v) \/ Hide(v)

RangeSpec == RangeInit /\ [][RangeNext]_rangeVars
=============================================================================
