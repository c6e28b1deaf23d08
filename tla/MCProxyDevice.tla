--------------------------- MODULE MCProxyDevice ---------------------------
(***************************************************************************)
(* ProxyDevice for model checking: the sessions are interchangeable, and   *)
(* so are the addresses.                                                   *)
(***************************************************************************)
EXTENDS ProxyDevice, TLC

Symmetry == Permutations(Session) \cup Permutations(Addr)

\* Two CAPTURE buffers are counted, and one OUTPUT buffer, as its count is only tested
\* for zero.
TwoCapture == [q \in Queue |-> IF q = "CAPTURE" THEN 2 ELSE 1]

\* A USERPTR session is explored without what it has nothing to do with: MMAP buffers
\* that are left mapped, and V4L2 events.
Unmixed ==
    \A s \in Open : sess[s].memory = "USERPTR" => table = <<>> /\ ~pending[s]
=============================================================================
