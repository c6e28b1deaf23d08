---------------------------- MODULE MCDriverQueue ----------------------------
(***************************************************************************)
(* Applications for the model of the driver's queue: who makes which ioctl *)
(* decides which of them can overlap with a DQBUF that waits.              *)
(***************************************************************************)
EXTENDS DriverQueue

CONSTANTS t1, t2

\* One thread dequeues, and is the only one to cancel; another one fills.
OneDequeuer ==
    (t1 :> {"dqbuf", "streamoff", "reqbufs"})
    @@ (t2 :> {"qbuf", "streamon", "decoder_start"})

\* As OneDequeuer, with the two ioctls that the queue's lock does not cover.
AllIoctls ==
    (t1 :> {"dqbuf", "streamoff", "reqbufs"})
    @@ (t2 :> {"qbuf", "streamon", "prepare_buf", "create_bufs"})

\* One thread dequeues while another one cancels.
Canceller ==
    (t1 :> {"dqbuf"}) @@ (t2 :> {"qbuf", "streamon", "streamoff", "reqbufs"})
=============================================================================
