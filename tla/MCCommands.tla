----------------------------- MODULE MCCommands -----------------------------
(***************************************************************************)
(* Devices for the model of the commands: which ioctls they implement.     *)
(***************************************************************************)
EXTENDS Commands

\* One ioctl of each shape, and all that reallocate buffers.
Camera == {"G_FMT", "QBUF", "STREAMON", "G_STD", "SUBSCRIBE_EVENT", "G_EXT_CTRLS"}
          \cup Reallocates
=============================================================================
