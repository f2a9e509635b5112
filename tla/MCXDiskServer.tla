---------------------------- MODULE MCXDiskServer ----------------------------
(***************************************************************************)
(* Four clients, a backlog of two, descriptors for three, and a pool of    *)
(* two threads whose notify buffers hold one byte, so that the backlog,    *)
(* the descriptors and the buffers run out.                                *)
(***************************************************************************)
EXTENDS XDiskServer
===============================================================================
