----------------------------- MODULE MCXThreadPool -----------------------------
(***************************************************************************)
(* The pool with writes that block.  With three threads, pipes of two      *)
(* bytes and eight tasks the third task of a thread can find its pipe      *)
(* full, and the dispatcher then waits until the thread reads a byte.      *)
(***************************************************************************)
EXTENDS XThreadPool
===============================================================================
