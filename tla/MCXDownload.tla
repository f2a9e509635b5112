----------------------------- MODULE MCXDownload -----------------------------
(***************************************************************************)
(* One download: an empty file, files of less than, exactly and more than  *)
(* one piece, without and with faults, and a wire that a message and a     *)
(* piece just fit.                                                         *)
(***************************************************************************)
EXTENDS XDownload
===============================================================================
