----------------------------- MODULE FileTransfer -----------------------------
(***************************************************************************)
(* What xdisk promises of the transfer of one file, upload or download     *)
(* (the messages of src/src/xcom/xmsg.h:20-26): the receiver's file grows  *)
(* as a beginning of the sender's, it is saved when it has the announced   *)
(* size, and the sender hears of it only after that.  Nothing is said here *)
(* of connections, buffers and pieces: XUpload and XDownload are shown to  *)
(* implement this module.                                                  *)
(***************************************************************************)
EXTENDS FileStream

VARIABLES
  reliable,  \* nothing goes wrong with this transfer, and there is a file to send
  size,      \* the size announced, 0 before
  stored,    \* what was written to the receiver's file
  saved,     \* the receiver has taken the file as complete and closed it
  acked      \* the sender has been told so

vars == <<reliable, size, stored, saved, acked>>

Init == /\ reliable \in BOOLEAN
        /\ size = 0 /\ stored = <<>>
        /\ saved = FALSE /\ acked = FALSE

Announce == /\ size = 0 /\ stored = <<>>
            /\ size' \in Nat \ {0}
            /\ UNCHANGED <<reliable, stored, saved, acked>>

Complete == size > 0 /\ stored = Content(size)

\* More of the file, in order; with the last announced byte it may be saved at
\* once.  Behind that byte nothing is stored.
Store == /\ ~saved /\ ~Complete
         /\ Len(stored') > Len(stored)
         /\ stored' = Content(Len(stored'))
         /\ saved' \in {FALSE, Complete'}
         /\ UNCHANGED <<reliable, size, acked>>

Save == /\ ~saved /\ Complete
        /\ saved' = TRUE
        /\ UNCHANGED <<reliable, size, stored, acked>>

Acknowledge == /\ saved /\ ~acked
               /\ acked' = TRUE
               /\ UNCHANGED <<reliable, size, stored, saved>>

Next == Announce \/ Store \/ Save \/ Acknowledge

\* A transfer with which nothing goes wrong is finished and acknowledged.
Finishes == reliable ~> acked

Spec == Init /\ [][Next]_vars /\ Finishes
===============================================================================
