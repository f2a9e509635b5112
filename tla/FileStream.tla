------------------------------ MODULE FileStream ------------------------------
(***************************************************************************)
(* What the upload and the download of a file share: the pieces in which   *)
(* WriteCB reads the file, and what travels on a connection.  A connection *)
(* is a FIFO of items in each direction, an item being a whole message     *)
(* [type, n] (XComTask, checked on its own, cuts the bytes into messages)  *)
(* or one byte of the file, [type |-> "DATA", n |-> its place from 1].     *)
(***************************************************************************)
EXTENDS Integers, Sequences

CONSTANTS BufSize,   \* sizeof(read_buf_), the piece one WriteCB sends
          WireCap    \* what the kernel buffers of one direction hold

ASSUME StreamAssumption == {BufSize, WireCap} \subseteq Nat \ {0}

ItemTypes == {"UPLOAD_INFO", "UPLOAD_ACCEPT", "UPLOAD_COMPLETE",
              "DOWNLOAD_INFO", "DOWNLOAD_ACCEPT", "DOWNLOAD_COMPLETE", "DATA"}
Items == [type : ItemTypes, n : Nat]

Msg(type, n) == [type |-> type, n |-> n]
Data(k)      == [type |-> "DATA", n |-> k]

IsData(item) == item.type = "DATA"

\* The first k bytes of the file.
Content(k) == [i \in 1 .. k |-> Data(i)]

AtMost(a, b) == IF a < b THEN a ELSE b

\* ifs_.read(read_buf_, sizeof(read_buf_)) at pos in a file of length size, and
\* ifs_.eof() after it: only a read that asks for more than there is sets it.
Piece(pos, size)    == [i \in 1 .. AtMost(BufSize, size - pos) |-> Data(pos + i)]
ReadsEof(pos, size) == pos + BufSize > size

\* The first n items of a sequence, and what is behind them.
Upto(s, n) == SubSeq(s, 1, n)
Behind(s, n) == SubSeq(s, n + 1, Len(s))
===============================================================================
