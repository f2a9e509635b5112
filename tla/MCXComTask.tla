------------------------------ MODULE MCXComTask ------------------------------
(***************************************************************************)
(* Two messages and a raw piece, or three messages, with a head of two     *)
(* bytes and bodies of one to three, or of four, which is too long: a body *)
(* that does not fit one read event, a head cut in two and a raw piece     *)
(* longer than read_buf_ occur.                                            *)
(***************************************************************************)
EXTENDS XComTask

W(kind, size) == [kind |-> kind, size |-> size]

\* What the tasks of xdisk write: messages, then raw pieces behind the message
\* that turns messages off; the message that makes the receiver close is last.
MCOutboxes ==
  UNION {
    {<<W("msg", a), W("msg", b), W("close", 1)>> : a, b \in {1, 2}},
    {<<W("msg", a), W("toRaw", b), W("raw", c), W("raw", 2)>> : a, b, c \in {1, 3}},
    {<<W("toRaw", a), W("raw", b)>> : a \in {1, 3}, b \in {1, 5}}}

\* And one that begins with a listing that is too long, and the upload that is
\* refused: UPLOAD_INFO and the file behind it.
MCWithStray == MCOutboxes \cup {<<W("msg", 4), W("msg", 1)>>, <<W("msg", 1), W("raw", 5)>>}
===============================================================================
