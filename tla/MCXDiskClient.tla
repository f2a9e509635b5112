----------------------------- MODULE MCXDiskClient -----------------------------
(***************************************************************************)
(* A window that shows the path of a directory with one file; "./" has two *)
(* files, one with a semicolon in its name, which makes two rows of it.    *)
(***************************************************************************)
EXTENDS XDiskClient, TLC

MCNames   == {"a", "b", "c;b", "u"}
MCColumns == [n \in MCNames |-> IF n = "c;b" THEN <<Bad, "b">> ELSE <<n>>]
MCStored  == ("./" :> {"b", "c;b"}) @@ ("/disk/" :> {"a"})

\* With the Refresh at the start and the one behind an upload, there are up to
\* three listings and an upload at once.
MCSessions == {<<"list", "upload">>, <<"upload", "download">>, <<"list", "download">>,
               <<"download", "upload">>}
MCRefreshed == {<<"list", "list">>}
===============================================================================
