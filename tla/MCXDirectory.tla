----------------------------- MODULE MCXDirectory -----------------------------
(***************************************************************************)
(* A server started in /home, with a directory root below it that holds    *)
(* two files.  /home has a file and a directory of the same names, so that *)
(* a look-up in the wrong working directory finds something else.          *)
(***************************************************************************)
EXTENDS XDirectory

Home == <<"home">>
Root == <<"home", "root">>

MCDirs  == {<<>>, Home, Root, Append(Home, "b")}
MCFiles == (Append(Home, "a") :> 1) @@ (Append(Root, "a") :> 3) @@ (Append(Root, "b") :> 2)

\* Two connections in threads of their own, and a third beside the first.
MCThreadOf == ("c1" :> 1) @@ ("c2" :> 2) @@ ("c3" :> 1)

Path(abs, names)   == [abs |-> abs, names |-> names]
List(path)         == [kind |-> "list", path |-> path, name |-> "", size |-> 0]
UploadOf(name, n)  == [kind |-> "upload", path |-> Here, name |-> name, size |-> n]
DownloadOf(path)   == [kind |-> "download", path |-> path, name |-> "", size |-> 0]

\* The path the client's window shows at first, "./server_root".
Default == Path(FALSE, <<"root">>)

MCRequests == {List(Default), List(Path(TRUE, Root)), List(Path(TRUE, <<"none">>)),
               UploadOf("a", 2),
               DownloadOf(Path(FALSE, <<"root", "a">>))}
MCRefresh  == {List(Default), UploadOf("a", 1)}
===============================================================================
