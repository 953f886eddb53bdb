---------------------------- MODULE MCFileSystem ----------------------------
(***************************************************************************)
(* FileSystem for TLC: names of one and two characters of which the first  *)
(* counts, files of none, one and two sectors, and a pool that fills up.   *)
(***************************************************************************)
EXTENDS FileSystem

MCName == {<<"a">>, <<"b", "c">>}
MCData == {<<>>, <<1>>, <<2, 2, 2>>}
=============================================================================
