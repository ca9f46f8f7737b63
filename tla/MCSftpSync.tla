----------------------------- MODULE MCSftpSync -----------------------------
(***************************************************************************)
(* A folder with a directory in a directory and files on every level.      *)
(***************************************************************************)
EXTENDS SftpSync

MCPaths == {<<"a">>, <<"a", "x">>, <<"a", "x", "f">>, <<"b">>}
MCTempNames == {"tmp1", "tmp2", "tmp3"}
=============================================================================
