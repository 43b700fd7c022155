-------------------------- MODULE MCLinuxTestCase --------------------------
(***************************************************************************)
(* Small instances of LinuxTestCase: two kernel files, one that type       *)
(* checks and one that does not.                                           *)
(***************************************************************************)
EXTENDS LinuxTestCase, TLC

CONSTANTS w1, w2, fork, exit

MCFileList == <<fork, exit>>
MCReport == fork :> <<"lexed", "parsed", "typed">> @@ exit :> <<"lexed", "parsed">>
\* The same with fewer lines, for the run with a clean script and a restart.
MCShortReport == fork :> <<"lexed", "typed">> @@ exit :> <<"other">>
MCProducts == fork :> {"xml", "ast"} @@ exit :> {"xml", "pi"}
=============================================================================
