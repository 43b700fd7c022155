--------------------------- MODULE MCSetupAndRun ---------------------------
(***************************************************************************)
(* SetupAndRun with a few jobs.  The user owns /local/janker and what is   *)
(* in it, as the script's other users of that directory suppose, and may   *)
(* or may not write to /local; nobody but root writes to /.                *)
(***************************************************************************)
EXTENDS SetupAndRun

CONSTANTS j1, j2, j3

MCOwnHome  == {Home, Study}
MCOwnLocal == {Home, Study, Local}
=============================================================================
