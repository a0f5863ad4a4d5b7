----------------------------- MODULE MCConsole ------------------------------
(* Two workspaces, one tab, every page and every form.                     *)
EXTENDS Console
CONSTANTS w1, w2
MCWorkspaces == {w1, w2}
=============================================================================
