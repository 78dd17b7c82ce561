--------------------------- MODULE MCShellEditor ---------------------------
(* Values for the line editor of the shell.                                *)
EXTENDS ShellEditor

(* Two commands that share a start longer than one key.                    *)
MCNames == {<<"A", "C", "D">>, <<"A", "C", "C">>}
=============================================================================
