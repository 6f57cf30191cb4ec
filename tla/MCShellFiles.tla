---------------------------- MODULE MCShellFiles ----------------------------
(* Small instances of ShellFiles: what is on the card, and what is written. *)
EXTENDS ShellFiles

CONSTANTS A, B, x, y

Card == [n \in Names |-> IF n = A THEN <<x, y, x, y>> ELSE NoFile]
OneChunk == {<<y, y, x, x, y, y, x>>}
=============================================================================
