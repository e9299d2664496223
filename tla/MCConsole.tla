------------------------------ MODULE MCConsole ------------------------------
(* Two sizes of the terminal: one that needs both bytes of a word, and the *)
(* answer for an output that is not a terminal.                            *)
EXTENDS Console

TermSizes == {<<300, 24>>, <<0, 0>>}

=============================================================================
