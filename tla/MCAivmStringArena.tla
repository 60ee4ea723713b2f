--------------------------- MODULE MCAivmStringArena ---------------------------
(* Texts and roots for model checking AivmStringArena.                         *)
EXTENDS AivmStringArena

\* Two values of stack and locals, and a node.
MCRootOrder == <<"left", "right", "kind", "id">>
\* A two-byte rune and a text to escape.
MCTexts == {<<Lead, Cont>>, <<Newline>>}
MCStarts == {-1, 1}
MCLengths == {0, 1, 3}
=============================================================================
