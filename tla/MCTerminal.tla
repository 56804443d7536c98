----------------------------- MODULE MCTerminal -----------------------------
(***************************************************************************)
(* Instances of Terminal for TLC.                                          *)
(***************************************************************************)
EXTENDS Terminal

MCCharacters == {"brace", "key"}

\* Every message of at most three characters, braces and other keys.
MCMessages == UNION {[1..n -> MCCharacters] : n \in 0..3}
=============================================================================
