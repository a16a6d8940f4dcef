----------------------------- MODULE MCTerminal -----------------------------
(* Instances of Terminal for TLC.                                          *)
EXTENDS Terminal

(* A line of two keys, and one key more.                                   *)
MCKeys == <<"char", "enter", "char">>
=============================================================================
