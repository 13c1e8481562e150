----------------------------- MODULE MCNetwork -----------------------------
(***************************************************************************)
(* Network for TLC: all sends go to 127.0.0.1:8080, as in main.cpp.         *)
(***************************************************************************)
EXTENDS Network

OneEntry == [c \in Calls |-> CHOOSE k \in Entries : TRUE]
OnePort  == [c \in Calls |-> CHOOSE p \in Ports : TRUE]

=============================================================================
