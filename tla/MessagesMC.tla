----------------------------- MODULE MessagesMC -----------------------------
(***************************************************************************)
(* An instance of MessagesPage for TLC: ann has one browser and bob one,    *)
(* which may be cleared once.                                              *)
(***************************************************************************)
EXTENDS MessagesPage

CONSTANTS ann, bob, a, b, ka, kb, kb2

MCOwnerOf == [d \in Device |-> IF d = a THEN ann ELSE bob]
MCKeysOf == [d \in Device |-> IF d = a THEN <<ka>> ELSE <<kb, kb2>>]
=============================================================================
