----------------------------- MODULE MCKeyBuffer -----------------------------
(* KeyBuffer with an ordinary character for TLC.                           *)
EXTENDS KeyBuffer
CONSTANT a
=============================================================================
