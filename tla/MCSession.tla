----------------------------- MODULE MCSession ------------------------------
(***************************************************************************)
(* Model-checking instance of Session over its dispatcher, with the        *)
(* mutants their properties are shown to catch.                            *)
(***************************************************************************)
EXTENDS Session
=============================================================================
