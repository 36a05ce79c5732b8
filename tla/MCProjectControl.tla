-------------------------- MODULE MCProjectControl -------------------------
(* Small instances of ProjectControl for TLC. *)
EXTENDS ProjectControl

\* Every combination of a package and a brief, complete or not.
AllInputs == Input

\* An intake that is always complete, except that it may be empty.
CompleteInputs ==
  [context : Contexts, brief : {TRUE}] \cup [context : {NULL}, brief : {FALSE}]
=============================================================================
