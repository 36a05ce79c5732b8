------------------------- MODULE MCDurableDelivery -------------------------
(* A small instance of DurableDelivery for TLC. *)
EXTENDS DurableDelivery

\* An intake that is always complete, except that it may be empty.
CompleteInputs ==
  [context : Contexts, brief : {TRUE}] \cup [context : {NULL}, brief : {FALSE}]

\* The key of a first delivery.
FirstVersion == <<<<CHOOSE c \in CandidateId : TRUE, 1>>, 1>>
=============================================================================
