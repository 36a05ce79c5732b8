--------------------------- MODULE EffectPromise ----------------------------
(***************************************************************************)
(* What the side-effect ledger promises those who ask for an external      *)
(* effect under one stable key: the effect settles on one result, once,    *)
(* and everybody who is given a result is given that one.                  *)
(*                                                                         *)
(* DeliveryLedger implements this specification.                           *)
(***************************************************************************)
CONSTANTS Results,      \* what the effect can produce
          Unsettled     \* no result yet

VARIABLES settled,      \* the result the key stands for
          told          \* every result that was handed to a caller

epVars == <<settled, told>>

EPInit == settled = Unsettled /\ told = {}

Settle(r) ==
  /\ settled = Unsettled
  /\ settled' = r
  /\ UNCHANGED told

Tell ==
  /\ settled # Unsettled
  /\ told' = told \cup {settled}
  /\ UNCHANGED settled

\* The caller whose work settles the key can be told in the same step.
SettleAndTell(r) ==
  /\ settled = Unsettled
  /\ settled' = r
  /\ told' = told \cup {r}

EPNext == Tell \/ \E r \in Results : Settle(r) \/ SettleAndTell(r)

EPSpec == EPInit /\ [][EPNext]_epVars
=============================================================================
