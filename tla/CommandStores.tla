---------------------------- MODULE CommandStores ----------------------------
(***************************************************************************)
(* Command execution over either of its stores (control.py, composition).  *)
(* The product gives the control plane a transactional writer, and         *)
(* CommandPipeline is what happens then; the compositions of the contract  *)
(* tests do not, and StoreAdapters is what happens then, to both sets of   *)
(* adapters.  Which it is was decided when the control plane was made.     *)
(***************************************************************************)
EXTENDS CommandPipeline

CONSTANTS
  Projects, DirectIds, DirectBodies   \* what is sent without the writer

ASSUME NoProjectAssumption == NULL \notin Projects

VARIABLES
  transactional_writer,   \* ControlPlane.transactional_writer is there
  projects, memoryRevisions, records, projectRows, revisionRows, eventRows,
  ledgerRows, auditRows, portCall, answers, follower

Adapters == INSTANCE StoreAdapters WITH
  Ids <- DirectIds, Bodies <- DirectBodies,
  revisions <- memoryRevisions, call <- portCall

adapterVars ==
  <<projects, memoryRevisions, records, projectRows, revisionRows, eventRows,
    ledgerRows, auditRows, portCall, answers, follower>>

StoresInit ==
  /\ Init /\ Adapters!Init
  /\ transactional_writer \in BOOLEAN

SaveInOneTransaction == transactional_writer /\ Next /\ UNCHANGED adapterVars

SaveThenRecord == ~transactional_writer /\ Adapters!Next /\ UNCHANGED vars

StoresNext ==
  (SaveInOneTransaction \/ SaveThenRecord) /\ UNCHANGED transactional_writer

StoresSpec ==
  StoresInit /\ [][StoresNext]_<<vars, adapterVars, transactional_writer>>

----------------------------------------------------------------------------
(* Properties *)

\* The store's adapters answer alike (StoreAdapters).
StoresAgree == Adapters!StoresAgree

\* Revisions, events and command records keep what readers saw (StoreAdapters).
ReadersAreNotMisled == Adapters!ReadersAreNotMisled
=============================================================================
