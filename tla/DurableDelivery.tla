-------------------------- MODULE DurableDelivery ---------------------------
(***************************************************************************)
(* The delivery command as a client of the side-effect ledger:             *)
(* ProjectControl and DeliveryLedger together, for one side-effect key.    *)
(*                                                                         *)
(* ProjectControl takes a release for one step and knows the ledger as the *)
(* set of bundles its keys stand for; DeliveryLedger does not know where   *)
(* its workers come from nor what becomes of their answers.  Here a worker *)
(* is a thread that executes DeliverArtifact (control.py): it reads the    *)
(* project, calls delivery.release (recovery.py), which takes the ledger's *)
(* steps, and saves the project when it is still as it was read.  Threads  *)
(* that deliver under other keys, and all other commands, are steps of     *)
(* ProjectControl.                                                         *)
(*                                                                         *)
(* A worker executes one command once; a retry is another worker.          *)
(***************************************************************************)
EXTENDS ProjectControl, Sequences

CONSTANTS
  Workers,      \* threads that deliver under the key
  MaxReleases,  \* bound: releases by the adapter
  Key,          \* the artifact version the key is for
  KeyProfile    \* the delivery profile the key is for

VARIABLES
  row, leases, world, turn, found, handed, audit, overrun,  \* DeliveryLedger's
  reading,      \* the artifact each worker has read
  fresh,        \* workers that have read the current project revision
  called,       \* workers that have called delivery.release
  answer        \* the bundle it has returned to each

Ledger == INSTANCE DeliveryLedger WITH at <- turn, told <- handed

ledgerVars == <<row, leases, world, turn, found, handed, audit, overrun>>
threadVars == <<reading, fresh, called, answer>>
durableVars == <<vars, ledgerVars, threadVars>>

DurableInit ==
  /\ Init
  /\ Ledger!Init
  /\ reading = [w \in Workers |-> NULL]
  /\ fresh = {}
  /\ called = {}
  /\ answer = [w \in Workers |-> NULL]

----------------------------------------------------------------------------
(* The project *)

\* What the worker's release is of.
BundleOf(w) ==
  [target |-> Key, profile |-> KeyProfile, content |-> reading[w].content]

OfKey(a, profile) == VersionOf(a) = Key /\ profile = KeyProfile

\* Everything but deliveries under the key.  A saved command makes a revision
\* that no worker has read.
Others ==
  /\ \/ /\ \/ SavedCommand
           \/ \E profile \in Profiles :
                Deliver(profile) /\ ~OfKey(artifact, profile)
        /\ fresh' = {}
     \/ /\ \/ Aside
           \/ ReadForDelivery
           \/ \E copy \in copies, profile \in Profiles :
                DeliverUncommitted(copy, profile) /\ ~OfKey(copy, profile)
        /\ UNCHANGED fresh
  /\ UNCHANGED <<ledgerVars, reading, called, answer>>

\* A worker reads the project and finds its approval; the export it makes of
\* what it has read is verified.
Read(w) ==
  /\ reading[w] = NULL
  /\ ReadForDelivery
  /\ VersionOf(artifact) = Key
  /\ ExportPasses(artifact, KeyProfile)
  /\ reading' = [reading EXCEPT ![w] = artifact]
  /\ fresh' = fresh \cup {w}
  /\ UNCHANGED <<ledgerVars, called, answer>>

\* The worker's project is saved with the bundle it was answered with, provided
\* that nobody else has saved it.
Save(w) ==
  /\ answer[w] # NULL
  /\ w \in fresh
  /\ quality' = [target |-> Key, passed |-> TRUE]
  /\ deliveries' = deliveries \cup {answer[w]}
  /\ MoveVia("DELIVERING", "DELIVERED")
  /\ fresh' = {}
  /\ UNCHANGED <<contentVars, passedCandidates, approvalVars, effects, copies,
                 resume_state, ledgerVars, reading, called, answer>>
  /\ Commit

----------------------------------------------------------------------------
(* delivery.release *)

Returns(w, result) == answer' = [answer EXCEPT ![w] = BundleOf(result)]

\* The call begins with the claim; a completed key is answered at once.
Call(w) ==
  /\ reading[w] # NULL
  /\ w \notin called
  /\ called' = called \cup {w}
  /\ \/ Ledger!Claim(w) /\ UNCHANGED answer
     \/ Ledger!AnswerFromLedger(w) /\ Returns(w, row.result)

\* The call returns from a reconciliation or, when it has released, from the
\* audit record; in all other cases it goes on, raises or dies.
Work(w) ==
  /\ \/ /\ \/ Ledger!Reconcile(w) \/ Ledger!Release(w) \/ Ledger!Complete(w)
           \/ Ledger!Fail(w) \/ Ledger!Expire(w) \/ Ledger!Crash(w)
        /\ UNCHANGED answer
     \/ /\ Ledger!Settle(w)
        /\ IF Ledger!Accepts(found[w]) THEN Returns(w, found[w])
           ELSE UNCHANGED answer
     \/ /\ Ledger!Audit(w)
        /\ IF turn[w] = "audit success" THEN Returns(w, w)
           ELSE UNCHANGED answer
  /\ UNCHANGED called

\* What the key's row holds is what Project Control calls an effect.
Release(w) ==
  /\ Call(w) \/ Work(w)
  /\ effects' = effects \cup {BundleOf(b) : b \in {row'.result} \ {NULL}}
  /\ UNCHANGED <<state, contentVars, approvalVars, gateVars, deliveries,
                 copies, resume_state, history, run, changed, reading, fresh>>

DurableNext ==
  \/ Others
  \/ \E w \in Workers : Read(w) \/ Release(w) \/ Save(w)

DurableSpec == DurableInit /\ [][DurableNext]_durableVars

----------------------------------------------------------------------------
(* Properties *)

\* Threads, leases and crashes behind a delivery are a release in one step to
\* everybody else (_deliver, DurableDeliveryPort.release).
ImplementsControl == Spec

\* The workers of the ledger do nothing else when they are threads with a
\* project in hand.
ImplementsLedger == Ledger!Spec

\* Whatever the adapter is made to release, twice, too late, or by a thread
\* that died before the ledger knew, has passed the gate (_deliver, release).
WorldIsSound ==
  \A b \in Ledger!Released :
    /\ reading[b] \in copies
    /\ ~Broken(reading[b].content)
    /\ KeyProfile \notin BadProfiles

\* A bundle that the project shows under the key has been released by the
\* adapter, and is the one the ledger holds (_deliver, release).
ShownIsReleased ==
  \A d \in Under(deliveries, Key, KeyProfile) :
    /\ row.result \in Ledger!Released
    /\ d = BundleOf(row.result)
=============================================================================
