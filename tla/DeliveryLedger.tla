-------------------------- MODULE DeliveryLedger ----------------------------
(***************************************************************************)
(* How one delivery is released at most once: DurableDeliveryPort around a *)
(* delivery adapter, and the side-effect ledger it claims the key in.      *)
(*                                                                         *)
(* Several workers (threads or processes executing DeliverArtifact, or the *)
(* same command again) release under one key; rows of other keys do not    *)
(* interact.  Each access to the ledger is one transaction, and so one     *)
(* action.  A worker can die at any step; its lease stays in the row.      *)
(*                                                                         *)
(* Abstractions: the bundle a worker releases is named by the worker (the  *)
(* bundles of two workflow runs differ in their lineage).  Time is the set *)
(* of leases that have not run out.  The adapter is external: it is honest *)
(* about what it has released, may answer that it does not know, and may   *)
(* fail before or after the release.                                       *)
(***************************************************************************)
EXTENDS Naturals, Sequences, FiniteSets

CONSTANTS
  NULL,         \* Python's None
  Workers,      \* threads and processes that deliver
  MaxReleases   \* bound: releases by the adapter

ASSUME NullAssumption == NULL \notin Workers
ASSUME MaxReleasesAssumption == MaxReleases \in Nat

VARIABLES
  row,        \* the row of side_effects
  leases,     \* workers whose last claim was granted less than a lease ago
  world,      \* the bundles the adapter has released, in order
  at,         \* what each worker does next
  found,      \* the bundle a reconciliation has found
  told,       \* bundles returned to callers
  audit,      \* <<worker, outcome>> audit records
  overrun     \* some lease ran out under a worker that was still at work

vars == <<row, leases, world, at, found, told, audit, overrun>>

\* "NONE" is the absent row; holder is whose lease lease_until is.
Row == [status : {"NONE", "CLAIMED", "COMPLETED", "FAILED"},
        holder : Workers \cup {NULL},
        result : Workers \cup {NULL}]

Steps == {"idle", "reconcile", "settle", "release", "complete", "fail",
          "audit success", "audit failure"}

\* Between a granted claim and the end of the work done under it.
AtWork == {w \in Workers : at[w] \in {"reconcile", "settle", "release",
                                      "complete", "fail"}}

\* The row has a result exactly when it is completed, and then no lease; who
\* settles a reconciled effect has a bundle to settle it with.
TypeOK ==
  /\ row \in Row
  /\ (row.status = "COMPLETED") = (row.result # NULL)
  /\ row.status = "COMPLETED" => row.holder = NULL
  /\ leases \subseteq Workers
  /\ world \in Seq(Workers)
  /\ at \in [Workers -> Steps]
  /\ found \in [Workers -> Workers \cup {NULL}]
  /\ \A w \in Workers : at[w] = "settle" => found[w] # NULL
  /\ told \subseteq Workers
  /\ audit \subseteq Workers \X {"SUCCEEDED", "FAILED"}
  /\ overrun \in BOOLEAN

Init ==
  /\ row = [status |-> "NONE", holder |-> NULL, result |-> NULL]
  /\ leases = {}
  /\ world = <<>>
  /\ at = [w \in Workers |-> "idle"]
  /\ found = [w \in Workers |-> NULL]
  /\ told = {}
  /\ audit = {}
  /\ overrun = FALSE

Released == {world[n] : n \in 1 .. Len(world)}

Goto(w, step) == at' = [at EXCEPT ![w] = step]

----------------------------------------------------------------------------
(* The ledger *)

LeaseIsLive == row.holder \in leases

\* Mutant of MayClaim: the lease is not looked at.
MayClaimAlways == row.status # "COMPLETED"

MayClaim == row.status # "COMPLETED" /\ ~LeaseIsLive

\* Mutant of RecoveryRequired: only an expired claim is reconciled, not a
\* failed one.
RecoveryOfClaimsOnly == row.status = "CLAIMED"

RecoveryRequired == row.status # "NONE"

\* A worker asks for a completed effect.
AnswerFromLedger(w) ==
  /\ at[w] = "idle"
  /\ row.status = "COMPLETED"
  /\ told' = told \cup {row.result}
  /\ UNCHANGED <<row, leases, world, at, found, audit, overrun>>

\* A claim that is refused, because a lease is live, changes nothing.
Claim(w) ==
  /\ at[w] = "idle"
  /\ MayClaim
  /\ row' = [row EXCEPT !.status = "CLAIMED", !.holder = w]
  /\ leases' = leases \cup {w}
  /\ Goto(w, IF RecoveryRequired THEN "reconcile" ELSE "release")
  /\ UNCHANGED <<world, found, told, audit, overrun>>

Completed(result) == [status |-> "COMPLETED", holder |-> NULL, result |-> result]

\* Mutant of Accepts: a completed effect is overwritten.
AcceptsAlways(result) == TRUE

\* complete takes a result once, and the same one again.
Accepts(result) == row.status = "COMPLETED" => row.result = result

----------------------------------------------------------------------------
(* The adapter *)

\* Mutant of Reconcile: whatever the adapter answers short of UNKNOWN counts
\* as done.
ReconcileTakesRetryForDone(w) ==
  /\ at[w] = "reconcile"
  /\ \/ \E b \in Released \cup {w} :
          /\ found' = [found EXCEPT ![w] = b]
          /\ Goto(w, "settle")
     \/ Goto(w, "idle") /\ UNCHANGED found
  /\ UNCHANGED <<row, leases, world, told, audit, overrun>>

\* COMPLETED with a bundle that was released, or, as the local adapter has it,
\* with one it makes there and then; UNKNOWN, or an error, which leaves the
\* claim as it is; SAFE_TO_RETRY when nothing was released.
Reconcile(w) ==
  /\ at[w] = "reconcile"
  /\ \/ \E b \in Released :
          /\ found' = [found EXCEPT ![w] = b]
          /\ Goto(w, "settle")
          /\ UNCHANGED world
     \/ /\ Released = {}
        /\ world' = Append(world, w)
        /\ Len(world') <= MaxReleases
        /\ found' = [found EXCEPT ![w] = w]
        /\ Goto(w, "settle")
     \/ Goto(w, "idle") /\ UNCHANGED <<world, found>>
     \/ Released = {} /\ Goto(w, "release") /\ UNCHANGED <<world, found>>
  /\ UNCHANGED <<row, leases, told, audit, overrun>>

\* The adapter releases, or fails before, or fails after it has released.
Release(w) ==
  /\ at[w] = "release"
  /\ \/ /\ world' = Append(world, w)
        /\ Goto(w, "complete") \/ Goto(w, "fail")
     \/ UNCHANGED world /\ Goto(w, "fail")
  /\ Len(world') <= MaxReleases
  /\ UNCHANGED <<row, leases, found, told, audit, overrun>>

----------------------------------------------------------------------------
(* The results *)

\* What was reconciled is completed without an audit record; when the ledger
\* refuses, the error goes to the caller.
Settle(w) ==
  /\ at[w] = "settle"
  /\ \/ /\ Accepts(found[w])
        /\ row' = Completed(found[w])
        /\ told' = told \cup {found[w]}
     \/ /\ ~Accepts(found[w])
        /\ UNCHANGED <<row, told>>
  /\ found' = [found EXCEPT ![w] = NULL]
  /\ Goto(w, "idle")
  /\ UNCHANGED <<leases, world, audit, overrun>>

\* Inside the try block: a refused completion is followed by fail.
Complete(w) ==
  /\ at[w] = "complete"
  /\ \/ /\ Accepts(w)
        /\ row' = Completed(w)
        /\ Goto(w, "audit success")
     \/ /\ ~Accepts(w)
        /\ Goto(w, "fail")
        /\ UNCHANGED row
  /\ UNCHANGED <<leases, world, found, told, audit, overrun>>

\* fail does not ask whose claim it is.  For a completed row it raises, and
\* the audit record is skipped.
Fail(w) ==
  /\ at[w] = "fail"
  /\ \/ /\ row.status = "COMPLETED"
        /\ Goto(w, "idle")
        /\ UNCHANGED row
     \/ /\ row.status # "COMPLETED"
        /\ row' = [row EXCEPT !.status = "FAILED", !.holder = NULL]
        /\ Goto(w, "audit failure")
  /\ UNCHANGED <<leases, world, found, told, audit, overrun>>

Audit(w) ==
  /\ \/ /\ at[w] = "audit success"
        /\ audit' = audit \cup {<<w, "SUCCEEDED">>}
        /\ told' = told \cup {w}
     \/ /\ at[w] = "audit failure"
        /\ audit' = audit \cup {<<w, "FAILED">>}
        /\ UNCHANGED told
  /\ Goto(w, "idle")
  /\ UNCHANGED <<row, leases, world, found, overrun>>

----------------------------------------------------------------------------
(* Time and death *)

\* lease_until passes.
Expire(w) ==
  /\ w \in leases
  /\ leases' = leases \ {w}
  /\ overrun' = (overrun \/ w \in AtWork)
  /\ UNCHANGED <<row, world, at, found, told, audit>>

Crash(w) ==
  /\ at[w] # "idle"
  /\ Goto(w, "idle")
  /\ found' = [found EXCEPT ![w] = NULL]
  /\ UNCHANGED <<row, leases, world, told, audit, overrun>>

Next ==
  \E w \in Workers :
    \/ AnswerFromLedger(w)
    \/ Claim(w)
    \/ Reconcile(w)
    \/ Release(w)
    \/ Settle(w)
    \/ Complete(w)
    \/ Fail(w)
    \/ Audit(w)
    \/ Expire(w)
    \/ Crash(w)

Spec == Init /\ [][Next]_vars

----------------------------------------------------------------------------
(* Properties *)

\* As long as no lease runs out under a worker, the workers exclude each
\* other, through failures, deaths and answers of UNKNOWN (claim, fail).
OneAtWork == ~overrun => \A v, w \in AtWork : v = w

\* As long as no lease runs out under a worker, the adapter releases once,
\* although workers die between the release and its record and adapters fail
\* after they have released (release, claim, _reconcile).
OneRelease == ~overrun => Len(world) <= 1

\* Whatever was recorded, returned or audited as a success was released, also
\* with leases that run out (release, complete).
ResultsAreReal ==
  /\ row.status = "COMPLETED" => row.result \in Released
  /\ told \subseteq Released
  /\ \A w \in Workers : <<w, "SUCCEEDED">> \in audit => row.result = w

Promise == INSTANCE EffectPromise
             WITH Results <- Workers, Unsettled <- NULL,
                  settled <- row.result, told <- told

\* Every caller is given the same bundle, for ever, also with leases that run
\* out and workers that release twice.
ImplementsEffectPromise == Promise!EPSpec
=============================================================================
