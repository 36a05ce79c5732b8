------------------------ MODULE DeliveryLedgerProofs ------------------------
(***************************************************************************)
(* Theorems about DeliveryLedger, for every number of workers and every    *)
(* bound.  Two arguments that meet in Consistent:                          *)
(*  - whatever happens to the leases, a worker that reports a bundle does  *)
(*    so after its release, and the first completion is the last;          *)
(*  - while no lease has run out under a worker, whoever is at work holds  *)
(*    the live claim of the row, so nobody else is at work, and who is     *)
(*    about to release finds that nothing was released.                    *)
(***************************************************************************)
EXTENDS DeliveryLedger, SequenceTheorems, TLAPS

\* What a worker has in hand at each step.
WorkersConsistent ==
  \A w \in Workers :
    /\ w \in AtWork => row.status # "NONE"
    /\ at[w] = "settle" => found[w] \in Released
    /\ at[w] = "complete" => w \in Released
    /\ at[w] = "audit success" => row.result = w

\* Nothing is released before the first claim.
ReleasesAreClaimed == row.status = "NONE" => world = <<>>

\* Who is at work holds the claim.
ClaimIsHeld ==
  ~overrun => \A w \in AtWork : /\ w \in leases
                                /\ row.status = "CLAIMED"
                                /\ row.holder = w

\* Who is about to release is the first to do so.
ReleaseIsFirst ==
  ~overrun => \A w \in Workers : at[w] = "release" => world = <<>>

Consistent ==
  /\ ResultsAreReal
  /\ WorkersConsistent
  /\ ReleasesAreClaimed
  /\ ClaimIsHeld
  /\ ReleaseIsFirst
  /\ OneRelease

----------------------------------------------------------------------------
(* Types *)

LEMMA GotoTypes ==
  ASSUME TypeOK, NEW w \in Workers, NEW step \in Steps, Goto(w, step)
  PROVE  /\ at' \in [Workers -> Steps]
         /\ at'[w] = step
         /\ \A v \in Workers \ {w} : at'[v] = at[v]
  BY DEF TypeOK, Goto

LEMMA StepTypes == TypeOK /\ [Next]_vars => TypeOK'
<1> SUFFICES ASSUME TypeOK, [Next]_vars PROVE TypeOK'
  OBVIOUS
<1>1. CASE UNCHANGED vars
  BY <1>1 DEF vars, TypeOK
<1>2. ASSUME NEW w \in Workers, AnswerFromLedger(w) PROVE TypeOK'
  BY <1>2 DEF AnswerFromLedger, TypeOK, Row
<1>3. ASSUME NEW w \in Workers, Claim(w) PROVE TypeOK'
  <2>1. /\ at' \in [Workers -> Steps] /\ at'[w] # "settle"
        /\ \A v \in Workers \ {w} : at'[v] = at[v]
    BY <1>3, GotoTypes DEF Claim, Steps
  <2>2. /\ row' \in Row
        /\ row'.status = "CLAIMED" /\ row'.result = row.result
    BY <1>3 DEF Claim, TypeOK, Row
  <2>3. row.result = NULL
    BY <1>3 DEF Claim, MayClaim, TypeOK
  <2> QED
    BY <1>3, <2>1, <2>2, <2>3 DEF Claim, TypeOK
<1>4. ASSUME NEW w \in Workers, Reconcile(w) PROVE TypeOK'
  <2>1. Released \subseteq Workers
    BY DEF TypeOK, Released
  <2>2. world' \in Seq(Workers)
    BY <1>4, AppendProperties DEF Reconcile, TypeOK
  <2>3. ASSUME NEW b \in Workers, found' = [found EXCEPT ![w] = b], Goto(w, "settle")
        PROVE  TypeOK'
    <3>1. /\ at' \in [Workers -> Steps]
          /\ \A v \in Workers \ {w} : at'[v] = at[v]
      BY <2>3, GotoTypes DEF Steps
    <3>2. /\ found' \in [Workers -> Workers \cup {NULL}]
          /\ found'[w] # NULL
          /\ \A v \in Workers \ {w} : found'[v] = found[v]
      BY <2>3, NullAssumption DEF TypeOK
    <3> QED
      BY <1>4, <2>2, <3>1, <3>2 DEF Reconcile, TypeOK
  <2>4. ASSUME UNCHANGED found, NEW s \in {"idle", "release"}, Goto(w, s)
        PROVE  TypeOK'
    <3>1. /\ at' \in [Workers -> Steps] /\ at'[w] # "settle"
          /\ \A v \in Workers \ {w} : at'[v] = at[v]
      BY <2>4, GotoTypes DEF Steps
    <3> QED
      BY <1>4, <2>2, <2>4, <3>1 DEF Reconcile, TypeOK
  <2> QED
    BY <1>4, <2>1, <2>3, <2>4 DEF Reconcile
<1>5. ASSUME NEW w \in Workers, Release(w) PROVE TypeOK'
  <2>1. /\ at' \in [Workers -> Steps] /\ at'[w] # "settle"
        /\ \A v \in Workers \ {w} : at'[v] = at[v]
    <3>1. CASE Goto(w, "complete")
      BY <3>1, GotoTypes DEF Steps
    <3>2. CASE Goto(w, "fail")
      BY <3>2, GotoTypes DEF Steps
    <3> QED
      BY <1>5, <3>1, <3>2 DEF Release
  <2>2. world' \in Seq(Workers)
    BY <1>5, AppendProperties DEF Release, TypeOK
  <2>3. UNCHANGED <<row, leases, found, told, audit, overrun>>
    BY <1>5 DEF Release
  <2> QED
    BY <2>1, <2>2, <2>3 DEF TypeOK
<1>6. ASSUME NEW w \in Workers, Settle(w) PROVE TypeOK'
  <2>1. /\ at' \in [Workers -> Steps] /\ at'[w] # "settle"
        /\ \A v \in Workers \ {w} : at'[v] = at[v]
    BY <1>6, GotoTypes DEF Settle, Steps
  <2>2. found[w] \in Workers
    BY <1>6 DEF Settle, TypeOK
  <2>3. /\ found' \in [Workers -> Workers \cup {NULL}]
        /\ \A v \in Workers \ {w} : found'[v] = found[v]
    BY <1>6 DEF Settle, TypeOK
  <2>4. /\ row' \in Row /\ told' \subseteq Workers
        /\ (row'.status = "COMPLETED") = (row'.result # NULL)
        /\ row'.status = "COMPLETED" => row'.holder = NULL
    BY <1>6, <2>2, NullAssumption DEF Settle, Completed, TypeOK, Row
  <2> QED
    BY <1>6, <2>1, <2>3, <2>4 DEF Settle, TypeOK
<1>7. ASSUME NEW w \in Workers, Complete(w) PROVE TypeOK'
  <2>1. /\ at' \in [Workers -> Steps] /\ at'[w] # "settle"
        /\ \A v \in Workers \ {w} : at'[v] = at[v]
    <3>1. CASE Goto(w, "audit success")
      BY <3>1, GotoTypes DEF Steps
    <3>2. CASE Goto(w, "fail")
      BY <3>2, GotoTypes DEF Steps
    <3> QED
      BY <1>7, <3>1, <3>2 DEF Complete
  <2>2. /\ row' \in Row
        /\ (row'.status = "COMPLETED") = (row'.result # NULL)
        /\ row'.status = "COMPLETED" => row'.holder = NULL
    <3>1. CASE row' = Completed(w)
      BY <3>1, NullAssumption DEF Completed, Row
    <3>2. CASE UNCHANGED row
      BY <3>2 DEF TypeOK
    <3> QED
      BY <1>7, <3>1, <3>2 DEF Complete
  <2> QED
    BY <1>7, <2>1, <2>2 DEF Complete, TypeOK
<1>8. ASSUME NEW w \in Workers, Fail(w) PROVE TypeOK'
  <2>1. /\ at' \in [Workers -> Steps] /\ at'[w] # "settle"
        /\ \A v \in Workers \ {w} : at'[v] = at[v]
    BY <1>8, GotoTypes DEF Fail, Steps
  <2>2. /\ row' \in Row
        /\ (row'.status = "COMPLETED") = (row'.result # NULL)
        /\ row'.status = "COMPLETED" => row'.holder = NULL
    BY <1>8 DEF Fail, TypeOK, Row
  <2> QED
    BY <1>8, <2>1, <2>2 DEF Fail, TypeOK
<1>9. ASSUME NEW w \in Workers, Audit(w) PROVE TypeOK'
  <2>1. /\ at' \in [Workers -> Steps] /\ at'[w] # "settle"
        /\ \A v \in Workers \ {w} : at'[v] = at[v]
    BY <1>9, GotoTypes, "idle" \in Steps, "idle" # "settle" DEF Audit, Steps
  <2>2. audit' \subseteq Workers \X {"SUCCEEDED", "FAILED"}
    <3>1. PICK o \in {"SUCCEEDED", "FAILED"} : audit' = audit \cup {<<w, o>>}
      BY <1>9 DEF Audit
    <3> QED
      BY <3>1 DEF TypeOK
  <2>3. told' \subseteq Workers
    BY <1>9 DEF Audit, TypeOK
  <2>4. UNCHANGED <<row, leases, world, found, overrun>>
    BY <1>9 DEF Audit
  <2> QED
    BY <2>1, <2>2, <2>3, <2>4 DEF TypeOK
<1>10. ASSUME NEW w \in Workers, Expire(w) PROVE TypeOK'
  BY <1>10 DEF Expire, TypeOK
<1>11. ASSUME NEW w \in Workers, Crash(w) PROVE TypeOK'
  <2>1. /\ at' \in [Workers -> Steps] /\ at'[w] # "settle"
        /\ \A v \in Workers \ {w} : at'[v] = at[v]
    BY <1>11, GotoTypes DEF Crash, Steps
  <2>2. /\ found' \in [Workers -> Workers \cup {NULL}]
        /\ \A v \in Workers \ {w} : found'[v] = found[v]
    BY <1>11 DEF Crash, TypeOK
  <2> QED
    BY <1>11, <2>1, <2>2 DEF Crash, TypeOK
<1> QED
  BY <1>1, <1>2, <1>3, <1>4, <1>5, <1>6, <1>7, <1>8, <1>9, <1>10, <1>11 DEF Next

LEMMA InitTypes == Init => TypeOK
<1> SUFFICES ASSUME Init PROVE TypeOK
  OBVIOUS
<1>1. world \in Seq(Workers)
  BY EmptySeq DEF Init
<1>2. /\ row \in Row
      /\ row.status = "NONE" /\ row.result = NULL
  BY DEF Init, Row
<1>3. /\ at \in [Workers -> Steps]
      /\ \A w \in Workers : at[w] # "settle"
      /\ found \in [Workers -> Workers \cup {NULL}]
  BY DEF Init, Steps
<1> QED
  BY <1>1, <1>2, <1>3 DEF Init, TypeOK

\* Every reachable state is well typed; a completed row has a result and no
\* lease, and any other row has no result.
THEOREM TypeCorrect == Spec => []TypeOK
  BY InitTypes, StepTypes, PTL DEF Spec

----------------------------------------------------------------------------
(* Results: no lease is needed for these. *)

\* The first half of Consistent.
ResultsConsistent ==
  /\ ResultsAreReal
  /\ WorkersConsistent
  /\ ReleasesAreClaimed

LEMMA ReleasedGrows ==
  ASSUME TypeOK, NEW w \in Workers, world' = Append(world, w)
  PROVE  Released' = Released \cup {w}
<1>1. /\ Len(world) \in Nat
      /\ Len(world') = Len(world) + 1
      /\ \A n \in 1 .. Len(world) : world'[n] = world[n]
      /\ world'[Len(world) + 1] = w
  BY AppendProperties, LenProperties DEF TypeOK
<1>2. 1 .. (Len(world) + 1) = (1 .. Len(world)) \cup {Len(world) + 1}
  BY <1>1
<1> QED
  BY <1>1, <1>2 DEF Released

LEMMA ReleasedStays ==
  ASSUME UNCHANGED world PROVE Released' = Released
  BY DEF Released

\* What a step may do to a consistent state without more thought: leave the
\* results alone, and send a worker to a step that claims nothing.
LEMMA HarmlessStep ==
  ASSUME TypeOK, ResultsConsistent, NEW w \in Workers,
         UNCHANGED <<world, told, audit>>,
         row'.result = row.result, row'.status # "NONE" \/ row' = row,
         row'.status = "COMPLETED" => row.status = "COMPLETED",
         \A v \in Workers \ {w} : at'[v] = at[v] /\ found'[v] = found[v],
         \/ at'[w] \in {"idle", "audit failure"}
         \/ at'[w] \in {"reconcile", "release", "fail"} /\ row'.status # "NONE"
  PROVE  ResultsConsistent'
<1>1. Released' = Released
  BY ReleasedStays
<1>2. ResultsAreReal'
  BY <1>1 DEF ResultsConsistent, ResultsAreReal
<1>3. WorkersConsistent'
  BY <1>1 DEF ResultsConsistent, WorkersConsistent, AtWork
<1>4. ReleasesAreClaimed'
  BY DEF ResultsConsistent, ReleasesAreClaimed
<1> QED
  BY <1>2, <1>3, <1>4 DEF ResultsConsistent

\* A completion that the ledger accepts is the first, or the same again.
LEMMA CompletionKeepsResult ==
  ASSUME TypeOK, NEW b \in Workers, Accepts(b), row' = Completed(b)
  PROVE  /\ row'.status = "COMPLETED" /\ row'.result = b
         /\ row.result # NULL => row'.result = row.result
  BY DEF TypeOK, Accepts, Completed

LEMMA StepResults == TypeOK /\ ResultsConsistent /\ [Next]_vars => ResultsConsistent'
<1> SUFFICES ASSUME TypeOK, ResultsConsistent, [Next]_vars
             PROVE  ResultsConsistent'
  OBVIOUS
<1>1. CASE UNCHANGED vars
  BY <1>1, ReleasedStays
  DEF vars, ResultsConsistent, ResultsAreReal, WorkersConsistent,
      ReleasesAreClaimed, AtWork
<1>2. ASSUME NEW w \in Workers, AnswerFromLedger(w) PROVE ResultsConsistent'
  <2>1. Released' = Released
    BY <1>2, ReleasedStays DEF AnswerFromLedger
  <2> QED
    BY <1>2, <2>1
    DEF AnswerFromLedger, ResultsConsistent, ResultsAreReal,
        WorkersConsistent, ReleasesAreClaimed, AtWork
<1>3. ASSUME NEW w \in Workers, Claim(w) PROVE ResultsConsistent'
  <2>1. /\ at'[w] \in {"reconcile", "release"}
        /\ \A v \in Workers \ {w} : at'[v] = at[v]
    BY <1>3, GotoTypes DEF Claim, Steps
  <2>2. row'.status = "CLAIMED" /\ row'.result = row.result
    BY <1>3 DEF Claim, TypeOK, Row
  <2> QED
    BY <1>3, <2>1, <2>2, HarmlessStep DEF Claim
<1>4. ASSUME NEW w \in Workers, Reconcile(w) PROVE ResultsConsistent'
  <2>1. row.status # "NONE" /\ row' = row
    BY <1>4 DEF Reconcile, ResultsConsistent, WorkersConsistent, AtWork
  <2>2. Released \subseteq Workers /\ Released \subseteq Released'
    <3>1. Released \subseteq Workers
      BY DEF TypeOK, Released
    <3>2. world' = Append(world, w) \/ UNCHANGED world
      BY <1>4 DEF Reconcile
    <3>3. CASE world' = Append(world, w)
      BY <3>1, <3>3, ReleasedGrows
    <3>4. CASE UNCHANGED world
      BY <3>1, <3>4, ReleasedStays
    <3> QED
      BY <3>2, <3>3, <3>4
  <2>3. ASSUME NEW b \in Released', found' = [found EXCEPT ![w] = b],
               Goto(w, "settle")
        PROVE  ResultsConsistent'
    <3>1. /\ at'[w] = "settle"
          /\ \A v \in Workers \ {w} : at'[v] = at[v]
      BY <2>3, GotoTypes DEF Steps
    <3>2. /\ found'[w] = b
          /\ \A v \in Workers \ {w} : found'[v] = found[v]
      BY <2>3 DEF TypeOK
    <3>3. WorkersConsistent'
      <4>1. ASSUME NEW v \in Workers
            PROVE  /\ v \in AtWork' => row'.status # "NONE"
                   /\ at'[v] = "settle" => found'[v] \in Released'
                   /\ at'[v] = "complete" => v \in Released'
                   /\ at'[v] = "audit success" => row'.result = v
        <5>1. CASE v = w
          BY <2>1, <2>3, <3>1, <3>2, <5>1
        <5>2. CASE v # w
          BY <2>1, <2>2, <3>1, <3>2, <5>2
          DEF ResultsConsistent, WorkersConsistent, AtWork
        <5> QED
          BY <5>1, <5>2
      <4> QED
        BY <4>1 DEF WorkersConsistent
    <3> QED
      BY <1>4, <2>1, <2>2, <3>3
      DEF Reconcile, ResultsConsistent, ResultsAreReal, ReleasesAreClaimed
  <2>4. CASE \E b \in Released : found' = [found EXCEPT ![w] = b] /\ Goto(w, "settle")
    BY <2>2, <2>3, <2>4
  <2>5. CASE /\ world' = Append(world, w)
             /\ found' = [found EXCEPT ![w] = w]
             /\ Goto(w, "settle")
    <3>1. w \in Released'
      BY <2>5, ReleasedGrows
    <3> QED
      BY <2>3, <2>5, <3>1
  <2>6. ASSUME UNCHANGED <<world, found>>, NEW s \in {"idle", "release"}, Goto(w, s)
        PROVE  ResultsConsistent'
    <3>1. /\ at'[w] \in {"idle", "release"}
          /\ \A v \in Workers \ {w} : at'[v] = at[v]
      BY <2>6, GotoTypes DEF Steps
    <3> QED
      BY <1>4, <2>1, <2>6, <3>1, HarmlessStep DEF Reconcile
  <2> QED
    BY <1>4, <2>4, <2>5, <2>6 DEF Reconcile
<1>5. ASSUME NEW w \in Workers, Release(w) PROVE ResultsConsistent'
  <2>1. row.status # "NONE"
    BY <1>5 DEF Release, ResultsConsistent, WorkersConsistent, AtWork
  <2>2. CASE world' = Append(world, w) /\ (Goto(w, "complete") \/ Goto(w, "fail"))
    <3>1. Released' = Released \cup {w}
      BY <2>2, ReleasedGrows
    <3>2. /\ at'[w] \in {"complete", "fail"}
          /\ \A v \in Workers \ {w} : at'[v] = at[v]
      <4>1. CASE Goto(w, "complete")
        BY <4>1, GotoTypes DEF Steps
      <4>2. CASE Goto(w, "fail")
        BY <4>2, GotoTypes DEF Steps
      <4> QED
        BY <2>2, <4>1, <4>2
    <3>3. WorkersConsistent'
      BY <1>5, <2>1, <3>1, <3>2
      DEF Release, ResultsConsistent, WorkersConsistent, AtWork
    <3> QED
      BY <1>5, <2>1, <3>1, <3>3
      DEF Release, ResultsConsistent, ResultsAreReal, ReleasesAreClaimed
  <2>3. CASE UNCHANGED world /\ Goto(w, "fail")
    <3>1. /\ at'[w] = "fail"
          /\ \A v \in Workers \ {w} : at'[v] = at[v]
      BY <2>3, GotoTypes DEF Steps
    <3> QED
      BY <1>5, <2>1, <2>3, <3>1, HarmlessStep DEF Release
  <2> QED
    BY <1>5, <2>2, <2>3 DEF Release
<1>6. ASSUME NEW w \in Workers, Settle(w) PROVE ResultsConsistent'
  <2>1. Released' = Released
    BY <1>6, ReleasedStays DEF Settle
  <2>2. /\ at'[w] = "idle"
        /\ \A v \in Workers \ {w} : at'[v] = at[v]
    BY <1>6, GotoTypes DEF Settle, Steps
  <2>3. \A v \in Workers \ {w} : found'[v] = found[v]
    BY <1>6 DEF Settle, TypeOK
  <2>4. found[w] \in Workers /\ found[w] \in Released
    BY <1>6 DEF Settle, TypeOK, ResultsConsistent, WorkersConsistent
  <2>5. CASE Accepts(found[w]) /\ row' = Completed(found[w]) /\ told' = told \cup {found[w]}
    <3>1. /\ row'.status = "COMPLETED" /\ row'.result = found[w]
          /\ row.result # NULL => row'.result = row.result
      BY <2>4, <2>5, CompletionKeepsResult
    <3>2. ResultsAreReal'
      BY <1>6, <2>1, <2>4, <2>5, <3>1, NullAssumption
      DEF Settle, ResultsConsistent, ResultsAreReal
    <3>3. WorkersConsistent'
      BY <2>1, <2>2, <2>3, <3>1, NullAssumption
      DEF ResultsConsistent, WorkersConsistent, AtWork
    <3> QED
      BY <3>1, <3>2, <3>3 DEF ResultsConsistent, ReleasesAreClaimed
  <2>6. CASE UNCHANGED <<row, told>>
    BY <1>6, <2>2, <2>3, <2>6, HarmlessStep DEF Settle
  <2> QED
    BY <1>6, <2>5, <2>6 DEF Settle
<1>7. ASSUME NEW w \in Workers, Complete(w) PROVE ResultsConsistent'
  <2>1. Released' = Released
    BY <1>7, ReleasedStays DEF Complete
  <2>2. w \in Released /\ row.status # "NONE"
    BY <1>7 DEF Complete, ResultsConsistent, WorkersConsistent, AtWork
  <2>3. CASE Accepts(w) /\ row' = Completed(w) /\ Goto(w, "audit success")
    <3>1. /\ row'.status = "COMPLETED" /\ row'.result = w
          /\ row.result # NULL => row'.result = row.result
      BY <2>3, CompletionKeepsResult
    <3>2. /\ at'[w] = "audit success"
          /\ \A v \in Workers \ {w} : at'[v] = at[v]
      BY <2>3, GotoTypes DEF Steps
    <3>3. ResultsAreReal'
      BY <1>7, <2>1, <2>2, <3>1, NullAssumption
      DEF Complete, ResultsConsistent, ResultsAreReal
    <3>4. WorkersConsistent'
      BY <1>7, <2>1, <3>1, <3>2, NullAssumption
      DEF Complete, ResultsConsistent, WorkersConsistent, AtWork
    <3> QED
      BY <3>1, <3>3, <3>4 DEF ResultsConsistent, ReleasesAreClaimed
  <2>4. CASE UNCHANGED row /\ Goto(w, "fail")
    <3>1. /\ at'[w] = "fail"
          /\ \A v \in Workers \ {w} : at'[v] = at[v]
      BY <2>4, GotoTypes DEF Steps
    <3> QED
      BY <1>7, <2>2, <2>4, <3>1, HarmlessStep DEF Complete
  <2> QED
    BY <1>7, <2>3, <2>4 DEF Complete
<1>8. ASSUME NEW w \in Workers, Fail(w) PROVE ResultsConsistent'
  <2>1. CASE Goto(w, "idle") /\ UNCHANGED row
    <3>1. /\ at'[w] = "idle"
          /\ \A v \in Workers \ {w} : at'[v] = at[v]
      BY <2>1, GotoTypes DEF Steps
    <3> QED
      BY <1>8, <2>1, <3>1, HarmlessStep DEF Fail
  <2>2. CASE /\ row' = [row EXCEPT !.status = "FAILED", !.holder = NULL]
             /\ Goto(w, "audit failure")
    <3>1. /\ at'[w] = "audit failure"
          /\ \A v \in Workers \ {w} : at'[v] = at[v]
      BY <2>2, GotoTypes DEF Steps
    <3>2. row'.status = "FAILED" /\ row'.result = row.result
      BY <2>2 DEF TypeOK, Row
    <3> QED
      BY <1>8, <3>1, <3>2, HarmlessStep DEF Fail
  <2> QED
    BY <1>8, <2>1, <2>2 DEF Fail
<1>9. ASSUME NEW w \in Workers, Audit(w) PROVE ResultsConsistent'
  <2>1. Released' = Released
    BY <1>9, ReleasedStays DEF Audit
  <2>2. /\ at'[w] = "idle"
        /\ \A v \in Workers \ {w} : at'[v] = at[v]
    BY <1>9, GotoTypes DEF Audit, Steps
  <2>3. WorkersConsistent' /\ ReleasesAreClaimed'
    BY <1>9, <2>1, <2>2
    DEF Audit, ResultsConsistent, WorkersConsistent, ReleasesAreClaimed, AtWork
  <2>4. CASE /\ at[w] = "audit success"
             /\ audit' = audit \cup {<<w, "SUCCEEDED">>}
             /\ told' = told \cup {w}
    <3>1. row.result = w /\ row.status = "COMPLETED"
      BY <2>4, NullAssumption DEF TypeOK, ResultsConsistent, WorkersConsistent
    <3>2. \A v \in Workers : <<v, "SUCCEEDED">> \in audit'
                               => <<v, "SUCCEEDED">> \in audit \/ v = w
      BY <2>4
    <3> QED
      BY <1>9, <2>1, <2>3, <2>4, <3>1, <3>2
      DEF Audit, ResultsConsistent, ResultsAreReal
  <2>5. CASE audit' = audit \cup {<<w, "FAILED">>} /\ UNCHANGED told
    <3>1. \A v \in Workers : <<v, "SUCCEEDED">> \in audit'
                               => <<v, "SUCCEEDED">> \in audit
      BY <2>5
    <3> QED
      BY <1>9, <2>1, <2>3, <2>5, <3>1
      DEF Audit, ResultsConsistent, ResultsAreReal
  <2> QED
    BY <1>9, <2>4, <2>5 DEF Audit
<1>10. ASSUME NEW w \in Workers, Expire(w) PROVE ResultsConsistent'
  BY <1>10, ReleasedStays
  DEF Expire, ResultsConsistent, ResultsAreReal, WorkersConsistent,
      ReleasesAreClaimed, AtWork
<1>11. ASSUME NEW w \in Workers, Crash(w) PROVE ResultsConsistent'
  <2>1. /\ at'[w] = "idle"
        /\ \A v \in Workers \ {w} : at'[v] = at[v]
    BY <1>11, GotoTypes DEF Crash, Steps
  <2>2. \A v \in Workers \ {w} : found'[v] = found[v]
    BY <1>11 DEF Crash, TypeOK
  <2> QED
    BY <1>11, <2>1, <2>2, HarmlessStep DEF Crash
<1> QED
  BY <1>1, <1>2, <1>3, <1>4, <1>5, <1>6, <1>7, <1>8, <1>9, <1>10, <1>11 DEF Next

----------------------------------------------------------------------------
(* Exclusion: as long as no lease runs out under a worker. *)

\* The second half of Consistent.
ExclusionConsistent ==
  /\ ClaimIsHeld
  /\ ReleaseIsFirst
  /\ OneRelease

\* Two workers cannot both hold the row.
LEMMA HoldersAreAlone ==
  ASSUME ClaimIsHeld, ~overrun, NEW v \in AtWork, NEW w \in AtWork
  PROVE  v = w
  BY DEF ClaimIsHeld, AtWork

LEMMA NothingReleased ==
  ASSUME TypeOK, Released = {} PROVE world = <<>>
<1>1. Len(world) \in Nat /\ (world # <<>> => Len(world) \in Nat \ {0})
  BY EmptySeq, LenProperties DEF TypeOK
<1>2. ASSUME Len(world) # 0 PROVE FALSE
  <2>1. 1 \in 1 .. Len(world)
    BY <1>1, <1>2
  <2>2. world[1] \in Released
    BY <2>1 DEF Released
  <2> QED
    BY <2>2
<1> QED
  BY <1>1, <1>2

\* Leaving the work behind disturbs nobody, if the claim was one's own.
LEMMA LeavingWork ==
  ASSUME ExclusionConsistent, NEW w \in Workers, w \in AtWork,
         UNCHANGED <<world, leases, overrun>>, w \notin AtWork',
         \A v \in Workers \ {w} : at'[v] = at[v]
  PROVE  ExclusionConsistent'
<1>1. ASSUME ~overrun PROVE AtWork' = {}
  <2>1. ASSUME NEW v \in AtWork' PROVE FALSE
    <3>1. v # w /\ v \in AtWork
      BY <2>1 DEF AtWork
    <3> QED
      BY <1>1, <3>1, HoldersAreAlone DEF ExclusionConsistent
  <2> QED
    BY <2>1
<1>2. ASSUME ~overrun, NEW v \in Workers PROVE at'[v] # "release"
  BY <1>1, <1>2 DEF AtWork
<1> QED
  BY <1>1, <1>2
  DEF ExclusionConsistent, ClaimIsHeld, ReleaseIsFirst, OneRelease

\* The next step of the same work under the same claim.
LEMMA WorkingOn ==
  ASSUME ExclusionConsistent, NEW w \in Workers, w \in AtWork,
         UNCHANGED <<row, world, leases, overrun>>,
         \A v \in Workers \ {w} : at'[v] = at[v],
         at'[w] = "release" => world = <<>>
  PROVE  ExclusionConsistent'
  BY DEF ExclusionConsistent, ClaimIsHeld, ReleaseIsFirst, OneRelease, AtWork

LEMMA StepExclusion ==
  TypeOK /\ ResultsConsistent /\ ExclusionConsistent /\ [Next]_vars
    => ExclusionConsistent'
<1> SUFFICES ASSUME TypeOK, ResultsConsistent, ExclusionConsistent, [Next]_vars
             PROVE  ExclusionConsistent'
  OBVIOUS
<1>1. CASE UNCHANGED vars
  BY <1>1
  DEF vars, ExclusionConsistent, ClaimIsHeld, ReleaseIsFirst, OneRelease, AtWork
<1>2. ASSUME NEW w \in Workers, AnswerFromLedger(w) PROVE ExclusionConsistent'
  BY <1>2
  DEF AnswerFromLedger, ExclusionConsistent, ClaimIsHeld, ReleaseIsFirst,
      OneRelease, AtWork
<1>3. ASSUME NEW w \in Workers, Claim(w) PROVE ExclusionConsistent'
  <2>1. ASSUME ~overrun PROVE AtWork = {}
    BY <1>3, <2>1
    DEF Claim, MayClaim, LeaseIsLive, ExclusionConsistent, ClaimIsHeld, AtWork
  <2>2. /\ at'[w] = IF RecoveryRequired THEN "reconcile" ELSE "release"
        /\ \A v \in Workers \ {w} : at'[v] = at[v]
    BY <1>3, GotoTypes DEF Claim, Steps
  <2>3. row'.status = "CLAIMED" /\ row'.holder = w /\ leases' = leases \cup {w}
    BY <1>3 DEF Claim, TypeOK, Row
  <2>4. ASSUME ~overrun, NEW v \in Workers, v # w
        PROVE  v \notin AtWork' /\ at'[v] # "release"
    BY <2>1, <2>2, <2>4 DEF AtWork
  <2>5. ASSUME at'[w] = "release" PROVE world = <<>>
    BY <2>2, <2>5
    DEF RecoveryRequired, ResultsConsistent, ReleasesAreClaimed
  <2>6. ClaimIsHeld'
    BY <1>3, <2>3, <2>4 DEF Claim, ClaimIsHeld, AtWork
  <2>7. ReleaseIsFirst'
    BY <1>3, <2>4, <2>5 DEF Claim, ReleaseIsFirst
  <2> QED
    BY <1>3, <2>6, <2>7 DEF Claim, ExclusionConsistent, OneRelease
<1>4. ASSUME NEW w \in Workers, Reconcile(w) PROVE ExclusionConsistent'
  <2>1. w \in AtWork
    BY <1>4 DEF Reconcile, AtWork
  <2>2. ASSUME NEW s \in {"idle", "settle", "release"}, Goto(w, s),
               UNCHANGED world, s = "release" => Released = {}
        PROVE  ExclusionConsistent'
    <3>1. /\ at'[w] = s
          /\ \A v \in Workers \ {w} : at'[v] = at[v]
      BY <2>2, GotoTypes DEF Steps
    <3> QED
      <4>1. CASE s = "idle"
        BY <1>4, <2>1, <2>2, <3>1, <4>1, LeavingWork DEF Reconcile, AtWork
      <4>2. CASE s # "idle"
        BY <1>4, <2>1, <2>2, <3>1, NothingReleased, WorkingOn DEF Reconcile
      <4> QED
        BY <4>1, <4>2
  <2>3. CASE Released = {} /\ world' = Append(world, w) /\ Goto(w, "settle")
    <3>1. /\ at'[w] = "settle"
          /\ \A v \in Workers \ {w} : at'[v] = at[v]
      BY <2>3, GotoTypes DEF Steps
    <3>2. UNCHANGED <<row, leases, overrun>>
      BY <1>4 DEF Reconcile
    <3>3. Len(world') = 1
      BY <2>3, NothingReleased, EmptySeq, AppendProperties DEF TypeOK
    <3>4. ASSUME ~overrun, NEW v \in Workers PROVE at'[v] # "release"
      <4>1. CASE v = w
        BY <3>1, <4>1
      <4>2. CASE v # w
        BY <2>1, <3>1, <3>4, <4>2, HoldersAreAlone DEF ExclusionConsistent, AtWork
      <4> QED
        BY <4>1, <4>2
    <3> QED
      BY <2>1, <3>1, <3>2, <3>3, <3>4
      DEF ExclusionConsistent, ClaimIsHeld, ReleaseIsFirst, OneRelease, AtWork
  <2> QED
    BY <1>4, <2>2, <2>3 DEF Reconcile
<1>5. ASSUME NEW w \in Workers, Release(w) PROVE ExclusionConsistent'
  <2>1. w \in AtWork /\ (~overrun => world = <<>>)
    BY <1>5 DEF Release, AtWork, ExclusionConsistent, ReleaseIsFirst
  <2>2. /\ at'[w] \in {"complete", "fail"}
        /\ \A v \in Workers \ {w} : at'[v] = at[v]
    <3>1. CASE Goto(w, "complete")
      BY <3>1, GotoTypes DEF Steps
    <3>2. CASE Goto(w, "fail")
      BY <3>2, GotoTypes DEF Steps
    <3> QED
      BY <1>5, <3>1, <3>2 DEF Release
  <2>3. UNCHANGED <<row, leases, overrun>>
    BY <1>5 DEF Release
  <2>4. ClaimIsHeld'
    BY <2>1, <2>2, <2>3 DEF ExclusionConsistent, ClaimIsHeld, AtWork
  <2>5. ASSUME ~overrun, NEW v \in Workers PROVE at'[v] # "release"
    <3>1. CASE v = w
      BY <2>2, <3>1
    <3>2. CASE v # w
      BY <2>1, <2>2, <2>5, <3>2, HoldersAreAlone DEF ExclusionConsistent, AtWork
    <3> QED
      BY <3>1, <3>2
  <2>6. ASSUME ~overrun PROVE Len(world') <= 1
    <3>1. Len(world) = 0
      BY <2>1, <2>6, EmptySeq
    <3>2. CASE world' = Append(world, w)
      BY <3>1, <3>2, AppendProperties DEF TypeOK
    <3>3. CASE UNCHANGED world
      BY <3>1, <3>3
    <3> QED
      BY <1>5, <3>2, <3>3 DEF Release
  <2> QED
    BY <2>3, <2>4, <2>5, <2>6 DEF ExclusionConsistent, ReleaseIsFirst, OneRelease
<1>6. ASSUME NEW w \in Workers, Settle(w) PROVE ExclusionConsistent'
  <2>1. /\ at'[w] = "idle"
        /\ \A v \in Workers \ {w} : at'[v] = at[v]
    BY <1>6, GotoTypes DEF Settle, Steps
  <2> QED
    BY <1>6, <2>1, LeavingWork DEF Settle, AtWork
<1>7. ASSUME NEW w \in Workers, Complete(w) PROVE ExclusionConsistent'
  <2>1. w \in AtWork
    BY <1>7 DEF Complete, AtWork
  <2>2. CASE Goto(w, "audit success")
    <3>1. /\ at'[w] = "audit success"
          /\ \A v \in Workers \ {w} : at'[v] = at[v]
      BY <2>2, GotoTypes DEF Steps
    <3> QED
      BY <1>7, <2>1, <3>1, LeavingWork DEF Complete, AtWork
  <2>3. CASE UNCHANGED row /\ Goto(w, "fail")
    <3>1. /\ at'[w] = "fail"
          /\ \A v \in Workers \ {w} : at'[v] = at[v]
      BY <2>3, GotoTypes DEF Steps
    <3> QED
      BY <1>7, <2>1, <2>3, <3>1, WorkingOn DEF Complete
  <2> QED
    BY <1>7, <2>2, <2>3 DEF Complete
<1>8. ASSUME NEW w \in Workers, Fail(w) PROVE ExclusionConsistent'
  <2>1. /\ at'[w] \in {"idle", "audit failure"}
        /\ \A v \in Workers \ {w} : at'[v] = at[v]
    <3>1. CASE Goto(w, "idle")
      BY <3>1, GotoTypes DEF Steps
    <3>2. CASE Goto(w, "audit failure")
      BY <3>2, GotoTypes DEF Steps
    <3> QED
      BY <1>8, <3>1, <3>2 DEF Fail
  <2> QED
    BY <1>8, <2>1, LeavingWork DEF Fail, AtWork
<1>9. ASSUME NEW w \in Workers, Audit(w) PROVE ExclusionConsistent'
  <2>1. /\ at'[w] = "idle"
        /\ \A v \in Workers \ {w} : at'[v] = at[v]
    BY <1>9, GotoTypes DEF Audit, Steps
  <2> QED
    BY <1>9, <2>1
    DEF Audit, ExclusionConsistent, ClaimIsHeld, ReleaseIsFirst, OneRelease,
        AtWork
<1>10. ASSUME NEW w \in Workers, Expire(w) PROVE ExclusionConsistent'
  <2>1. ASSUME ~overrun' PROVE ~overrun /\ w \notin AtWork
    BY <1>10, <2>1 DEF Expire
  <2> QED
    BY <1>10, <2>1
    DEF Expire, ExclusionConsistent, ClaimIsHeld, ReleaseIsFirst, OneRelease,
        AtWork
<1>11. ASSUME NEW w \in Workers, Crash(w) PROVE ExclusionConsistent'
  <2>1. /\ at'[w] = "idle"
        /\ \A v \in Workers \ {w} : at'[v] = at[v]
    BY <1>11, GotoTypes DEF Crash, Steps
  <2> QED
    BY <1>11, <2>1
    DEF Crash, ExclusionConsistent, ClaimIsHeld, ReleaseIsFirst, OneRelease,
        AtWork
<1> QED
  BY <1>1, <1>2, <1>3, <1>4, <1>5, <1>6, <1>7, <1>8, <1>9, <1>10, <1>11 DEF Next

----------------------------------------------------------------------------
(* Theorems *)

LEMMA InitConsistent == Init => Consistent
<1> SUFFICES ASSUME Init PROVE Consistent
  OBVIOUS
<1>1. row.status = "NONE" /\ world = <<>> /\ told = {} /\ audit = {}
  BY DEF Init
<1>2. \A w \in Workers : at[w] = "idle"
  BY DEF Init
<1>3. Len(world) = 0
  BY <1>1, EmptySeq
<1>4. AtWork = {}
  BY <1>2 DEF AtWork
<1>5. ResultsAreReal /\ WorkersConsistent /\ ReleasesAreClaimed
  BY <1>1, <1>2, <1>4
  DEF ResultsAreReal, WorkersConsistent, ReleasesAreClaimed
<1>6. ClaimIsHeld /\ ReleaseIsFirst /\ OneRelease
  BY <1>1, <1>3, <1>4 DEF ClaimIsHeld, ReleaseIsFirst, OneRelease
<1> QED
  BY <1>5, <1>6 DEF Consistent

LEMMA StepConsistent ==
  TypeOK /\ Consistent /\ [Next]_vars => Consistent'
  BY StepResults, StepExclusion
  DEF Consistent, ResultsConsistent, ExclusionConsistent

\* The inductive invariant.
THEOREM ConsistencyHolds == Spec => [](TypeOK /\ Consistent)
<1>1. Init => TypeOK /\ Consistent
  BY InitTypes, InitConsistent
<1>2. TypeOK /\ Consistent /\ [Next]_vars => (TypeOK /\ Consistent)'
  BY StepTypes, StepConsistent
<1> QED
  BY <1>1, <1>2, PTL DEF Spec

\* Any number of workers exclude each other while no lease runs out under one.
THEOREM ExclusionCorrect == Spec => []OneAtWork
<1>1. Consistent => OneAtWork
  BY DEF Consistent, ClaimIsHeld, OneAtWork, AtWork
<1> QED
  BY <1>1, ConsistencyHolds, PTL

\* Then the adapter releases at most once, whoever dies and wherever it fails.
THEOREM OneReleaseCorrect == Spec => []OneRelease
<1>1. Consistent => OneRelease
  BY DEF Consistent
<1> QED
  BY <1>1, ConsistencyHolds, PTL

\* With or without leases that run out, a recorded, returned or audited
\* success was released.
THEOREM ResultsCorrect == Spec => []ResultsAreReal
<1>1. Consistent => ResultsAreReal
  BY DEF Consistent
<1> QED
  BY <1>1, ConsistencyHolds, PTL

LEMMA StepImplements ==
  TypeOK /\ Consistent /\ [Next]_vars => [Promise!EPNext]_<<row.result, told>>
<1> SUFFICES ASSUME TypeOK, Consistent, [Next]_vars
             PROVE  [Promise!EPNext]_<<row.result, told>>
  OBVIOUS
<1> USE DEF Promise!EPNext, Promise!Settle, Promise!Tell, Promise!SettleAndTell
<1>1. CASE row' = row /\ told' = told
  BY <1>1
<1>2. ASSUME row.result # NULL, row' = row, told' = told \cup {row.result}
      PROVE  Promise!EPNext
  BY <1>2
<1>3. ASSUME NEW b \in Workers, Accepts(b), row' = Completed(b),
             told' = told \/ told' = told \cup {b}
      PROVE  [Promise!EPNext]_<<row.result, told>>
  <2>1. row'.result = b /\ (row.result # NULL => row.result = b)
    BY <1>3, CompletionKeepsResult
  <2>2. CASE row.result = NULL
    BY <1>3, <2>1, <2>2
  <2>3. CASE row.result # NULL
    BY <1>3, <2>1, <2>3
  <2> QED
    BY <2>2, <2>3
<1>4. ASSUME NEW w \in Workers, AnswerFromLedger(w)
      PROVE  [Promise!EPNext]_<<row.result, told>>
  BY <1>2, <1>4 DEF AnswerFromLedger, TypeOK
<1>5. ASSUME NEW w \in Workers, Claim(w) \/ Fail(w)
      PROVE  row'.result = row.result /\ told' = told
  BY <1>5 DEF Claim, Fail, TypeOK, Row
<1>6. ASSUME NEW w \in Workers,
             Reconcile(w) \/ Release(w) \/ Expire(w) \/ Crash(w)
      PROVE  row' = row /\ told' = told
  BY <1>6 DEF Reconcile, Release, Expire, Crash
<1>7. ASSUME NEW w \in Workers, Settle(w)
      PROVE  [Promise!EPNext]_<<row.result, told>>
  <2>1. found[w] \in Workers
    BY <1>7 DEF Settle, TypeOK
  <2> QED
    BY <1>1, <1>3, <1>7, <2>1 DEF Settle
<1>8. ASSUME NEW w \in Workers, Complete(w)
      PROVE  [Promise!EPNext]_<<row.result, told>>
  BY <1>1, <1>3, <1>8 DEF Complete
<1>9. ASSUME NEW w \in Workers, Audit(w)
      PROVE  [Promise!EPNext]_<<row.result, told>>
  <2>1. at[w] = "audit success" => row.result = w
    BY DEF Consistent, WorkersConsistent
  <2> QED
    BY <1>1, <1>2, <1>9, <2>1, NullAssumption DEF Audit
<1>10. CASE UNCHANGED vars
  BY <1>1, <1>10 DEF vars
<1> QED
  BY <1>4, <1>5, <1>6, <1>7, <1>8, <1>9, <1>10 DEF Next

\* Everybody who is given a bundle is given the same one, for ever.
THEOREM PromiseImplemented == Spec => ImplementsEffectPromise
<1>1. Init => Promise!EPInit
  BY DEF Init, Promise!EPInit
<1> QED
  BY <1>1, StepImplements, ConsistencyHolds, PTL
  DEF Spec, ImplementsEffectPromise, Promise!EPSpec, Promise!epVars
=============================================================================
