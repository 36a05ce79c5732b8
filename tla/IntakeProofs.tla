---------------------------- MODULE IntakeProofs -----------------------------
(***************************************************************************)
(* Theorems about Intake, for any number of callers, sources, repositories *)
(* and packages, and about RepositoryScan, for any tree, limits and        *)
(* changes of the tree while it is read.                                   *)
(***************************************************************************)
EXTENDS RepositoryIntake, FiniteSetTheorems, SequenceTheorems,
        WellFoundedInduction, TLAPS

\* What a job holds at each of its steps.
JobsAreFormed ==
  \A w \in Workers : job[w] # NULL =>
    /\ job[w].at \in {"making", "filling", "filed", "parsing"} =>
         job[w].source \in Sources /\ job[w].rights \in Rights
    /\ job[w].at \in {"binding", "manifest", "mounting", "copying"} =>
         job[w].source \in Repos
    /\ job[w].at \in {"gathering", "saving"} => job[w].draft \in Draft

LineagesAreBounded == \A e \in evidence : Len(e.lineage) <= MaxLineage + 1

\* A record is about a part its source has.
PartsFit == \A e \in evidence : e.part \in PartsOf(e.source)

Types == TypeOK /\ JobsAreFormed /\ LineagesAreBounded /\ PartsFit

\* What is half-made has a maker or was cut short.
SourcesHaveMakers ==
  \A s \in Sources : disk[s] = "partial" => s \in cut \/ Working("filling", s)
MountsHaveMakers ==
  \A r \in Repos :
    /\ mount[r] = "bare" => r \in cutMounts \/ Working("manifest", r)
    /\ mount[r] = "partial" => r \in cutMounts \/ Working("copying", r)
HalvesHaveMakers == SourcesHaveMakers /\ MountsHaveMakers

\* A source is registered after its bytes are whole, and they stay so until
\* another caller writes them again.
IsFiled(s) == s \in shared \/ disk[s] = "whole"
RowsAreFiled ==
  /\ \A s \in Sources : IsRegistered(s) => IsFiled(s)
  /\ \A w \in Workers : At(w, "filed") => IsFiled(job[w].source)
  /\ \A w \in Workers : At(w, "parsing") => IsRegistered(job[w].source)

\* Records hang together.
RecordsAreRooted ==
  \A e \in evidence :
    /\ IsRegistered(e.source)
    /\ e \in Observed(e.source) \/ Parent(e) \in evidence

\* A locator leads to a row, and to the whole source or to a part of it.
Leads(l) ==
  /\ l.source \in Sources /\ l.revision \in DOMAIN rows[l.source]
  /\ l.part \in PartsOf(l.source)

\* What a set of records confirms, it confirms once.
ConfirmsOnce(F) == \A e, f \in F : KeyIn(e) = KeyIn(f) => e = f

\* The facts of P are still there in F, or have gone further.
AreKept(P, F) ==
  \A e \in P : \E f \in F :
    KeyIn(f) = KeyIn(e) /\ Len(f.lineage) >= Len(e.lineage)

\* What was gathered holds of the rows and the records as they are by now.
DraftIsGathered(draft) ==
  /\ \A s \in Sources : draft.sources[s] \in 0 .. Len(rows[s])
  /\ draft.observed \subseteq evidence
  /\ draft.confirmed \subseteq evidence /\ ConfirmsOnce(draft.confirmed)
  /\ \A e \in draft.confirmed : IsHuman(e)

\* No draft is ahead of the packages, and one that would be the next package
\* has the facts of every package so far.
Drafting(w) == job[w] # NULL /\ job[w].at \in {"gathering", "saving"}
DraftsAreCurrent ==
  /\ \A w \in Workers : Drafting(w) => job[w].draft.revision <= Len(contexts) + 1
  /\ \A w \in Workers : At(w, "saving") =>
       /\ DraftIsGathered(job[w].draft)
       /\ job[w].draft.revision = Len(contexts) + 1 =>
            \A n \in DOMAIN contexts : AreKept(contexts[n].facts, job[w].draft.confirmed)

\* A package cites what is there and offers what was cleared.
PackageIsSound(package) ==
  /\ package.facts \subseteq evidence /\ ConfirmsOnce(package.facts)
  /\ \A e \in package.facts : IsHuman(e)
  /\ \A l \in package.analysis \cup package.delivery : Leads(l)
  /\ \A l \in package.delivery :
       rows[l.source][l.revision] = "CLEARED_FOR_DELIVERY"
  /\ package.ready =>
       /\ RequiredAssets \subseteq {l.source : l \in package.delivery}
       /\ \A key \in RequiredKeys : \E e \in package.facts : KeyIn(e) = key
PackagesAreSound == \A n \in DOMAIN contexts : PackageIsSound(contexts[n])

PackagesKeepFacts ==
  \A m, n \in DOMAIN contexts : m < n =>
    AreKept(contexts[m].facts, contexts[n].facts)

----------------------------------------------------------------------------
(* Types *)

\* A job that goes on keeps what it holds.
LEMMA GotoIsFormed ==
  ASSUME Types, NEW w \in Workers, job[w] # NULL, NEW step \in Steps, Goto(w, step),
         step \in {"making", "filling", "filed", "parsing"} =>
           job[w].source \in Sources /\ job[w].rights \in Rights,
         step \in {"binding", "manifest", "mounting", "copying"} =>
           job[w].source \in Repos,
         step \in {"gathering", "saving"} => job[w].draft \in Draft
  PROVE  job' \in [Workers -> Job \cup {NULL}] /\ JobsAreFormed'
<1>1. job[w] \in Job
  BY DEF Types, TypeOK
<1>2. [job[w] EXCEPT !.at = step] \in Job
  BY <1>1 DEF Job
<1>3. job' = [job EXCEPT ![w] = [job[w] EXCEPT !.at = step]]
  BY DEF Goto
<1>4. job' \in [Workers -> Job \cup {NULL}]
  BY <1>2, <1>3 DEF Types, TypeOK
<1>5. ASSUME NEW v \in Workers, v # w
      PROVE  job'[v] = job[v]
  BY <1>3, <1>5 DEF Types, TypeOK
<1>6. /\ job'[w].at = step /\ job'[w].source = job[w].source
      /\ job'[w].rights = job[w].rights /\ job'[w].draft = job[w].draft
  BY <1>1, <1>3 DEF Types, TypeOK, Job
<1> QED
  BY <1>4, <1>5, <1>6 DEF Types, JobsAreFormed

LEMMA LeaveIsFormed ==
  ASSUME Types, NEW w \in Workers, Leave(w)
  PROVE  job' \in [Workers -> Job \cup {NULL}] /\ JobsAreFormed'
<1> QED
  BY DEF Types, TypeOK, JobsAreFormed, Leave

LEMMA BeginIsFormed ==
  ASSUME Types, NEW w \in Workers, NEW step \in Steps,
         NEW s \in Sources, NEW rights \in Rights \cup {NULL},
         step \in {"making", "filling", "filed", "parsing"} => rights \in Rights,
         step \in {"binding", "manifest", "mounting", "copying"} => s \in Repos,
         step \notin {"gathering", "saving"},
         BeginJob(w, step, s, rights)
  PROVE  job' \in [Workers -> Job \cup {NULL}] /\ JobsAreFormed' /\ jobs' \in Nat
<1> DEFINE new == [at |-> step, source |-> s, rights |-> rights, draft |-> NULL]
<1>1. new \in Job
  BY DEF Job
<1>2. job' = [job EXCEPT ![w] = new] /\ jobs' \in Nat
  BY DEF BeginJob, Types, TypeOK
<1> QED
  BY <1>1, <1>2 DEF Types, TypeOK, JobsAreFormed

LEMMA DerivedIsRecord ==
  ASSUME NEW e \in Record, NEW value \in Readings \cup Facts
  PROVE  /\ Derived(e, value) \in Record
         /\ Derived(e, value).source = e.source /\ Derived(e, value).part = e.part
         /\ Len(Derived(e, value).lineage) = Len(e.lineage) + 1
         /\ Parent(Derived(e, value)) = e
<1>1. PICK source \in Sources, part \in Parts,
           lineage \in Seq(Readings \cup Facts \cup {"native"}) :
        e = [source |-> source, part |-> part, lineage |-> lineage]
  BY DEF Record
<1>2. Derived(e, value) =
        [source |-> source, part |-> part, lineage |-> Append(lineage, value)]
  <2>1. e.lineage = lineage
    BY <1>1
  <2>2. ASSUME NEW longer
        PROVE  [e EXCEPT !.lineage = longer] =
                 [source |-> source, part |-> part, lineage |-> longer]
    BY <1>1
  <2> QED
    BY <2>1, <2>2 DEF Derived
<1>3. /\ Append(lineage, value) \in Seq(Readings \cup Facts \cup {"native"})
      /\ Len(Append(lineage, value)) = Len(lineage) + 1
  BY <1>1
<1>4. Front(Append(lineage, value)) = lineage
  BY <1>1, <1>3 DEF Front
<1>5. Parent(Derived(e, value)) = [source |-> source, part |-> part, lineage |-> lineage]
  BY <1>2, <1>4 DEF Parent
<1> QED
  BY <1>1, <1>2, <1>3, <1>5 DEF Record

LEMMA ObservationIsRecord ==
  ASSUME NEW s \in Sources, NEW e \in Observed(s)
  PROVE  /\ e \in Record
         /\ e.source = s /\ e.part \in PartsOf(s) /\ IsNative(e)
         /\ Len(e.lineage) = 1
<1>1. PICK part \in PartsOf(s) : e = Observation(s, part)
  BY DEF Observed
<1>2. part \in Parts
  BY DEF PartsOf, Parts
<1> QED
  BY <1>1, <1>2 DEF Observation, Record, IsNative

\* What a caller gathers are stored records: under every key that a person has
\* confirmed, one confirmation that is no shorter than the others.
LEMMA GatheredAreConfirmed ==
  ASSUME Types, NEW last \in [Confirmed -> {e \in evidence : IsHuman(e)}],
         \A key \in Confirmed : last[key] \in Latest(key)
  PROVE  LET F == {last[key] : key \in Confirmed} IN
         /\ F \subseteq evidence /\ ConfirmsOnce(F)
         /\ \A e \in F : IsHuman(e)
         /\ \A e \in evidence : IsHuman(e) =>
              \E f \in F : KeyIn(f) = KeyIn(e) /\ Len(f.lineage) >= Len(e.lineage)
<1> DEFINE F == {last[key] : key \in Confirmed}
<1>1. \A key \in Confirmed : last[key] \in evidence /\ IsHuman(last[key])
                               /\ KeyIn(last[key]) = key
  BY DEF Latest, Confirmations
<1>2. ConfirmsOnce(F)
  BY <1>1 DEF ConfirmsOnce
<1>3. ASSUME NEW e \in evidence, IsHuman(e)
      PROVE  \E f \in F : KeyIn(f) = KeyIn(e) /\ Len(f.lineage) >= Len(e.lineage)
  <2> DEFINE f == last[KeyIn(e)]
  <2>1. KeyIn(e) \in Confirmed /\ e \in Confirmations(KeyIn(e))
    BY <1>3 DEF Confirmed, Confirmations
  <2>2. f \in F /\ KeyIn(f) = KeyIn(e) /\ f \in evidence
    BY <1>1, <2>1
  <2>3. Len(e.lineage) <= Len(f.lineage)
    BY <2>1 DEF Latest
  <2>4. Len(e.lineage) \in Nat /\ Len(f.lineage) \in Nat
    BY <2>2 DEF Types, TypeOK, Record
  <2> QED
    BY <2>2, <2>3, <2>4
<1> QED
  BY <1>1, <1>2, <1>3

\* What is cited of a source that a draft lists.
LEMMA CitedLeads ==
  ASSUME Types, NEW draft \in Draft, DraftIsGathered(draft),
         NEW s \in Listed(draft)
  PROVE  /\ \A l \in Cited(draft, s) :
              Leads(l) /\ l.source = s /\ l.revision = draft.sources[s]
         /\ Cited(draft, s) # {}
<1> DEFINE revision == draft.sources[s]
           observed == {e \in draft.observed : e.source = s /\ revision = 1}
<1>1. s \in Sources /\ revision \in Nat /\ revision \in DOMAIN rows[s]
  BY DEF Listed, DraftIsGathered, Draft, Types, TypeOK
<1>2. CASE s \in Files
  <2>1. Cited(draft, s) = {[source |-> s, part |-> "whole", revision |-> revision]}
    BY <1>2 DEF Cited
  <2>2. s \notin Repos
    BY <1>2, SourcesAssumption
  <2> QED
    BY <1>1, <2>1, <2>2 DEF Leads, PartsOf
<1>3. CASE s \notin Files /\ observed = {}
  <2>1. Cited(draft, s) = {[source |-> s, part |-> "root", revision |-> revision]}
    BY <1>3 DEF Cited
  <2> QED
    BY <1>1, <1>3, <2>1 DEF Leads, PartsOf, Sources
<1>4. CASE s \notin Files /\ observed # {}
  <2>1. Cited(draft, s) = {LocatorIn(e) : e \in observed}
    BY <1>4 DEF Cited
  <2>2. revision = 1
    BY <1>4
  <2>3. ASSUME NEW e \in observed
        PROVE  /\ Leads(LocatorIn(e))
               /\ LocatorIn(e).source = s /\ LocatorIn(e).revision = revision
    <3>1. e \in evidence /\ e \in Record /\ e.source = s
      BY DEF DraftIsGathered, Types, TypeOK
    <3>2. e.part \in PartsOf(s)
      BY <3>1 DEF Types, PartsFit
    <3> QED
      BY <1>1, <2>2, <3>1, <3>2 DEF LocatorIn, Leads
  <2> QED
    BY <1>4, <2>1, <2>3
<1> QED
  BY <1>2, <1>3, <1>4

LEMMA AssembledIsPackage ==
  ASSUME Types, NEW draft \in Draft, NEW signed \in Signatures
  PROVE  Assembled(draft, signed) \in Package
<1>1. ASSUME NEW s \in Sources
      PROVE  Cited(draft, s) \subseteq Locator
  BY DEF Cited, Locator, LocatorIn, Parts, Draft, Record
<1>2. /\ LocatorsOf(draft, Analysable(draft)) \subseteq Locator
      /\ LocatorsOf(draft, Deliverable(draft)) \subseteq Locator
  BY <1>1 DEF LocatorsOf, Analysable, Deliverable, Listed
<1> QED
  BY <1>2 DEF Assembled, Package, Draft, IsSigned, Signatures

LEMMA TypeStep == Types /\ [Next]_vars => Types'
<1> SUFFICES ASSUME Types, [Next]_vars
             PROVE  Types'
  OBVIOUS
<1> USE DEF Types, TypeOK, LineagesAreBounded, PartsFit
<1>1. ASSUME NEW w \in Workers, NEW s \in Sources, NEW rights \in Rights,
             Ingest(w, s, rights)
      PROVE  Types'
  <2>1. job' \in [Workers -> Job \cup {NULL}] /\ JobsAreFormed' /\ jobs' \in Nat
    BY <1>1, BeginIsFormed DEF Ingest, Steps
  <2> QED
    BY <1>1, <2>1 DEF Ingest
<1>2. ASSUME NEW w \in Workers, MakeSource(w)
      PROVE  Types'
  <2>1. job[w] # NULL /\ job[w].source \in Sources /\ job[w].rights \in Rights
    BY <1>2 DEF MakeSource, At, JobsAreFormed
  <2>2. job' \in [Workers -> Job \cup {NULL}] /\ JobsAreFormed'
    BY <1>2, <2>1, GotoIsFormed, LeaveIsFormed DEF MakeSource, Steps
  <2>3. disk' \in [Sources -> DiskState] /\ shared' \subseteq Sources
    <3>1. /\ disk' \in {disk, [disk EXCEPT ![job[w].source] = "partial"]}
          /\ shared' \in {shared, shared \cup {job[w].source}}
      BY <1>2 DEF MakeSource
    <3>2. disk \in [Sources -> DiskState] /\ shared \subseteq Sources
      OBVIOUS
    <3> QED
      BY <2>1, <3>1, <3>2 DEF DiskState
  <2> QED
    BY <1>2, <2>2, <2>3 DEF MakeSource
<1>3. ASSUME NEW w \in Workers, FillSource(w)
      PROVE  Types'
  <2>1. job[w] # NULL /\ job[w].source \in Sources /\ job[w].rights \in Rights
    BY <1>3 DEF FillSource, At, JobsAreFormed
  <2>2. job' \in [Workers -> Job \cup {NULL}] /\ JobsAreFormed'
    BY <1>3, <2>1, GotoIsFormed DEF FillSource, Steps
  <2> QED
    BY <1>3, <2>1, <2>2 DEF FillSource, DiskState
<1>4. ASSUME NEW w \in Workers, AddSource(w)
      PROVE  Types'
  <2>1. job[w] # NULL /\ job[w].source \in Sources /\ job[w].rights \in Rights
    BY <1>4 DEF AddSource, At, JobsAreFormed
  <2>2. job' \in [Workers -> Job \cup {NULL}] /\ JobsAreFormed'
    BY <1>4, <2>1, GotoIsFormed, LeaveIsFormed DEF AddSource, Steps
  <2>3. <<job[w].rights>> \in Seq(Rights)
    BY <2>1
  <2>4. rows' = rows \/ rows' = [rows EXCEPT ![job[w].source] = <<job[w].rights>>]
    BY <1>4 DEF AddSource
  <2>5. rows' \in [Sources -> Seq(Rights)]
    BY <2>1, <2>3, <2>4
  <2> QED
    BY <1>4, <2>2, <2>5 DEF AddSource
<1>5. ASSUME NEW w \in Workers, AddObservations(w)
      PROVE  Types'
  <2>1. job[w].source \in Sources
    BY <1>5 DEF AddObservations, At, JobsAreFormed
  <2>2. \A e \in Observed(job[w].source) :
          e \in Record /\ Len(e.lineage) = 1 /\ e.part \in PartsOf(e.source)
    BY <2>1, ObservationIsRecord
  <2>3. evidence' = evidence \cup Observed(job[w].source)
    BY <1>5 DEF AddObservations
  <2>4. 1 <= MaxLineage + 1
    BY BoundsAssumption
  <2>5. evidence' \subseteq Record /\ LineagesAreBounded' /\ PartsFit'
    BY <2>2, <2>3, <2>4
  <2> QED
    BY <1>5, <2>5, LeaveIsFormed DEF AddObservations
<1>6. ASSUME NEW s \in Sources, NEW rights \in Rights, ReviseRights(s, rights)
      PROVE  Types'
  BY <1>6 DEF ReviseRights, JobsAreFormed
<1>7. ASSUME NEW e \in Held, NEW value \in Readings \cup Facts, Derive(e, value)
      PROVE  Types'
  <2>1. /\ Derived(e, value) \in Record
        /\ Derived(e, value).source = e.source /\ Derived(e, value).part = e.part
        /\ Len(Derived(e, value).lineage) = Len(e.lineage) + 1
    BY <1>7, DerivedIsRecord DEF Derive
  <2>2. Len(e.lineage) < MaxLineage /\ Len(e.lineage) \in Nat
    BY <1>7 DEF Derive, Record
  <2>3. evidence' \subseteq Record /\ LineagesAreBounded' /\ PartsFit'
    BY <1>7, <2>1, <2>2, BoundsAssumption DEF Derive
  <2> QED
    BY <1>7, <2>3 DEF Derive, JobsAreFormed
<1>8. ASSUME NEW w \in Workers, BeginPackage(w)
      PROVE  Types'
  <2> DEFINE draft == [revision |-> Len(contexts) + 1,
                       sources |-> [s \in Sources |-> 0],
                       observed |-> {}, confirmed |-> {}]
             new == [at |-> "gathering", source |-> NULL, rights |-> NULL,
                     draft |-> draft]
  <2>1. Len(contexts) \in Nat
    OBVIOUS
  <2>2. draft \in Draft
    BY <2>1 DEF Draft
  <2>3. new \in Job
    BY <2>2 DEF Job, Steps
  <2>4. job' = [job EXCEPT ![w] = new] /\ jobs' \in Nat
    BY <1>8 DEF BeginPackage
  <2>5. job' \in [Workers -> Job \cup {NULL}] /\ JobsAreFormed'
    BY <2>2, <2>3, <2>4 DEF JobsAreFormed
  <2> QED
    BY <1>8, <2>4, <2>5 DEF BeginPackage
<1>9. ASSUME NEW w \in Workers, Gather(w)
      PROVE  Types'
  <2>1. PICK last \in [Confirmed -> {e \in evidence : IsHuman(e)}] :
          /\ \A key \in Confirmed : last[key] \in Latest(key)
          /\ job' = [job EXCEPT ![w] =
               [at |-> "saving", source |-> NULL, rights |-> NULL,
                draft |-> [revision |-> job[w].draft.revision,
                           sources |-> [s \in Sources |-> Len(rows[s])],
                           observed |-> {e \in evidence :
                                           IsNative(e) /\ e.source \in Repos},
                           confirmed |-> {last[key] : key \in Confirmed}]]]
    BY <1>9 DEF Gather
  <2> DEFINE confirmed == {last[key] : key \in Confirmed}
             draft == [revision |-> job[w].draft.revision,
                       sources |-> [s \in Sources |-> Len(rows[s])],
                       observed |-> {e \in evidence : IsNative(e) /\ e.source \in Repos},
                       confirmed |-> confirmed]
             new == [at |-> "saving", source |-> NULL, rights |-> NULL,
                     draft |-> draft]
  <2>2. job[w] \in Job /\ job[w].draft \in Draft
    BY <1>9 DEF Gather, At, JobsAreFormed
  <2>3. confirmed \subseteq Record
    BY <2>1
  <2>4. draft \in Draft
    BY <2>2, <2>3 DEF Draft
  <2>5. new \in Job
    BY <2>2, <2>4 DEF Job, Steps
  <2>6. job' = [job EXCEPT ![w] = new]
    BY <2>1
  <2>7. job' \in [Workers -> Job \cup {NULL}] /\ JobsAreFormed'
    BY <2>4, <2>5, <2>6 DEF JobsAreFormed
  <2> QED
    BY <1>9, <2>7 DEF Gather
<1>10. ASSUME NEW w \in Workers, NEW signed \in Signatures, SavePackage(w, signed)
       PROVE  Types'
  <2>1. job[w].draft \in Draft
    BY <1>10 DEF SavePackage, At, JobsAreFormed
  <2>2. Assembled(job[w].draft, signed) \in Package
    BY <2>1, AssembledIsPackage
  <2>3. contexts' \in Seq(Package)
    BY <1>10, <2>2 DEF SavePackage
  <2> QED
    BY <1>10, <2>3, LeaveIsFormed DEF SavePackage
<1>11. ASSUME NEW w \in Workers, NEW r \in Repos, OpenWorkspace(w, r)
       PROVE  Types'
  <2>1. job' \in [Workers -> Job \cup {NULL}] /\ JobsAreFormed' /\ jobs' \in Nat
    BY <1>11, BeginIsFormed DEF OpenWorkspace, Steps, Sources
  <2> QED
    BY <1>11, <2>1 DEF OpenWorkspace
<1>12. ASSUME NEW w \in Workers, MakeDirectories(w)
       PROVE  Types'
  <2>1. job[w] # NULL /\ job[w].source \in Repos
    BY <1>12 DEF MakeDirectories, At, JobsAreFormed
  <2>2. job' \in [Workers -> Job \cup {NULL}] /\ JobsAreFormed'
    BY <1>12, <2>1, GotoIsFormed DEF MakeDirectories, Steps
  <2> QED
    BY <1>12, <2>1, <2>2 DEF MakeDirectories, MountState
<1>13. ASSUME NEW w \in Workers, WriteManifest(w)
       PROVE  Types'
  <2>1. job[w] # NULL /\ job[w].source \in Repos
    BY <1>13 DEF WriteManifest, At, JobsAreFormed
  <2>2. job' \in [Workers -> Job \cup {NULL}] /\ JobsAreFormed'
    BY <1>13, <2>1, GotoIsFormed, LeaveIsFormed DEF WriteManifest, Steps
  <2> QED
    BY <1>13, <2>1, <2>2 DEF WriteManifest, MountState
<1>14. ASSUME NEW w \in Workers, MountFirst(w)
       PROVE  Types'
  <2>1. job[w] # NULL /\ job[w].source \in Repos
    BY <1>14 DEF MountFirst, At, JobsAreFormed
  <2>2. job' \in [Workers -> Job \cup {NULL}] /\ JobsAreFormed'
    BY <1>14, <2>1, GotoIsFormed, LeaveIsFormed DEF MountFirst, Steps
  <2>3. mount' \in [Repos -> MountState]
    BY <1>14, <2>1 DEF MountFirst, MountState
  <2> QED
    BY <1>14, <2>2, <2>3 DEF MountFirst
<1>15. ASSUME NEW w \in Workers, MountRest(w)
       PROVE  Types'
  BY <1>15, LeaveIsFormed DEF MountRest, MountState
<1>16. ASSUME NEW w \in Workers, Crash(w)
       PROVE  Types'
  <2>1. /\ At(w, "filling") => job[w].source \in Sources
        /\ At(w, "manifest") \/ At(w, "copying") => job[w].source \in Repos
    BY DEF At, JobsAreFormed
  <2>2. cut' \subseteq Sources /\ cutMounts' \subseteq Repos
    BY <1>16, <2>1 DEF Crash
  <2> QED
    BY <1>16, <2>2, LeaveIsFormed DEF Crash
<1>17. CASE UNCHANGED vars
  BY <1>17 DEF vars, JobsAreFormed
<1> QED
  BY <1>1, <1>2, <1>3, <1>4, <1>5, <1>6, <1>7, <1>8, <1>9, <1>10, <1>11, <1>12,
     <1>13, <1>14, <1>15, <1>16, <1>17
  DEF Next, IngestStep, PackageStep, WorkspaceStep

\* Every table, row, record and draft of the intake keeps its shape, and a job
\* holds at each of its steps what that step needs (Intake's handlers).
THEOREM TypeCorrect == Spec => []Types
<1>1. Init => Types
  BY DEF Init, Types, TypeOK, JobsAreFormed, LineagesAreBounded, PartsFit, DiskState,
         MountState
<1> QED
  BY <1>1, TypeStep, PTL DEF Spec

----------------------------------------------------------------------------
(* What a step of one caller does to the jobs *)

Others(w) == \A v \in Workers \ {w} : job'[v] = job[v]

LEMMA GotoMoves ==
  ASSUME Types, NEW w \in Workers, job[w] # NULL, NEW step \in Steps, Goto(w, step)
  PROVE  /\ Others(w)
         /\ job'[w] # NULL /\ job'[w].at = step /\ job'[w].source = job[w].source
<1>1. job[w] \in Job
  BY DEF Types, TypeOK
<1>2. job' = [job EXCEPT ![w] = [job[w] EXCEPT !.at = step]]
  BY DEF Goto
<1>3. [job[w] EXCEPT !.at = step] \in Job
  BY <1>1 DEF Job
<1> QED
  BY <1>1, <1>2, <1>3, NullAssumption DEF Others, Types, TypeOK, Job

LEMMA LeaveMoves ==
  ASSUME Types, NEW w \in Workers, Leave(w)
  PROVE  Others(w) /\ job'[w] = NULL
<1> QED
  BY DEF Others, Types, TypeOK, Leave

LEMMA BeginMoves ==
  ASSUME Types, NEW w \in Workers, NEW step, NEW s, NEW rights,
         BeginJob(w, step, s, rights)
  PROVE  /\ Others(w) /\ job[w] = NULL
         /\ job'[w].at = step /\ job'[w].source = s
<1> QED
  BY DEF Others, Types, TypeOK, BeginJob

LEMMA PackageMoves ==
  ASSUME Types, NEW w \in Workers, BeginPackage(w) \/ Gather(w)
  PROVE  /\ Others(w)
         /\ job[w] = NULL \/ job[w].at = "gathering"
         /\ job'[w].at \in {"gathering", "saving"}
<1> QED
  BY DEF Others, Types, TypeOK, BeginPackage, Gather, At

----------------------------------------------------------------------------
(* Half-made things *)

\* A step that leaves the disk, the mounts and those who fill them alone.
LEMMA HalvesStay ==
  ASSUME HalvesHaveMakers, UNCHANGED <<disk, mount, cut, cutMounts>>,
         \A w \in Workers :
           At(w, "filling") \/ At(w, "manifest") \/ At(w, "copying") => job'[w] = job[w]
  PROVE  HalvesHaveMakers'
<1> QED
  BY DEF HalvesHaveMakers, SourcesHaveMakers, MountsHaveMakers, Working, At

\* Who is not the caller of the step goes on working.
LEMMA OthersGoOn ==
  ASSUME NEW w \in Workers, Others(w), NEW step, NEW s, Working(step, s),
         ~(At(w, step) /\ job[w].source = s)
  PROVE  Working(step, s)'
<1>1. PICK v \in Workers : At(v, step) /\ job[v].source = s
  BY DEF Working
<1>2. v # w /\ job'[v] = job[v]
  BY <1>1 DEF Others
<1> QED
  BY <1>1, <1>2 DEF Working, At

\* A step of a caller that is not filling leaves the makers of the sources.
LEMMA SourcesStay ==
  ASSUME SourcesHaveMakers, NEW w \in Workers, Others(w), ~At(w, "filling"),
         UNCHANGED <<disk, cut>>
  PROVE  SourcesHaveMakers'
<1> QED
  BY OthersGoOn DEF SourcesHaveMakers

LEMMA MountsStay ==
  ASSUME MountsHaveMakers, NEW w \in Workers, Others(w),
         ~At(w, "manifest"), ~At(w, "copying"), UNCHANGED <<mount, cutMounts>>
  PROVE  MountsHaveMakers'
<1> QED
  BY OthersGoOn DEF MountsHaveMakers

LEMMA HalvesStep == Types /\ HalvesHaveMakers /\ [Next]_vars => HalvesHaveMakers'
<1> SUFFICES ASSUME Types, HalvesHaveMakers, [Next]_vars
             PROVE  HalvesHaveMakers'
  OBVIOUS
<1>1. ASSUME NEW w \in Workers, NEW s \in Sources, NEW rights \in Rights,
             Ingest(w, s, rights)
      PROVE  HalvesHaveMakers'
  <2>1. Others(w) /\ job[w] = NULL
    BY <1>1, BeginMoves DEF Ingest
  <2> QED
    BY <1>1, <2>1, HalvesStay DEF Ingest, At, Others
<1>2. ASSUME NEW w \in Workers, MakeSource(w)
      PROVE  HalvesHaveMakers'
  <2> DEFINE s == job[w].source
  <2>1. job[w] # NULL /\ job[w].at = "making" /\ s \in Sources
    BY <1>2 DEF MakeSource, At, Types, JobsAreFormed
  <2>2. CASE s \in Repos /\ disk[s] # "absent"
    <3>1. Others(w) /\ UNCHANGED <<disk, cut>>
      BY <1>2, <2>2, LeaveMoves DEF MakeSource
    <3> QED
      BY <1>2, <2>1, <3>1, HalvesStay DEF MakeSource, At, Others
  <2>3. CASE ~(s \in Repos /\ disk[s] # "absent")
    <3>1. /\ Others(w) /\ job'[w] # NULL /\ job'[w].at = "filling" /\ job'[w].source = s
          /\ disk' = [disk EXCEPT ![s] = "partial"] /\ cut \subseteq cut'
      BY <1>2, <2>1, <2>3, GotoMoves DEF MakeSource, Steps
    <3>2. UNCHANGED <<mount, cutMounts>>
      BY <1>2 DEF MakeSource
    <3>3. Working("filling", s)'
      BY <3>1 DEF Working, At
    <3>4. ASSUME NEW t \in Sources, t # s, disk[t]' = "partial"
          PROVE  t \in cut' \/ Working("filling", t)'
      BY <2>1, <3>1, <3>4, OthersGoOn
      DEF HalvesHaveMakers, SourcesHaveMakers, Types, TypeOK
    <3>5. SourcesHaveMakers'
      BY <3>1, <3>3, <3>4 DEF SourcesHaveMakers
    <3>6. MountsHaveMakers'
      BY <2>1, <3>1, <3>2, MountsStay DEF HalvesHaveMakers, At
    <3> QED
      BY <3>5, <3>6 DEF HalvesHaveMakers
  <2> QED
    BY <2>2, <2>3
<1>3. ASSUME NEW w \in Workers, FillSource(w)
      PROVE  HalvesHaveMakers'
  <2> DEFINE s == job[w].source
  <2>1. job[w] # NULL /\ job[w].at = "filling" /\ s \in Sources
    BY <1>3 DEF FillSource, At, Types, JobsAreFormed
  <2>2. Others(w) /\ disk' = [disk EXCEPT ![s] = "whole"]
    BY <1>3, <2>1, GotoMoves DEF FillSource, Steps
  <2>3. UNCHANGED <<mount, cut, cutMounts>>
    BY <1>3 DEF FillSource
  <2>4. ASSUME NEW t \in Sources, disk[t]' = "partial"
        PROVE  t \in cut' \/ Working("filling", t)'
    <3>1. t # s /\ disk[t] = "partial"
      BY <2>1, <2>2, <2>4 DEF Types, TypeOK
    <3> QED
      BY <2>2, <2>3, <3>1, OthersGoOn DEF HalvesHaveMakers, SourcesHaveMakers
  <2>5. MountsHaveMakers'
    BY <2>1, <2>2, <2>3, MountsStay DEF HalvesHaveMakers, At
  <2> QED
    BY <2>4, <2>5 DEF HalvesHaveMakers, SourcesHaveMakers
<1>4. ASSUME NEW w \in Workers, AddSource(w)
      PROVE  HalvesHaveMakers'
  <2>1. job[w] # NULL /\ job[w].at = "filed"
    BY <1>4 DEF AddSource, At
  <2>2. Others(w)
    BY <1>4, <2>1, GotoMoves, LeaveMoves DEF AddSource, Steps
  <2> QED
    BY <1>4, <2>1, <2>2, HalvesStay DEF AddSource, At, Others
<1>5. ASSUME NEW w \in Workers, AddObservations(w)
      PROVE  HalvesHaveMakers'
  BY <1>5, LeaveMoves, HalvesStay DEF AddObservations, At, Others
<1>6. ASSUME NEW w \in Workers, BeginPackage(w) \/ Gather(w)
      PROVE  HalvesHaveMakers'
  BY <1>6, PackageMoves, HalvesStay DEF BeginPackage, Gather, At, Others
<1>7. ASSUME NEW w \in Workers, NEW signed \in Signatures, SavePackage(w, signed)
      PROVE  HalvesHaveMakers'
  BY <1>7, LeaveMoves, HalvesStay DEF SavePackage, At, Others
<1>8. ASSUME NEW w \in Workers, NEW r \in Repos, OpenWorkspace(w, r)
      PROVE  HalvesHaveMakers'
  <2>1. Others(w) /\ job[w] = NULL
    BY <1>8, BeginMoves DEF OpenWorkspace
  <2> QED
    BY <1>8, <2>1, HalvesStay DEF OpenWorkspace, At, Others
<1>9. ASSUME NEW w \in Workers, MakeDirectories(w)
      PROVE  HalvesHaveMakers'
  <2> DEFINE r == job[w].source
  <2>1. job[w] # NULL /\ job[w].at = "binding" /\ r \in Repos
    BY <1>9 DEF MakeDirectories, At, Types, JobsAreFormed
  <2>2. /\ Others(w) /\ job'[w] # NULL /\ job'[w].at = "manifest" /\ job'[w].source = r
        /\ mount' = [mount EXCEPT ![r] = IF mount[r] = "absent" THEN "bare" ELSE mount[r]]
    BY <1>9, <2>1, GotoMoves DEF MakeDirectories, Steps
  <2>3. UNCHANGED <<disk, cut, cutMounts>>
    BY <1>9 DEF MakeDirectories
  <2>4. Working("manifest", r)'
    BY <2>2 DEF Working, At
  <2>5. ASSUME NEW q \in Repos
        PROVE  /\ mount'[q] = "bare" => q \in cutMounts \/ Working("manifest", q)'
               /\ mount'[q] = "partial" => q \in cutMounts \/ Working("copying", q)'
    <3>1. /\ mount'[q] = "bare" => q = r \/ mount[q] = "bare"
          /\ mount'[q] = "partial" => mount[q] = "partial"
      BY <2>1, <2>2 DEF Types, TypeOK
    <3> QED
      BY <2>1, <2>2, <2>4, <3>1, OthersGoOn DEF HalvesHaveMakers, MountsHaveMakers, At
  <2>6. SourcesHaveMakers'
    BY <2>1, <2>2, <2>3, SourcesStay DEF HalvesHaveMakers, At
  <2> QED
    BY <2>3, <2>5, <2>6 DEF HalvesHaveMakers, MountsHaveMakers
<1>10. ASSUME NEW w \in Workers, WriteManifest(w)
       PROVE  HalvesHaveMakers'
  <2> DEFINE r == job[w].source
  <2>1. job[w] # NULL /\ job[w].at = "manifest" /\ r \in Repos
    BY <1>10 DEF WriteManifest, At, Types, JobsAreFormed
  <2>2. /\ Others(w)
        /\ mount' = [mount EXCEPT ![r] = IF mount[r] = "bare" THEN "empty" ELSE mount[r]]
    BY <1>10, <2>1, GotoMoves, LeaveMoves DEF WriteManifest, Steps
  <2>3. UNCHANGED <<disk, cut, cutMounts>>
    BY <1>10 DEF WriteManifest
  <2>4. ASSUME NEW q \in Repos
        PROVE  /\ mount'[q] = "bare" => q \in cutMounts \/ Working("manifest", q)'
               /\ mount'[q] = "partial" => q \in cutMounts \/ Working("copying", q)'
    <3>1. /\ mount'[q] = "bare" => q # r /\ mount[q] = "bare"
          /\ mount'[q] = "partial" => mount[q] = "partial"
      BY <2>1, <2>2 DEF Types, TypeOK
    <3> QED
      BY <2>1, <2>2, <3>1, OthersGoOn DEF HalvesHaveMakers, MountsHaveMakers, At
  <2>5. SourcesHaveMakers'
    BY <2>1, <2>2, <2>3, SourcesStay DEF HalvesHaveMakers, At
  <2> QED
    BY <2>3, <2>4, <2>5 DEF HalvesHaveMakers, MountsHaveMakers
<1>11. ASSUME NEW w \in Workers, MountFirst(w)
       PROVE  HalvesHaveMakers'
  <2> DEFINE r == job[w].source
  <2>1. job[w] # NULL /\ job[w].at = "mounting" /\ r \in Repos
    BY <1>11 DEF MountFirst, At, Types, JobsAreFormed
  <2>2. UNCHANGED <<disk, cut, cutMounts>>
    BY <1>11 DEF MountFirst
  <2>3. CASE ReadsSnapshot(r) /\ mount[r] = "empty"
    <3>1. /\ Others(w) /\ job'[w] # NULL /\ job'[w].at = "copying" /\ job'[w].source = r
          /\ mount' = [mount EXCEPT ![r] = "partial"]
      BY <1>11, <2>1, <2>3, GotoMoves DEF MountFirst, Steps
    <3>2. Working("copying", r)'
      BY <3>1 DEF Working, At
    <3>3. ASSUME NEW q \in Repos
          PROVE  /\ mount'[q] = "bare" => q \in cutMounts \/ Working("manifest", q)'
                 /\ mount'[q] = "partial" => q \in cutMounts \/ Working("copying", q)'
      <4>1. /\ mount'[q] = "bare" => mount[q] = "bare"
            /\ mount'[q] = "partial" => q = r \/ mount[q] = "partial"
        BY <2>1, <3>1 DEF Types, TypeOK
      <4> QED
        BY <2>1, <3>1, <3>2, <4>1, OthersGoOn DEF HalvesHaveMakers, MountsHaveMakers, At
    <3>4. SourcesHaveMakers'
      BY <2>1, <2>2, <3>1, SourcesStay DEF HalvesHaveMakers, At
    <3> QED
      BY <2>2, <3>3, <3>4 DEF HalvesHaveMakers, MountsHaveMakers
  <2>4. CASE ~(ReadsSnapshot(r) /\ mount[r] = "empty")
    <3>1. Others(w) /\ UNCHANGED mount
      BY <1>11, <2>4, LeaveMoves DEF MountFirst
    <3> QED
      BY <2>1, <2>2, <3>1, HalvesStay DEF At, Others
  <2> QED
    BY <2>3, <2>4
<1>12. ASSUME NEW w \in Workers, MountRest(w)
       PROVE  HalvesHaveMakers'
  <2> DEFINE r == job[w].source
  <2>1. job[w] # NULL /\ job[w].at = "copying" /\ r \in Repos
    BY <1>12 DEF MountRest, At, Types, JobsAreFormed
  <2>2. Others(w) /\ mount' = [mount EXCEPT ![r] = "whole"]
    BY <1>12, LeaveMoves DEF MountRest
  <2>3. UNCHANGED <<disk, cut, cutMounts>>
    BY <1>12 DEF MountRest
  <2>4. ASSUME NEW q \in Repos
        PROVE  /\ mount'[q] = "bare" => q \in cutMounts \/ Working("manifest", q)'
               /\ mount'[q] = "partial" => q \in cutMounts \/ Working("copying", q)'
    <3>1. /\ mount'[q] = "bare" => mount[q] = "bare"
          /\ mount'[q] = "partial" => q # r /\ mount[q] = "partial"
      BY <2>1, <2>2 DEF Types, TypeOK
    <3> QED
      BY <2>1, <2>2, <3>1, OthersGoOn DEF HalvesHaveMakers, MountsHaveMakers, At
  <2>5. SourcesHaveMakers'
    BY <2>1, <2>2, <2>3, SourcesStay DEF HalvesHaveMakers, At
  <2> QED
    BY <2>3, <2>4, <2>5 DEF HalvesHaveMakers, MountsHaveMakers
<1>13. ASSUME NEW w \in Workers, Crash(w)
       PROVE  HalvesHaveMakers'
  <2> DEFINE s == job[w].source
  <2>1. Others(w) /\ job[w] # NULL
    BY <1>13, LeaveMoves DEF Crash, Busy
  <2>2. /\ cut \subseteq cut' /\ (job[w].at = "filling" => s \in cut')
        /\ cutMounts \subseteq cutMounts'
        /\ (job[w].at \in {"manifest", "copying"} => s \in cutMounts')
    BY <1>13, <2>1 DEF Crash, At
  <2>3. UNCHANGED <<disk, mount>>
    BY <1>13 DEF Crash
  <2>4. SourcesHaveMakers'
    BY <2>1, <2>2, <2>3, OthersGoOn DEF HalvesHaveMakers, SourcesHaveMakers, At
  <2>5. MountsHaveMakers'
    BY <2>1, <2>2, <2>3, OthersGoOn DEF HalvesHaveMakers, MountsHaveMakers, At
  <2> QED
    BY <2>4, <2>5 DEF HalvesHaveMakers
<1>14. CASE UNCHANGED <<disk, mount, cut, cutMounts, job>>
  BY <1>14, HalvesStay
<1>15. ASSUME NEW s \in Sources, NEW rights \in Rights, ReviseRights(s, rights)
       PROVE  HalvesHaveMakers'
  BY <1>14, <1>15 DEF ReviseRights
<1>16. ASSUME NEW e \in Held, NEW value \in Readings \cup Facts, Derive(e, value)
       PROVE  HalvesHaveMakers'
  BY <1>14, <1>16 DEF Derive
<1>17. CASE UNCHANGED vars
  BY <1>14, <1>17 DEF vars
<1> QED
  BY <1>1, <1>2, <1>3, <1>4, <1>5, <1>6, <1>7, <1>8, <1>9, <1>10, <1>11, <1>12,
     <1>13, <1>15, <1>16, <1>17
  DEF Next, IngestStep, PackageStep, WorkspaceStep

\* Only a crash, or two callers that write one file, leaves a source or a
\* workspace that every later call refuses (_materialize, open).
THEOREM NothingHalfMadeCorrect == Spec => []NothingHalfMade
<1>1. Init => HalvesHaveMakers
  BY DEF Init, HalvesHaveMakers, SourcesHaveMakers, MountsHaveMakers
<1>2. HalvesHaveMakers => NothingHalfMade
  BY DEF HalvesHaveMakers, SourcesHaveMakers, MountsHaveMakers, NothingHalfMade
<1> QED
  BY <1>1, <1>2, TypeCorrect, HalvesStep, PTL DEF Spec

----------------------------------------------------------------------------
(* What only grows *)

\* Rows are appended to, and every revision stays as it is.
RowsGrow ==
  \A s \in Sources :
    /\ Len(rows[s]) <= Len(rows'[s])
    /\ \A i \in DOMAIN rows[s] : i \in DOMAIN rows'[s] /\ rows'[s][i] = rows[s][i]

LEMMA StoresGrow ==
  ASSUME Types, [Next]_vars
  PROVE  RowsGrow /\ evidence \subseteq evidence'
<1>1. CASE UNCHANGED <<rows, evidence>>
  BY <1>1 DEF RowsGrow, Types, TypeOK
<1>2. ASSUME NEW w \in Workers, AddSource(w)
      PROVE  RowsGrow /\ evidence \subseteq evidence'
  <2>1. job[w].source \in Sources
    BY <1>2 DEF AddSource, At, Types, JobsAreFormed
  <2>2. \/ rows' = rows
        \/ /\ rows[job[w].source] = <<>>
           /\ rows' = [rows EXCEPT ![job[w].source] = <<job[w].rights>>]
    BY <1>2 DEF AddSource, IsRegistered
  <2>3. RowsGrow
    <3> SUFFICES ASSUME NEW s \in Sources
                 PROVE  /\ Len(rows[s]) <= Len(rows'[s])
                        /\ \A i \in DOMAIN rows[s] :
                             i \in DOMAIN rows'[s] /\ rows'[s][i] = rows[s][i]
      BY DEF RowsGrow
    <3>1. rows[s] \in Seq(Rights)
      BY DEF Types, TypeOK
    <3>2. CASE rows'[s] = rows[s]
      BY <3>1, <3>2
    <3>3. CASE rows[s] = <<>> /\ rows'[s] = <<job[w].rights>>
      <4>1. Len(rows[s]) = 0 /\ Len(rows'[s]) = 1 /\ DOMAIN rows[s] = {}
        BY <3>3
      <4> QED
        BY <4>1
    <3> QED
      BY <2>1, <2>2, <3>2, <3>3 DEF Types, TypeOK
  <2> QED
    BY <1>2, <2>3 DEF AddSource
<1>3. ASSUME NEW s \in Sources, NEW rights \in Rights, ReviseRights(s, rights)
      PROVE  RowsGrow /\ evidence \subseteq evidence'
  <2>1. rows' = [rows EXCEPT ![s] = Append(rows[s], rights)]
    BY <1>3 DEF ReviseRights
  <2>2. rows[s] \in Seq(Rights)
    BY DEF Types, TypeOK
  <2>3. /\ Len(rows'[s]) = Len(rows[s]) + 1
        /\ \A i \in DOMAIN rows[s] : i \in DOMAIN rows'[s] /\ rows'[s][i] = rows[s][i]
    BY <2>1, <2>2 DEF Types, TypeOK
  <2>4. \A t \in Sources \ {s} : rows'[t] = rows[t]
    BY <2>1 DEF Types, TypeOK
  <2>5. RowsGrow
    <3> SUFFICES ASSUME NEW t \in Sources
                 PROVE  /\ Len(rows[t]) <= Len(rows'[t])
                        /\ \A i \in DOMAIN rows[t] :
                             i \in DOMAIN rows'[t] /\ rows'[t][i] = rows[t][i]
      BY DEF RowsGrow
    <3>1. CASE t = s
      BY <2>2, <2>3, <3>1
    <3>2. CASE t # s
      <4>1. rows'[t] = rows[t] /\ Len(rows[t]) \in Nat
        BY <2>4, <3>2 DEF Types, TypeOK
      <4> QED
        BY <4>1
    <3> QED
      BY <3>1, <3>2
  <2> QED
    BY <1>3, <2>5 DEF ReviseRights
<1>4. ASSUME NEW w \in Workers, AddObservations(w)
      PROVE  RowsGrow /\ evidence \subseteq evidence'
  BY <1>4 DEF AddObservations, RowsGrow, Types, TypeOK
<1>5. ASSUME NEW e \in Held, NEW value \in Readings \cup Facts, Derive(e, value)
      PROVE  RowsGrow /\ evidence \subseteq evidence'
  BY <1>5 DEF Derive, RowsGrow, Types, TypeOK
<1> QED
  BY <1>1, <1>2, <1>3, <1>4, <1>5
  DEF Next, IngestStep, Ingest, MakeSource, FillSource, PackageStep, BeginPackage,
      Gather, SavePackage, WorkspaceStep, OpenWorkspace, MakeDirectories,
      WriteManifest, MountFirst, MountRest, Crash, vars

\* Whole bytes stay whole until they are written again, and that is remembered.
LEMMA FiledStays ==
  ASSUME Types, [Next]_vars, NEW s \in Sources, IsFiled(s)
  PROVE  IsFiled(s)'
<1>1. CASE UNCHANGED <<disk, shared>>
  BY <1>1 DEF IsFiled
<1>2. ASSUME NEW w \in Workers, MakeSource(w)
      PROVE  IsFiled(s)'
  <2>1. job[w].source \in Sources
    BY <1>2 DEF MakeSource, At, Types, JobsAreFormed
  <2>2. \/ UNCHANGED <<disk, shared>>
        \/ /\ disk' = [disk EXCEPT ![job[w].source] = "partial"]
           /\ shared' = IF disk[job[w].source] = "absent" THEN shared
                        ELSE shared \cup {job[w].source}
    BY <1>2 DEF MakeSource
  <2> QED
    BY <2>1, <2>2 DEF IsFiled, Types, TypeOK
<1>3. ASSUME NEW w \in Workers, FillSource(w)
      PROVE  IsFiled(s)'
  BY <1>3 DEF FillSource, IsFiled, Types, TypeOK
<1>4. ASSUME NEW w \in Workers, Crash(w)
      PROVE  IsFiled(s)'
  BY <1>4 DEF Crash, IsFiled
<1> QED
  BY <1>1, <1>2, <1>3, <1>4
  DEF Next, IngestStep, Ingest, AddSource, AddObservations, PackageStep,
      BeginPackage, Gather, SavePackage, WorkspaceStep, OpenWorkspace,
      MakeDirectories, WriteManifest, MountFirst, MountRest, ReviseRights, Derive, vars

----------------------------------------------------------------------------
(* Sources are registered after their bytes, records after their source *)

\* A step that registers nothing and sends nobody on to register.
LEMMA RowsStay ==
  ASSUME Types, [Next]_vars, RowsAreFiled, UNCHANGED rows,
         \A w \in Workers : At(w, "filed")' \/ At(w, "parsing")' => job'[w] = job[w]
  PROVE  RowsAreFiled'
<1>1. \A w \in Workers : At(w, "filed") => job[w].source \in Sources
  BY DEF At, Types, JobsAreFormed
<1> QED
  BY <1>1, FiledStays DEF RowsAreFiled, At, IsRegistered

LEMMA RowsStep == Types /\ RowsAreFiled /\ [Next]_vars => RowsAreFiled'
<1> SUFFICES ASSUME Types, RowsAreFiled, [Next]_vars
             PROVE  RowsAreFiled'
  OBVIOUS
<1>1. ASSUME NEW w \in Workers, NEW s \in Sources, NEW rights \in Rights,
             Ingest(w, s, rights)
      PROVE  RowsAreFiled'
  <2>1. Others(w) /\ job'[w].source = s /\ UNCHANGED <<rows, disk, shared>>
    BY <1>1, BeginMoves DEF Ingest
  <2>2. job'[w].at = "making" \/ (job'[w].at = "filed" /\ disk[s] = "whole")
    BY <1>1, BeginMoves DEF Ingest
  <2> QED
    BY <2>1, <2>2 DEF RowsAreFiled, At, Others, IsFiled, IsRegistered
<1>2. ASSUME NEW w \in Workers, MakeSource(w)
      PROVE  RowsAreFiled'
  <2>1. job[w] # NULL
    BY <1>2 DEF MakeSource, At
  <2>2. Others(w) /\ (job'[w] = NULL \/ job'[w].at = "filling")
    BY <1>2, <2>1, GotoMoves, LeaveMoves DEF MakeSource, Steps
  <2> QED
    BY <1>2, <2>2, RowsStay DEF MakeSource, At, Others
<1>3. ASSUME NEW w \in Workers, FillSource(w)
      PROVE  RowsAreFiled'
  <2>1. job[w] # NULL /\ job[w].source \in Sources
    BY <1>3 DEF FillSource, At, Types, JobsAreFormed
  <2>2. /\ Others(w) /\ job'[w].at = "filed" /\ job'[w].source = job[w].source
        /\ disk' = [disk EXCEPT ![job[w].source] = "whole"] /\ UNCHANGED rows
    BY <1>3, <2>1, GotoMoves DEF FillSource, Steps
  <2>3. IsFiled(job[w].source)'
    BY <2>1, <2>2 DEF IsFiled, Types, TypeOK
  <2>4. \A v \in Workers : At(v, "filed") => job[v].source \in Sources
    BY DEF At, Types, JobsAreFormed
  <2> QED
    BY <2>2, <2>3, <2>4, FiledStays DEF RowsAreFiled, At, Others, IsRegistered
<1>4. ASSUME NEW w \in Workers, AddSource(w)
      PROVE  RowsAreFiled'
  <2> DEFINE s == job[w].source
  <2>1. job[w] # NULL /\ s \in Sources /\ IsFiled(s)
    BY <1>4 DEF AddSource, At, Types, JobsAreFormed, RowsAreFiled
  <2>2. /\ Others(w)
        /\ \/ job'[w] = NULL
           \/ job'[w] # NULL /\ job'[w].at = "parsing" /\ job'[w].source = s
    BY <1>4, <2>1, GotoMoves, LeaveMoves DEF AddSource, Steps
  <2>3. /\ \A t \in Sources : IsRegistered(t) => rows'[t] # <<>>
        /\ \A t \in Sources : rows'[t] # <<>> => IsRegistered(t) \/ t = s
        /\ rows'[s] # <<>>
    <3>1. CASE rows' = [rows EXCEPT ![s] = <<job[w].rights>>]
      <4>1. <<job[w].rights>> # <<>>
        OBVIOUS
      <4> QED
        BY <2>1, <3>1, <4>1 DEF IsRegistered, Types, TypeOK
    <3>2. CASE UNCHANGED rows /\ IsRegistered(s)
      BY <3>2 DEF IsRegistered
    <3> QED
      BY <1>4, <3>1, <3>2 DEF AddSource
  <2>4. UNCHANGED <<disk, shared>>
    BY <1>4 DEF AddSource
  <2>5. \A v \in Workers : At(v, "parsing") => job[v].source \in Sources
    BY DEF At, Types, JobsAreFormed
  <2> QED
    BY <2>1, <2>2, <2>3, <2>4, <2>5 DEF RowsAreFiled, At, Others, IsRegistered, IsFiled
<1>5. ASSUME NEW w \in Workers,
             AddObservations(w) \/ MountRest(w) \/ Crash(w)
               \/ \E signed \in Signatures : SavePackage(w, signed)
      PROVE  RowsAreFiled'
  <2>1. Others(w) /\ job'[w] = NULL
    BY <1>5, LeaveMoves DEF AddObservations, MountRest, Crash, SavePackage
  <2> QED
    BY <1>5, <2>1, RowsStay
    DEF AddObservations, MountRest, Crash, SavePackage, At, Others
<1>6. ASSUME NEW w \in Workers, BeginPackage(w) \/ Gather(w)
      PROVE  RowsAreFiled'
  BY <1>6, PackageMoves, RowsStay DEF BeginPackage, Gather, At, Others
<1>7. ASSUME NEW w \in Workers, NEW r \in Repos, OpenWorkspace(w, r)
      PROVE  RowsAreFiled'
  <2>1. Others(w) /\ job'[w].at \in {"binding", "mounting"}
    BY <1>7, BeginMoves DEF OpenWorkspace
  <2> QED
    BY <1>7, <2>1, RowsStay DEF OpenWorkspace, At, Others
<1>8. ASSUME NEW w \in Workers, MakeDirectories(w) \/ WriteManifest(w) \/ MountFirst(w)
      PROVE  RowsAreFiled'
  <2>1. job[w] # NULL
    BY <1>8 DEF MakeDirectories, WriteManifest, MountFirst, At
  <2>2. /\ Others(w)
        /\ job'[w] = NULL \/ job'[w].at \in {"manifest", "mounting", "copying"}
    BY <1>8, <2>1, GotoMoves, LeaveMoves
    DEF MakeDirectories, WriteManifest, MountFirst, Steps
  <2> QED
    BY <1>8, <2>2, RowsStay DEF MakeDirectories, WriteManifest, MountFirst, At, Others
<1>9. ASSUME NEW s \in Sources, NEW rights \in Rights, ReviseRights(s, rights)
      PROVE  RowsAreFiled'
  <2>1. UNCHANGED <<disk, shared, job>>
    BY <1>9 DEF ReviseRights
  <2>2. \A t \in Sources : IsRegistered(t)' <=> IsRegistered(t)
    <3>1. rows[s] \in Seq(Rights) /\ rows[s] # <<>>
      BY <1>9 DEF ReviseRights, IsRegistered, Types, TypeOK
    <3>2. rows' = [rows EXCEPT ![s] = Append(rows[s], rights)]
      BY <1>9 DEF ReviseRights
    <3>3. Append(rows[s], rights) # <<>>
      BY <3>1
    <3> QED
      BY <3>1, <3>2, <3>3 DEF IsRegistered, Types, TypeOK
  <2>3. \A v \in Workers : At(v, "parsing") => job[v].source \in Sources
    BY DEF At, Types, JobsAreFormed
  <2> QED
    BY <2>1, <2>2, <2>3 DEF RowsAreFiled, At, IsFiled
<1>10. ASSUME NEW e \in Held, NEW value \in Readings \cup Facts, Derive(e, value)
       PROVE  RowsAreFiled'
  BY <1>10, RowsStay DEF Derive
<1>11. CASE UNCHANGED vars
  BY <1>11, RowsStay DEF vars
<1> QED
  BY <1>1, <1>2, <1>3, <1>4, <1>5, <1>6, <1>7, <1>8, <1>9, <1>10, <1>11
  DEF Next, IngestStep, PackageStep, WorkspaceStep

LEMMA RecordsStep ==
  Types /\ RowsAreFiled /\ RecordsAreRooted /\ [Next]_vars => RecordsAreRooted'
<1> SUFFICES ASSUME Types, RowsAreFiled, RecordsAreRooted, [Next]_vars
             PROVE  RecordsAreRooted'
  OBVIOUS
<1>1. \A s \in Sources : IsRegistered(s) => IsRegistered(s)'
  <2>1. \A s \in Sources : rows[s] # <<>> <=> Len(rows[s]) > 0
    BY DEF Types, TypeOK
  <2>2. \A s \in Sources : rows'[s] # <<>> <=> Len(rows'[s]) > 0
    BY TypeStep DEF Types, TypeOK
  <2>3. \A s \in Sources : Len(rows[s]) \in Nat /\ Len(rows'[s]) \in Nat
    BY TypeStep DEF Types, TypeOK
  <2> QED
    BY <2>1, <2>2, <2>3, StoresGrow DEF IsRegistered, RowsGrow
<1>2. \A e \in evidence : e \in Record /\ e.source \in Sources
  BY DEF Types, TypeOK, Record
<1>3. CASE UNCHANGED evidence
  BY <1>1, <1>2, <1>3 DEF RecordsAreRooted
<1>4. ASSUME NEW w \in Workers, AddObservations(w)
      PROVE  RecordsAreRooted'
  <2> DEFINE s == job[w].source
  <2>1. s \in Sources /\ IsRegistered(s)
    BY <1>4 DEF AddObservations, At, Types, JobsAreFormed, RowsAreFiled
  <2>2. /\ evidence' = evidence \cup Observed(s)
        /\ \A e \in Observed(s) : e.source = s
    BY <1>4, <2>1, ObservationIsRecord DEF AddObservations
  <2>3. evidence \subseteq evidence'
    BY StoresGrow
  <2> QED
    BY <1>1, <1>2, <2>1, <2>2, <2>3 DEF RecordsAreRooted
<1>5. ASSUME NEW e \in Held, NEW value \in Readings \cup Facts, Derive(e, value)
      PROVE  RecordsAreRooted'
  <2>1. e \in evidence /\ IsRegistered(e.source) /\ evidence' = evidence \cup {Derived(e, value)}
    BY <1>5 DEF Derive
  <2>2. Derived(e, value).source = e.source /\ Parent(Derived(e, value)) = e
    BY <1>2, <2>1, DerivedIsRecord
  <2> QED
    BY <1>1, <1>2, <2>1, <2>2 DEF RecordsAreRooted
<1> QED
  BY <1>3, <1>4, <1>5
  DEF Next, IngestStep, Ingest, MakeSource, FillSource, AddSource, PackageStep,
      BeginPackage, Gather, SavePackage, WorkspaceStep, OpenWorkspace,
      MakeDirectories, WriteManifest, MountFirst, MountRest, Crash, ReviseRights, vars

----------------------------------------------------------------------------
(* Drafts and packages *)

\* Who drafts a package has just begun, has just gathered, or goes on as before.
LEMMA DraftersMove ==
  ASSUME Types, [Next]_vars, NEW v \in Workers, Drafting(v)'
  PROVE  job'[v] = job[v] \/ BeginPackage(v) \/ Gather(v)
<1>1. ASSUME NEW w \in Workers, NEW s \in Sources, NEW rights \in Rights,
             Ingest(w, s, rights)
      PROVE  job'[v] = job[v]
  <2>1. Others(w) /\ job'[w].at \in {"making", "filed"}
    BY <1>1, BeginMoves DEF Ingest
  <2> QED
    BY <2>1 DEF Others, Drafting
<1>2. ASSUME NEW w \in Workers,
             MakeSource(w) \/ FillSource(w) \/ AddSource(w) \/ MakeDirectories(w)
               \/ WriteManifest(w) \/ MountFirst(w)
      PROVE  job'[v] = job[v]
  <2>1. job[w] # NULL
    BY <1>2 DEF MakeSource, FillSource, AddSource, MakeDirectories, WriteManifest,
                MountFirst, At
  <2>2. PICK step \in {"filling", "filed", "parsing", "manifest", "mounting", "copying"} :
          Goto(w, step) \/ Leave(w)
    BY <1>2 DEF MakeSource, FillSource, AddSource, MakeDirectories, WriteManifest,
                MountFirst
  <2>3. Others(w) /\ (job'[w] = NULL \/ job'[w].at = step)
    BY <2>1, <2>2, GotoMoves, LeaveMoves DEF Steps
  <2> QED
    BY <2>3 DEF Others, Drafting
<1>3. ASSUME NEW w \in Workers, Leave(w)
      PROVE  job'[v] = job[v]
  BY <1>3, LeaveMoves DEF Others, Drafting
<1>4. ASSUME NEW w \in Workers, BeginPackage(w) \/ Gather(w)
      PROVE  job'[v] = job[v] \/ BeginPackage(v) \/ Gather(v)
  BY <1>4, PackageMoves DEF Others
<1>5. ASSUME NEW w \in Workers, NEW r \in Repos, OpenWorkspace(w, r)
      PROVE  job'[v] = job[v]
  <2>1. Others(w) /\ job'[w].at \in {"binding", "mounting"}
    BY <1>5, BeginMoves DEF OpenWorkspace
  <2> QED
    BY <2>1 DEF Others, Drafting
<1>6. CASE UNCHANGED job
  BY <1>6
<1> QED
  BY <1>1, <1>2, <1>3, <1>4, <1>5, <1>6
  DEF Next, IngestStep, AddObservations, PackageStep, SavePackage, WorkspaceStep,
      MountRest, Crash, ReviseRights, Derive, vars

LEMMA ContextsMove ==
  ASSUME [Next]_vars, contexts' # contexts
  PROVE  \E w \in Workers, signed \in Signatures : SavePackage(w, signed)
<1> QED
  BY DEF Next, IngestStep, Ingest, MakeSource, FillSource, AddSource, AddObservations,
         PackageStep, BeginPackage, Gather, WorkspaceStep, OpenWorkspace,
         MakeDirectories, WriteManifest, MountFirst, MountRest, Crash, ReviseRights,
         Derive, vars

LEMMA DraftStays ==
  ASSUME Types, [Next]_vars, NEW draft \in Draft, DraftIsGathered(draft)
  PROVE  DraftIsGathered(draft)'
<1>1. \A s \in Sources : Len(rows[s]) \in Nat /\ Len(rows'[s]) \in Nat
  BY TypeStep DEF Types, TypeOK
<1>2. \A s \in Sources : draft.sources[s] \in 0 .. Len(rows'[s])
  BY <1>1, StoresGrow DEF RowsGrow, DraftIsGathered, Draft
<1> QED
  BY <1>2, StoresGrow DEF DraftIsGathered, IsHuman

LEMMA PackageStays ==
  ASSUME Types, [Next]_vars, NEW package, PackageIsSound(package)
  PROVE  PackageIsSound(package)'
<1>1. \A l : Leads(l) => Leads(l)' /\ rows'[l.source][l.revision] = rows[l.source][l.revision]
  BY StoresGrow DEF RowsGrow, Leads
<1> QED
  BY <1>1, StoresGrow DEF PackageIsSound, IsHuman

LEMMA AssembledIsSound ==
  ASSUME Types, NEW draft \in Draft, DraftIsGathered(draft), NEW signed \in Signatures
  PROVE  PackageIsSound(Assembled(draft, signed))
<1> DEFINE package == Assembled(draft, signed)
<1>1. /\ package.facts = draft.confirmed
      /\ package.delivery = LocatorsOf(draft, Deliverable(draft))
      /\ package.analysis = LocatorsOf(draft, Analysable(draft))
      /\ package.ready =>
           /\ RequiredKeys \subseteq {KeyIn(e) : e \in draft.confirmed}
           /\ RequiredAssets \subseteq Deliverable(draft)
  BY DEF Assembled
<1>2. \A l \in package.analysis \cup package.delivery : Leads(l)
  BY <1>1, CitedLeads DEF LocatorsOf, Analysable, Deliverable
<1>3. \A l \in package.delivery : rows[l.source][l.revision] = "CLEARED_FOR_DELIVERY"
  BY <1>1, CitedLeads DEF LocatorsOf, Deliverable, RightsIn
<1>4. ASSUME NEW s \in Deliverable(draft)
      PROVE  s \in {l.source : l \in package.delivery}
  <2>1. PICK l \in Cited(draft, s) : l.source = s
    BY CitedLeads DEF Deliverable
  <2>2. l \in package.delivery
    BY <1>1 DEF LocatorsOf
  <2> QED
    BY <2>1, <2>2
<1> QED
  BY <1>1, <1>2, <1>3, <1>4 DEF PackageIsSound, DraftIsGathered

LEMMA DraftsStep ==
  Types /\ DraftsAreCurrent /\ PackagesAreSound /\ [Next]_vars => DraftsAreCurrent'
<1> SUFFICES ASSUME Types, DraftsAreCurrent, PackagesAreSound, [Next]_vars,
                    NEW v \in Workers, Drafting(v)'
             PROVE  /\ (job[v].draft.revision <= Len(contexts) + 1)'
                    /\ At(v, "saving")' =>
                         /\ DraftIsGathered(job[v].draft)'
                         /\ (job[v].draft.revision = Len(contexts) + 1)' =>
                              \A n \in DOMAIN contexts' :
                                AreKept(contexts[n].facts, job[v].draft.confirmed)'
  BY DEF DraftsAreCurrent, Drafting, At
<1>1. Len(contexts) \in Nat /\ contexts \in Seq(Package)
  BY DEF Types, TypeOK
<1>2. contexts' = contexts \/ Len(contexts') = Len(contexts) + 1
  BY <1>1, ContextsMove DEF SavePackage
<1>3. CASE job'[v] = job[v]
  <2>1. job[v].draft \in Draft /\ job[v].draft.revision \in Nat
    BY <1>3 DEF Drafting, Types, JobsAreFormed, Draft
  <2>2. job[v].draft.revision <= Len(contexts) + 1
    BY <1>3 DEF DraftsAreCurrent, Drafting
  <2>3. At(v, "saving")' => DraftIsGathered(job[v].draft)'
    BY <1>3, <2>1, DraftStays DEF DraftsAreCurrent, At, DraftIsGathered
  <2>4. CASE contexts' = contexts
    BY <1>3, <2>2, <2>3, <2>4 DEF DraftsAreCurrent, At, AreKept
  <2>5. CASE Len(contexts') = Len(contexts) + 1
    BY <1>1, <1>3, <2>1, <2>2, <2>3, <2>5
  <2> QED
    BY <1>2, <2>4, <2>5
<1>4. CASE BeginPackage(v)
  <2>1. /\ contexts' = contexts /\ job'[v].at = "gathering"
        /\ job'[v].draft.revision = Len(contexts) + 1
    BY <1>4 DEF BeginPackage, Types, TypeOK
  <2> QED
    BY <1>1, <2>1 DEF At
<1>5. CASE Gather(v)
  <2> DEFINE draft == job'[v].draft
  <2>1. PICK last \in [Confirmed -> {e \in evidence : IsHuman(e)}] :
          /\ \A key \in Confirmed : last[key] \in Latest(key)
          /\ job' = [job EXCEPT ![v] =
               [at |-> "saving", source |-> NULL, rights |-> NULL,
                draft |-> [revision |-> job[v].draft.revision,
                           sources |-> [s \in Sources |-> Len(rows[s])],
                           observed |-> {e \in evidence :
                                           IsNative(e) /\ e.source \in Repos},
                           confirmed |-> {last[key] : key \in Confirmed}]]]
    BY <1>5 DEF Gather
  <2>2. /\ draft.revision = job[v].draft.revision
        /\ draft.sources = [s \in Sources |-> Len(rows[s])]
        /\ draft.observed = {e \in evidence : IsNative(e) /\ e.source \in Repos}
        /\ draft.confirmed = {last[key] : key \in Confirmed}
    BY <2>1 DEF Types, TypeOK
  <2>3. contexts' = contexts /\ UNCHANGED <<rows, evidence>>
    BY <1>5 DEF Gather
  <2>4. draft.revision <= Len(contexts) + 1
    BY <1>5, <2>2 DEF DraftsAreCurrent, Drafting, Gather, At
  <2>5. /\ draft.confirmed \subseteq evidence /\ ConfirmsOnce(draft.confirmed)
        /\ \A e \in draft.confirmed : IsHuman(e)
        /\ \A e \in evidence : IsHuman(e) =>
             \E f \in draft.confirmed :
               KeyIn(f) = KeyIn(e) /\ Len(f.lineage) >= Len(e.lineage)
    BY <2>1, <2>2, GatheredAreConfirmed
  <2>6. DraftIsGathered(draft)
    <3>1. \A s \in Sources : draft.sources[s] \in 0 .. Len(rows[s])
      BY <2>2 DEF Types, TypeOK
    <3> QED
      BY <2>2, <2>5, <3>1 DEF DraftIsGathered
  <2>7. \A n \in DOMAIN contexts : AreKept(contexts[n].facts, draft.confirmed)
    BY <2>5 DEF PackagesAreSound, PackageIsSound, AreKept
  <2> QED
    BY <2>3, <2>4, <2>6, <2>7 DEF DraftIsGathered, IsHuman, AreKept
<1> QED
  BY <1>3, <1>4, <1>5, DraftersMove

LEMMA PackagesStep ==
  Types /\ DraftsAreCurrent /\ PackagesAreSound /\ PackagesKeepFacts /\ [Next]_vars
    => PackagesAreSound' /\ PackagesKeepFacts'
<1> SUFFICES ASSUME Types, DraftsAreCurrent, PackagesAreSound, PackagesKeepFacts,
                    [Next]_vars
             PROVE  PackagesAreSound' /\ PackagesKeepFacts'
  OBVIOUS
<1>1. contexts \in Seq(Package) /\ Len(contexts) \in Nat
  BY DEF Types, TypeOK
<1>2. CASE contexts' = contexts
  <2>1. ASSUME NEW n \in DOMAIN contexts'
        PROVE  PackageIsSound(contexts[n])'
    <3>1. PICK package : package = contexts[n] /\ package = contexts'[n]
      BY <1>2
    <3>2. PackageIsSound(package)
      BY <1>2, <3>1 DEF PackagesAreSound
    <3>3. PackageIsSound(package)'
      BY <3>2, PackageStays
    <3> QED
      BY <3>1, <3>3 DEF PackageIsSound
  <2> QED
    BY <1>2, <2>1 DEF PackagesAreSound, PackagesKeepFacts, AreKept
<1>3. CASE contexts' # contexts
  <2>1. PICK w \in Workers, signed \in Signatures : SavePackage(w, signed)
    BY <1>3, ContextsMove
  <2>2. job[w].draft \in Draft /\ At(w, "saving")
    BY <2>1 DEF SavePackage, At, Types, JobsAreFormed
  <2>3. PICK new : new = Assembled(job[w].draft, signed)
    OBVIOUS
  <2>4. /\ job[w].draft.revision = Len(contexts) + 1
        /\ contexts' = Append(contexts, new)
    BY <1>3, <2>1, <2>3 DEF SavePackage
  <2>5. PackageIsSound(new) /\ new.facts = job[w].draft.confirmed
    BY <2>2, <2>3, AssembledIsSound DEF DraftsAreCurrent, Assembled
  <2>6. new \in Package
    BY <2>2, <2>3, AssembledIsPackage
  <2>7. /\ DOMAIN contexts' = 1 .. Len(contexts) + 1
        /\ \A n \in 1 .. Len(contexts) : contexts'[n] = contexts[n]
        /\ contexts'[Len(contexts) + 1] = new
    BY <1>1, <2>4, <2>6
  <2>8. DOMAIN contexts = 1 .. Len(contexts)
    BY <1>1
  <2>9. ASSUME NEW n \in DOMAIN contexts'
        PROVE  PackageIsSound(contexts[n])'
    <3>1. PICK package : package = contexts'[n]
      OBVIOUS
    <3>2. PackageIsSound(package)
      BY <1>1, <2>5, <2>7, <2>8, <3>1 DEF PackagesAreSound
    <3>3. PackageIsSound(package)'
      BY <3>2, PackageStays
    <3> QED
      BY <3>1, <3>3 DEF PackageIsSound
  <2>10. ASSUME NEW m \in DOMAIN contexts', NEW n \in DOMAIN contexts', m < n
         PROVE  AreKept(contexts'[m].facts, contexts'[n].facts)
    <3>1. m \in 1 .. Len(contexts) /\ contexts'[m] = contexts[m]
      BY <1>1, <2>7, <2>10
    <3>2. CASE n = Len(contexts) + 1
      BY <2>2, <2>4, <2>5, <2>7, <2>8, <3>1, <3>2 DEF DraftsAreCurrent
    <3>3. CASE n \in 1 .. Len(contexts)
      BY <2>7, <2>8, <2>10, <3>1, <3>3 DEF PackagesKeepFacts
    <3> QED
      BY <1>1, <2>7, <3>2, <3>3
  <2> QED
    BY <2>9, <2>10 DEF PackagesAreSound, PackagesKeepFacts, AreKept
<1> QED
  BY <1>2, <1>3

----------------------------------------------------------------------------
(* Theorems *)

Consistent ==
  /\ RowsAreFiled /\ RecordsAreRooted
  /\ DraftsAreCurrent /\ PackagesAreSound /\ PackagesKeepFacts

\* Rows, records, drafts and packages stay consistent with one another and with
\* the disk, whatever callers and crashes come between (context.py,
\* evidence_persistence.py).
THEOREM ConsistencyHolds == Spec => []Consistent
<1>1. Init => Consistent
  BY DEF Init, Consistent, RowsAreFiled, RecordsAreRooted, DraftsAreCurrent, At,
         Drafting, PackagesAreSound, PackagesKeepFacts, IsRegistered
<1>2. Types /\ Consistent /\ [Next]_vars => Consistent'
  BY RowsStep, RecordsStep, DraftsStep, PackagesStep DEF Consistent
<1> QED
  BY <1>1, <1>2, TypeCorrect, PTL DEF Spec

\* Every row, record and locator leads to what it names, and to whole bytes,
\* which every locator but that of a repository's root reads (ingest,
\* add_source, add_evidence, save_context, resolve).
THEOREM ReferencesCorrect == Spec => []ReferencesResolve
<1>1. Types /\ Consistent => ReferencesResolve
  <2> SUFFICES ASSUME Types, Consistent
               PROVE  ReferencesResolve
    OBVIOUS
  <2>1. \A s \in Sources : IsRegistered(s) /\ s \notin shared => disk[s] = "whole"
    BY DEF Consistent, RowsAreFiled, IsFiled
  <2>2. ASSUME NEW l, Leads(l)
        PROVE  /\ l.revision \in DOMAIN rows[l.source]
               /\ l.source \notin shared => (Resolves(l) <=> l.part # "root")
    <3>1. DOMAIN rows[l.source] # {}
      BY <2>2 DEF Leads
    <3>2. IsRegistered(l.source)
      BY <2>2, <3>1 DEF Leads, IsRegistered
    <3>3. l.source \notin shared => disk[l.source] = "whole"
      BY <2>1, <2>2, <3>2 DEF Leads
    <3>4. l.source \in Repos => l.part \in {"root", "file"}
      BY <2>2 DEF Leads, PartsOf
    <3>5. l.source \notin Repos => l.part = "whole"
      BY <2>2 DEF Leads, PartsOf
    <3> QED
      BY <2>2, <3>3, <3>4, <3>5 DEF Resolves, ReadsFile, ReadsPart, ReadsSnapshot, Leads
  <2>3. ASSUME NEW e \in evidence
        PROVE  Leads(LocatorIn(e))
    <3>1. e.source \in Sources /\ e.part \in PartsOf(e.source)
      BY DEF Types, TypeOK, PartsFit, Record
    <3>2. rows[e.source] \in Seq(Rights) /\ rows[e.source] # <<>>
      BY <3>1 DEF Consistent, RecordsAreRooted, IsRegistered, Types, TypeOK
    <3>3. 1 \in DOMAIN rows[e.source]
      BY <3>2
    <3> QED
      BY <3>1, <3>3 DEF Leads, LocatorIn
  <2>4. ASSUME NEW n \in DOMAIN contexts
        PROVE  /\ contexts[n].facts \subseteq evidence
               /\ \A l \in contexts[n].analysis \cup {LocatorIn(e) : e \in contexts[n].facts} :
                    Leads(l)
    BY <2>3 DEF Consistent, PackagesAreSound, PackageIsSound
  <2> QED
    BY <2>1, <2>2, <2>4 DEF ReferencesResolve, Consistent, RecordsAreRooted
<1> QED
  BY <1>1, TypeCorrect, ConsistencyHolds, PTL

\* A package offers for delivery only what was cleared at the revision it cites,
\* and is ready only with every asset and a confirmation under every key
\* (assemble, whenever rights are revised).
THEOREM DeliveryCorrect == Spec => []DeliveryIsCleared
<1>1. Consistent => DeliveryIsCleared
  BY DEF Consistent, PackagesAreSound, PackageIsSound, DeliveryIsCleared
<1> QED
  BY <1>1, ConsistencyHolds, PTL

\* Of two callers who assemble from the same packages one is refused, so no
\* confirmed key is lost from one package to the next (assemble, save_context).
THEOREM FactsCorrect == Spec => []FactsAreKept
<1>1. Consistent => FactsAreKept
  BY DEF Consistent, PackagesKeepFacts, PackagesAreSound, PackageIsSound,
         ConfirmsOnce, AreKept, FactsAreKept
<1> QED
  BY <1>1, ConsistencyHolds, PTL

----------------------------------------------------------------------------
(***************************************************************************)
(* The scan of a repository.  The argument: what was measured of a file    *)
(* fits in what the limit leaves, and what was read can be as long as that *)
(* only when it is the whole file.                                         *)
(***************************************************************************)

\* Next to a scan, the intake goes on as it does alone: its theorems hold of
\* it there.
THEOREM IntakeImplementsIntake == IntakeSpec => Spec
<1>1. IntakeInit => Init
  BY DEF IntakeInit
<1>2. [IntakeNext]_<<vars, scan, subject>> => [Next]_vars
  BY DEF IntakeNext, TakeIn, ScanRepository
<1> QED
  BY <1>1, <1>2, PTL DEF IntakeSpec, Spec

Places == Paths \cup {0}

\* Paths are the numbers from 1, and a directory comes before what it holds.
LEMMA PlacesAreNumbers ==
  /\ \E last \in Nat : Paths = 1 .. last /\ Places = 0 .. last
  /\ Paths \subseteq Nat /\ 0 \notin Paths
  /\ \A p \in Paths : /\ Directory[p] \in Places /\ Directory[p] \notin Scan!Regular
                      /\ Directory[p] \in Nat /\ Directory[p] < p
                      /\ p - 1 \in Places
<1>1. PICK last \in Paths \cup {0} : Paths = 1 .. last
  BY ScanAssumption DEF Scan!ConstantsAreSound
<1>2. Directory \in [Paths -> {p \in Paths : Kind[p] # "file"} \cup {0}]
  BY ScanAssumption DEF Scan!ConstantsAreSound
<1>3. \A p \in Paths : Directory[p] < p
  BY ScanAssumption DEF Scan!ConstantsAreSound
<1>4. last \in Nat /\ Places = 0 .. last
  BY <1>1 DEF Places
<1>5. Paths \subseteq Nat /\ 0 \notin Paths
  BY <1>1, <1>4
<1>6. ASSUME NEW p \in Paths
      PROVE  /\ Directory[p] \in Places /\ Directory[p] \notin Scan!Regular
             /\ Directory[p] \in Nat /\ p - 1 \in Places
  <2>1. Directory[p] \in {q \in Paths : Kind[q] # "file"} \cup {0}
    BY <1>2
  <2>2. Directory[p] \in Places /\ Directory[p] \notin Scan!Regular
    BY <2>1, <1>5 DEF Places, Scan!Regular
  <2>3. p - 1 \in 0 .. last /\ Directory[p] \in Nat
    BY <1>1, <1>4, <2>2
  <2> QED
    BY <1>4, <2>2, <2>3
<1> QED
  BY <1>1, <1>3, <1>4, <1>5, <1>6

ScanTypes ==
  /\ \A p \in Scan!Regular : tree[p] \in Contents \cup {Absent}
  /\ tree = [p \in Paths |-> tree[p]]
  /\ files \in Seq([path : Scan!Regular, content : Contents, bytes : Nat])
  /\ total \in Nat

\* Every file is whole, and adding them up comes to the running total.
CollectedFits(collected, sum) ==
  /\ Len(collected) <= MaxFiles
  /\ \A i \in 1 .. Len(collected) :
       collected[i].bytes = Size[collected[i].content]
  /\ \E upTo \in [0 .. Len(collected) -> 0 .. MaxBytes] :
       /\ upTo[0] = 0 /\ upTo[Len(collected)] = sum
       /\ \A i \in 1 .. Len(collected) :
            upTo[i] = upTo[i - 1] + Size[collected[i].content]

\* There is room for a file that has been measured and is about to be read.
MeasuredFits ==
  expected # NULL =>
    /\ phase = "walking" /\ walk # <<>> /\ Head(walk) \in Scan!Regular
    /\ expected \in Nat
    /\ Len(files) < MaxFiles /\ total + expected <= MaxBytes

ScanFits == ScanTypes /\ CollectedFits(files, total) /\ MeasuredFits

LEMMA NothingFits ==
  /\ CollectedFits(<<>>, 0)
  /\ \A S : <<>> \in Seq(S)
<1>1. <<>> \in Seq({}) /\ Len(<<>>) = 0
  BY EmptySeq
<1>2. MaxFiles \in Nat \ {0} /\ MaxBytes \in Nat \ {0}
  BY ScanAssumption DEF Scan!ConstantsAreSound
<1> DEFINE upTo == [i \in 0 .. 0 |-> 0]
<1>3. upTo \in [0 .. Len(<<>>) -> 0 .. MaxBytes]
  BY <1>1, <1>2
<1>4. upTo[0] = 0 /\ upTo[Len(<<>>)] = 0
  BY <1>1
<1> HIDE DEF upTo
<1>5. CollectedFits(<<>>, 0)
  BY <1>1, <1>2, <1>3, <1>4 DEF CollectedFits
<1> QED
  BY <1>5, EmptySeq

LEMMA OneMoreFits ==
  ASSUME NEW S, NEW collected \in Seq(S), NEW sum \in Nat,
         CollectedFits(collected, sum),
         NEW file \in S, NEW n \in Nat, file.bytes = n, Size[file.content] = n,
         Len(collected) < MaxFiles, sum + n <= MaxBytes
  PROVE  CollectedFits(Append(collected, file), sum + n)
<1> DEFINE more == Append(collected, file)
           len == Len(collected)
<1>1. /\ MaxFiles \in Nat /\ MaxBytes \in Nat
      /\ len \in Nat /\ Len(more) = len + 1
      /\ \A i \in 1 .. len : more[i] = collected[i]
      /\ more[len + 1] = file
  BY ScanAssumption, AppendProperties, LenProperties
  DEF Scan!ConstantsAreSound
<1>2. PICK upTo \in [0 .. len -> 0 .. MaxBytes] :
        /\ upTo[0] = 0 /\ upTo[len] = sum
        /\ \A i \in 1 .. len : upTo[i] = upTo[i - 1] + Size[collected[i].content]
  BY DEF CollectedFits
<1>3. \A i \in 1 .. len : collected[i].bytes = Size[collected[i].content]
  BY DEF CollectedFits
<1> DEFINE newUpTo == [i \in 0 .. len + 1 |-> IF i = len + 1 THEN sum + n
                                              ELSE upTo[i]]
<1> HIDE DEF more, len
<1>4. newUpTo \in [0 .. len + 1 -> 0 .. MaxBytes]
  <2>1. \A i \in 0 .. len + 1 : i # len + 1 => i \in 0 .. len
    BY <1>1
  <2>2. sum + n \in 0 .. MaxBytes
    BY <1>1
  <2> QED
    BY <1>2, <2>1, <2>2
<1>5. /\ newUpTo[0] = 0 /\ newUpTo[len + 1] = sum + n
      /\ \A i \in 0 .. len : newUpTo[i] = upTo[i]
  BY <1>1, <1>2
<1> HIDE DEF newUpTo
<1>6. ASSUME NEW i \in 1 .. len + 1
      PROVE  /\ more[i].bytes = Size[more[i].content]
             /\ newUpTo[i] = newUpTo[i - 1] + Size[more[i].content]
  <2>1. CASE i = len + 1
    BY <1>1, <1>2, <1>5, <2>1
  <2>2. CASE i \in 1 .. len
    <3>1. i \in 0 .. len /\ i - 1 \in 0 .. len
      BY <1>1, <2>2
    <3> QED
      BY <1>1, <1>2, <1>3, <1>5, <2>2, <3>1
  <2> QED
    BY <1>1, <2>1, <2>2
<1>7. Len(more) <= MaxFiles
  BY <1>1 DEF len
<1>8. \E f \in [0 .. Len(more) -> 0 .. MaxBytes] :
        /\ f[0] = 0 /\ f[Len(more)] = sum + n
        /\ \A i \in 1 .. Len(more) : f[i] = f[i - 1] + Size[more[i].content]
  <2>1. newUpTo \in [0 .. Len(more) -> 0 .. MaxBytes]
    BY <1>1, <1>4
  <2>2. \A i \in 1 .. Len(more) :
          newUpTo[i] = newUpTo[i - 1] + Size[more[i].content]
    BY <1>1, <1>6
  <2>3. newUpTo[0] = 0 /\ newUpTo[Len(more)] = sum + n
    BY <1>1, <1>5
  <2> QED
    BY <2>1, <2>2, <2>3
<1>9. \A i \in 1 .. Len(more) : more[i].bytes = Size[more[i].content]
  BY <1>1, <1>6
<1>10. CollectedFits(more, sum + n)
  BY <1>7, <1>8, <1>9 DEF CollectedFits
<1> QED
  BY <1>10 DEF more

\* Only a whole file is as long as it was measured.
LEMMA OnlyWholeFiles ==
  ASSUME NEW size \in Nat, NEW left \in Nat, NEW n \in Nat, n < left,
         Scan!Min({size, left}) = n
  PROVE  size = n
<1> DEFINE S == {size, left}
<1>1. \E x \in S : \A y \in S : x <= y
  BY size <= left \/ left <= size
<1>2. Scan!Min(S) \in S
  BY <1>1 DEF Scan!Min
<1> QED
  BY <1>2

\* A scan that is over has nothing.
LEMMA RefusedFits ==
  ASSUME ScanFits, Scan!Refuse
  PROVE  ScanFits'
<1>1. files' = <<>> /\ total' = 0 /\ expected' = NULL /\ UNCHANGED tree
  BY DEF Scan!Refuse, Scan!repository
<1>2. ScanTypes'
  BY <1>1, NothingFits DEF ScanFits, ScanTypes
<1>3. CollectedFits(files', total')
  BY <1>1, NothingFits
<1>4. MeasuredFits'
  BY <1>1 DEF MeasuredFits
<1> QED
  BY <1>2, <1>3, <1>4 DEF ScanFits

\* What does not touch the file that is being read leaves it as it was.
LEMMA UntouchedFits ==
  ASSUME ScanFits, UNCHANGED <<tree, files, total>>,
         expected' = NULL \/ UNCHANGED <<walk, expected, phase>>
  PROVE  ScanFits'
<1>1. ScanTypes'
  BY DEF ScanFits, ScanTypes
<1>2. CollectedFits(files', total')
  BY DEF ScanFits
<1>3. MeasuredFits'
  BY DEF ScanFits, MeasuredFits
<1> QED
  BY <1>1, <1>2, <1>3 DEF ScanFits

LEMMA StatFits ==
  ASSUME ScanFits, Scan!Stat
  PROVE  ScanFits'
<1> DEFINE p == Head(walk)
<1>1. walk # <<>> /\ p \in Scan!Regular
  BY DEF Scan!Stat, Scan!Visiting, Scan!Current
<1>2. CASE Scan!Refuse
  BY <1>2, RefusedFits
<1>3. CASE /\ Len(files) < MaxFiles /\ Scan!IsThere(p)
           /\ total + Size[tree[p]] <= MaxBytes
           /\ expected' = Size[tree[p]]
           /\ UNCHANGED <<tree, walk, files, total, phase>>
  <2>1. p \in Paths /\ p # 0
    BY <1>1, PlacesAreNumbers DEF Scan!Regular
  <2>2. tree[p] \in Contents
    BY <1>1, <1>3, <2>1 DEF Scan!IsThere, ScanFits, ScanTypes
  <2>3. Size[tree[p]] \in Nat
    BY <2>2, ScanAssumption DEF Scan!ConstantsAreSound
  <2> HIDE DEF p
  <2>4. ScanTypes' /\ CollectedFits(files', total')
    BY <1>3 DEF ScanFits, ScanTypes
  <2>5. MeasuredFits'
    BY <1>1, <1>3, <2>3 DEF Scan!Stat, Scan!Visiting, MeasuredFits, p
  <2> QED
    BY <2>4, <2>5 DEF ScanFits
<1> QED
  BY <1>1, <1>2, <1>3 DEF Scan!Stat, Scan!Current, Scan!repository

LEMMA ReadFits ==
  ASSUME ScanFits, Scan!Read
  PROVE  ScanFits'
<1> DEFINE p == Head(walk)
           file == [path |-> p, content |-> tree[p], bytes |-> expected]
<1>1. walk # <<>> /\ p \in Scan!Regular /\ expected # NULL
  BY DEF Scan!Read, Scan!Visiting, Scan!Current
<1>2. CASE Scan!Refuse
  BY <1>2, RefusedFits
<1>3. CASE /\ Scan!IsThere(p) /\ Scan!ReadLength = expected
           /\ files' = Append(files, file) /\ total' = total + expected
           /\ expected' = NULL /\ UNCHANGED tree
  <2> DEFINE S == [path : Scan!Regular, content : Contents, bytes : Nat]
  <2>1. p \in Paths /\ p # 0
    BY <1>1, PlacesAreNumbers DEF Scan!Regular
  <2>2. tree[p] \in Contents
    BY <1>1, <1>3, <2>1 DEF Scan!IsThere, ScanFits, ScanTypes
  <2>3. Size[tree[p]] \in Nat /\ MaxBytes \in Nat
    BY <2>2, ScanAssumption DEF Scan!ConstantsAreSound
  <2>4. /\ expected \in Nat /\ total \in Nat
        /\ Len(files) < MaxFiles /\ total + expected <= MaxBytes
    BY <1>1 DEF ScanFits, MeasuredFits, ScanTypes
  <2>5. Size[tree[p]] = expected
    <3>1. Scan!Min({Size[tree[p]], MaxBytes - total + 1}) = expected
      BY <1>3 DEF Scan!ReadLength, Scan!Current
    <3>2. MaxBytes - total + 1 \in Nat /\ expected < MaxBytes - total + 1
      BY <2>3, <2>4
    <3> DEFINE left == MaxBytes - total + 1
               size == Size[tree[p]]
    <3> HIDE DEF left, size
    <3> QED
      BY <2>3, <2>4, <3>1, <3>2, OnlyWholeFiles DEF left, size
  <2>6. file \in S /\ file.bytes = expected /\ Size[file.content] = expected
    BY <1>1, <2>2, <2>4, <2>5
  <2>7. files \in Seq(S) /\ CollectedFits(files, total)
    BY DEF ScanFits, ScanTypes
  <2> HIDE DEF file, S, p
  <2>8. CollectedFits(files', total')
    BY <1>3, <2>4, <2>6, <2>7, OneMoreFits
  <2>9. files' \in Seq(S)
    BY <1>3, <2>6, <2>7, AppendProperties
  <2>10. total' \in Nat
    BY <1>3, <2>4
  <2>11. ScanTypes'
    BY <1>3, <2>9, <2>10 DEF ScanFits, ScanTypes, S
  <2>12. MeasuredFits'
    BY <1>3 DEF MeasuredFits
  <2> QED
    BY <2>8, <2>11, <2>12 DEF ScanFits
<1> QED
  BY <1>1, <1>2, <1>3
  DEF Scan!Read, Scan!Collect, Scan!Current, Scan!repository

LEMMA ScanStepFits ==
  ASSUME ScanFits, Scan!Next
  PROVE  ScanFits'
<1>1. CASE \E p \in Paths : Scan!Edit(p)
  <2>1. PICK p \in Paths : Scan!Edit(p)
    BY <1>1
  <2>2. PICK c \in (IF p \in Scan!Regular THEN Contents ELSE {Bare})
                     \cup {Absent} : tree' = [tree EXCEPT ![p] = c]
    BY <2>1 DEF Scan!Edit
  <2>3. UNCHANGED <<phase, walk, expected, files, total>>
    BY <2>1 DEF Scan!Edit
  <2>4. /\ tree' = [q \in Paths |-> tree'[q]]
        /\ \A q \in Scan!Regular : tree'[q] \in Contents \cup {Absent}
    BY <2>2 DEF ScanFits, ScanTypes, Scan!Regular
  <2>5. ScanTypes' /\ CollectedFits(files', total') /\ MeasuredFits'
    BY <2>3, <2>4 DEF ScanFits, ScanTypes, MeasuredFits, Scan!Regular
  <2> QED
    BY <2>5 DEF ScanFits
<1>2. CASE \E r \in Roots \cup {NULL} : Scan!ReplaceRoot(r)
  BY <1>2, UntouchedFits DEF Scan!ReplaceRoot
<1>3. CASE Scan!Authorize
  BY <1>3, UntouchedFits DEF Scan!Authorize, Scan!repository
<1>4. CASE Scan!Begin
  <2>1. /\ files' = <<>> /\ total' = 0 /\ expected' = NULL /\ UNCHANGED tree
    BY <1>4 DEF Scan!Begin, Scan!repository, ScanFits, MeasuredFits
  <2>2. ScanTypes' /\ CollectedFits(files', total') /\ MeasuredFits'
    BY <2>1, NothingFits DEF ScanFits, ScanTypes, MeasuredFits
  <2> QED
    BY <2>2 DEF ScanFits
<1>5. CASE Scan!Visit \/ Scan!Skip \/ Scan!RefuseLink
  <2>1. CASE Scan!Refuse
    BY <2>1, RefusedFits
  <2>2. CASE /\ Head(walk) \notin Scan!Regular
             /\ UNCHANGED <<tree, expected, files, total>>
    <3>1. expected' = NULL
      BY <2>2 DEF ScanFits, MeasuredFits
    <3> QED
      BY <2>2, <3>1, UntouchedFits
  <2>3. 0 \notin Paths
    BY PlacesAreNumbers
  <2> QED
    BY <1>5, <2>1, <2>2, <2>3
    DEF Scan!Visit, Scan!Skip, Scan!RefuseLink, Scan!Visiting, Scan!Current,
        Scan!Folders, Scan!Skipped, Scan!Regular, Scan!repository
<1>6. CASE Scan!Stat
  BY <1>6, StatFits
<1>7. CASE Scan!Read
  BY <1>7, ReadFits
<1>8. CASE Scan!Finish
  <2>1. expected' = NULL /\ UNCHANGED <<tree, files, total>>
    BY <1>8 DEF Scan!Finish, Scan!repository, ScanFits, MeasuredFits
  <2> QED
    BY <2>1, UntouchedFits
<1> QED
  BY <1>1, <1>2, <1>3, <1>4, <1>5, <1>6, <1>7, <1>8 DEF Scan!Next

\* A scan stays within its limits, for any tree, contents, limits and changes.
THEOREM ScanStaysWithinLimits == IntakeSpec => []ScanFits
<1>1. IntakeInit => ScanFits
  <2> SUFFICES ASSUME IntakeInit PROVE ScanFits
    OBVIOUS
  <2>1. /\ files = <<>> /\ total = 0 /\ expected = NULL
        /\ tree \in [Paths -> Contents \cup {Bare, Absent}]
        /\ \A p \in Scan!Regular : tree[p] \in Contents \cup {Absent}
    BY DEF IntakeInit, Scan!Init, Scan!Regular
  <2>2. tree = [p \in Paths |-> tree[p]]
    BY <2>1
  <2> QED
    BY <2>1, <2>2, NothingFits DEF ScanFits, ScanTypes, MeasuredFits
<1>2. ScanFits /\ [IntakeNext]_<<vars, scan, subject>> => ScanFits'
  <2> SUFFICES ASSUME ScanFits, [IntakeNext]_<<vars, scan, subject>>
               PROVE  ScanFits'
    OBVIOUS
  <2>1. CASE UNCHANGED scan
    BY <2>1, UntouchedFits DEF scan
  <2>2. CASE Scan!Next
    BY <2>2, ScanStepFits
  <2> QED
    BY <2>1, <2>2 DEF IntakeNext, TakeIn, ScanRepository
<1> QED
  BY <1>1, <1>2, PTL DEF IntakeSpec

\* Whatever the owner of the directory does while it is read, a snapshot has no
\* more files and bytes than allowed and every file whole (_collect).
THEOREM ScanCorrect == IntakeSpec => []ScanIsBounded
<1>1. ScanFits => ScanIsBounded
  BY DEF ScanFits, CollectedFits, ScanIsBounded, Scan!ScanIsBounded, Scan!AddUp
<1> QED
  BY <1>1, ScanStaysWithinLimits, PTL

----------------------------------------------------------------------------
(***************************************************************************)
(* A scan that nothing disturbs.  The argument: the walk holds, in order,  *)
(* what is in directories the scan has been to and is not behind it        *)
(* (Ahead), so that nothing the scan could reach lies between one place    *)
(* and the next; what has been collected is all there is behind it, and    *)
(* the running total is what that comes to.                                *)
(***************************************************************************)

LEMMA LeastExists ==
  ASSUME NEW S \in SUBSET Nat, S # {}
  PROVE  \E n \in S : \A m \in S : n <= m
<1>1. PICK n \in S : \A m \in S : ~(<<m, n>> \in OpToRel(<, Nat))
  BY NatLessThanWellFounded, WFMin
<1>2. \A m \in S : ~(m < n)
  BY <1>1 DEF OpToRel
<1> QED
  BY <1>2

----------------------------------------------------------------------------
(* Numbers in order *)

\* A sequence lists a set in ascending order.
Lists(s, S) ==
  /\ s \in Seq(S)
  /\ \A i, j \in 1 .. Len(s) : i < j => s[i] < s[j]
  /\ \A x \in S : \E i \in 1 .. Len(s) : s[i] = x

LEMMA NothingIsListed ==
  /\ Lists(<<>>, {})
  /\ \A S : Lists(<<>>, S) => S = {}
<1>1. <<>> \in Seq({}) /\ Len(<<>>) = 0
  BY EmptySeq
<1> QED
  BY <1>1 DEF Lists

LEMMA OneIsListed ==
  ASSUME NEW x
  PROVE  Lists(<<x>>, {x})
<1>1. <<x>> \in Seq({x}) /\ Len(<<x>>) = 1 /\ <<x>>[1] = x
  OBVIOUS
<1> QED
  BY <1>1 DEF Lists

\* The first of a list is the least of the set, and the others are the rest.
LEMMA HeadIsLeast ==
  ASSUME NEW S \in SUBSET Nat, NEW s, Lists(s, S), s # <<>>
  PROVE  /\ Head(s) \in S
         /\ \A x \in S : x = Head(s) \/ Head(s) < x
         /\ Lists(Tail(s), S \ {Head(s)})
<1>1. s \in Seq(S) /\ Len(s) \in Nat /\ Len(s) > 0
  BY EmptySeq, LenProperties DEF Lists
<1>2. Head(s) = s[1] /\ Head(s) \in S
  BY <1>1
<1>3. ASSUME NEW x \in S, x # Head(s)
      PROVE  Head(s) < x
  BY <1>1, <1>2, <1>3 DEF Lists
<1>4. /\ Tail(s) \in Seq(S) /\ Len(Tail(s)) = Len(s) - 1
      /\ \A i \in 1 .. Len(Tail(s)) : Tail(s)[i] = s[i + 1]
  BY <1>1
<1> DEFINE rest == Tail(s)
<1> HIDE DEF rest
<1>5. /\ rest \in Seq(S) /\ Len(rest) = Len(s) - 1
      /\ \A i \in 1 .. Len(rest) : rest[i] = s[i + 1]
  BY <1>4 DEF rest
<1>6. \A i, j \in 1 .. Len(rest) : i < j => rest[i] < rest[j]
  <2> SUFFICES ASSUME NEW i \in 1 .. Len(rest), NEW j \in 1 .. Len(rest), i < j
               PROVE  rest[i] < rest[j]
    OBVIOUS
  <2>1. i + 1 \in 1 .. Len(s) /\ j + 1 \in 1 .. Len(s) /\ i + 1 < j + 1
    BY <1>1, <1>5
  <2> QED
    BY <2>1, <1>5 DEF Lists
<1>7. \A x \in S \ {Head(s)} : \E i \in 1 .. Len(rest) : rest[i] = x
  <2> SUFFICES ASSUME NEW x \in S, x # Head(s)
               PROVE  \E i \in 1 .. Len(rest) : rest[i] = x
    OBVIOUS
  <2>1. PICK i \in 1 .. Len(s) : s[i] = x
    BY DEF Lists
  <2>2. i - 1 \in 1 .. Len(rest) /\ rest[i - 1] = s[i - 1 + 1] /\ i - 1 + 1 = i
    BY <2>1, <1>1, <1>2, <1>5
  <2> QED
    BY <2>1, <2>2
<1>8. rest \in Seq(S \ {Head(s)})
  <2>1. \A i \in 1 .. Len(rest) : rest[i] \in S \ {Head(s)}
    <3> SUFFICES ASSUME NEW i \in 1 .. Len(rest)
                 PROVE  rest[i] \in S \ {Head(s)}
      OBVIOUS
    <3>1. i + 1 \in 1 .. Len(s) /\ 1 \in 1 .. Len(s) /\ 1 < i + 1
      BY <1>1, <1>5
    <3>2. s[1] < s[i + 1] /\ s[i + 1] \in S
      BY <3>1, <1>1 DEF Lists
    <3>3. s[1] \in S /\ rest[i] = s[i + 1]
      BY <1>2, <1>5
    <3>4. s[1] \in Nat /\ s[i + 1] \in Nat
      BY <3>2, <3>3
    <3>5. s[i + 1] # s[1]
      BY <3>2, <3>4
    <3>6. rest[i] \in S /\ rest[i] # s[1]
      BY <3>2, <3>3, <3>5
    <3> QED
      BY <3>6, <1>2
  <2> QED
    BY <2>1, <1>5
<1> QED
  BY <1>2, <1>3, <1>6, <1>7, <1>8 DEF Lists, rest

LEMMA ListsJoin ==
  ASSUME NEW S \in SUBSET Nat, NEW T \in SUBSET Nat, NEW s, NEW t,
         Lists(s, S), Lists(t, T), \A x \in S : \A y \in T : x < y
  PROVE  Lists(s \o t, S \cup T)
<1>1. /\ s \in Seq(S \cup T) /\ t \in Seq(S \cup T)
      /\ Len(s) \in Nat /\ Len(t) \in Nat
      /\ \A i \in 1 .. Len(s) : s[i] \in S
      /\ \A i \in 1 .. Len(t) : t[i] \in T
  BY DEF Lists
<1> DEFINE both == s \o t
<1>2. /\ both \in Seq(S \cup T) /\ Len(both) = Len(s) + Len(t)
      /\ \A i \in 1 .. Len(s) : both[i] = s[i]
      /\ \A i \in 1 .. Len(t) : both[Len(s) + i] = t[i]
  BY <1>1
<1> HIDE DEF both
<1>3. ASSUME NEW i \in 1 .. Len(both), i > Len(s)
      PROVE  i - Len(s) \in 1 .. Len(t) /\ both[i] = t[i - Len(s)]
  <2>1. i - Len(s) \in 1 .. Len(t) /\ Len(s) + (i - Len(s)) = i
    BY <1>1, <1>2, <1>3
  <2> QED
    BY <2>1, <1>2
<1>4. \A i, j \in 1 .. Len(both) : i < j => both[i] < both[j]
  <2> SUFFICES ASSUME NEW i \in 1 .. Len(both), NEW j \in 1 .. Len(both), i < j
               PROVE  both[i] < both[j]
    OBVIOUS
  <2>1. CASE j <= Len(s)
    <3>1. i \in 1 .. Len(s) /\ j \in 1 .. Len(s)
      BY <2>1, <1>1, <1>2
    <3> QED
      BY <3>1, <1>2 DEF Lists
  <2>2. CASE i <= Len(s) /\ j > Len(s)
    <3>1. i \in 1 .. Len(s)
      BY <2>2, <1>1, <1>2
    <3>2. both[i] = s[i] /\ s[i] \in S
      BY <3>1, <1>1, <1>2
    <3> QED
      BY <3>2, <1>1, <1>3, <2>2
  <2>3. CASE i > Len(s)
    <3>1. j > Len(s)
      BY <2>3, <1>1, <1>2
    <3>2. /\ i - Len(s) \in 1 .. Len(t) /\ both[i] = t[i - Len(s)]
          /\ j - Len(s) \in 1 .. Len(t) /\ both[j] = t[j - Len(s)]
      BY <2>3, <3>1, <1>3
    <3>3. i - Len(s) < j - Len(s)
      BY <1>1, <1>2
    <3> QED
      BY <3>2, <3>3 DEF Lists
  <2> QED
    BY <2>1, <2>2, <2>3, <1>1, <1>2
<1>5. \A x \in S \cup T : \E i \in 1 .. Len(both) : both[i] = x
  <2>1. ASSUME NEW x \in S PROVE \E i \in 1 .. Len(both) : both[i] = x
    <3>1. PICK i \in 1 .. Len(s) : s[i] = x
      BY DEF Lists
    <3>2. i \in 1 .. Len(both) /\ both[i] = x
      BY <3>1, <1>1, <1>2
    <3> QED
      BY <3>2
  <2>2. ASSUME NEW x \in T PROVE \E i \in 1 .. Len(both) : both[i] = x
    <3>1. PICK i \in 1 .. Len(t) : t[i] = x
      BY DEF Lists
    <3>2. Len(s) + i \in 1 .. Len(both) /\ both[Len(s) + i] = x
      BY <3>1, <1>1, <1>2
    <3> QED
      BY <3>2
  <2> QED
    BY <2>1, <2>2
<1> QED
  BY <1>2, <1>4, <1>5 DEF Lists, both

LEMMA CountTo ==
  ASSUME NEW n \in Nat
  PROVE  IsFiniteSet(1 .. n) /\ Cardinality(1 .. n) = n
<1>1. IsFiniteSet(1 .. n) /\ Cardinality(1 .. n) = IF 1 > n THEN 0 ELSE n - 1 + 1
  BY FS_Interval
<1> QED
  BY <1>1

\* A set of numbers can be listed.
IsListed(S) ==
  \E s \in [1 .. Cardinality(S) -> S] :
    /\ \A i, j \in 1 .. Cardinality(S) : i < j => s[i] < s[j]
    /\ \A x \in S : \E i \in 1 .. Cardinality(S) : s[i] = x

LEMMA OneMoreIsListed ==
  ASSUME NEW S \in SUBSET Nat, IsFiniteSet(S), IsListed(S),
         NEW n \in Nat, \A x \in S : x < n
  PROVE  IsListed(S \cup {n})
<1> DEFINE T == S \cup {n}
           size == Cardinality(S)
<1>1. size \in Nat /\ Cardinality(T) = size + 1
  BY FS_CardinalityType, FS_AddElement
<1>2. PICK s \in [1 .. size -> S] :
        /\ \A i, j \in 1 .. size : i < j => s[i] < s[j]
        /\ \A x \in S : \E i \in 1 .. size : s[i] = x
  BY DEF IsListed
<1> HIDE DEF T, size
<1> DEFINE t == [i \in 1 .. size + 1 |-> IF i = size + 1 THEN n ELSE s[i]]
<1>3. \A i \in 1 .. size + 1 : i # size + 1 => i \in 1 .. size
  BY <1>1
<1>4. size + 1 \in 1 .. size + 1 /\ \A i \in 1 .. size : i \in 1 .. size + 1
  BY <1>1
<1>5. t \in [1 .. size + 1 -> T]
  BY <1>2, <1>3 DEF T
<1>6. t[size + 1] = n /\ \A i \in 1 .. size : t[i] = s[i] /\ s[i] \in S
  BY <1>1, <1>2, <1>4
<1> HIDE DEF t
<1>7. \A i, j \in 1 .. size + 1 : i < j => t[i] < t[j]
  <2> SUFFICES ASSUME NEW i \in 1 .. size + 1, NEW j \in 1 .. size + 1, i < j
               PROVE  t[i] < t[j]
    OBVIOUS
  <2>1. i \in 1 .. size
    BY <1>1
  <2>2. CASE j = size + 1
    BY <2>1, <2>2, <1>6
  <2>3. CASE j \in 1 .. size
    BY <2>1, <2>3, <1>2, <1>6
  <2> QED
    BY <2>2, <2>3, <1>3
<1>8. \A x \in T : \E i \in 1 .. size + 1 : t[i] = x
  BY <1>2, <1>4, <1>6 DEF T
<1> QED
  BY <1>1, <1>5, <1>7, <1>8 DEF IsListed, T

LEMMA NumbersAreListed ==
  ASSUME NEW n \in Nat, NEW S \in SUBSET (1 .. n)
  PROVE  IsListed(S)
<1> DEFINE Unlisted == {m \in Nat : \E T \in SUBSET (1 .. m) : ~IsListed(T)}
<1>1. SUFFICES Unlisted = {}
  OBVIOUS
<1>2. SUFFICES ASSUME Unlisted # {} PROVE FALSE
  OBVIOUS
<1>3. PICK least \in Unlisted : \A m \in Unlisted : least <= m
  BY <1>2, LeastExists
<1>4. PICK T \in SUBSET (1 .. least) : ~IsListed(T)
  BY <1>3
<1>5. CASE T = {}
  <2>1. Cardinality(T) = 0 /\ 1 .. 0 = {}
    BY <1>5, FS_EmptySet
  <2>2. [i \in 1 .. 0 |-> i] \in [1 .. 0 -> T]
    BY <2>1
  <2>3. IsListed(T)
    BY <1>5, <2>1, <2>2 DEF IsListed
  <2> QED
    BY <1>4, <2>3
<1>6. CASE T # {}
  <2>1. least \in Nat \ {0}
    <3>1. PICK x \in T : x \in 1 .. least
      BY <1>4, <1>6
    <3> QED
      BY <3>1, <1>3
  <2> DEFINE before == least - 1
  <2>2. before \in Nat /\ before < least /\ before \notin Unlisted
    BY <2>1, <1>3
  <2>3. \A R \in SUBSET (1 .. before) : IsListed(R)
    BY <2>2
  <2>4. T \ {least} \in SUBSET (1 .. before)
    BY <2>1, <1>4
  <2>5. IsListed(T \ {least}) /\ least \in T
    BY <2>3, <2>4, <1>4
  <2>6. IsFiniteSet(T \ {least})
    BY <2>2, <2>4, CountTo, FS_Subset
  <2>7. \A x \in T \ {least} : x < least
    BY <2>1, <2>4
  <2>8. IsListed((T \ {least}) \cup {least})
    BY <2>1, <2>4, <2>5, <2>6, <2>7, OneMoreIsListed
  <2>9. (T \ {least}) \cup {least} = T
    BY <2>5
  <2> QED
    BY <1>4, <2>8, <2>9
<1> QED
  BY <1>5, <1>6

\* A directory's entries are listed, each once and in the order of names.
LEMMA InOrderLists ==
  ASSUME NEW S \in SUBSET Paths
  PROVE  Lists(Scan!InOrder(S), S)
<1>1. PICK last \in Nat : Paths = 1 .. last
  BY PlacesAreNumbers
<1>2. IsFiniteSet(S) /\ S \subseteq Nat
  BY <1>1, PlacesAreNumbers, CountTo, FS_Subset
<1> DEFINE size == Cardinality(S)
<1>3. size \in Nat
  BY <1>2, FS_CardinalityType
<1>4. Scan!Cardinality(S) = size
  BY DEF Scan!Cardinality, Cardinality
<1>5. PICK s \in [1 .. size -> S] :
        \A i, j \in 1 .. size : i < j => s[i] < s[j]
  BY <1>1, NumbersAreListed DEF IsListed
<1> HIDE DEF size
<1>6. Scan!SetToSeqs(S) =
        {f \in [1 .. size -> S] : \A i, j \in 1 .. size : i # j => f[i] # f[j]}
  BY <1>4 DEF Scan!SetToSeqs
<1>7. s \in Scan!SetToSeqs(S) /\ s \in Seq(S) /\ Len(s) = size
  <2>1. \A i, j \in 1 .. size : i # j => s[i] # s[j]
    <3> SUFFICES ASSUME NEW i \in 1 .. size, NEW j \in 1 .. size, i # j
                 PROVE  s[i] # s[j]
      OBVIOUS
    <3>1. s[i] \in Nat /\ s[j] \in Nat
      BY <1>2
    <3>2. i < j \/ j < i
      BY <1>3
    <3> QED
      BY <3>1, <3>2, <1>5
  <2> QED
    BY <1>3, <1>6, <2>1
<1> DEFINE t == Scan!InOrder(S)
<1>8. /\ t \in Scan!SetToSeqs(S)
      /\ \A i, j \in 1 .. Len(t) : i < j => t[i] < t[j]
  BY <1>5, <1>7 DEF Scan!InOrder
<1> HIDE DEF t
<1>9. /\ t \in [1 .. size -> S] /\ t \in Seq(S) /\ Len(t) = size
      /\ \A i, j \in 1 .. size : i # j => t[i] # t[j]
  BY <1>3, <1>6, <1>8
<1>10. \A x \in S : \E i \in 1 .. size : t[i] = x
  <2>1. t \in Injection(1 .. size, S)
    BY <1>9 DEF Injection, IsInjective
  <2>2. Cardinality(1 .. size) = Cardinality(S)
    BY <1>3, CountTo DEF size
  <2>3. t \in Surjection(1 .. size, S)
    BY <2>1, <2>2, <1>2, FS_Injection
  <2> QED
    BY <2>3 DEF Surjection
<1> QED
  BY <1>8, <1>9, <1>10 DEF Lists, t

----------------------------------------------------------------------------
(* What the scan can reach, and what it comes to *)

\* The places a scan can come to, links included, in a tree.
ReachedFrom(held, R) ==
  /\ R \subseteq Places /\ 0 \in R
  /\ \A p \in Paths :
       p \in R <=> /\ held[p] # Absent /\ p \notin Scan!Skipped
                   /\ Directory[p] \in R

Reached == {p \in Places : Scan!IsReached[p]}

\* The recursion has a solution: the least set of places that is closed.
LEMMA ReachedExists ==
  ASSUME NEW held
  PROVE  \E R : ReachedFrom(held, R)
<1> DEFINE Enters(p, C) == /\ held[p] # Absent /\ p \notin Scan!Skipped
                           /\ Directory[p] \in C
           Closed(C) == 0 \in C /\ \A p \in Paths : Enters(p, C) => p \in C
           R == {p \in Places : \A C \in SUBSET Places : Closed(C) => p \in C}
<1>1. R \subseteq Places /\ 0 \in R /\ Closed(R)
  <2>1. R \subseteq Places /\ 0 \in R
    BY DEF Places
  <2>2. ASSUME NEW p \in Paths, Enters(p, R) PROVE p \in R
    <3> SUFFICES ASSUME NEW C \in SUBSET Places, Closed(C) PROVE p \in C
      BY DEF Places
    <3>1. Directory[p] \in C
      BY <2>2
    <3> QED
      BY <2>2, <3>1
  <2> QED
    BY <2>1, <2>2
<1>2. ASSUME NEW p \in Paths, p \in R PROVE Enters(p, R)
  <2> SUFFICES ASSUME ~Enters(p, R) PROVE FALSE
    OBVIOUS
  <2> DEFINE C == R \ {p}
  <2>1. C \in SUBSET Places /\ 0 \in C
    BY <1>1, PlacesAreNumbers
  <2>2. ASSUME NEW q \in Paths, Enters(q, C) PROVE q \in C
    <3>1. Enters(q, R)
      BY <2>2
    <3>2. q \in R /\ q # p
      BY <1>1, <3>1
    <3> QED
      BY <3>2
  <2>3. p \in C
    BY <1>2, <2>1, <2>2
  <2> QED
    BY <2>3
<1> QED
  BY <1>1, <1>2 DEF ReachedFrom

LEMMA ReachedIsReached ==
  ReachedFrom(tree, Reached)
<1> DEFINE Step(f) == [p \in Places |->
                         \/ p = 0
                         \/ /\ tree[p] # Absent /\ p \notin Scan!Skipped
                            /\ f[Directory[p]]]
<1>1. PICK R : ReachedFrom(tree, R)
  BY ReachedExists
<1> DEFINE g == [p \in Places |-> p \in R]
<1>2. ASSUME NEW p \in Places
      PROVE  p \in R <=> \/ p = 0
                         \/ /\ tree[p] # Absent /\ p \notin Scan!Skipped
                            /\ g[Directory[p]]
  <2>1. CASE p = 0
    BY <1>1, <2>1 DEF ReachedFrom
  <2>2. CASE p \in Paths
    <3>1. Directory[p] \in Places /\ p # 0
      BY <2>2, PlacesAreNumbers
    <3>2. g[Directory[p]] <=> Directory[p] \in R
      BY <3>1
    <3>3. p \in R <=> /\ tree[p] # Absent /\ p \notin Scan!Skipped
                      /\ Directory[p] \in R
      BY <1>1, <2>2 DEF ReachedFrom
    <3> HIDE DEF g
    <3> QED
      BY <3>1, <3>2, <3>3
  <2> QED
    BY <2>1, <2>2 DEF Places
<1>3. g = Step(g)
  <2> DEFINE h == Step(g)
  <2>1. /\ g = [p \in Places |-> g[p]] /\ h = [p \in Places |-> h[p]]
        /\ \A p \in Places : g[p] \in BOOLEAN /\ h[p] \in BOOLEAN
    OBVIOUS
  <2>2. \A p \in Places : g[p] <=> h[p]
    BY <1>2
  <2> HIDE DEF g, h
  <2>3. \A p \in Places : g[p] = h[p]
    BY <2>1, <2>2
  <2>4. g = h
    BY <2>1, <2>3
  <2> QED
    BY <2>4 DEF h
<1>4. Scan!IsReached = CHOOSE f : f = Step(f)
  BY DEF Scan!IsReached, Places
<1>5. Scan!IsReached = Step(Scan!IsReached)
  BY <1>3, <1>4
<1>6. \A p \in Places :
        Scan!IsReached[p] =
          \/ p = 0
          \/ /\ tree[p] # Absent /\ p \notin Scan!Skipped
             /\ Scan!IsReached[Directory[p]]
  BY <1>5
<1> QED
  BY <1>6, PlacesAreNumbers DEF ReachedFrom, Reached, Places

\* B adds up the weights w, up to n.
Sums(B, w, n) ==
  B[0] = 0 /\ \A p \in 1 .. n : B[p] = B[p - 1] + w[p]

LEMMA SumsExist ==
  ASSUME NEW last \in Nat, NEW w \in [1 .. last -> Nat], NEW n \in 0 .. last
  PROVE  \E B \in [0 .. n -> Nat] : Sums(B, w, n)
<1> DEFINE Without == {m \in 0 .. last : ~\E B \in [0 .. m -> Nat] : Sums(B, w, m)}
<1>1. SUFFICES ASSUME Without # {} PROVE FALSE
  OBVIOUS
<1>2. PICK least \in Without : \A m \in Without : least <= m
  <2>1. Without \in SUBSET Nat
    OBVIOUS
  <2> HIDE DEF Without
  <2> QED
    BY <1>1, <2>1, LeastExists
<1>3. CASE least = 0
  <2>1. [p \in 0 .. 0 |-> 0] \in [0 .. 0 -> Nat]
    OBVIOUS
  <2>2. Sums([p \in 0 .. 0 |-> 0], w, 0)
    BY DEF Sums
  <2> QED
    BY <1>2, <1>3, <2>1, <2>2
<1>4. CASE least # 0
  <2> DEFINE m == least - 1
  <2>1. /\ m \in 0 .. last /\ least = m + 1 /\ m \notin Without
        /\ least \in 1 .. last
    <3>1. least \in 0 .. last
      BY <1>2
    <3> HIDE DEF Without
    <3>2. m \in 0 .. last /\ least = m + 1 /\ m < least /\ least \in 1 .. last
      BY <1>4, <3>1
    <3> HIDE DEF m
    <3>3. m \notin Without
      BY <1>2, <3>2
    <3> QED
      BY <3>2, <3>3
  <2>2. PICK B \in [0 .. m -> Nat] : Sums(B, w, m)
    BY <2>1
  <2> DEFINE C == [p \in 0 .. m + 1 |-> IF p = m + 1 THEN B[m] + w[m + 1] ELSE B[p]]
  <2>3. w[m + 1] \in Nat /\ B[m] \in Nat /\ m \in Nat
    BY <2>1, <2>2
  <2> HIDE DEF m
  <2>4. \A p \in 0 .. m + 1 : p # m + 1 => p \in 0 .. m
    BY <2>3
  <2>5. C \in [0 .. m + 1 -> Nat]
    BY <2>2, <2>3, <2>4
  <2>6. C[m + 1] = B[m] + w[m + 1] /\ \A p \in 0 .. m : C[p] = B[p]
    BY <2>2, <2>3
  <2> HIDE DEF C
  <2>7. ASSUME NEW p \in 1 .. m + 1 PROVE C[p] = C[p - 1] + w[p]
    <3>1. CASE p = m + 1
      <4>1. p - 1 = m /\ m \in 0 .. m
        BY <2>3, <3>1
      <4> QED
        BY <2>6, <3>1, <4>1
    <3>2. CASE p \in 1 .. m
      <4>1. p - 1 \in 0 .. m /\ p \in 0 .. m
        BY <2>3, <3>2
      <4> QED
        BY <2>2, <2>6, <3>2, <4>1 DEF Sums
    <3> QED
      BY <2>3, <3>1, <3>2
  <2>8. C[0] = 0
    BY <2>2, <2>3, <2>6 DEF Sums
  <2>9. Sums(C, w, least)
    BY <2>1, <2>7, <2>8 DEF Sums
  <2> QED
    BY <1>2, <2>1, <2>5, <2>9
<1> QED
  BY <1>3, <1>4

\* What the scan takes of a path.
Bytes(held, R, p) == IF p \in Scan!Regular \cap R THEN Size[held[p]] ELSE 0

\* B says what the files up to a path come to.
AddsUp(held, R, B) ==
  /\ B \in [Places -> Nat] /\ B[0] = 0
  /\ \A p \in Paths : B[p] = B[p - 1] + Bytes(held, R, p)

LEMMA BytesAreCounted ==
  ASSUME ScanTypes
  PROVE  AddsUp(tree, Reached, Scan!BytesUpTo)
<1> DEFINE w == [p \in Paths |-> Bytes(tree, Reached, p)]
           Step(f) == [p \in Places |->
                         IF p = 0 THEN 0
                         ELSE f[p - 1] + IF p \in Scan!Admissible
                                         THEN Size[tree[p]] ELSE 0]
<1>1. PICK last \in Nat : Paths = 1 .. last /\ Places = 0 .. last
  BY PlacesAreNumbers
<1>2. \A p \in Paths : Bytes(tree, Reached, p) \in Nat
  <2> SUFFICES ASSUME NEW p \in Paths, p \in Scan!Regular \cap Reached
               PROVE  Size[tree[p]] \in Nat
    BY DEF Bytes
  <2>1. tree[p] # Absent
    BY ReachedIsReached DEF ReachedFrom
  <2>2. tree[p] \in Contents
    BY <2>1 DEF ScanTypes
  <2> QED
    BY <2>2, ScanAssumption DEF Scan!ConstantsAreSound
<1>3. w \in [1 .. last -> Nat]
  BY <1>1, <1>2
<1>4. last \in 0 .. last
  BY <1>1
<1> HIDE DEF w
<1>5. PICK B \in [0 .. last -> Nat] : Sums(B, w, last)
  BY <1>1, <1>3, <1>4, SumsExist
<1>6. \A p \in Paths : w[p] = Bytes(tree, Reached, p) /\ p # 0
  BY PlacesAreNumbers DEF w
<1>7. \A p \in Paths : Bytes(tree, Reached, p) = IF p \in Scan!Admissible
                                                 THEN Size[tree[p]] ELSE 0
  BY DEF Bytes, Scan!Admissible, Reached, Places
<1>8. B = Step(B)
  <2>1. \A p \in Paths : B[p] = B[p - 1] + Bytes(tree, Reached, p)
    BY <1>1, <1>5, <1>6 DEF Sums
  <2>2. \A p \in Places : B[p] = Step(B)[p]
    BY <1>5, <1>6, <1>7, <2>1 DEF Places, Sums
  <2>3. B = [p \in Places |-> B[p]] /\ Step(B) = [p \in Places |-> Step(B)[p]]
    BY <1>1, <1>5
  <2> HIDE DEF Step
  <2> QED
    BY <2>2, <2>3
<1>9. Scan!BytesUpTo = CHOOSE f : f = Step(f)
  BY DEF Scan!BytesUpTo, Places
<1> DEFINE F == Scan!BytesUpTo
<1>10. F = Step(F)
  BY <1>8, <1>9
<1> HIDE DEF F
<1>11. /\ F = [p \in Places |-> F[p]] /\ F[0] = 0
       /\ \A p \in Paths : F[p] = F[p - 1] + Bytes(tree, Reached, p)
  BY <1>6, <1>7, <1>10 DEF Places
<1>12. F \in [Places -> Nat]
  <2> DEFINE Odd == {p \in Places : F[p] \notin Nat}
  <2>1. SUFFICES ASSUME Odd # {} PROVE FALSE
    BY <1>11
  <2>2. Odd \in SUBSET Nat
    BY PlacesAreNumbers DEF Places
  <2>3. PICK least \in Odd : \A m \in Odd : least <= m
    <3> HIDE DEF Odd
    <3> QED
      BY <2>1, <2>2, LeastExists
  <2>4. least \in Paths
    BY <1>11, <2>3 DEF Places
  <2>5. least \in Nat /\ least - 1 \in Places
    BY <2>4, PlacesAreNumbers
  <2>6. F[least - 1] \in Nat
    BY <2>3, <2>5
  <2> HIDE DEF Odd
  <2>7. F[least] \in Nat
    <3>1. F[least] = F[least - 1] + Bytes(tree, Reached, least)
      BY <1>11, <2>4
    <3>2. Bytes(tree, Reached, least) \in Nat
      BY <1>2, <2>4
    <3> QED
      BY <2>6, <3>1, <3>2
  <2> QED
    BY <2>3, <2>7 DEF Odd
<1> QED
  BY <1>11, <1>12 DEF AddsUp, F

----------------------------------------------------------------------------
(* The walk *)

\* What is in directories that the scan can come to, and of this, what the
\* walk holds beyond a place, and what the place holds.
Open(held, R) == {p \in Paths : held[p] # Absent /\ Directory[p] \in R}
Ahead(held, R, c) == {p \in Open(held, R) : p > c /\ Directory[p] < c}
Inside(held, R, c) == {p \in Open(held, R) : Directory[p] = c}
After(held, R, c) == Ahead(held, R, c) \cup Inside(held, R, c)

LEMMA PlacesOfWalk ==
  ASSUME NEW held, NEW R, NEW c \in Places
  PROVE  /\ After(held, R, c) \subseteq Paths /\ After(held, R, c) \subseteq Nat
         /\ \A p \in After(held, R, c) : p > c
         /\ \A p \in Inside(held, R, c) : \A q \in Ahead(held, R, c) : p < q
<1>1. c \in Nat
  BY PlacesAreNumbers DEF Places
<1>2. After(held, R, c) \subseteq Paths /\ After(held, R, c) \subseteq Nat
  BY PlacesAreNumbers DEF After, Ahead, Inside, Open
<1>3. ASSUME NEW p \in After(held, R, c) PROVE p > c
  <2>1. p \in Paths /\ p \in Nat /\ Directory[p] \in Nat /\ Directory[p] < p
    BY <1>2, PlacesAreNumbers
  <2> QED
    BY <1>1, <2>1 DEF After, Ahead, Inside
<1>4. ASSUME NEW p \in Inside(held, R, c), NEW q \in Ahead(held, R, c)
      PROVE  p < q
  <2>1. /\ p \in Paths /\ Directory[p] = c
        /\ q \in Paths /\ q > c /\ Directory[q] < c
    BY DEF Inside, Ahead, Open
  <2>2. p \in Nat /\ q \in Nat /\ Directory[q] \in Nat
    BY <2>1, PlacesAreNumbers
  <2>3. Directory[p] < q /\ q < p => Directory[q] >= Directory[p]
    BY <2>1, ScanAssumption DEF Scan!ConstantsAreSound
  <2>4. p # q
    BY <1>1, <2>1, <2>2
  <2> QED
    BY <1>1, <2>1, <2>2, <2>3, <2>4
<1> QED
  BY <1>2, <1>3, <1>4

\* Nothing lies between a place and what the walk holds after it.
LEMMA NothingBetween ==
  ASSUME NEW held, NEW R, ReachedFrom(held, R), NEW c \in Places,
         NEW p \in Open(held, R), p > c
  PROVE  \E q \in After(held, R, c) : q <= p
<1> DEFINE Between == {q \in Open(held, R) :
                         q > c /\ ~\E a \in After(held, R, c) : a <= q}
<1>1. SUFFICES ASSUME Between # {} PROVE FALSE
  OBVIOUS
<1>2. Between \in SUBSET Nat /\ Between \subseteq Paths
  BY PlacesAreNumbers DEF Open
<1>3. PICK q \in Between : \A a \in Between : q <= a
  <2> HIDE DEF Between
  <2> QED
    BY <1>1, <1>2, LeastExists
<1> DEFINE d == Directory[q]
<1>4. /\ q \in Paths /\ q \in Nat /\ c \in Nat
      /\ d \in Nat /\ d < q /\ d \in Places /\ d \in R
  BY <1>2, PlacesAreNumbers DEF Places, Open
<1>5. q \notin After(held, R, c) /\ q \in Open(held, R) /\ q > c
  BY <1>4
<1>6. d > c
  BY <1>4, <1>5 DEF After, Ahead, Inside
<1>7. d \in Paths
  BY <1>4, <1>6 DEF Places
<1>8. d \in Open(held, R)
  BY <1>4, <1>7 DEF Open, ReachedFrom
<1>9. d \notin Between
  BY <1>3, <1>4
<1>10. PICK a \in After(held, R, c) : a <= d
  BY <1>6, <1>8, <1>9
<1>11. a \in Nat /\ a <= q
  BY <1>4, <1>10, PlacesOfWalk
<1> QED
  BY <1>3, <1>10, <1>11

\* The next place of the walk, and what the walk holds then.
LEMMA WalkGoesOn ==
  ASSUME NEW held, NEW R, ReachedFrom(held, R), NEW c \in Places,
         NEW n \in After(held, R, c), \A q \in After(held, R, c) : q = n \/ n < q
  PROVE  After(held, R, c) = {n} \cup Ahead(held, R, n)
<1>1. c \in Nat /\ n \in Nat /\ n > c /\ n \in Paths
  BY PlacesOfWalk, PlacesAreNumbers DEF Places
<1>2. ASSUME NEW p \in After(held, R, c), p # n
      PROVE  p \in Ahead(held, R, n)
  <2>1. /\ p \in Open(held, R) /\ p > n /\ p \in Paths
        /\ Directory[p] < c \/ Directory[p] = c
    BY <1>2 DEF After, Ahead, Inside, Open
  <2>2. Directory[p] < n
    BY <1>1, <2>1, PlacesAreNumbers
  <2> QED
    BY <2>1, <2>2 DEF Ahead
<1>3. ASSUME NEW p \in Ahead(held, R, n)
      PROVE  p \in After(held, R, c)
  <2> DEFINE d == Directory[p]
  <2>1. /\ p \in Paths /\ p \in Open(held, R) /\ p > n /\ d < n
        /\ p \in Nat /\ d \in Nat /\ d \in Places /\ d \in R
    BY PlacesAreNumbers DEF Ahead, Open
  <2>2. CASE d <= c
    <3>1. p > c /\ (d < c \/ d = c)
      BY <1>1, <2>1, <2>2
    <3> QED
      BY <2>1, <3>1 DEF After, Ahead, Inside
  <2>3. CASE d > c
    <3>1. d \in Open(held, R)
      BY <1>1, <2>1, <2>3 DEF Open, ReachedFrom, Places
    <3>2. PICK q \in After(held, R, c) : q <= d
      BY <2>3, <3>1, NothingBetween
    <3>3. q \in Nat
      BY PlacesOfWalk
    <3> QED
      BY <1>1, <2>1, <3>2, <3>3
  <2> QED
    BY <1>1, <2>1, <2>2, <2>3
<1> QED
  BY <1>2, <1>3

----------------------------------------------------------------------------
(* How far a scan has come *)

\* The files are, in order, the paths of A as the tree has them.
FilesFit(collected, A, held) ==
  /\ \A i, j \in 1 .. Len(collected) :
       i < j => collected[i].path < collected[j].path
  /\ \A i \in 1 .. Len(collected) :
       LET p == collected[i].path IN
       p \in A /\ collected[i] = [path |-> p, content |-> held[p],
                                  bytes |-> Size[held[p]]]
  /\ \A p \in A : \E i \in 1 .. Len(collected) : collected[i].path = p

\* The part of a set the walk has passed.
Behind(w, S) == {p \in S : w = <<>> \/ p < Head(w)}

\* The walk stands at a place and holds what is ahead of it; what is behind it
\* is collected and counted, and has no link.
HasCome(w, collected, sum, held, R, B) ==
  /\ w # <<>> =>
       LET c == Head(w) IN
       /\ c = 0 \/ c \in Open(held, R)
       /\ Lists(w, {c} \cup Ahead(held, R, c))
       /\ sum = IF c = 0 THEN 0 ELSE B[c - 1]
  /\ FilesFit(collected, Behind(w, R \cap Scan!Regular), held)
  /\ Behind(w, R \cap Scan!Links) = {}

LEMMA BytesStand ==
  ASSUME NEW held, NEW R, NEW B, AddsUp(held, R, B),
         NEW c \in Places, NEW n \in Paths, c < n,
         \A p \in R \cap Scan!Regular : p < n => p <= c
  PROVE  B[n - 1] = B[c]
<1> DEFINE Other == {p \in Places : c <= p /\ p < n /\ B[p] # B[c]}
<1>1. /\ n \in Nat /\ c \in Nat /\ n - 1 \in Places /\ n - 1 \in Nat
      /\ Places \subseteq Nat
  BY PlacesAreNumbers DEF Places
<1>2. SUFFICES ASSUME Other # {} PROVE FALSE
  BY <1>1
<1>3. PICK p \in Other : \A q \in Other : p <= q
  <2>1. Other \in SUBSET Nat
    BY <1>1
  <2> HIDE DEF Other
  <2> QED
    BY <1>2, <2>1, LeastExists
<1>4. p \in Nat /\ p \in Paths /\ c < p /\ p < n
  BY <1>1, <1>3 DEF Places
<1>5. p - 1 \in Places /\ c <= p - 1 /\ p - 1 < n /\ p - 1 < p /\ p - 1 \in Nat
  BY <1>1, <1>4, PlacesAreNumbers
<1>6. p - 1 \notin Other
  <2> HIDE DEF Other
  <2> QED
    BY <1>3, <1>4, <1>5
<1>7. B[p - 1] = B[c]
  BY <1>5, <1>6
<1>8. p \notin R \cap Scan!Regular
  BY <1>1, <1>4
<1>9. B[p] = B[p - 1] + Bytes(held, R, p) /\ B[p - 1] \in Nat
  BY <1>4, <1>5 DEF AddsUp
<1>10. Bytes(held, R, p) = 0
  BY <1>8 DEF Bytes
<1>11. B[p] = B[c]
  BY <1>7, <1>9, <1>10
<1> QED
  BY <1>3, <1>11

\* When a place has been dealt with, the scan has come to the next.
LEMMA ScanGoesOn ==
  ASSUME NEW held, NEW R, ReachedFrom(held, R), NEW B, AddsUp(held, R, B),
         NEW c \in Places, NEW w, Lists(w, After(held, R, c)),
         NEW collected,
         FilesFit(collected, {p \in R \cap Scan!Regular : p <= c}, held),
         \A p \in R \cap Scan!Links : c < p
  PROVE  HasCome(w, collected, B[c], held, R, B)
<1>1. c \in Nat /\ Paths \subseteq Nat /\ R \cap Paths \subseteq Open(held, R)
  BY PlacesAreNumbers DEF Places, Open, ReachedFrom
<1>2. Scan!Regular \subseteq Paths /\ Scan!Links \subseteq Paths
  BY DEF Scan!Regular, Scan!Links
<1>3. CASE w = <<>>
  <2>1. After(held, R, c) = {}
    BY <1>3, NothingIsListed
  <2>2. \A p \in R \cap Paths : ~(p > c)
    BY <1>1, <2>1, NothingBetween
  <2>3. ASSUME NEW p \in R \cap Paths PROVE p <= c
    <3>1. p \in Nat /\ ~(p > c)
      BY <1>1, <2>2
    <3> QED
      BY <1>1, <3>1
  <2>4. Behind(w, R \cap Scan!Regular) = {p \in R \cap Scan!Regular : p <= c}
    BY <1>2, <1>3, <2>3 DEF Behind
  <2>5. R \cap Scan!Links = {}
    <3>1. ASSUME NEW p \in R \cap Scan!Links PROVE FALSE
      <4>1. p \in R \cap Paths /\ p \in Nat /\ c < p
        BY <1>1, <1>2
      <4> QED
        BY <1>1, <2>3, <4>1
    <3> QED
      BY <3>1
  <2>6. Behind(w, R \cap Scan!Links) = {}
    BY <2>5 DEF Behind
  <2> QED
    BY <1>3, <2>4, <2>6 DEF HasCome
<1>4. CASE w # <<>>
  <2> DEFINE n == Head(w)
  <2>1. After(held, R, c) \in SUBSET Nat
    BY PlacesOfWalk
  <2>2. n \in After(held, R, c) /\ \A q \in After(held, R, c) : q = n \/ n < q
    BY <1>4, <2>1, HeadIsLeast
  <2>3. n \in Paths /\ n \in Nat /\ c < n /\ n # 0 /\ n \in Open(held, R)
    BY <1>1, <2>2, PlacesOfWalk DEF After, Ahead, Inside
  <2>4. After(held, R, c) = {n} \cup Ahead(held, R, n)
    BY <2>2, WalkGoesOn
  <2>5. ASSUME NEW p \in R \cap Paths PROVE p < n <=> p <= c
    <3>1. p \in Nat /\ p \in Open(held, R)
      BY <1>1
    <3>2. CASE p > c
      <4>1. PICK q \in After(held, R, c) : q <= p
        BY <3>1, <3>2, NothingBetween
      <4>2. q \in Nat /\ n <= q
        BY <2>1, <2>2, <2>3, <4>1
      <4> QED
        BY <1>1, <2>3, <3>1, <3>2, <4>1, <4>2
    <3> QED
      BY <1>1, <2>3, <3>1, <3>2
  <2>6. Behind(w, R \cap Scan!Regular) = {p \in R \cap Scan!Regular : p <= c}
    BY <1>2, <1>4, <2>5 DEF Behind
  <2>7. Behind(w, R \cap Scan!Links) = {}
    <3>1. ASSUME NEW p \in R \cap Scan!Links PROVE ~(p < n)
      <4>1. p \in R \cap Paths /\ p \in Nat /\ c < p
        BY <1>1, <1>2
      <4> QED
        BY <1>1, <2>5, <4>1
    <3> QED
      BY <1>4, <3>1 DEF Behind
  <2>8. B[n - 1] = B[c]
    <3>1. \A p \in R \cap Scan!Regular : p < n => p <= c
      BY <1>2, <2>5
    <3> QED
      BY <2>3, <3>1, BytesStand
  <2> HIDE DEF n
  <2>9. Head(w) = n
    BY DEF n
  <2> QED
    BY <1>4, <2>3, <2>4, <2>6, <2>7, <2>8, <2>9 DEF HasCome
<1> QED
  BY <1>3, <1>4

\* One file more, after the others.
LEMMA OneMoreFile ==
  ASSUME NEW S, NEW collected \in Seq(S), NEW A \in SUBSET Nat, NEW held,
         FilesFit(collected, A, held),
         NEW p \in Nat, \A q \in A : q < p, NEW file \in S,
         file = [path |-> p, content |-> held[p], bytes |-> Size[held[p]]]
  PROVE  FilesFit(Append(collected, file), A \cup {p}, held)
<1> DEFINE more == Append(collected, file)
           len == Len(collected)
<1>1. /\ len \in Nat /\ Len(more) = len + 1 /\ more[len + 1] = file
      /\ \A i \in 1 .. len : more[i] = collected[i]
  BY AppendProperties
<1>2. file.path = p
  OBVIOUS
<1>3. \A i \in 1 .. len : collected[i].path \in A
  BY DEF FilesFit
<1> HIDE DEF more, len
<1>4. \A i \in 1 .. Len(more) : i \in 1 .. len \/ i = len + 1
  BY <1>1
<1>5. ASSUME NEW i \in 1 .. Len(more), NEW j \in 1 .. Len(more), i < j
      PROVE  more[i].path < more[j].path
  <2>1. i \in 1 .. len
    <3>1. Len(more) = len + 1 /\ len \in Nat
      BY <1>1
    <3> QED
      BY <1>5, <3>1
  <2>2. CASE j = len + 1
    <3>1. more[j].path = p /\ more[i].path = collected[i].path
      BY <1>1, <1>2, <2>1, <2>2
    <3> QED
      BY <1>3, <2>1, <3>1
  <2>3. CASE j \in 1 .. len
    <3>1. collected[i].path < collected[j].path
      BY <1>5, <2>1, <2>3 DEF FilesFit, len
    <3>2. more[i] = collected[i] /\ more[j] = collected[j]
      BY <1>1, <2>1, <2>3
    <3> QED
      BY <3>1, <3>2
  <2> QED
    BY <1>4, <2>2, <2>3
<1>6. ASSUME NEW i \in 1 .. Len(more)
      PROVE  LET q == more[i].path IN
             /\ q \in A \cup {p}
             /\ more[i] = [path |-> q, content |-> held[q],
                           bytes |-> Size[held[q]]]
  <2>1. CASE i = len + 1
    BY <1>1, <1>2, <2>1
  <2>2. CASE i \in 1 .. len
    BY <1>1, <2>2 DEF FilesFit, len
  <2> QED
    BY <1>4, <2>1, <2>2
<1>7. ASSUME NEW q \in A \cup {p}
      PROVE  \E i \in 1 .. Len(more) : more[i].path = q
  <2>1. CASE q = p
    <3>1. len + 1 \in 1 .. Len(more)
      BY <1>1
    <3> QED
      BY <1>1, <1>2, <2>1, <3>1
  <2>2. CASE q \in A
    <3>1. PICK i \in 1 .. len : collected[i].path = q
      BY <2>2 DEF FilesFit, len
    <3>2. i \in 1 .. Len(more)
      BY <1>1
    <3> QED
      BY <1>1, <3>1, <3>2
  <2> QED
    BY <2>1, <2>2
<1> QED
  BY <1>5, <1>6, <1>7 DEF FilesFit, more

\* There are as many files as paths that were to be collected; if one is left,
\* there are more paths.
LEMMA OneLeftOut ==
  ASSUME NEW A, IsFiniteSet(A), NEW collected, Len(collected) \in Nat,
         NEW D \in SUBSET A, NEW held, FilesFit(collected, D, held),
         D \subseteq Nat, NEW p \in A \ D
  PROVE  Cardinality(A) > Len(collected)
<1> DEFINE len == Len(collected)
           f == [i \in 1 .. len |-> collected[i].path]
<1>1. f \in [1 .. len -> D]
  BY DEF FilesFit
<1>2. \A i, j \in 1 .. len : f[i] = f[j] => i = j
  <2> SUFFICES ASSUME NEW i \in 1 .. len, NEW j \in 1 .. len, i # j
               PROVE  f[i] # f[j]
    OBVIOUS
  <2>1. i < j \/ j < i
    OBVIOUS
  <2>2. /\ i < j => collected[i].path < collected[j].path
        /\ j < i => collected[j].path < collected[i].path
    BY DEF FilesFit
  <2>3. f[i] = collected[i].path /\ f[j] = collected[j].path
    OBVIOUS
  <2>4. f[i] \in Nat /\ f[j] \in Nat
    BY <1>1
  <2> HIDE DEF f
  <2> QED
    BY <2>1, <2>2, <2>3, <2>4
<1> HIDE DEF f
<1>3. f \in Injection(1 .. len, D)
  BY <1>1, <1>2 DEF Injection, IsInjective
<1>4. IsFiniteSet(D) /\ IsFiniteSet(A \ {p}) /\ D \in SUBSET (A \ {p})
  BY FS_Subset, FS_RemoveElement
<1>5. Cardinality(1 .. len) <= Cardinality(D) /\ Cardinality(1 .. len) = len
  BY <1>3, <1>4, FS_Injection, CountTo
<1>6. Cardinality(D) <= Cardinality(A \ {p})
  BY <1>4, FS_Subset
<1>7. Cardinality(A \ {p}) = Cardinality(A) - 1
  BY FS_RemoveElement
<1>8. Cardinality(A) \in Nat /\ Cardinality(D) \in Nat
  BY <1>4, FS_CardinalityType
<1> QED
  BY <1>5, <1>6, <1>7, <1>8

----------------------------------------------------------------------------
(* The steps of an undisturbed scan *)

\* A link, or one of the limits.
Excused(R, B) ==
  \/ \E p \in Scan!Links : p \in R
  \/ Cardinality(R \cap Scan!Regular) > MaxFiles
  \/ \E p \in Paths : B[p] > MaxBytes

QuietFits ==
  quiet =>
    /\ phase = "walking" =>
         /\ root = authorized /\ root # NULL
         /\ HasCome(walk, files, total, tree, Reached, Scan!BytesUpTo)
         /\ expected # NULL => expected = Size[tree[Head(walk)]]
    /\ phase = "done" =>
         /\ root = authorized
         /\ HasCome(<<>>, files, total, tree, Reached, Scan!BytesUpTo)
    /\ phase = "refused" => Excused(Reached, Scan!BytesUpTo)

LEMMA SameTree ==
  ASSUME UNCHANGED tree
  PROVE  Reached' = Reached /\ Scan!BytesUpTo' = Scan!BytesUpTo
<1>1. Scan!IsReached' = Scan!IsReached
  BY DEF Scan!IsReached
<1>2. Reached' = Reached
  BY <1>1 DEF Reached
<1>3. Scan!Admissible' = Scan!Admissible
  BY <1>1 DEF Scan!Admissible
<1>4. Scan!BytesUpTo' = Scan!BytesUpTo
  BY <1>3 DEF Scan!BytesUpTo
<1> QED
  BY <1>2, <1>4

\* What an undisturbed scan knows of the place it stands at.
LEMMA AtAPlace ==
  ASSUME QuietFits, quiet, phase = "walking", walk # <<>>
  PROVE  LET c == Head(walk) IN
         /\ c \in Places /\ (c = 0 \/ c \in Open(tree, Reached))
         /\ Scan!IsThere(c)
         /\ Lists(Tail(walk), Ahead(tree, Reached, c))
         /\ FilesFit(files, {p \in Reached \cap Scan!Regular : p < c}, tree)
         /\ \A p \in Reached \cap Scan!Links : ~(p < c)
         /\ total = IF c = 0 THEN 0 ELSE Scan!BytesUpTo[c - 1]
<1> DEFINE c == Head(walk)
<1>1. /\ root # NULL
      /\ HasCome(walk, files, total, tree, Reached, Scan!BytesUpTo)
  BY DEF QuietFits
<1>2. /\ c = 0 \/ c \in Open(tree, Reached)
      /\ Lists(walk, {c} \cup Ahead(tree, Reached, c))
      /\ total = IF c = 0 THEN 0 ELSE Scan!BytesUpTo[c - 1]
  BY <1>1 DEF HasCome
<1>3. c \in Places /\ c \in Nat
  BY <1>2, PlacesAreNumbers DEF Places, Open
<1>4. Scan!IsThere(c)
  BY <1>1, <1>2 DEF Scan!IsThere, Open
<1>5. /\ Behind(walk, Reached \cap Scan!Regular)
           = {p \in Reached \cap Scan!Regular : p < c}
      /\ \A p \in Reached \cap Scan!Links : ~(p < c)
  BY <1>1 DEF HasCome, Behind
<1>6. FilesFit(files, {p \in Reached \cap Scan!Regular : p < c}, tree)
  BY <1>1, <1>5 DEF HasCome
<1> DEFINE S == {c} \cup Ahead(tree, Reached, c)
<1>7. S \in SUBSET Nat /\ S \ {c} = Ahead(tree, Reached, c)
  BY <1>3, PlacesAreNumbers DEF Ahead, Open
<1>8. Lists(Tail(walk), S \ {c})
  <2>1. Lists(walk, S)
    BY <1>2
  <2> HIDE DEF S
  <2> QED
    BY <2>1, <1>7, HeadIsLeast
<1> QED
  BY <1>2, <1>3, <1>4, <1>5, <1>6, <1>7, <1>8

\* The scan goes past a place that has nothing to collect.
LEMMA PassesBy ==
  ASSUME ScanFits, QuietFits, quiet, phase = "walking", walk # <<>>,
         Head(walk) \notin Scan!Regular, Head(walk) \notin Scan!Links,
         NEW w, Lists(w, After(tree, Reached, Head(walk)))
  PROVE  HasCome(w, files, total, tree, Reached, Scan!BytesUpTo)
<1> DEFINE c == Head(walk)
           B == Scan!BytesUpTo
<1>1. ReachedFrom(tree, Reached) /\ AddsUp(tree, Reached, B)
  BY ReachedIsReached, BytesAreCounted DEF ScanFits
<1>2. /\ c \in Places
      /\ FilesFit(files, {p \in Reached \cap Scan!Regular : p < c}, tree)
      /\ \A p \in Reached \cap Scan!Links : ~(p < c)
      /\ total = IF c = 0 THEN 0 ELSE B[c - 1]
  BY AtAPlace
<1> HIDE DEF B
<1>3. c \in Nat /\ Paths \subseteq Nat
  BY <1>2, PlacesAreNumbers DEF Places
<1>4. {p \in Reached \cap Scan!Regular : p < c}
        = {p \in Reached \cap Scan!Regular : p <= c}
  <2>1. ASSUME NEW p \in Scan!Regular PROVE p < c <=> p <= c
    <3>1. p \in Nat /\ p # c
      BY <1>3 DEF Scan!Regular
    <3> QED
      BY <1>3, <3>1
  <2> QED
    BY <2>1
<1>5. ASSUME NEW p \in Reached \cap Scan!Links PROVE c < p
  <2>1. p \in Nat /\ p # c
    BY <1>3 DEF Scan!Links
  <2> QED
    BY <1>2, <1>3, <2>1
<1>6. total = B[c]
  <2>1. CASE c = 0
    BY <1>1, <1>2, <2>1 DEF AddsUp
  <2>2. CASE c \in Paths
    <3>1. c # 0 /\ c - 1 \in Places
      BY <2>2, PlacesAreNumbers
    <3>2. Bytes(tree, Reached, c) = 0
      BY DEF Bytes
    <3>3. B[c] = B[c - 1] + 0 /\ B[c - 1] \in Nat
      BY <1>1, <2>2, <3>1, <3>2 DEF AddsUp
    <3> QED
      BY <1>2, <3>1, <3>3
  <2> QED
    BY <1>2, <2>1, <2>2 DEF Places
<1>7. FilesFit(files, {p \in Reached \cap Scan!Regular : p <= c}, tree)
  BY <1>2, <1>4
<1>8. HasCome(w, files, B[c], tree, Reached, B)
  BY <1>1, <1>2, <1>5, <1>7, ScanGoesOn
<1> QED
  BY <1>6, <1>8 DEF B

LEMMA QuietVisit ==
  ASSUME ScanFits, QuietFits, quiet, Scan!Visit
  PROVE  QuietFits'
<1> DEFINE c == Head(walk)
<1>1. /\ phase = "walking" /\ walk # <<>> /\ c \in Scan!Folders \cup {0}
      /\ c \in Places /\ (c = 0 \/ c \in Open(tree, Reached))
      /\ Scan!IsThere(c) /\ Lists(Tail(walk), Ahead(tree, Reached, c))
  BY AtAPlace DEF Scan!Visit, Scan!Visiting, Scan!Current
<1>2. /\ walk' = Scan!Listing(c) \o Tail(walk)
      /\ UNCHANGED <<root, authorized, tree, phase, expected, files, total,
                     quiet>>
  BY <1>1 DEF Scan!Visit, Scan!Current, Scan!repository
<1>3. 0 \notin Paths /\ Paths \subseteq Nat
  BY PlacesAreNumbers
<1>4. c \notin Scan!Regular /\ c \notin Scan!Links /\ c \notin Scan!Skipped
  BY <1>1, <1>3
  DEF Scan!Folders, Scan!Regular, Scan!Links, Scan!Skipped
<1>5. ReachedFrom(tree, Reached)
  BY ReachedIsReached
<1>6. c \in Reached
  BY <1>1, <1>4, <1>5 DEF ReachedFrom, Open
<1>7. Inside(tree, Reached, c)
        = {p \in Paths : Directory[p] = c /\ tree[p] # Absent}
  BY <1>6 DEF Inside, Open
<1>8. Lists(Scan!Listing(c), Inside(tree, Reached, c))
  <2>1. Inside(tree, Reached, c) \in SUBSET Paths
    BY DEF Inside, Open
  <2>2. Lists(Scan!InOrder(Inside(tree, Reached, c)), Inside(tree, Reached, c))
    BY <2>1, InOrderLists
  <2> QED
    BY <1>7, <2>2 DEF Scan!Listing
<1>9. Lists(walk', Inside(tree, Reached, c) \cup Ahead(tree, Reached, c))
  <2>1. /\ Inside(tree, Reached, c) \in SUBSET Nat
        /\ Ahead(tree, Reached, c) \in SUBSET Nat
    BY <1>3 DEF Inside, Ahead, Open
  <2>2. \A p \in Inside(tree, Reached, c) :
          \A q \in Ahead(tree, Reached, c) : p < q
    BY <1>1, PlacesOfWalk
  <2> QED
    BY <1>1, <1>2, <1>8, <2>1, <2>2, ListsJoin
<1>10. Lists(walk', After(tree, Reached, c))
  <2>1. After(tree, Reached, c)
          = Inside(tree, Reached, c) \cup Ahead(tree, Reached, c)
    BY DEF After
  <2> QED
    BY <1>9, <2>1
<1>11. HasCome(walk', files, total, tree, Reached, Scan!BytesUpTo)
  BY <1>1, <1>4, <1>10, PassesBy
<1>12. HasCome(walk, files, total, tree, Reached, Scan!BytesUpTo)'
  BY <1>2, <1>11, SameTree
<1>13. expected = NULL
  BY <1>4 DEF ScanFits, MeasuredFits
<1>14. root = authorized /\ root # NULL
  BY <1>1 DEF QuietFits
<1> QED
  BY <1>1, <1>2, <1>12, <1>13, <1>14 DEF QuietFits

LEMMA QuietSkip ==
  ASSUME ScanFits, QuietFits, quiet, Scan!Skip
  PROVE  QuietFits'
<1> DEFINE c == Head(walk)
<1>1. /\ phase = "walking" /\ walk # <<>> /\ c \in Scan!Skipped
      /\ c \in Places /\ Lists(Tail(walk), Ahead(tree, Reached, c))
  BY AtAPlace DEF Scan!Skip, Scan!Visiting, Scan!Current
<1>2. /\ walk' = Tail(walk)
      /\ UNCHANGED <<root, authorized, tree, phase, expected, files, total,
                     quiet>>
  BY DEF Scan!Skip, Scan!repository
<1>3. c \notin Scan!Regular /\ c \notin Scan!Links /\ c \in Paths
  BY <1>1 DEF Scan!Regular, Scan!Links, Scan!Skipped
<1>4. c \notin Reached
  BY <1>1, <1>3, ReachedIsReached DEF ReachedFrom
<1>5. After(tree, Reached, c) = Ahead(tree, Reached, c)
  BY <1>4 DEF After, Inside, Open
<1>6. Lists(walk', After(tree, Reached, c))
  BY <1>1, <1>2, <1>5
<1>7. HasCome(walk', files, total, tree, Reached, Scan!BytesUpTo)
  BY <1>1, <1>3, <1>6, PassesBy
<1>8. HasCome(walk, files, total, tree, Reached, Scan!BytesUpTo)'
  BY <1>2, <1>7, SameTree
<1>9. expected = NULL
  BY <1>3 DEF ScanFits, MeasuredFits
<1>10. root = authorized /\ root # NULL
  BY <1>1 DEF QuietFits
<1> QED
  BY <1>1, <1>2, <1>8, <1>9, <1>10 DEF QuietFits

\* A scan that is refused for one of the reasons.
LEMMA QuietRefusal ==
  ASSUME Scan!Refuse, Excused(Reached, Scan!BytesUpTo)
  PROVE  QuietFits'
<1>1. phase' = "refused" /\ UNCHANGED tree
  BY DEF Scan!Refuse, Scan!repository
<1>2. Excused(Reached', Scan!BytesUpTo')
  BY <1>1, SameTree
<1> QED
  BY <1>1, <1>2 DEF QuietFits

LEMMA QuietLink ==
  ASSUME ScanFits, QuietFits, quiet, Scan!RefuseLink
  PROVE  QuietFits'
<1> DEFINE c == Head(walk)
<1>1. /\ phase = "walking" /\ walk # <<>> /\ c \in Scan!Links
      /\ (c = 0 \/ c \in Open(tree, Reached)) /\ Scan!Refuse
  BY AtAPlace DEF Scan!RefuseLink, Scan!Visiting, Scan!Current
<1>2. c \in Paths /\ c # 0 /\ c \notin Scan!Skipped
  BY <1>1, PlacesAreNumbers DEF Scan!Links, Scan!Skipped
<1>3. c \in Reached
  BY <1>1, <1>2, ReachedIsReached DEF ReachedFrom, Open
<1> QED
  BY <1>1, <1>3, QuietRefusal DEF Excused

\* What an undisturbed scan knows of a file it stands at.
LEMMA AtAFile ==
  ASSUME ScanFits, QuietFits, quiet, phase = "walking", walk # <<>>,
         Head(walk) \in Scan!Regular
  PROVE  LET c == Head(walk) IN
         /\ c \in Paths /\ c \in Reached /\ Scan!IsThere(c)
         /\ tree[c] \in Contents /\ Size[tree[c]] \in Nat
         /\ total \in Nat
         /\ Scan!BytesUpTo[c] = total + Size[tree[c]]
         /\ Len(files) + 1 <= Cardinality(Reached \cap Scan!Regular)
<1> DEFINE c == Head(walk)
           B == Scan!BytesUpTo
<1>1. /\ c = 0 \/ c \in Open(tree, Reached)
      /\ Scan!IsThere(c)
      /\ FilesFit(files, {p \in Reached \cap Scan!Regular : p < c}, tree)
      /\ total = IF c = 0 THEN 0 ELSE B[c - 1]
  BY AtAPlace
<1>2. c \in Paths /\ c # 0 /\ c \notin Scan!Skipped /\ c \in Nat
  BY PlacesAreNumbers DEF Scan!Regular, Scan!Skipped
<1>3. c \in Reached
  BY <1>1, <1>2, ReachedIsReached DEF ReachedFrom, Open
<1>4. tree[c] \in Contents /\ Size[tree[c]] \in Nat
  <2>1. tree[c] # Absent
    BY <1>1, <1>2 DEF Open
  <2>2. tree[c] \in Contents
    BY <2>1 DEF ScanFits, ScanTypes
  <2> QED
    BY <2>2, ScanAssumption DEF Scan!ConstantsAreSound
<1>5. AddsUp(tree, Reached, B)
  BY BytesAreCounted DEF ScanFits
<1> HIDE DEF B
<1>6. B[c] = total + Size[tree[c]]
  <2>1. Bytes(tree, Reached, c) = Size[tree[c]]
    BY <1>3 DEF Bytes
  <2>2. B[c] = B[c - 1] + Bytes(tree, Reached, c)
    BY <1>2, <1>5 DEF AddsUp
  <2> QED
    BY <1>1, <1>2, <2>1, <2>2
<1>7. Len(files) + 1 <= Cardinality(Reached \cap Scan!Regular)
  <2> DEFINE A == Reached \cap Scan!Regular
             D == {p \in A : p < c}
  <2>1. A \subseteq Paths /\ A \subseteq Nat
    BY PlacesAreNumbers DEF Scan!Regular
  <2>2. IsFiniteSet(A)
    BY <2>1, PlacesAreNumbers, CountTo, FS_Subset
  <2>3. FilesFit(files, D, tree)
    BY <1>1
  <2>4. Len(files) \in Nat
    BY DEF ScanFits, ScanTypes
  <2>5. D \in SUBSET A /\ D \subseteq Nat /\ c \in A \ D
    BY <1>2, <1>3, <2>1
  <2> HIDE DEF A, D
  <2>6. Cardinality(A) > Len(files)
    BY <2>2, <2>3, <2>4, <2>5, OneLeftOut
  <2>7. Cardinality(A) \in Nat
    BY <2>2, FS_CardinalityType
  <2>8. Len(files) + 1 <= Cardinality(A)
    BY <2>4, <2>6, <2>7
  <2> QED
    BY <2>8 DEF A
<1>8. total \in Nat
  BY DEF ScanFits, ScanTypes
<1> QED
  BY <1>1, <1>2, <1>3, <1>4, <1>6, <1>7, <1>8 DEF B

LEMMA QuietStat ==
  ASSUME ScanFits, QuietFits, quiet, Scan!Stat
  PROVE  QuietFits'
<1> DEFINE c == Head(walk)
<1>1. phase = "walking" /\ walk # <<>> /\ c \in Scan!Regular
  BY DEF Scan!Stat, Scan!Visiting, Scan!Current
<1>2. /\ c \in Paths /\ Scan!IsThere(c)
      /\ Size[tree[c]] \in Nat /\ total \in Nat
      /\ Scan!BytesUpTo[c] = total + Size[tree[c]]
      /\ Len(files) + 1 <= Cardinality(Reached \cap Scan!Regular)
  BY <1>1, AtAFile
<1>3. CASE /\ expected' = Size[tree[c]]
           /\ UNCHANGED <<root, authorized, tree, phase, walk, files, total,
                          quiet>>
  <2>1. /\ root = authorized /\ root # NULL
        /\ HasCome(walk, files, total, tree, Reached, Scan!BytesUpTo)
    BY <1>1 DEF QuietFits
  <2>2. HasCome(walk, files, total, tree, Reached, Scan!BytesUpTo)'
    BY <1>3, <2>1, SameTree
  <2> QED
    BY <1>1, <1>3, <2>1, <2>2 DEF QuietFits
<1>4. CASE /\ Scan!Refuse
           /\ ~(Len(files) < MaxFiles /\ total + Size[tree[c]] <= MaxBytes)
  <2>1. MaxFiles \in Nat /\ MaxBytes \in Nat /\ Len(files) \in Nat
    BY ScanAssumption DEF Scan!ConstantsAreSound, ScanFits, ScanTypes
  <2>2. CASE ~(Len(files) < MaxFiles)
    <3>1. Cardinality(Reached \cap Scan!Regular) \in Nat
      <4>1. (Reached \cap Scan!Regular) \in SUBSET Paths
        BY DEF Scan!Regular
      <4> QED
        BY <4>1, PlacesAreNumbers, CountTo, FS_Subset, FS_CardinalityType
    <3>2. Cardinality(Reached \cap Scan!Regular) > MaxFiles
      BY <1>2, <2>1, <2>2, <3>1
    <3> QED
      BY <1>4, <3>2, QuietRefusal DEF Excused
  <2>3. CASE ~(total + Size[tree[c]] <= MaxBytes)
    <3>1. Scan!BytesUpTo[c] > MaxBytes
      BY <1>2, <2>1, <2>3
    <3> QED
      BY <1>2, <1>4, <3>1, QuietRefusal DEF Excused
  <2> QED
    BY <1>4, <2>2, <2>3
<1> QED
  BY <1>2, <1>3, <1>4 DEF Scan!Stat, Scan!Current, Scan!repository

\* The least of two numbers is one of them.
LEMMA WholeFileIsRead ==
  ASSUME NEW size \in Nat, NEW left \in Nat, size < left
  PROVE  Scan!Min({size, left}) = size
<1>1. \A y \in {size, left} : size <= y
  OBVIOUS
<1>2. Scan!Min({size, left}) \in {size, left}
      /\ \A y \in {size, left} : Scan!Min({size, left}) <= y
  BY <1>1 DEF Scan!Min
<1> QED
  BY <1>2

LEMMA QuietRead ==
  ASSUME ScanFits, QuietFits, quiet, Scan!Read
  PROVE  QuietFits'
<1> DEFINE c == Head(walk)
           R == Reached
           B == Scan!BytesUpTo
           S == [path : Scan!Regular, content : Contents, bytes : Nat]
           file == [path |-> c, content |-> tree[c], bytes |-> Size[tree[c]]]
<1>1. /\ phase = "walking" /\ walk # <<>> /\ c \in Scan!Regular
      /\ expected # NULL
  BY DEF Scan!Read, Scan!Visiting, Scan!Current
<1>2. /\ c \in Paths /\ c \in R /\ Scan!IsThere(c)
      /\ tree[c] \in Contents /\ Size[tree[c]] \in Nat /\ total \in Nat
      /\ B[c] = total + Size[tree[c]]
  BY <1>1, AtAFile
<1>3. expected = Size[tree[c]] /\ root = authorized /\ root # NULL
  BY <1>1 DEF QuietFits
<1>4. Scan!ReadLength = expected
  <2>1. total + expected <= MaxBytes /\ MaxBytes \in Nat
    BY <1>1, ScanAssumption DEF ScanFits, MeasuredFits, Scan!ConstantsAreSound
  <2> DEFINE size == Size[tree[c]]
             left == MaxBytes - total + 1
  <2>2. size \in Nat /\ left \in Nat /\ size < left
    BY <1>2, <1>3, <2>1
  <2> HIDE DEF size, left
  <2>3. Scan!Min({size, left}) = size
    BY <2>2, WholeFileIsRead
  <2> QED
    BY <1>3, <2>3 DEF Scan!ReadLength, Scan!Current, size, left
<1>5. /\ files' = Append(files, file) /\ total' = total + Size[tree[c]]
      /\ walk' = Tail(walk) /\ expected' = NULL
      /\ UNCHANGED <<root, authorized, tree, phase, quiet>>
  BY <1>2, <1>3, <1>4
  DEF Scan!Read, Scan!Collect, Scan!Current, Scan!repository
<1>6. /\ c \in Places /\ c \in Nat /\ Lists(Tail(walk), Ahead(tree, R, c))
      /\ FilesFit(files, {p \in R \cap Scan!Regular : p < c}, tree)
      /\ \A p \in R \cap Scan!Links : ~(p < c)
  BY <1>1, <1>2, AtAPlace, PlacesAreNumbers
<1>7. ReachedFrom(tree, R) /\ AddsUp(tree, R, B)
  BY ReachedIsReached, BytesAreCounted DEF ScanFits
<1>8. Inside(tree, R, c) = {}
  BY <1>1, PlacesAreNumbers DEF Inside, Open
<1>9. Lists(walk', After(tree, R, c))
  BY <1>5, <1>6, <1>8 DEF After
<1>10. Paths \subseteq Nat /\ Scan!Regular \subseteq Paths /\ Scan!Links \subseteq Paths
  BY PlacesAreNumbers DEF Scan!Regular, Scan!Links
<1> HIDE DEF R, B
<1>11. FilesFit(files', {p \in R \cap Scan!Regular : p <= c}, tree)
  <2> DEFINE A == {p \in R \cap Scan!Regular : p < c}
  <2>1. A \in SUBSET Nat /\ \A q \in A : q < c
    BY <1>10
  <2>2. files \in Seq(S) /\ file \in S
    BY <1>1, <1>2 DEF ScanFits, ScanTypes
  <2>3. FilesFit(files, A, tree)
    BY <1>6
  <2>4. file = [path |-> c, content |-> tree[c], bytes |-> Size[tree[c]]]
    OBVIOUS
  <2>5. A \cup {c} = {p \in R \cap Scan!Regular : p <= c}
    <3>1. ASSUME NEW p \in Scan!Regular PROVE p <= c <=> p < c \/ p = c
      <4>1. p \in Nat
        BY <1>10
      <4> QED
        BY <1>6, <4>1
    <3> QED
      BY <1>1, <1>2, <3>1
  <2> HIDE DEF A, S, file
  <2>6. FilesFit(Append(files, file), A \cup {c}, tree)
    BY <1>6, <2>1, <2>2, <2>3, <2>4, OneMoreFile
  <2> QED
    BY <1>5, <2>5, <2>6
<1>12. ASSUME NEW p \in R \cap Scan!Links PROVE c < p
  <2>1. p \in Nat /\ p # c
    BY <1>1, <1>10 DEF Scan!Links, Scan!Regular
  <2> QED
    BY <1>6, <2>1
<1> HIDE DEF file, S
<1>13. HasCome(walk', files', B[c], tree, R, B)
  BY <1>6, <1>7, <1>9, <1>11, <1>12, ScanGoesOn
<1>14. HasCome(walk, files, total, tree, Reached, Scan!BytesUpTo)'
  BY <1>2, <1>5, <1>13, SameTree DEF R, B
<1> QED
  BY <1>1, <1>3, <1>5, <1>14 DEF QuietFits

LEMMA QuietStep ==
  ASSUME ScanFits, QuietFits, Scan!Next
  PROVE  QuietFits'
<1>1. CASE \E p \in Paths : Scan!Edit(p)
  BY <1>1 DEF Scan!Edit, QuietFits
<1>2. CASE \E r \in Roots \cup {NULL} : Scan!ReplaceRoot(r)
  BY <1>2 DEF Scan!ReplaceRoot, QuietFits
<1>3. CASE Scan!Authorize
  <2>1. /\ phase # "walking" /\ authorized' = root
        /\ UNCHANGED <<root, tree, phase, files, total, quiet>>
    BY <1>3 DEF Scan!Authorize, Scan!repository
  <2>2. Reached' = Reached /\ Scan!BytesUpTo' = Scan!BytesUpTo
    BY <2>1, SameTree
  <2>3. quiet /\ phase = "done" =>
          HasCome(<<>>, files, total, tree, Reached, Scan!BytesUpTo)'
    BY <2>1, <2>2 DEF QuietFits
  <2> QED
    BY <2>1, <2>2, <2>3 DEF QuietFits
<1>4. CASE Scan!Begin
  <2>1. /\ root = authorized /\ root # NULL /\ phase' = "walking"
        /\ walk' = <<0>> /\ files' = <<>> /\ total' = 0 /\ expected' = NULL
        /\ UNCHANGED <<root, authorized, tree>>
    BY <1>4
    DEF Scan!Begin, Scan!IsCurrentRoot, Scan!repository, ScanFits, MeasuredFits
  <2>2. <<0>> # <<>> /\ Head(<<0>>) = 0
    OBVIOUS
  <2>3. {0} \cup Ahead(tree, Reached, 0) = {0}
    BY PlacesAreNumbers DEF Ahead, Open
  <2>4. Lists(<<0>>, {0} \cup Ahead(tree, Reached, 0))
    BY <2>3, OneIsListed
  <2>5. Behind(<<0>>, Reached \cap Scan!Regular) = {}
        /\ Behind(<<0>>, Reached \cap Scan!Links) = {}
    BY <2>2, PlacesAreNumbers DEF Behind, Scan!Regular, Scan!Links
  <2>6. FilesFit(<<>>, {}, tree)
    BY DEF FilesFit
  <2>7. HasCome(<<0>>, <<>>, 0, tree, Reached, Scan!BytesUpTo)
    BY <2>2, <2>4, <2>5, <2>6 DEF HasCome
  <2>8. HasCome(walk, files, total, tree, Reached, Scan!BytesUpTo)'
    BY <2>1, <2>7, SameTree
  <2> QED
    BY <2>1, <2>8 DEF QuietFits
<1>5. CASE Scan!Finish
  <2>1. /\ phase = "walking" /\ walk = <<>> /\ phase' = "done"
        /\ UNCHANGED <<root, authorized, tree, files, total, quiet>>
    BY <1>5 DEF Scan!Finish, Scan!repository
  <2>2. quiet => /\ root = authorized
                 /\ HasCome(<<>>, files, total, tree, Reached, Scan!BytesUpTo)
    BY <2>1 DEF QuietFits
  <2>3. quiet => HasCome(<<>>, files, total, tree, Reached, Scan!BytesUpTo)'
    BY <2>1, <2>2, SameTree
  <2> QED
    BY <2>1, <2>2, <2>3 DEF QuietFits
<1>6. CASE \/ Scan!Visit \/ Scan!Skip \/ Scan!RefuseLink \/ Scan!Stat
           \/ Scan!Read
  <2>1. CASE quiet
    BY <1>6, <2>1, QuietVisit, QuietSkip, QuietLink, QuietStat, QuietRead
  <2>2. CASE ~quiet
    <3>1. quiet' = quiet
      BY <1>6
      DEF Scan!Visit, Scan!Skip, Scan!RefuseLink, Scan!Stat, Scan!Read,
          Scan!Collect, Scan!Refuse
    <3> QED
      BY <2>2, <3>1 DEF QuietFits
  <2> QED
    BY <2>1, <2>2
<1> QED
  BY <1>1, <1>2, <1>3, <1>4, <1>5, <1>6 DEF Scan!Next

\* An undisturbed scan has, at every place, collected and counted what is
\* behind it, and is refused for a reason.
THEOREM QuietScanStaysComplete == IntakeSpec => []QuietFits
<1>1. IntakeInit => QuietFits
  BY DEF IntakeInit, Scan!Init, QuietFits
<1>2. ScanFits /\ QuietFits /\ [IntakeNext]_<<vars, scan, subject>> => QuietFits'
  <2> SUFFICES ASSUME ScanFits, QuietFits, [IntakeNext]_<<vars, scan, subject>>
               PROVE  QuietFits'
    OBVIOUS
  <2>1. CASE UNCHANGED scan
    <3>1. /\ UNCHANGED <<root, authorized, tree, phase, walk, expected, files,
                         total, quiet>>
          /\ Reached' = Reached /\ Scan!BytesUpTo' = Scan!BytesUpTo
      BY <2>1, SameTree DEF scan
    <3>2. /\ HasCome(walk, files, total, tree, Reached, Scan!BytesUpTo)'
               = HasCome(walk, files, total, tree, Reached, Scan!BytesUpTo)
          /\ HasCome(<<>>, files, total, tree, Reached, Scan!BytesUpTo)'
               = HasCome(<<>>, files, total, tree, Reached, Scan!BytesUpTo)
          /\ Excused(Reached, Scan!BytesUpTo)'
               = Excused(Reached, Scan!BytesUpTo)
      BY <3>1 DEF HasCome, Excused
    <3> QED
      BY <3>1, <3>2 DEF QuietFits
  <2>2. CASE Scan!Next
    BY <2>2, QuietStep
  <2> QED
    BY <2>1, <2>2 DEF IntakeNext, TakeIn, ScanRepository
<1> QED
  BY <1>1, <1>2, ScanStaysWithinLimits, PTL DEF IntakeSpec

\* A scan that nothing disturbed finds every file it should, in the order of
\* names, and nothing else, and is refused for a link or a limit alone, for any
\* tree and any limits (current_root, _collect).
THEOREM QuietScanCorrect == IntakeSpec => []QuietScanIsComplete
<1>1. ScanFits /\ QuietFits => QuietScanIsComplete
  <2> SUFFICES ASSUME ScanFits, QuietFits
               PROVE  QuietScanIsComplete
    OBVIOUS
  <2>1. Reached \cap Scan!Regular = Scan!Admissible
    BY DEF Reached, Scan!Admissible, Places, Scan!Regular
  <2>2. Scan!Links \subseteq Places
    BY DEF Scan!Links, Places
  <2>3. ASSUME phase = "done", quiet
        PROVE  /\ root = authorized
               /\ Scan!Range(files) = Scan!Holding(Scan!Admissible)
               /\ \A i, j \in 1 .. Len(files) :
                    i < j => files[i].path < files[j].path
               /\ \A p \in Scan!Links : ~Scan!IsReached[p]
    <3>1. /\ root = authorized
          /\ HasCome(<<>>, files, total, tree, Reached, Scan!BytesUpTo)
      BY <2>3 DEF QuietFits
    <3>2. /\ FilesFit(files, Scan!Admissible, tree)
          /\ Reached \cap Scan!Links = {}
      BY <2>1, <3>1 DEF HasCome, Behind
    <3>3. DOMAIN files = 1 .. Len(files)
      BY DEF ScanFits, ScanTypes
    <3>4. Scan!Range(files) = Scan!Holding(Scan!Admissible)
      <4>1. ASSUME NEW i \in 1 .. Len(files)
            PROVE  files[i] \in Scan!Holding(Scan!Admissible)
        BY <3>2 DEF FilesFit, Scan!Holding
      <4>2. ASSUME NEW p \in Scan!Admissible
            PROVE  \E i \in 1 .. Len(files) :
                     files[i] = [path |-> p, content |-> tree[p],
                                 bytes |-> Size[tree[p]]]
        BY <3>2 DEF FilesFit
      <4> QED
        BY <3>3, <4>1, <4>2 DEF Scan!Range, Scan!Holding
    <3> QED
      BY <2>2, <3>1, <3>2, <3>4 DEF FilesFit, Reached
  <2>4. ASSUME phase = "refused", quiet
        PROVE  \/ \E p \in Scan!Links : Scan!IsReached[p]
               \/ Scan!Cardinality(Scan!Admissible) > MaxFiles
               \/ \E p \in Paths : Scan!BytesUpTo[p] > MaxBytes
    <3>1. Excused(Reached, Scan!BytesUpTo)
      BY <2>4 DEF QuietFits
    <3>2. Scan!Cardinality(Scan!Admissible) = Cardinality(Scan!Admissible)
      BY DEF Scan!Cardinality, Cardinality
    <3> QED
      BY <2>1, <3>1, <3>2 DEF Excused, Reached
  <2> QED
    BY <2>3, <2>4 DEF QuietScanIsComplete, Scan!QuietScanIsComplete
<1> QED
  BY <1>1, ScanStaysWithinLimits, QuietScanStaysComplete, PTL
=============================================================================
