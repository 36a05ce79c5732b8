-------------------------------- MODULE Intake --------------------------------
(***************************************************************************)
(* Sources, evidence, context packages and mounted repositories of one     *)
(* project (src/src/oeydesign: context.py, evidence_persistence.py,        *)
(* repository.py, WorkspaceManager in agent_engine.py).                    *)
(*                                                                         *)
(* A source is bytes on disk and a row per revision; a transaction of the  *)
(* store is one step, a file and a directory are made in several, and the  *)
(* process may die between any two.  Callers work side by side.            *)
(*                                                                         *)
(* Abstractions:                                                           *)
(*  - The identity of a source holds the project and the digest of its     *)
(*    bytes, so projects share nothing and one is modelled.  Of a row only *)
(*    the rights are kept: they are the one thing a revision changes.      *)
(*  - What the parsers find in a file is one observation, and nothing in   *)
(*    a file of Unparsable; in a snapshot they find its root and its       *)
(*    files, of which there is one.  Observations of several sources may   *)
(*    have one evidence key, as every PNG's "image.dimensions" has.        *)
(*  - The id of a derived record is a hash of its parent and its value, so *)
(*    a record is its lineage.                                             *)
(*  - A call that is refused before it changes anything is no step.        *)
(***************************************************************************)
EXTENDS Naturals, Sequences, SequencesExt, FiniteSets

CONSTANTS
  NULL,              \* Python's None
  Workers,           \* callers of the services
  Files,             \* CSV and PNG sources
  Repos,             \* code repositories
  Unparsable,        \* files whose structure the parser refuses
  Rights,            \* the rights in use
  Keys,              \* evidence keys
  KeyOf,             \* the evidence_key of what a part of a source shows
  RequiredKeys,      \* required_fact_keys
  RequiredAssets,    \* required_delivery_source_ids
  Facts,             \* what a person may confirm
  MaxSourceRevision, \* bound: revisions of a source
  MaxLineage,        \* bound: records in a lineage
  MaxDerived,        \* bound: records that are no observations
  MaxContexts,       \* bound: revisions of the context package
  MaxJobs            \* bound: calls of several steps

Sources == Files \cup Repos
\* What a record is about: a file, or the root or a file of a snapshot.
Parts == {"whole", "root", "file"}
PartsOf(s) == IF s \in Repos THEN {"root", "file"} ELSE {"whole"}
Readings == {"interpretation"}   \* what a machine makes of a record
RightsStatus == {"UNKNOWN", "ANALYSIS_ONLY", "CLEARED_FOR_DELIVERY", "PROHIBITED"}

ASSUME SourcesAssumption ==
  /\ Files \cap Repos = {} /\ Unparsable \subseteq Files
  /\ RequiredAssets \subseteq Sources
  /\ KeyOf \in [Sources \X Parts -> Keys] /\ RequiredKeys \subseteq Keys
  /\ Rights \subseteq RightsStatus
ASSUME FactsAssumption == Facts \cap (Readings \cup {"native"}) = {}
ASSUME BoundsAssumption ==
  {MaxSourceRevision, MaxLineage, MaxDerived, MaxContexts, MaxJobs} \subseteq Nat

\* A record: what it is about and the values from the observation on.
Record == [source : Sources, part : Parts,
           lineage : Seq(Readings \cup Facts \cup {"native"})]
Observation(s, part) == [source |-> s, part |-> part, lineage |-> <<"native">>]
Derived(e, value) == [e EXCEPT !.lineage = Append(@, value)]
Parent(e) == [e EXCEPT !.lineage = Front(@)]
IsNative(e) == e.lineage = <<"native">>
IsHuman(e) == Last(e.lineage) \in Facts
KeyIn(e) == KeyOf[e.source, e.part]

\* A record keeps the locator of its observation, which is of revision 1.
Locator == [source : Sources, part : Parts, revision : Nat]
LocatorIn(e) == [source |-> e.source, part |-> e.part, revision |-> 1]

Package == [facts : SUBSET Record, analysis : SUBSET Locator,
            delivery : SUBSET Locator, ready : BOOLEAN]
\* The brief and the constraints a package is assembled with are drafts until a
\* person confirms them.
Signatures == [brief : BOOLEAN, constraints : BOOLEAN]
IsSigned(signed) == signed.brief /\ signed.constraints
\* What a caller has read for the next package.
Draft == [revision : Nat, sources : [Sources -> Nat],
          observed : SUBSET Record, confirmed : SUBSET Record]

Steps == {"making", "filling", "filed", "parsing",       \* ingest
          "binding", "manifest", "mounting", "copying",  \* open a workspace
          "gathering", "saving"}                         \* assemble
Job == [at : Steps, source : Sources \cup {NULL}, rights : Rights \cup {NULL},
        draft : Draft \cup {NULL}]
ASSUME NullAssumption ==
  NULL \notin Sources \cup Rights /\ NULL \notin Draft /\ NULL \notin Job

VARIABLES
  disk,      \* the digest file, or the snapshot directory, of a source
  rows,      \* evidence_sources: the rights of every revision
  evidence,  \* evidence_records
  contexts,  \* evidence_contexts, by revision
  mount,     \* the workspace a repository is mounted in
  job,       \* what each worker is doing; NULL when idle
  jobs,      \* jobs begun
  cut,       \* history: sources whose making was cut short
  shared,    \* history: sources that a second caller has made again
  cutMounts  \* history: workspaces whose making was cut short

vars == <<disk, rows, evidence, contexts, mount, job, jobs, cut, shared, cutMounts>>

DiskState == {"absent", "partial", "whole"}
MountState == {"absent", "bare", "empty", "partial", "whole"}

TypeOK ==
  /\ disk \in [Sources -> DiskState]
  /\ rows \in [Sources -> Seq(Rights)]
  /\ evidence \subseteq Record
  /\ contexts \in Seq(Package)
  /\ mount \in [Repos -> MountState]
  /\ job \in [Workers -> Job \cup {NULL}]
  /\ jobs \in Nat
  /\ cut \subseteq Sources /\ shared \subseteq Sources /\ cutMounts \subseteq Repos

Init ==
  /\ disk = [s \in Sources |-> "absent"]
  /\ rows = [s \in Sources |-> <<>>]
  /\ evidence = {}
  /\ contexts = <<>>
  /\ mount = [r \in Repos |-> "absent"]
  /\ job = [w \in Workers |-> NULL]
  /\ jobs = 0
  /\ cut = {} /\ shared = {} /\ cutMounts = {}

----------------------------------------------------------------------------
(* Jobs *)

Busy == {w \in Workers : job[w] # NULL}
At(w, step) == job[w] # NULL /\ job[w].at = step

BeginJob(w, step, s, rights) ==
  /\ job[w] = NULL /\ jobs < MaxJobs
  /\ job' = [job EXCEPT ![w] = [at |-> step, source |-> s, rights |-> rights,
                                draft |-> NULL]]
  /\ jobs' = jobs + 1

Goto(w, step) == job' = [job EXCEPT ![w].at = step]
Leave(w) == job' = [job EXCEPT ![w] = NULL]

Working(step, s) == \E w \in Workers : At(w, step) /\ job[w].source = s
IsRegistered(s) == rows[s] # <<>>

----------------------------------------------------------------------------
(* LocalSourceStore.ingest and RepositoryIngestion.ingest_repository, and   *)
(* what ingest_parse does after them                                       *)

\* Mutant of Ingest: a file that exists is not compared.
IngestTrustsFile(w, s, rights) ==
  /\ BeginJob(w, IF disk[s] = "absent" THEN "making" ELSE "filed", s, rights)
  /\ UNCHANGED <<disk, rows, evidence, contexts, mount, cut, shared, cutMounts>>

\* A file that is there must hold the same bytes, a directory its manifest.
Ingest(w, s, rights) ==
  /\ \/ disk[s] = "absent" /\ BeginJob(w, "making", s, rights)
     \/ disk[s] = "whole" /\ BeginJob(w, "filed", s, rights)
  /\ UNCHANGED <<disk, rows, evidence, contexts, mount, cut, shared, cutMounts>>

\* Mutant of MakeSource: the row is added before the bytes are written.
MakeSourceAfterRow(w) ==
  /\ At(w, "making")
  /\ Goto(w, "filed")
  /\ disk' = [disk EXCEPT ![job[w].source] = "partial"]
  /\ UNCHANGED <<rows, evidence, contexts, mount, jobs, cut, shared, cutMounts>>

\* write_bytes truncates the file, whoever else has written it since; mkdir
\* refuses a directory that is there.
MakeSource(w) ==
  /\ At(w, "making")
  /\ LET s == job[w].source IN
       IF s \in Repos /\ disk[s] # "absent"
       THEN Leave(w) /\ UNCHANGED <<disk, shared>>
       ELSE /\ Goto(w, "filling")
            /\ disk' = [disk EXCEPT ![s] = "partial"]
            /\ shared' = IF disk[s] = "absent" THEN shared ELSE shared \cup {s}
  /\ UNCHANGED <<rows, evidence, contexts, mount, jobs, cut, cutMounts>>

\* The bytes; or every file of the snapshot, and then the manifest.
FillSource(w) ==
  /\ At(w, "filling")
  /\ Goto(w, "filed")
  /\ disk' = [disk EXCEPT ![job[w].source] = "whole"]
  /\ UNCHANGED <<rows, evidence, contexts, mount, jobs, cut, shared, cutMounts>>

\* add_source of revision 1: the row is there and equal, or nothing is.
AddSource(w) ==
  /\ At(w, "filed")
  /\ LET s == job[w].source IN
       \/ /\ ~IsRegistered(s)
          /\ rows' = [rows EXCEPT ![s] = <<job[w].rights>>]
          /\ Goto(w, "parsing")
       \/ /\ IsRegistered(s)
          /\ IF rows[s][1] = job[w].rights THEN Goto(w, "parsing") ELSE Leave(w)
          /\ UNCHANGED rows
  /\ UNCHANGED <<disk, evidence, contexts, mount, jobs, cut, shared, cutMounts>>

\* What the parser finds; it refuses a structure it does not know, when the row
\* is there already.
Observed(s) ==
  {Observation(s, part) : part \in IF s \in Unparsable THEN {} ELSE PartsOf(s)}

\* The parser, and add_evidence of what it found.
AddObservations(w) ==
  /\ At(w, "parsing")
  /\ evidence' = evidence \cup Observed(job[w].source)
  /\ Leave(w)
  /\ UNCHANGED <<disk, rows, contexts, mount, jobs, cut, shared, cutMounts>>

----------------------------------------------------------------------------
(* Reading a source back *)

\* LocalSourceStore.read compares the digest of the bytes.
ReadsFile(f) == disk[f] = "whole"

\* The manifest of a snapshot has the digest of the row, and each file the digest
\* the manifest gives.
ReadsSnapshot(r) == disk[r] = "whole"

\* RepositoryIngestion.read_file: the manifest must list what is read.  The root
\* is cited as the file ".", which no manifest lists.
ReadsPart(l) == ReadsSnapshot(l.source) /\ l.part = "file"

\* EvidenceService.resolve
Resolves(l) ==
  /\ l.revision \in DOMAIN rows[l.source]
  /\ IF l.source \in Repos THEN ReadsPart(l) ELSE ReadsFile(l.source)

----------------------------------------------------------------------------
(* EvidenceService: one transaction each *)

\* revise_rights: a caller who holds an old revision is refused.
ReviseRights(s, rights) ==
  /\ IsRegistered(s) /\ rights # Last(rows[s])
  /\ Len(rows[s]) < MaxSourceRevision
  /\ rows' = [rows EXCEPT ![s] = Append(@, rights)]
  /\ UNCHANGED <<disk, evidence, contexts, mount, job, jobs, cut, shared, cutMounts>>

\* record_interpretation and confirm: add_evidence looks the parent up.
Derive(e, value) ==
  /\ IsRegistered(e.source) /\ e \in evidence
  /\ Len(e.lineage) < MaxLineage
  /\ Cardinality({d \in evidence : ~IsNative(d)}) < MaxDerived
  /\ evidence' = evidence \cup {Derived(e, value)}
  /\ UNCHANGED <<disk, rows, contexts, mount, job, jobs, cut, shared, cutMounts>>

\* The records a caller holds: stored ones, and interpretations that an
\* interpreter has returned and nobody has stored.
Held == evidence \cup {Derived(e, v) : e \in evidence, v \in Readings}

----------------------------------------------------------------------------
(* DeterministicContextAssembler.assemble and save_context *)

\* The next revision is read first, the sources and the evidence after it.
BeginPackage(w) ==
  /\ Len(contexts) < MaxContexts
  /\ job[w] = NULL /\ jobs < MaxJobs
  /\ job' = [job EXCEPT ![w] =
       [at |-> "gathering", source |-> NULL, rights |-> NULL,
        draft |-> [revision |-> Len(contexts) + 1,
                   sources |-> [s \in Sources |-> 0],
                   observed |-> {}, confirmed |-> {}]]]
  /\ jobs' = jobs + 1
  /\ UNCHANGED <<disk, rows, evidence, contexts, mount, cut, shared, cutMounts>>

Confirmations(key) == {e \in evidence : KeyIn(e) = key /\ IsHuman(e)}
Confirmed == {KeyIn(e) : e \in {d \in evidence : IsHuman(d)}}

\* Of the confirmations of one key the assembler takes the last by revision and
\* then by id, which is a hash: whichever source they are about, one of the
\* longest.
Latest(key) ==
  {e \in Confirmations(key) :
     \A f \in Confirmations(key) : Len(f.lineage) <= Len(e.lineage)}

Gather(w) ==
  /\ At(w, "gathering")
  /\ \E last \in [Confirmed -> {e \in evidence : IsHuman(e)}] :
       /\ \A key \in Confirmed : last[key] \in Latest(key)
       /\ job' = [job EXCEPT ![w] =
            [at |-> "saving", source |-> NULL, rights |-> NULL,
             draft |-> [revision |-> job[w].draft.revision,
                        sources |-> [s \in Sources |-> Len(rows[s])],
                        observed |-> {e \in evidence :
                                        IsNative(e) /\ e.source \in Repos},
                        confirmed |-> {last[key] : key \in Confirmed}]]]
  /\ UNCHANGED <<disk, rows, evidence, contexts, mount, jobs, cut, shared, cutMounts>>

RightsIn(draft, s) == rows[s][draft.sources[s]]
Listed(draft) == {s \in Sources : draft.sources[s] # 0}
Analysable(draft) == {s \in Listed(draft) : RightsIn(draft, s) # "PROHIBITED"}

\* A file is cited at its revision; a repository by its observations, if they
\* are of its revision, or else by its root.
Cited(draft, s) ==
  LET revision == draft.sources[s]
      observed == {e \in draft.observed : e.source = s /\ revision = 1}
      at(part) == {[source |-> s, part |-> part, revision |-> revision]}
  IN IF s \in Files THEN at("whole")
     ELSE IF observed = {} THEN at("root")
     ELSE {LocatorIn(e) : e \in observed}
LocatorsOf(draft, S) == UNION {Cited(draft, s) : s \in S}

\* Mutant of Deliverable: whatever may be analysed may be delivered.
DeliverableAnalysed(draft) == Analysable(draft)

Deliverable(draft) ==
  {s \in Listed(draft) : RightsIn(draft, s) = "CLEARED_FOR_DELIVERY"}

Assembled(draft, signed) ==
  [facts |-> draft.confirmed,
   analysis |-> LocatorsOf(draft, Analysable(draft)),
   delivery |-> LocatorsOf(draft, Deliverable(draft)),
   ready |-> /\ IsSigned(signed)
             /\ RequiredKeys \subseteq {KeyIn(e) : e \in draft.confirmed}
             /\ RequiredAssets \subseteq Deliverable(draft)]

\* Mutant of SavePackage: the package is given the next free revision.
SavePackageAnyway(w, signed) ==
  /\ At(w, "saving")
  /\ contexts' = Append(contexts, Assembled(job[w].draft, signed))
  /\ Leave(w)
  /\ UNCHANGED <<disk, rows, evidence, mount, jobs, cut, shared, cutMounts>>

\* The revision must be the next one; a saved one is refused, or answered when
\* it is the same package.
SavePackage(w, signed) ==
  /\ At(w, "saving")
  /\ contexts' = IF job[w].draft.revision = Len(contexts) + 1
                 THEN Append(contexts, Assembled(job[w].draft, signed))
                 ELSE contexts
  /\ Leave(w)
  /\ UNCHANGED <<disk, rows, evidence, mount, jobs, cut, shared, cutMounts>>

----------------------------------------------------------------------------
(* WorkspaceManager.open with a repository *)

\* A workspace without a manifest is refused; one whose tree holds anything is
\* taken for mounted.
OpenWorkspace(w, r) ==
  /\ IsRegistered(r)
  /\ \/ mount[r] = "absent" /\ BeginJob(w, "binding", r, NULL)
     \/ mount[r] = "empty" /\ BeginJob(w, "mounting", r, NULL)
  /\ UNCHANGED <<disk, rows, evidence, contexts, mount, cut, shared, cutMounts>>

MakeDirectories(w) ==
  /\ At(w, "binding")
  /\ Goto(w, "manifest")
  /\ mount' = [mount EXCEPT ![job[w].source] = IF @ = "absent" THEN "bare" ELSE @]
  /\ UNCHANGED <<disk, rows, evidence, contexts, jobs, cut, shared, cutMounts>>

\* list_files is asked after the manifest is written.
WriteManifest(w) ==
  /\ At(w, "manifest")
  /\ LET r == job[w].source IN
       /\ mount' = [mount EXCEPT ![r] = IF @ = "bare" THEN "empty" ELSE @]
       /\ IF mount'[r] = "empty" THEN Goto(w, "mounting") ELSE Leave(w)
  /\ UNCHANGED <<disk, rows, evidence, contexts, jobs, cut, shared, cutMounts>>

\* The first file of the snapshot.  Its digest is checked; a file another
\* caller has mounted is read-only.
MountFirst(w) ==
  /\ At(w, "mounting")
  /\ LET r == job[w].source IN
       IF ReadsSnapshot(r) /\ mount[r] = "empty"
       THEN /\ mount' = [mount EXCEPT ![r] = "partial"]
            /\ Goto(w, "copying")
       ELSE Leave(w) /\ UNCHANGED mount
  /\ UNCHANGED <<disk, rows, evidence, contexts, jobs, cut, shared, cutMounts>>

MountRest(w) ==
  /\ At(w, "copying")
  /\ mount' = [mount EXCEPT ![job[w].source] = "whole"]
  /\ Leave(w)
  /\ UNCHANGED <<disk, rows, evidence, contexts, jobs, cut, shared, cutMounts>>

----------------------------------------------------------------------------
(* Failures *)

\* The process dies, or a file cannot be written or read: what is on disk
\* stays as it is.
Crash(w) ==
  /\ w \in Busy
  /\ Leave(w)
  /\ LET s == job[w].source IN
       /\ cut' = IF At(w, "filling") THEN cut \cup {s} ELSE cut
       /\ cutMounts' = IF At(w, "manifest") \/ At(w, "copying")
                       THEN cutMounts \cup {s} ELSE cutMounts
  /\ UNCHANGED <<disk, rows, evidence, contexts, mount, jobs, shared>>

IngestStep(w) ==
  \/ \E s \in Sources, rights \in Rights : Ingest(w, s, rights)
  \/ MakeSource(w) \/ FillSource(w) \/ AddSource(w) \/ AddObservations(w)

PackageStep(w) ==
  \/ BeginPackage(w) \/ Gather(w)
  \/ \E signed \in Signatures : SavePackage(w, signed)

WorkspaceStep(w) ==
  \/ \E r \in Repos : OpenWorkspace(w, r)
  \/ MakeDirectories(w) \/ WriteManifest(w) \/ MountFirst(w) \/ MountRest(w)

Next ==
  \/ \E w \in Workers :
       IngestStep(w) \/ PackageStep(w) \/ WorkspaceStep(w) \/ Crash(w)
  \/ \E s \in Sources, rights \in Rights : ReviseRights(s, rights)
  \/ \E e \in Held, value \in Readings \cup Facts : Derive(e, value)

Spec == Init /\ [][Next]_vars

----------------------------------------------------------------------------
(* Properties *)

\* What is registered can be read back: every row has its whole file, every
\* record its parent and its source, every locator of a package its row and its
\* bytes -- wherever callers die between a directory, its bytes and its row,
\* unless two of them made the same file.  One locator never resolves: that of
\* a repository's root (LocalSourceStore.ingest, _materialize, add_source,
\* add_evidence, _validate_locators, resolve).
ReferencesResolve ==
  /\ \A s \in Sources : IsRegistered(s) /\ s \notin shared => disk[s] = "whole"
  /\ \A e \in evidence :
       /\ IsRegistered(e.source)
       /\ e \in Observed(e.source) \/ Parent(e) \in evidence
  /\ \A n \in DOMAIN contexts :
       /\ contexts[n].facts \subseteq evidence
       /\ \A l \in contexts[n].analysis \cup {LocatorIn(e) : e \in contexts[n].facts} :
            /\ l.revision \in DOMAIN rows[l.source]
            /\ l.source \notin shared => (Resolves(l) <=> l.part # "root")

\* Only a source that was cleared at the revision a package cites is offered
\* for delivery, and a package without uncertainties offers every required
\* asset and holds a human confirmation under every required key.
DeliveryIsCleared ==
  \A n \in DOMAIN contexts :
    /\ \A l \in contexts[n].delivery :
         rows[l.source][l.revision] = "CLEARED_FOR_DELIVERY"
    /\ contexts[n].ready =>
         /\ RequiredAssets \subseteq {l.source : l \in contexts[n].delivery}
         /\ \A key \in RequiredKeys :
              \E e \in contexts[n].facts : KeyIn(e) = key /\ IsHuman(e)

\* Two callers who assemble the next package from the same predecessor do not
\* both succeed, so no key that was confirmed in a package is lost from a later
\* one: it has one confirmation there, of no fewer steps, though it may be of
\* another source (assemble, save_context).
FactsAreKept ==
  /\ \A n \in DOMAIN contexts : \A e, f \in contexts[n].facts :
       KeyIn(e) = KeyIn(f) => e = f
  /\ \A m, n \in DOMAIN contexts : m < n =>
       \A e \in contexts[m].facts : \E f \in contexts[n].facts :
         KeyIn(f) = KeyIn(e) /\ Len(f.lineage) >= Len(e.lineage)

\* Half-made files and directories are somebody's work in progress, or the
\* remains of a crash: no sequence of calls alone leaves a source or a
\* workspace that every later call refuses (_materialize, open).
NothingHalfMade ==
  /\ \A s \in Sources : disk[s] = "partial" => s \in cut \/ Working("filling", s)
  /\ \A r \in Repos : mount[r] \in {"bare", "partial"} =>
       \/ r \in cutMounts
       \/ Working("manifest", r) \/ Working("copying", r)
=============================================================================
