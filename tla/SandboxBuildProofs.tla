------------------------- MODULE SandboxBuildProofs -------------------------
(***************************************************************************)
(* Theorems about SandboxBuild, for any number of hosts, threads,          *)
(* workspaces, letters and source trees.                                   *)
(***************************************************************************)
EXTENDS SandboxBuild, TLAPS

WorkIsTyped ==
  /\ source \in [Workspaces -> Versions \cup {NULL}]
  /\ deps \in [Workspaces -> {"absent", "partial", "whole"}]
  /\ dist \in [Workspaces -> Bundle \cup {NULL}]
  /\ pictures \subseteq Workspaces

\* A build has a source, one under the launcher its letter, and one that writes
\* its bundle.
CallsAreTyped ==
  /\ call \in [Callers -> Call \cup {NULL}]
  /\ \A c \in Callers : call[c] # NULL =>
       /\ source[call[c].ws] \in Versions
       /\ call[c].at \in {"mapped", "launched", "done"} => call[c].drive # NULL
       /\ call[c].at \in Writing => call[c].bundle # NULL

\* What an acceptance run holds in each of its phases.
AcceptsAreTyped ==
  /\ accept \in [Callers -> Acceptance \cup {NULL}]
  /\ \A c \in Callers : accept[c] # NULL =>
       /\ accept[c].phase # "first" => accept[c].first # NULL
       /\ accept[c].phase \notin {"first", "second"} => accept[c].second # NULL
       /\ accept[c].phase \in {"evidence", "latest"} => accept[c].seen # NULL
  /\ evidence \subseteq Evidence
  /\ latest \in Evidence \cup {NULL, CUT}

OutIsTyped ==
  /\ out \in [Workspaces -> Tree]
  /\ \A w \in Workspaces : out[w]["app"] \in Bundle \cup {NULL}

MachineIsTyped ==
  /\ drives \in [Letters -> Workspaces \cup {NULL}]
  /\ lock \in [Hosts -> Callers \cup {NULL}]
  /\ left \subseteq [process : ProcessStatus, inJob : BOOLEAN]

HistoryIsTyped ==
  /\ builds \in Nat /\ edits \in Nat /\ crashes \in Nat
  /\ mixed \subseteq Workspaces

Types == /\ WorkIsTyped /\ CallsAreTyped /\ AcceptsAreTyped
         /\ OutIsTyped /\ MachineIsTyped /\ HistoryIsTyped

\* Under the launcher's lock, with a letter mapped or refused.
Under == {"mapped", "launched", "done", "failed"}
IsUnder(c) == call[c] # NULL /\ call[c].at \in Under

\* A process runs in its job only.
ProcessesFollow ==
  \A c \in Callers : call[c] # NULL =>
    /\ call[c].process = "running" => call[c].inJob
    /\ call[c].at = "launched" => call[c].inJob
    /\ call[c].at \in {"planned", "copying", "ready", "locked"} => call[c].drive = NULL

\* The lock is its caller's from the look at the free letters to subst /D.
LocksAreHeld ==
  \A c \in Callers : IsUnder(c) \/ At(c, "locked") => lock[HostOf[c]] = c

\* A letter leads to its caller's workspace, and is nobody else's.
DrivesAreHeld ==
  \A c \in Callers : (IsUnder(c) /\ call[c].drive # NULL) =>
    /\ drives[call[c].drive] = call[c].ws
    /\ \A d \in Callers \ {c} : IsUnder(d) => call[d].drive # call[c].drive

LeftAreSuspended == \A p \in left : p.process = "suspended"

Confined == ProcessesFollow /\ LocksAreHeld /\ DrivesAreHeld /\ LeftAreSuspended

\* An acceptance run has a workspace of its own, and so has each of its builds.
RunsStandAlone ==
  /\ \A c \in Callers : accept[c] # NULL =>
       /\ c \in Acceptors
       /\ source[accept[c].ws] \in Versions
       /\ \A d \in Callers \ {c} :
            accept[d] # NULL => accept[d].ws # accept[c].ws
  /\ \A c \in Callers : call[c] # NULL =>
       \/ c \notin Acceptors /\ call[c].ws \in Shared
       \/ /\ accept[c] # NULL /\ call[c].ws = accept[c].ws
          /\ accept[c].phase \in {"first", "second", "loop"}

\* The source of a run stands: all that is made in its workspace is of it.
IsOf(b, v) == b # NULL => b.version = v
SourcesStand ==
  /\ \A w \in Workspaces : source[w] = NULL => dist[w] = NULL /\ out[w]["app"] = NULL
  /\ \A c \in Callers : accept[c] # NULL =>
       LET v == source[accept[c].ws] IN
       /\ IsOf(dist[accept[c].ws], v) /\ IsOf(out[accept[c].ws]["app"], v)
       /\ IsOf(accept[c].first, v)
       /\ call[c] # NULL => call[c].plan = v /\ IsOf(call[c].bundle, v)

\* Of its first two builds each has whole dependencies and a finished compiler,
\* or the run is over.
Compiling == {"ready", "locked", "mapped", "launched", "done"}
FirstBuildsAreSound ==
  \A c \in Callers : (accept[c] # NULL /\ accept[c].phase \in {"first", "second"}
                      /\ call[c] # NULL) =>
    /\ call[c].at \in Compiling => deps[call[c].ws] = "whole"
    /\ call[c].at \in {"done", "collecting"} =>
         dist[call[c].ws] # NULL /\ dist[call[c].ws].sound
    /\ call[c].at \in Writing => call[c].bundle.sound
BuildsAgree ==
  \A c \in Callers : accept[c] # NULL =>
    /\ accept[c].phase # "first" => accept[c].first.sound
    /\ accept[c].phase \notin {"first", "second"} => accept[c].first = accept[c].second

\* What is or will be written down.
IsAccepted(e) ==
  /\ e.first = e.second /\ e.first.sound
  /\ e.shot.healthy /\ e.shot.of.version = e.first.version
  /\ e.shot.of.version \notin Broken
ReportsAreTrue ==
  /\ \A c \in Callers : accept[c] # NULL =>
       /\ accept[c].phase \in {"evidence", "latest"} => IsAccepted(EvidenceOf(c))
       /\ accept[c].phase = "latest" => EvidenceOf(c) \in evidence
  /\ latest \notin {NULL, CUT} => latest \in evidence /\ IsAccepted(latest)

Accepted == /\ RunsStandAlone /\ SourcesStand /\ FirstBuildsAreSound /\ BuildsAgree
            /\ ReportsAreTrue

\* A bundle of whole dependencies and of a source that compiles.
IsSoundOf(b, v) == b \in Bundle /\ b.sound /\ b.version = v /\ v \notin Failing

\* Who is alone works on the source it planned, with the dependencies it copied,
\* and finds in OUT what it wrote.
AloneIsUndisturbed ==
  \A c \in Callers : (call[c] # NULL /\ call[c].alone) =>
    LET w == call[c].ws
        v == call[c].plan IN
    /\ \A d \in Callers \ {c} : call[d] # NULL => call[d].ws # w
    /\ source[w] = v /\ v \notin Malformed
    /\ call[c].at \in Compiling => deps[w] = "whole"
    /\ call[c].at \in {"done", "collecting"} => IsSoundOf(dist[w], v)
    /\ call[c].at \in Writing => IsSoundOf(call[c].bundle, v)
    /\ call[c].at \in {"index", "manifest"} => out[w]["app"] = call[c].bundle
    /\ call[c].at = "manifest" => out[w]["index"] = v

\* Who is not alone and writes OUT leaves it mixed.
SharedIsMixed ==
  \A c \in Callers : (IsWriting(c) /\ ~call[c].alone) => call[c].ws \in mixed

IsOneBuild(tree) ==
  /\ tree["app"] \in Bundle /\ tree["app"].sound
  /\ tree["app"].version \notin Malformed \cup Failing
  /\ tree["index"] = tree["app"].version /\ tree["manifest"] = tree["app"].version
QuietIsOneBuild ==
  \A w \in Workspaces \ mixed :
    (\A c \in Callers : IsWriting(c) => call[c].ws # w) =>
      out[w] = EmptyTree \/ IsOneBuild(out[w])

OneBuild == AloneIsUndisturbed /\ SharedIsMixed /\ QuietIsOneBuild

----------------------------------------------------------------------------
(* Types *)

\* What esbuild makes of a source is a bundle of that source.
LEMMA BundlesAreOfTheSource ==
  ASSUME WorkIsTyped, NEW w \in Workspaces, source[w] \in Versions, NEW b \in Bundles(w)
  PROVE  /\ b \in Bundle /\ b.version = source[w]
         /\ b.sound <=> deps[w] = "whole"
<1>1. PICK n \in {0, 1} :
        b = [version |-> source[w], variant |-> n, sound |-> deps[w] = "whole"]
  BY DEF Bundles
<1> QED
  BY <1>1 DEF Bundle

\* A build whose record changes alone.
LEMMA CallGoesOn ==
  ASSUME Types, NEW c \in Callers, NEW r \in Call,
         call' = [call EXCEPT ![c] = r],
         \A w \in Workspaces : source[w] \in Versions => source'[w] \in Versions,
         source'[r.ws] \in Versions,
         r.at \in {"mapped", "launched", "done"} => r.drive # NULL,
         r.at \in Writing => r.bundle # NULL
  PROVE  CallsAreTyped'
  BY NullAssumption DEF Types, CallsAreTyped, Call

\* Who touches a workspace changes nothing of the builds on it but `alone`.
LEMMA DisturbedIsTyped ==
  ASSUME call \in [Callers -> Call \cup {NULL}], NEW w \in Workspaces
  PROVE  /\ Disturbed(call, w) \in [Callers -> Call \cup {NULL}]
         /\ \A c \in Callers :
              LET r == Disturbed(call, w)[c] IN
              /\ r = NULL <=> call[c] = NULL
              /\ call[c] # NULL =>
                   /\ r.at = call[c].at /\ r.ws = call[c].ws /\ r.plan = call[c].plan
                   /\ r.mask = call[c].mask /\ r.drive = call[c].drive
                   /\ r.process = call[c].process /\ r.inJob = call[c].inJob
                   /\ r.bundle = call[c].bundle
                   /\ r.alone => call[c].alone /\ call[c].ws # w
<1>1. ASSUME NEW c \in Callers, call[c] # NULL
      PROVE  [call[c] EXCEPT !.alone = FALSE] \in Call
  BY <1>1 DEF Call
<1> QED
  BY <1>1, NullAssumption DEF Disturbed, On, Call

\* A run that goes on from a build holds that build.
LEMMA ComparedIsTyped ==
  ASSUME Types, NEW c \in Callers, NEW b \in Bundle
  PROVE  LET runs == Compared(c, b) IN
         /\ runs \in [Callers -> Acceptance \cup {NULL}]
         /\ \A d \in Callers : runs[d] # NULL =>
              /\ runs[d].phase # "first" => runs[d].first # NULL
              /\ runs[d].phase \notin {"first", "second"} => runs[d].second # NULL
              /\ runs[d].phase \in {"evidence", "latest"} => runs[d].seen # NULL
<1> DEFINE second == [accept[c] EXCEPT !.phase = "second", !.first = b]
           initial == [accept[c] EXCEPT !.phase = "initial", !.second = b]
           loop == [accept[c] EXCEPT !.last = b, !.seen = NULL]
<1>1. b # NULL
  BY NullAssumption
<1>2. CASE In(c, "first")
  <2>1. accept[c] \in Acceptance /\ Compared(c, b) = [accept EXCEPT ![c] = second]
    BY <1>2 DEF Compared, In, Types, AcceptsAreTyped
  <2>2. second \in Acceptance /\ second.phase = "second" /\ second.first # NULL
    BY <1>1, <2>1 DEF Acceptance, Phases
  <2> HIDE DEF second
  <2> QED
    BY <2>1, <2>2 DEF Types, AcceptsAreTyped
<1>3. CASE In(c, "second") /\ accept[c].first = b
  <2>1. accept[c] \in Acceptance /\ Compared(c, b) = [accept EXCEPT ![c] = initial]
    BY <1>3 DEF Compared, In, Types, AcceptsAreTyped
  <2>2. /\ initial \in Acceptance /\ initial.phase = "initial"
        /\ initial.first # NULL /\ initial.second # NULL
    BY <1>1, <1>3, <2>1 DEF Acceptance, Phases
  <2> HIDE DEF initial
  <2> QED
    BY <2>1, <2>2 DEF Types, AcceptsAreTyped
<1>4. CASE In(c, "second") /\ accept[c].first # b
  <2>1. Compared(c, b) = [accept EXCEPT ![c] = NULL]
    BY <1>4 DEF Compared, In
  <2> QED
    BY <2>1 DEF Types, AcceptsAreTyped
<1>5. CASE In(c, "loop")
  <2>1. /\ accept[c] \in Acceptance /\ accept[c].phase = "loop"
        /\ accept[c].first # NULL /\ accept[c].second # NULL
        /\ Compared(c, b) = [accept EXCEPT ![c] = loop]
    BY <1>5 DEF Compared, In, Types, AcceptsAreTyped
  <2>2. /\ loop \in Acceptance /\ loop.phase = "loop"
        /\ loop.first # NULL /\ loop.second # NULL
    BY <2>1 DEF Acceptance
  <2> HIDE DEF loop
  <2> QED
    BY <2>1, <2>2 DEF Types, AcceptsAreTyped
<1>6. CASE ~In(c, "first") /\ ~In(c, "second") /\ ~In(c, "loop")
  BY <1>6 DEF Compared, Types, AcceptsAreTyped
<1> QED
  BY <1>2, <1>3, <1>4, <1>5, <1>6

\* Every step of the host processes, the launcher and the runs keeps the types.
LEMMA TypesStep ==
  ASSUME Types, [Next]_vars
  PROVE  Types'
<1> USE HostsAssumption, WorkspacesAssumption, VersionsAssumption,
        BoundsAssumption, NullAssumption
<1>1. ASSUME NEW c \in Callers, NEW w \in Workspaces, NEW v \in Versions,
             Edit(c, w, v)
      PROVE  Types'
  <2>1. AcceptsAreTyped' /\ OutIsTyped' /\ MachineIsTyped'
    BY <1>1 DEF Edit, Types, AcceptsAreTyped, OutIsTyped, MachineIsTyped, machine,
      report
  <2>2. WorkIsTyped'
    BY <1>1 DEF Edit, Types, WorkIsTyped, Bundle, Call, Disturbed, On, MixedBy,
      IsWriting, machine, report
  <2>3. CallsAreTyped'
    BY <1>1, DisturbedIsTyped DEF Edit, Types, CallsAreTyped, WorkIsTyped, Call
  <2>4. HistoryIsTyped'
    BY <1>1 DEF Edit, Types, HistoryIsTyped, CallsAreTyped, Call, Disturbed, On,
      MixedBy, IsWriting, machine, report
  <2> QED
    BY <2>1, <2>2, <2>3, <2>4 DEF Types
<1>2. ASSUME NEW c \in Callers, NEW w \in Workspaces, NEW v \in Versions,
             BeginAcceptance(c, w, v)
      PROVE  Types'
  <2>1. OutIsTyped' /\ MachineIsTyped' /\ HistoryIsTyped'
    BY <1>2 DEF BeginAcceptance, Types, OutIsTyped, MachineIsTyped, HistoryIsTyped,
      machine, bounds
  <2>2. WorkIsTyped'
    BY <1>2 DEF BeginAcceptance, Types, WorkIsTyped, Bundle, Call, machine, bounds
  <2>3. CallsAreTyped'
    BY <1>2 DEF BeginAcceptance, Types, CallsAreTyped, WorkIsTyped, Call, Bundle,
      BuildStep, Writing, ProcessStatus, machine, bounds
  <2>4. AcceptsAreTyped'
    BY <1>2 DEF BeginAcceptance, Types, AcceptsAreTyped, CallsAreTyped, OutIsTyped,
      Acceptance, Shot, Evidence, Phases, Call, Writing, machine, bounds
  <2> QED
    BY <2>1, <2>2, <2>3, <2>4 DEF Types
<1>3. ASSUME NEW c \in Callers, NEW w \in Workspaces, BeginBuild(c, w)
      PROVE  Types'
  <2>1. WorkIsTyped' /\ AcceptsAreTyped' /\ OutIsTyped'
        /\ MachineIsTyped'
    BY <1>3 DEF BeginBuild, Types, WorkIsTyped, AcceptsAreTyped, OutIsTyped,
      MachineIsTyped, work, machine, report
  <2>2. CallsAreTyped'
    <3> DEFINE r == [at |-> "planned", ws |-> w, plan |-> source[w],
                     alone |-> On(w) = {}, mask |-> {}, drive |-> NULL,
                     process |-> "none", inJob |-> FALSE, bundle |-> NULL]
    <3>1. r \in Call /\ source[w] \in Versions
      BY <1>3 DEF BeginBuild, Prepared, Call, BuildStep, ProcessStatus
    <3>2. call' = [Disturbed(call, w) EXCEPT ![c] = r] /\ source' = source
      BY <1>3 DEF BeginBuild, work
    <3> HIDE DEF r
    <3>3. r.at = "planned" /\ r.ws = w
      BY DEF r
    <3> QED
      BY <3>1, <3>2, <3>3, DisturbedIsTyped DEF Types, CallsAreTyped, Writing, Call
  <2>3. HistoryIsTyped'
    BY <1>3 DEF BeginBuild, Types, HistoryIsTyped, CallsAreTyped, Call, On,
      Disturbed, MixedBy, IsWriting, Prepared, work, machine, report
  <2> QED
    BY <2>1, <2>2, <2>3 DEF Types
<1>4. ASSUME NEW c \in Callers, NEW w \in Workspaces, RenderWork(c, w)
      PROVE  Types'
  <2>1. CallsAreTyped' /\ OutIsTyped' /\ MachineIsTyped'
    BY <1>4 DEF RenderWork, Types, CallsAreTyped, OutIsTyped, MachineIsTyped,
      machine
  <2>2. WorkIsTyped'
    BY <1>4 DEF RenderWork, Types, WorkIsTyped, Bundle, Call, In, machine
  <2>3. AcceptsAreTyped'
    <3>1. CASE accept' = accept
      BY <1>4, <3>1 DEF RenderWork, Types, AcceptsAreTyped
    <3>2. CASE accept' # accept
      <4> DEFINE r == [accept[c] EXCEPT
                         !.seen = [healthy |-> FALSE, of |-> accept[c].last]]
      <4>1. /\ accept[c] # NULL /\ accept[c].phase = "loop"
            /\ accept' = [accept EXCEPT ![c] = r]
        BY <1>4, <3>2 DEF RenderWork, In
      <4>2. accept[c] \in Acceptance
        BY <4>1 DEF Types, AcceptsAreTyped
      <4>3. [healthy |-> FALSE, of |-> accept[c].last] \in Shot
        BY <4>2 DEF Acceptance, Shot
      <4>4. r \in Acceptance /\ r.phase = "loop" /\ r.first = accept[c].first
            /\ r.second = accept[c].second
        BY <4>1, <4>2, <4>3 DEF Acceptance
      <4> HIDE DEF r
      <4> QED
        BY <1>4, <4>1, <4>4 DEF RenderWork, Types, AcceptsAreTyped
    <3> QED
      BY <3>1, <3>2
  <2>4. HistoryIsTyped'
    BY <1>4 DEF RenderWork, Types, HistoryIsTyped, CallsAreTyped, Call, In, machine
  <2> QED
    BY <2>1, <2>2, <2>3, <2>4 DEF Types
<1>5. ASSUME NEW c \in Callers, WritePlan(c)
      PROVE  Types'
  <2>1. AcceptsAreTyped' /\ OutIsTyped' /\ MachineIsTyped'
        /\ HistoryIsTyped'
    BY <1>5 DEF WritePlan, Types, AcceptsAreTyped, OutIsTyped, MachineIsTyped,
      HistoryIsTyped, Goto, machine, report, bounds
  <2>2. WorkIsTyped'
    <3>1. call[c] \in Call
      BY <1>5 DEF WritePlan, At, Types, CallsAreTyped
    <3> QED
      BY <1>5, <3>1 DEF WritePlan, Types, WorkIsTyped, Call
  <2>3. CallsAreTyped'
    BY <1>5 DEF WritePlan, Types, CallsAreTyped, WorkIsTyped, Call, Bundle,
      BuildStep, Writing, ProcessStatus, Goto, At, machine, report, bounds
  <2> QED
    BY <2>1, <2>2, <2>3 DEF Types
<1>6. ASSUME NEW c \in Callers, CopyDependencies(c)
      PROVE  Types'
  <2>1. AcceptsAreTyped' /\ OutIsTyped' /\ MachineIsTyped'
        /\ HistoryIsTyped'
    BY <1>6 DEF CopyDependencies, Types, AcceptsAreTyped, OutIsTyped,
      MachineIsTyped, HistoryIsTyped, Goto, machine, report, bounds
  <2>2. WorkIsTyped'
    BY <1>6 DEF CopyDependencies, Types, WorkIsTyped, Bundle, Call, Goto, At,
      machine, report, bounds
  <2>3. CallsAreTyped'
    BY <1>6 DEF CopyDependencies, Types, CallsAreTyped, WorkIsTyped, Call, Bundle,
      BuildStep, Writing, ProcessStatus, Goto, At, machine, report, bounds
  <2> QED
    BY <2>1, <2>2, <2>3 DEF Types
<1>7. ASSUME NEW c \in Callers, Unavailable(c)
      PROVE  Types'
  <2>1. OutIsTyped' /\ MachineIsTyped' /\ HistoryIsTyped'
    BY <1>7 DEF Unavailable, Types, OutIsTyped, MachineIsTyped, HistoryIsTyped,
      Raised, machine, bounds
  <2>2. WorkIsTyped'
    <3>1. call[c] \in Call
      BY <1>7 DEF Unavailable, At, Types, CallsAreTyped
    <3> QED
      BY <1>7, <3>1 DEF Unavailable, Types, WorkIsTyped, Call
  <2>3. CallsAreTyped'
    BY <1>7 DEF Unavailable, Types, CallsAreTyped, WorkIsTyped, Call, Bundle,
      BuildStep, Writing, ProcessStatus, At, Raised, In, machine, bounds
  <2>4. AcceptsAreTyped'
    BY <1>7 DEF Unavailable, Types, AcceptsAreTyped, CallsAreTyped, OutIsTyped,
      Acceptance, Shot, Evidence, Phases, Call, Writing, At, Raised, In, machine,
      bounds
  <2> QED
    BY <2>1, <2>2, <2>3, <2>4 DEF Types
<1>8. ASSUME NEW c \in Callers, TakeLock(c)
      PROVE  Types'
  <2>1. WorkIsTyped' /\ AcceptsAreTyped' /\ OutIsTyped'
        /\ HistoryIsTyped'
    BY <1>8 DEF TakeLock, Types, WorkIsTyped, AcceptsAreTyped, OutIsTyped,
      HistoryIsTyped, work, report, bounds
  <2>2. CallsAreTyped'
    <3> DEFINE r == [call[c] EXCEPT !.at = "locked",
                                    !.mask = {l \in Letters : drives[l] = NULL}]
    <3>1. call[c] \in Call /\ source' = source /\ call' = [call EXCEPT ![c] = r]
      BY <1>8 DEF TakeLock, At, Types, CallsAreTyped, work
    <3>2. r \in Call /\ r.at = "locked" /\ r.ws = call[c].ws
      BY <3>1 DEF Call, BuildStep
    <3>3. source[call[c].ws] \in Versions
      BY <1>8 DEF TakeLock, At, Types, CallsAreTyped
    <3> QED
      BY <3>1, <3>2, <3>3, CallGoesOn DEF Writing
  <2>3. MachineIsTyped'
    BY <1>8 DEF TakeLock, Types, MachineIsTyped, CallsAreTyped, Call, ProcessStatus,
      At, work, report, bounds
  <2> QED
    BY <2>1, <2>2, <2>3 DEF Types
<1>9. ASSUME NEW c \in Callers, MapDrive(c)
      PROVE  Types'
  <2>1. WorkIsTyped' /\ AcceptsAreTyped' /\ OutIsTyped'
        /\ HistoryIsTyped'
    BY <1>9 DEF MapDrive, Types, WorkIsTyped, AcceptsAreTyped, OutIsTyped,
      HistoryIsTyped, work, report, bounds
  <2>2. CallsAreTyped'
    <3>1. call[c] \in Call /\ source[call[c].ws] \in Versions /\ source' = source
      BY <1>9 DEF MapDrive, At, Types, CallsAreTyped, work
    <3>2. PICK l \in call[c].mask :
            call' = [call EXCEPT ![c].at = "mapped", ![c].drive = l]
      BY <1>9 DEF MapDrive
    <3> DEFINE r == [call[c] EXCEPT !.at = "mapped", !.drive = l]
    <3>3. l \in Letters /\ l # NULL
      BY <3>1 DEF Call
    <3>4. r \in Call /\ r.at = "mapped" /\ r.ws = call[c].ws /\ r.drive = l
      BY <3>1, <3>3 DEF Call, BuildStep
    <3>5. call' = [call EXCEPT ![c] = r]
      BY <3>2
    <3> QED
      BY <3>1, <3>3, <3>4, <3>5, CallGoesOn DEF Writing
  <2>3. MachineIsTyped'
    BY <1>9 DEF MapDrive, Types, MachineIsTyped, CallsAreTyped, Call, ProcessStatus,
      At, work, report, bounds
  <2> QED
    BY <2>1, <2>2, <2>3 DEF Types
<1>10. ASSUME NEW c \in Callers, NoDrive(c)
      PROVE  Types'
  <2>1. WorkIsTyped' /\ AcceptsAreTyped' /\ OutIsTyped'
        /\ MachineIsTyped' /\ HistoryIsTyped'
    BY <1>10 DEF NoDrive, Types, WorkIsTyped, AcceptsAreTyped, OutIsTyped,
      MachineIsTyped, HistoryIsTyped, Goto, work, machine, report, bounds
  <2>2. CallsAreTyped'
    BY <1>10 DEF NoDrive, Types, CallsAreTyped, WorkIsTyped, Call, Bundle,
      BuildStep, Writing, ProcessStatus, Goto, At, work, machine, report, bounds
  <2> QED
    BY <2>1, <2>2 DEF Types
<1>11. ASSUME NEW c \in Callers, CreateProcess(c)
      PROVE  Types'
  <2>1. WorkIsTyped' /\ AcceptsAreTyped' /\ OutIsTyped'
        /\ MachineIsTyped' /\ HistoryIsTyped'
    BY <1>11 DEF CreateProcess, Types, WorkIsTyped, AcceptsAreTyped, OutIsTyped,
      MachineIsTyped, HistoryIsTyped, Goto, work, machine, report, bounds
  <2>2. CallsAreTyped'
    BY <1>11 DEF CreateProcess, Types, CallsAreTyped, WorkIsTyped, Call, Bundle,
      BuildStep, Writing, ProcessStatus, Goto, At, work, machine, report, bounds
  <2> QED
    BY <2>1, <2>2 DEF Types
<1>12. ASSUME NEW c \in Callers, AssignJob(c)
      PROVE  Types'
  <2>1. WorkIsTyped' /\ AcceptsAreTyped' /\ OutIsTyped'
        /\ MachineIsTyped' /\ HistoryIsTyped'
    BY <1>12 DEF AssignJob, Types, WorkIsTyped, AcceptsAreTyped, OutIsTyped,
      MachineIsTyped, HistoryIsTyped, work, machine, report, bounds
  <2>2. CallsAreTyped'
    <3>1. /\ call[c] \in Call /\ source[call[c].ws] \in Versions /\ source' = source
          /\ call[c].at = "mapped" /\ call[c].drive # NULL
      BY <1>12 DEF AssignJob, At, Types, CallsAreTyped, work
    <3>2. PICK r \in {[call[c] EXCEPT !.inJob = TRUE],
                      [call[c] EXCEPT !.at = "failed", !.process = "killed"]} :
            call' = [call EXCEPT ![c] = r]
      BY <1>12 DEF AssignJob
    <3>3. /\ r \in Call /\ r.at \in {"mapped", "failed"} /\ r.ws = call[c].ws
          /\ r.drive = call[c].drive
      <4>1. CASE r = [call[c] EXCEPT !.inJob = TRUE]
        BY <3>1, <4>1 DEF Call
      <4>2. CASE r = [call[c] EXCEPT !.at = "failed", !.process = "killed"]
        BY <3>1, <4>2 DEF Call, BuildStep, ProcessStatus
      <4> QED
        BY <3>2, <4>1, <4>2
    <3> QED
      BY <3>1, <3>2, <3>3, CallGoesOn DEF Writing
  <2> QED
    BY <2>1, <2>2 DEF Types
<1>13. ASSUME NEW c \in Callers, ResumeThread(c)
      PROVE  Types'
  <2>1. WorkIsTyped' /\ AcceptsAreTyped' /\ OutIsTyped'
        /\ MachineIsTyped' /\ HistoryIsTyped'
    BY <1>13 DEF ResumeThread, Types, WorkIsTyped, AcceptsAreTyped, OutIsTyped,
      MachineIsTyped, HistoryIsTyped, work, machine, report, bounds
  <2>2. CallsAreTyped'
    BY <1>13 DEF ResumeThread, Types, CallsAreTyped, WorkIsTyped, Call, Bundle,
      BuildStep, Writing, ProcessStatus, At, work, machine, report, bounds
  <2> QED
    BY <2>1, <2>2 DEF Types
<1>14. ASSUME NEW c \in Callers, ProcessExits(c)
      PROVE  Types'
  <2>1. AcceptsAreTyped' /\ OutIsTyped' /\ MachineIsTyped'
        /\ HistoryIsTyped'
    BY <1>14 DEF ProcessExits, Types, AcceptsAreTyped, OutIsTyped, MachineIsTyped,
      HistoryIsTyped, machine, report, bounds
  <2>2. WorkIsTyped'
    <3>1. call[c] \in Call /\ source[call[c].ws] \in Versions
      BY <1>14 DEF ProcessExits, At, Types, CallsAreTyped
    <3>2. call[c].ws \in Workspaces
      BY <3>1 DEF Call
    <3>3. Bundles(call[c].ws) \subseteq Bundle
      BY <3>1, <3>2, BundlesAreOfTheSource DEF Types
    <3> QED
      BY <1>14, <3>2, <3>3 DEF ProcessExits, Types, WorkIsTyped
  <2>3. CallsAreTyped'
    BY <1>14 DEF ProcessExits, Types, CallsAreTyped, WorkIsTyped, Call, Bundle,
      BuildStep, Writing, ProcessStatus, At, Bundles, machine, report, bounds
  <2> QED
    BY <2>1, <2>2, <2>3 DEF Types
<1>15. ASSUME NEW c \in Callers, Timeout(c)
      PROVE  Types'
  <2>1. AcceptsAreTyped' /\ OutIsTyped' /\ MachineIsTyped'
        /\ HistoryIsTyped'
    BY <1>15 DEF Timeout, Types, AcceptsAreTyped, OutIsTyped, MachineIsTyped,
      HistoryIsTyped, machine, report, bounds
  <2>2. WorkIsTyped'
    <3>1. call[c] \in Call /\ source[call[c].ws] \in Versions
      BY <1>15 DEF Timeout, At, Types, CallsAreTyped
    <3>2. call[c].ws \in Workspaces
      BY <3>1 DEF Call
    <3>3. Bundles(call[c].ws) \subseteq Bundle
      BY <3>1, <3>2, BundlesAreOfTheSource DEF Types
    <3>4. \A b \in Bundle : [b EXCEPT !.sound = FALSE] \in Bundle
      BY DEF Bundle
    <3>5. CASE dist' = dist
      BY <1>15, <3>5 DEF Timeout, Types, WorkIsTyped
    <3>6. CASE dist' # dist
      <4>1. PICK b \in Bundles(call[c].ws) :
              dist' = [dist EXCEPT ![call[c].ws] = [b EXCEPT !.sound = FALSE]]
        BY <1>15, <3>6 DEF Timeout
      <4> DEFINE unsound == [b EXCEPT !.sound = FALSE]
      <4>2. unsound \in Bundle
        BY <3>3, <3>4
      <4> HIDE DEF unsound
      <4> QED
        BY <1>15, <3>2, <4>1, <4>2 DEF unsound, Timeout, Types, WorkIsTyped
    <3> QED
      BY <3>5, <3>6
  <2>3. CallsAreTyped'
    BY <1>15 DEF Timeout, Types, CallsAreTyped, WorkIsTyped, Call, Bundle,
      BuildStep, Writing, ProcessStatus, At, Bundles, machine, report, bounds
  <2> QED
    BY <2>1, <2>2, <2>3 DEF Types
<1>16. ASSUME NEW c \in Callers, LauncherFails(c)
      PROVE  Types'
  <2>1. WorkIsTyped' /\ OutIsTyped' /\ HistoryIsTyped'
    BY <1>16 DEF LauncherFails, Types, WorkIsTyped, OutIsTyped, HistoryIsTyped,
      Raised, Unmap, work, bounds
  <2>2. CallsAreTyped'
    BY <1>16 DEF LauncherFails, Types, CallsAreTyped, WorkIsTyped, Call, Bundle,
      BuildStep, Writing, ProcessStatus, At, Raised, In, Unmap, work, bounds
  <2>3. AcceptsAreTyped'
    BY <1>16 DEF LauncherFails, Types, AcceptsAreTyped, CallsAreTyped, OutIsTyped,
      Acceptance, Shot, Evidence, Phases, Call, Writing, At, Raised, In, Unmap,
      work, bounds
  <2>4. MachineIsTyped'
    BY <1>16 DEF LauncherFails, Types, MachineIsTyped, CallsAreTyped, Call,
      ProcessStatus, At, Raised, In, Unmap, work, bounds
  <2> QED
    BY <2>1, <2>2, <2>3, <2>4 DEF Types
<1>17. ASSUME NEW c \in Callers, LauncherReturns(c)
      PROVE  Types'
  <2>1. WorkIsTyped' /\ AcceptsAreTyped' /\ OutIsTyped'
        /\ HistoryIsTyped'
    BY <1>17 DEF LauncherReturns, Types, WorkIsTyped, AcceptsAreTyped, OutIsTyped,
      HistoryIsTyped, Goto, Unmap, work, report, bounds
  <2>2. CallsAreTyped'
    BY <1>17 DEF LauncherReturns, Types, CallsAreTyped, WorkIsTyped, Call, Bundle,
      BuildStep, Writing, ProcessStatus, Goto, At, Unmap, work, report, bounds
  <2>3. MachineIsTyped'
    BY <1>17 DEF LauncherReturns, Types, MachineIsTyped, CallsAreTyped, Call,
      ProcessStatus, Goto, At, Unmap, work, report, bounds
  <2> QED
    BY <2>1, <2>2, <2>3 DEF Types
<1>18. ASSUME NEW c \in Callers, ReadBundle(c)
      PROVE  Types'
  <2>1. WorkIsTyped' /\ AcceptsAreTyped' /\ OutIsTyped'
        /\ MachineIsTyped'
    BY <1>18 DEF ReadBundle, Types, WorkIsTyped, AcceptsAreTyped, OutIsTyped,
      MachineIsTyped, work, machine, report, bounds
  <2>2. CallsAreTyped'
    <3> DEFINE r == [call[c] EXCEPT !.at = "app", !.bundle = dist[call[c].ws]]
    <3>1. /\ call[c] \in Call /\ source' = source /\ call' = [call EXCEPT ![c] = r]
          /\ dist[call[c].ws] # NULL /\ source[call[c].ws] \in Versions
      BY <1>18 DEF ReadBundle, At, Types, CallsAreTyped, work
    <3>2. call[c].ws \in Workspaces
      BY <3>1 DEF Call
    <3>3. dist[call[c].ws] \in Bundle
      BY <3>1, <3>2 DEF Types, WorkIsTyped
    <3>4. r \in Call /\ r.at = "app" /\ r.ws = call[c].ws /\ r.bundle # NULL
      BY <3>1, <3>3 DEF Call, BuildStep
    <3> QED
      BY <3>1, <3>4, CallGoesOn
  <2>3. HistoryIsTyped'
    BY <1>18 DEF ReadBundle, Types, HistoryIsTyped, CallsAreTyped, Call, At, work,
      machine, report, bounds
  <2> QED
    BY <2>1, <2>2, <2>3 DEF Types
<1>19. ASSUME NEW c \in Callers, WriteOut(c)
      PROVE  Types'
  <2>1. WorkIsTyped' /\ MachineIsTyped'
    BY <1>19 DEF WriteOut, Types, WorkIsTyped, MachineIsTyped, Goto, work, machine,
      bounds
  <2>2. CallsAreTyped'
    BY <1>19 DEF WriteOut, Types, CallsAreTyped, WorkIsTyped, Call, Bundle,
      BuildStep, Writing, ProcessStatus, Goto, Compared, In, IsWriting, work,
      machine, bounds
  <2>3. AcceptsAreTyped'
    <3>1. call[c] # NULL /\ call[c] \in Call /\ call[c].at \in Writing
      BY <1>19 DEF WriteOut, IsWriting, Types, CallsAreTyped
    <3>2. call[c].bundle \in Bundle
      BY <3>1 DEF Call, Types, CallsAreTyped
    <3>3. \/ accept' = accept
          \/ accept' = Compared(c, call[c].bundle)
      BY <1>19 DEF WriteOut
    <3>4. UNCHANGED <<evidence, latest>>
      BY <1>19 DEF WriteOut
    <3> QED
      BY <3>2, <3>3, <3>4, ComparedIsTyped DEF Types, AcceptsAreTyped
  <2>4. OutIsTyped'
    BY <1>19 DEF WriteOut, Types, OutIsTyped, CallsAreTyped, Tree, Piece, Call,
      Writing, Goto, Compared, In, IsWriting, work, machine, bounds
  <2>5. HistoryIsTyped'
    BY <1>19 DEF WriteOut, Types, HistoryIsTyped, CallsAreTyped, Call, Goto,
      Compared, In, IsWriting, work, machine, bounds
  <2> QED
    BY <2>1, <2>2, <2>3, <2>4, <2>5 DEF Types
<1>20. ASSUME NEW c \in Callers, InitialRender(c)
      PROVE  Types'
  <2>1. WorkIsTyped' /\ CallsAreTyped' /\ OutIsTyped'
        /\ MachineIsTyped' /\ HistoryIsTyped'
    BY <1>20 DEF InitialRender, Types, WorkIsTyped, CallsAreTyped, OutIsTyped,
      MachineIsTyped, HistoryIsTyped, work, machine, bounds
  <2>2. AcceptsAreTyped'
    BY <1>20 DEF InitialRender, Types, AcceptsAreTyped, CallsAreTyped, OutIsTyped,
      Acceptance, Shot, Evidence, Phases, Call, Writing, Idle, In, Healthy, work,
      machine, bounds
  <2> QED
    BY <2>1, <2>2 DEF Types
<1>21. ASSUME NEW c \in Callers, LoopRender(c)
      PROVE  Types'
  <2>1. WorkIsTyped' /\ CallsAreTyped' /\ OutIsTyped'
        /\ MachineIsTyped' /\ HistoryIsTyped'
    BY <1>21 DEF LoopRender, Types, WorkIsTyped, CallsAreTyped, OutIsTyped,
      MachineIsTyped, HistoryIsTyped, work, machine, bounds
  <2>2. AcceptsAreTyped'
    <3> DEFINE s == [healthy |-> Healthy(out[accept[c].ws]), of |-> accept[c].last]
               r == [accept[c] EXCEPT !.seen = s]
    <3>1. /\ accept[c] \in Acceptance /\ accept[c].phase = "loop"
          /\ accept' = [accept EXCEPT ![c] = r]
          /\ accept[c].first # NULL /\ accept[c].second # NULL
      BY <1>21 DEF LoopRender, Idle, In, Types, AcceptsAreTyped
    <3>2. Healthy(out[accept[c].ws]) \in BOOLEAN
      BY DEF Healthy
    <3>3. s \in Shot
      BY <3>1, <3>2 DEF Acceptance, Shot
    <3>4. r \in Acceptance /\ r.phase = "loop" /\ r.first # NULL /\ r.second # NULL
      BY <3>1, <3>3 DEF Acceptance
    <3> HIDE DEF s, r
    <3> QED
      BY <1>21, <3>1, <3>4 DEF LoopRender, Types, AcceptsAreTyped
  <2> QED
    BY <2>1, <2>2 DEF Types
<1>22. ASSUME NEW c \in Callers, LoopCompletes(c)
      PROVE  Types'
  <2>1. WorkIsTyped' /\ CallsAreTyped' /\ OutIsTyped'
        /\ MachineIsTyped' /\ HistoryIsTyped'
    BY <1>22 DEF LoopCompletes, Types, WorkIsTyped, CallsAreTyped, OutIsTyped,
      MachineIsTyped, HistoryIsTyped, work, machine, bounds
  <2>2. AcceptsAreTyped'
    BY <1>22 DEF LoopCompletes, Types, AcceptsAreTyped, CallsAreTyped, OutIsTyped,
      Acceptance, Shot, Evidence, Phases, Call, Writing, Idle, In, work, machine,
      bounds
  <2> QED
    BY <2>1, <2>2 DEF Types
<1>23. ASSUME NEW c \in Callers, FinalRender(c)
      PROVE  Types'
  <2>1. WorkIsTyped' /\ CallsAreTyped' /\ OutIsTyped'
        /\ MachineIsTyped' /\ HistoryIsTyped'
    BY <1>23 DEF FinalRender, Types, WorkIsTyped, CallsAreTyped, OutIsTyped,
      MachineIsTyped, HistoryIsTyped, work, machine, bounds
  <2>2. AcceptsAreTyped'
    <3> DEFINE s == [healthy |-> TRUE, of |-> out[accept[c].ws]["app"]]
               r == [accept[c] EXCEPT !.phase = "evidence", !.seen = s]
    <3>1. /\ accept[c] \in Acceptance /\ accept[c].phase = "final"
          /\ accept' = [accept EXCEPT ![c] = r]
          /\ accept[c].first # NULL /\ accept[c].second # NULL
      BY <1>23 DEF FinalRender, Idle, In, Types, AcceptsAreTyped
    <3>2. s \in Shot
      BY <3>1 DEF Acceptance, Shot, Types, OutIsTyped, Workspaces
    <3>3. /\ r \in Acceptance /\ r.phase = "evidence" /\ r.first # NULL
          /\ r.second # NULL /\ r.seen # NULL
      BY <3>1, <3>2 DEF Acceptance, Phases
    <3> HIDE DEF s, r
    <3>4. /\ accept' \in [Callers -> Acceptance \cup {NULL}] /\ accept'[c] = r
          /\ \A d \in Callers \ {c} : accept'[d] = accept[d]
      BY <3>1, <3>3 DEF Types, AcceptsAreTyped
    <3>5. UNCHANGED <<evidence, latest>>
      BY <1>23 DEF FinalRender
    <3> QED
      BY <3>3, <3>4, <3>5 DEF Types, AcceptsAreTyped
  <2> QED
    BY <2>1, <2>2 DEF Types
<1>24. ASSUME NEW c \in Callers, GiveUp(c)
      PROVE  Types'
  <2>1. WorkIsTyped' /\ CallsAreTyped' /\ OutIsTyped'
        /\ MachineIsTyped' /\ HistoryIsTyped'
    BY <1>24 DEF GiveUp, Types, WorkIsTyped, CallsAreTyped, OutIsTyped,
      MachineIsTyped, HistoryIsTyped, work, machine, bounds
  <2>2. AcceptsAreTyped'
    BY <1>24 DEF GiveUp, Types, AcceptsAreTyped, CallsAreTyped, OutIsTyped,
      Acceptance, Shot, Evidence, Phases, Call, Writing, Idle, In, work, machine,
      bounds
  <2> QED
    BY <2>1, <2>2 DEF Types
<1>25. ASSUME NEW c \in Callers, WriteEvidence(c)
      PROVE  Types'
  <2>1. WorkIsTyped' /\ CallsAreTyped' /\ OutIsTyped'
        /\ MachineIsTyped' /\ HistoryIsTyped'
    BY <1>25 DEF WriteEvidence, Types, WorkIsTyped, CallsAreTyped, OutIsTyped,
      MachineIsTyped, HistoryIsTyped, work, machine, bounds
  <2>2. AcceptsAreTyped'
    BY <1>25 DEF WriteEvidence, Types, AcceptsAreTyped, CallsAreTyped, OutIsTyped,
      Acceptance, Shot, Evidence, Phases, Call, Writing, Idle, In, EvidenceOf, work,
      machine, bounds
  <2> QED
    BY <2>1, <2>2 DEF Types
<1>26. ASSUME NEW c \in Callers, WriteLatest(c)
      PROVE  Types'
  <2>1. WorkIsTyped' /\ CallsAreTyped' /\ OutIsTyped'
        /\ MachineIsTyped' /\ HistoryIsTyped'
    BY <1>26 DEF WriteLatest, Types, WorkIsTyped, CallsAreTyped, OutIsTyped,
      MachineIsTyped, HistoryIsTyped, work, machine, bounds
  <2>2. AcceptsAreTyped'
    BY <1>26 DEF WriteLatest, Types, AcceptsAreTyped, CallsAreTyped, OutIsTyped,
      Acceptance, Shot, Evidence, Phases, Call, Writing, Idle, In, EvidenceOf, work,
      machine, bounds
  <2> QED
    BY <2>1, <2>2 DEF Types
<1>27. ASSUME NEW h \in Hosts, Crash(h)
      PROVE  Types'
  <2>1. WorkIsTyped' /\ OutIsTyped'
    BY <1>27 DEF Crash, Types, WorkIsTyped, OutIsTyped, work
  <2>2. CallsAreTyped'
    BY <1>27 DEF Crash, Types, CallsAreTyped, WorkIsTyped, Call, Bundle, BuildStep,
      Writing, ProcessStatus, Idle, In, IsWriting, work
  <2>3. AcceptsAreTyped'
    BY <1>27 DEF Crash, Types, AcceptsAreTyped, CallsAreTyped, OutIsTyped,
      Acceptance, Shot, Evidence, Phases, Call, Writing, Idle, In, IsWriting, work
  <2>4. MachineIsTyped'
    <3>1. \A c \in Callers : call[c] # NULL => call[c].process \in ProcessStatus
      BY DEF Types, CallsAreTyped, Call
    <3> DEFINE dead == {c \in Callers : HostOf[c] = h}
               busy == {c \in dead : call[c] # NULL}
               loose == {d \in busy : call[d].process \in {"suspended", "running"}
                                      /\ ~call[d].inJob}
    <3>2. left' = left \cup {[process |-> call[c].process, inJob |-> FALSE] : c \in loose}
      BY <1>27 DEF Crash
    <3>3. {[process |-> call[c].process, inJob |-> FALSE] : c \in loose}
            \subseteq [process : ProcessStatus, inJob : BOOLEAN]
      <4> SUFFICES ASSUME NEW d \in loose
                   PROVE  [process |-> call[d].process, inJob |-> FALSE]
                            \in [process : ProcessStatus, inJob : BOOLEAN]
        OBVIOUS
      <4> QED
        BY <3>1
    <3>4. lock' = [lock EXCEPT ![h] = NULL] /\ drives' = drives
      BY <1>27 DEF Crash
    <3> QED
      BY <3>2, <3>3, <3>4 DEF Types, MachineIsTyped
  <2>5. HistoryIsTyped'
    BY <1>27 DEF Crash, Types, HistoryIsTyped, CallsAreTyped, Call, Idle, In,
      IsWriting, work
  <2> QED
    BY <2>1, <2>2, <2>3, <2>4, <2>5 DEF Types
<1>28. CASE UNCHANGED vars
  BY <1>28 DEF vars, work, machine, report, bounds, Types, WorkIsTyped,
    CallsAreTyped, AcceptsAreTyped, OutIsTyped, MachineIsTyped, HistoryIsTyped
<1> QED
  BY <1>1, <1>2, <1>3, <1>4, <1>5, <1>6, <1>7, <1>8, <1>9, <1>10, <1>11, <1>12,
    <1>13, <1>14, <1>15, <1>16, <1>17, <1>18, <1>19, <1>20, <1>21, <1>22, <1>23,
    <1>24, <1>25, <1>26, <1>27, <1>28
  DEF Next

LEMMA TypesInit == Init => Types
  BY WorkspacesAssumption, BoundsAssumption, NullAssumption
  DEF Init, Types, WorkIsTyped, CallsAreTyped, AcceptsAreTyped, OutIsTyped,
      MachineIsTyped, HistoryIsTyped, EmptyTree, Tree, Piece

LEMMA TypesImplyTypeOK == Types => TypeOK
  BY DEF Types, TypeOK, WorkIsTyped, CallsAreTyped, AcceptsAreTyped, OutIsTyped,
         MachineIsTyped, HistoryIsTyped

----------------------------------------------------------------------------
(* Confinement *)

\* Every step keeps the launcher's hold on lock, letter and process.
LEMMA ConfinedStep ==
  ASSUME Types, Confined, [Next]_vars
  PROVE  Confined'
<1> USE HostsAssumption, WorkspacesAssumption, VersionsAssumption, NullAssumption
<1>1. ASSUME NEW c \in Callers, NEW w \in Workspaces, NEW v \in Versions,
             Edit(c, w, v)
      PROVE  Confined'
  <2>1. LeftAreSuspended'
    BY <1>1 DEF Edit, Confined, LeftAreSuspended, machine, report
  <2>2. ProcessesFollow'
    BY <1>1 DEF Edit, ProcessesFollow, Confined, Types, CallsAreTyped, Call,
      Disturbed, On, MixedBy, IsWriting, machine, report
  <2>3. LocksAreHeld'
    BY <1>1 DEF Edit, LocksAreHeld, Confined, Types, CallsAreTyped, MachineIsTyped,
      Call, Under, IsUnder, At, Disturbed, On, MixedBy, IsWriting, machine, report
  <2>4. DrivesAreHeld'
    BY <1>1 DEF Edit, DrivesAreHeld, Confined, ProcessesFollow, Types,
      CallsAreTyped, MachineIsTyped, Call, Under, IsUnder, At, Disturbed, On,
      MixedBy, IsWriting, machine, report
  <2> QED
    BY <2>1, <2>2, <2>3, <2>4 DEF Confined
<1>2. ASSUME NEW c \in Callers, NEW w \in Workspaces, BeginBuild(c, w)
      PROVE  Confined'
  <2>1. LeftAreSuspended'
    BY <1>2 DEF BeginBuild, Confined, LeftAreSuspended, work, machine, report
  <2>2. ProcessesFollow'
    BY <1>2 DEF BeginBuild, ProcessesFollow, Confined, Types, CallsAreTyped, Call,
      On, Disturbed, MixedBy, IsWriting, Prepared, work, machine, report
  <2>3. LocksAreHeld'
    BY <1>2 DEF BeginBuild, LocksAreHeld, Confined, Types, CallsAreTyped,
      MachineIsTyped, Call, Under, IsUnder, At, On, Disturbed, MixedBy, IsWriting,
      Prepared, work, machine, report
  <2>4. DrivesAreHeld'
    BY <1>2 DEF BeginBuild, DrivesAreHeld, Confined, ProcessesFollow, Types,
      CallsAreTyped, MachineIsTyped, Call, Under, IsUnder, At, On, Disturbed,
      MixedBy, IsWriting, Prepared, work, machine, report
  <2> QED
    BY <2>1, <2>2, <2>3, <2>4 DEF Confined
<1>3. ASSUME NEW c \in Callers, WritePlan(c)
      PROVE  Confined'
  <2>1. LeftAreSuspended'
    BY <1>3 DEF WritePlan, Confined, LeftAreSuspended, Goto, machine, report, bounds
  <2>2. ProcessesFollow'
    BY <1>3 DEF WritePlan, ProcessesFollow, Confined, Types, CallsAreTyped, Call,
      Goto, At, machine, report, bounds
  <2>3. LocksAreHeld'
    BY <1>3 DEF WritePlan, LocksAreHeld, Confined, Types, CallsAreTyped,
      MachineIsTyped, Call, Under, IsUnder, At, Goto, machine, report, bounds
  <2>4. DrivesAreHeld'
    BY <1>3 DEF WritePlan, DrivesAreHeld, Confined, ProcessesFollow, Types,
      CallsAreTyped, MachineIsTyped, Call, Under, IsUnder, At, Goto, machine,
      report, bounds
  <2> QED
    BY <2>1, <2>2, <2>3, <2>4 DEF Confined
<1>4. ASSUME NEW c \in Callers, CopyDependencies(c)
      PROVE  Confined'
  <2>1. LeftAreSuspended'
    BY <1>4 DEF CopyDependencies, Confined, LeftAreSuspended, Goto, machine, report,
      bounds
  <2>2. ProcessesFollow'
    BY <1>4 DEF CopyDependencies, ProcessesFollow, Confined, Types, CallsAreTyped,
      Call, Goto, At, machine, report, bounds
  <2>3. LocksAreHeld'
    BY <1>4 DEF CopyDependencies, LocksAreHeld, Confined, Types, CallsAreTyped,
      MachineIsTyped, Call, Under, IsUnder, At, Goto, machine, report, bounds
  <2>4. DrivesAreHeld'
    BY <1>4 DEF CopyDependencies, DrivesAreHeld, Confined, ProcessesFollow, Types,
      CallsAreTyped, MachineIsTyped, Call, Under, IsUnder, At, Goto, machine,
      report, bounds
  <2> QED
    BY <2>1, <2>2, <2>3, <2>4 DEF Confined
<1>5. ASSUME NEW c \in Callers, Unavailable(c)
      PROVE  Confined'
  <2>1. LeftAreSuspended'
    BY <1>5 DEF Unavailable, Confined, LeftAreSuspended, Raised, machine, bounds
  <2>2. ProcessesFollow'
    BY <1>5 DEF Unavailable, ProcessesFollow, Confined, Types, CallsAreTyped, Call,
      At, Raised, In, machine, bounds
  <2>3. LocksAreHeld'
    BY <1>5 DEF Unavailable, LocksAreHeld, Confined, Types, CallsAreTyped,
      MachineIsTyped, Call, Under, IsUnder, At, Raised, In, machine, bounds
  <2>4. DrivesAreHeld'
    BY <1>5 DEF Unavailable, DrivesAreHeld, Confined, ProcessesFollow, Types,
      CallsAreTyped, MachineIsTyped, Call, Under, IsUnder, At, Raised, In, machine,
      bounds
  <2> QED
    BY <2>1, <2>2, <2>3, <2>4 DEF Confined
<1>6. ASSUME NEW c \in Callers, TakeLock(c)
      PROVE  Confined'
  <2>1. LeftAreSuspended'
    BY <1>6 DEF TakeLock, Confined, LeftAreSuspended, work, report, bounds
  <2>2. ProcessesFollow'
    BY <1>6 DEF TakeLock, ProcessesFollow, Confined, Types, CallsAreTyped, Call, At,
      work, report, bounds
  <2>3. LocksAreHeld'
    BY <1>6 DEF TakeLock, LocksAreHeld, Confined, Types, CallsAreTyped,
      MachineIsTyped, Call, Under, IsUnder, At, work, report, bounds
  <2>4. DrivesAreHeld'
    BY <1>6 DEF TakeLock, DrivesAreHeld, Confined, ProcessesFollow, Types,
      CallsAreTyped, MachineIsTyped, Call, Under, IsUnder, At, work, report, bounds
  <2> QED
    BY <2>1, <2>2, <2>3, <2>4 DEF Confined
<1>7. ASSUME NEW c \in Callers, MapDrive(c)
      PROVE  Confined'
  <2>1. LeftAreSuspended'
    BY <1>7 DEF MapDrive, Confined, LeftAreSuspended, work, report, bounds
  <2>2. ProcessesFollow'
    BY <1>7 DEF MapDrive, ProcessesFollow, Confined, Types, CallsAreTyped, Call, At,
      work, report, bounds
  <2>3. LocksAreHeld'
    BY <1>7 DEF MapDrive, LocksAreHeld, Confined, Types, CallsAreTyped,
      MachineIsTyped, Call, Under, IsUnder, At, work, report, bounds
  <2>4. DrivesAreHeld'
    BY <1>7 DEF MapDrive, DrivesAreHeld, Confined, ProcessesFollow, Types,
      CallsAreTyped, MachineIsTyped, Call, Under, IsUnder, At, work, report, bounds
  <2> QED
    BY <2>1, <2>2, <2>3, <2>4 DEF Confined
<1>8. ASSUME NEW c \in Callers, NoDrive(c)
      PROVE  Confined'
  <2>1. LeftAreSuspended'
    BY <1>8 DEF NoDrive, Confined, LeftAreSuspended, Goto, work, machine, report,
      bounds
  <2>2. ProcessesFollow'
    BY <1>8 DEF NoDrive, ProcessesFollow, Confined, Types, CallsAreTyped, Call,
      Goto, At, work, machine, report, bounds
  <2>3. LocksAreHeld'
    BY <1>8 DEF NoDrive, LocksAreHeld, Confined, Types, CallsAreTyped,
      MachineIsTyped, Call, Under, IsUnder, At, Goto, work, machine, report, bounds
  <2>4. DrivesAreHeld'
    BY <1>8 DEF NoDrive, DrivesAreHeld, Confined, ProcessesFollow, Types,
      CallsAreTyped, MachineIsTyped, Call, Under, IsUnder, At, Goto, work, machine,
      report, bounds
  <2> QED
    BY <2>1, <2>2, <2>3, <2>4 DEF Confined
<1>9. ASSUME NEW c \in Callers, CreateProcess(c)
      PROVE  Confined'
  <2>1. LeftAreSuspended'
    BY <1>9 DEF CreateProcess, Confined, LeftAreSuspended, Goto, work, machine,
      report, bounds
  <2>2. ProcessesFollow'
    BY <1>9 DEF CreateProcess, ProcessesFollow, Confined, Types, CallsAreTyped,
      Call, Goto, At, work, machine, report, bounds
  <2>3. LocksAreHeld'
    BY <1>9 DEF CreateProcess, LocksAreHeld, Confined, Types, CallsAreTyped,
      MachineIsTyped, Call, Under, IsUnder, At, Goto, work, machine, report, bounds
  <2>4. DrivesAreHeld'
    BY <1>9 DEF CreateProcess, DrivesAreHeld, Confined, ProcessesFollow, Types,
      CallsAreTyped, MachineIsTyped, Call, Under, IsUnder, At, Goto, work, machine,
      report, bounds
  <2> QED
    BY <2>1, <2>2, <2>3, <2>4 DEF Confined
<1>10. ASSUME NEW c \in Callers, AssignJob(c)
      PROVE  Confined'
  <2>1. LeftAreSuspended'
    BY <1>10 DEF AssignJob, Confined, LeftAreSuspended, work, machine, report,
      bounds
  <2>2. ProcessesFollow'
    BY <1>10 DEF AssignJob, ProcessesFollow, Confined, Types, CallsAreTyped, Call,
      At, work, machine, report, bounds
  <2>3. LocksAreHeld'
    BY <1>10 DEF AssignJob, LocksAreHeld, Confined, Types, CallsAreTyped,
      MachineIsTyped, Call, Under, IsUnder, At, work, machine, report, bounds
  <2>4. DrivesAreHeld'
    BY <1>10 DEF AssignJob, DrivesAreHeld, Confined, ProcessesFollow, Types,
      CallsAreTyped, MachineIsTyped, Call, Under, IsUnder, At, work, machine,
      report, bounds
  <2> QED
    BY <2>1, <2>2, <2>3, <2>4 DEF Confined
<1>11. ASSUME NEW c \in Callers, ResumeThread(c)
      PROVE  Confined'
  <2>1. LeftAreSuspended'
    BY <1>11 DEF ResumeThread, Confined, LeftAreSuspended, work, machine, report,
      bounds
  <2>2. ProcessesFollow'
    BY <1>11 DEF ResumeThread, ProcessesFollow, Confined, Types, CallsAreTyped,
      Call, At, work, machine, report, bounds
  <2>3. LocksAreHeld'
    BY <1>11 DEF ResumeThread, LocksAreHeld, Confined, Types, CallsAreTyped,
      MachineIsTyped, Call, Under, IsUnder, At, work, machine, report, bounds
  <2>4. DrivesAreHeld'
    BY <1>11 DEF ResumeThread, DrivesAreHeld, Confined, ProcessesFollow, Types,
      CallsAreTyped, MachineIsTyped, Call, Under, IsUnder, At, work, machine,
      report, bounds
  <2> QED
    BY <2>1, <2>2, <2>3, <2>4 DEF Confined
<1>12. ASSUME NEW c \in Callers, ProcessExits(c)
      PROVE  Confined'
  <2>1. LeftAreSuspended'
    BY <1>12 DEF ProcessExits, Confined, LeftAreSuspended, machine, report, bounds
  <2>2. ProcessesFollow'
    BY <1>12 DEF ProcessExits, ProcessesFollow, Confined, Types, CallsAreTyped,
      Call, At, Bundles, machine, report, bounds
  <2>3. LocksAreHeld'
    BY <1>12 DEF ProcessExits, LocksAreHeld, Confined, Types, CallsAreTyped,
      MachineIsTyped, Call, Under, IsUnder, At, Bundles, machine, report, bounds
  <2>4. DrivesAreHeld'
    BY <1>12 DEF ProcessExits, DrivesAreHeld, Confined, ProcessesFollow, Types,
      CallsAreTyped, MachineIsTyped, Call, Under, IsUnder, At, Bundles, machine,
      report, bounds
  <2> QED
    BY <2>1, <2>2, <2>3, <2>4 DEF Confined
<1>13. ASSUME NEW c \in Callers, Timeout(c)
      PROVE  Confined'
  <2>1. LeftAreSuspended'
    BY <1>13 DEF Timeout, Confined, LeftAreSuspended, machine, report, bounds
  <2>2. ProcessesFollow'
    BY <1>13 DEF Timeout, ProcessesFollow, Confined, Types, CallsAreTyped, Call, At,
      Bundles, machine, report, bounds
  <2>3. LocksAreHeld'
    BY <1>13 DEF Timeout, LocksAreHeld, Confined, Types, CallsAreTyped,
      MachineIsTyped, Call, Under, IsUnder, At, Bundles, machine, report, bounds
  <2>4. DrivesAreHeld'
    BY <1>13 DEF Timeout, DrivesAreHeld, Confined, ProcessesFollow, Types,
      CallsAreTyped, MachineIsTyped, Call, Under, IsUnder, At, Bundles, machine,
      report, bounds
  <2> QED
    BY <2>1, <2>2, <2>3, <2>4 DEF Confined
<1>14. ASSUME NEW c \in Callers, LauncherFails(c)
      PROVE  Confined'
  <2>1. LeftAreSuspended'
    BY <1>14 DEF LauncherFails, Confined, LeftAreSuspended, Raised, Unmap, work,
      bounds
  <2>2. ProcessesFollow'
    BY <1>14 DEF LauncherFails, ProcessesFollow, Confined, Types, CallsAreTyped,
      Call, At, Raised, In, Unmap, work, bounds
  <2>3. LocksAreHeld'
    BY <1>14 DEF LauncherFails, LocksAreHeld, Confined, Types, CallsAreTyped,
      MachineIsTyped, Call, Under, IsUnder, At, Raised, In, Unmap, work, bounds
  <2>4. DrivesAreHeld'
    BY <1>14 DEF LauncherFails, DrivesAreHeld, Confined, ProcessesFollow, Types,
      CallsAreTyped, MachineIsTyped, Call, Under, IsUnder, At, Raised, In, Unmap,
      work, bounds
  <2> QED
    BY <2>1, <2>2, <2>3, <2>4 DEF Confined
<1>15. ASSUME NEW c \in Callers, LauncherReturns(c)
      PROVE  Confined'
  <2>1. LeftAreSuspended'
    BY <1>15 DEF LauncherReturns, Confined, LeftAreSuspended, Goto, Unmap, work,
      report, bounds
  <2>2. ProcessesFollow'
    BY <1>15 DEF LauncherReturns, ProcessesFollow, Confined, Types, CallsAreTyped,
      Call, Goto, At, Unmap, work, report, bounds
  <2>3. LocksAreHeld'
    BY <1>15 DEF LauncherReturns, LocksAreHeld, Confined, Types, CallsAreTyped,
      MachineIsTyped, Call, Under, IsUnder, At, Goto, Unmap, work, report, bounds
  <2>4. DrivesAreHeld'
    BY <1>15 DEF LauncherReturns, DrivesAreHeld, Confined, ProcessesFollow, Types,
      CallsAreTyped, MachineIsTyped, Call, Under, IsUnder, At, Goto, Unmap, work,
      report, bounds
  <2> QED
    BY <2>1, <2>2, <2>3, <2>4 DEF Confined
<1>16. ASSUME NEW c \in Callers, ReadBundle(c)
      PROVE  Confined'
  <2>1. LeftAreSuspended'
    BY <1>16 DEF ReadBundle, Confined, LeftAreSuspended, work, machine, report,
      bounds
  <2>2. ProcessesFollow'
    BY <1>16 DEF ReadBundle, ProcessesFollow, Confined, Types, CallsAreTyped, Call,
      At, work, machine, report, bounds
  <2>3. LocksAreHeld'
    BY <1>16 DEF ReadBundle, LocksAreHeld, Confined, Types, CallsAreTyped,
      MachineIsTyped, Call, Under, IsUnder, At, work, machine, report, bounds
  <2>4. DrivesAreHeld'
    BY <1>16 DEF ReadBundle, DrivesAreHeld, Confined, ProcessesFollow, Types,
      CallsAreTyped, MachineIsTyped, Call, Under, IsUnder, At, work, machine,
      report, bounds
  <2> QED
    BY <2>1, <2>2, <2>3, <2>4 DEF Confined
<1>17. ASSUME NEW c \in Callers, WriteOut(c)
      PROVE  Confined'
  <2>1. LeftAreSuspended'
    BY <1>17 DEF WriteOut, Confined, LeftAreSuspended, Goto, work, machine, bounds
  <2>2. ProcessesFollow'
    BY <1>17 DEF WriteOut, ProcessesFollow, Confined, Types, CallsAreTyped, Call,
      Goto, Compared, In, IsWriting, work, machine, bounds
  <2>3. LocksAreHeld'
    BY <1>17 DEF WriteOut, LocksAreHeld, Confined, Types, CallsAreTyped,
      MachineIsTyped, Call, Under, IsUnder, At, Goto, Compared, In, IsWriting, work,
      machine, bounds
  <2>4. DrivesAreHeld'
    BY <1>17 DEF WriteOut, DrivesAreHeld, Confined, ProcessesFollow, Types,
      CallsAreTyped, MachineIsTyped, Call, Under, IsUnder, At, Goto, Compared, In,
      IsWriting, work, machine, bounds
  <2> QED
    BY <2>1, <2>2, <2>3, <2>4 DEF Confined
<1>18. ASSUME NEW h \in Hosts, Crash(h)
      PROVE  Confined'
  <2>1. ProcessesFollow'
    BY <1>18 DEF Crash, ProcessesFollow, Confined, Types, CallsAreTyped, Call, Idle,
      In, IsWriting, work
  <2>2. LocksAreHeld'
    BY <1>18 DEF Crash, LocksAreHeld, Confined, Types, CallsAreTyped,
      MachineIsTyped, Call, Under, IsUnder, At, Idle, In, IsWriting, work
  <2>3. DrivesAreHeld'
    BY <1>18 DEF Crash, DrivesAreHeld, Confined, ProcessesFollow, Types,
      CallsAreTyped, MachineIsTyped, Call, Under, IsUnder, At, Idle, In, IsWriting,
      work
  <2>4. LeftAreSuspended'
    BY <1>18 DEF Crash, LeftAreSuspended, Confined, ProcessesFollow, Idle, In,
      IsWriting, work
  <2> QED
    BY <2>1, <2>2, <2>3, <2>4 DEF Confined
<1>19. CASE UNCHANGED <<call, drives, left, lock>>
  BY <1>19 DEF Confined, ProcessesFollow, LocksAreHeld, DrivesAreHeld,
    LeftAreSuspended, Under, IsUnder, At
<1> QED
  BY <1>1, <1>2, <1>3, <1>4, <1>5, <1>6, <1>7, <1>8, <1>9, <1>10, <1>11, <1>12,
    <1>13, <1>14, <1>15, <1>16, <1>17, <1>18, <1>19
  DEF Next, vars, BeginAcceptance, RenderWork, InitialRender, LoopRender,
    LoopCompletes, FinalRender, GiveUp, WriteEvidence, WriteLatest, work, machine,
    report, bounds

LEMMA ConfinedInit == Init => Confined
  BY DEF Init, Confined, ProcessesFollow, LocksAreHeld, DrivesAreHeld,
         LeftAreSuspended, IsUnder, At

\* Every table of the build, the launcher and the acceptance run keeps its shape,
\* and a build or a run holds at each of its steps what that step needs.
THEOREM TypeCorrect == Spec => [](Types /\ TypeOK)
<1>1. Init => Types
  BY TypesInit
<1>2. Types /\ [Next]_vars => Types'
  BY TypesStep
<1>3. Types => TypeOK
  BY TypesImplyTypeOK
<1> QED
  BY <1>1, <1>2, <1>3, PTL DEF Spec

\* Generated code runs only in its job, under its host's lock and on a letter that
\* leads to its own workspace; a process that outlives its host never starts
\* (run, run_process, _create_process).
THEOREM RunsAreConfined == Spec => []RunsConfined
<1>1. Init => Confined
  BY ConfinedInit
<1>2. Types /\ Confined /\ [Next]_vars => Confined'
  BY ConfinedStep
<1>3. Types /\ Confined => RunsConfined
  BY DEF Types, CallsAreTyped, Confined, ProcessesFollow, LocksAreHeld, DrivesAreHeld,
         LeftAreSuspended, RunsConfined, IsUnder, Under, At
<1> QED
  BY TypeCorrect, <1>1, <1>2, <1>3, PTL DEF Spec

----------------------------------------------------------------------------
(* What the steps of the launcher leave of a build *)

Keeps(c) ==
  /\ call[c] # NULL /\ call'[c] # NULL
  /\ call'[c].ws = call[c].ws /\ call'[c].plan = call[c].plan
  /\ call'[c].bundle = call[c].bundle /\ call'[c].alone = call[c].alone
  /\ \A d \in Callers \ {c} : call'[d] = call[d]
  /\ UNCHANGED <<source, deps, dist, out, accept, evidence, latest, mixed>>

LEMMA TakeLockKeeps ==
  ASSUME Types, NEW c \in Callers, TakeLock(c)
  PROVE  Keeps(c) /\ call[c].at = "ready" /\ call'[c].at = "locked"
<1> DEFINE r == [call[c] EXCEPT !.at = "locked",
                                !.mask = {l \in Letters : drives[l] = NULL}]
<1>1. /\ call[c] # NULL /\ call[c] \in Call /\ call[c].at = "ready"
      /\ call' = [call EXCEPT ![c] = r]
  BY DEF TakeLock, At, Types, CallsAreTyped
<1>2. /\ r \in Call /\ r.at = "locked" /\ r.ws = call[c].ws
      /\ r.plan = call[c].plan /\ r.bundle = call[c].bundle /\ r.alone = call[c].alone
  BY <1>1 DEF Call, BuildStep
<1> HIDE DEF r
<1>3. call'[c] = r /\ \A d \in Callers \ {c} : call'[d] = call[d]
  BY <1>1 DEF Types, CallsAreTyped
<1> QED
  BY <1>1, <1>2, <1>3, NullAssumption DEF TakeLock, Keeps, work, report

LEMMA CreateProcessKeeps ==
  ASSUME Types, NEW c \in Callers, CreateProcess(c)
  PROVE  /\ Keeps(c) /\ call[c].at = "mapped" /\ call'[c].at \in {"mapped", "failed"}
<1>1. PICK r \in {[call[c] EXCEPT !.process = "suspended"],
                  [call[c] EXCEPT !.at = "failed"]} :
        call' = [call EXCEPT ![c] = r]
  BY DEF CreateProcess, Goto
<1>2. call[c] # NULL /\ call[c] \in Call /\ call[c].at = "mapped"
  BY DEF CreateProcess, At, Types, CallsAreTyped
<1>3. /\ r \in Call /\ r.at \in {"mapped", "failed"} /\ r.ws = call[c].ws
      /\ r.plan = call[c].plan /\ r.bundle = call[c].bundle /\ r.alone = call[c].alone
  <2>1. CASE r = [call[c] EXCEPT !.process = "suspended"]
    BY <1>2, <2>1 DEF Call, ProcessStatus
  <2>2. CASE r = [call[c] EXCEPT !.at = "failed"]
    BY <1>2, <2>2 DEF Call, BuildStep
  <2> QED
    BY <1>1, <2>1, <2>2
<1>4. call'[c] = r /\ \A d \in Callers \ {c} : call'[d] = call[d]
  BY <1>1 DEF Types, CallsAreTyped
<1> QED
  BY <1>2, <1>3, <1>4, NullAssumption DEF CreateProcess, Keeps, work, report

LEMMA AssignJobKeeps ==
  ASSUME Types, NEW c \in Callers, AssignJob(c)
  PROVE  /\ Keeps(c) /\ call[c].at = "mapped" /\ call'[c].at \in {"mapped", "failed"}
<1>1. PICK r \in {[call[c] EXCEPT !.inJob = TRUE],
                  [call[c] EXCEPT !.at = "failed", !.process = "killed"]} :
        call' = [call EXCEPT ![c] = r]
  BY DEF AssignJob
<1>2. call[c] # NULL /\ call[c] \in Call /\ call[c].at = "mapped"
  BY DEF AssignJob, At, Types, CallsAreTyped
<1>3. /\ r \in Call /\ r.at \in {"mapped", "failed"} /\ r.ws = call[c].ws
      /\ r.plan = call[c].plan /\ r.bundle = call[c].bundle /\ r.alone = call[c].alone
  <2>1. CASE r = [call[c] EXCEPT !.inJob = TRUE]
    BY <1>2, <2>1 DEF Call
  <2>2. CASE r = [call[c] EXCEPT !.at = "failed", !.process = "killed"]
    BY <1>2, <2>2 DEF Call, BuildStep, ProcessStatus
  <2> QED
    BY <1>1, <2>1, <2>2
<1>4. call'[c] = r /\ \A d \in Callers \ {c} : call'[d] = call[d]
  BY <1>1 DEF Types, CallsAreTyped
<1> QED
  BY <1>2, <1>3, <1>4, NullAssumption DEF AssignJob, Keeps, work, report

\* A build begins; it is alone if nobody else works on its workspace, and nobody
\* else there is alone any more.
LEMMA BeginBuildKeeps ==
  ASSUME Types, NEW c \in Callers, NEW w \in Workspaces, BeginBuild(c, w)
  PROVE  /\ call[c] = NULL /\ call'[c] # NULL
         /\ call'[c].at = "planned" /\ call'[c].ws = w /\ call'[c].bundle = NULL
         /\ call'[c].plan = source[w] /\ source[w] \in Versions \ Malformed
         /\ call'[c].alone => \A d \in Callers : call[d] # NULL => call[d].ws # w
         /\ \A d \in Callers \ {c} :
              /\ call'[d] = NULL <=> call[d] = NULL
              /\ call[d] # NULL =>
                   /\ call'[d].at = call[d].at /\ call'[d].ws = call[d].ws
                   /\ call'[d].plan = call[d].plan /\ call'[d].bundle = call[d].bundle
                   /\ call'[d].alone => call[d].alone /\ call[d].ws # w
         /\ UNCHANGED <<source, deps, dist, out, accept, evidence, latest>>
<1> DEFINE r == [at |-> "planned", ws |-> w, plan |-> source[w],
                 alone |-> On(w) = {}, mask |-> {}, drive |-> NULL,
                 process |-> "none", inJob |-> FALSE, bundle |-> NULL]
<1>1. /\ call' = [Disturbed(call, w) EXCEPT ![c] = r] /\ call[c] = NULL
      /\ source[w] \in Versions \ Malformed
      /\ UNCHANGED <<source, deps, dist, out, accept, evidence, latest>>
  BY DEF BeginBuild, Prepared, work, report
<1>2. /\ r.at = "planned" /\ r.ws = w /\ r.plan = source[w] /\ r.bundle = NULL
      /\ r.alone => \A d \in Callers : call[d] # NULL => call[d].ws # w
  BY DEF On
<1>3. r \in Call
  BY <1>1 DEF Call, BuildStep, ProcessStatus
<1> HIDE DEF r
<1>4. call'[c] = r /\ \A d \in Callers \ {c} : call'[d] = Disturbed(call, w)[d]
  BY <1>1, DisturbedIsTyped DEF Types, CallsAreTyped
<1>5. \A d \in Callers \ {c} :
        /\ call'[d] = NULL <=> call[d] = NULL
        /\ call[d] # NULL =>
             /\ call'[d].at = call[d].at /\ call'[d].ws = call[d].ws
             /\ call'[d].plan = call[d].plan /\ call'[d].bundle = call[d].bundle
             /\ call'[d].alone => call[d].alone /\ call[d].ws # w
  BY <1>4, DisturbedIsTyped DEF Types, CallsAreTyped
<1> QED
  BY <1>1, <1>2, <1>3, <1>4, <1>5, NullAssumption

\* A build whose process is killed; what it leaves in dist is unsound.
LEMMA TimeoutKeeps ==
  ASSUME Types, NEW c \in Callers, Timeout(c)
  PROVE  /\ call[c] # NULL /\ call'[c] # NULL /\ call'[c].at = "failed"
         /\ call'[c].ws = call[c].ws /\ call'[c].plan = call[c].plan
         /\ call'[c].bundle = call[c].bundle /\ call'[c].alone = call[c].alone
         /\ \A d \in Callers \ {c} : call'[d] = call[d]
         /\ call[c].ws \in Workspaces
         /\ \A w \in Workspaces \ {call[c].ws} : dist'[w] = dist[w]
         /\ \/ dist'[call[c].ws] = dist[call[c].ws]
            \/ dist'[call[c].ws].version = source[call[c].ws]
         /\ UNCHANGED <<source, deps, out, accept, evidence, latest>>
<1>1. /\ call[c] # NULL /\ call[c] \in Call /\ source[call[c].ws] \in Versions
      /\ UNCHANGED <<source, deps, out, accept, evidence, latest>>
  BY DEF Timeout, At, Types, CallsAreTyped, report
<1>2. call[c].ws \in Workspaces
  BY <1>1 DEF Call
<1> DEFINE r == [call[c] EXCEPT !.process = "killed", !.at = "failed"]
<1>3. call' = [call EXCEPT ![c] = r]
  BY DEF Timeout
<1>4. /\ r \in Call /\ r.at = "failed" /\ r.ws = call[c].ws /\ r.plan = call[c].plan
      /\ r.bundle = call[c].bundle /\ r.alone = call[c].alone
  BY <1>1 DEF Call, BuildStep, ProcessStatus
<1> HIDE DEF r
<1>5. call'[c] = r /\ \A d \in Callers \ {c} : call'[d] = call[d]
  BY <1>3 DEF Types, CallsAreTyped
<1>6. /\ \A w \in Workspaces \ {call[c].ws} : dist'[w] = dist[w]
      /\ \/ dist'[call[c].ws] = dist[call[c].ws]
         \/ dist'[call[c].ws].version = source[call[c].ws]
  <2>1. CASE dist' = dist
    BY <2>1
  <2>2. CASE dist' # dist
    <3>1. PICK b \in Bundles(call[c].ws) :
            dist' = [dist EXCEPT ![call[c].ws] = [b EXCEPT !.sound = FALSE]]
      BY <2>2 DEF Timeout
    <3>2. b \in Bundle /\ b.version = source[call[c].ws]
      BY <1>1, <1>2, BundlesAreOfTheSource DEF Types
    <3> DEFINE unsound == [b EXCEPT !.sound = FALSE]
    <3>3. unsound.version = source[call[c].ws]
      BY <3>2 DEF Bundle
    <3>4. dist' = [dist EXCEPT ![call[c].ws] = unsound]
      BY <3>1
    <3> HIDE DEF unsound
    <3> QED
      BY <1>2, <3>3, <3>4 DEF Types, WorkIsTyped
  <2> QED
    BY <2>1, <2>2
<1> QED
  BY <1>1, <1>2, <1>4, <1>5, <1>6, NullAssumption

\* A build reads its bundle.
LEMMA ReadBundleKeeps ==
  ASSUME Types, NEW c \in Callers, ReadBundle(c)
  PROVE  /\ call[c] # NULL /\ call'[c] # NULL
         /\ call[c].at = "collecting" /\ call'[c].at = "app"
         /\ call'[c].ws = call[c].ws /\ call'[c].plan = call[c].plan
         /\ call'[c].bundle = dist[call[c].ws] /\ call'[c].alone = call[c].alone
         /\ \A d \in Callers \ {c} : call'[d] = call[d]
         /\ UNCHANGED <<source, deps, dist, out, accept, evidence, latest>>
<1> DEFINE r == [call[c] EXCEPT !.at = "app", !.bundle = dist[call[c].ws]]
<1>1. /\ call[c] # NULL /\ call[c] \in Call /\ call[c].at = "collecting"
      /\ call' = [call EXCEPT ![c] = r]
      /\ UNCHANGED <<source, deps, dist, out, accept, evidence, latest>>
  BY DEF ReadBundle, At, Types, CallsAreTyped, work, report
<1>2. dist[call[c].ws] \in Bundle \cup {NULL}
  BY <1>1 DEF Call, Types, WorkIsTyped
<1>3. /\ r \in Call /\ r.at = "app" /\ r.ws = call[c].ws /\ r.plan = call[c].plan
      /\ r.bundle = dist[call[c].ws] /\ r.alone = call[c].alone
  BY <1>1, <1>2 DEF Call, BuildStep
<1> HIDE DEF r
<1>4. call'[c] = r /\ \A d \in Callers \ {c} : call'[d] = call[d]
  BY <1>1 DEF Types, CallsAreTyped
<1> QED
  BY <1>1, <1>3, <1>4, NullAssumption

----------------------------------------------------------------------------
(* Acceptance *)

\* A build works elsewhere than another caller's acceptance run.
LEMMA BuildsAreApart ==
  ASSUME Types, RunsStandAlone, NEW c \in Callers, call[c] # NULL,
         NEW d \in Callers, accept[d] # NULL, c # d \/ c \notin Acceptors
  PROVE  call[c].ws # accept[d].ws
  BY WorkspacesAssumption
  DEF Types, CallsAreTyped, AcceptsAreTyped, RunsStandAlone, Call, Acceptance

\* A build that returned ends or advances its run, in the run's own workspace.
LEMMA ComparedKeeps ==
  ASSUME Types, NEW c \in Callers, NEW b,
         accept' = accept \/ accept' = Compared(c, b)
  PROVE  /\ \A d \in Callers \ {c} : accept'[d] = accept[d]
         /\ accept'[c] # NULL =>
              /\ accept[c] # NULL /\ accept'[c].ws = accept[c].ws
              /\ accept'[c].first \in {accept[c].first, b}
<1>1. CASE accept' = accept
  BY <1>1
<1>2. CASE accept' # accept
  <2> DEFINE Advances == {[accept[c] EXCEPT !.phase = "second", !.first = b],
                          [accept[c] EXCEPT !.phase = "initial", !.second = b],
                          [accept[c] EXCEPT !.last = b, !.seen = NULL]}
  <2>1. \/ accept' = [accept EXCEPT ![c] = NULL]
        \/ /\ accept[c] # NULL /\ accept[c] \in Acceptance
           /\ \E r \in Advances : accept' = [accept EXCEPT ![c] = r]
    BY <1>2 DEF Compared, In, Types, AcceptsAreTyped
  <2>2. \A d \in Callers \ {c} : accept'[d] = accept[d]
    BY <2>1 DEF Types, AcceptsAreTyped
  <2>3. CASE accept'[c] = NULL
    BY <2>2, <2>3
  <2>4. CASE accept'[c] # NULL
    <3>1. PICK r \in Advances :
            /\ accept[c] # NULL /\ accept[c] \in Acceptance
            /\ accept' = [accept EXCEPT ![c] = r]
      BY <2>1, <2>4 DEF Types, AcceptsAreTyped
    <3>2. accept'[c] = r
      BY <3>1 DEF Types, AcceptsAreTyped
    <3>3. r.ws = accept[c].ws /\ r.first \in {accept[c].first, b}
      BY <3>1 DEF Acceptance
    <3> QED
      BY <2>2, <3>1, <3>2, <3>3
  <2> QED
    BY <2>3, <2>4
<1> QED
  BY <1>1, <1>2

\* Every step keeps what an acceptance run reports true.
LEMMA AcceptedStep ==
  ASSUME Types, Types', Accepted, [Next]_vars
  PROVE  Accepted'
<1> USE HostsAssumption, WorkspacesAssumption, VersionsAssumption, NullAssumption
<1>1. ASSUME NEW c \in Callers, NEW w \in Workspaces, NEW v \in Versions,
             Edit(c, w, v)
      PROVE  Accepted'
  <2>1. BuildsAgree' /\ ReportsAreTrue'
    BY <1>1 DEF Edit, Accepted, BuildsAgree, ReportsAreTrue, machine, report,
      EvidenceOf, IsAccepted
  <2>2. RunsStandAlone'
    BY <1>1, BuildsAreApart DEF Edit, RunsStandAlone, Accepted, Types,
      CallsAreTyped, AcceptsAreTyped, Call, Acceptance, Workspaces, Disturbed, On,
      MixedBy, IsWriting, machine, report
  <2>3. SourcesStand'
    BY <1>1, BuildsAreApart DEF Edit, SourcesStand, Accepted, Types, CallsAreTyped,
      AcceptsAreTyped, Call, Acceptance, RunsStandAlone, IsOf, WorkIsTyped,
      OutIsTyped, Tree, Piece, Workspaces, Disturbed, On, MixedBy, IsWriting,
      machine, report
  <2>4. FirstBuildsAreSound'
    BY <1>1, BuildsAreApart DEF Edit, FirstBuildsAreSound, Accepted, Types,
      CallsAreTyped, AcceptsAreTyped, Call, Acceptance, RunsStandAlone, Compiling,
      Writing, Bundle, WorkIsTyped, Disturbed, On, MixedBy, IsWriting, machine,
      report
  <2> QED
    BY <2>1, <2>2, <2>3, <2>4 DEF Accepted
<1>2. ASSUME NEW c \in Callers, NEW w \in Workspaces, NEW v \in Versions,
             BeginAcceptance(c, w, v)
      PROVE  Accepted'
  <2>1. RunsStandAlone'
    <3>1. /\ accept[c] = NULL /\ c \in Acceptors /\ source[w] = NULL
          /\ source' = [source EXCEPT ![w] = v] /\ call' = call
          /\ accept' = [accept EXCEPT ![c] =
               [phase |-> "first", ws |-> w, first |-> NULL, second |-> NULL,
                last |-> NULL, seen |-> NULL]]
      BY <1>2 DEF BeginAcceptance
    <3>2. accept'[c].ws = w /\ \A d \in Callers \ {c} : accept'[d] = accept[d]
      BY <3>1 DEF Types, AcceptsAreTyped
    <3>3. call[c] = NULL
      BY <3>1 DEF Accepted, RunsStandAlone
    <3>4. \A x \in Workspaces : source[x] \in Versions => x # w /\ source'[x] = source[x]
      BY <3>1 DEF Types, WorkIsTyped
    <3>5. source'[w] = v
      BY <3>1 DEF Types, WorkIsTyped
    <3>6. \A d \in Callers \ {c} : accept[d] # NULL =>
            /\ accept[d].ws \in Workspaces /\ source[accept[d].ws] \in Versions
            /\ accept[d].ws # w
      BY <3>4 DEF Types, AcceptsAreTyped, Acceptance, Workspaces, Accepted, RunsStandAlone
    <3> QED
      BY <3>1, <3>2, <3>3, <3>4, <3>5, <3>6 DEF Accepted, RunsStandAlone
  <2>2. SourcesStand'
    BY <1>2, BuildsAreApart DEF BeginAcceptance, SourcesStand, Accepted, Types,
      CallsAreTyped, AcceptsAreTyped, Call, Acceptance, RunsStandAlone, IsOf,
      WorkIsTyped, OutIsTyped, Tree, Piece, Workspaces, machine, bounds
  <2>3. FirstBuildsAreSound'
    BY <1>2, BuildsAreApart DEF BeginAcceptance, FirstBuildsAreSound, Accepted,
      Types, CallsAreTyped, AcceptsAreTyped, Call, Acceptance, RunsStandAlone,
      Compiling, Writing, Bundle, WorkIsTyped, machine, bounds
  <2>4. BuildsAgree'
    BY <1>2, BuildsAreApart DEF BeginAcceptance, BuildsAgree, Accepted, Types,
      CallsAreTyped, AcceptsAreTyped, Call, Acceptance, FirstBuildsAreSound,
      Writing, machine, bounds
  <2>5. ReportsAreTrue'
    BY <1>2, BuildsAreApart DEF BeginAcceptance, ReportsAreTrue, Accepted, Types,
      CallsAreTyped, AcceptsAreTyped, Call, Acceptance, EvidenceOf, IsAccepted,
      BuildsAgree, machine, bounds
  <2> QED
    BY <2>1, <2>2, <2>3, <2>4, <2>5 DEF Accepted
<1>3. ASSUME NEW c \in Callers, NEW w \in Workspaces, BeginBuild(c, w)
      PROVE  Accepted'
  <2>1. BuildsAgree' /\ ReportsAreTrue'
    BY <1>3 DEF BeginBuild, Accepted, BuildsAgree, ReportsAreTrue, work, machine,
      report, EvidenceOf, IsAccepted
  <2>2. RunsStandAlone'
    BY <1>3, BuildsAreApart DEF BeginBuild, RunsStandAlone, Accepted, Types,
      CallsAreTyped, AcceptsAreTyped, Call, Acceptance, Workspaces, On, Disturbed,
      MixedBy, IsWriting, Prepared, work, machine, report
  <2>3. SourcesStand'
    <3>1. /\ UNCHANGED <<source, dist, out, accept>>
          /\ call'[c] # NULL /\ call'[c].ws = w /\ call'[c].bundle = NULL
          /\ call'[c].plan = source[w]
          /\ \A d \in Callers \ {c} : call'[d] # NULL =>
               /\ call[d] # NULL /\ call'[d].plan = call[d].plan
               /\ call'[d].bundle = call[d].bundle
      BY <1>3, BeginBuildKeeps
    <3>2. accept[c] # NULL => accept[c].ws = w
      BY <1>3 DEF BeginBuild, Accepted, RunsStandAlone
    <3> QED
      BY <3>1, <3>2 DEF Accepted, SourcesStand, IsOf
  <2>4. FirstBuildsAreSound'
    BY <1>3, BeginBuildKeeps
    DEF Accepted, FirstBuildsAreSound, Compiling, Writing
  <2> QED
    BY <2>1, <2>2, <2>3, <2>4 DEF Accepted
<1>4. ASSUME NEW c \in Callers, NEW w \in Workspaces, RenderWork(c, w)
      PROVE  Accepted'
  <2>1. RunsStandAlone'
    BY <1>4, BuildsAreApart DEF RenderWork, RunsStandAlone, Accepted, Types,
      CallsAreTyped, AcceptsAreTyped, Call, Acceptance, Workspaces, In, machine
  <2>2. SourcesStand'
    BY <1>4, BuildsAreApart DEF RenderWork, SourcesStand, Accepted, Types,
      CallsAreTyped, AcceptsAreTyped, Call, Acceptance, RunsStandAlone, IsOf,
      WorkIsTyped, OutIsTyped, Tree, Piece, Workspaces, In, machine
  <2>3. FirstBuildsAreSound'
    BY <1>4, BuildsAreApart DEF RenderWork, FirstBuildsAreSound, Accepted, Types,
      CallsAreTyped, AcceptsAreTyped, Call, Acceptance, RunsStandAlone, Compiling,
      Writing, Bundle, WorkIsTyped, In, machine
  <2>4. BuildsAgree'
    BY <1>4, BuildsAreApart DEF RenderWork, BuildsAgree, Accepted, Types,
      CallsAreTyped, AcceptsAreTyped, Call, Acceptance, FirstBuildsAreSound,
      Writing, In, machine
  <2>5. ReportsAreTrue'
    BY <1>4, BuildsAreApart DEF RenderWork, ReportsAreTrue, Accepted, Types,
      CallsAreTyped, AcceptsAreTyped, Call, Acceptance, EvidenceOf, IsAccepted,
      BuildsAgree, In, machine
  <2> QED
    BY <2>1, <2>2, <2>3, <2>4, <2>5 DEF Accepted
<1>5. ASSUME NEW c \in Callers, WritePlan(c)
      PROVE  Accepted'
  <2>1. BuildsAgree' /\ ReportsAreTrue'
    BY <1>5 DEF WritePlan, Accepted, BuildsAgree, ReportsAreTrue, Goto, machine,
      report, bounds, EvidenceOf, IsAccepted
  <2>2. RunsStandAlone'
    BY <1>5, BuildsAreApart DEF WritePlan, RunsStandAlone, Accepted, Types,
      CallsAreTyped, AcceptsAreTyped, Call, Acceptance, Workspaces, Goto, At,
      machine, report, bounds
  <2>3. SourcesStand'
    BY <1>5, BuildsAreApart DEF WritePlan, SourcesStand, Accepted, Types,
      CallsAreTyped, AcceptsAreTyped, Call, Acceptance, RunsStandAlone, IsOf,
      WorkIsTyped, OutIsTyped, Tree, Piece, Workspaces, Goto, At, machine, report,
      bounds
  <2>4. FirstBuildsAreSound'
    BY <1>5, BuildsAreApart DEF WritePlan, FirstBuildsAreSound, Accepted, Types,
      CallsAreTyped, AcceptsAreTyped, Call, Acceptance, RunsStandAlone, Compiling,
      Writing, Bundle, WorkIsTyped, Goto, At, machine, report, bounds
  <2> QED
    BY <2>1, <2>2, <2>3, <2>4 DEF Accepted
<1>6. ASSUME NEW c \in Callers, CopyDependencies(c)
      PROVE  Accepted'
  <2>1. BuildsAgree' /\ ReportsAreTrue'
    BY <1>6 DEF CopyDependencies, Accepted, BuildsAgree, ReportsAreTrue, Goto,
      machine, report, bounds, EvidenceOf, IsAccepted
  <2>2. RunsStandAlone'
    BY <1>6, BuildsAreApart DEF CopyDependencies, RunsStandAlone, Accepted, Types,
      CallsAreTyped, AcceptsAreTyped, Call, Acceptance, Workspaces, Goto, At,
      machine, report, bounds
  <2>3. SourcesStand'
    BY <1>6, BuildsAreApart DEF CopyDependencies, SourcesStand, Accepted, Types,
      CallsAreTyped, AcceptsAreTyped, Call, Acceptance, RunsStandAlone, IsOf,
      WorkIsTyped, OutIsTyped, Tree, Piece, Workspaces, Goto, At, machine, report,
      bounds
  <2>4. FirstBuildsAreSound'
    BY <1>6, BuildsAreApart DEF CopyDependencies, FirstBuildsAreSound, Accepted,
      Types, CallsAreTyped, AcceptsAreTyped, Call, Acceptance, RunsStandAlone,
      Compiling, Writing, Bundle, WorkIsTyped, Goto, At, machine, report, bounds
  <2> QED
    BY <2>1, <2>2, <2>3, <2>4 DEF Accepted
<1>7. ASSUME NEW c \in Callers, Unavailable(c)
      PROVE  Accepted'
  <2>1. RunsStandAlone'
    <3>1. /\ call[c] # NULL /\ call[c] \in Call
          /\ source' \in {source, [source EXCEPT ![call[c].ws] = call[c].plan]}
      BY <1>7 DEF Unavailable, At, Types, CallsAreTyped
    <3>2. \A w \in Workspaces : source[w] \in Versions => source'[w] \in Versions
      BY <3>1 DEF Call, Types, WorkIsTyped
    <3>3. /\ call' = [call EXCEPT ![c] = NULL]
          /\ \/ accept' = accept
             \/ accept' = [accept EXCEPT ![c] = NULL]
      BY <1>7 DEF Unavailable, Raised
    <3>4. \A d \in Callers :
            /\ accept'[d] # NULL => accept'[d] = accept[d]
            /\ call'[d] # NULL => call'[d] = call[d] /\ accept'[d] = accept[d]
      BY <3>3 DEF Types, CallsAreTyped, AcceptsAreTyped
    <3>5. \A d \in Callers : accept[d] # NULL => accept[d].ws \in Workspaces
      BY DEF Types, AcceptsAreTyped, Acceptance, Workspaces
    <3> QED
      BY <3>2, <3>4, <3>5 DEF Accepted, RunsStandAlone
  <2>2. SourcesStand'
    BY <1>7, BuildsAreApart DEF Unavailable, SourcesStand, Accepted, Types,
      CallsAreTyped, AcceptsAreTyped, Call, Acceptance, RunsStandAlone, IsOf,
      WorkIsTyped, OutIsTyped, Tree, Piece, Workspaces, At, Raised, In, machine,
      bounds
  <2>3. FirstBuildsAreSound'
    BY <1>7, BuildsAreApart DEF Unavailable, FirstBuildsAreSound, Accepted, Types,
      CallsAreTyped, AcceptsAreTyped, Call, Acceptance, RunsStandAlone, Compiling,
      Writing, Bundle, WorkIsTyped, At, Raised, In, machine, bounds
  <2>4. BuildsAgree'
    BY <1>7, BuildsAreApart DEF Unavailable, BuildsAgree, Accepted, Types,
      CallsAreTyped, AcceptsAreTyped, Call, Acceptance, FirstBuildsAreSound,
      Writing, At, Raised, In, machine, bounds
  <2>5. ReportsAreTrue'
    BY <1>7, BuildsAreApart DEF Unavailable, ReportsAreTrue, Accepted, Types,
      CallsAreTyped, AcceptsAreTyped, Call, Acceptance, EvidenceOf, IsAccepted,
      BuildsAgree, At, Raised, In, machine, bounds
  <2> QED
    BY <2>1, <2>2, <2>3, <2>4, <2>5 DEF Accepted
<1>8. ASSUME NEW c \in Callers, TakeLock(c)
      PROVE  Accepted'
  <2>1. Keeps(c) /\ call[c].at = "ready" /\ call'[c].at = "locked"
    BY <1>8, TakeLockKeeps
  <2>2. BuildsAgree' /\ ReportsAreTrue'
    BY <1>8 DEF TakeLock, Accepted, BuildsAgree, ReportsAreTrue, work, report,
      bounds, EvidenceOf, IsAccepted
  <2>3. RunsStandAlone'
    BY <2>1, BuildsAreApart DEF RunsStandAlone, Accepted, Types, CallsAreTyped,
      AcceptsAreTyped, Call, Acceptance, Workspaces, Keeps
  <2>4. SourcesStand'
    BY <2>1, BuildsAreApart DEF SourcesStand, Accepted, Types, CallsAreTyped,
      AcceptsAreTyped, Call, Acceptance, RunsStandAlone, IsOf, WorkIsTyped,
      OutIsTyped, Tree, Piece, Workspaces, Keeps
  <2>5. FirstBuildsAreSound'
    BY <2>1, BuildsAreApart DEF FirstBuildsAreSound, Accepted, Types, CallsAreTyped,
      AcceptsAreTyped, Call, Acceptance, RunsStandAlone, Compiling, Writing, Bundle,
      WorkIsTyped, Keeps
  <2> QED
    BY <2>1, <2>2, <2>3, <2>4, <2>5 DEF Accepted
<1>9. ASSUME NEW c \in Callers, MapDrive(c)
      PROVE  Accepted'
  <2>1. BuildsAgree' /\ ReportsAreTrue'
    BY <1>9 DEF MapDrive, Accepted, BuildsAgree, ReportsAreTrue, work, report,
      bounds, EvidenceOf, IsAccepted
  <2>2. RunsStandAlone'
    BY <1>9, BuildsAreApart DEF MapDrive, RunsStandAlone, Accepted, Types,
      CallsAreTyped, AcceptsAreTyped, Call, Acceptance, Workspaces, At, work,
      report, bounds
  <2>3. SourcesStand'
    BY <1>9, BuildsAreApart DEF MapDrive, SourcesStand, Accepted, Types,
      CallsAreTyped, AcceptsAreTyped, Call, Acceptance, RunsStandAlone, IsOf,
      WorkIsTyped, OutIsTyped, Tree, Piece, Workspaces, At, work, report, bounds
  <2>4. FirstBuildsAreSound'
    BY <1>9, BuildsAreApart DEF MapDrive, FirstBuildsAreSound, Accepted, Types,
      CallsAreTyped, AcceptsAreTyped, Call, Acceptance, RunsStandAlone, Compiling,
      Writing, Bundle, WorkIsTyped, At, work, report, bounds
  <2> QED
    BY <2>1, <2>2, <2>3, <2>4 DEF Accepted
<1>10. ASSUME NEW c \in Callers, NoDrive(c)
      PROVE  Accepted'
  <2>1. BuildsAgree' /\ ReportsAreTrue'
    BY <1>10 DEF NoDrive, Accepted, BuildsAgree, ReportsAreTrue, Goto, work,
      machine, report, bounds, EvidenceOf, IsAccepted
  <2>2. RunsStandAlone'
    BY <1>10, BuildsAreApart DEF NoDrive, RunsStandAlone, Accepted, Types,
      CallsAreTyped, AcceptsAreTyped, Call, Acceptance, Workspaces, Goto, At, work,
      machine, report, bounds
  <2>3. SourcesStand'
    BY <1>10, BuildsAreApart DEF NoDrive, SourcesStand, Accepted, Types,
      CallsAreTyped, AcceptsAreTyped, Call, Acceptance, RunsStandAlone, IsOf,
      WorkIsTyped, OutIsTyped, Tree, Piece, Workspaces, Goto, At, work, machine,
      report, bounds
  <2>4. FirstBuildsAreSound'
    BY <1>10, BuildsAreApart DEF NoDrive, FirstBuildsAreSound, Accepted, Types,
      CallsAreTyped, AcceptsAreTyped, Call, Acceptance, RunsStandAlone, Compiling,
      Writing, Bundle, WorkIsTyped, Goto, At, work, machine, report, bounds
  <2> QED
    BY <2>1, <2>2, <2>3, <2>4 DEF Accepted
<1>11. ASSUME NEW c \in Callers, CreateProcess(c)
      PROVE  Accepted'
  <2>1. Keeps(c) /\ call[c].at = "mapped" /\ call'[c].at \in {"mapped", "failed"}
    BY <1>11, CreateProcessKeeps
  <2>2. BuildsAgree' /\ ReportsAreTrue'
    BY <1>11 DEF CreateProcess, Accepted, BuildsAgree, ReportsAreTrue, Goto, work,
      machine, report, bounds, EvidenceOf, IsAccepted
  <2>3. RunsStandAlone'
    BY <2>1, BuildsAreApart DEF RunsStandAlone, Accepted, Types, CallsAreTyped,
      AcceptsAreTyped, Call, Acceptance, Workspaces, Keeps
  <2>4. SourcesStand'
    BY <2>1, BuildsAreApart DEF SourcesStand, Accepted, Types, CallsAreTyped,
      AcceptsAreTyped, Call, Acceptance, RunsStandAlone, IsOf, WorkIsTyped,
      OutIsTyped, Tree, Piece, Workspaces, Keeps
  <2>5. FirstBuildsAreSound'
    BY <2>1, BuildsAreApart DEF FirstBuildsAreSound, Accepted, Types, CallsAreTyped,
      AcceptsAreTyped, Call, Acceptance, RunsStandAlone, Compiling, Writing, Bundle,
      WorkIsTyped, Keeps
  <2> QED
    BY <2>1, <2>2, <2>3, <2>4, <2>5 DEF Accepted
<1>12. ASSUME NEW c \in Callers, AssignJob(c)
      PROVE  Accepted'
  <2>1. Keeps(c) /\ call[c].at = "mapped" /\ call'[c].at \in {"mapped", "failed"}
    BY <1>12, AssignJobKeeps
  <2>2. BuildsAgree' /\ ReportsAreTrue'
    BY <1>12 DEF AssignJob, Accepted, BuildsAgree, ReportsAreTrue, work, machine,
      report, bounds, EvidenceOf, IsAccepted
  <2>3. RunsStandAlone'
    BY <2>1, BuildsAreApart DEF RunsStandAlone, Accepted, Types, CallsAreTyped,
      AcceptsAreTyped, Call, Acceptance, Workspaces, Keeps
  <2>4. SourcesStand'
    BY <2>1, BuildsAreApart DEF SourcesStand, Accepted, Types, CallsAreTyped,
      AcceptsAreTyped, Call, Acceptance, RunsStandAlone, IsOf, WorkIsTyped,
      OutIsTyped, Tree, Piece, Workspaces, Keeps
  <2>5. FirstBuildsAreSound'
    BY <2>1, BuildsAreApart DEF FirstBuildsAreSound, Accepted, Types, CallsAreTyped,
      AcceptsAreTyped, Call, Acceptance, RunsStandAlone, Compiling, Writing, Bundle,
      WorkIsTyped, Keeps
  <2> QED
    BY <2>1, <2>2, <2>3, <2>4, <2>5 DEF Accepted
<1>13. ASSUME NEW c \in Callers, ResumeThread(c)
      PROVE  Accepted'
  <2>1. BuildsAgree' /\ ReportsAreTrue'
    BY <1>13 DEF ResumeThread, Accepted, BuildsAgree, ReportsAreTrue, work, machine,
      report, bounds, EvidenceOf, IsAccepted
  <2>2. RunsStandAlone'
    BY <1>13, BuildsAreApart DEF ResumeThread, RunsStandAlone, Accepted, Types,
      CallsAreTyped, AcceptsAreTyped, Call, Acceptance, Workspaces, At, work,
      machine, report, bounds
  <2>3. SourcesStand'
    BY <1>13, BuildsAreApart DEF ResumeThread, SourcesStand, Accepted, Types,
      CallsAreTyped, AcceptsAreTyped, Call, Acceptance, RunsStandAlone, IsOf,
      WorkIsTyped, OutIsTyped, Tree, Piece, Workspaces, At, work, machine, report,
      bounds
  <2>4. FirstBuildsAreSound'
    BY <1>13, BuildsAreApart DEF ResumeThread, FirstBuildsAreSound, Accepted, Types,
      CallsAreTyped, AcceptsAreTyped, Call, Acceptance, RunsStandAlone, Compiling,
      Writing, Bundle, WorkIsTyped, At, work, machine, report, bounds
  <2> QED
    BY <2>1, <2>2, <2>3, <2>4 DEF Accepted
<1>14. ASSUME NEW c \in Callers, ProcessExits(c)
      PROVE  Accepted'
  <2>1. BuildsAgree' /\ ReportsAreTrue'
    BY <1>14 DEF ProcessExits, Accepted, BuildsAgree, ReportsAreTrue, machine,
      report, bounds, EvidenceOf, IsAccepted
  <2>2. RunsStandAlone'
    BY <1>14, BuildsAreApart DEF ProcessExits, RunsStandAlone, Accepted, Types,
      CallsAreTyped, AcceptsAreTyped, Call, Acceptance, Workspaces, At, Bundles,
      machine, report, bounds
  <2>3. SourcesStand'
    BY <1>14, BuildsAreApart DEF ProcessExits, SourcesStand, Accepted, Types,
      CallsAreTyped, AcceptsAreTyped, Call, Acceptance, RunsStandAlone, IsOf,
      WorkIsTyped, OutIsTyped, Tree, Piece, Workspaces, At, Bundles, machine,
      report, bounds
  <2>4. FirstBuildsAreSound'
    BY <1>14, BuildsAreApart DEF ProcessExits, FirstBuildsAreSound, Accepted, Types,
      CallsAreTyped, AcceptsAreTyped, Call, Acceptance, RunsStandAlone, Compiling,
      Writing, Bundle, WorkIsTyped, At, Bundles, machine, report, bounds
  <2> QED
    BY <2>1, <2>2, <2>3, <2>4 DEF Accepted
<1>15. ASSUME NEW c \in Callers, Timeout(c)
      PROVE  Accepted'
  <2>1. BuildsAgree' /\ ReportsAreTrue'
    BY <1>15 DEF Timeout, Accepted, BuildsAgree, ReportsAreTrue, machine, report,
      bounds, EvidenceOf, IsAccepted
  <2>2. RunsStandAlone'
    BY <1>15, BuildsAreApart DEF Timeout, RunsStandAlone, Accepted, Types,
      CallsAreTyped, AcceptsAreTyped, Call, Acceptance, Workspaces, At, Bundles,
      machine, report, bounds
  <2>3. SourcesStand'
    <3>1. source[call[c].ws] \in Versions /\ accept' = accept /\ call[c] # NULL
      BY <1>15, TimeoutKeeps DEF Types, CallsAreTyped
    <3>2. \A w \in Workspaces : source'[w] = NULL => dist'[w] = NULL /\ out'[w]["app"] = NULL
      BY <1>15, <3>1, TimeoutKeeps, NullAssumption DEF Accepted, SourcesStand
    <3>3. ASSUME NEW d \in Callers, accept[d] # NULL
          PROVE  IsOf(dist'[accept[d].ws], source[accept[d].ws])
      <4>1. accept[d].ws \in Workspaces /\ IsOf(dist[accept[d].ws], source[accept[d].ws])
        BY <3>3 DEF Accepted, SourcesStand, Types, AcceptsAreTyped, Acceptance, Workspaces
      <4> QED
        BY <1>15, <4>1, TimeoutKeeps DEF IsOf
    <3> QED
      BY <1>15, <3>1, <3>2, <3>3, TimeoutKeeps DEF Accepted, SourcesStand, IsOf
  <2>4. FirstBuildsAreSound'
    BY <1>15, TimeoutKeeps, BuildsAreApart
    DEF Accepted, FirstBuildsAreSound, RunsStandAlone, Compiling, Writing,
        Types, CallsAreTyped, Call
  <2> QED
    BY <2>1, <2>2, <2>3, <2>4 DEF Accepted
<1>16. ASSUME NEW c \in Callers, LauncherFails(c)
      PROVE  Accepted'
  <2>1. RunsStandAlone'
    BY <1>16, BuildsAreApart DEF LauncherFails, RunsStandAlone, Accepted, Types,
      CallsAreTyped, AcceptsAreTyped, Call, Acceptance, Workspaces, At, Raised, In,
      Unmap, work, bounds
  <2>2. SourcesStand'
    BY <1>16, BuildsAreApart DEF LauncherFails, SourcesStand, Accepted, Types,
      CallsAreTyped, AcceptsAreTyped, Call, Acceptance, RunsStandAlone, IsOf,
      WorkIsTyped, OutIsTyped, Tree, Piece, Workspaces, At, Raised, In, Unmap, work,
      bounds
  <2>3. FirstBuildsAreSound'
    BY <1>16, BuildsAreApart DEF LauncherFails, FirstBuildsAreSound, Accepted,
      Types, CallsAreTyped, AcceptsAreTyped, Call, Acceptance, RunsStandAlone,
      Compiling, Writing, Bundle, WorkIsTyped, At, Raised, In, Unmap, work, bounds
  <2>4. BuildsAgree'
    BY <1>16, BuildsAreApart DEF LauncherFails, BuildsAgree, Accepted, Types,
      CallsAreTyped, AcceptsAreTyped, Call, Acceptance, FirstBuildsAreSound,
      Writing, At, Raised, In, Unmap, work, bounds
  <2>5. ReportsAreTrue'
    BY <1>16, BuildsAreApart DEF LauncherFails, ReportsAreTrue, Accepted, Types,
      CallsAreTyped, AcceptsAreTyped, Call, Acceptance, EvidenceOf, IsAccepted,
      BuildsAgree, At, Raised, In, Unmap, work, bounds
  <2> QED
    BY <2>1, <2>2, <2>3, <2>4, <2>5 DEF Accepted
<1>17. ASSUME NEW c \in Callers, LauncherReturns(c)
      PROVE  Accepted'
  <2>1. BuildsAgree' /\ ReportsAreTrue'
    BY <1>17 DEF LauncherReturns, Accepted, BuildsAgree, ReportsAreTrue, Goto,
      Unmap, work, report, bounds, EvidenceOf, IsAccepted
  <2>2. RunsStandAlone'
    BY <1>17, BuildsAreApart DEF LauncherReturns, RunsStandAlone, Accepted, Types,
      CallsAreTyped, AcceptsAreTyped, Call, Acceptance, Workspaces, Goto, At, Unmap,
      work, report, bounds
  <2>3. SourcesStand'
    BY <1>17, BuildsAreApart DEF LauncherReturns, SourcesStand, Accepted, Types,
      CallsAreTyped, AcceptsAreTyped, Call, Acceptance, RunsStandAlone, IsOf,
      WorkIsTyped, OutIsTyped, Tree, Piece, Workspaces, Goto, At, Unmap, work,
      report, bounds
  <2>4. FirstBuildsAreSound'
    BY <1>17, BuildsAreApart DEF LauncherReturns, FirstBuildsAreSound, Accepted,
      Types, CallsAreTyped, AcceptsAreTyped, Call, Acceptance, RunsStandAlone,
      Compiling, Writing, Bundle, WorkIsTyped, Goto, At, Unmap, work, report, bounds
  <2> QED
    BY <2>1, <2>2, <2>3, <2>4 DEF Accepted
<1>18. ASSUME NEW c \in Callers, ReadBundle(c)
      PROVE  Accepted'
  <2>1. BuildsAgree' /\ ReportsAreTrue'
    BY <1>18 DEF ReadBundle, Accepted, BuildsAgree, ReportsAreTrue, work, machine,
      report, bounds, EvidenceOf, IsAccepted
  <2>2. RunsStandAlone'
    BY <1>18, BuildsAreApart DEF ReadBundle, RunsStandAlone, Accepted, Types,
      CallsAreTyped, AcceptsAreTyped, Call, Acceptance, Workspaces, At, work,
      machine, report, bounds
  <2>3. SourcesStand'
    BY <1>18, ReadBundleKeeps
    DEF Accepted, SourcesStand, RunsStandAlone, IsOf
  <2>4. FirstBuildsAreSound'
    BY <1>18, ReadBundleKeeps
    DEF Accepted, FirstBuildsAreSound, Compiling, Writing
  <2> QED
    BY <2>1, <2>2, <2>3, <2>4 DEF Accepted
<1>19. ASSUME NEW c \in Callers, WriteOut(c)
      PROVE  Accepted'
  <2>1. RunsStandAlone'
    <3>1. /\ \A d \in Callers \ {c} : accept'[d] = accept[d]
          /\ accept'[c] # NULL => accept[c] # NULL /\ accept'[c].ws = accept[c].ws
      BY <1>19, ComparedKeeps DEF WriteOut
    <3>2. /\ call[c] # NULL /\ call[c] \in Call /\ source' = source
          /\ \/ /\ call'[c] # NULL /\ call'[c].ws = call[c].ws
                /\ accept' = accept
             \/ call'[c] = NULL
          /\ \A d \in Callers \ {c} : call'[d] = call[d]
      <4>1. call[c] # NULL /\ call[c] \in Call /\ source' = source
        BY <1>19 DEF WriteOut, IsWriting, work, Types, CallsAreTyped
      <4>2. CASE call[c].at = "manifest"
        BY <1>19, <4>1, <4>2 DEF WriteOut, Types, CallsAreTyped
      <4>3. CASE call[c].at # "manifest"
        BY <1>19, <4>1, <4>3, NullAssumption
        DEF WriteOut, Goto, Types, CallsAreTyped, Call, BuildStep
      <4> QED
        BY <4>1, <4>2, <4>3
    <3> QED
      BY <3>1, <3>2 DEF Accepted, RunsStandAlone
  <2>2. SourcesStand'
    <3> DEFINE ws == call[c].ws
               piece == IF call[c].at = "app" THEN call[c].bundle ELSE call[c].plan
    <3>1. /\ call[c] # NULL /\ call[c] \in Call /\ call[c].at \in Writing
          /\ out' = [out EXCEPT ![ws][call[c].at] = piece]
          /\ source' = source /\ dist' = dist
          /\ source[ws] \in Versions /\ ws \in Workspaces
      BY <1>19 DEF WriteOut, IsWriting, work, Types, CallsAreTyped, Call
    <3>2. /\ \A w \in Workspaces \ {ws} : out'[w]["app"] = out[w]["app"]
          /\ out'[ws]["app"] \in {out[ws]["app"], call[c].bundle}
      BY <3>1 DEF Types, OutIsTyped, Tree, Piece, Writing
    <3> HIDE DEF ws
    <3>3. \A d \in Callers : accept'[d] # NULL =>
            /\ accept[d] # NULL /\ accept'[d].ws = accept[d].ws
            /\ accept'[d].first \in {accept[d].first, call[c].bundle}
            /\ d # c => accept'[d].first = accept[d].first
      BY <1>19, ComparedKeeps DEF WriteOut
    <3>4. \A d \in Callers : call'[d] # NULL =>
            /\ call[d] # NULL /\ call'[d].plan = call[d].plan
            /\ call'[d].bundle = call[d].bundle
      BY <1>19, <3>1 DEF WriteOut, Goto, Types, CallsAreTyped, Call
    <3>5. accept[c] # NULL => accept[c].ws = ws /\ call[c].bundle # NULL
                              /\ IsOf(call[c].bundle, source[ws])
      BY <3>1 DEF ws, Accepted, RunsStandAlone, SourcesStand, Types, CallsAreTyped
    <3>6. \A d \in Callers \ {c} : accept[d] # NULL => accept[d].ws # ws
      BY <3>1, BuildsAreApart DEF ws, Accepted
    <3>7. \A d \in Callers : accept[d] # NULL => accept[d].ws \in Workspaces
      BY DEF Types, AcceptsAreTyped, Acceptance, Workspaces
    <3>8. \A w \in Workspaces : source[w] = NULL => w # ws
      BY <3>1
    <3> QED
      BY <3>1, <3>2, <3>3, <3>4, <3>5, <3>6, <3>7, <3>8 DEF Accepted, SourcesStand, IsOf
  <2>3. FirstBuildsAreSound'
    BY <1>19, BuildsAreApart DEF WriteOut, FirstBuildsAreSound, Accepted, Types,
      CallsAreTyped, AcceptsAreTyped, Call, Acceptance, RunsStandAlone, Compiling,
      Writing, Bundle, WorkIsTyped, Goto, Compared, In, IsWriting, work, machine,
      bounds
  <2>4. BuildsAgree'
    BY <1>19, BuildsAreApart DEF WriteOut, BuildsAgree, Accepted, Types,
      CallsAreTyped, AcceptsAreTyped, Call, Acceptance, FirstBuildsAreSound,
      Writing, Goto, Compared, In, IsWriting, work, machine, bounds
  <2>5. ReportsAreTrue'
    BY <1>19, BuildsAreApart DEF WriteOut, ReportsAreTrue, Accepted, Types,
      CallsAreTyped, AcceptsAreTyped, Call, Acceptance, EvidenceOf, IsAccepted,
      BuildsAgree, Goto, Compared, In, IsWriting, work, machine, bounds
  <2> QED
    BY <2>1, <2>2, <2>3, <2>4, <2>5 DEF Accepted
<1>20. ASSUME NEW c \in Callers, InitialRender(c)
      PROVE  Accepted'
  <2>1. RunsStandAlone'
    BY <1>20, BuildsAreApart DEF InitialRender, RunsStandAlone, Accepted, Types,
      CallsAreTyped, AcceptsAreTyped, Call, Acceptance, Workspaces, Idle, In,
      Healthy, work, machine, bounds
  <2>2. SourcesStand'
    <3>1. /\ accept[c] # NULL /\ accept[c] \in Acceptance
          /\ accept' = [accept EXCEPT ![c].phase = "loop"]
          /\ UNCHANGED <<source, dist, out, call>>
      BY <1>20 DEF InitialRender, Idle, In, Types, AcceptsAreTyped, work
    <3>2. \A d \in Callers : accept'[d] # NULL =>
            /\ accept[d] # NULL /\ accept'[d].ws = accept[d].ws
            /\ accept'[d].first = accept[d].first
      BY <3>1 DEF Types, AcceptsAreTyped, Acceptance
    <3> QED
      BY <3>1, <3>2 DEF Accepted, SourcesStand, IsOf
  <2>3. FirstBuildsAreSound'
    BY <1>20, BuildsAreApart DEF InitialRender, FirstBuildsAreSound, Accepted,
      Types, CallsAreTyped, AcceptsAreTyped, Call, Acceptance, RunsStandAlone,
      Compiling, Writing, Bundle, WorkIsTyped, Idle, In, Healthy, work, machine,
      bounds
  <2>4. BuildsAgree'
    BY <1>20, BuildsAreApart DEF InitialRender, BuildsAgree, Accepted, Types,
      CallsAreTyped, AcceptsAreTyped, Call, Acceptance, FirstBuildsAreSound,
      Writing, Idle, In, Healthy, work, machine, bounds
  <2>5. ReportsAreTrue'
    BY <1>20, BuildsAreApart DEF InitialRender, ReportsAreTrue, Accepted, Types,
      CallsAreTyped, AcceptsAreTyped, Call, Acceptance, EvidenceOf, IsAccepted,
      BuildsAgree, Idle, In, Healthy, work, machine, bounds
  <2> QED
    BY <2>1, <2>2, <2>3, <2>4, <2>5 DEF Accepted
<1>21. ASSUME NEW c \in Callers, LoopRender(c)
      PROVE  Accepted'
  <2>1. /\ accept[c] # NULL /\ accept[c].phase = "loop" /\ accept'[c] # NULL
        /\ accept'[c].phase = "loop" /\ accept'[c].ws = accept[c].ws
        /\ accept'[c].first = accept[c].first /\ accept'[c].second = accept[c].second
        /\ \A d \in Callers \ {c} : accept'[d] = accept[d]
        /\ UNCHANGED <<source, deps, dist, out, call, evidence, latest>>
    <3>1. accept[c] \in Acceptance /\ accept[c].phase = "loop"
      BY <1>21 DEF LoopRender, Idle, In, Types, AcceptsAreTyped
    <3> DEFINE r == [accept[c] EXCEPT !.seen =
                       [healthy |-> Healthy(out[accept[c].ws]), of |-> accept[c].last]]
    <3>2. r.phase = "loop" /\ r.ws = accept[c].ws /\ r.first = accept[c].first
          /\ r.second = accept[c].second
      BY <3>1 DEF Acceptance
    <3>3. accept' = [accept EXCEPT ![c] = r]
      BY <1>21 DEF LoopRender
    <3> HIDE DEF r
    <3>4. accept'[c] = r /\ \A d \in Callers \ {c} : accept'[d] = accept[d]
      BY <3>3 DEF Types, AcceptsAreTyped
    <3>5. r # NULL
      <4>1. Healthy(out[accept[c].ws]) \in BOOLEAN
        BY DEF Healthy
      <4>2. [healthy |-> Healthy(out[accept[c].ws]), of |-> accept[c].last] \in Shot
        BY <3>1, <4>1 DEF Acceptance, Shot
      <4>3. r \in Acceptance
        BY <3>1, <4>2 DEF r, Acceptance
      <4> QED
        BY <4>3, NullAssumption
    <3> QED
      BY <1>21, <3>1, <3>2, <3>4, <3>5, NullAssumption DEF LoopRender, work
  <2>2. RunsStandAlone'
    BY <2>1, BuildsAreApart DEF RunsStandAlone, Accepted, Types, CallsAreTyped,
      AcceptsAreTyped, Call, Acceptance, Workspaces
  <2>3. SourcesStand'
    BY <2>1, BuildsAreApart DEF SourcesStand, Accepted, Types, CallsAreTyped,
      AcceptsAreTyped, Call, Acceptance, RunsStandAlone, IsOf, WorkIsTyped,
      OutIsTyped, Tree, Piece, Workspaces
  <2>4. FirstBuildsAreSound'
    BY <2>1, BuildsAreApart DEF FirstBuildsAreSound, Accepted, Types, CallsAreTyped,
      AcceptsAreTyped, Call, Acceptance, RunsStandAlone, Compiling, Writing, Bundle,
      WorkIsTyped
  <2>5. BuildsAgree'
    BY <2>1, BuildsAreApart DEF BuildsAgree, Accepted, Types, CallsAreTyped,
      AcceptsAreTyped, Call, Acceptance, FirstBuildsAreSound, Writing
  <2>6. ReportsAreTrue'
    BY <2>1, BuildsAreApart DEF ReportsAreTrue, Accepted, Types, CallsAreTyped,
      AcceptsAreTyped, Call, Acceptance, EvidenceOf, IsAccepted, BuildsAgree
  <2> QED
    BY <2>1, <2>2, <2>3, <2>4, <2>5, <2>6 DEF Accepted
<1>22. ASSUME NEW c \in Callers, LoopCompletes(c)
      PROVE  Accepted'
  <2>1. RunsStandAlone'
    BY <1>22, BuildsAreApart DEF LoopCompletes, RunsStandAlone, Accepted, Types,
      CallsAreTyped, AcceptsAreTyped, Call, Acceptance, Workspaces, Idle, In, work,
      machine, bounds
  <2>2. SourcesStand'
    BY <1>22, BuildsAreApart DEF LoopCompletes, SourcesStand, Accepted, Types,
      CallsAreTyped, AcceptsAreTyped, Call, Acceptance, RunsStandAlone, IsOf,
      WorkIsTyped, OutIsTyped, Tree, Piece, Workspaces, Idle, In, work, machine,
      bounds
  <2>3. FirstBuildsAreSound'
    BY <1>22, BuildsAreApart DEF LoopCompletes, FirstBuildsAreSound, Accepted,
      Types, CallsAreTyped, AcceptsAreTyped, Call, Acceptance, RunsStandAlone,
      Compiling, Writing, Bundle, WorkIsTyped, Idle, In, work, machine, bounds
  <2>4. BuildsAgree'
    BY <1>22, BuildsAreApart DEF LoopCompletes, BuildsAgree, Accepted, Types,
      CallsAreTyped, AcceptsAreTyped, Call, Acceptance, FirstBuildsAreSound,
      Writing, Idle, In, work, machine, bounds
  <2>5. ReportsAreTrue'
    BY <1>22, BuildsAreApart DEF LoopCompletes, ReportsAreTrue, Accepted, Types,
      CallsAreTyped, AcceptsAreTyped, Call, Acceptance, EvidenceOf, IsAccepted,
      BuildsAgree, Idle, In, work, machine, bounds
  <2> QED
    BY <2>1, <2>2, <2>3, <2>4, <2>5 DEF Accepted
<1>23. ASSUME NEW c \in Callers, FinalRender(c)
      PROVE  Accepted'
  <2>1. /\ accept[c] # NULL /\ accept[c].phase = "final" /\ accept'[c] # NULL
        /\ accept'[c].phase = "evidence" /\ accept'[c].ws = accept[c].ws
        /\ accept'[c].first = accept[c].first /\ accept'[c].second = accept[c].second
        /\ accept'[c].seen.healthy
        /\ accept'[c].seen.of = out[accept[c].ws]["app"]
        /\ out[accept[c].ws]["app"] # NULL
        /\ out[accept[c].ws]["app"].version \notin Broken
        /\ \A d \in Callers \ {c} : accept'[d] = accept[d]
        /\ UNCHANGED <<source, deps, dist, out, call, evidence, latest>>
    <3>1. accept[c] \in Acceptance /\ accept[c].phase = "final"
      BY <1>23 DEF FinalRender, Idle, In, Types, AcceptsAreTyped
    <3> DEFINE s == [healthy |-> TRUE, of |-> out[accept[c].ws]["app"]]
               r == [accept[c] EXCEPT !.phase = "evidence", !.seen = s]
    <3>2. /\ r.phase = "evidence" /\ r.ws = accept[c].ws /\ r.first = accept[c].first
          /\ r.second = accept[c].second /\ r.seen = s
      BY <3>1 DEF Acceptance
    <3>3. accept' = [accept EXCEPT ![c] = r]
      BY <1>23 DEF FinalRender
    <3>4. s.healthy /\ s.of = out[accept[c].ws]["app"]
      OBVIOUS
    <3> HIDE DEF r, s
    <3>5. accept'[c] = r /\ \A d \in Callers \ {c} : accept'[d] = accept[d]
      BY <3>3 DEF Types, AcceptsAreTyped
    <3>6. r # NULL
      <4>1. s \in Shot
        BY <3>1 DEF s, Shot, Acceptance, Types, OutIsTyped, Workspaces
      <4>2. r \in Acceptance
        BY <3>1, <4>1 DEF r, Acceptance, Phases
      <4> QED
        BY <4>2, NullAssumption
    <3>7. UNCHANGED <<source, deps, dist, out, call, evidence, latest>>
      BY <1>23 DEF FinalRender, work
    <3>8. out[accept[c].ws]["app"] # NULL /\ out[accept[c].ws]["app"].version \notin Broken
      BY <1>23 DEF FinalRender, Healthy
    <3> QED
      BY <3>1, <3>2, <3>4, <3>5, <3>6, <3>7, <3>8, NullAssumption
  <2>2. RunsStandAlone'
    BY <2>1, BuildsAreApart DEF RunsStandAlone, Accepted, Types, CallsAreTyped,
      AcceptsAreTyped, Call, Acceptance, Workspaces
  <2>3. SourcesStand'
    BY <2>1, BuildsAreApart DEF SourcesStand, Accepted, Types, CallsAreTyped,
      AcceptsAreTyped, Call, Acceptance, RunsStandAlone, IsOf, WorkIsTyped,
      OutIsTyped, Tree, Piece, Workspaces
  <2>4. FirstBuildsAreSound'
    BY <2>1, BuildsAreApart DEF FirstBuildsAreSound, Accepted, Types, CallsAreTyped,
      AcceptsAreTyped, Call, Acceptance, RunsStandAlone, Compiling, Writing, Bundle,
      WorkIsTyped
  <2>5. BuildsAgree'
    BY <2>1, BuildsAreApart DEF BuildsAgree, Accepted, Types, CallsAreTyped,
      AcceptsAreTyped, Call, Acceptance, FirstBuildsAreSound, Writing
  <2>6. ReportsAreTrue'
    <3>1. /\ accept[c].first = accept[c].second /\ accept[c].first.sound
          /\ IsOf(accept[c].first, source[accept[c].ws])
          /\ IsOf(out[accept[c].ws]["app"], source[accept[c].ws])
      BY <2>1 DEF Accepted, BuildsAgree, SourcesStand
    <3>2. accept[c].first # NULL
      BY <2>1 DEF Types, AcceptsAreTyped
    <3>3. IsAccepted(EvidenceOf(c))'
      BY <2>1, <3>1, <3>2 DEF IsAccepted, EvidenceOf, IsOf
    <3> QED
      BY <2>1, <3>3 DEF Accepted, ReportsAreTrue, EvidenceOf, IsAccepted
  <2> QED
    BY <2>1, <2>2, <2>3, <2>4, <2>5, <2>6 DEF Accepted
<1>24. ASSUME NEW c \in Callers, GiveUp(c)
      PROVE  Accepted'
  <2>1. RunsStandAlone'
    BY <1>24, BuildsAreApart DEF GiveUp, RunsStandAlone, Accepted, Types,
      CallsAreTyped, AcceptsAreTyped, Call, Acceptance, Workspaces, Idle, In, work,
      machine, bounds
  <2>2. SourcesStand'
    BY <1>24, BuildsAreApart DEF GiveUp, SourcesStand, Accepted, Types,
      CallsAreTyped, AcceptsAreTyped, Call, Acceptance, RunsStandAlone, IsOf,
      WorkIsTyped, OutIsTyped, Tree, Piece, Workspaces, Idle, In, work, machine,
      bounds
  <2>3. FirstBuildsAreSound'
    BY <1>24, BuildsAreApart DEF GiveUp, FirstBuildsAreSound, Accepted, Types,
      CallsAreTyped, AcceptsAreTyped, Call, Acceptance, RunsStandAlone, Compiling,
      Writing, Bundle, WorkIsTyped, Idle, In, work, machine, bounds
  <2>4. BuildsAgree'
    BY <1>24, BuildsAreApart DEF GiveUp, BuildsAgree, Accepted, Types,
      CallsAreTyped, AcceptsAreTyped, Call, Acceptance, FirstBuildsAreSound,
      Writing, Idle, In, work, machine, bounds
  <2>5. ReportsAreTrue'
    BY <1>24, BuildsAreApart DEF GiveUp, ReportsAreTrue, Accepted, Types,
      CallsAreTyped, AcceptsAreTyped, Call, Acceptance, EvidenceOf, IsAccepted,
      BuildsAgree, Idle, In, work, machine, bounds
  <2> QED
    BY <2>1, <2>2, <2>3, <2>4, <2>5 DEF Accepted
<1>25. ASSUME NEW c \in Callers, WriteEvidence(c)
      PROVE  Accepted'
  <2>1. RunsStandAlone'
    BY <1>25, BuildsAreApart DEF WriteEvidence, RunsStandAlone, Accepted, Types,
      CallsAreTyped, AcceptsAreTyped, Call, Acceptance, Workspaces, Idle, In,
      EvidenceOf, work, machine, bounds
  <2>2. SourcesStand'
    BY <1>25, BuildsAreApart DEF WriteEvidence, SourcesStand, Accepted, Types,
      CallsAreTyped, AcceptsAreTyped, Call, Acceptance, RunsStandAlone, IsOf,
      WorkIsTyped, OutIsTyped, Tree, Piece, Workspaces, Idle, In, EvidenceOf, work,
      machine, bounds
  <2>3. FirstBuildsAreSound'
    BY <1>25, BuildsAreApart DEF WriteEvidence, FirstBuildsAreSound, Accepted,
      Types, CallsAreTyped, AcceptsAreTyped, Call, Acceptance, RunsStandAlone,
      Compiling, Writing, Bundle, WorkIsTyped, Idle, In, EvidenceOf, work, machine,
      bounds
  <2>4. BuildsAgree'
    BY <1>25, BuildsAreApart DEF WriteEvidence, BuildsAgree, Accepted, Types,
      CallsAreTyped, AcceptsAreTyped, Call, Acceptance, FirstBuildsAreSound,
      Writing, Idle, In, EvidenceOf, work, machine, bounds
  <2>5. ReportsAreTrue'
    BY <1>25, BuildsAreApart DEF WriteEvidence, ReportsAreTrue, Accepted, Types,
      CallsAreTyped, AcceptsAreTyped, Call, Acceptance, EvidenceOf, IsAccepted,
      BuildsAgree, Idle, In, work, machine, bounds
  <2> QED
    BY <2>1, <2>2, <2>3, <2>4, <2>5 DEF Accepted
<1>26. ASSUME NEW c \in Callers, WriteLatest(c)
      PROVE  Accepted'
  <2>1. RunsStandAlone'
    BY <1>26, BuildsAreApart DEF WriteLatest, RunsStandAlone, Accepted, Types,
      CallsAreTyped, AcceptsAreTyped, Call, Acceptance, Workspaces, Idle, In,
      EvidenceOf, work, machine, bounds
  <2>2. SourcesStand'
    BY <1>26, BuildsAreApart DEF WriteLatest, SourcesStand, Accepted, Types,
      CallsAreTyped, AcceptsAreTyped, Call, Acceptance, RunsStandAlone, IsOf,
      WorkIsTyped, OutIsTyped, Tree, Piece, Workspaces, Idle, In, EvidenceOf, work,
      machine, bounds
  <2>3. FirstBuildsAreSound'
    BY <1>26, BuildsAreApart DEF WriteLatest, FirstBuildsAreSound, Accepted, Types,
      CallsAreTyped, AcceptsAreTyped, Call, Acceptance, RunsStandAlone, Compiling,
      Writing, Bundle, WorkIsTyped, Idle, In, EvidenceOf, work, machine, bounds
  <2>4. BuildsAgree'
    BY <1>26, BuildsAreApart DEF WriteLatest, BuildsAgree, Accepted, Types,
      CallsAreTyped, AcceptsAreTyped, Call, Acceptance, FirstBuildsAreSound,
      Writing, Idle, In, EvidenceOf, work, machine, bounds
  <2>5. ReportsAreTrue'
    BY <1>26, BuildsAreApart DEF WriteLatest, ReportsAreTrue, Accepted, Types,
      CallsAreTyped, AcceptsAreTyped, Call, Acceptance, EvidenceOf, IsAccepted,
      BuildsAgree, Idle, In, work, machine, bounds
  <2> QED
    BY <2>1, <2>2, <2>3, <2>4, <2>5 DEF Accepted
<1>27. ASSUME NEW h \in Hosts, Crash(h)
      PROVE  Accepted'
  <2>1. RunsStandAlone'
    BY <1>27, BuildsAreApart DEF Crash, RunsStandAlone, Accepted, Types,
      CallsAreTyped, AcceptsAreTyped, Call, Acceptance, Workspaces, Idle, In,
      IsWriting, work
  <2>2. SourcesStand'
    BY <1>27, BuildsAreApart DEF Crash, SourcesStand, Accepted, Types,
      CallsAreTyped, AcceptsAreTyped, Call, Acceptance, RunsStandAlone, IsOf,
      WorkIsTyped, OutIsTyped, Tree, Piece, Workspaces, Idle, In, IsWriting, work
  <2>3. FirstBuildsAreSound'
    BY <1>27, BuildsAreApart DEF Crash, FirstBuildsAreSound, Accepted, Types,
      CallsAreTyped, AcceptsAreTyped, Call, Acceptance, RunsStandAlone, Compiling,
      Writing, Bundle, WorkIsTyped, Idle, In, IsWriting, work
  <2>4. BuildsAgree'
    BY <1>27, BuildsAreApart DEF Crash, BuildsAgree, Accepted, Types, CallsAreTyped,
      AcceptsAreTyped, Call, Acceptance, FirstBuildsAreSound, Writing, Idle, In,
      IsWriting, work
  <2>5. ReportsAreTrue'
    BY <1>27, BuildsAreApart DEF Crash, ReportsAreTrue, Accepted, Types,
      CallsAreTyped, AcceptsAreTyped, Call, Acceptance, EvidenceOf, IsAccepted,
      BuildsAgree, Idle, In, IsWriting, work
  <2> QED
    BY <2>1, <2>2, <2>3, <2>4, <2>5 DEF Accepted
<1>28. CASE UNCHANGED <<accept, call, deps, dist, evidence, latest, out, source>>
  BY <1>28 DEF Accepted, RunsStandAlone, SourcesStand, FirstBuildsAreSound,
    BuildsAgree, ReportsAreTrue, EvidenceOf, IsAccepted
<1> QED
  BY <1>1, <1>2, <1>3, <1>4, <1>5, <1>6, <1>7, <1>8, <1>9, <1>10, <1>11, <1>12,
    <1>13, <1>14, <1>15, <1>16, <1>17, <1>18, <1>19, <1>20, <1>21, <1>22, <1>23,
    <1>24, <1>25, <1>26, <1>27, <1>28
  DEF Next, vars, work, machine, report, bounds

LEMMA AcceptedInit == Init => Accepted
  BY WorkspacesAssumption, NullAssumption
  DEF Init, Accepted, RunsStandAlone, SourcesStand, FirstBuildsAreSound, BuildsAgree,
      ReportsAreTrue, EmptyTree, Piece

\* What latest.json names was accepted: two sound builds that agree, and a healthy
\* picture of the same source (run_acceptance).
THEOREM LatestAccepted == Spec => []LatestIsAccepted
<1>1. Init => Accepted
  BY AcceptedInit
<1>2. Types /\ Types' /\ Accepted /\ [Next]_vars => Accepted'
  BY AcceptedStep
<1>3. Types /\ Accepted => LatestIsAccepted
  BY HostsAssumption DEF Accepted, BuildsAgree, ReportsAreTrue, IsAccepted, LatestIsAccepted
<1> QED
  BY TypeCorrect, <1>1, <1>2, <1>3, PTL DEF Spec

----------------------------------------------------------------------------
(* OUT *)

\* Every step keeps OUT one build unless it is mixed.
LEMMA OneBuildStep ==
  ASSUME Types, OneBuild, [Next]_vars
  PROVE  OneBuild'
<1> USE HostsAssumption, WorkspacesAssumption, VersionsAssumption, NullAssumption
<1>1. ASSUME NEW c \in Callers, NEW w \in Workspaces, NEW v \in Versions,
             Edit(c, w, v)
      PROVE  OneBuild'
  <2>1. AloneIsUndisturbed'
    BY <1>1 DEF Edit, AloneIsUndisturbed, OneBuild, Types, CallsAreTyped, Call,
      IsSoundOf, Compiling, Writing, WorkIsTyped, Bundle, OutIsTyped, Tree, Piece,
      Disturbed, On, MixedBy, IsWriting, machine, report
  <2>2. SharedIsMixed'
    BY <1>1 DEF Edit, SharedIsMixed, OneBuild, Types, CallsAreTyped, Call,
      IsWriting, Writing, HistoryIsTyped, Disturbed, On, MixedBy, machine, report
  <2>3. QuietIsOneBuild'
    BY <1>1 DEF Edit, QuietIsOneBuild, OneBuild, Types, CallsAreTyped, Call,
      SharedIsMixed, IsWriting, Writing, HistoryIsTyped, OutIsTyped, Tree, Piece,
      Disturbed, On, MixedBy, machine, report
  <2> QED
    BY <2>1, <2>2, <2>3 DEF OneBuild
<1>2. ASSUME NEW c \in Callers, NEW w \in Workspaces, NEW v \in Versions,
             BeginAcceptance(c, w, v)
      PROVE  OneBuild'
  <2>1. SharedIsMixed' /\ QuietIsOneBuild'
    BY <1>2 DEF BeginAcceptance, OneBuild, SharedIsMixed, QuietIsOneBuild, machine,
      bounds, IsWriting
  <2>2. AloneIsUndisturbed'
    BY <1>2 DEF BeginAcceptance, AloneIsUndisturbed, OneBuild, Types, CallsAreTyped,
      Call, IsSoundOf, Compiling, Writing, WorkIsTyped, Bundle, OutIsTyped, Tree,
      Piece, machine, bounds
  <2> QED
    BY <2>1, <2>2 DEF OneBuild
<1>3. ASSUME NEW c \in Callers, NEW w \in Workspaces, BeginBuild(c, w)
      PROVE  OneBuild'
  <2>1. AloneIsUndisturbed'
    <3>1. ASSUME NEW d \in Callers, call'[d] # NULL, call'[d].alone, d # c
          PROVE  /\ call[d] # NULL /\ call[d].alone
                 /\ call'[d].at = call[d].at /\ call'[d].ws = call[d].ws
                 /\ call'[d].plan = call[d].plan /\ call'[d].bundle = call[d].bundle
                 /\ call'[c].ws # call[d].ws
      BY <1>3, <3>1, BeginBuildKeeps
    <3>2. /\ call'[c].at = "planned" /\ call'[c].ws = w
          /\ call'[c].plan = source[w] /\ source[w] \notin Malformed
          /\ call'[c].alone => \A d \in Callers : call[d] # NULL => call[d].ws # w
          /\ \A d \in Callers \ {c} : call'[d] # NULL =>
               call[d] # NULL /\ call'[d].ws = call[d].ws
          /\ UNCHANGED <<source, deps, dist, out>>
      BY <1>3, BeginBuildKeeps
    <3> QED
      BY <3>1, <3>2 DEF OneBuild, AloneIsUndisturbed, IsSoundOf, Compiling, Writing
  <2>2. SharedIsMixed'
    BY <1>3 DEF BeginBuild, SharedIsMixed, OneBuild, Types, CallsAreTyped, Call,
      IsWriting, Writing, HistoryIsTyped, On, Disturbed, MixedBy, Prepared, work,
      machine, report
  <2>3. QuietIsOneBuild'
    BY <1>3 DEF BeginBuild, QuietIsOneBuild, OneBuild, Types, CallsAreTyped, Call,
      SharedIsMixed, IsWriting, Writing, HistoryIsTyped, OutIsTyped, Tree, Piece,
      On, Disturbed, MixedBy, Prepared, work, machine, report
  <2> QED
    BY <2>1, <2>2, <2>3 DEF OneBuild
<1>4. ASSUME NEW c \in Callers, WritePlan(c)
      PROVE  OneBuild'
  <2>1. AloneIsUndisturbed'
    BY <1>4 DEF WritePlan, AloneIsUndisturbed, OneBuild, Types, CallsAreTyped, Call,
      IsSoundOf, Compiling, Writing, WorkIsTyped, Bundle, OutIsTyped, Tree, Piece,
      Goto, At, machine, report, bounds
  <2>2. SharedIsMixed'
    BY <1>4 DEF WritePlan, SharedIsMixed, OneBuild, Types, CallsAreTyped, Call,
      IsWriting, Writing, HistoryIsTyped, Goto, At, machine, report, bounds
  <2>3. QuietIsOneBuild'
    BY <1>4 DEF WritePlan, QuietIsOneBuild, OneBuild, Types, CallsAreTyped, Call,
      SharedIsMixed, IsWriting, Writing, HistoryIsTyped, OutIsTyped, Tree, Piece,
      Goto, At, machine, report, bounds
  <2> QED
    BY <2>1, <2>2, <2>3 DEF OneBuild
<1>5. ASSUME NEW c \in Callers, CopyDependencies(c)
      PROVE  OneBuild'
  <2>1. AloneIsUndisturbed'
    BY <1>5 DEF CopyDependencies, AloneIsUndisturbed, OneBuild, Types,
      CallsAreTyped, Call, IsSoundOf, Compiling, Writing, WorkIsTyped, Bundle,
      OutIsTyped, Tree, Piece, Goto, At, machine, report, bounds
  <2>2. SharedIsMixed'
    BY <1>5 DEF CopyDependencies, SharedIsMixed, OneBuild, Types, CallsAreTyped,
      Call, IsWriting, Writing, HistoryIsTyped, Goto, At, machine, report, bounds
  <2>3. QuietIsOneBuild'
    BY <1>5 DEF CopyDependencies, QuietIsOneBuild, OneBuild, Types, CallsAreTyped,
      Call, SharedIsMixed, IsWriting, Writing, HistoryIsTyped, OutIsTyped, Tree,
      Piece, Goto, At, machine, report, bounds
  <2> QED
    BY <2>1, <2>2, <2>3 DEF OneBuild
<1>6. ASSUME NEW c \in Callers, Unavailable(c)
      PROVE  OneBuild'
  <2>1. AloneIsUndisturbed'
    BY <1>6 DEF Unavailable, AloneIsUndisturbed, OneBuild, Types, CallsAreTyped,
      Call, IsSoundOf, Compiling, Writing, WorkIsTyped, Bundle, OutIsTyped, Tree,
      Piece, At, Raised, In, machine, bounds
  <2>2. SharedIsMixed'
    BY <1>6 DEF Unavailable, SharedIsMixed, OneBuild, Types, CallsAreTyped, Call,
      IsWriting, Writing, HistoryIsTyped, At, Raised, In, machine, bounds
  <2>3. QuietIsOneBuild'
    BY <1>6 DEF Unavailable, QuietIsOneBuild, OneBuild, Types, CallsAreTyped, Call,
      SharedIsMixed, IsWriting, Writing, HistoryIsTyped, OutIsTyped, Tree, Piece,
      At, Raised, In, machine, bounds
  <2> QED
    BY <2>1, <2>2, <2>3 DEF OneBuild
<1>7. ASSUME NEW c \in Callers, TakeLock(c)
      PROVE  OneBuild'
  <2>1. AloneIsUndisturbed'
    BY <1>7 DEF TakeLock, AloneIsUndisturbed, OneBuild, Types, CallsAreTyped, Call,
      IsSoundOf, Compiling, Writing, WorkIsTyped, Bundle, OutIsTyped, Tree, Piece,
      At, work, report, bounds
  <2>2. SharedIsMixed'
    BY <1>7 DEF TakeLock, SharedIsMixed, OneBuild, Types, CallsAreTyped, Call,
      IsWriting, Writing, HistoryIsTyped, At, work, report, bounds
  <2>3. QuietIsOneBuild'
    BY <1>7 DEF TakeLock, QuietIsOneBuild, OneBuild, Types, CallsAreTyped, Call,
      SharedIsMixed, IsWriting, Writing, HistoryIsTyped, OutIsTyped, Tree, Piece,
      At, work, report, bounds
  <2> QED
    BY <2>1, <2>2, <2>3 DEF OneBuild
<1>8. ASSUME NEW c \in Callers, MapDrive(c)
      PROVE  OneBuild'
  <2>1. AloneIsUndisturbed'
    BY <1>8 DEF MapDrive, AloneIsUndisturbed, OneBuild, Types, CallsAreTyped, Call,
      IsSoundOf, Compiling, Writing, WorkIsTyped, Bundle, OutIsTyped, Tree, Piece,
      At, work, report, bounds
  <2>2. SharedIsMixed'
    BY <1>8 DEF MapDrive, SharedIsMixed, OneBuild, Types, CallsAreTyped, Call,
      IsWriting, Writing, HistoryIsTyped, At, work, report, bounds
  <2>3. QuietIsOneBuild'
    BY <1>8 DEF MapDrive, QuietIsOneBuild, OneBuild, Types, CallsAreTyped, Call,
      SharedIsMixed, IsWriting, Writing, HistoryIsTyped, OutIsTyped, Tree, Piece,
      At, work, report, bounds
  <2> QED
    BY <2>1, <2>2, <2>3 DEF OneBuild
<1>9. ASSUME NEW c \in Callers, NoDrive(c)
      PROVE  OneBuild'
  <2>1. AloneIsUndisturbed'
    BY <1>9 DEF NoDrive, AloneIsUndisturbed, OneBuild, Types, CallsAreTyped, Call,
      IsSoundOf, Compiling, Writing, WorkIsTyped, Bundle, OutIsTyped, Tree, Piece,
      Goto, At, work, machine, report, bounds
  <2>2. SharedIsMixed'
    BY <1>9 DEF NoDrive, SharedIsMixed, OneBuild, Types, CallsAreTyped, Call,
      IsWriting, Writing, HistoryIsTyped, Goto, At, work, machine, report, bounds
  <2>3. QuietIsOneBuild'
    BY <1>9 DEF NoDrive, QuietIsOneBuild, OneBuild, Types, CallsAreTyped, Call,
      SharedIsMixed, IsWriting, Writing, HistoryIsTyped, OutIsTyped, Tree, Piece,
      Goto, At, work, machine, report, bounds
  <2> QED
    BY <2>1, <2>2, <2>3 DEF OneBuild
<1>10. ASSUME NEW c \in Callers, CreateProcess(c)
      PROVE  OneBuild'
  <2>1. AloneIsUndisturbed'
    BY <1>10, CreateProcessKeeps
    DEF Keeps, OneBuild, AloneIsUndisturbed, IsSoundOf, Compiling, Writing
  <2>2. SharedIsMixed'
    BY <1>10 DEF CreateProcess, SharedIsMixed, OneBuild, Types, CallsAreTyped, Call,
      IsWriting, Writing, HistoryIsTyped, Goto, At, work, machine, report, bounds
  <2>3. QuietIsOneBuild'
    BY <1>10 DEF CreateProcess, QuietIsOneBuild, OneBuild, Types, CallsAreTyped,
      Call, SharedIsMixed, IsWriting, Writing, HistoryIsTyped, OutIsTyped, Tree,
      Piece, Goto, At, work, machine, report, bounds
  <2> QED
    BY <2>1, <2>2, <2>3 DEF OneBuild
<1>11. ASSUME NEW c \in Callers, AssignJob(c)
      PROVE  OneBuild'
  <2>1. AloneIsUndisturbed'
    BY <1>11, AssignJobKeeps
    DEF Keeps, OneBuild, AloneIsUndisturbed, IsSoundOf, Compiling, Writing
  <2>2. SharedIsMixed'
    BY <1>11 DEF AssignJob, SharedIsMixed, OneBuild, Types, CallsAreTyped, Call,
      IsWriting, Writing, HistoryIsTyped, At, work, machine, report, bounds
  <2>3. QuietIsOneBuild'
    BY <1>11 DEF AssignJob, QuietIsOneBuild, OneBuild, Types, CallsAreTyped, Call,
      SharedIsMixed, IsWriting, Writing, HistoryIsTyped, OutIsTyped, Tree, Piece,
      At, work, machine, report, bounds
  <2> QED
    BY <2>1, <2>2, <2>3 DEF OneBuild
<1>12. ASSUME NEW c \in Callers, ResumeThread(c)
      PROVE  OneBuild'
  <2>1. AloneIsUndisturbed'
    BY <1>12 DEF ResumeThread, AloneIsUndisturbed, OneBuild, Types, CallsAreTyped,
      Call, IsSoundOf, Compiling, Writing, WorkIsTyped, Bundle, OutIsTyped, Tree,
      Piece, At, work, machine, report, bounds
  <2>2. SharedIsMixed'
    BY <1>12 DEF ResumeThread, SharedIsMixed, OneBuild, Types, CallsAreTyped, Call,
      IsWriting, Writing, HistoryIsTyped, At, work, machine, report, bounds
  <2>3. QuietIsOneBuild'
    BY <1>12 DEF ResumeThread, QuietIsOneBuild, OneBuild, Types, CallsAreTyped,
      Call, SharedIsMixed, IsWriting, Writing, HistoryIsTyped, OutIsTyped, Tree,
      Piece, At, work, machine, report, bounds
  <2> QED
    BY <2>1, <2>2, <2>3 DEF OneBuild
<1>13. ASSUME NEW c \in Callers, ProcessExits(c)
      PROVE  OneBuild'
  <2>1. AloneIsUndisturbed'
    BY <1>13 DEF ProcessExits, AloneIsUndisturbed, OneBuild, Types, CallsAreTyped,
      Call, IsSoundOf, Compiling, Writing, WorkIsTyped, Bundle, OutIsTyped, Tree,
      Piece, At, Bundles, machine, report, bounds
  <2>2. SharedIsMixed'
    BY <1>13 DEF ProcessExits, SharedIsMixed, OneBuild, Types, CallsAreTyped, Call,
      IsWriting, Writing, HistoryIsTyped, At, Bundles, machine, report, bounds
  <2>3. QuietIsOneBuild'
    BY <1>13 DEF ProcessExits, QuietIsOneBuild, OneBuild, Types, CallsAreTyped,
      Call, SharedIsMixed, IsWriting, Writing, HistoryIsTyped, OutIsTyped, Tree,
      Piece, At, Bundles, machine, report, bounds
  <2> QED
    BY <2>1, <2>2, <2>3 DEF OneBuild
<1>14. ASSUME NEW c \in Callers, Timeout(c)
      PROVE  OneBuild'
  <2>1. AloneIsUndisturbed'
    BY <1>14, TimeoutKeeps
    DEF OneBuild, AloneIsUndisturbed, IsSoundOf, Compiling, Writing, Types,
        CallsAreTyped, Call
  <2>2. SharedIsMixed'
    BY <1>14 DEF Timeout, SharedIsMixed, OneBuild, Types, CallsAreTyped, Call,
      IsWriting, Writing, HistoryIsTyped, At, Bundles, machine, report, bounds
  <2>3. QuietIsOneBuild'
    BY <1>14 DEF Timeout, QuietIsOneBuild, OneBuild, Types, CallsAreTyped, Call,
      SharedIsMixed, IsWriting, Writing, HistoryIsTyped, OutIsTyped, Tree, Piece,
      At, Bundles, machine, report, bounds
  <2> QED
    BY <2>1, <2>2, <2>3 DEF OneBuild
<1>15. ASSUME NEW c \in Callers, LauncherFails(c)
      PROVE  OneBuild'
  <2>1. AloneIsUndisturbed'
    BY <1>15 DEF LauncherFails, AloneIsUndisturbed, OneBuild, Types, CallsAreTyped,
      Call, IsSoundOf, Compiling, Writing, WorkIsTyped, Bundle, OutIsTyped, Tree,
      Piece, At, Raised, In, Unmap, work, bounds
  <2>2. SharedIsMixed'
    BY <1>15 DEF LauncherFails, SharedIsMixed, OneBuild, Types, CallsAreTyped, Call,
      IsWriting, Writing, HistoryIsTyped, At, Raised, In, Unmap, work, bounds
  <2>3. QuietIsOneBuild'
    BY <1>15 DEF LauncherFails, QuietIsOneBuild, OneBuild, Types, CallsAreTyped,
      Call, SharedIsMixed, IsWriting, Writing, HistoryIsTyped, OutIsTyped, Tree,
      Piece, At, Raised, In, Unmap, work, bounds
  <2> QED
    BY <2>1, <2>2, <2>3 DEF OneBuild
<1>16. ASSUME NEW c \in Callers, LauncherReturns(c)
      PROVE  OneBuild'
  <2>1. AloneIsUndisturbed'
    BY <1>16 DEF LauncherReturns, AloneIsUndisturbed, OneBuild, Types,
      CallsAreTyped, Call, IsSoundOf, Compiling, Writing, WorkIsTyped, Bundle,
      OutIsTyped, Tree, Piece, Goto, At, Unmap, work, report, bounds
  <2>2. SharedIsMixed'
    BY <1>16 DEF LauncherReturns, SharedIsMixed, OneBuild, Types, CallsAreTyped,
      Call, IsWriting, Writing, HistoryIsTyped, Goto, At, Unmap, work, report,
      bounds
  <2>3. QuietIsOneBuild'
    BY <1>16 DEF LauncherReturns, QuietIsOneBuild, OneBuild, Types, CallsAreTyped,
      Call, SharedIsMixed, IsWriting, Writing, HistoryIsTyped, OutIsTyped, Tree,
      Piece, Goto, At, Unmap, work, report, bounds
  <2> QED
    BY <2>1, <2>2, <2>3 DEF OneBuild
<1>17. ASSUME NEW c \in Callers, ReadBundle(c)
      PROVE  OneBuild'
  <2>1. AloneIsUndisturbed'
    BY <1>17 DEF ReadBundle, AloneIsUndisturbed, OneBuild, Types, CallsAreTyped,
      Call, IsSoundOf, Compiling, Writing, WorkIsTyped, Bundle, OutIsTyped, Tree,
      Piece, At, work, machine, report, bounds
  <2>2. SharedIsMixed'
    BY <1>17 DEF ReadBundle, SharedIsMixed, OneBuild, Types, CallsAreTyped, Call,
      IsWriting, Writing, HistoryIsTyped, At, work, machine, report, bounds
  <2>3. QuietIsOneBuild'
    BY <1>17 DEF ReadBundle, QuietIsOneBuild, OneBuild, Types, CallsAreTyped, Call,
      SharedIsMixed, IsWriting, Writing, HistoryIsTyped, OutIsTyped, Tree, Piece,
      At, work, machine, report, bounds
  <2> QED
    BY <2>1, <2>2, <2>3 DEF OneBuild
<1>18. ASSUME NEW c \in Callers, WriteOut(c)
      PROVE  OneBuild'
  <2>1. /\ call[c] # NULL /\ call[c].at \in Writing /\ call[c].ws \in Workspaces
        /\ UNCHANGED <<source, deps, dist>>
        /\ \A d \in Callers \ {c} : call'[d] = call[d]
        /\ \A w \in Workspaces \ {call[c].ws} : out'[w] = out[w]
        /\ \A p \in Piece \ {call[c].at} : out'[call[c].ws][p] = out[call[c].ws][p]
        /\ out'[call[c].ws][call[c].at] =
             IF call[c].at = "app" THEN call[c].bundle ELSE call[c].plan
        /\ \/ /\ call[c].at # "manifest" /\ call'[c] # NULL /\ mixed' = mixed
              /\ call'[c].at = IF call[c].at = "app" THEN "index" ELSE "manifest"
              /\ call'[c].ws = call[c].ws /\ call'[c].plan = call[c].plan
              /\ call'[c].bundle = call[c].bundle /\ call'[c].alone = call[c].alone
           \/ /\ call[c].at = "manifest" /\ call'[c] = NULL
              /\ mixed' = IF call[c].alone THEN mixed \ {call[c].ws} ELSE mixed
    <3>1. /\ call[c] # NULL /\ call[c] \in Call /\ call[c].at \in Writing
          /\ call[c].ws \in Workspaces
      BY <1>18 DEF WriteOut, IsWriting, Types, CallsAreTyped, Call
    <3>2. out' = [out EXCEPT ![call[c].ws][call[c].at] =
                    IF call[c].at = "app" THEN call[c].bundle ELSE call[c].plan]
      BY <1>18 DEF WriteOut
    <3>3. /\ \A w \in Workspaces \ {call[c].ws} : out'[w] = out[w]
          /\ \A p \in Piece \ {call[c].at} : out'[call[c].ws][p] = out[call[c].ws][p]
          /\ out'[call[c].ws][call[c].at] =
               IF call[c].at = "app" THEN call[c].bundle ELSE call[c].plan
      BY <3>1, <3>2 DEF Types, OutIsTyped, Tree, Piece, Writing
    <3>4. CASE call[c].at # "manifest"
      <4>1. PICK step \in {"index", "manifest"} :
              /\ step = IF call[c].at = "app" THEN "index" ELSE "manifest"
              /\ call' = [call EXCEPT ![c] = [call[c] EXCEPT !.at = step]]
              /\ mixed' = mixed
        BY <1>18, <3>4 DEF WriteOut, Goto
      <4> DEFINE r == [call[c] EXCEPT !.at = step]
      <4>2. /\ r \in Call /\ r.at = step /\ r.ws = call[c].ws /\ r.plan = call[c].plan
            /\ r.bundle = call[c].bundle /\ r.alone = call[c].alone
        BY <3>1 DEF Call, BuildStep
      <4> HIDE DEF r
      <4>3. call'[c] = r /\ \A d \in Callers \ {c} : call'[d] = call[d]
        BY <4>1 DEF r, Types, CallsAreTyped
      <4> QED
        BY <1>18, <3>1, <3>3, <3>4, <4>1, <4>2, <4>3, NullAssumption DEF WriteOut, work
    <3>5. CASE call[c].at = "manifest"
      <4>1. call' = [call EXCEPT ![c] = NULL]
            /\ mixed' = IF call[c].alone THEN mixed \ {call[c].ws} ELSE mixed
        BY <1>18, <3>5 DEF WriteOut
      <4>2. call'[c] = NULL /\ \A d \in Callers \ {c} : call'[d] = call[d]
        BY <4>1 DEF Types, CallsAreTyped
      <4> QED
        BY <1>18, <3>1, <3>3, <3>5, <4>1, <4>2 DEF WriteOut, work
    <3> QED
      BY <3>4, <3>5
  <2>2. AloneIsUndisturbed'
    <3>1. ASSUME NEW d \in Callers \ {c}, call[d] # NULL, call[d].alone
          PROVE  /\ call[d].ws # call[c].ws /\ call[d].ws \in Workspaces
                 /\ out'[call[d].ws] = out[call[d].ws]
                 /\ call'[c] # NULL => call'[c].ws # call[d].ws
      BY <2>1, <3>1 DEF OneBuild, AloneIsUndisturbed, Types, CallsAreTyped, Call
    <3>2. ASSUME call'[c] # NULL, call[c].alone
          PROVE  LET w == call[c].ws IN
                 /\ call'[c].at \in {"index", "manifest"}
                 /\ IsSoundOf(call[c].bundle, call[c].plan)
                 /\ out'[w]["app"] = call[c].bundle
                 /\ call'[c].at = "manifest" => out'[w]["index"] = call[c].plan
      <4>1. /\ call[c] # NULL /\ call[c].at \in {"app", "index"}
            /\ call'[c].at = IF call[c].at = "app" THEN "index" ELSE "manifest"
        BY <2>1, <3>2 DEF Writing
      <4>2. IsSoundOf(call[c].bundle, call[c].plan)
        BY <3>2, <4>1 DEF OneBuild, AloneIsUndisturbed, Writing
      <4>3. CASE call[c].at = "app"
        BY <2>1, <4>1, <4>2, <4>3
      <4>4. CASE call[c].at = "index"
        <5>1. out[call[c].ws]["app"] = call[c].bundle
          BY <3>2, <4>1, <4>4 DEF OneBuild, AloneIsUndisturbed
        <5>2. "app" \in Piece \ {call[c].at}
          BY <4>4 DEF Piece
        <5> QED
          BY <2>1, <4>1, <4>2, <4>4, <5>1, <5>2
      <4> QED
        BY <4>1, <4>3, <4>4
    <3>3. ASSUME NEW d \in Callers \ {c}, call'[d] # NULL, call'[d].alone
          PROVE  LET w == call'[d].ws
                     v == call'[d].plan IN
                 /\ \A e \in Callers \ {d} : call'[e] # NULL => call'[e].ws # w
                 /\ source'[w] = v /\ v \notin Malformed
                 /\ call'[d].at \in Compiling => deps'[w] = "whole"
                 /\ call'[d].at \in {"done", "collecting"} => IsSoundOf(dist'[w], v)
                 /\ call'[d].at \in Writing => IsSoundOf(call'[d].bundle, v)
                 /\ call'[d].at \in {"index", "manifest"} =>
                      out'[w]["app"] = call'[d].bundle
                 /\ call'[d].at = "manifest" => out'[w]["index"] = v
      BY <2>1, <3>1, <3>3 DEF OneBuild, AloneIsUndisturbed
    <3>4. ASSUME call'[c] # NULL, call'[c].alone
          PROVE  LET w == call[c].ws
                     v == call[c].plan IN
                 /\ call'[c].ws = w /\ call'[c].plan = v
                 /\ call'[c].bundle = call[c].bundle
                 /\ \A e \in Callers \ {c} : call'[e] # NULL => call'[e].ws # w
                 /\ source'[w] = v /\ v \notin Malformed
                 /\ call'[c].at \in {"index", "manifest"}
                 /\ IsSoundOf(call[c].bundle, v)
                 /\ out'[w]["app"] = call[c].bundle
                 /\ call'[c].at = "manifest" => out'[w]["index"] = v
      <4>1. /\ call[c] # NULL /\ call[c].alone
            /\ call'[c].ws = call[c].ws /\ call'[c].plan = call[c].plan
            /\ call'[c].bundle = call[c].bundle
            /\ \A e \in Callers \ {c} : call'[e] = call[e]
            /\ source' = source
        BY <2>1, <3>4
      <4>2. /\ \A e \in Callers \ {c} : call[e] # NULL => call[e].ws # call[c].ws
            /\ source[call[c].ws] = call[c].plan /\ call[c].plan \notin Malformed
        BY <4>1 DEF OneBuild, AloneIsUndisturbed
      <4> QED
        BY <3>2, <3>4, <4>1, <4>2
    <3> QED
      BY <3>3, <3>4 DEF AloneIsUndisturbed, IsSoundOf, Compiling
  <2>3. SharedIsMixed'
    <3>1. ASSUME NEW d \in Callers \ {c}, IsWriting(d), ~call[d].alone
          PROVE  call[d].ws \in mixed'
      BY <2>1, <3>1 DEF OneBuild, AloneIsUndisturbed, SharedIsMixed, IsWriting
    <3>2. ASSUME call'[c] # NULL, ~call[c].alone
          PROVE  call[c].ws \in mixed'
      BY <2>1, <3>2 DEF OneBuild, SharedIsMixed, IsWriting
    <3> QED
      BY <2>1, <3>1, <3>2 DEF SharedIsMixed, IsWriting
  <2>4. QuietIsOneBuild'
    <3> SUFFICES ASSUME NEW w \in Workspaces \ mixed',
                        \A d \in Callers : IsWriting(d)' => call'[d].ws # w
                 PROVE  out'[w] = EmptyTree \/ IsOneBuild(out'[w])
      BY DEF QuietIsOneBuild, EmptyTree, IsOneBuild
    <3>1. CASE w # call[c].ws
      <4>1. out'[w] = out[w] /\ w \notin mixed
        BY <2>1, <3>1
      <4>2. \A d \in Callers : IsWriting(d) => call[d].ws # w
        BY <2>1, <3>1 DEF IsWriting
      <4> QED
        BY <4>1, <4>2 DEF OneBuild, QuietIsOneBuild
    <3>2. CASE w = call[c].ws
      <4>1. call[c].at = "manifest"
        BY <2>1, <3>2 DEF IsWriting, Writing
      <4>2. call[c].alone
        BY <2>1, <3>2, <4>1 DEF OneBuild, SharedIsMixed, IsWriting
      <4>3. LET v == call[c].plan IN
            /\ IsSoundOf(call[c].bundle, v) /\ v \notin Malformed
            /\ out[w]["app"] = call[c].bundle /\ out[w]["index"] = v
        BY <2>1, <3>2, <4>1, <4>2 DEF OneBuild, AloneIsUndisturbed, Writing
      <4>4. /\ out'[w]["app"] = out[w]["app"] /\ out'[w]["index"] = out[w]["index"]
            /\ out'[w]["manifest"] = call[c].plan
        BY <2>1, <3>2, <4>1 DEF Piece
      <4> QED
        BY <4>3, <4>4 DEF IsSoundOf, IsOneBuild
    <3> QED
      BY <3>1, <3>2
  <2> QED
    BY <2>1, <2>2, <2>3, <2>4 DEF OneBuild
<1>19. ASSUME NEW h \in Hosts, Crash(h)
      PROVE  OneBuild'
  <2>1. AloneIsUndisturbed'
    BY <1>19 DEF Crash, AloneIsUndisturbed, OneBuild, Types, CallsAreTyped, Call,
      IsSoundOf, Compiling, Writing, WorkIsTyped, Bundle, OutIsTyped, Tree, Piece,
      Idle, In, IsWriting, work
  <2>2. SharedIsMixed'
    BY <1>19 DEF Crash, SharedIsMixed, OneBuild, Types, CallsAreTyped, Call,
      IsWriting, Writing, HistoryIsTyped, Idle, In, work
  <2>3. QuietIsOneBuild'
    BY <1>19 DEF Crash, QuietIsOneBuild, OneBuild, Types, CallsAreTyped, Call,
      SharedIsMixed, IsWriting, Writing, HistoryIsTyped, OutIsTyped, Tree, Piece,
      Idle, In, work
  <2> QED
    BY <2>1, <2>2, <2>3 DEF OneBuild
<1>20. CASE UNCHANGED <<call, deps, dist, mixed, out, source>>
  BY <1>20 DEF OneBuild, AloneIsUndisturbed, SharedIsMixed, QuietIsOneBuild,
    IsWriting
<1> QED
  BY <1>1, <1>2, <1>3, <1>4, <1>5, <1>6, <1>7, <1>8, <1>9, <1>10, <1>11, <1>12,
    <1>13, <1>14, <1>15, <1>16, <1>17, <1>18, <1>19, <1>20
  DEF Next, vars, RenderWork, InitialRender, LoopRender, LoopCompletes, FinalRender,
    GiveUp, WriteEvidence, WriteLatest, work, machine, report, bounds

LEMMA OneBuildInit == Init => OneBuild
  BY DEF Init, OneBuild, AloneIsUndisturbed, SharedIsMixed, QuietIsOneBuild, IsWriting

\* Unless its last write was cut short or shared, OUT holds nothing or one sound
\* build, with the page and the manifest of its source (NativeEsbuildBuilder.build).
THEOREM OutHoldsOneBuild == Spec => []OutIsOneBuild
<1>1. Init => OneBuild
  BY OneBuildInit
<1>2. Types /\ OneBuild /\ [Next]_vars => OneBuild'
  BY OneBuildStep
<1>3. OneBuild => OutIsOneBuild
  BY DEF OneBuild, QuietIsOneBuild, IsOneBuild, OutIsOneBuild, On, IsWriting
<1> QED
  BY TypeCorrect, <1>1, <1>2, <1>3, PTL DEF Spec

=============================================================================
