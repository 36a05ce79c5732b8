---------------------------- MODULE SandboxBuild ----------------------------
(***************************************************************************)
(* A framework build in the sandbox, the render of what it made and the    *)
(* acceptance run over both (src/src/oeydesign: builder.py,                *)
(* framework_artifact.py, sandbox.py, _windows_appcontainer.py,            *)
(* renderer.py, phase6_acceptance.py).                                     *)
(*                                                                         *)
(* A build copies the plan and the dependencies into WORK, has esbuild run *)
(* by the launcher on a drive letter mapped to the workspace, and writes   *)
(* OUT file by file.  Threads of one host process share a lock; the drive  *)
(* letters are the machine's.  A host process may die at any step.         *)
(*                                                                         *)
(* Abstractions:                                                           *)
(*  - A source tree is a version; of a version it matters whether the      *)
(*    contract refuses it, esbuild refuses it, its bundles differ from run *)
(*    to run and its page reports errors.  A digest is what it is of.      *)
(*  - A call that is refused before it changes anything is no step.        *)
(***************************************************************************)
EXTENDS Naturals, FiniteSets

CONSTANTS
  NULL,        \* Python's None
  CUT,         \* a file cut short
  Callers,     \* threads that build and render
  Hosts,       \* host processes
  HostOf,      \* the host of a caller
  Acceptors,   \* callers that are the main thread of an acceptance run
  Shared,      \* workspaces agent sessions work in
  Stamped,     \* workspaces an acceptance run names after its own start
  Letters,     \* drive letters
  Versions,    \* source trees
  Malformed,   \* versions the artifact contract refuses
  Failing,     \* versions esbuild refuses
  Flaky,       \* versions whose bundle differs from run to run
  Broken,      \* versions whose page reports errors
  MaxBuilds,   \* bound: builds begun
  MaxEdits,    \* bound: writes to WORK and renders of it
  MaxCrashes   \* bound: deaths of a host

Workspaces == Shared \cup Stamped

ASSUME HostsAssumption ==
  HostOf \in [Callers -> Hosts] /\ Acceptors \subseteq Callers
ASSUME WorkspacesAssumption == Shared \cap Stamped = {}
ASSUME VersionsAssumption ==
  {Malformed, Failing, Flaky, Broken} \subseteq SUBSET Versions
ASSUME BoundsAssumption == {MaxBuilds, MaxEdits, MaxCrashes} \subseteq Nat

\* A bundle: what it was made of, which of the outputs of a flaky build it is,
\* and whether the compiler had every source and dependency and finished.
Bundle == [version : Versions, variant : {0, 1}, sound : BOOLEAN]
Piece == {"app", "index", "manifest"}
Tree == [Piece -> Bundle \cup Versions \cup {NULL}]

BuildStep == {"planned", "copying", "ready", "locked", "mapped", "launched",
              "done", "failed", "collecting", "app", "index", "manifest"}
Writing == {"app", "index", "manifest"}
ProcessStatus == {"none", "suspended", "running", "exited", "killed"}
\* A build under way: `alone` while nobody else works on its workspace.
Call == [at : BuildStep, ws : Workspaces, plan : Versions, alone : BOOLEAN,
         mask : SUBSET Letters, drive : Letters \cup {NULL},
         process : ProcessStatus, inJob : BOOLEAN,
         bundle : Bundle \cup {NULL}]

Phases == {"first", "second", "initial", "loop", "final", "evidence", "latest"}
\* What a render showed, and the build the loop counts it for.
Shot == [healthy : BOOLEAN, of : Bundle \cup {NULL}]
Acceptance == [phase : Phases, ws : Stamped, first : Bundle \cup {NULL},
               second : Bundle \cup {NULL}, last : Bundle \cup {NULL},
               seen : Shot \cup {NULL}]
Evidence == [ws : Stamped, first : Bundle, second : Bundle, shot : Shot]
ASSUME NullAssumption ==
  /\ CUT \notin Evidence \cup {NULL}
  /\ NULL \notin Callers \cup Workspaces \cup Letters \cup Versions
  /\ NULL \notin Bundle /\ NULL \notin Call /\ NULL \notin Shot
  /\ NULL \notin Acceptance /\ NULL \notin Evidence

VARIABLES
  source,     \* WORK: the source tree
  deps,       \* WORK: node_modules
  dist,       \* WORK: dist/assets/app.js
  pictures,   \* workspaces with a screenshot in WORK
  out,        \* OUT
  drives,     \* the workspace a letter is mapped to
  lock,       \* _NATIVE_LOCK of a host
  call,       \* the build a caller is in
  accept,     \* the acceptance run a caller is in
  evidence,   \* evidence files
  latest,     \* latest.json
  builds,     \* builds begun
  edits,      \* writes to WORK and renders of it
  crashes,    \* deaths so far
  left,       \* history: processes that outlived their host
  mixed       \* history: workspaces where a write of OUT was cut or shared

vars == <<source, deps, dist, pictures, out, drives, lock, call, accept, evidence, latest,
          builds, edits, crashes, left, mixed>>
machine == <<drives, lock, left>>
work == <<source, deps, dist, pictures>>
report == <<accept, evidence, latest>>
bounds == <<builds, edits, crashes>>

TypeOK ==
  /\ source \in [Workspaces -> Versions \cup {NULL}]
  /\ deps \in [Workspaces -> {"absent", "partial", "whole"}]
  /\ dist \in [Workspaces -> Bundle \cup {NULL}]
  /\ pictures \subseteq Workspaces
  /\ out \in [Workspaces -> Tree]
  /\ drives \in [Letters -> Workspaces \cup {NULL}]
  /\ lock \in [Hosts -> Callers \cup {NULL}]
  /\ call \in [Callers -> Call \cup {NULL}]
  /\ \A c \in Callers : (call[c] # NULL /\ call[c].at \in {"mapped", "launched", "done"})
       => call[c].drive # NULL
  /\ accept \in [Callers -> Acceptance \cup {NULL}]
  /\ evidence \subseteq Evidence
  /\ latest \in Evidence \cup {NULL, CUT}
  /\ builds \in Nat /\ edits \in Nat /\ crashes \in Nat
  /\ left \subseteq [process : ProcessStatus, inJob : BOOLEAN]
  /\ mixed \subseteq Workspaces

EmptyTree == [p \in Piece |-> NULL]
\* The sessions have written their sources.
Init ==
  /\ source \in {f \in [Workspaces -> Versions \cup {NULL}] :
                  \A w \in Workspaces : f[w] = NULL <=> w \in Stamped}
  /\ deps = [w \in Workspaces |-> "absent"]
  /\ dist = [w \in Workspaces |-> NULL]
  /\ pictures = {}
  /\ out = [w \in Workspaces |-> EmptyTree]
  /\ drives = [l \in Letters |-> NULL]
  /\ lock = [h \in Hosts |-> NULL]
  /\ call = [c \in Callers |-> NULL]
  /\ accept = [c \in Callers |-> NULL]
  /\ evidence = {} /\ latest = NULL
  /\ builds = 0 /\ edits = 0 /\ crashes = 0
  /\ left = {} /\ mixed = {}

----------------------------------------------------------------------------
(* Who works where *)

At(c, step) == call[c] # NULL /\ call[c].at = step
In(c, phase) == accept[c] # NULL /\ accept[c].phase = phase
On(w) == {c \in Callers : call[c] # NULL /\ call[c].ws = w}
IsWriting(c) == call[c] # NULL /\ call[c].at \in Writing
\* Whoever touches w takes from every build on it that it is alone.
Disturbed(calls, w) ==
  [c \in Callers |-> IF c \in On(w) THEN [calls[c] EXCEPT !.alone = FALSE]
                     ELSE calls[c]]
MixedBy(w) == IF \E c \in On(w) : IsWriting(c) THEN mixed \cup {w} ELSE mixed

Goto(c, step) == call' = [call EXCEPT ![c].at = step]

\* A session writes into WORK or deletes a file of it; the loop of an acceptance
\* run is given no tool that does.
Edit(c, w, v) ==
  /\ call[c] = NULL /\ c \notin Acceptors /\ edits < MaxEdits
  /\ w \in Shared
  /\ \/ source[w] # v /\ UNCHANGED pictures
     \/ source[w] = v /\ w \in pictures /\ pictures' = pictures \ {w}
  /\ source' = [source EXCEPT ![w] = v]
  /\ call' = Disturbed(call, w)
  /\ mixed' = MixedBy(w)
  /\ edits' = edits + 1
  /\ UNCHANGED <<deps, dist, out, machine, report, builds, crashes>>

----------------------------------------------------------------------------
(* NativeEsbuildBuilder.build up to the launch *)

\* FrameworkArtifactContract.prepare over the files of WORK: a screenshot among
\* them is no text.
Prepared(w) == source[w] \in Versions \ Malformed /\ w \notin pictures

BeginBuild(c, w) ==
  /\ call[c] = NULL /\ builds < MaxBuilds
  /\ \/ c \notin Acceptors /\ w \in Shared
     \/ /\ accept[c] # NULL /\ accept[c].phase \in {"first", "second", "loop"}
        /\ w = accept[c].ws
  /\ Prepared(w)
  /\ call' = [Disturbed(call, w) EXCEPT ![c] =
       [at |-> "planned", ws |-> w, plan |-> source[w], alone |-> On(w) = {},
        mask |-> {}, drive |-> NULL, process |-> "none", inJob |-> FALSE,
        bundle |-> NULL]]
  /\ builds' = builds + 1
  /\ mixed' = MixedBy(w)
  /\ UNCHANGED <<work, out, machine, report, edits, crashes>>

\* The plan goes over the sources; node_modules is removed to be copied anew.
WritePlan(c) ==
  /\ At(c, "planned")
  /\ source' = [source EXCEPT ![call[c].ws] = call[c].plan]
  /\ deps' = [deps EXCEPT ![call[c].ws] = "partial"]
  /\ Goto(c, "copying")
  /\ UNCHANGED <<dist, pictures, out, machine, report, bounds, mixed>>

CopyDependencies(c) ==
  /\ At(c, "copying")
  /\ deps' = [deps EXCEPT ![call[c].ws] = "whole"]
  /\ Goto(c, "ready")
  /\ UNCHANGED <<source, dist, pictures, out, machine, report, bounds, mixed>>

\* An error leaves build(): in its first two builds it ends the acceptance run,
\* in the loop it is the answer to run_build.
Raised(c) ==
  /\ call' = [call EXCEPT ![c] = NULL]
  /\ accept' = IF In(c, "first") \/ In(c, "second")
               THEN [accept EXCEPT ![c] = NULL] ELSE accept

\* No dependency image, or no esbuild in what was copied.
Unavailable(c) ==
  /\ \/ /\ At(c, "planned")
        /\ source' = [source EXCEPT ![call[c].ws] = call[c].plan]
     \/ /\ At(c, "ready") /\ deps[call[c].ws] # "whole"
        /\ UNCHANGED source
  /\ Raised(c)
  /\ UNCHANGED <<deps, dist, pictures, out, machine, evidence, latest, bounds, mixed>>

----------------------------------------------------------------------------
(* WindowsAppContainerLauncher.run and run_process *)

\* The letters that GetLogicalDrives reports free.
TakeLock(c) ==
  /\ At(c, "ready")
  /\ lock[HostOf[c]] = NULL
  /\ lock' = [lock EXCEPT ![HostOf[c]] = c]
  /\ call' = [call EXCEPT ![c].at = "locked",
                          ![c].mask = {l \in Letters : drives[l] = NULL}]
  /\ UNCHANGED <<work, out, drives, left, report, bounds, mixed>>

\* Mutant of MapDrive: what subst answers is not looked at.
MapDriveBlindly(c) ==
  /\ At(c, "locked")
  /\ \E l \in call[c].mask :
       /\ drives' = IF drives[l] = NULL THEN [drives EXCEPT ![l] = call[c].ws]
                    ELSE drives
       /\ call' = [call EXCEPT ![c].at = "mapped", ![c].drive = l]
  /\ UNCHANGED <<work, out, lock, left, report, bounds, mixed>>

\* subst refuses a letter that another process has mapped since.
MapDrive(c) ==
  /\ At(c, "locked")
  /\ \E l \in call[c].mask :
       /\ drives[l] = NULL
       /\ drives' = [drives EXCEPT ![l] = call[c].ws]
       /\ call' = [call EXCEPT ![c].at = "mapped", ![c].drive = l]
  /\ UNCHANGED <<work, out, lock, left, report, bounds, mixed>>

NoDrive(c) ==
  /\ At(c, "locked")
  /\ \A l \in call[c].mask : drives[l] # NULL
  /\ Goto(c, "failed")
  /\ UNCHANGED <<work, out, machine, report, bounds, mixed>>

\* CreateProcessW with CREATE_SUSPENDED.
CreateProcess(c) ==
  /\ At(c, "mapped") /\ call[c].process = "none"
  /\ \/ call' = [call EXCEPT ![c].process = "suspended"]
     \/ Goto(c, "failed")
  /\ UNCHANGED <<work, out, machine, report, bounds, mixed>>

\* A job with its limits, and the process in it; a process that cannot be put
\* into one is terminated.
AssignJob(c) ==
  /\ At(c, "mapped") /\ call[c].process = "suspended" /\ ~call[c].inJob
  /\ \/ call' = [call EXCEPT ![c].inJob = TRUE]
     \/ call' = [call EXCEPT ![c].at = "failed", ![c].process = "killed"]
  /\ UNCHANGED <<work, out, machine, report, bounds, mixed>>

ResumeThread(c) ==
  /\ At(c, "mapped") /\ call[c].process = "suspended" /\ call[c].inJob
  /\ \/ call' = [call EXCEPT ![c].at = "launched", ![c].process = "running"]
     \/ call' = [call EXCEPT ![c].at = "failed", ![c].process = "killed"]
  /\ UNCHANGED <<work, out, machine, report, bounds, mixed>>

\* What esbuild makes of WORK when it gets to the end.
Bundles(w) ==
  {[version |-> source[w], variant |-> n, sound |-> deps[w] = "whole"] :
      n \in IF source[w] \in Flaky THEN {0, 1} ELSE {0}}

\* The process ends by itself, either way when its dependencies are not whole.
ProcessExits(c) ==
  /\ At(c, "launched")
  /\ LET w == call[c].ws IN
       \/ /\ source[w] \notin Failing
          /\ \E b \in Bundles(w) : dist' = [dist EXCEPT ![w] = b]
          /\ call' = [call EXCEPT ![c].process = "exited", ![c].at = "done"]
       \/ /\ source[w] \in Failing \/ deps[w] # "whole"
          /\ call' = [call EXCEPT ![c].process = "exited", ![c].at = "failed"]
          /\ UNCHANGED dist
  /\ UNCHANGED <<source, deps, pictures, out, machine, report, bounds, mixed>>

\* TerminateJobObject; the output may be there in part.
Timeout(c) ==
  /\ At(c, "launched")
  /\ call' = [call EXCEPT ![c].process = "killed", ![c].at = "failed"]
  /\ dist' \in {dist} \cup
       {[dist EXCEPT ![call[c].ws] = [b EXCEPT !.sound = FALSE]] :
           b \in Bundles(call[c].ws)}
  /\ UNCHANGED <<source, deps, pictures, out, machine, report, bounds, mixed>>

\* The finally of run_process: subst /D and the lock.
Unmap(c) ==
  /\ drives' = [l \in Letters |-> IF l = call[c].drive THEN NULL ELSE drives[l]]
  /\ lock' = [lock EXCEPT ![HostOf[c]] = NULL]
  /\ UNCHANGED left

\* Mutant of LauncherFails: exit status and timeout are not looked at.
LauncherFailsUnseen(c) ==
  /\ At(c, "failed") /\ Unmap(c) /\ Goto(c, "collecting")
  /\ UNCHANGED <<work, out, report, bounds, mixed>>

LauncherFails(c) ==
  /\ At(c, "failed") /\ Unmap(c) /\ Raised(c)
  /\ UNCHANGED <<work, out, evidence, latest, bounds, mixed>>

LauncherReturns(c) ==
  /\ At(c, "done") /\ Unmap(c) /\ Goto(c, "collecting")
  /\ UNCHANGED <<work, out, report, bounds, mixed>>

----------------------------------------------------------------------------
(* NativeEsbuildBuilder.build after the launch *)

ReadBundle(c) ==
  /\ At(c, "collecting")
  /\ dist[call[c].ws] # NULL
  /\ call' = [call EXCEPT ![c].at = "app", ![c].bundle = dist[call[c].ws]]
  /\ mixed' = IF call[c].alone THEN mixed ELSE mixed \cup {call[c].ws}
  /\ UNCHANGED <<work, out, machine, report, bounds>>

\* Mutant of Compared: two builds that differ are let through.
ComparedNever(c, b) ==
  IF In(c, "first") THEN [accept EXCEPT ![c].phase = "second", ![c].first = b]
  ELSE IF In(c, "second")
  THEN [accept EXCEPT ![c].phase = "initial", ![c].second = b]
  ELSE IF In(c, "loop") THEN [accept EXCEPT ![c].last = b, ![c].seen = NULL]
  ELSE accept

\* What an acceptance run makes of a build that returned.
Compared(c, b) ==
  IF In(c, "first") THEN [accept EXCEPT ![c].phase = "second", ![c].first = b]
  ELSE IF In(c, "second") /\ accept[c].first = b
  THEN [accept EXCEPT ![c].phase = "initial", ![c].second = b]
  ELSE IF In(c, "second") THEN [accept EXCEPT ![c] = NULL]
  ELSE IF In(c, "loop") THEN [accept EXCEPT ![c].last = b, ![c].seen = NULL]
  ELSE accept

\* app.js is the bundle, index.html the plan's, and the manifest, which is the
\* last, names both.
WriteOut(c) ==
  /\ IsWriting(c)
  /\ LET at == call[c].at
         w == call[c].ws IN
       /\ out' = [out EXCEPT ![w][at] =
                    IF at = "app" THEN call[c].bundle ELSE call[c].plan]
       /\ \/ /\ at # "manifest"
             /\ Goto(c, IF at = "app" THEN "index" ELSE "manifest")
             /\ UNCHANGED <<accept, mixed>>
          \/ /\ at = "manifest"
             /\ call' = [call EXCEPT ![c] = NULL]
             /\ accept' = Compared(c, call[c].bundle)
             /\ mixed' = IF call[c].alone THEN mixed \ {w} ELSE mixed
  /\ UNCHANGED <<work, machine, evidence, latest, bounds>>

----------------------------------------------------------------------------
(* TrustedWebRenderer.render and run_acceptance *)

\* Nothing in the console, no page error, no failed request.
Healthy(tree) ==
  /\ NULL \notin {tree["app"], tree["index"]}
  /\ tree["app"].version \notin Broken

\* A render leaves its screenshot under the root it renders; the page of WORK
\* lacks its script.
RenderWork(c, w) ==
  /\ call[c] = NULL /\ edits < MaxEdits
  /\ \/ c \notin Acceptors /\ w \in Shared /\ UNCHANGED accept
     \/ /\ In(c, "loop") /\ w = accept[c].ws
        /\ accept' = IF accept[c].last = NULL THEN accept
                     ELSE [accept EXCEPT ![c].seen =
                             [healthy |-> FALSE, of |-> accept[c].last]]
  /\ source[w] # NULL
  /\ pictures' = pictures \cup {w}
  /\ edits' = edits + 1
  /\ UNCHANGED <<source, deps, dist, out, machine, call, evidence, latest,
                 builds, crashes, mixed>>

\* The source is copied into the WORK of a workspace of its own.
BeginAcceptance(c, w, v) ==
  /\ c \in Acceptors /\ accept[c] = NULL
  /\ w \in Stamped /\ source[w] = NULL
  /\ source' = [source EXCEPT ![w] = v]
  /\ accept' = [accept EXCEPT ![c] =
       [phase |-> "first", ws |-> w, first |-> NULL, second |-> NULL,
        last |-> NULL, seen |-> NULL]]
  /\ UNCHANGED <<deps, dist, pictures, out, machine, call, evidence, latest,
                 bounds, mixed>>

Idle(c, phase) == call[c] = NULL /\ In(c, phase)

InitialRender(c) ==
  /\ Idle(c, "initial") /\ Healthy(out[accept[c].ws])
  /\ accept' = [accept EXCEPT ![c].phase = "loop"]
  /\ UNCHANGED <<work, out, machine, call, evidence, latest, bounds, mixed>>

\* A render before the loop's first build is not counted.
LoopRender(c) ==
  /\ Idle(c, "loop") /\ accept[c].last # NULL
  /\ accept' = [accept EXCEPT ![c].seen =
       [healthy |-> Healthy(out[accept[c].ws]), of |-> accept[c].last]]
  /\ UNCHANGED <<work, out, machine, call, evidence, latest, bounds, mixed>>

\* The loop completes on a healthy render of its own latest build.
LoopCompletes(c) ==
  /\ Idle(c, "loop")
  /\ accept[c].last # NULL
  /\ accept[c].seen = [healthy |-> TRUE, of |-> accept[c].last]
  /\ accept' = [accept EXCEPT ![c].phase = "final"]
  /\ UNCHANGED <<work, out, machine, call, evidence, latest, bounds, mixed>>

FinalRender(c) ==
  /\ Idle(c, "final") /\ Healthy(out[accept[c].ws])
  /\ accept' = [accept EXCEPT ![c].phase = "evidence", ![c].seen =
                  [healthy |-> TRUE, of |-> out[accept[c].ws]["app"]]]
  /\ UNCHANGED <<work, out, machine, call, evidence, latest, bounds, mixed>>

\* No Chrome, an unhealthy render, a loop that did not complete.
GiveUp(c) ==
  /\ \E phase \in {"initial", "loop", "final"} : Idle(c, phase)
  /\ accept' = [accept EXCEPT ![c] = NULL]
  /\ UNCHANGED <<work, out, machine, call, evidence, latest, bounds, mixed>>

EvidenceOf(c) == [ws |-> accept[c].ws, first |-> accept[c].first,
                  second |-> accept[c].second, shot |-> accept[c].seen]

WriteEvidence(c) ==
  /\ Idle(c, "evidence")
  /\ evidence' = evidence \cup {EvidenceOf(c)}
  /\ accept' = [accept EXCEPT ![c].phase = "latest"]
  /\ UNCHANGED <<work, out, machine, call, latest, bounds, mixed>>

WriteLatest(c) ==
  /\ Idle(c, "latest")
  /\ latest' = EvidenceOf(c)
  /\ accept' = [accept EXCEPT ![c] = NULL]
  /\ UNCHANGED <<work, out, machine, call, evidence, bounds, mixed>>

----------------------------------------------------------------------------
\* A host dies.  Closing the handle of a job kills what is in it, a mapped letter
\* stays mapped, and latest.json may be cut short while it is written.
Crash(h) ==
  /\ crashes < MaxCrashes
  /\ LET dead == {c \in Callers : HostOf[c] = h}
         busy == {c \in dead : call[c] # NULL} IN
       /\ busy # {} \/ \E c \in dead : accept[c] # NULL
       /\ call' = [c \in Callers |-> IF c \in dead THEN NULL ELSE call[c]]
       /\ accept' = [c \in Callers |-> IF c \in dead THEN NULL ELSE accept[c]]
       /\ left' = left \cup
            {[process |-> call[c].process, inJob |-> FALSE] :
               c \in {d \in busy : call[d].process \in {"suspended", "running"}
                                   /\ ~call[d].inJob}}
       /\ mixed' = mixed \cup {call[c].ws : c \in {d \in busy : IsWriting(d)}}
       /\ latest' \in {latest} \cup
            {CUT : c \in {d \in dead : Idle(d, "latest")}}
  /\ lock' = [lock EXCEPT ![h] = NULL]
  /\ crashes' = crashes + 1
  /\ UNCHANGED <<work, out, drives, evidence, builds, edits>>

Next ==
  \/ \E c \in Callers, w \in Workspaces, v \in Versions :
       Edit(c, w, v) \/ BeginAcceptance(c, w, v)
  \/ \E c \in Callers, w \in Workspaces : BeginBuild(c, w) \/ RenderWork(c, w)
  \/ \E c \in Callers :
       \/ WritePlan(c) \/ CopyDependencies(c) \/ Unavailable(c)
       \/ TakeLock(c) \/ MapDrive(c) \/ NoDrive(c)
       \/ CreateProcess(c) \/ AssignJob(c) \/ ResumeThread(c)
       \/ ProcessExits(c) \/ Timeout(c)
       \/ LauncherFails(c) \/ LauncherReturns(c) \/ ReadBundle(c) \/ WriteOut(c)
       \/ InitialRender(c) \/ LoopRender(c) \/ LoopCompletes(c) \/ FinalRender(c)
       \/ GiveUp(c) \/ WriteEvidence(c) \/ WriteLatest(c)
  \/ \E h \in Hosts : Crash(h)

Spec == Init /\ [][Next]_vars

----------------------------------------------------------------------------
(* Properties *)

\* A process of generated code runs only inside its job, while its caller holds
\* the lock of its host and its letter leads to its own workspace; what outlives
\* a host never starts (_create_process assigns before it resumes, run_process
\* holds the lock from subst to subst /D).
RunsConfined ==
  /\ \A c \in Callers : At(c, "launched") =>
       /\ call[c].inJob
       /\ lock[HostOf[c]] = c
       /\ drives[call[c].drive] = call[c].ws
  /\ \A p \in left : p.process = "suspended"

\* Unless the last write of OUT was cut short or shared, OUT holds nothing or one
\* build: a bundle of whole dependencies and of a source that compiles, with the
\* page and the manifest of that source (build() raises before it touches OUT,
\* copies the dependencies anew and writes the manifest last).
OutIsOneBuild ==
  \A w \in Workspaces :
    (w \notin mixed /\ out[w] # EmptyTree /\ \A c \in On(w) : ~IsWriting(c)) =>
      LET app == out[w]["app"] IN
        /\ app \in Bundle /\ app.sound
        /\ app.version \notin Malformed \cup Failing
        /\ out[w]["index"] = app.version /\ out[w]["manifest"] = app.version

\* An acceptance run goes on to its renders only with two sound builds that agree;
\* the evidence latest.json names is there, its two builds agree, and its last
\* picture is a healthy one of the same source (run_acceptance compares the builds
\* before it renders and writes latest.json last).
LatestIsAccepted ==
  /\ \A c \in Acceptors :
       (accept[c] # NULL /\ accept[c].phase \notin {"first", "second"}) =>
         accept[c].first = accept[c].second /\ accept[c].first.sound
  /\ latest \notin {NULL, CUT} =>
       /\ latest \in evidence
       /\ latest.first = latest.second /\ latest.first.sound
       /\ latest.shot.healthy /\ latest.shot.of.version = latest.first.version
       /\ latest.shot.of.version \notin Broken
=============================================================================
