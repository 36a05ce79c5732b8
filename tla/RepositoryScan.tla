---------------------------- MODULE RepositoryScan ----------------------------
(***************************************************************************)
(* The scan behind a repository source (src/src/oeydesign/repository.py:   *)
(* RepositoryAuthorization, RepositoryIngestion._collect).                 *)
(*                                                                         *)
(* A person has picked a directory; the scan lists it, and every directory *)
(* under it, in the order of names, and reads one file after the other     *)
(* while its owner goes on working in it.  What the scan collected is then *)
(* stored as the snapshot (module Intake).                                 *)
(*                                                                         *)
(* Abstractions:                                                           *)
(*  - Paths are numbered in the order of the walk; what a path can be      *)
(*    (a file, a directory, something the scan skips or refuses) does not  *)
(*    change, whether it is there and what it holds does.                  *)
(*  - A content is a model value with a size; what is not a file has the   *)
(*    content Bare.  One open and read is one step.                        *)
(***************************************************************************)
EXTENDS Naturals, Sequences, SequencesExt, FiniteSetsExt

CONSTANTS
  NULL,
  Roots,      \* directories that have been at the authorized path
  Paths,      \* paths below it: numbered in the order of the walk
  Directory,  \* the directory a path is in; 0 is the root itself
  Kind,       \* what a path is
  Contents,   \* what a file may hold
  Bare,       \* what is there of anything but a file
  Absent,     \* nothing
  Size,       \* of each content
  MaxFiles, MaxBytes, \* the limits of RepositoryIngestion
  MaxScans,   \* bound: scans
  MaxEdits    \* bound: changes of the tree

Kinds == {"file", "directory", "excluded", "credential", "special", "link"}

\* Assumed of the constants (by the module that instantiates this one): a file
\* holds nothing, and what a directory holds is numbered after it and before
\* what follows it.
ConstantsAreSound ==
  /\ \E last \in Paths \cup {0} : Paths = 1 .. last
  /\ Kind \in [Paths -> Kinds]
  /\ Directory \in [Paths -> {p \in Paths : Kind[p] # "file"} \cup {0}]
  /\ Size \in [Contents -> Nat]
  /\ \A p \in Paths : Directory[p] < p
  /\ \A p, q \in Paths :
       Directory[q] < p /\ p < q => Directory[p] >= Directory[q]
  /\ {MaxFiles, MaxBytes} \subseteq Nat \ {0}

\* What the walk passes over (not a regular file, an excluded name).
Skipped == {p \in Paths : Kind[p] \in {"excluded", "credential", "special"}}
Regular == {p \in Paths : Kind[p] = "file"}
Folders == {p \in Paths : Kind[p] = "directory"}
Links == {p \in Paths : Kind[p] = "link"}

Collected == [path : Paths, content : Contents, bytes : Nat]

VARIABLES
  root,       \* the directory at the path; NULL when there is none
  authorized, \* the device and inode of the authorization
  tree,       \* what each path holds
  phase,      \* of the scan
  walk,       \* paths still to be visited; 0 is the root
  expected,   \* the size of the file about to be read
  files,      \* what has been collected
  total,      \* its bytes: total_bytes
  scans, edits,
  quiet       \* history: nothing has changed since the scan began

vars == <<root, authorized, tree, phase, walk, expected, files, total, scans,
          edits, quiet>>
repository == <<root, tree, edits>>

Init ==
  /\ root \in Roots
  /\ authorized = NULL
  /\ tree \in [Paths -> Contents \cup {Bare, Absent}]
  /\ \A p \in Paths : tree[p] \in IF p \in Regular THEN Contents \cup {Absent}
                                  ELSE {Bare, Absent}
  /\ phase = "idle" /\ walk = <<>> /\ expected = NULL /\ files = <<>>
  /\ total = 0
  /\ scans = 0 /\ edits = 0 /\ quiet = TRUE

----------------------------------------------------------------------------
(* The owner of the directory *)

Edit(p) ==
  /\ edits < MaxEdits
  /\ \E c \in (IF p \in Regular THEN Contents ELSE {Bare}) \cup {Absent} :
       c # tree[p] /\ tree' = [tree EXCEPT ![p] = c]
  /\ edits' = edits + 1 /\ quiet' = FALSE
  /\ UNCHANGED <<root, authorized, phase, walk, expected, files, total, scans>>

\* Another directory takes the place of the root, or none does.
ReplaceRoot(r) ==
  /\ edits < MaxEdits
  /\ r # root /\ root' = r
  /\ edits' = edits + 1 /\ quiet' = FALSE
  /\ UNCHANGED <<authorized, tree, phase, walk, expected, files, total, scans>>

----------------------------------------------------------------------------
(* RepositoryAuthorization *)

\* from_user_selection
Authorize ==
  /\ phase # "walking"
  /\ root # NULL
  /\ authorized' = root
  /\ UNCHANGED <<repository, phase, walk, expected, files, total, scans,
                 quiet>>

\* Mutant of IsCurrentRoot: any directory at the path will do.
IsAnyRoot == authorized # NULL /\ root # NULL

\* current_root: the path still leads to the directory that was picked.
IsCurrentRoot == authorized # NULL /\ root = authorized

----------------------------------------------------------------------------
(* RepositoryIngestion._collect *)

\* ingest_repository: the root is looked at once, before the walk.
Begin ==
  /\ phase # "walking" /\ scans < MaxScans
  /\ IsCurrentRoot
  /\ phase' = "walking" /\ walk' = <<0>> /\ files' = <<>>
  /\ total' = 0 /\ scans' = scans + 1 /\ quiet' = TRUE
  /\ UNCHANGED <<repository, authorized, expected>>

Current == Head(walk)
Visiting(S) == phase = "walking" /\ walk # <<>> /\ Current \in S
\* sorted(), by name.
InOrder(S) ==
  CHOOSE s \in SetToSeqs(S) : \A i, j \in 1 .. Len(s) : i < j => s[i] < s[j]
Listing(d) == InOrder({p \in Paths : Directory[p] = d /\ tree[p] # Absent})
IsThere(p) == root # NULL /\ (p = 0 \/ tree[p] # Absent)

\* POLICY_BLOCKED: nothing of the scan is kept.
Refuse ==
  /\ phase' = "refused" /\ walk' = <<>> /\ expected' = NULL
  /\ files' = <<>> /\ total' = 0
  /\ UNCHANGED <<repository, authorized, scans, quiet>>

\* visit: a directory is listed once, when the walk comes to it.
Visit ==
  /\ Visiting(Folders \cup {0})
  /\ IF IsThere(Current)
     THEN /\ walk' = Listing(Current) \o Tail(walk)
          /\ UNCHANGED <<repository, authorized, phase, expected, files, total,
                         scans, quiet>>
     ELSE Refuse

Skip ==
  /\ Visiting(Skipped)
  /\ walk' = Tail(walk)
  /\ UNCHANGED <<repository, authorized, phase, expected, files, total, scans,
                 quiet>>

RefuseLink == Visiting(Links) /\ Refuse

\* The count and the size are checked before a file is opened.
Stat ==
  /\ Visiting(Regular) /\ expected = NULL
  /\ IF /\ Len(files) < MaxFiles
        /\ IsThere(Current)
        /\ total + Size[tree[Current]] <= MaxBytes
     THEN /\ expected' = Size[tree[Current]]
          /\ UNCHANGED <<repository, authorized, phase, walk, files, total,
                         scans, quiet>>
     ELSE Refuse

\* No more is read than the limit leaves, and one byte to notice that there
\* is more.
ReadLength == Min({Size[tree[Current]], MaxBytes - total + 1})

Collect(n) ==
  /\ files' = Append(files, [path |-> Current, content |-> tree[Current],
                            bytes |-> n])
  /\ total' = total + n
  /\ walk' = Tail(walk) /\ expected' = NULL
  /\ UNCHANGED <<repository, authorized, phase, scans, quiet>>

\* Mutant of Read: whatever was read is taken.
ReadWithoutComparing ==
  /\ Visiting(Regular) /\ expected # NULL
  /\ IF IsThere(Current) THEN Collect(ReadLength) ELSE Refuse

\* A file that is not as long as it was is refused, and the scan with it.
Read ==
  /\ Visiting(Regular) /\ expected # NULL
  /\ IF IsThere(Current) /\ ReadLength = expected THEN Collect(expected)
     ELSE Refuse

Finish ==
  /\ phase = "walking" /\ walk = <<>>
  /\ phase' = "done"
  /\ UNCHANGED <<repository, authorized, walk, expected, files, total, scans,
                 quiet>>

Next ==
  \/ \E p \in Paths : Edit(p)
  \/ \E r \in Roots \cup {NULL} : ReplaceRoot(r)
  \/ Authorize \/ Begin
  \/ Visit \/ Skip \/ RefuseLink \/ Stat \/ Read \/ Finish

Spec == Init /\ [][Next]_vars

----------------------------------------------------------------------------
(* Properties *)

\* The paths a snapshot of the tree as it is has to hold.
IsReached[p \in Paths \cup {0}] ==
  \/ p = 0
  \/ /\ tree[p] # Absent /\ p \notin Skipped
     /\ IsReached[Directory[p]]
Admissible == {p \in Regular : IsReached[p]}

Holding(S) ==
  {[path |-> p, content |-> tree[p], bytes |-> Size[tree[p]]] : p \in S}

\* Adding up what the files hold, one after the other, never exceeds MaxBytes.
AddUp ==
  \E upTo \in [0 .. Len(files) -> 0 .. MaxBytes] :
    /\ upTo[0] = 0
    /\ \A i \in 1 .. Len(files) :
         upTo[i] = upTo[i - 1] + Size[files[i].content]

\* What the admissible files up to a path come to.
BytesUpTo[p \in Paths \cup {0}] ==
  IF p = 0 THEN 0
  ELSE BytesUpTo[p - 1] + IF p \in Admissible THEN Size[tree[p]] ELSE 0

\* A snapshot has no more files and bytes than the limits allow and holds
\* every file whole, however files grow and shrink between being measured and
\* being read (_collect).
ScanIsBounded ==
  /\ Len(files) <= MaxFiles /\ AddUp
  /\ \A i \in 1 .. Len(files) : files[i].bytes = Size[files[i].content]

\* A scan that nothing disturbed ends with every file of the picked directory,
\* in the order of names, and nothing the walk leaves out; it is refused for a
\* link or a limit alone (current_root, _collect).
QuietScanIsComplete ==
  /\ phase = "done" /\ quiet =>
       /\ root = authorized
       /\ Range(files) = Holding(Admissible)
       /\ \A i, j \in 1 .. Len(files) : i < j => files[i].path < files[j].path
       /\ \A p \in Links : ~IsReached[p]
  /\ phase = "refused" /\ quiet =>
       \/ \E p \in Links : IsReached[p]
       \/ Cardinality(Admissible) > MaxFiles
       \/ \E p \in Paths : BytesUpTo[p] > MaxBytes
=============================================================================
