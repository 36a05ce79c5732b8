------------------------------- MODULE MCIntake -------------------------------
(* RepositoryIntake on small instances. *)
EXTENDS RepositoryIntake, TLC

\* Two files and a directory with one more; a name to skip, and a link.
MCKind == <<"file", "directory", "file", "link", "credential", "file">>
MCDirectory == <<0, 0, 2, 2, 0, 0>>
MCPaths == DOMAIN MCKind
MCSize == [c \in Contents |-> IF c = "long" THEN 2 ELSE 1]

\* Every file is a PNG.
MCKeys == {"image.dimensions", "repository.manifest", "repository.file"}
MCKeyOf == [p \in Sources \X Parts |->
              CASE p[2] = "whole" -> "image.dimensions"
                [] p[2] = "root" -> "repository.manifest"
                [] p[2] = "file" -> "repository.file"]

(***************************************************************************)
(* What tells two states apart.  Once no package is to be gathered any     *)
(* more, nothing but Derive itself looks at the records that are derived:  *)
(* those of packages and drafts are kept there.                            *)
(***************************************************************************)
MoreToGather ==
  \/ jobs < MaxJobs /\ Len(contexts) < MaxContexts
  \/ \E w \in Workers : At(w, "gathering")

EvidenceView ==
  IF MoreToGather THEN evidence ELSE {e \in evidence : IsNative(e)}

IntakeView ==
  <<disk, rows, EvidenceView, contexts, mount, job, jobs, cut, shared, cutMounts,
    scan, subject>>

Symmetry == Permutations(Workers) \cup Permutations(Files) \cup Permutations(Roots)
=============================================================================
