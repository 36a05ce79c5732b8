---------------------------- MODULE MCSandboxBuild ----------------------------
(* Small instances of SandboxBuild for TLC. *)
EXTENDS SandboxBuild, TLC

CONSTANTS c1, c2, a, h1, h2

\* Two threads of one host; an acceptance run has a process of its own.
HostOfCaller == (c1 :> h1) @@ (c2 :> h1) @@ (a :> h2)

Threads == Permutations({c1, c2})
Symmetry == {p @@ q @@ (a :> a) : p \in Threads, q \in Permutations(Letters)}
=============================================================================
