----------------------------- MODULE CommandLog -----------------------------
(***************************************************************************)
(* What the Project Control Plane promises the callers of execute, without *)
(* threads, transactions or crashes: commands are applied one at a time,   *)
(* each to the revision it names, at most one per command id, and whoever  *)
(* is told that a command succeeded is told the revision it made.          *)
(*                                                                         *)
(* CommandPipeline implements this specification.                          *)
(***************************************************************************)
EXTENDS Naturals, Sequences

CONSTANT Commands       \* records with the fields id and expected

VARIABLES log,          \* the commands applied, in order of revision
          answered      \* <<command, revision>> pairs callers were told

clVars == <<log, answered>>

CLInit == log = <<>> /\ answered = {}

Apply(c) ==
  /\ c.expected = Len(log)
  /\ \A n \in 1 .. Len(log) : log[n].id # c.id
  /\ log' = Append(log, c)
  /\ UNCHANGED answered

Answer(n) ==
  /\ answered' = answered \cup {<<log[n], n>>}
  /\ UNCHANGED log

CLNext == (\E c \in Commands : Apply(c)) \/ (\E n \in 1 .. Len(log) : Answer(n))

CLSpec == CLInit /\ [][CLNext]_clVars
=============================================================================
