-------------------------- MODULE MCCommandPipeline --------------------------
(* Small instances of CommandStores for TLC. *)
EXTENDS CommandStores, TLC

\* DirectIds are among the Ids.
Symmetry == Permutations(Threads) \cup Permutations(Projects)
              \cup Permutations(DirectIds) \cup Permutations(DirectBodies)

\* The audit log of the adapters is only appended to.
View == <<vars, transactional_writer, projects, memoryRevisions, records,
          projectRows, revisionRows, eventRows, ledgerRows, portCall, answers,
          follower>>
=============================================================================
