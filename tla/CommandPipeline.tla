-------------------------- MODULE CommandPipeline ---------------------------
(***************************************************************************)
(* How a command reaches the database: ControlPlane._execute and the       *)
(* SQLite repository, command ledger and transactional writer, with        *)
(* several threads or processes executing commands on one project, each    *)
(* of which can die between any two steps.                                 *)
(*                                                                         *)
(* One action per access to the database, which serializes transactions    *)
(* (BEGIN IMMEDIATE).  What a command does to the project is not modelled  *)
(* here (see ProjectControl): a project is the sequence of the commands    *)
(* applied to it, so its revision is its length, and a snapshot that lost  *)
(* an update is a sequence that lacks a command.                           *)
(*                                                                         *)
(* Abstractions: a command is its id, the rest of its payload (body) and   *)
(* the revision it expects; CreateProject is the command that expects 0.   *)
(* The fingerprint is the command itself.  The workflow and delivery calls *)
(* of a dispatch, each a transaction of its own with a key derived from    *)
(* the command, are one step.                                              *)
(***************************************************************************)
EXTENDS Naturals, Sequences

CONSTANTS
  NULL,          \* Python's None
  Threads,       \* threads and processes that execute commands
  Ids,           \* command ids the callers use
  Bodies,        \* payloads
  MaxRevision    \* bound: revisions of the project

ASSUME MaxRevisionAssumption == MaxRevision \in Nat

\* What the callers may send: any id with any payload, an id twice included.
Commands == [id : Ids, body : Bodies, expected : 0 .. (MaxRevision - 1)]
IsCreate(c) == c.expected = 0

ASSUME NullAssumption == NULL \notin [command : Commands, revision : Nat]

CommandRecord == [command : Commands, revision : Nat]

VARIABLES
  project,    \* row of projects: the current snapshot
  revisions,  \* rows of project_revisions, by revision
  ledger,     \* rows of command_ledger, by command id
  effects,    \* workflow and delivery calls made, by command and revision
  audit,      \* commands with a SUCCEEDED audit record
  call,       \* what each thread is executing
  answered    \* <<command, revision>> pairs callers were told

store == <<project, revisions, ledger, effects, audit>>
vars == <<store, call, answered>>

Steps == {"idle", "lookup", "read", "dispatch", "commit", "audit",
          "stale", "rejected"}

\* snapshot is the thread's copy of the project, before its command.
Call == [at : Steps, command : Commands \cup {NULL}, snapshot : Seq(Commands)]
Idle == [at |-> "idle", command |-> NULL, snapshot |-> <<>>]

TypeOK ==
  /\ project \in Seq(Commands)
  /\ DOMAIN revisions \subseteq Nat
  /\ \A n \in DOMAIN revisions : revisions[n] \in Seq(Commands)
  /\ ledger \in [Ids -> CommandRecord \cup {NULL}]
  /\ effects \subseteq Commands \X Nat
  /\ audit \subseteq Commands
  /\ call \in [Threads -> Call]
  /\ \A t \in Threads : call[t].at # "idle" => call[t].command \in Commands
  /\ answered \subseteq Commands \X Nat

Init ==
  /\ project = <<>>
  /\ revisions = [n \in {} |-> <<>>]
  /\ ledger = [i \in Ids |-> NULL]
  /\ effects = {}
  /\ audit = {}
  /\ call = [t \in Threads |-> Idle]
  /\ answered = {}

----------------------------------------------------------------------------
(* Steps of one call of execute *)

Goto(t, step) == call' = [call EXCEPT ![t].at = step]

\* A caller hands a command to a thread.
Execute(t, c) ==
  /\ call[t].at = "idle"
  /\ call' = [call EXCEPT ![t] = [at |-> "lookup", command |-> c,
                                  snapshot |-> <<>>]]
  /\ UNCHANGED <<store, answered>>

Answered(t, n) ==
  /\ answered' = answered \cup {<<call[t].command, n>>}
  /\ call' = [call EXCEPT ![t] = Idle]

\* Mutant of Lookup: a record is answered without comparing fingerprints.
LookupTrustsId(t) ==
  /\ call[t].at = "lookup"
  /\ LET prior == ledger[call[t].command.id] IN
       \/ prior # NULL /\ Answered(t, prior.revision)
       \/ /\ prior = NULL
          /\ Goto(t, IF IsCreate(call[t].command) THEN "dispatch" ELSE "read")
          /\ UNCHANGED answered
  /\ UNCHANGED store

\* ledger.get: an id that has a record is answered from it, or refused when
\* the record is of another payload.
Lookup(t) ==
  /\ call[t].at = "lookup"
  /\ LET prior == ledger[call[t].command.id] IN
       \/ /\ prior # NULL
          /\ prior.command = call[t].command
          /\ Answered(t, prior.revision)
       \/ /\ prior # NULL
          /\ prior.command # call[t].command
          /\ Goto(t, "rejected")
          /\ UNCHANGED answered
       \/ /\ prior = NULL
          /\ Goto(t, IF IsCreate(call[t].command) THEN "dispatch" ELSE "read")
          /\ UNCHANGED answered
  /\ UNCHANGED store

\* repository.get and the comparison with the revision the command expects.
Read(t) ==
  /\ call[t].at = "read"
  /\ \/ /\ project = <<>>
        /\ Goto(t, "rejected")
     \/ /\ project # <<>>
        /\ Len(project) # call[t].command.expected
        /\ Goto(t, "stale")
     \/ /\ project # <<>>
        /\ Len(project) = call[t].command.expected
        /\ call' = [call EXCEPT ![t].at = "dispatch", ![t].snapshot = project]
  /\ UNCHANGED <<store, answered>>

\* Mutant of Dispatch: the calls are keyed by the revision before the command.
DispatchKeysOldRevision(t) ==
  /\ call[t].at = "dispatch"
  /\ \/ /\ Goto(t, "commit")
        /\ effects' = IF IsCreate(call[t].command) THEN effects
                      ELSE effects \cup {<<call[t].command,
                                           Len(call[t].snapshot)>>}
     \/ /\ Goto(t, "rejected")
        /\ UNCHANGED effects
  /\ UNCHANGED <<project, revisions, ledger, audit, answered>>

\* _dispatch on the copy: external calls first, then the command may still be
\* rejected.  CreateProject makes no external call.
Dispatch(t) ==
  /\ call[t].at = "dispatch"
  /\ \/ /\ Goto(t, "commit")
        /\ effects' = IF IsCreate(call[t].command) THEN effects
                      ELSE effects \cup {<<call[t].command,
                                           Len(call[t].snapshot) + 1>>}
     \/ /\ Goto(t, "rejected")
        /\ UNCHANGED effects
  /\ UNCHANGED <<project, revisions, ledger, audit, answered>>

----------------------------------------------------------------------------
(* The transaction that commits a command *)

Applied(t) == Append(call[t].snapshot, call[t].command)

\* Mutant of StillCurrent: the transaction does not compare revisions.
NeverStale(t) == TRUE

\* The row the command was computed from is still the current one.  A project
\* is inserted only where there is none.
StillCurrent(t) == Len(project) = Len(call[t].snapshot)

\* Mutant of Recordable: the transaction does not compare fingerprints.
AlwaysRecordable(t) == TRUE

\* _record refuses an id that was committed with another payload since the
\* lookup, and the transaction is rolled back.
Recordable(t) ==
  LET prior == ledger[call[t].command.id]
  IN prior # NULL => prior.command = call[t].command

\* A row that is there already is kept.
Recorded(t) ==
  LET id == call[t].command.id
  IN IF ledger[id] # NULL THEN ledger
     ELSE [ledger EXCEPT ![id] = [command |-> call[t].command,
                                  revision |-> Len(Applied(t))]]

Commit(t) ==
  /\ call[t].at = "commit"
  /\ StillCurrent(t)
  /\ Recordable(t)
  /\ project' = Applied(t)
  /\ revisions' = [n \in DOMAIN revisions \cup {Len(Applied(t))} |->
                     IF n = Len(Applied(t)) THEN Applied(t) ELSE revisions[n]]
  /\ ledger' = Recorded(t)
  /\ Goto(t, "audit")
  /\ UNCHANGED <<effects, audit, answered>>

CommitRefused(t) ==
  /\ call[t].at = "commit"
  /\ \/ /\ ~StillCurrent(t)
        /\ Goto(t, IF IsCreate(call[t].command) THEN "rejected" ELSE "stale")
     \/ /\ StillCurrent(t)
        /\ ~Recordable(t)
        /\ Goto(t, "rejected")
  /\ UNCHANGED <<store, answered>>

\* The audit record has its own transaction, after the commit.
Audit(t) ==
  /\ call[t].at = "audit"
  /\ audit' = audit \cup {call[t].command}
  /\ Answered(t, Len(Applied(t)))
  /\ UNCHANGED <<project, revisions, ledger, effects>>

\* A ContractError reaches the caller.
Reject(t) ==
  /\ call[t].at \in {"stale", "rejected"}
  /\ call' = [call EXCEPT ![t] = Idle]
  /\ UNCHANGED <<store, answered>>

\* The thread dies: what it had not committed is gone, its caller learns
\* nothing and may send the command again.
Crash(t) ==
  /\ call[t].at # "idle"
  /\ call' = [call EXCEPT ![t] = Idle]
  /\ UNCHANGED <<store, answered>>

Next ==
  \E t \in Threads :
    \/ \E c \in Commands : Execute(t, c)
    \/ Lookup(t)
    \/ Read(t)
    \/ Dispatch(t)
    \/ Commit(t)
    \/ CommitRefused(t)
    \/ Audit(t)
    \/ Reject(t)
    \/ Crash(t)

Spec == Init /\ [][Next]_vars

----------------------------------------------------------------------------
(* Properties *)

\* The ledger and the history tell the same story: an id has a record exactly
\* when one revision was made by it, and the record names that revision,
\* whatever was retried, raced or cut short (_execute, save_with_command).
LedgerMatchesHistory ==
  \A i \in Ids :
    /\ ledger[i] = NULL => \A n \in 1 .. Len(project) : project[n].id # i
    /\ ledger[i] # NULL =>
         /\ ledger[i].revision \in 1 .. Len(project)
         /\ project[ledger[i].revision] = ledger[i].command
         /\ \A n \in 1 .. Len(project) :
              project[n].id = i <=> n = ledger[i].revision

\* No update is lost: the history of snapshots has no gap, and each snapshot
\* is its predecessor with one command applied (save_with_command).
HistoryIsAChain ==
  /\ DOMAIN revisions = 1 .. Len(project)
  /\ \A n \in DOMAIN revisions :
       /\ Len(revisions[n]) = n
       /\ \A m \in 1 .. n : revisions[n][m] = project[m]

\* Whatever is committed or audited has been done: a committed command made
\* its external calls for the very revision it became, and an audit record of
\* success stands for a committed command (_execute, _audit_success).
CommittedIsDone ==
  /\ \A n \in 1 .. Len(project) :
       ~IsCreate(project[n]) => <<project[n], n>> \in effects
  /\ \A c \in audit : \E n \in 1 .. Len(project) : project[n] = c

Log == INSTANCE CommandLog WITH log <- project

\* Every execution, however interleaved or cut short, is one of the command
\* log: one command at a time, once per id, with the same answer for ever.
ImplementsCommandLog == Log!CLSpec
=============================================================================
