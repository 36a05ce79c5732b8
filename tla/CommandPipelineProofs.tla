----------------------- MODULE CommandPipelineProofs ------------------------
(***************************************************************************)
(* Theorems about CommandPipeline, for every number of threads, ids and    *)
(* revisions: the ledger, the history and the external calls agree, and    *)
(* the pipeline implements CommandLog.                                     *)
(*                                                                         *)
(* The argument rests on what a thread knows between its steps: the copy   *)
(* it took is a prefix of the current project, as long as the revision its *)
(* command expects (CallsConsistent).  A commit that finds the project as  *)
(* long as the copy therefore finds the project it copied.                 *)
(*                                                                         *)
(* The second half is about CommandStores: without the transactional       *)
(* writer the dictionaries and the tables hold the same projects, records  *)
(* and revisions between any two calls (StoresConsistent), so that their   *)
(* answers agree and a reader of the tables is told nothing that changes.  *)
(***************************************************************************)
EXTENDS CommandStores, SequenceTheorems, FiniteSetTheorems, TLAPS

IsPrefix(s, t) == Len(s) <= Len(t) /\ \A m \in 1 .. Len(s) : s[m] = t[m]

\* What is known of a thread at each of its steps.
ThreadConsistent(t) ==
  LET c == call[t].command
      s == call[t].snapshot IN
  /\ call[t].at = "lookup" => s = <<>>
  /\ call[t].at \in {"dispatch", "commit"} =>
       Len(s) = c.expected /\ IsPrefix(s, project)
  /\ call[t].at = "commit" /\ ~IsCreate(c) => <<c, Len(s) + 1>> \in effects
  /\ call[t].at = "audit" =>
       Len(s) + 1 <= Len(project) /\ project[Len(s) + 1] = c

CallsConsistent == \A t \in Threads : ThreadConsistent(t)

\* Every command is applied to the revision it expects.
ExpectationsMet ==
  \A n \in 1 .. Len(project) : project[n].expected = n - 1

Consistent ==
  /\ LedgerMatchesHistory
  /\ HistoryIsAChain
  /\ CommittedIsDone
  /\ ExpectationsMet
  /\ CallsConsistent

----------------------------------------------------------------------------
(* Types *)

LEMMA IdleIsCall == Idle \in Call
  BY EmptySeq DEF Idle, Call, Steps

\* Going to another step keeps a call well typed.
LEMMA GotoTypes ==
  ASSUME TypeOK, NEW t \in Threads, NEW step \in Steps, call[t].at # "idle",
         Goto(t, step)
  PROVE  /\ call' \in [Threads -> Call]
         /\ \A s \in Threads : call'[s].at # "idle" =>
                               call'[s].command \in Commands
<1>1. call[t] \in Call /\ call[t].command \in Commands
  BY DEF TypeOK
<1>2. [call[t] EXCEPT !.at = step] \in Call
  BY <1>1 DEF Call
<1> QED
  BY <1>1, <1>2 DEF TypeOK, Goto

\* Answering ends a call and tells its command with a revision.
LEMMA AnsweredTypes ==
  ASSUME TypeOK, NEW t \in Threads, NEW n \in Nat,
         call[t].command \in Commands, Answered(t, n)
  PROVE  /\ answered' \subseteq Commands \X Nat
         /\ call' \in [Threads -> Call]
         /\ \A s \in Threads : call'[s].at # "idle" =>
                               call'[s].command \in Commands
<1>1. answered' \subseteq Commands \X Nat
  BY DEF TypeOK, Answered
<1>2. /\ call' \in [Threads -> Call]
      /\ call'[t] = Idle
      /\ \A s \in Threads \ {t} : call'[s] = call[s]
  BY IdleIsCall DEF TypeOK, Answered
<1>3. \A s \in Threads : call'[s].at # "idle" => call'[s].command \in Commands
  BY <1>2 DEF TypeOK, Idle
<1> QED
  BY <1>1, <1>2, <1>3

LEMMA StepTypes == TypeOK /\ [Next]_vars => TypeOK'
<1> SUFFICES ASSUME TypeOK, [Next]_vars PROVE TypeOK'
  OBVIOUS
<1> USE DEF store
<1>1. CASE UNCHANGED vars
  BY <1>1 DEF vars, TypeOK
<1>2. ASSUME NEW t \in Threads, NEW c \in Commands, Execute(t, c) PROVE TypeOK'
  <2>1. [at |-> "lookup", command |-> c, snapshot |-> <<>>] \in Call
    BY EmptySeq DEF Call, Steps
  <2> QED
    BY <1>2, <2>1 DEF TypeOK, Execute
<1>3. ASSUME NEW t \in Threads, Lookup(t) PROVE TypeOK'
  <2>1. call[t].command \in Commands
    BY <1>3 DEF TypeOK, Lookup
  <2>2. CASE /\ ledger[call[t].command.id] # NULL
             /\ Answered(t, ledger[call[t].command.id].revision)
    <3>1. ledger[call[t].command.id].revision \in Nat
      BY <2>1, <2>2 DEF TypeOK, Commands, CommandRecord
    <3> QED
      BY <1>3, <2>1, <2>2, <3>1, AnsweredTypes DEF TypeOK, Lookup
  <2>3. CASE Goto(t, "rejected") /\ UNCHANGED answered
    BY <1>3, <2>3, GotoTypes DEF TypeOK, Lookup, Steps
  <2>4. CASE /\ Goto(t, IF IsCreate(call[t].command) THEN "dispatch" ELSE "read")
             /\ UNCHANGED answered
    BY <1>3, <2>4, GotoTypes DEF TypeOK, Lookup, Steps
  <2> QED
    BY <1>3, <2>2, <2>3, <2>4 DEF Lookup
<1>4. ASSUME NEW t \in Threads, Read(t) PROVE TypeOK'
  <2>1. CASE \E step \in Steps : Goto(t, step)
    BY <1>4, <2>1, GotoTypes DEF TypeOK, Read
  <2>2. CASE call' = [call EXCEPT ![t].at = "dispatch", ![t].snapshot = project]
    <3>1. call[t] \in Call /\ call[t].command \in Commands
      BY <1>4 DEF TypeOK, Read
    <3>2. [call[t] EXCEPT !.at = "dispatch", !.snapshot = project] \in Call
      BY <3>1 DEF TypeOK, Call, Steps
    <3>3. call' = [call EXCEPT ![t] = [call[t] EXCEPT !.at = "dispatch",
                                                      !.snapshot = project]]
      BY <2>2 DEF TypeOK
    <3> QED
      BY <1>4, <3>1, <3>2, <3>3 DEF TypeOK, Read, Call
  <2> QED
    BY <1>4, <2>1, <2>2 DEF Read, Steps
<1>5. ASSUME NEW t \in Threads, Dispatch(t) PROVE TypeOK'
  <2>1. call[t].command \in Commands /\ call[t].snapshot \in Seq(Commands)
    BY <1>5 DEF TypeOK, Dispatch, Call
  <2>2. effects' \subseteq Commands \X Nat
    BY <1>5, <2>1 DEF TypeOK, Dispatch
  <2>3. call' \in [Threads -> Call]
        /\ \A s \in Threads : call'[s].at # "idle" => call'[s].command \in Commands
    BY <1>5, GotoTypes DEF Dispatch, Steps
  <2> QED
    BY <1>5, <2>2, <2>3 DEF TypeOK, Dispatch
<1>6. ASSUME NEW t \in Threads, Commit(t) PROVE TypeOK'
  <2>1. call[t].command \in Commands /\ call[t].snapshot \in Seq(Commands)
    BY <1>6 DEF TypeOK, Commit, Call
  <2>2. Applied(t) \in Seq(Commands) /\ Len(Applied(t)) \in Nat
    BY <2>1 DEF Applied
  <2>3. project' \in Seq(Commands)
    BY <1>6, <2>2 DEF Commit
  <2>4. /\ DOMAIN revisions' \subseteq Nat
        /\ \A n \in DOMAIN revisions' : revisions'[n] \in Seq(Commands)
    BY <1>6, <2>2 DEF TypeOK, Commit
  <2>5. ledger' \in [Ids -> CommandRecord \cup {NULL}]
    BY <1>6, <2>1, <2>2 DEF TypeOK, Commit, Recorded, CommandRecord, Commands
  <2>6. call' \in [Threads -> Call]
        /\ \A s \in Threads : call'[s].at # "idle" => call'[s].command \in Commands
    BY <1>6, GotoTypes DEF Commit, Steps
  <2> QED
    BY <1>6, <2>3, <2>4, <2>5, <2>6 DEF TypeOK, Commit
<1>7. ASSUME NEW t \in Threads, CommitRefused(t) PROVE TypeOK'
  <2>1. call' \in [Threads -> Call]
        /\ \A s \in Threads : call'[s].at # "idle" => call'[s].command \in Commands
    BY <1>7, GotoTypes DEF CommitRefused, Steps
  <2> QED
    BY <1>7, <2>1 DEF TypeOK, CommitRefused
<1>8. ASSUME NEW t \in Threads, Audit(t) PROVE TypeOK'
  <2>1. call[t].command \in Commands /\ call[t].snapshot \in Seq(Commands)
    BY <1>8 DEF TypeOK, Audit, Call
  <2>2. Len(Applied(t)) \in Nat
    BY <2>1 DEF Applied
  <2> QED
    <3>1. audit' \subseteq Commands
      BY <1>8, <2>1 DEF TypeOK, Audit
    <3> QED
      BY <1>8, <2>1, <2>2, <3>1, AnsweredTypes DEF TypeOK, Audit
<1>9. ASSUME NEW t \in Threads, Reject(t) \/ Crash(t) PROVE TypeOK'
  BY <1>9, IdleIsCall DEF TypeOK, Reject, Crash, Idle
<1> QED
  BY <1>1, <1>2, <1>3, <1>4, <1>5, <1>6, <1>7, <1>8, <1>9 DEF Next

LEMMA InitTypes == Init => TypeOK
  BY IdleIsCall, EmptySeq DEF Init, TypeOK, Idle

\* Every reachable state is well typed.
THEOREM TypeCorrect == Spec => []TypeOK
  BY InitTypes, StepTypes, PTL DEF Spec

----------------------------------------------------------------------------
(* One thread's step *)

\* What one thread knows survives the steps of another, which only extend the
\* project and the calls made.
LEMMA OthersConsistent ==
  ASSUME TypeOK, TypeOK', NEW s \in Threads, ThreadConsistent(s),
         call'[s] = call[s], IsPrefix(project, project'),
         effects \subseteq effects'
  PROVE  ThreadConsistent(s)'
<1>1. call[s].snapshot \in Seq(Commands)
  BY DEF TypeOK, Call
<1>2. IsPrefix(call[s].snapshot, project) =>
        IsPrefix(call[s].snapshot, project')
  BY <1>1 DEF TypeOK, IsPrefix
<1>3. ASSUME call[s].at = "audit"
      PROVE  /\ Len(call[s].snapshot) + 1 <= Len(project')
             /\ project'[Len(call[s].snapshot) + 1] = call[s].command
  BY <1>1, <1>3 DEF TypeOK, IsPrefix, ThreadConsistent
<1> QED
  BY <1>2, <1>3 DEF ThreadConsistent

\* A step that leaves the database alone, but for calls and audit records,
\* keeps what is known of the ledger and the history.
LEMMA StoreKept ==
  ASSUME Consistent, UNCHANGED <<project, revisions, ledger>>
  PROVE  LedgerMatchesHistory' /\ HistoryIsAChain' /\ ExpectationsMet'
  BY DEF Consistent, LedgerMatchesHistory, HistoryIsAChain, ExpectationsMet

\* A commit adds its command to the very project the thread had copied, and
\* its id is new: were it recorded with the same payload, its revision would
\* lie within the project, and the command expects the end of it.
LEMMA CommitAppends ==
  ASSUME TypeOK, Consistent, NEW t \in Threads, Commit(t)
  PROVE  /\ call[t].command \in Commands
         /\ call[t].snapshot = project
         /\ call[t].command.expected = Len(project)
         /\ project' = Append(project, call[t].command)
         /\ ledger[call[t].command.id] = NULL
         /\ ledger' = [ledger EXCEPT ![call[t].command.id] =
                         [command |-> call[t].command,
                          revision |-> Len(project) + 1]]
<1> DEFINE c == call[t].command
<1>1. c \in Commands /\ call[t].snapshot \in Seq(Commands)
  BY DEF TypeOK, Commit, Call
<1>2. /\ Len(call[t].snapshot) = c.expected
      /\ IsPrefix(call[t].snapshot, project)
      /\ Len(project) = Len(call[t].snapshot)
  BY DEF Consistent, CallsConsistent, ThreadConsistent, Commit, StillCurrent
<1>3. call[t].snapshot = project
  BY <1>1, <1>2, SeqEqual DEF TypeOK, IsPrefix
<1>4. ledger[c.id] = NULL
  <2> SUFFICES ASSUME ledger[c.id] # NULL PROVE FALSE
    OBVIOUS
  <2> DEFINE n == ledger[c.id].revision
  <2>1. c.id \in Ids
    BY <1>1 DEF Commands
  <2>2. n \in 1 .. Len(project) /\ project[n] = c
    BY <2>1 DEF Commit, Recordable, Consistent, LedgerMatchesHistory
  <2>3. c.expected = n - 1
    BY <2>2 DEF Consistent, ExpectationsMet
  <2> QED
    BY <1>2, <2>2, <2>3 DEF TypeOK
<1>5. Len(Applied(t)) = Len(project) + 1 /\ Applied(t) = Append(project, c)
  BY <1>1, <1>3 DEF Applied, TypeOK
<1> QED
  BY <1>1, <1>2, <1>3, <1>4, <1>5 DEF Commit, Recorded

\* What a commit does to the ledger, the history and the expectations.
LEMMA CommitKeepsStory ==
  ASSUME TypeOK, TypeOK', Consistent, NEW t \in Threads, Commit(t)
  PROVE  /\ LedgerMatchesHistory' /\ HistoryIsAChain' /\ CommittedIsDone'
         /\ ExpectationsMet' /\ IsPrefix(project, project')
         /\ Len(project') = Len(project) + 1
         /\ project'[Len(project) + 1] = call[t].command
<1> DEFINE c == call[t].command
           last == Len(project) + 1
<1>1. /\ c \in Commands
      /\ call[t].snapshot = project
      /\ c.expected = Len(project)
      /\ project' = Append(project, c)
      /\ ledger[c.id] = NULL
      /\ ledger' = [ledger EXCEPT ![c.id] = [command |-> c, revision |-> last]]
  BY CommitAppends
<1>2. /\ Len(project) \in Nat
      /\ Len(project') = last
      /\ \A n \in 1 .. Len(project) : project'[n] = project[n]
      /\ project'[last] = c
  BY <1>1 DEF TypeOK
<1>3. IsPrefix(project, project')
  BY <1>2 DEF IsPrefix
<1>4. LedgerMatchesHistory'
  <2> SUFFICES ASSUME NEW i \in Ids
               PROVE  /\ ledger'[i] = NULL =>
                           \A n \in 1 .. Len(project') : project'[n].id # i
                      /\ ledger'[i] # NULL =>
                           /\ ledger'[i].revision \in 1 .. Len(project')
                           /\ project'[ledger'[i].revision] = ledger'[i].command
                           /\ \A n \in 1 .. Len(project') :
                                project'[n].id = i <=> n = ledger'[i].revision
    BY DEF LedgerMatchesHistory
  <2>1. CASE i = c.id
    <3>1. ledger'[i] = [command |-> c, revision |-> last]
      BY <1>1, <2>1 DEF TypeOK
    <3>2. ledger'[i] # NULL
      BY <1>1, <1>2, <3>1, NullAssumption
    <3>3. \A n \in 1 .. Len(project) : project[n].id # i
      BY <1>1, <2>1 DEF Consistent, LedgerMatchesHistory
    <3> QED
      BY <1>2, <2>1, <3>1, <3>2, <3>3
  <2>2. CASE i # c.id
    <3>1. ledger'[i] = ledger[i]
      BY <1>1, <2>2 DEF TypeOK
    <3>2. /\ ledger[i] = NULL => \A n \in 1 .. Len(project) : project[n].id # i
          /\ ledger[i] # NULL =>
               /\ ledger[i].revision \in 1 .. Len(project)
               /\ project[ledger[i].revision] = ledger[i].command
               /\ \A n \in 1 .. Len(project) :
                    project[n].id = i <=> n = ledger[i].revision
      BY DEF Consistent, LedgerMatchesHistory
    <3> QED
      BY <1>2, <2>2, <3>1, <3>2
  <2> QED
    BY <2>1, <2>2
<1>5. HistoryIsAChain'
  <2>1. Applied(t) = project'
    BY DEF Commit
  <2>2. DOMAIN revisions' = 1 .. last
    BY <1>2, <2>1 DEF Commit, Consistent, HistoryIsAChain
  <2>3. ASSUME NEW n \in 1 .. last
        PROVE  Len(revisions'[n]) = n
               /\ \A m \in 1 .. n : revisions'[n][m] = project'[m]
    <3>1. CASE n = last
      <4>1. revisions'[n] = project'
        BY <1>2, <2>1, <2>2, <3>1 DEF Commit
      <4> QED
        BY <1>2, <3>1, <4>1
    <3>2. CASE n # last
      <4>1. n \in 1 .. Len(project) /\ n \in DOMAIN revisions
        BY <1>2, <3>2 DEF Consistent, HistoryIsAChain
      <4>2. revisions'[n] = revisions[n]
        BY <1>2, <2>1, <3>2, <4>1 DEF Commit
      <4>3. /\ Len(revisions[n]) = n
            /\ \A m \in 1 .. n : revisions[n][m] = project[m]
        BY <4>1 DEF Consistent, HistoryIsAChain
      <4> QED
        BY <1>2, <4>1, <4>2, <4>3
    <3> QED
      BY <3>1, <3>2
  <2> QED
    BY <1>2, <2>2, <2>3 DEF HistoryIsAChain
<1>6. CommittedIsDone'
  <2>1. ASSUME NEW n \in 1 .. last, ~IsCreate(project'[n])
        PROVE  <<project'[n], n>> \in effects'
    <3>1. CASE n = last
      BY <1>1, <1>2, <2>1, <3>1
         DEF Commit, Consistent, CallsConsistent, ThreadConsistent
    <3>2. CASE n # last
      BY <1>2, <2>1, <3>2 DEF Commit, Consistent, CommittedIsDone
    <3> QED
      BY <3>1, <3>2
  <2>2. ASSUME NEW d \in audit'
        PROVE  \E n \in 1 .. Len(project') : project'[n] = d
    <3>1. PICK n \in 1 .. Len(project) : project[n] = d
      BY <2>2 DEF Commit, Consistent, CommittedIsDone
    <3> QED
      BY <1>2, <3>1
  <2> QED
    BY <1>2, <2>1, <2>2 DEF CommittedIsDone
<1>7. ExpectationsMet'
  BY <1>1, <1>2 DEF Consistent, ExpectationsMet
<1> QED
  BY <1>2, <1>3, <1>4, <1>5, <1>6, <1>7

\* A step that makes calls or records at most keeps what was done.
LEMMA DoneKept ==
  ASSUME Consistent, UNCHANGED <<project, audit>>, effects \subseteq effects'
  PROVE  CommittedIsDone'
  BY DEF Consistent, CommittedIsDone

\* When a thread comes to audit its command, the command is at its place.
LEMMA AuditFindsCommand ==
  ASSUME TypeOK, Consistent, NEW t \in Threads, Audit(t)
  PROVE  /\ call[t].snapshot \in Seq(Commands)
         /\ Len(call[t].snapshot) + 1 \in 1 .. Len(project)
         /\ project[Len(call[t].snapshot) + 1] = call[t].command
<1>1. /\ call[t].snapshot \in Seq(Commands)
      /\ Len(call[t].snapshot) \in Nat /\ Len(project) \in Nat
  BY DEF TypeOK, Call
<1>2. /\ Len(call[t].snapshot) + 1 <= Len(project)
      /\ project[Len(call[t].snapshot) + 1] = call[t].command
  BY DEF Audit, Consistent, CallsConsistent, ThreadConsistent
<1> QED
  BY <1>1, <1>2

LEMMA PrefixOfItself == TypeOK => IsPrefix(project, project)
  BY DEF TypeOK, IsPrefix

----------------------------------------------------------------------------
(* The inductive invariant *)

LEMMA InitConsistent == Init => Consistent
<1> SUFFICES ASSUME Init PROVE Consistent
  OBVIOUS
<1>1. project = <<>> /\ Len(project) = 0
  BY DEF Init
<1> QED
  BY <1>1 DEF Init, Consistent, LedgerMatchesHistory, HistoryIsAChain,
              CommittedIsDone, ExpectationsMet, CallsConsistent,
              ThreadConsistent, Idle

LEMMA StepConsistent ==
  TypeOK /\ TypeOK' /\ Consistent /\ [Next]_vars => Consistent'
<1> SUFFICES ASSUME TypeOK, TypeOK', Consistent, [Next]_vars PROVE Consistent'
  OBVIOUS
<1> USE DEF store
<1>1. CASE UNCHANGED vars
  BY <1>1 DEF vars, Consistent, LedgerMatchesHistory, HistoryIsAChain,
              CommittedIsDone, ExpectationsMet, CallsConsistent,
              ThreadConsistent, IsPrefix
<1> SUFFICES ASSUME NEW t \in Threads,
                    \/ \E c \in Commands : Execute(t, c)
                    \/ Lookup(t) \/ Read(t) \/ Dispatch(t) \/ Commit(t)
                    \/ CommitRefused(t) \/ Audit(t) \/ Reject(t) \/ Crash(t)
             PROVE  Consistent'
  BY <1>1 DEF Next
\* It is enough to look at the thread that steps, at what it calls and records,
\* and at a commit.
<1>2. ASSUME ThreadConsistent(t)', CommittedIsDone',
             \A s \in Threads \ {t} : call'[s] = call[s],
             effects \subseteq effects',
             UNCHANGED <<project, revisions, ledger>>
      PROVE  Consistent'
  <2>1. IsPrefix(project, project')
    BY <1>2, PrefixOfItself
  <2>2. \A s \in Threads : ThreadConsistent(s)'
    BY <1>2, <2>1, OthersConsistent DEF Consistent, CallsConsistent
  <2> QED
    BY <1>2, <2>2, StoreKept DEF Consistent, CallsConsistent
<1>3. ASSUME NEW c \in Commands, Execute(t, c) PROVE Consistent'
  <2>1. /\ call'[t] = [at |-> "lookup", command |-> c, snapshot |-> <<>>]
        /\ \A s \in Threads \ {t} : call'[s] = call[s]
    BY <1>3 DEF Execute, TypeOK
  <2> QED
    BY <1>2, <1>3, <2>1, DoneKept DEF Execute, ThreadConsistent
<1>4. CASE Lookup(t)
  <2>1. /\ \A s \in Threads \ {t} : call'[s] = call[s]
        /\ \/ call'[t] = Idle
           \/ call'[t] = [call[t] EXCEPT !.at = "rejected"]
           \/ call'[t] = [call[t] EXCEPT !.at = "read"]
           \/ IsCreate(call[t].command)
              /\ call'[t] = [call[t] EXCEPT !.at = "dispatch"]
    BY <1>4 DEF Lookup, Answered, Goto, TypeOK
  <2>2. call[t] \in Call /\ call[t].snapshot = <<>>
    BY <1>4 DEF Lookup, TypeOK, Consistent, CallsConsistent, ThreadConsistent
  <2>3. ThreadConsistent(t)'
    <3>1. CASE IsCreate(call[t].command)
               /\ call'[t] = [call[t] EXCEPT !.at = "dispatch"]
      <4>1. /\ call'[t].at = "dispatch" /\ call'[t].snapshot = <<>>
            /\ call'[t].command.expected = 0
        BY <2>2, <3>1 DEF Call, IsCreate
      <4> QED
        BY <4>1 DEF ThreadConsistent, IsPrefix, TypeOK
    <3>2. CASE call'[t].at \in {"idle", "rejected", "read"}
      BY <3>2 DEF ThreadConsistent
    <3> QED
      BY <2>1, <2>2, <3>1, <3>2 DEF Idle, Call
  <2> QED
    BY <1>2, <1>4, <2>1, <2>3, DoneKept DEF Lookup
<1>5. CASE Read(t)
  <2>1. /\ \A s \in Threads \ {t} : call'[s] = call[s]
        /\ \/ call'[t].at \in {"rejected", "stale"}
           \/ /\ call'[t] = [call[t] EXCEPT !.at = "dispatch",
                                            !.snapshot = project]
              /\ Len(project) = call[t].command.expected
    BY <1>5 DEF Read, Goto, TypeOK, Call
  <2>2. ThreadConsistent(t)'
    <3>1. CASE call'[t].at \in {"rejected", "stale"}
      BY <3>1 DEF ThreadConsistent
    <3>2. CASE /\ call'[t] = [call[t] EXCEPT !.at = "dispatch",
                                             !.snapshot = project]
               /\ Len(project) = call[t].command.expected
      <4>1. /\ call'[t].at = "dispatch" /\ call'[t].snapshot = project
            /\ call'[t].command = call[t].command
        BY <3>2 DEF TypeOK, Call
      <4> QED
        BY <1>5, <3>2, <4>1, PrefixOfItself DEF ThreadConsistent, Read
    <3> QED
      BY <2>1, <3>1, <3>2
  <2> QED
    BY <1>2, <1>5, <2>1, <2>2, DoneKept DEF Read
<1>6. CASE Dispatch(t)
  <2>1. /\ \A s \in Threads \ {t} : call'[s] = call[s]
        /\ \/ call'[t].at = "rejected"
           \/ /\ call'[t] = [call[t] EXCEPT !.at = "commit"]
              /\ ~IsCreate(call[t].command) =>
                   <<call[t].command, Len(call[t].snapshot) + 1>> \in effects'
        /\ effects \subseteq effects'
    BY <1>6 DEF Dispatch, Goto, TypeOK, Call
  <2>2. ThreadConsistent(t)'
    <3>1. CASE call'[t].at = "rejected"
      BY <3>1 DEF ThreadConsistent
    <3>2. CASE /\ call'[t] = [call[t] EXCEPT !.at = "commit"]
               /\ ~IsCreate(call[t].command) =>
                    <<call[t].command, Len(call[t].snapshot) + 1>> \in effects'
      <4>1. /\ call'[t].at = "commit" /\ call'[t].snapshot = call[t].snapshot
            /\ call'[t].command = call[t].command
        BY <3>2 DEF TypeOK, Call
      <4>2. /\ Len(call[t].snapshot) = call[t].command.expected
            /\ IsPrefix(call[t].snapshot, project)
        BY <1>6 DEF Dispatch, Consistent, CallsConsistent, ThreadConsistent
      <4> QED
        BY <1>6, <3>2, <4>1, <4>2 DEF ThreadConsistent, Dispatch
    <3> QED
      BY <2>1, <3>1, <3>2
  <2> QED
    BY <1>2, <1>6, <2>1, <2>2, DoneKept DEF Dispatch
<1>7. CASE Commit(t)
  <2>1. /\ \A s \in Threads \ {t} : call'[s] = call[s]
        /\ call'[t] = [call[t] EXCEPT !.at = "audit"]
    BY <1>7 DEF Commit, Goto, TypeOK
  <2>2. /\ call'[t].at = "audit" /\ call'[t].snapshot = project
        /\ call'[t].command = call[t].command
    <3>1. call[t] \in Call /\ call[t].snapshot = project
      BY <1>7, CommitAppends DEF TypeOK
    <3> QED
      BY <2>1, <3>1 DEF Call
  <2>3. ThreadConsistent(t)'
    BY <1>7, <2>2, CommitKeepsStory DEF ThreadConsistent, TypeOK
  <2>4. \A s \in Threads : ThreadConsistent(s)'
    BY <1>7, <2>1, <2>3, CommitKeepsStory, OthersConsistent
       DEF Commit, Consistent, CallsConsistent
  <2> QED
    BY <1>7, <2>4, CommitKeepsStory DEF Consistent, CallsConsistent
<1>8. CASE CommitRefused(t) \/ Reject(t) \/ Crash(t)
  <2>1. /\ \A s \in Threads \ {t} : call'[s] = call[s]
        /\ call'[t].at \in {"stale", "rejected", "idle"}
    <3>1. CASE CommitRefused(t)
      BY <3>1 DEF CommitRefused, Goto, TypeOK, Call
    <3>2. CASE Reject(t) \/ Crash(t)
      BY <3>2 DEF Reject, Crash, TypeOK, Idle
    <3> QED
      BY <1>8, <3>1, <3>2
  <2> QED
    BY <1>2, <1>8, <2>1, DoneKept
       DEF CommitRefused, Reject, Crash, ThreadConsistent
<1>9. CASE Audit(t)
  <2>1. /\ \A s \in Threads \ {t} : call'[s] = call[s]
        /\ call'[t].at = "idle"
    BY <1>9 DEF Audit, Answered, TypeOK, Idle
  <2>2. /\ Len(call[t].snapshot) + 1 \in 1 .. Len(project)
        /\ project[Len(call[t].snapshot) + 1] = call[t].command
    BY <1>9, AuditFindsCommand
  <2>3. CommittedIsDone'
    BY <1>9, <2>2 DEF Audit, Consistent, CommittedIsDone
  <2> QED
    BY <1>2, <1>9, <2>1, <2>3 DEF Audit, ThreadConsistent
<1> QED
  BY <1>3, <1>4, <1>5, <1>6, <1>7, <1>8, <1>9

\* The inductive invariant holds of every reachable state.
THEOREM ConsistencyHolds == Spec => []Consistent
  BY TypeCorrect, InitConsistent, StepConsistent, PTL DEF Spec

\* The command ledger and the revision history tell the same story: each id
\* was applied at most once, at the revision its record names.
THEOREM LedgerCorrect == Spec => []LedgerMatchesHistory
<1>1. Consistent => LedgerMatchesHistory
  BY DEF Consistent
<1> QED
  BY <1>1, ConsistencyHolds, PTL

\* No committed revision is lost, overwritten or skipped.
THEOREM HistoryCorrect == Spec => []HistoryIsAChain
<1>1. Consistent => HistoryIsAChain
  BY DEF Consistent
<1> QED
  BY <1>1, ConsistencyHolds, PTL

\* A committed command has made its external calls for the revision it became,
\* and a success is audited only of a committed command.
THEOREM DoneCorrect == Spec => []CommittedIsDone
<1>1. Consistent => CommittedIsDone
  BY DEF Consistent
<1> QED
  BY <1>1, ConsistencyHolds, PTL

----------------------------------------------------------------------------
(* The refinement of CommandLog *)

LEMMA StepImplements ==
  TypeOK /\ TypeOK' /\ Consistent /\ [Next]_vars => [Log!CLNext]_(Log!clVars)
<1> SUFFICES ASSUME TypeOK, TypeOK', Consistent, [Next]_vars,
                    ~UNCHANGED <<project, answered>>
             PROVE  Log!CLNext
  BY DEF Log!clVars
<1> USE DEF store
<1>1. PICK t \in Threads : Lookup(t) \/ Commit(t) \/ Audit(t)
  BY DEF Next, vars, Execute, Read, Dispatch, CommitRefused, Reject, Crash
<1>2. call[t].command \in Commands
  BY <1>1 DEF TypeOK, Lookup, Commit, Audit
<1>3. CASE Lookup(t)
  <2> DEFINE prior == ledger[call[t].command.id]
  <2>1. prior # NULL /\ prior.command = call[t].command
        /\ Answered(t, prior.revision)
    BY <1>3 DEF Lookup
  <2>2. /\ prior.revision \in 1 .. Len(project)
        /\ project[prior.revision] = call[t].command
    BY <1>2, <2>1 DEF Consistent, LedgerMatchesHistory, Commands
  <2>3. Log!Answer(prior.revision)
    BY <1>3, <2>1, <2>2 DEF Lookup, Answered, Log!Answer
  <2> QED
    BY <2>2, <2>3 DEF Log!CLNext
<1>4. CASE Commit(t)
  <2> DEFINE c == call[t].command
  <2>1. /\ c.expected = Len(project)
        /\ project' = Append(project, c)
        /\ ledger[c.id] = NULL
    BY <1>4, CommitAppends
  <2>2. \A n \in 1 .. Len(project) : project[n].id # c.id
    BY <1>2, <2>1 DEF Consistent, LedgerMatchesHistory, Commands
  <2>3. Log!Apply(c)
    BY <1>4, <2>1, <2>2 DEF Commit, Log!Apply
  <2> QED
    BY <1>2, <2>3 DEF Log!CLNext
<1>5. CASE Audit(t)
  <2> DEFINE n == Len(call[t].snapshot) + 1
  <2>1. /\ n \in 1 .. Len(project)
        /\ project[n] = call[t].command
        /\ Len(Applied(t)) = n
    BY <1>2, <1>5, AuditFindsCommand DEF Applied
  <2>2. Log!Answer(n)
    BY <1>5, <2>1 DEF Audit, Answered, Log!Answer
  <2> QED
    BY <2>1, <2>2 DEF Log!CLNext
<1> QED
  BY <1>1, <1>3, <1>4, <1>5

\* However many threads execute, race, retry and die, the commands take effect
\* one at a time, each on the revision it names, once per id, and every answer
\* names the revision its command made.
THEOREM LogImplemented == Spec => ImplementsCommandLog
<1>1. Init => Log!CLInit
  BY DEF Init, Log!CLInit
<1> QED
  BY <1>1, TypeCorrect, ConsistencyHolds, StepImplements, PTL
     DEF Spec, ImplementsCommandLog, Log!CLSpec

----------------------------------------------------------------------------
(***************************************************************************)
(* The adapters, without the transactional writer.  The argument: each     *)
(* project's revisions are numbered without gaps and the last one is the   *)
(* project (History); the tables hold the same under their keys            *)
(* (RowsMatch); and a thread's copy is the revision its command expects    *)
(* (CallFits), so that every check one side makes the other makes too.     *)
(***************************************************************************)

\* A project and its revisions: each has all the events of those before.
History(current, past) ==
  /\ current \in Adapters!Snapshot
  /\ past \in [1 .. current.revision -> Adapters!Snapshot]
  /\ past[current.revision] = current
  /\ \A n \in 1 .. current.revision : past[n].revision = n
  /\ \A m, n \in 1 .. current.revision :
       m <= n => IsPrefix(past[m].events, past[n].events)

Histories(ps, rs) ==
  DOMAIN rs = DOMAIN ps /\ \A p \in DOMAIN ps : History(ps[p], rs[p])

RevisionKeys(ps) == UNION {{p} \X (1 .. ps[p].revision) : p \in DOMAIN ps}
EventKeys(ps) == UNION {{p} \X (1 .. Len(ps[p].events)) : p \in DOMAIN ps}

\* The rows of a revision and of an event say what the dictionaries say.
RevisionRowsMatch(ps, rs, rows) ==
  /\ DOMAIN rows = RevisionKeys(ps)
  /\ \A p \in DOMAIN ps : \A n \in 1 .. ps[p].revision :
       rows[<<p, n>>] = rs[p][n]

EventRowsMatch(ps, rows) ==
  /\ DOMAIN rows = EventKeys(ps)
  /\ \A p \in DOMAIN ps : \A i \in 1 .. Len(ps[p].events) :
       rows[<<p, i>>] = ps[p].events[i]

Has(ps, p, n) == p \in DOMAIN ps /\ n \in 1 .. ps[p].revision

\* The revision after the one c expects ends with an event of c.
Wrote(c, ps, rs) ==
  /\ Has(ps, c.project, c.expected + 1)
  /\ LET events == rs[c.project][c.expected + 1].events
     IN Len(events) # 0 /\ events[Len(events)].body = c.body

Sent == [at : {"read", "save", "record", "audit"},
         command : Adapters!Command,
         memory : Adapters!Snapshot \cup {Adapters!Unborn},
         sqlite : Adapters!Snapshot \cup {Adapters!Unborn}]

\* What is known of a thread between its calls.
CallFits(c, ps, rs) ==
  c # Adapters!Idle =>
    /\ c.memory = c.sqlite
    /\ c.at = "save" /\ c.command.expected = 0 => c.memory = Adapters!Unborn
    /\ c.at = "save" /\ c.command.expected # 0 =>
         /\ Has(ps, c.command.project, c.command.expected)
         /\ c.memory = rs[c.command.project][c.command.expected]
    /\ c.at \in {"record", "audit"} => Wrote(c.command, ps, rs)

RecordFits(id, r, ps, rs) ==
  /\ r.fingerprint \in Adapters!Command
  /\ r = [fingerprint |-> r.fingerprint,
          revision |-> r.fingerprint.expected + 1]
  /\ r.fingerprint.id = id
  /\ Wrote(r.fingerprint, ps, rs)

RecordsFit(rows, ps, rs) ==
  /\ rows = [id \in DOMAIN rows |-> rows[id]]
  /\ \A id \in DOMAIN rows : RecordFits(id, rows[id], ps, rs)

FollowerFits(f, ps) ==
  /\ f \in [project : Projects \cup {NULL}, events : Seq(Adapters!EventId)]
  /\ f.project = NULL => f.events = <<>>
  /\ f.project # NULL => /\ f.project \in DOMAIN ps
                         /\ IsPrefix(f.events, ps[f.project].events)

StoresConsistent ==
  /\ answers[1] = answers[2]
  /\ DOMAIN projects \subseteq Projects
  /\ Histories(projects, memoryRevisions)
  /\ projectRows = projects
  /\ RevisionRowsMatch(projects, memoryRevisions, revisionRows)
  /\ EventRowsMatch(projects, eventRows)
  /\ ledgerRows = records
  /\ RecordsFit(records, projects, memoryRevisions)
  /\ portCall \in [Threads -> Sent \cup {Adapters!Idle}]
  /\ \A t \in Threads : CallFits(portCall[t], projects, memoryRevisions)
  /\ FollowerFits(follower, projects)

----------------------------------------------------------------------------
(* The operators of the adapters *)

LEMMA PutFacts ==
  ASSUME NEW f, NEW key, NEW value
  PROVE  /\ DOMAIN Adapters!Put(f, key, value) = DOMAIN f \cup {key}
         /\ Adapters!Put(f, key, value)[key] = value
         /\ \A k \in DOMAIN f : k # key => Adapters!Put(f, key, value)[k] = f[k]
         /\ Adapters!Put(f, key, value) =
              [k \in DOMAIN Adapters!Put(f, key, value) |->
                 Adapters!Put(f, key, value)[k]]
  BY DEF Adapters!Put

\* Being a prefix is reflexive and transitive.
LEMMA PrefixOrder ==
  ASSUME NEW S, NEW a \in Seq(S), NEW b \in Seq(S), NEW c \in Seq(S),
         IsPrefix(a, b), IsPrefix(b, c)
  PROVE  IsPrefix(a, a) /\ IsPrefix(a, c)
  BY DEF IsPrefix

\* What a command leaves of the snapshot it changes.
LEMMA ChangedFacts ==
  ASSUME NEW b \in Adapters!Snapshot \cup {Adapters!Unborn},
         NEW c \in Adapters!Command, b.revision = c.expected, NEW n \in 1 .. 2
  PROVE  LET s == Adapters!Changed(b, c, n) IN
         /\ s \in Adapters!Snapshot
         /\ s.revision = c.expected + 1
         /\ b.events \in Seq(Adapters!EventId)
         /\ IsPrefix(b.events, s.events)
         /\ Len(s.events) = Len(b.events) + n
         /\ s.events[Len(s.events)].body = c.body
<1> DEFINE s == Adapters!Changed(b, c, n)
           new == [i \in 1 .. n |-> [revision |-> b.revision + 1,
                                     body |-> c.body,
                                     sequence |-> Len(b.events) + i]]
<1>1. b.events \in Seq(Adapters!EventId)
  <2>1. <<>> \in Seq(Adapters!EventId)
    BY EmptySeq
  <2>2. CASE b = Adapters!Unborn
    BY <2>1, <2>2 DEF Adapters!Unborn
  <2>3. CASE b \in Adapters!Snapshot
    BY <2>3 DEF Adapters!Snapshot
  <2> QED
    BY <2>2, <2>3
<1>2. Len(b.events) \in Nat
  BY <1>1, LenProperties
<1>3. b.revision + 1 \in 1 .. MaxRevision
  BY MaxRevisionAssumption DEF Adapters!Command
<1>4. new \in [1 .. n -> Adapters!EventId]
  BY <1>2, <1>3 DEF Adapters!EventId, Adapters!Command
<1>5. new \in Seq(Adapters!EventId) /\ Len(new) = n
  <2>1. new \in Seq(Adapters!EventId)
    BY <1>4, SeqDef
  <2>2. DOMAIN new = 1 .. n /\ n \in Nat
    OBVIOUS
  <2>3. DOMAIN new = 1 .. Len(new) /\ Len(new) \in Nat
    BY <2>1, LenProperties
  <2> HIDE DEF new
  <2> QED
    BY <2>1, <2>2, <2>3
<1>6. s = [revision |-> b.revision + 1, events |-> b.events \o new]
  BY DEF Adapters!Changed
<1>7. new[n].body = c.body
  OBVIOUS
<1> HIDE DEF s, new
<1>8. /\ b.events \o new \in Seq(Adapters!EventId)
      /\ Len(b.events \o new) = Len(b.events) + n
      /\ \A i \in 1 .. Len(b.events) + n :
           (b.events \o new)[i] =
             IF i <= Len(b.events) THEN b.events[i]
             ELSE new[i - Len(b.events)]
  BY <1>1, <1>5, ConcatProperties
<1>9. IsPrefix(b.events, s.events)
  BY <1>2, <1>6, <1>8 DEF IsPrefix
<1>10. s.events[Len(s.events)].body = c.body
  BY <1>2, <1>6, <1>7, <1>8
<1>11. s \in Adapters!Snapshot
  BY <1>3, <1>6, <1>8 DEF Adapters!Snapshot
<1> QED
  BY <1>1, <1>6, <1>8, <1>9, <1>10, <1>11 DEF s

----------------------------------------------------------------------------
(* A project grows by one revision *)

\* Nothing that was written is lost.
Extends(ps, rs, qs, ss) ==
  \A p \in DOMAIN ps :
    /\ p \in DOMAIN qs
    /\ ps[p].revision <= qs[p].revision
    /\ IsPrefix(ps[p].events, qs[p].events)
    /\ \A n \in 1 .. ps[p].revision : ss[p][n] = rs[p][n]

LEMMA HistoryBegins ==
  ASSUME NEW s \in Adapters!Snapshot, s.revision = 1
  PROVE  History(s, Adapters!Put(Adapters!Empty, s.revision, s))
<1>1. Adapters!Put(Adapters!Empty, s.revision, s) = [n \in {1} |-> s]
  BY DEF Adapters!Put, Adapters!Empty
<1>2. 1 .. s.revision = {1}
  OBVIOUS
<1>3. IsPrefix(s.events, s.events)
  BY LenProperties DEF IsPrefix, Adapters!Snapshot
<1> QED
  BY <1>1, <1>2, <1>3 DEF History

LEMMA HistoryGrows ==
  ASSUME NEW current, NEW past, History(current, past),
         NEW s \in Adapters!Snapshot, s.revision = current.revision + 1,
         IsPrefix(current.events, s.events)
  PROVE  /\ History(s, Adapters!Put(past, s.revision, s))
         /\ \A n \in 1 .. current.revision :
              Adapters!Put(past, s.revision, s)[n] = past[n]
<1> DEFINE grown == Adapters!Put(past, s.revision, s)
           r == current.revision
<1>1. r \in Nat /\ r >= 1 /\ DOMAIN past = 1 .. r
  BY MaxRevisionAssumption DEF History, Adapters!Snapshot
<1>2. /\ DOMAIN grown = 1 .. s.revision
      /\ grown[s.revision] = s
      /\ \A n \in 1 .. r : grown[n] = past[n]
  <2>1. \A n \in 1 .. r : n # s.revision
    BY <1>1
  <2>2. (1 .. r) \cup {s.revision} = 1 .. s.revision
    BY <1>1
  <2>3. grown = [n \in 1 .. s.revision |->
                   IF n = s.revision THEN s ELSE past[n]]
    BY <1>1, <2>2 DEF Adapters!Put
  <2>4. s.revision \in 1 .. s.revision /\ 1 .. r \subseteq 1 .. s.revision
    BY <1>1
  <2> HIDE DEF r, grown
  <2> QED
    BY <2>1, <2>3, <2>4
<1>3. grown = [n \in DOMAIN grown |-> grown[n]]
  BY DEF Adapters!Put
<1> HIDE DEF grown
<1>4. \A n \in 1 .. s.revision : n \in 1 .. r \/ n = s.revision
  BY <1>1
<1>5. \A n \in 1 .. s.revision :
        grown[n] \in Adapters!Snapshot /\ grown[n].revision = n
  BY <1>1, <1>2, <1>4 DEF History
<1>6. grown \in [1 .. s.revision -> Adapters!Snapshot]
  BY <1>2, <1>3, <1>5
<1>7. ASSUME NEW m \in 1 .. s.revision, NEW n \in 1 .. s.revision, m <= n
      PROVE  IsPrefix(grown[m].events, grown[n].events)
  <2>1. \A e \in Adapters!Snapshot : e.events \in Seq(Adapters!EventId)
    BY DEF Adapters!Snapshot
  <2>2. past[r] = current /\ current \in Adapters!Snapshot
    BY DEF History
  <2>3. CASE n \in 1 .. r
    <3>1. m \in 1 .. r
      BY <1>1, <1>7, <2>3
    <3> QED
      BY <1>2, <1>7, <2>3, <3>1 DEF History
  <2>4. CASE n = s.revision /\ m \in 1 .. r
    <3>1. r \in 1 .. r /\ m <= r
      BY <1>1, <2>4
    <3>2. IsPrefix(past[m].events, current.events)
      BY <2>2, <2>4, <3>1 DEF History
    <3>3. past[m] \in Adapters!Snapshot
      BY <2>4 DEF History
    <3> QED
      BY <1>2, <2>1, <2>2, <2>4, <3>2, <3>3, PrefixOrder
  <2>5. CASE n = s.revision /\ m = s.revision
    BY <1>2, <2>1, <2>5, LenProperties DEF IsPrefix
  <2> QED
    BY <1>4, <2>3, <2>4, <2>5
<1> QED
  BY <1>2, <1>5, <1>6, <1>7 DEF History, grown

\* What was known of calls, records and the follower stays true.
LEMMA ExtendsKeeps ==
  ASSUME NEW ps, NEW rs, NEW qs, NEW ss, Extends(ps, rs, qs, ss),
         Histories(ps, rs), Histories(qs, ss)
  PROVE  /\ \A c \in Adapters!Command : Wrote(c, ps, rs) => Wrote(c, qs, ss)
         /\ \A c \in Sent \cup {Adapters!Idle} :
              CallFits(c, ps, rs) => CallFits(c, qs, ss)
         /\ \A f : FollowerFits(f, ps) => FollowerFits(f, qs)
         /\ \A rows : RecordsFit(rows, ps, rs) => RecordsFit(rows, qs, ss)
<1>1. \A p \in DOMAIN ps : /\ ps[p] \in Adapters!Snapshot
                           /\ qs[p] \in Adapters!Snapshot
  BY DEF Extends, Histories, History
<1>2. \A p \in DOMAIN ps : ps[p].revision \in Int /\ qs[p].revision \in Int
  BY <1>1, MaxRevisionAssumption DEF Adapters!Snapshot
<1>3. ASSUME NEW p, NEW n, Has(ps, p, n)
      PROVE  Has(qs, p, n) /\ ss[p][n] = rs[p][n]
  BY <1>2, <1>3 DEF Extends, Has
<1>4. ASSUME NEW c \in Adapters!Command, Wrote(c, ps, rs)
      PROVE  Wrote(c, qs, ss)
  BY <1>3, <1>4 DEF Wrote
<1>5. ASSUME NEW c \in Sent \cup {Adapters!Idle}, CallFits(c, ps, rs)
      PROVE  CallFits(c, qs, ss)
  <2>1. CASE c = Adapters!Idle
    BY <2>1 DEF CallFits
  <2>2. CASE c # Adapters!Idle
    <3>1. c.command \in Adapters!Command
      BY <2>2 DEF Sent
    <3> QED
      BY <1>3, <1>4, <1>5, <2>2, <3>1 DEF CallFits
  <2> QED
    BY <2>1, <2>2
<1>6. ASSUME NEW f, FollowerFits(f, ps)
      PROVE  FollowerFits(f, qs)
  <2>1. CASE f.project = NULL
    BY <1>6, <2>1 DEF FollowerFits
  <2>2. CASE f.project # NULL
    <3>1. f.project \in DOMAIN ps /\ f.project \in DOMAIN qs
      BY <1>6, <2>2 DEF FollowerFits, Extends
    <3>2. /\ f.events \in Seq(Adapters!EventId)
          /\ ps[f.project].events \in Seq(Adapters!EventId)
          /\ qs[f.project].events \in Seq(Adapters!EventId)
      BY <1>1, <1>6, <3>1 DEF FollowerFits, Adapters!Snapshot
    <3>3. /\ IsPrefix(f.events, ps[f.project].events)
          /\ IsPrefix(ps[f.project].events, qs[f.project].events)
      BY <1>6, <2>2, <3>1 DEF FollowerFits, Extends
    <3>4. IsPrefix(f.events, qs[f.project].events)
      BY <3>2, <3>3, PrefixOrder
    <3> QED
      BY <1>6, <2>2, <3>1, <3>4 DEF FollowerFits
  <2> QED
    BY <2>1, <2>2
<1>7. ASSUME NEW rows, RecordsFit(rows, ps, rs)
      PROVE  RecordsFit(rows, qs, ss)
  BY <1>4, <1>7 DEF RecordsFit, RecordFits
<1> QED
  BY <1>4, <1>5, <1>6, <1>7

\* The event rows with those of a project's new events.
WithEvents(rows, p, events) ==
  LET new == {<<p, i>> : i \in 1 .. Len(events)} IN
  [k \in DOMAIN rows \cup new |-> IF k \in new THEN events[k[2]] ELSE rows[k]]

\* A new snapshot of one project, on both sides.
LEMMA GrowthKeeps ==
  ASSUME NEW ps, NEW rs, Histories(ps, rs),
         NEW p, NEW s \in Adapters!Snapshot, NEW past, History(s, past),
         p \notin DOMAIN ps => s.revision = 1,
         p \in DOMAIN ps =>
           /\ s.revision = ps[p].revision + 1
           /\ IsPrefix(ps[p].events, s.events)
           /\ \A n \in 1 .. ps[p].revision : past[n] = rs[p][n],
         NEW qs, qs = Adapters!Put(ps, p, s),
         NEW ss, ss = Adapters!Put(rs, p, past)
  PROVE  /\ Histories(qs, ss)
         /\ Extends(ps, rs, qs, ss)
         /\ \A rows : RevisionRowsMatch(ps, rs, rows) =>
              RevisionRowsMatch(qs, ss, Adapters!Put(rows, <<p, s.revision>>, s))
         /\ \A rows : EventRowsMatch(ps, rows) =>
              EventRowsMatch(qs, WithEvents(rows, p, s.events))
<1>1. /\ DOMAIN qs = DOMAIN ps \cup {p} /\ qs[p] = s
      /\ DOMAIN ss = DOMAIN ps \cup {p} /\ ss[p] = past
      /\ \A q \in DOMAIN ps : q # p => qs[q] = ps[q] /\ ss[q] = rs[q]
  BY DEF Adapters!Put, Histories
<1>2. Histories(qs, ss)
  BY <1>1 DEF Histories
<1>3. /\ \A q \in DOMAIN ps : ps[q] \in Adapters!Snapshot
      /\ \A q \in DOMAIN qs : qs[q] \in Adapters!Snapshot
  BY <1>2 DEF Histories, History
<1>4. /\ \A q \in DOMAIN ps : /\ ps[q].revision \in Nat
                              /\ Len(ps[q].events) \in Nat
                              /\ IsPrefix(ps[q].events, ps[q].events)
      /\ s.revision \in Nat /\ s.revision >= 1 /\ Len(s.events) \in Nat
  BY <1>3, LenProperties, MaxRevisionAssumption DEF Adapters!Snapshot, IsPrefix
<1>5. Extends(ps, rs, qs, ss)
  BY <1>1, <1>4 DEF Extends
<1>6. ASSUME NEW rows, RevisionRowsMatch(ps, rs, rows)
      PROVE  RevisionRowsMatch(qs, ss, Adapters!Put(rows, <<p, s.revision>>, s))
  <2> DEFINE after == Adapters!Put(rows, <<p, s.revision>>, s)
  <2>1. DOMAIN after = DOMAIN rows \cup {<<p, s.revision>>}
    BY DEF Adapters!Put
  <2>2. /\ after[<<p, s.revision>>] = s
        /\ \A k \in DOMAIN rows : k # <<p, s.revision>> => after[k] = rows[k]
    BY DEF Adapters!Put
  <2> HIDE DEF after
  <2>3. ASSUME NEW q \in DOMAIN qs
        PROVE  {q} \X (1 .. qs[q].revision) =
                 IF q # p THEN {q} \X (1 .. ps[q].revision)
                 ELSE IF p \in DOMAIN ps
                   THEN ({p} \X (1 .. ps[p].revision)) \cup {<<p, s.revision>>}
                   ELSE {<<p, s.revision>>}
    <3>1. CASE q # p
      BY <1>1, <3>1
    <3>2. CASE q = p /\ p \in DOMAIN ps
      <4>1. 1 .. s.revision = (1 .. ps[p].revision) \cup {s.revision}
        BY <1>4, <3>2
      <4> QED
        BY <1>1, <3>2, <4>1
    <3>3. CASE q = p /\ p \notin DOMAIN ps
      <4>1. 1 .. s.revision = {s.revision}
        BY <1>4, <3>3
      <4> QED
        BY <1>1, <3>3, <4>1
    <3> QED
      BY <3>1, <3>2, <3>3
  <2>4. RevisionKeys(qs) = RevisionKeys(ps) \cup {<<p, s.revision>>}
    <3>1. ASSUME NEW k \in RevisionKeys(qs)
          PROVE  k \in RevisionKeys(ps) \cup {<<p, s.revision>>}
      <4>1. PICK q \in DOMAIN qs : k \in {q} \X (1 .. qs[q].revision)
        BY <3>1 DEF RevisionKeys
      <4>2. q = p \/ q \in DOMAIN ps
        BY <1>1
      <4> QED
        BY <2>3, <4>1, <4>2 DEF RevisionKeys
    <3>2. ASSUME NEW k \in RevisionKeys(ps) \cup {<<p, s.revision>>}
          PROVE  k \in RevisionKeys(qs)
      <4>1. p \in DOMAIN qs
        BY <1>1
      <4>2. CASE k = <<p, s.revision>>
        BY <2>3, <4>1, <4>2 DEF RevisionKeys
      <4>3. CASE k \in RevisionKeys(ps)
        <5>1. PICK q \in DOMAIN ps : k \in {q} \X (1 .. ps[q].revision)
          BY <4>3 DEF RevisionKeys
        <5>2. q \in DOMAIN qs
          BY <1>1
        <5> QED
          BY <2>3, <5>1, <5>2 DEF RevisionKeys
      <4> QED
        BY <3>2, <4>2, <4>3
    <3> QED
      BY <3>1, <3>2
  <2>5. ASSUME NEW q \in DOMAIN qs, NEW n \in 1 .. qs[q].revision
        PROVE  after[<<q, n>>] = ss[q][n]
    <3>1. <<q, n>> \in DOMAIN after
      BY <2>1, <2>4, <1>6 DEF RevisionKeys, RevisionRowsMatch
    <3>2. CASE q # p
      <4>1. q \in DOMAIN ps /\ n \in 1 .. ps[q].revision
        BY <1>1, <3>2
      <4>2. <<q, n>> \in DOMAIN rows /\ rows[<<q, n>>] = rs[q][n]
        BY <1>6, <4>1 DEF RevisionRowsMatch, RevisionKeys
      <4> QED
        BY <1>1, <2>2, <3>2, <4>1, <4>2
    <3>3. CASE q = p /\ n = s.revision
      <4>1. past[s.revision] = s
        BY DEF History
      <4> QED
        BY <1>1, <2>2, <3>3, <4>1
    <3>4. CASE q = p /\ n # s.revision
      <4>1. p \in DOMAIN ps /\ n \in 1 .. ps[p].revision
        BY <1>1, <1>4, <3>4
      <4>2. <<p, n>> \in DOMAIN rows /\ rows[<<p, n>>] = rs[p][n]
        BY <1>6, <4>1 DEF RevisionRowsMatch, RevisionKeys
      <4> QED
        BY <1>1, <2>2, <3>4, <4>1, <4>2
    <3> QED
      BY <3>2, <3>3, <3>4
  <2> QED
    BY <1>6, <2>1, <2>4, <2>5 DEF RevisionRowsMatch, after
<1>7. ASSUME NEW rows, EventRowsMatch(ps, rows)
      PROVE  EventRowsMatch(qs, WithEvents(rows, p, s.events))
  <2> DEFINE new == {<<p, i>> : i \in 1 .. Len(s.events)}
             after == WithEvents(rows, p, s.events)
  <2>1. /\ DOMAIN after = DOMAIN rows \cup new
        /\ \A i \in 1 .. Len(s.events) : after[<<p, i>>] = s.events[i]
        /\ \A k \in DOMAIN rows : k \notin new => after[k] = rows[k]
    BY DEF WithEvents
  <2>2. new = {p} \X (1 .. Len(s.events))
    OBVIOUS
  <2> HIDE DEF after, new
  <2>3. p \in DOMAIN ps => {p} \X (1 .. Len(ps[p].events)) \subseteq new
    BY <1>4, <2>2 DEF IsPrefix
  <2>4. EventKeys(qs) = EventKeys(ps) \cup new
    <3>1. ASSUME NEW k \in EventKeys(qs)
          PROVE  k \in EventKeys(ps) \cup new
      <4>1. PICK q \in DOMAIN qs : k \in {q} \X (1 .. Len(qs[q].events))
        BY <3>1 DEF EventKeys
      <4>2. CASE q = p
        BY <1>1, <2>2, <4>1, <4>2
      <4>3. CASE q # p
        BY <1>1, <4>1, <4>3 DEF EventKeys
      <4> QED
        BY <4>2, <4>3
    <3>2. ASSUME NEW k \in EventKeys(ps) \cup new
          PROVE  k \in EventKeys(qs)
      <4>1. p \in DOMAIN qs /\ new = {p} \X (1 .. Len(qs[p].events))
        BY <1>1, <2>2
      <4>2. CASE k \in new
        BY <4>1, <4>2 DEF EventKeys
      <4>3. CASE k \in EventKeys(ps) /\ k \notin new
        <5>1. PICK q \in DOMAIN ps : k \in {q} \X (1 .. Len(ps[q].events))
          BY <4>3 DEF EventKeys
        <5>2. q # p
          BY <2>3, <4>3, <5>1
        <5>3. q \in DOMAIN qs /\ k \in {q} \X (1 .. Len(qs[q].events))
          BY <1>1, <5>1, <5>2
        <5> QED
          BY <5>3 DEF EventKeys
      <4> QED
        BY <3>2, <4>2, <4>3
    <3> QED
      BY <3>1, <3>2
  <2>5. ASSUME NEW q \in DOMAIN qs, NEW i \in 1 .. Len(qs[q].events)
        PROVE  after[<<q, i>>] = qs[q].events[i]
    <3>1. CASE q = p
      BY <1>1, <2>1, <3>1
    <3>2. CASE q # p
      <4>1. q \in DOMAIN ps /\ i \in 1 .. Len(ps[q].events)
        BY <1>1, <3>2
      <4>2. <<q, i>> \in DOMAIN rows /\ rows[<<q, i>>] = ps[q].events[i]
        BY <1>7, <4>1 DEF EventRowsMatch, EventKeys
      <4>3. <<q, i>> \notin new
        BY <2>2, <3>2
      <4> QED
        BY <1>1, <2>1, <3>2, <4>1, <4>2, <4>3
    <3> QED
      BY <3>1, <3>2
  <2> QED
    BY <1>7, <2>1, <2>4, <2>5 DEF EventRowsMatch, after
<1> QED
  BY <1>2, <1>5, <1>6, <1>7

----------------------------------------------------------------------------
(* The calls of one thread *)

\* add and save end alike on both sides, and write the same snapshot.
LEMMA SaveOutcome ==
  ASSUME StoresConsistent, NEW t \in Threads, NEW n \in 1 .. 2,
         Adapters!Save(t, n),
         NEW c, c = portCall[t].command, NEW p, p = c.project,
         NEW s, s = Adapters!Changed(portCall[t].memory, c, n)
  PROVE  /\ answers'[1] = answers'[2]
         /\ c \in Adapters!Command
         /\ portCall[t].memory \in Adapters!Snapshot \cup {Adapters!Unborn}
         /\ portCall[t].memory.revision = c.expected
         /\ \/ /\ UNCHANGED <<projects, memoryRevisions, projectRows,
                              revisionRows, eventRows>>
               /\ portCall' = [portCall EXCEPT ![t] = Adapters!Idle]
            \/ /\ portCall' = [portCall EXCEPT ![t].at = "record"]
               /\ \/ /\ p \notin DOMAIN projects
                     /\ c.expected = 0
                     /\ memoryRevisions' = Adapters!Put(memoryRevisions, p,
                          Adapters!Put(Adapters!Empty, s.revision, s))
                  \/ /\ p \in DOMAIN projects
                     /\ portCall[t].memory = projects[p]
                     /\ memoryRevisions' = Adapters!Put(memoryRevisions, p,
                          Adapters!Put(memoryRevisions[p], s.revision, s))
               /\ projects' = Adapters!Put(projects, p, s)
               /\ projectRows' = Adapters!Put(projectRows, p, s)
               /\ revisionRows' =
                    Adapters!Put(revisionRows, <<p, s.revision>>, s)
               /\ Adapters!AppendEvents(p, s.events)
<1> DEFINE b == portCall[t].memory
<1>1. /\ portCall[t] # Adapters!Idle
      /\ portCall[t] \in Sent
      /\ portCall[t].at = "save"
      /\ CallFits(portCall[t], projects, memoryRevisions)
  <2>1. Adapters!Idle.at = "idle" /\ portCall[t].at = "save"
    BY DEF Adapters!Save, Adapters!At, Adapters!Idle
  <2>2. portCall[t] # Adapters!Idle
    BY <2>1
  <2> QED
    BY <2>1, <2>2 DEF StoresConsistent
<1>2. /\ c \in Adapters!Command
      /\ b \in Adapters!Snapshot \cup {Adapters!Unborn}
      /\ portCall[t].sqlite = b
  BY <1>1 DEF Sent, CallFits
<1>3. /\ c.expected = 0 => b = Adapters!Unborn
      /\ c.expected # 0 => /\ Has(projects, p, c.expected)
                           /\ b = memoryRevisions[p][c.expected]
  BY <1>1 DEF CallFits
<1>4. b.revision = c.expected
  <2>1. CASE c.expected = 0
    BY <1>3, <2>1 DEF Adapters!Unborn
  <2>2. CASE c.expected # 0
    BY <1>3, <2>2 DEF Has, StoresConsistent, Histories, History
  <2> QED
    BY <2>1, <2>2
<1>5. /\ s \in Adapters!Snapshot
      /\ s.revision = c.expected + 1
      /\ IsPrefix(b.events, s.events)
  BY <1>2, <1>4, ChangedFacts
<1>6. /\ projectRows = projects
      /\ DOMAIN revisionRows = RevisionKeys(projects)
      /\ DOMAIN eventRows = EventKeys(projects)
      /\ \A q \in DOMAIN projects : \A i \in 1 .. Len(projects[q].events) :
           eventRows[<<q, i>>] = projects[q].events[i]
  BY DEF StoresConsistent, RevisionRowsMatch, EventRowsMatch
<1>7. p \in DOMAIN projects =>
        /\ projects[p].revision \in Nat
        /\ memoryRevisions[p][projects[p].revision] = projects[p]
  BY MaxRevisionAssumption
     DEF StoresConsistent, Histories, History, Adapters!Snapshot
<1>8. c.expected \in Nat
  BY <1>2, MaxRevisionAssumption DEF Adapters!Command
<1>9. CASE c.expected = 0
  <2>1. <<p, s.revision>> \in DOMAIN revisionRows => p \in DOMAIN projects
    BY <1>6 DEF RevisionKeys
  <2>2. /\ Adapters!MemoryAddError(p) = Adapters!SqliteAddError(p, s)
        /\ Adapters!MemoryAddError(p) = "ok" => p \notin DOMAIN projects
    BY <1>6, <2>1 DEF Adapters!MemoryAddError, Adapters!SqliteAddError
  <2>3. \/ /\ UNCHANGED <<projects, memoryRevisions, projectRows, revisionRows,
                          eventRows>>
           /\ portCall' = [portCall EXCEPT ![t] = Adapters!Idle]
           /\ answers'[1] = answers'[2]
        \/ /\ Adapters!MemoryAddError(p) = "ok"
           /\ Adapters!MemoryAdd(p, s)
           /\ Adapters!SqliteWrite(p, s)
           /\ portCall' = [portCall EXCEPT ![t].at = "record"]
           /\ answers'[1] = answers'[2]
    <3>1. CASE Adapters!MemoryAddError(p) = "ok"
      BY <1>2, <1>9, <2>2, <3>1 DEF Adapters!Save, Adapters!Raise
    <3>2. CASE Adapters!MemoryAddError(p) # "ok"
      BY <1>2, <1>9, <2>2, <3>2 DEF Adapters!Save, Adapters!Raise
    <3> QED
      BY <3>1, <3>2
  <2> QED
    BY <1>2, <1>4, <1>9, <2>2, <2>3 DEF Adapters!MemoryAdd, Adapters!SqliteWrite
<1>10. CASE c.expected # 0
  <2>1. p \in DOMAIN projects /\ c.expected \in 1 .. projects[p].revision
    BY <1>3, <1>10 DEF Has
  <2>2. ASSUME projects[p].revision = c.expected
        PROVE  /\ b = projects[p]
               /\ <<p, s.revision>> \notin DOMAIN revisionRows
               /\ ~Adapters!Conflicts(p, s.events)
    <3>1. b = projects[p]
      BY <1>3, <1>7, <1>10, <2>1, <2>2
    <3>2. <<p, s.revision>> \notin DOMAIN revisionRows
      BY <1>5, <1>6, <1>8, <2>2 DEF RevisionKeys
    <3>3. ASSUME NEW i \in 1 .. Len(s.events), <<p, i>> \in DOMAIN eventRows
          PROVE  eventRows[<<p, i>>] = s.events[i]
      <4>1. i \in 1 .. Len(projects[p].events)
        BY <1>6, <3>3 DEF EventKeys
      <4> QED
        BY <1>5, <1>6, <2>1, <3>1, <4>1 DEF IsPrefix
    <3> QED
      BY <3>1, <3>2, <3>3 DEF Adapters!Conflicts
  <2>3. /\ Adapters!MemorySaveError(p, c.expected) =
             Adapters!SqliteSaveError(p, c.expected, s)
        /\ Adapters!MemorySaveError(p, c.expected) = "ok" =>
             projects[p].revision = c.expected
    BY <1>6, <2>1, <2>2
       DEF Adapters!MemorySaveError, Adapters!SqliteSaveError
  <2>4. \/ /\ UNCHANGED <<projects, memoryRevisions, projectRows, revisionRows,
                          eventRows>>
           /\ portCall' = [portCall EXCEPT ![t] = Adapters!Idle]
           /\ answers'[1] = answers'[2]
        \/ /\ Adapters!MemorySaveError(p, c.expected) = "ok"
           /\ Adapters!MemorySave(p, s)
           /\ Adapters!SqliteWrite(p, s)
           /\ portCall' = [portCall EXCEPT ![t].at = "record"]
           /\ answers'[1] = answers'[2]
    <3>1. CASE Adapters!MemorySaveError(p, c.expected) = "ok"
      BY <1>2, <1>10, <2>3, <3>1 DEF Adapters!Save, Adapters!Raise
    <3>2. CASE Adapters!MemorySaveError(p, c.expected) # "ok"
      BY <1>2, <1>10, <2>3, <3>2 DEF Adapters!Save, Adapters!Raise
    <3> QED
      BY <3>1, <3>2
  <2> QED
    BY <1>2, <1>4, <2>1, <2>2, <2>3, <2>4
       DEF Adapters!MemorySave, Adapters!SqliteWrite
<1> QED
  BY <1>9, <1>10

\* A call that leaves the tables alone: what it must keep.
LEMMA CallKeeps ==
  ASSUME StoresConsistent, NEW t \in Threads,
         UNCHANGED <<projects, memoryRevisions, records, projectRows,
                     revisionRows, eventRows, ledgerRows, follower>>,
         answers'[1] = answers'[2],
         NEW step \in Sent \cup {Adapters!Idle},
         portCall' = [portCall EXCEPT ![t] = step],
         CallFits(step, projects, memoryRevisions)
  PROVE  StoresConsistent'
<1>1. /\ portCall' \in [Threads -> Sent \cup {Adapters!Idle}]
      /\ \A u \in Threads : CallFits(portCall'[u], projects, memoryRevisions)
  BY DEF StoresConsistent
<1> QED
  BY <1>1 DEF StoresConsistent

LEMMA IdleFits ==
  ASSUME NEW ps, NEW rs
  PROVE  CallFits(Adapters!Idle, ps, rs)
  BY DEF CallFits

LEMMA LookupKeeps ==
  ASSUME StoresConsistent, NEW t \in Threads, NEW c \in Adapters!Command,
         Adapters!Lookup(t, c)
  PROVE  StoresConsistent'
<1>1. UNCHANGED <<projects, memoryRevisions, records, projectRows,
                  revisionRows, eventRows, ledgerRows, follower>>
  BY DEF Adapters!Lookup, Adapters!memory, Adapters!tables
<1>2. CASE c.id \in DOMAIN records
  <2>1. Adapters!MemoryRecordError([fingerprint |-> c]) =
          Adapters!SqliteRecordError([fingerprint |-> c])
    BY DEF StoresConsistent, Adapters!MemoryRecordError,
           Adapters!SqliteRecordError
  <2>2. answers'[1] = answers'[2] /\ UNCHANGED portCall
    BY <1>2, <2>1 DEF Adapters!Lookup
  <2> QED
    BY <1>1, <2>2 DEF StoresConsistent
<1>3. CASE c.id \notin DOMAIN records
  <2> DEFINE step == [at |-> IF c.expected = 0 THEN "save" ELSE "read",
                      command |-> c, memory |-> Adapters!Unborn,
                      sqlite |-> Adapters!Unborn]
  <2>1. answers'[1] = answers'[2] /\ portCall' = [portCall EXCEPT ![t] = step]
    BY <1>3 DEF Adapters!Lookup
  <2>2. step \in Sent
    BY DEF Sent
  <2>3. CallFits(step, projects, memoryRevisions)
    BY DEF CallFits
  <2> HIDE DEF step
  <2> QED
    BY <1>1, <2>1, <2>2, <2>3, CallKeeps
<1> QED
  BY <1>2, <1>3

LEMMA ReadKeeps ==
  ASSUME StoresConsistent, NEW t \in Threads, Adapters!Read(t)
  PROVE  StoresConsistent'
<1> DEFINE c == portCall[t].command
           p == c.project
           errors == <<Adapters!MemoryGetError(p), Adapters!SqliteGetError(p)>>
<1>1. UNCHANGED <<projects, memoryRevisions, records, projectRows,
                  revisionRows, eventRows, ledgerRows, follower>>
  BY DEF Adapters!Read, Adapters!memory, Adapters!tables
<1>2. portCall[t] \in Sent
  <2>1. portCall[t].at = "read" /\ Adapters!Idle.at = "idle"
    BY DEF Adapters!Read, Adapters!At, Adapters!Idle
  <2>2. portCall[t] # Adapters!Idle
    BY <2>1
  <2> QED
    BY <2>2 DEF StoresConsistent
<1>3. projectRows = projects
  BY DEF StoresConsistent
<1>4. errors[1] = errors[2] /\ (errors[1] = "ok" => p \in DOMAIN projects)
  BY <1>3 DEF Adapters!MemoryGetError, Adapters!SqliteGetError
<1>5. CASE /\ portCall' = [portCall EXCEPT ![t] = Adapters!Idle]
           /\ answers'[1] = answers'[2]
  BY <1>1, <1>5, IdleFits, CallKeeps
<1>6. CASE /\ c.expected = projects[p].revision
           /\ errors[1] = "ok"
           /\ answers'[1] = answers'[2]
           /\ portCall' = [portCall EXCEPT ![t] =
                [at |-> "save", command |-> c, memory |-> projects[p],
                 sqlite |-> projectRows[p]]]
  <2> DEFINE step == [at |-> "save", command |-> c, memory |-> projects[p],
                      sqlite |-> projectRows[p]]
  <2>1. /\ p \in DOMAIN projects
        /\ projects[p] \in Adapters!Snapshot
        /\ memoryRevisions[p][projects[p].revision] = projects[p]
    BY <1>4, <1>6 DEF StoresConsistent, Histories, History
  <2>2. projects[p].revision \in 1 .. MaxRevision
    BY <2>1 DEF Adapters!Snapshot
  <2>3. step \in Sent
    BY <1>2, <1>3, <2>1 DEF Sent
  <2>4. CallFits(step, projects, memoryRevisions)
    <3>1. Has(projects, p, c.expected)
      BY <1>6, <2>1, <2>2, MaxRevisionAssumption DEF Has
    <3>2. c.expected # 0
      BY <1>6, <2>2, MaxRevisionAssumption
    <3> QED
      BY <1>3, <1>6, <2>1, <3>1, <3>2 DEF CallFits
  <2> HIDE DEF step
  <2>5. portCall' = [portCall EXCEPT ![t] = step]
    BY <1>6 DEF step
  <2> QED
    BY <1>1, <1>6, <2>3, <2>4, <2>5, CallKeeps
<1>7. \/ /\ portCall' = [portCall EXCEPT ![t] = Adapters!Idle]
         /\ answers' = errors
      \/ /\ portCall' = [portCall EXCEPT ![t] = Adapters!Idle]
         /\ answers' = <<"STALE_REVISION", "STALE_REVISION">>
      \/ /\ c.expected = projects[p].revision
         /\ errors = <<"ok", "ok">>
         /\ answers' = errors
         /\ portCall' = [portCall EXCEPT ![t] =
              [at |-> "save", command |-> c, memory |-> projects[p],
               sqlite |-> projectRows[p]]]
  BY DEF Adapters!Read, Adapters!Raise
<1> QED
  <2> HIDE DEF errors, c, p
  <2> QED
    BY <1>4, <1>5, <1>6, <1>7

LEMMA SaveKeeps ==
  ASSUME StoresConsistent, NEW t \in Threads, NEW n \in 1 .. 2,
         Adapters!Save(t, n)
  PROVE  StoresConsistent'
<1> DEFINE c == portCall[t].command
           p == c.project
           b == portCall[t].memory
           s == Adapters!Changed(b, c, n)
<1>1. UNCHANGED <<records, ledgerRows, follower>>
  BY DEF Adapters!Save
<1>2. /\ answers'[1] = answers'[2]
      /\ c \in Adapters!Command
      /\ b \in Adapters!Snapshot \cup {Adapters!Unborn}
      /\ b.revision = c.expected
  BY SaveOutcome
<1>3. CASE /\ UNCHANGED <<projects, memoryRevisions, projectRows,
                          revisionRows, eventRows>>
           /\ portCall' = [portCall EXCEPT ![t] = Adapters!Idle]
  BY <1>1, <1>2, <1>3, IdleFits, CallKeeps
<1>4. ASSUME NEW past,
             portCall' = [portCall EXCEPT ![t].at = "record"],
             memoryRevisions' = Adapters!Put(memoryRevisions, p, past),
             p \notin DOMAIN projects =>
               /\ c.expected = 0
               /\ past = Adapters!Put(Adapters!Empty, s.revision, s),
             p \in DOMAIN projects =>
               /\ b = projects[p]
               /\ past = Adapters!Put(memoryRevisions[p], s.revision, s),
             projects' = Adapters!Put(projects, p, s),
             projectRows' = Adapters!Put(projectRows, p, s),
             revisionRows' = Adapters!Put(revisionRows, <<p, s.revision>>, s),
             Adapters!AppendEvents(p, s.events)
      PROVE  StoresConsistent'
  <2>1. /\ s \in Adapters!Snapshot
        /\ s.revision = c.expected + 1
        /\ IsPrefix(b.events, s.events)
        /\ Len(s.events) = Len(b.events) + n
        /\ s.events[Len(s.events)].body = c.body
        /\ Len(b.events) \in Nat
    BY <1>2, ChangedFacts, LenProperties
  <2>2. /\ Histories(projects, memoryRevisions)
        /\ projectRows = projects
        /\ DOMAIN projects \subseteq Projects
    BY DEF StoresConsistent
  <2> HIDE DEF s, b
  <2>3. /\ History(s, past)
        /\ p \notin DOMAIN projects => s.revision = 1
        /\ p \in DOMAIN projects =>
             /\ s.revision = projects[p].revision + 1
             /\ IsPrefix(projects[p].events, s.events)
             /\ \A m \in 1 .. projects[p].revision :
                  past[m] = memoryRevisions[p][m]
    <3>1. CASE p \notin DOMAIN projects
      BY <1>4, <2>1, <3>1, HistoryBegins
    <3>2. CASE p \in DOMAIN projects
      <4>1. History(projects[p], memoryRevisions[p])
        BY <2>2, <3>2 DEF Histories
      <4>2. s.revision = projects[p].revision + 1
        BY <1>2, <1>4, <2>1, <3>2
      <4> QED
        BY <1>4, <2>1, <3>2, <4>1, <4>2, HistoryGrows
    <3> QED
      BY <3>1, <3>2
  <2>4. /\ Histories(projects', memoryRevisions')
        /\ Extends(projects, memoryRevisions, projects', memoryRevisions')
        /\ RevisionRowsMatch(projects', memoryRevisions', revisionRows')
        /\ EventRowsMatch(projects', eventRows')
    <3>1. /\ RevisionRowsMatch(projects, memoryRevisions, revisionRows)
          /\ EventRowsMatch(projects, eventRows)
      BY DEF StoresConsistent
    <3>2. eventRows' = WithEvents(eventRows, p, s.events)
      BY <1>4 DEF Adapters!AppendEvents, WithEvents
    <3> HIDE DEF p
    <3>3. /\ Histories(projects', memoryRevisions')
          /\ Extends(projects, memoryRevisions, projects', memoryRevisions')
      BY <1>4, <2>1, <2>2, <2>3, GrowthKeeps
    <3>4. RevisionRowsMatch(projects', memoryRevisions', revisionRows')
      BY <1>4, <2>1, <2>2, <2>3, <3>1, GrowthKeeps
    <3>5. EventRowsMatch(projects', eventRows')
      BY <1>4, <2>1, <2>2, <2>3, <3>1, <3>2, GrowthKeeps
    <3> QED
      BY <3>3, <3>4, <3>5
  <2>5. projectRows' = projects' /\ ledgerRows' = records'
    BY <1>1, <1>4, <2>2 DEF StoresConsistent
  <2>6. DOMAIN projects' \subseteq Projects
    BY <1>2, <1>4, <2>2 DEF Adapters!Put, Adapters!Command
  <2>7. /\ RecordsFit(records', projects', memoryRevisions')
        /\ FollowerFits(follower', projects')
    BY <1>1, <2>2, <2>4, ExtendsKeeps DEF StoresConsistent
  <2>8. Wrote(c, projects', memoryRevisions')
    <3>1. projects'[p] = s /\ p \in DOMAIN projects'
      BY <1>4 DEF Adapters!Put
    <3>2. memoryRevisions'[p] = past
      BY <1>4 DEF Adapters!Put
    <3>3. past[s.revision] = s /\ s.revision \in Nat /\ c.expected \in Nat
      BY <1>2, <2>1, <2>3, MaxRevisionAssumption
         DEF History, Adapters!Snapshot, Adapters!Command
    <3>4. Has(projects', p, c.expected + 1)
      BY <2>1, <3>1, <3>3 DEF Has
    <3>5. Len(s.events) # 0
      BY <2>1
    <3> QED
      BY <2>1, <3>2, <3>3, <3>4, <3>5 DEF Wrote
  <2>9. /\ portCall' \in [Threads -> Sent \cup {Adapters!Idle}]
        /\ \A u \in Threads :
             CallFits(portCall'[u], projects', memoryRevisions')
    <3>1. /\ portCall[t] \in Sent \cup {Adapters!Idle}
          /\ portCall[t].at = "save"
      BY DEF StoresConsistent, Adapters!Save, Adapters!At
    <3>2. portCall[t] \in Sent
      BY <3>1 DEF Adapters!Idle
    <3> DEFINE step == [portCall[t] EXCEPT !.at = "record"]
    <3>3. step \in Sent /\ step.at = "record" /\ step.command = c
          /\ step.memory = step.sqlite
      <4>1. portCall[t].memory = portCall[t].sqlite
        <5>1. portCall[t] # Adapters!Idle
          BY <3>1 DEF Adapters!Idle
        <5> QED
          BY <5>1 DEF StoresConsistent, CallFits
      <4> QED
        BY <3>2, <4>1 DEF Sent
    <3>4. portCall' = [portCall EXCEPT ![t] = step]
      BY <1>4 DEF StoresConsistent
    <3> HIDE DEF step
    <3>5. CallFits(step, projects', memoryRevisions')
      BY <2>8, <3>3 DEF CallFits
    <3>6. \A u \in Threads : CallFits(portCall[u], projects', memoryRevisions')
      BY <2>2, <2>4, ExtendsKeeps DEF StoresConsistent
    <3> QED
      BY <3>3, <3>4, <3>5, <3>6 DEF StoresConsistent
  <2> QED
    BY <1>2, <2>4, <2>5, <2>6, <2>7, <2>9 DEF StoresConsistent
<1>5. CASE /\ portCall' = [portCall EXCEPT ![t].at = "record"]
           /\ p \notin DOMAIN projects
           /\ c.expected = 0
           /\ memoryRevisions' = Adapters!Put(memoryRevisions, p,
                Adapters!Put(Adapters!Empty, s.revision, s))
           /\ projects' = Adapters!Put(projects, p, s)
           /\ projectRows' = Adapters!Put(projectRows, p, s)
           /\ revisionRows' = Adapters!Put(revisionRows, <<p, s.revision>>, s)
           /\ Adapters!AppendEvents(p, s.events)
  BY <1>4, <1>5
<1>6. CASE /\ portCall' = [portCall EXCEPT ![t].at = "record"]
           /\ p \in DOMAIN projects
           /\ b = projects[p]
           /\ memoryRevisions' = Adapters!Put(memoryRevisions, p,
                Adapters!Put(memoryRevisions[p], s.revision, s))
           /\ projects' = Adapters!Put(projects, p, s)
           /\ projectRows' = Adapters!Put(projectRows, p, s)
           /\ revisionRows' = Adapters!Put(revisionRows, <<p, s.revision>>, s)
           /\ Adapters!AppendEvents(p, s.events)
  BY <1>4, <1>6
<1> HIDE DEF s, b, p, c
<1> QED
  BY <1>3, <1>5, <1>6, SaveOutcome DEF s, b, p, c

LEMMA RecordKeeps ==
  ASSUME StoresConsistent, NEW t \in Threads, Adapters!Record(t)
  PROVE  StoresConsistent'
<1> DEFINE c == portCall[t].command
           r == [fingerprint |-> c, revision |-> c.expected + 1]
<1>1. /\ portCall[t] \in Sent
      /\ portCall[t].memory = portCall[t].sqlite
      /\ Wrote(c, projects, memoryRevisions)
  <2>1. portCall[t].at = "record" /\ Adapters!Idle.at = "idle"
    BY DEF Adapters!Record, Adapters!At, Adapters!Idle
  <2>2. portCall[t] # Adapters!Idle
    BY <2>1
  <2> QED
    BY <2>1, <2>2 DEF StoresConsistent, CallFits
<1>2. UNCHANGED <<projects, memoryRevisions, projectRows, revisionRows,
                  eventRows, follower>>
  BY DEF Adapters!Record
<1>3. ledgerRows = records /\ RecordsFit(records, projects, memoryRevisions)
  BY DEF StoresConsistent
<1>4. c \in Adapters!Command /\ RecordFits(c.id, r, projects, memoryRevisions)
  BY <1>1 DEF RecordFits, Sent
<1>5. Adapters!MemoryRecordError(r) = Adapters!SqliteRecordError(r)
  BY <1>3 DEF Adapters!MemoryRecordError, Adapters!SqliteRecordError
<1>6. CASE Adapters!MemoryRecordError(r) # "ok"
  <2>1. /\ UNCHANGED <<records, ledgerRows>>
        /\ portCall' = [portCall EXCEPT ![t] = Adapters!Idle]
        /\ answers'[1] = answers'[2]
    BY <1>5, <1>6 DEF Adapters!Record, Adapters!Raise
  <2> QED
    BY <1>2, <2>1, IdleFits, CallKeeps
<1>7. CASE Adapters!MemoryRecordError(r) = "ok"
  <2>1. /\ Adapters!MemoryRecord(r) /\ Adapters!SqliteRecord(r)
        /\ portCall' = [portCall EXCEPT ![t].at = "audit"]
        /\ answers'[1] = answers'[2]
    BY <1>5, <1>7 DEF Adapters!Record
  <2>2. records' = Adapters!Put(records, c.id, r)
    BY <2>1 DEF Adapters!MemoryRecord
  <2>3. ledgerRows' = records'
    <3>1. CASE c.id \in DOMAIN records
      <4>1. records[c.id].fingerprint = c
        BY <1>7, <3>1 DEF Adapters!MemoryRecordError
      <4>2. records[c.id] = r
        BY <1>3, <3>1, <4>1 DEF RecordsFit, RecordFits
      <4>3. records = [id \in DOMAIN records |-> records[id]]
        BY <1>3 DEF RecordsFit
      <4>4. Adapters!Put(records, c.id, r) = records
        BY <3>1, <4>2, <4>3 DEF Adapters!Put
      <4> QED
        BY <1>3, <2>1, <2>2, <3>1, <4>4 DEF Adapters!SqliteRecord
    <3>2. CASE c.id \notin DOMAIN records
      BY <1>3, <2>1, <2>2, <3>2 DEF Adapters!SqliteRecord
    <3> QED
      BY <3>1, <3>2
  <2>4. RecordsFit(records', projects, memoryRevisions)
    <3>1. records' = [id \in DOMAIN records' |-> records'[id]]
      BY <2>2 DEF Adapters!Put
    <3>2. /\ DOMAIN records' = DOMAIN records \cup {c.id}
          /\ records'[c.id] = r
          /\ \A id \in DOMAIN records : id # c.id => records'[id] = records[id]
      BY <2>2 DEF Adapters!Put
    <3> HIDE DEF r, c
    <3> QED
      BY <1>3, <1>4, <3>1, <3>2 DEF RecordsFit
  <2> DEFINE step == [portCall[t] EXCEPT !.at = "audit"]
  <2>5. portCall' = [portCall EXCEPT ![t] = step]
    BY <2>1 DEF StoresConsistent
  <2>6. /\ step \in Sent /\ step.at = "audit" /\ step.command = c
        /\ step.memory = step.sqlite
    BY <1>1 DEF Sent
  <2> HIDE DEF step
  <2>7. CallFits(step, projects, memoryRevisions)
    BY <1>1, <2>6 DEF CallFits
  <2>8. /\ portCall' \in [Threads -> Sent \cup {Adapters!Idle}]
        /\ \A u \in Threads :
             CallFits(portCall'[u], projects, memoryRevisions)
    BY <2>5, <2>6, <2>7 DEF StoresConsistent
  <2> QED
    BY <1>2, <2>1, <2>3, <2>4, <2>8 DEF StoresConsistent
<1> QED
  BY <1>6, <1>7

\* The number of a project's last event row is how many events it has.
LEMMA LastSequenceFacts ==
  ASSUME StoresConsistent, NEW p
  PROVE  Adapters!LastSequence(p) =
           IF p \in DOMAIN projects THEN Len(projects[p].events) ELSE 0
<1> DEFINE keys == {k \in DOMAIN eventRows : k[1] = p}
<1>1. DOMAIN eventRows = EventKeys(projects)
  BY DEF StoresConsistent, EventRowsMatch
<1>2. Adapters!LastSequence(p) = Cardinality(keys)
  BY DEF Adapters!LastSequence, Adapters!Cardinality, Cardinality
<1>3. CASE p \in DOMAIN projects
  <2> DEFINE len == Len(projects[p].events)
             f == [i \in 1 .. len |-> <<p, i>>]
  <2>1. len \in Nat
    <3>1. projects[p] \in Adapters!Snapshot
      BY <1>3 DEF StoresConsistent, Histories, History
    <3> QED
      BY <3>1, LenProperties DEF Adapters!Snapshot
  <2>2. keys = {p} \X (1 .. len)
    BY <1>1, <1>3 DEF EventKeys
  <2> HIDE DEF keys
  <2>3. f \in Bijection(1 .. len, keys)
    <3>1. f \in [1 .. len -> keys]
      BY <2>2
    <3>2. \A i, j \in 1 .. len : f[i] = f[j] => i = j
      OBVIOUS
    <3>3. \A k \in keys : \E i \in 1 .. len : f[i] = k
      BY <2>2
    <3> HIDE DEF f
    <3> QED
      BY <3>1, <3>2, <3>3 DEF Bijection, Injection, Surjection, IsInjective
  <2>4. IsFiniteSet(1 .. len) /\ Cardinality(1 .. len) = len
    BY <2>1, FS_Interval
  <2>5. ExistsBijection(1 .. len, keys)
    BY <2>3 DEF ExistsBijection
  <2>6. Cardinality(keys) = len
    BY <2>4, <2>5, FS_Bijection
  <2> QED
    BY <1>2, <1>3, <2>6 DEF keys
<1>4. CASE p \notin DOMAIN projects
  <2>1. keys = {}
    BY <1>1, <1>4 DEF EventKeys
  <2> QED
    BY <1>2, <1>4, <2>1, FS_EmptySet
<1> QED
  BY <1>3, <1>4

LEMMA FollowKeeps ==
  ASSUME StoresConsistent, NEW p \in Projects, Adapters!Follow(p)
  PROVE  StoresConsistent'
<1> DEFINE n == Len(follower.events)
           news == Adapters!AfterSequence(p, n)
           last == Adapters!LastSequence(p)
<1>1. /\ UNCHANGED <<projects, memoryRevisions, records, projectRows,
                     revisionRows, eventRows, ledgerRows, portCall, answers>>
      /\ follower.project \in {NULL, p}
      /\ news # <<>>
      /\ follower' = [project |-> p, events |-> follower.events \o news]
  BY DEF Adapters!Follow, Adapters!memory, Adapters!tables
<1>2. FollowerFits(follower, projects) /\ EventRowsMatch(projects, eventRows)
  BY DEF StoresConsistent
<1>3. n \in Nat /\ follower.events \in Seq(Adapters!EventId)
  BY <1>2, LenProperties DEF FollowerFits
<1>4. news = [i \in 1 .. (last - n) |-> eventRows[<<p, n + i>>]]
  BY DEF Adapters!AfterSequence
<1>5. p \in DOMAIN projects
  <2>1. SUFFICES ASSUME p \notin DOMAIN projects PROVE FALSE
    OBVIOUS
  <2>2. follower.project = NULL
    BY <1>1, <1>2, <2>1 DEF FollowerFits
  <2>3. n = 0
    BY <1>2, <2>2 DEF FollowerFits
  <2>4. last = 0
    BY <2>1, LastSequenceFacts
  <2>5. news = <<>>
    BY <1>4, <2>3, <2>4
  <2> QED
    BY <1>1, <2>5
<1> DEFINE events == projects[p].events
<1>6. events \in Seq(Adapters!EventId) /\ Len(events) \in Nat /\ last = Len(events)
  <2>1. projects[p] \in Adapters!Snapshot
    BY <1>5 DEF StoresConsistent, Histories, History
  <2>2. events \in Seq(Adapters!EventId) /\ Len(events) \in Nat
    BY <2>1, LenProperties DEF Adapters!Snapshot
  <2> QED
    BY <1>5, <2>2, LastSequenceFacts
<1>7. IsPrefix(follower.events, events)
  <2>1. CASE follower.project = NULL
    BY <1>2, <1>6, <2>1 DEF FollowerFits, IsPrefix
  <2>2. CASE follower.project = p
    BY <1>2, <2>2, NoProjectAssumption DEF FollowerFits
  <2> QED
    BY <1>1, <2>1, <2>2
<1>8. n <= Len(events)
  BY <1>7 DEF IsPrefix
<1> HIDE DEF n, last, events
<1>9. \A i \in 1 .. (last - n) : eventRows[<<p, n + i>>] = events[n + i]
  BY <1>2, <1>3, <1>5, <1>6, <1>8 DEF EventRowsMatch, events
<1>10. news \in Seq(Adapters!EventId) /\ Len(news) = last - n
  <2>1. \A i \in 1 .. (last - n) : events[n + i] \in Adapters!EventId
    BY <1>3, <1>6, <1>8, ElementOfSeq
  <2>2. news \in [1 .. (last - n) -> Adapters!EventId]
    BY <1>4, <1>9, <2>1
  <2>3. last - n \in Nat
    BY <1>3, <1>6, <1>8
  <2>4. news \in Seq(Adapters!EventId)
    BY <2>2, <2>3, SeqDef
  <2>5. DOMAIN news = 1 .. Len(news) /\ Len(news) \in Nat
    BY <2>4, LenProperties
  <2> HIDE DEF news
  <2> QED
    BY <2>2, <2>3, <2>4, <2>5
<1>11. \A i \in 1 .. (last - n) : news[i] = events[n + i]
  BY <1>4, <1>9
<1> HIDE DEF news
<1>12. /\ follower.events \o news \in Seq(Adapters!EventId)
       /\ Len(follower.events \o news) = n + (last - n)
       /\ \A i \in 1 .. n + (last - n) : (follower.events \o news)[i] =
            IF i <= n THEN follower.events[i] ELSE news[i - n]
  BY <1>3, <1>10, ConcatProperties DEF n
<1>13. IsPrefix(follower.events \o news, events)
  <2>1. n + (last - n) = Len(events)
    BY <1>3, <1>6, <1>8
  <2>2. ASSUME NEW i \in 1 .. Len(events), ~(i <= n)
        PROVE  news[i - n] = events[i]
    <3>1. i - n \in 1 .. (last - n) /\ n + (i - n) = i
      BY <1>3, <1>6, <1>8, <2>2
    <3> QED
      BY <1>11, <3>1
  <2>3. \A i \in 1 .. n : follower.events[i] = events[i]
    BY <1>7 DEF IsPrefix, n
  <2>4. \A i \in 1 .. Len(events) : (follower.events \o news)[i] = events[i]
    BY <1>3, <1>12, <2>1, <2>2, <2>3
  <2> QED
    BY <1>6, <1>12, <2>1, <2>4 DEF IsPrefix
<1>14. FollowerFits(follower', projects)
  <2>1. p # NULL
    BY NoProjectAssumption
  <2> QED
    BY <1>1, <1>5, <1>12, <1>13, <2>1 DEF FollowerFits, events
<1> QED
  BY <1>1, <1>14 DEF StoresConsistent

LEMMA AdaptersKeep ==
  ASSUME StoresConsistent, [Adapters!Next]_adapterVars
  PROVE  StoresConsistent'
<1>1. CASE UNCHANGED adapterVars
  BY <1>1 DEF StoresConsistent, adapterVars
<1>2. ASSUME NEW t \in Threads, NEW c \in Adapters!Command,
             Adapters!Lookup(t, c)
      PROVE  StoresConsistent'
  BY <1>2, LookupKeeps
<1>3. ASSUME NEW t \in Threads, Adapters!Read(t) PROVE StoresConsistent'
  BY <1>3, ReadKeeps
<1>4. ASSUME NEW t \in Threads, NEW n \in 1 .. 2, Adapters!Save(t, n)
      PROVE  StoresConsistent'
  BY <1>4, SaveKeeps
<1>5. ASSUME NEW t \in Threads, Adapters!Record(t) PROVE StoresConsistent'
  BY <1>5, RecordKeeps
<1>6. ASSUME NEW t \in Threads, Adapters!Audit(t) PROVE StoresConsistent'
  <2>1. /\ UNCHANGED <<projects, memoryRevisions, records, projectRows,
                       revisionRows, eventRows, ledgerRows, follower, answers>>
        /\ portCall' = [portCall EXCEPT ![t] = Adapters!Idle]
    BY <1>6 DEF Adapters!Audit, Adapters!memory, Adapters!tables
  <2>2. answers'[1] = answers'[2]
    BY <2>1 DEF StoresConsistent
  <2> QED
    BY <2>1, <2>2, IdleFits, CallKeeps
<1>7. ASSUME NEW p \in Projects, Adapters!Follow(p) PROVE StoresConsistent'
  BY <1>7, FollowKeeps
<1> QED
  BY <1>1, <1>2, <1>3, <1>4, <1>5, <1>6, <1>7 DEF Adapters!Next

LEMMA StoresBegin == StoresInit => StoresConsistent
<1> SUFFICES ASSUME StoresInit PROVE StoresConsistent
  OBVIOUS
<1> USE DEF Adapters!Empty
<1>1. Histories(projects, memoryRevisions)
  BY DEF StoresInit, Adapters!Init, Histories
<1>2. RevisionRowsMatch(projects, memoryRevisions, revisionRows)
  BY DEF StoresInit, Adapters!Init, RevisionRowsMatch, RevisionKeys
<1>3. EventRowsMatch(projects, eventRows)
  BY DEF StoresInit, Adapters!Init, EventRowsMatch, EventKeys
<1>4. RecordsFit(records, projects, memoryRevisions)
  BY DEF StoresInit, Adapters!Init, RecordsFit
<1>5. /\ portCall \in [Threads -> Sent \cup {Adapters!Idle}]
      /\ \A t \in Threads : CallFits(portCall[t], projects, memoryRevisions)
  BY IdleFits DEF StoresInit, Adapters!Init
<1>6. FollowerFits(follower, projects)
  BY EmptySeq DEF StoresInit, Adapters!Init, FollowerFits
<1> QED
  BY <1>1, <1>2, <1>3, <1>4, <1>5, <1>6
     DEF StoresInit, Adapters!Init, StoresConsistent

\* The two sets of adapters stay matched: whatever interleaving of calls led
\* here, the tables hold what the dictionaries hold, each record names a
\* revision that is there, and what a thread or a follower has read still is.
THEOREM StoresStayConsistent == StoresSpec => []StoresConsistent
<1>1. StoresConsistent /\ [StoresNext]_<<vars, adapterVars, transactional_writer>>
        => StoresConsistent'
  BY AdaptersKeep
     DEF StoresNext, SaveInOneTransaction, SaveThenRecord, adapterVars
<1> QED
  BY <1>1, StoresBegin, PTL DEF StoresSpec

\* The composition does what CommandPipeline does, or leaves it alone: its
\* theorems hold of the product's stores.
THEOREM StoresImplementPipeline == StoresSpec => Spec
<1>1. StoresInit => Init
  BY DEF StoresInit
<1>2. [StoresNext]_<<vars, adapterVars, transactional_writer>> => [Next]_vars
  BY DEF StoresNext, SaveInOneTransaction, SaveThenRecord
<1> QED
  BY <1>1, <1>2, PTL DEF StoresSpec, Spec

LEMMA ConsistentAgrees == StoresConsistent => StoresAgree
<1> SUFFICES ASSUME StoresConsistent PROVE StoresAgree
  OBVIOUS
<1>1. /\ answers[1] = answers[2]
      /\ projects = projectRows /\ records = ledgerRows
  BY DEF StoresConsistent
<1>2. Adapters!MemoryProjects = Adapters!SqliteProjects
  BY <1>1 DEF Adapters!MemoryProjects, Adapters!SqliteProjects
<1>3. ASSUME NEW p \in Projects
      PROVE  /\ Adapters!MemoryRevisions(p) = Adapters!SqliteRevisions(p)
             /\ \A n \in Adapters!MemoryRevisions(p) :
                  Adapters!MemoryRevision(p, n) = Adapters!SqliteRevision(p, n)
  <2>1. /\ DOMAIN memoryRevisions = DOMAIN projects
        /\ DOMAIN revisionRows = RevisionKeys(projects)
    BY DEF StoresConsistent, Histories, RevisionRowsMatch
  <2>2. CASE p \in DOMAIN projects
    <3>1. DOMAIN memoryRevisions[p] = 1 .. projects[p].revision
      BY <2>2 DEF StoresConsistent, Histories, History
    <3>2. {k \in DOMAIN revisionRows : k[1] = p} =
            {p} \X (1 .. projects[p].revision)
      BY <2>1, <2>2 DEF RevisionKeys
    <3>3. Adapters!SqliteRevisions(p) = 1 .. projects[p].revision
      <4> DEFINE keys == {p} \X (1 .. projects[p].revision)
      <4>1. \A n \in 1 .. projects[p].revision :
              <<p, n>> \in keys /\ <<p, n>>[2] = n
        OBVIOUS
      <4>2. \A k \in keys : k[2] \in 1 .. projects[p].revision
        OBVIOUS
      <4>3. Adapters!SqliteRevisions(p) = {k[2] : k \in keys}
        BY <3>2 DEF Adapters!SqliteRevisions
      <4> HIDE DEF keys
      <4> QED
        BY <4>1, <4>2, <4>3
    <3>4. Adapters!MemoryRevisions(p) = 1 .. projects[p].revision
      BY <2>1, <2>2, <3>1 DEF Adapters!MemoryRevisions
    <3>5. \A n \in 1 .. projects[p].revision :
            revisionRows[<<p, n>>] = memoryRevisions[p][n]
      BY <2>2 DEF StoresConsistent, RevisionRowsMatch
    <3> QED
      BY <3>3, <3>4, <3>5 DEF Adapters!MemoryRevision, Adapters!SqliteRevision
  <2>3. CASE p \notin DOMAIN projects
    <3>1. {k \in DOMAIN revisionRows : k[1] = p} = {}
      BY <2>1, <2>3 DEF RevisionKeys
    <3>2. Adapters!SqliteRevisions(p) = {}
      BY <3>1 DEF Adapters!SqliteRevisions
    <3>3. Adapters!MemoryRevisions(p) = {}
      BY <2>1, <2>3 DEF Adapters!MemoryRevisions
    <3> QED
      BY <3>2, <3>3
  <2> QED
    BY <2>2, <2>3
<1> QED
  BY <1>1, <1>2, <1>3 DEF StoresAgree, Adapters!StoresAgree

\* Without the transactional writer, whatever the callers send and however
\* their threads interleave, the dictionaries and the tables end every call
\* alike and answer every query alike (memory.py, persistence.py).
THEOREM StoresCorrect == StoresSpec => []StoresAgree
  BY StoresStayConsistent, ConsistentAgrees, PTL

\* The prefix of this module and that of the adapters.
LEMMA PrefixesAgree ==
  ASSUME NEW S, NEW s \in Seq(S), NEW t \in Seq(S), IsPrefix(s, t)
  PROVE  Adapters!IsPrefix(s, t)
<1>1. Len(s) \in Nat /\ Len(t) \in Nat /\ Len(s) <= Len(t)
  BY LenProperties DEF IsPrefix
<1>2. \A i \in 1 .. Len(s) : s[i] \in S /\ t[i] \in S
  BY <1>1, ElementOfSeq
<1>3. /\ SubSeq(s, 1, Len(s)) \in Seq(S)
      /\ SubSeq(t, 1, Len(s)) \in Seq(S)
      /\ Len(SubSeq(s, 1, Len(s))) = Len(SubSeq(t, 1, Len(s)))
      /\ \A i \in 1 .. Len(SubSeq(s, 1, Len(s))) :
           SubSeq(s, 1, Len(s))[i] = SubSeq(t, 1, Len(s))[i]
  BY <1>1, <1>2 DEF IsPrefix
<1>4. SubSeq(s, 1, Len(s)) = SubSeq(t, 1, Len(s))
  BY <1>3, SeqEqual
<1> QED
  BY <1>1, <1>4 DEF Adapters!IsPrefix

LEMMA ConsistentReaders == StoresConsistent => ReadersAreNotMisled
<1> SUFFICES ASSUME StoresConsistent PROVE ReadersAreNotMisled
  OBVIOUS
<1>1. \A e \in Adapters!Snapshot : e.events \in Seq(Adapters!EventId)
  BY DEF Adapters!Snapshot
<1>2. follower.project # NULL =>
        Adapters!IsPrefix(follower.events, projects[follower.project].events)
  <2> SUFFICES ASSUME follower.project # NULL
               PROVE  Adapters!IsPrefix(follower.events,
                        projects[follower.project].events)
    OBVIOUS
  <2>1. /\ follower.project \in DOMAIN projects
        /\ follower.events \in Seq(Adapters!EventId)
        /\ IsPrefix(follower.events, projects[follower.project].events)
    BY DEF StoresConsistent, FollowerFits
  <2>2. projects[follower.project] \in Adapters!Snapshot
    BY <2>1 DEF StoresConsistent, Histories, History
  <2> QED
    BY <1>1, <2>1, <2>2, PrefixesAgree
<1>3. ASSUME NEW p \in DOMAIN memoryRevisions,
             NEW m \in DOMAIN memoryRevisions[p],
             NEW n \in DOMAIN memoryRevisions[p], m < n
      PROVE  Adapters!IsPrefix(memoryRevisions[p][m].events,
                               memoryRevisions[p][n].events)
  <2>1. History(projects[p], memoryRevisions[p])
    BY DEF StoresConsistent, Histories
  <2>2. /\ m \in 1 .. projects[p].revision /\ n \in 1 .. projects[p].revision
        /\ memoryRevisions[p][m] \in Adapters!Snapshot
        /\ memoryRevisions[p][n] \in Adapters!Snapshot
    BY <2>1 DEF History
  <2>3. IsPrefix(memoryRevisions[p][m].events, memoryRevisions[p][n].events)
    BY <1>3, <2>1, <2>2 DEF History
  <2> QED
    BY <1>1, <2>2, <2>3, PrefixesAgree
<1>4. ASSUME NEW c, Wrote(c, projects, memoryRevisions)
      PROVE  Adapters!Last(
               memoryRevisions[c.project][c.expected + 1].events).body = c.body
  BY <1>4 DEF Wrote, Adapters!Last
<1>5. \A id \in DOMAIN records :
        Wrote(records[id].fingerprint, projects, memoryRevisions)
  BY DEF StoresConsistent, RecordsFit, RecordFits
<1>6. ASSUME NEW t \in Threads, portCall[t].at \in {"record", "audit"}
      PROVE  Wrote(portCall[t].command, projects, memoryRevisions)
  <2>1. portCall[t] # Adapters!Idle
    BY <1>6 DEF Adapters!Idle
  <2> QED
    BY <1>6, <2>1 DEF StoresConsistent, CallFits
<1> QED
  BY <1>2, <1>3, <1>4, <1>5, <1>6
     DEF ReadersAreNotMisled, Adapters!ReadersAreNotMisled

\* Without the transactional writer, what a reader was told stays true: the
\* activity a follower has received is a prefix of the project's events, each
\* revision has the events of those before, and a command record names a
\* revision its command wrote (get_revision, after_sequence, record).
THEOREM ReadersCorrect == StoresSpec => []ReadersAreNotMisled
  BY StoresStayConsistent, ConsistentReaders, PTL
=============================================================================
