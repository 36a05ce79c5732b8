----------------------------- MODULE StoreAdapters -----------------------------
(* The two implementations of ProjectRepository and CommandLedger in lock      *)
(* step: the dictionaries of memory.py and the tables of persistence.py, under *)
(* the commands of the control plane when it has no transactional writer (the  *)
(* composition of the contract tests: save, then record).  CommandPipeline     *)
(* models the same commands over the transactional writer.                     *)
(*                                                                             *)
(* Threads interleave between the port calls; each call is one dictionary      *)
(* update or one BEGIN IMMEDIATE transaction.  The event store and the audit   *)
(* log exist in SQLite only.                                                   *)
EXTENDS Naturals, Sequences, FiniteSets, SequencesExt

CONSTANTS
  Threads, Projects, Ids, Bodies,   \* a command has an id and a body
  NULL,
  MaxRevision                       \* bound: revisions of a project

VARIABLES
  projects,        \* InMemoryProjectRepository._projects
  revisions,       \* InMemoryProjectRepository._revisions
  records,         \* InMemoryCommandLedger._records
  projectRows,     \* projects
  revisionRows,    \* project_revisions
  eventRows,       \* project_events, by project and sequence
  ledgerRows,      \* command_ledger
  auditRows,       \* audit_log
  call,            \* what each thread is doing
  answers,         \* <<in memory, in SQLite>>: how the last port call ended
  follower         \* a reader of a project's events (the shell's activity)

memory == <<projects, revisions, records>>
tables == <<projectRows, revisionRows, eventRows, ledgerRows>>
vars == <<memory, tables, auditRows, call, answers, follower>>
-----------------------------------------------------------------------------
\* A command without an expected revision creates the project.
Command == [id : Ids, body : Bodies, project : Projects,
            expected : 0 .. (MaxRevision - 1)]

\* stable_id("event", ...): an event is named by the revision that emitted it,
\* its sequence number and its payload.
EventId == [revision : 1 .. MaxRevision, sequence : Nat, body : Bodies]

Snapshot == [revision : 1 .. MaxRevision, events : Seq(EventId)]

CommandRecord == [fingerprint : Command, revision : 1 .. MaxRevision]

Empty == [x \in {} |-> x]

\* f with value under key.
Put(f, key, value) ==
  [k \in DOMAIN f \cup {key} |-> IF k = key THEN value ELSE f[k]]

Idle == [at |-> "idle"]

TypeOK ==
  /\ DOMAIN projects \subseteq Projects
  /\ \A p \in DOMAIN projects : projects[p] \in Snapshot
  /\ \A c \in DOMAIN records : records[c] \in CommandRecord
  /\ \A c \in DOMAIN ledgerRows : ledgerRows[c] \in CommandRecord
  /\ \A k \in DOMAIN revisionRows : revisionRows[k] \in Snapshot
  /\ \A k \in DOMAIN eventRows : eventRows[k] \in EventId
  /\ \A t \in Threads :
       call[t] = Idle \/ call[t].at \in {"read", "save", "record", "audit"}

Init ==
  /\ projects = Empty /\ revisions = Empty /\ records = Empty
  /\ projectRows = Empty /\ revisionRows = Empty
  /\ eventRows = Empty /\ ledgerRows = Empty /\ auditRows = <<>>
  /\ call = [t \in Threads |-> Idle]
  /\ answers = <<"ok", "ok">>
  /\ follower = [project |-> NULL, events |-> <<>>]

\* The aggregate the command leaves: the next revision, and one or two events.
Changed(snapshot, c, n) ==
  LET revision == snapshot.revision + 1 IN
  [revision |-> revision,
   events |-> snapshot.events \o
                [i \in 1 .. n |-> [revision |-> revision, body |-> c.body,
                                   sequence |-> Len(snapshot.events) + i]]]

Unborn == [revision |-> 0, events |-> <<>>]
-----------------------------------------------------------------------------
(* InMemoryProjectRepository and InMemoryCommandLedger: the error each call    *)
(* raises ("ok" when none), and what the dictionaries become.                  *)

MemoryAddError(p) ==
  IF p \in DOMAIN projects THEN "DETERMINISTIC_FAILURE" ELSE "ok"

MemoryAdd(p, snapshot) ==
  /\ projects' = Put(projects, p, snapshot)
  /\ revisions' = Put(revisions, p, Put(Empty, snapshot.revision, snapshot))

MemoryGetError(p) ==
  IF p \in DOMAIN projects THEN "ok" ELSE "DETERMINISTIC_FAILURE"

MemorySaveError(p, expected) ==
  IF p \notin DOMAIN projects THEN "DETERMINISTIC_FAILURE"
  ELSE IF projects[p].revision # expected THEN "STALE_REVISION"
  ELSE "ok"

MemorySaveLatestOnly(p, snapshot) ==
  projects' = Put(projects, p, snapshot) /\ UNCHANGED revisions

MemorySave(p, snapshot) ==
  /\ projects' = Put(projects, p, snapshot)
  /\ revisions' = Put(revisions, p, Put(revisions[p], snapshot.revision, snapshot))

\* list_projects, list_revisions and get_revision.
MemoryProjects == {projects[p] : p \in DOMAIN projects}
MemoryRevisions(p) == IF p \in DOMAIN revisions THEN DOMAIN revisions[p] ELSE {}
MemoryRevision(p, n) == revisions[p][n]

MemoryRecordError(r) ==
  IF r.fingerprint.id \in DOMAIN records
     /\ records[r.fingerprint.id].fingerprint # r.fingerprint
    THEN "DETERMINISTIC_FAILURE" ELSE "ok"

MemoryRecord(r) == records' = Put(records, r.fingerprint.id, r)
-----------------------------------------------------------------------------
(* SQLiteProjectRepository and SQLiteCommandLedger.                            *)

\* The primary keys of projects and project_revisions.
SqliteAddError(p, snapshot) ==
  IF p \in DOMAIN projectRows \/ <<p, snapshot.revision>> \in DOMAIN revisionRows
    THEN "DETERMINISTIC_FAILURE" ELSE "ok"

SqliteGetError(p) ==
  IF p \in DOMAIN projectRows THEN "ok" ELSE "DETERMINISTIC_FAILURE"

\* _append_events: a row of that sequence must be the same event.
Conflicts(p, events) ==
  \E i \in 1 .. Len(events) :
    <<p, i>> \in DOMAIN eventRows /\ eventRows[<<p, i>>] # events[i]

AppendEvents(p, events) ==
  LET rows == {<<p, i>> : i \in 1 .. Len(events)} IN
  eventRows' = [k \in DOMAIN eventRows \cup rows |->
                  IF k \in rows THEN events[k[2]] ELSE eventRows[k]]

\* A revision that is there already raises sqlite3.IntegrityError.
SqliteSaveError(p, expected, snapshot) ==
  IF p \notin DOMAIN projectRows THEN "DETERMINISTIC_FAILURE"
  ELSE IF projectRows[p].revision # expected THEN "STALE_REVISION"
  ELSE IF <<p, snapshot.revision>> \in DOMAIN revisionRows THEN "IntegrityError"
  ELSE IF Conflicts(p, snapshot.events) THEN "DETERMINISTIC_FAILURE"
  ELSE "ok"

SqliteWrite(p, snapshot) ==
  /\ projectRows' = Put(projectRows, p, snapshot)
  /\ revisionRows' = Put(revisionRows, <<p, snapshot.revision>>, snapshot)
  /\ AppendEvents(p, snapshot.events)

SqliteProjects == {projectRows[p] : p \in DOMAIN projectRows}
SqliteRevisions(p) == {k[2] : k \in {k \in DOMAIN revisionRows : k[1] = p}}
SqliteRevision(p, n) == revisionRows[<<p, n>>]

SqliteRecordError(r) ==
  IF r.fingerprint.id \in DOMAIN ledgerRows
     /\ ledgerRows[r.fingerprint.id].fingerprint # r.fingerprint
    THEN "DETERMINISTIC_FAILURE" ELSE "ok"

\* The first record is kept.
SqliteRecord(r) ==
  ledgerRows' = IF r.fingerprint.id \in DOMAIN ledgerRows THEN ledgerRows
                ELSE Put(ledgerRows, r.fingerprint.id, r)

LastSequence(p) == Cardinality({k \in DOMAIN eventRows : k[1] = p})

FromSequence(p, n) ==
  IF n = 0 THEN [i \in 1 .. LastSequence(p) |-> eventRows[<<p, i>>]]
  ELSE [i \in 1 .. (LastSequence(p) - n) |-> eventRows[<<p, n + i - 1>>]]

\* SQLiteEventStore.after_sequence, in the order of the numbers.
AfterSequence(p, n) ==
  [i \in 1 .. (LastSequence(p) - n) |-> eventRows[<<p, n + i>>]]

\* SQLiteAuditLog.record: an append.
AuditRecord(action, revision, outcome) ==
  auditRows' = Append(auditRows, [action |-> action, revision |-> revision,
                                  outcome |-> outcome])
-----------------------------------------------------------------------------
(* The control plane, _execute without a transactional writer.                 *)

At(t, step) == call[t].at = step

\* The error is raised on both sides and audited by execute().
Raise(t, errors) ==
  /\ answers' = errors
  /\ call' = [call EXCEPT ![t] = Idle]
  /\ AuditRecord(call[t].command.id, call[t].command.expected, errors[2])

\* ledger.get: a repeated command is answered, a reused id refused.
Lookup(t, c) ==
  /\ At(t, "idle")
  /\ \/ /\ c.id \in DOMAIN records
        /\ answers' = <<MemoryRecordError([fingerprint |-> c]),
                        SqliteRecordError([fingerprint |-> c])>>
        /\ UNCHANGED call
     \/ /\ c.id \notin DOMAIN records
        /\ answers' = <<"ok", "ok">>
        /\ call' = [call EXCEPT ![t] =
                      [at |-> IF c.expected = 0 THEN "save" ELSE "read",
                       command |-> c, memory |-> Unborn, sqlite |-> Unborn]]
  /\ UNCHANGED <<memory, tables, auditRows, follower>>

\* repository.get and the comparison with the command's expected revision.
Read(t) ==
  /\ At(t, "read")
  /\ LET c == call[t].command
         errors == <<MemoryGetError(c.project), SqliteGetError(c.project)>>
     IN \/ /\ "ok" \notin ToSet(errors)
           /\ Raise(t, errors)
        \/ /\ errors = <<"ok", "ok">>
           /\ c.expected # projects[c.project].revision
           /\ Raise(t, <<"STALE_REVISION", "STALE_REVISION">>)
        \/ /\ errors = <<"ok", "ok">>
           /\ c.expected = projects[c.project].revision
           /\ call' = [call EXCEPT ![t] =
                         [at |-> "save", command |-> c,
                          memory |-> projects[c.project],
                          sqlite |-> projectRows[c.project]]]
           /\ answers' = errors
           /\ UNCHANGED auditRows
  /\ UNCHANGED <<memory, tables, follower>>

\* The handler changes the copy; repository.add or repository.save.
Save(t, n) ==
  /\ At(t, "save")
  /\ LET c == call[t].command
         p == c.project
         inMemory == Changed(call[t].memory, c, n)
         inSqlite == Changed(call[t].sqlite, c, n)
         errors ==
           IF c.expected = 0
             THEN <<MemoryAddError(p), SqliteAddError(p, inSqlite)>>
             ELSE <<MemorySaveError(p, c.expected),
                    SqliteSaveError(p, c.expected, inSqlite)>>
     IN /\ \/ errors[1] = "ok" /\ c.expected = 0 /\ MemoryAdd(p, inMemory)
           \/ errors[1] = "ok" /\ c.expected # 0 /\ MemorySave(p, inMemory)
           \/ errors[1] # "ok" /\ UNCHANGED <<projects, revisions>>
        /\ \/ errors[2] = "ok" /\ SqliteWrite(p, inSqlite)
           \/ errors[2] # "ok" /\ UNCHANGED <<projectRows, revisionRows, eventRows>>
        /\ \/ /\ errors = <<"ok", "ok">>
              /\ call' = [call EXCEPT ![t].at = "record"]
              /\ answers' = errors
              /\ UNCHANGED auditRows
           \/ /\ errors # <<"ok", "ok">>
              /\ Raise(t, errors)
  /\ UNCHANGED <<records, ledgerRows, follower>>

\* ledger.record: an id that another command has taken meanwhile is refused,
\* though the project is saved.
Record(t) ==
  /\ At(t, "record")
  /\ LET r == [fingerprint |-> call[t].command,
               revision |-> call[t].command.expected + 1]
         errors == <<MemoryRecordError(r), SqliteRecordError(r)>>
     IN /\ \/ errors[1] = "ok" /\ MemoryRecord(r)
           \/ errors[1] # "ok" /\ UNCHANGED records
        /\ \/ errors[2] = "ok" /\ SqliteRecord(r)
           \/ errors[2] # "ok" /\ UNCHANGED ledgerRows
        /\ \/ /\ errors = <<"ok", "ok">>
              /\ call' = [call EXCEPT ![t].at = "audit"]
              /\ answers' = errors
              /\ UNCHANGED auditRows
           \/ /\ errors # <<"ok", "ok">>
              /\ Raise(t, errors)
  /\ UNCHANGED <<projects, revisions, projectRows, revisionRows, eventRows,
                 follower>>

\* _audit_success.
Audit(t) ==
  /\ At(t, "audit")
  /\ AuditRecord(call[t].command.id, call[t].command.expected + 1, "SUCCEEDED")
  /\ call' = [call EXCEPT ![t] = Idle]
  /\ UNCHANGED <<memory, tables, answers, follower>>

\* The shell reads the events after the last it has.
Follow(p) ==
  /\ follower.project \in {NULL, p}
  /\ LET news == AfterSequence(p, Len(follower.events))
     IN /\ news # <<>>
        /\ follower' = [project |-> p, events |-> follower.events \o news]
  /\ UNCHANGED <<memory, tables, auditRows, call, answers>>

Next ==
  \/ \E t \in Threads, c \in Command : Lookup(t, c)
  \/ \E t \in Threads : Read(t)
  \/ \E t \in Threads, n \in 1 .. 2 : Save(t, n)
  \/ \E t \in Threads : Record(t)
  \/ \E t \in Threads : Audit(t)
  \/ \E p \in Projects : Follow(p)

Spec == Init /\ [][Next]_vars
-----------------------------------------------------------------------------
\* The adapters answer alike, however the threads interleave: the last call,
\* every project, every revision and every command record (get, get_revision,
\* list_revisions, list_projects and the ledger's get).
StoresAgree ==
  /\ answers[1] = answers[2]
  /\ projects = projectRows /\ MemoryProjects = SqliteProjects
  /\ records = ledgerRows
  /\ \A p \in Projects :
       /\ MemoryRevisions(p) = SqliteRevisions(p)
       /\ \A n \in MemoryRevisions(p) : MemoryRevision(p, n) = SqliteRevision(p, n)

\* What a reader was told stays true.  The events the follower has received are
\* the beginning of the project's events; each revision has all the events of
\* the one before; and a record, or a thread about to write one, names a
\* revision that its command wrote and nobody has overwritten (get_revision,
\* after_sequence, ledger.record after repository.save).
ReadersAreNotMisled ==
  /\ follower.project # NULL =>
       IsPrefix(follower.events, projects[follower.project].events)
  /\ \A p \in DOMAIN revisions : \A m, n \in DOMAIN revisions[p] :
       m < n => IsPrefix(revisions[p][m].events, revisions[p][n].events)
  /\ \A c \in {records[id].fingerprint : id \in DOMAIN records}
                \cup {call[t].command : t \in {u \in Threads :
                        call[u].at \in {"record", "audit"}}} :
       Last(revisions[c.project][c.expected + 1].events).body = c.body
=============================================================================
