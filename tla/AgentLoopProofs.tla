--------------------------- MODULE AgentLoopProofs ----------------------------
(***************************************************************************)
(* Theorems about AgentLoop, for any contents, limits and number of calls. *)
(* Liveness is left to TLC.                                                *)
(***************************************************************************)
EXTENDS AgentLoop, TLAPS

\* Who has loaded the file when, and what is certain about the record then.
Control ==
  /\ pc # "idle" => session # NULL
  /\ \A p \in Parties : saving[p] # NULL => session # NULL
  /\ saving["loop"] # NULL <=> pc \in {"resuming", "saving", "finishing"}
  /\ pc = "resuming" => saving["loop"].record.status = "RUNNING"
  /\ pc = "recording" => turn.of # "none"
  /\ pc = "saving" /\ turn.of # "none" =>
       saving["loop"].record.status = "RUNNING"

\* What a party has written and finds there as its own is its record.
TemporaryFits ==
  \A p \in Parties :
    saving[p] # NULL /\ saving[p].written /\ temporary # NULL
      /\ temporary.by = p => temporary.record = saving[p].record

\* What the locals of run() say about the disk, and that the decision to
\* complete still satisfies the gate.
LocalsAreCurrent ==
  /\ ~strayed /\ knows.last_build_hash # NULL => tree["out"] = tree["work"]
  /\ ~strayed /\ knows.last_render_healthy = TRUE =>
       shot # NULL /\ shot.content = tree[shot.tree]
  /\ Completing => MayComplete(knows)

\* The work the session file does not count yet: none is left over while the
\* model is asked, at most one thing is while it is recorded.
Slack == IF pc \in {"idle", "recording", "saving"} THEN 0 ELSE 1

Due(p) == IF p = "loop" /\ pc = "saving" /\ turn.of # "none" THEN 1 ELSE 0

Accounts ==
  /\ session # NULL => WithinLimits(session)
  /\ \A p \in Parties : saving[p] # NULL => WithinLimits(saving[p].record)
  /\ temporary # NULL => WithinLimits(temporary.record)
  /\ session = NULL => worked = 0
  /\ ~raced /\ session # NULL => worked + Slack <= session.steps + runs
  /\ \A p \in Parties : saving[p] # NULL /\ ~saving[p].stale =>
       saving[p].record.steps = session.steps + Due(p)

\* Work done too late happens once, and then the loop is on its way out.
Lateness ==
  ~raced =>
    /\ late <= 1
    /\ late # 0 => /\ session # NULL /\ session.status # "RUNNING"
                   /\ pc \in {"idle", "resuming", "recording"}

----------------------------------------------------------------------------
(* The parts actions are made of *)

LEMMA LoadTypes ==
  ASSUME TypeOK, NEW p \in Parties, NEW record \in Session, Load(p, record)
  PROVE  /\ saving' \in [Parties -> Pending \cup {NULL}]
         /\ saving'[p] # NULL
         /\ saving'[p].record = record /\ saving'[p].stale = FALSE
         /\ saving'[p].written = FALSE
         /\ \A q \in Parties \ {p} : saving'[q] = saving[q]
<1>1. [record |-> record, stale |-> FALSE, written |-> FALSE] \in Pending
  BY DEF Pending
<1>2. [record |-> record, stale |-> FALSE, written |-> FALSE] # NULL
  BY <1>1, NullAssumption
<1> QED
  BY <1>1, <1>2 DEF TypeOK, Load

LEMMA WriteTypes ==
  ASSUME TypeOK, NEW p \in Parties, WriteTemporary(p)
  PROVE  /\ temporary' \in Written /\ temporary' # NULL
         /\ temporary'.by = p /\ temporary'.record = saving[p].record
         /\ saving' \in [Parties -> Pending \cup {NULL}]
         /\ \A q \in Parties :
              /\ saving[q] = NULL <=> saving'[q] = NULL
              /\ saving[q] # NULL => /\ saving'[q].record = saving[q].record
                                    /\ saving'[q].stale = saving[q].stale
<1>1. saving[p] \in Pending /\ saving[p] # NULL
  BY DEF WriteTemporary, TypeOK
<1>2. /\ [saving[p] EXCEPT !.written = TRUE] \in Pending
      /\ [saving[p] EXCEPT !.written = TRUE].record = saving[p].record
      /\ [saving[p] EXCEPT !.written = TRUE].stale = saving[p].stale
  BY <1>1 DEF Pending
<1>3. /\ saving' \in [Parties -> Pending \cup {NULL}]
      /\ saving'[p] = [saving[p] EXCEPT !.written = TRUE]
      /\ \A q \in Parties \ {p} : saving'[q] = saving[q]
  BY <1>2 DEF WriteTemporary, TypeOK
<1>4. temporary' = [by |-> p, record |-> saving[p].record]
  BY DEF WriteTemporary
<1>5. temporary' \in Written /\ temporary'.by = p /\ temporary'.record = saving[p].record
  BY <1>1, <1>4 DEF Written, Pending
<1> QED
  BY <1>1, <1>2, <1>3, <1>5, NullAssumption

LEMMA DropTypes ==
  ASSUME TypeOK, NEW p \in Parties, Drop(p)
  PROVE  /\ saving' \in [Parties -> Pending \cup {NULL}]
         /\ saving'[p] = NULL
         /\ \A q \in Parties \ {p} : saving'[q] = saving[q]
         /\ temporary' \in {temporary, NULL}
         /\ temporary' \in Written \cup {NULL}
  BY DEF Drop, TypeOK

LEMMA SaveTypes ==
  ASSUME TypeOK, NEW p \in Parties, Save(p)
  PROVE  /\ saving[p] # NULL /\ saving[p].written /\ temporary # NULL
         /\ session' = temporary.record
         /\ session' \in Session /\ session' # NULL
         /\ temporary' = NULL
         /\ saving' \in [Parties -> Pending \cup {NULL}]
         /\ saving'[p] = NULL
         /\ \A q \in Parties \ {p} :
              /\ saving[q] = NULL => saving'[q] = NULL
              /\ saving[q] # NULL => /\ saving'[q] # NULL
                                    /\ saving'[q].record = saving[q].record
                                    /\ saving'[q].stale = TRUE
         /\ raced' \in BOOLEAN /\ late' \in Nat
         /\ raced' = (raced \/ saving[p].stale \/ temporary.by # p)
         /\ late' = IF session'.status = "RUNNING" THEN 0 ELSE late
<1>1. saving[p] \in Pending /\ temporary \in Written
  BY DEF TypeOK, Save
<1>2. \A q \in Parties : saving[q] # NULL =>
        /\ [saving[q] EXCEPT !.stale = TRUE] \in Pending
        /\ [saving[q] EXCEPT !.stale = TRUE].record = saving[q].record
        /\ [saving[q] EXCEPT !.stale = TRUE].stale = TRUE
  BY DEF TypeOK, Pending
<1>3. session' = temporary.record /\ session' \in Session /\ session' # NULL
  BY <1>1, NullAssumption DEF Save, Written
<1>4. /\ raced' = (raced \/ saving[p].stale \/ temporary.by # p)
      /\ late' = IF session'.status = "RUNNING" THEN 0 ELSE late
      /\ raced' \in BOOLEAN /\ late' \in Nat
  BY <1>1, <1>3 DEF Save, Pending, TypeOK
<1>5. saving' = [q \in Parties |->
                   IF q = p \/ saving[q] = NULL THEN NULL
                   ELSE [saving[q] EXCEPT !.stale = TRUE]]
  BY DEF Save
<1>6. \A q \in Parties : saving'[q] =
         IF q = p \/ saving[q] = NULL THEN NULL
         ELSE [saving[q] EXCEPT !.stale = TRUE]
  BY <1>5
<1>7. \A q \in Parties : saving'[q] \in Pending \cup {NULL}
  BY <1>2, <1>6
<1>8. saving' \in [Parties -> Pending \cup {NULL}]
  BY <1>5, <1>6, <1>7
<1>9. \A q \in Parties \ {p} :
        saving[q] # NULL => /\ saving'[q] # NULL
                            /\ saving'[q].record = saving[q].record
                            /\ saving'[q].stale = TRUE
  BY <1>2, <1>6, NullAssumption
<1> QED
  BY <1>3, <1>4, <1>6, <1>8, <1>9 DEF Save

LEMMA EndedTypes ==
  ASSUME Ended
  PROVE  /\ pc' = "idle" /\ knows' = Forgotten /\ turn' = NoTurn
         /\ shot' = NULL /\ strayed' = FALSE
         /\ pc' \in Phase /\ knows' \in Knowledge /\ turn' \in Turn
  BY DEF Ended, Phase, Forgotten, Knowledge, NoTurn, Turn

LEMMA ReviewedTypes ==
  ASSUME TypeOK
  PROVE  /\ Reviewed(knows) \in Knowledge
         /\ Reviewed(knows).last_build_hash = knows.last_build_hash
         /\ Reviewed(knows).last_render_healthy = knows.last_render_healthy
  BY DEF TypeOK, Reviewed, Knowledge

LEMMA AfterDoneFacts ==
  ASSUME NEW k, NEW isDone \in BOOLEAN
  PROVE  /\ AfterDone(k, isDone) \in {"asking", "checking"}
         /\ AfterDone(k, isDone) = "checking" => MayComplete(k)
  BY DEF AfterDone

LEMMA ExecutedFacts ==
  ASSUME TypeOK, session # NULL, NEW isRender \in BOOLEAN, Executed(isRender)
  PROVE  /\ turn' \in Turn /\ turn'.of = "action"
         /\ pc' = "recording" /\ worked' = worked + 1
         /\ worked' \in Nat /\ late' \in Nat
         /\ late' = IF session.status = "RUNNING" THEN late ELSE late + 1
         /\ UNCHANGED <<session, temporary, build_action, saving, runs, userOps,
                        raced>>
  BY DEF Executed, Work, Turn, TypeOK

LEMMA OnwardFacts ==
  ASSUME TypeOK
  PROVE  /\ Onward \subseteq {"asking", "acting", "checking"}
         /\ "checking" \in Onward => MayComplete(knows)
  BY AfterDoneFacts DEF Onward

LEMMA ChangedTypes ==
  ASSUME TypeOK, NEW t \in Trees, NEW content \in Contents, Changes(t, content)
  PROVE  tree' \in [Trees -> Contents] /\ screenshot' \in BOOLEAN
  BY DEF Changes, TypeOK

LEMMA ChargedTypes ==
  ASSUME TypeOK, session # NULL
  PROVE  /\ Charged \in Session
         /\ Charged.status = session.status
         /\ Charged.steps = session.steps + 1
<1>1. session \in Session
  BY DEF TypeOK
<1> DEFINE r == IF turn.render THEN session.renders + 1 ELSE session.renders
<1>2. r \in Nat /\ session.steps + 1 \in Nat
  BY <1>1 DEF Session
<1>3. Charged = [session EXCEPT !.steps = @ + 1, !.renders = r]
  BY DEF Charged
<1> HIDE DEF r
<1> QED
  BY <1>1, <1>2, <1>3 DEF Session

----------------------------------------------------------------------------
(* Types *)

\* Where a step of the loop or of a user may be taken, somebody has started
\* the session.
LEMMA Started ==
  ASSUME TypeOK, Control
  PROVE  /\ pc # "idle" => session # NULL /\ session \in Session
         /\ \A p \in Parties : saving[p] # NULL =>
              /\ session # NULL /\ session \in Session
              /\ saving[p] \in Pending
  BY DEF Control, TypeOK

LEMMA WithStatus ==
  ASSUME NEW s \in Session, NEW status \in Status
  PROVE  /\ [s EXCEPT !.status = status] \in Session
         /\ [s EXCEPT !.status = status].status = status
         /\ [s EXCEPT !.status = status].steps = s.steps
         /\ [s EXCEPT !.status = status].renders = s.renders
  BY DEF Session

LEMMA TypeStep == TypeOK /\ Control /\ [Next]_vars => TypeOK'
<1> SUFFICES ASSUME TypeOK, Control, [Next]_vars PROVE TypeOK'
  OBVIOUS
<1> USE DEF historyVars, loopVars, treeVars, disk
<1>1. CASE Start
  BY <1>1 DEF Start, TypeOK, Session, Status
<1>2. CASE Run
  <2>1. CASE session.status = "RUNNING" /\ pc' = "asking" /\ UNCHANGED saving
    BY <1>2, <2>1 DEF Run, TypeOK, Phase
  <2>2. CASE pc' = "resuming" /\ Load("loop", [session EXCEPT !.status = "RUNNING"])
    <3>1. [session EXCEPT !.status = "RUNNING"] \in Session
      BY <1>2, WithStatus DEF Run, TypeOK, Status
    <3>2. saving' \in [Parties -> Pending \cup {NULL}]
      BY <2>2, <3>1, LoadTypes DEF Parties
    <3> QED
      BY <1>2, <2>2, <3>2 DEF Run, TypeOK, Phase
  <2> QED
    BY <1>2, <2>1, <2>2 DEF Run
<1>3. CASE SaveResumed
  BY <1>3, SaveTypes DEF SaveResumed, TypeOK, Phase, Parties
<1>4. CASE ChatFails
  BY <1>4, EndedTypes DEF ChatFails, TypeOK
<1>5. CASE AnswerUnreadable
  BY <1>5 DEF AnswerUnreadable, Work, TypeOK, Phase, Turn
<1>6. CASE AnswerActions
  BY <1>6, ReviewedTypes DEF AnswerActions, TypeOK, Phase
<1>7. CASE AnswerEmpty
  BY <1>7, ReviewedTypes DEF AnswerEmpty, Work, TypeOK, Phase, Turn
<1>8. ASSUME NEW t \in Trees, NEW content \in Contents, Edit(t, content)
      PROVE  TypeOK'
  <2>1. session # NULL /\ Executed(FALSE)
    BY <1>8, Started DEF Edit
  <2>2. knows' \in Knowledge
    BY <1>8 DEF Edit, TypeOK, Knowledge
  <2>3. tree' \in [Trees -> Contents] /\ screenshot' \in BOOLEAN
    BY <1>8, ChangedTypes DEF Edit
  <2> QED
    BY <1>8, <2>1, <2>2, <2>3, ExecutedFacts DEF Edit, TypeOK, Phase
<1>9. ASSUME NEW t \in Trees, NEW content \in Contents, CommandStrays(t, content)
      PROVE  TypeOK'
  <2>1. session # NULL /\ Executed(FALSE)
    BY <1>9, Started DEF CommandStrays
  <2>2. tree' \in [Trees -> Contents] /\ screenshot' \in BOOLEAN
    BY <1>9, ChangedTypes DEF CommandStrays
  <2> QED
    BY <1>9, <2>1, <2>2, ExecutedFacts DEF CommandStrays, TypeOK, Phase
<1>10. CASE Build
  <2>1. session # NULL /\ Executed(FALSE)
    BY <1>10, Started DEF Build
  <2>2. knows' \in Knowledge /\ tree' \in [Trees -> Contents]
    BY <1>10 DEF Build, TypeOK, Knowledge, Trees
  <2> QED
    BY <1>10, <2>1, <2>2, ExecutedFacts DEF Build, TypeOK, Phase
<1>11. ASSUME NEW t \in Trees, NEW isHealthy \in BOOLEAN, Render(t, isHealthy)
       PROVE  TypeOK'
  <2>1. session # NULL /\ Executed(TRUE)
    BY <1>11, Started DEF Render
  <2>2. knows' \in Knowledge /\ shot' \in Shot \cup {NULL}
    <3>1. CASE UNCHANGED <<knows, shot>>
      BY <3>1 DEF TypeOK
    <3>2. CASE /\ knows' = [knows EXCEPT !.last_render_healthy = isHealthy,
                                        !.render_build_hash = knows.last_build_hash,
                                        !.screenshot_pending = TRUE]
               /\ shot' = IF isHealthy THEN [tree |-> t, content |-> tree[t]]
                          ELSE NULL
      <4>1. knows \in Knowledge /\ tree[t] \in Contents
        BY DEF TypeOK
      <4>2. knows' \in Knowledge
        BY <3>2, <4>1 DEF Knowledge
      <4>3. shot' \in Shot \cup {NULL}
        BY <3>2, <4>1 DEF Shot
      <4> QED
        BY <4>2, <4>3
    <3> QED
      BY <1>11, <3>1, <3>2 DEF Render
  <2> QED
    BY <1>11, <2>1, <2>2, ExecutedFacts DEF Render, TypeOK, Phase
<1>12. ASSUME NEW isRender \in BOOLEAN, Look(isRender) PROVE TypeOK'
  <2>1. session # NULL /\ Executed(isRender)
    BY <1>12, Started DEF Look
  <2> QED
    BY <1>12, <2>1, ExecutedFacts DEF Look, TypeOK, Phase
<1>13. CASE Charge
  BY <1>13, Started, ChargedTypes, LoadTypes
     DEF Charge, LoadTurn, TypeOK, Phase, Parties
<1>14. CASE Exhaust
  <2>1. [session EXCEPT !.status = "BUDGET_EXHAUSTED"] \in Session
    BY <1>14, Started, WithStatus DEF Exhaust, Status
  <2> QED
    BY <1>14, <2>1, LoadTypes DEF Exhaust, TypeOK, Phase, Parties, Turn, NoTurn
<1>15. CASE TurnRefused
  BY <1>15, EndedTypes DEF TurnRefused, TypeOK
<1>16. CASE SaveTurn
  <2>2. CASE turn.of = "none"
    BY <1>16, <2>2, SaveTypes, EndedTypes DEF SaveTurn, TypeOK, Parties
  <2>3. CASE turn.of # "none"
    <3>1. /\ session' \in Session /\ temporary' = NULL
          /\ saving' \in [Parties -> Pending \cup {NULL}]
          /\ raced' \in BOOLEAN /\ late' \in Nat
      BY <1>16, SaveTypes DEF SaveTurn, Parties
    <3>2. pc' \in Phase /\ turn' \in Turn
      <4>1. pc' \in {"asking", "acting", "checking"} /\ turn' = NoTurn
        BY <1>16, <2>3, OnwardFacts DEF SaveTurn
      <4> QED
        BY <4>1 DEF Turn, NoTurn, Phase
    <3>3. UNCHANGED <<treeVars, build_action, runs, userOps, worked, knows, shot,
                      strayed>>
      BY <1>16, <2>3 DEF SaveTurn
    <3> QED
      BY <3>1, <3>2, <3>3 DEF TypeOK
  <2> QED
    BY <2>2, <2>3
<1>17. CASE CompleteCheck
  BY <1>17, EndedTypes DEF CompleteCheck, TypeOK, Phase
<1>18. CASE CompleteLoad
  <2>1. [session EXCEPT !.status = "COMPLETED"] \in Session
    BY <1>18, Started, WithStatus DEF CompleteLoad, Status
  <2> QED
    BY <1>18, <2>1, LoadTypes DEF CompleteLoad, TypeOK, Phase, Parties
<1>19. CASE SaveCompleted
  BY <1>19, SaveTypes, EndedTypes DEF SaveCompleted, TypeOK, Parties
<1>20. CASE Crash \/ LoopSaveRaises
  <2>1. saving' \in [Parties -> Pending \cup {NULL}] /\ temporary' \in Written \cup {NULL}
    BY <1>20, DropTypes DEF Crash, LoopSaveRaises, SaveRaises, Parties
  <2>2. Ended /\ UNCHANGED <<session, treeVars, build_action, runs, userOps, worked,
                             late, raced>>
    BY <1>20 DEF Crash, LoopSaveRaises
  <2> QED
    BY <2>1, <2>2, EndedTypes DEF TypeOK
<1>21. ASSUME NEW s \in {"PAUSED", "CANCELED", "RUNNING"}, UserLoads(s)
       PROVE  TypeOK'
  <2>1. [session EXCEPT !.status = s] \in Session
    BY <1>21, WithStatus DEF UserLoads, TypeOK, Status
  <2> QED
    <3>1. saving' \in [Parties -> Pending \cup {NULL}]
      BY <1>21, <2>1, LoadTypes DEF UserLoads, Parties
    <3> QED
      BY <1>21, <3>1 DEF UserLoads, TypeOK
<1>22. CASE UserSaves
  <2>1. /\ session' \in Session /\ temporary' = NULL
        /\ saving' \in [Parties -> Pending \cup {NULL}]
        /\ raced' \in BOOLEAN /\ late' \in Nat
    BY <1>22, SaveTypes DEF UserSaves, Parties
  <2> QED
    BY <1>22, <2>1 DEF UserSaves, TypeOK
<1>23. CASE UNCHANGED vars
  BY <1>23 DEF vars, TypeOK
<1>24. ASSUME NEW p \in Parties, WriteTemporary(p) PROVE TypeOK'
  <2>1. temporary' \in Written /\ saving' \in [Parties -> Pending \cup {NULL}]
    BY <1>24, WriteTypes
  <2> QED
    BY <1>24, <2>1 DEF WriteTemporary, TypeOK
<1>25. CASE UserSaveRaises
  <2>1. saving' \in [Parties -> Pending \cup {NULL}] /\ temporary' \in Written \cup {NULL}
    BY <1>25, DropTypes DEF UserSaveRaises, SaveRaises, Parties
  <2> QED
    BY <1>25, <2>1 DEF UserSaveRaises, TypeOK
<1> QED
  BY <1>1, <1>2, <1>3, <1>4, <1>5, <1>6, <1>7, <1>8, <1>9, <1>10, <1>11, <1>12,
     <1>13, <1>14, <1>15, <1>16, <1>17, <1>18, <1>19, <1>20, <1>21, <1>22, <1>23,
     <1>24, <1>25
     DEF Next, LoopStep, UserStep, Answer, Act, Record, Complete, Parties

----------------------------------------------------------------------------
(* Who has loaded the file *)

LEMMA ControlStep == TypeOK /\ Control /\ [Next]_vars => Control'
<1> SUFFICES ASSUME TypeOK, Control, [Next]_vars PROVE Control'
  OBVIOUS
<1> USE DEF historyVars, loopVars, treeVars, disk, Parties
<1>1. CASE Start
  BY <1>1, NullAssumption DEF Start, Control, Session, Status
<1>2. CASE Run
  <2>1. CASE pc' = "asking" /\ UNCHANGED saving
    BY <1>2, <2>1 DEF Run, Control
  <2>2. CASE pc' = "resuming" /\ Load("loop", [session EXCEPT !.status = "RUNNING"])
    <3>1. /\ [session EXCEPT !.status = "RUNNING"] \in Session
          /\ [session EXCEPT !.status = "RUNNING"].status = "RUNNING"
      BY <1>2, WithStatus DEF Run, TypeOK, Status
    <3>2. /\ saving'["loop"] # NULL
          /\ saving'["loop"].record = [session EXCEPT !.status = "RUNNING"]
      BY <2>2, <3>1, LoadTypes
    <3> QED
      BY <1>2, <2>2, <3>1, <3>2 DEF Run, Control
  <2> QED
    BY <1>2, <2>1, <2>2 DEF Run
<1>3. ASSUME Save("loop"), pc' \in {"idle", "asking", "acting", "checking"}
      PROVE  Control'
  <2>1. session' # NULL /\ saving'["loop"] = NULL
    BY <1>3, SaveTypes
  <2> QED
    BY <1>3, <2>1 DEF Control
<1>4. ASSUME Ended, UNCHANGED <<session, saving>>,
             pc \notin {"resuming", "saving", "finishing"}
      PROVE  Control'
  BY <1>4 DEF Ended, Control
<1>5. CASE AnswerUnreadable
  BY <1>5 DEF AnswerUnreadable, Control
<1>6. CASE AnswerActions
  BY <1>6 DEF AnswerActions, Control
<1>7. CASE AnswerEmpty
  BY <1>7 DEF AnswerEmpty, Control
<1>8. ASSUME NEW isRender \in BOOLEAN, pc = "acting", Executed(isRender)
      PROVE  Control'
  <2>1. session # NULL
    BY <1>8 DEF Control
  <2> QED
    BY <1>8, <2>1, ExecutedFacts DEF Control
<1>9. CASE Charge
  <2>1. /\ Charged \in Session /\ Charged.status = "RUNNING"
        /\ Load("loop", Charged)
    BY <1>9, Started, ChargedTypes DEF Charge, LoadTurn
  <2>2. saving'["loop"] # NULL /\ saving'["loop"].record = Charged
    BY <2>1, LoadTypes
  <2> QED
    BY <1>9, <2>1, <2>2 DEF Charge, LoadTurn, Control
<1>10. CASE Exhaust
  <2>1. [session EXCEPT !.status = "BUDGET_EXHAUSTED"] \in Session
    BY <1>10, Started, WithStatus DEF Exhaust, Status
  <2>2. saving'["loop"] # NULL
    BY <1>10, <2>1, LoadTypes DEF Exhaust
  <2>3. turn'.of = "none"
    BY <1>10 DEF Exhaust, NoTurn
  <2> QED
    BY <1>10, <2>2, <2>3 DEF Exhaust, Control
<1>11. CASE SaveTurn
  <2>1. pc' \in {"idle", "asking", "acting", "checking"}
    BY <1>11, OnwardFacts DEF SaveTurn, Ended
  <2> QED
    BY <1>3, <1>11, <2>1 DEF SaveTurn
<1>12. CASE CompleteCheck
  <2>1. CASE Ended
    BY <1>4, <1>12, <2>1 DEF CompleteCheck
  <2>2. CASE pc' = "closing"
    BY <1>12, <2>2 DEF CompleteCheck, Control
  <2> QED
    BY <1>12, <2>1, <2>2 DEF CompleteCheck
<1>13. CASE CompleteLoad
  <2>1. [session EXCEPT !.status = "COMPLETED"] \in Session
    BY <1>13, Started, WithStatus DEF CompleteLoad, Status
  <2>2. saving'["loop"] # NULL
    BY <1>13, <2>1, LoadTypes DEF CompleteLoad
  <2> QED
    BY <1>13, <2>2 DEF CompleteLoad, Control
<1>14. CASE SaveResumed \/ SaveCompleted
  BY <1>3, <1>14 DEF SaveResumed, SaveCompleted, Ended
<1>15. CASE Crash \/ LoopSaveRaises
  <2>1. saving'["loop"] = NULL /\ saving'["user"] = saving["user"]
    BY <1>15, DropTypes DEF Crash, LoopSaveRaises, SaveRaises
  <2>2. pc' = "idle" /\ session' = session
    BY <1>15 DEF Crash, LoopSaveRaises, Ended
  <2> QED
    BY <2>1, <2>2 DEF Control
<1>16. ASSUME NEW s \in {"PAUSED", "CANCELED", "RUNNING"}, UserLoads(s)
       PROVE  Control'
  <2>1. [session EXCEPT !.status = s] \in Session
    BY <1>16, WithStatus DEF UserLoads, TypeOK, Status
  <2>2. saving'["loop"] = saving["loop"]
    BY <1>16, <2>1, LoadTypes DEF UserLoads
  <2> QED
    BY <1>16, <2>2 DEF UserLoads, Control
<1>17. CASE UserSaves
  <2>1. /\ session' # NULL
        /\ saving["loop"] = NULL => saving'["loop"] = NULL
        /\ saving["loop"] # NULL =>
             saving'["loop"] # NULL /\ saving'["loop"].record = saving["loop"].record
    BY <1>17, SaveTypes DEF UserSaves
  <2> QED
    BY <1>17, <2>1 DEF UserSaves, Control
<1>18. CASE UNCHANGED vars
  BY <1>18 DEF vars, Control
<1>19. CASE ChatFails \/ TurnRefused
  BY <1>4, <1>19 DEF ChatFails, TurnRefused
<1>20. CASE Act
  BY <1>8, <1>20 DEF Act, Edit, CommandStrays, Build, Render, Look
<1>21. ASSUME NEW p \in Parties, WriteTemporary(p) PROVE Control'
  <2>1. \A q \in Parties :
          /\ saving[q] = NULL <=> saving'[q] = NULL
          /\ saving[q] # NULL => saving'[q].record = saving[q].record
    BY <1>21, WriteTypes
  <2> QED
    BY <1>21, <2>1 DEF WriteTemporary, Control
<1>22. CASE UserSaveRaises
  <2>1. saving'["user"] = NULL /\ saving'["loop"] = saving["loop"]
    BY <1>22, DropTypes DEF UserSaveRaises, SaveRaises
  <2> QED
    BY <1>22, <2>1 DEF UserSaveRaises, Control
<1> QED
  BY <1>1, <1>2, <1>5, <1>6, <1>7, <1>9, <1>10, <1>11, <1>12, <1>13, <1>14,
     <1>15, <1>16, <1>17, <1>18, <1>19, <1>20, <1>21, <1>22
     DEF Next, LoopStep, UserStep, Answer, Record, Complete

LEMMA TemporaryStep ==
  TypeOK /\ Control /\ TemporaryFits /\ [Next]_vars => TemporaryFits'
<1> SUFFICES ASSUME TypeOK, Control, TemporaryFits, [Next]_vars
             PROVE  TemporaryFits'
  OBVIOUS
<1> USE DEF historyVars, loopVars, treeVars, disk
<1>1. ASSUME UNCHANGED <<saving, temporary>> PROVE TemporaryFits'
  BY <1>1 DEF TemporaryFits
<1>2. ASSUME NEW p \in Parties, NEW record \in Session, Load(p, record),
             temporary' = temporary
      PROVE  TemporaryFits'
  <2>1. saving'[p].written = FALSE /\ \A q \in Parties \ {p} : saving'[q] = saving[q]
    BY <1>2, LoadTypes
  <2> QED
    BY <1>2, <2>1 DEF TemporaryFits
<1>3. ASSUME NEW p \in Parties, Save(p) PROVE TemporaryFits'
  BY <1>3, SaveTypes DEF TemporaryFits
<1>4. ASSUME NEW p \in Parties, Drop(p) PROVE TemporaryFits'
  BY <1>4, DropTypes DEF TemporaryFits
<1>5. ASSUME NEW p \in Parties, WriteTemporary(p) PROVE TemporaryFits'
  BY <1>5, WriteTypes DEF TemporaryFits
<1>6. CASE Run
  <2>1. CASE UNCHANGED saving
    BY <1>1, <1>6, <2>1 DEF Run
  <2>2. CASE Load("loop", [session EXCEPT !.status = "RUNNING"])
    BY <1>2, <1>6, <2>2, WithStatus DEF Run, TypeOK, Status, Parties
  <2> QED
    BY <1>6, <2>1, <2>2 DEF Run
<1>7. CASE Charge
  BY <1>2, <1>7, ChargedTypes, Started DEF Charge, LoadTurn, Parties
<1>8. CASE Exhaust \/ CompleteLoad
  BY <1>2, <1>8, WithStatus, Started DEF Exhaust, CompleteLoad, Status, Parties
<1>9. ASSUME NEW s \in {"PAUSED", "CANCELED", "RUNNING"}, UserLoads(s)
      PROVE  TemporaryFits'
  BY <1>2, <1>9, WithStatus DEF UserLoads, TypeOK, Status, Parties
<1>10. CASE SaveResumed \/ SaveTurn \/ SaveCompleted \/ UserSaves
  BY <1>3, <1>10 DEF SaveResumed, SaveTurn, SaveCompleted, UserSaves, Parties
<1>11. CASE Crash \/ LoopSaveRaises \/ UserSaveRaises
  BY <1>4, <1>11 DEF Crash, LoopSaveRaises, UserSaveRaises, SaveRaises, Parties
<1>12. CASE Start \/ Answer \/ Act \/ TurnRefused \/ CompleteCheck
  BY <1>1, <1>12 DEF Start, Answer, ChatFails, AnswerUnreadable, AnswerEmpty,
     AnswerActions, Act, Edit, CommandStrays, Build, Render, Look, Executed,
     TurnRefused, CompleteCheck
<1>13. CASE UNCHANGED vars
  BY <1>1, <1>13 DEF vars
<1> QED
  BY <1>5, <1>6, <1>7, <1>8, <1>9, <1>10, <1>11, <1>12, <1>13
     DEF Next, LoopStep, UserStep, Record, Complete, Parties

\* Every state has the types of TypeOK; Control and TemporaryFits hold too.
THEOREM TypeCorrect == Spec => [](TypeOK /\ Control /\ TemporaryFits)
<1>1. ASSUME Init PROVE TypeOK /\ Control /\ TemporaryFits
  <2>1. knows \in Knowledge /\ turn \in Turn
    BY <1>1 DEF Init, Forgotten, Knowledge, NoTurn, Turn
  <2> QED
    BY <1>1, <2>1, ContentsAssumption 
       DEF Init, TypeOK, Control, TemporaryFits, Phase, Parties
<1> QED
  BY <1>1, TypeStep, ControlStep, TemporaryStep, PTL DEF Spec

----------------------------------------------------------------------------
(* The completion gate *)

LEMMA GateStep ==
  TypeOK /\ Control /\ LocalsAreCurrent /\ [Next]_vars => LocalsAreCurrent'
<1> SUFFICES ASSUME TypeOK, Control, LocalsAreCurrent, [Next]_vars
             PROVE  LocalsAreCurrent'
  OBVIOUS
<1> USE DEF historyVars, loopVars, treeVars, disk
<1>1. ASSUME Ended PROVE LocalsAreCurrent'
  BY <1>1, ContentsAssumption, NullAssumption
     DEF Ended, LocalsAreCurrent, Forgotten, Completing
<1>2. ASSUME UNCHANGED <<tree, knows, shot, strayed, build_action>>,
             Completing' => Completing \/ MayComplete(knows')
      PROVE  LocalsAreCurrent'
  BY <1>2 DEF LocalsAreCurrent, MayComplete
<1>3. CASE Start
  BY <1>2, <1>3 DEF Start, Completing
<1>4. CASE Run
  BY <1>2, <1>4 DEF Run, Completing
<1>5. CASE SaveResumed
  BY <1>2, <1>5 DEF SaveResumed, Completing
<1>6. CASE AnswerUnreadable
  BY <1>2, <1>6 DEF AnswerUnreadable, Completing
<1>7. CASE AnswerActions
  <2>1. pc' = "acting" /\ UNCHANGED <<tree, shot, strayed>> /\ knows' = Reviewed(knows)
    BY <1>7 DEF AnswerActions
  <2> QED
    BY <2>1, ReviewedTypes DEF LocalsAreCurrent, Completing
<1>8. CASE AnswerEmpty
  <2>1. pc' = "recording" /\ UNCHANGED <<tree, shot, strayed>> /\ knows' = Reviewed(knows)
    BY <1>8 DEF AnswerEmpty
  <2> QED
    BY <2>1, ReviewedTypes DEF LocalsAreCurrent, Completing
<1>9. ASSUME NEW isRender \in BOOLEAN, Executed(isRender)
      PROVE  ~Completing'
  BY <1>9 DEF Executed, Completing
<1>10. ASSUME NEW t \in Trees, NEW content \in Contents, Edit(t, content)
       PROVE  LocalsAreCurrent'
  <2>1. knows'.last_build_hash = NULL /\ knows'.last_render_healthy = NULL
    BY <1>10 DEF Edit, TypeOK, Knowledge
  <2> QED
    BY <1>9, <1>10, <2>1, NullAssumption DEF Edit, LocalsAreCurrent
<1>11. ASSUME NEW t \in Trees, NEW content \in Contents, CommandStrays(t, content)
       PROVE  LocalsAreCurrent'
  BY <1>9, <1>11 DEF CommandStrays, LocalsAreCurrent
<1>12. CASE Build
  <2>1. knows'.last_render_healthy = NULL
    BY <1>12 DEF Build, TypeOK, Knowledge
  <2>2. tree'["out"] = tree'["work"]
    BY <1>12 DEF Build, TypeOK, Trees
  <2> QED
    <3>1. ~Completing'
      BY <1>9, <1>12 DEF Build
    <3> QED
      BY <2>1, <2>2, <3>1, NullAssumption DEF LocalsAreCurrent
<1>13. ASSUME NEW t \in Trees, NEW isHealthy \in BOOLEAN, Render(t, isHealthy)
       PROVE  LocalsAreCurrent'
  <2>1. tree' = tree /\ strayed' = strayed
    BY <1>13 DEF Render
  <2>2. CASE UNCHANGED <<knows, shot>>
    <3>1. ~Completing'
      BY <1>9, <1>13 DEF Render
    <3> QED
      BY <2>1, <2>2, <3>1 DEF LocalsAreCurrent
  <2>3. CASE /\ knows' = [knows EXCEPT !.last_render_healthy = isHealthy,
                                       !.render_build_hash = knows.last_build_hash,
                                       !.screenshot_pending = TRUE]
             /\ shot' = IF isHealthy THEN [tree |-> t, content |-> tree[t]]
                        ELSE NULL
    <3>1. /\ knows'.last_build_hash = knows.last_build_hash
          /\ knows'.last_render_healthy = isHealthy
      BY <2>3 DEF TypeOK, Knowledge
    <3>2. isHealthy => /\ shot' \in Shot
                       /\ shot'.content = tree[shot'.tree]
      BY <2>3 DEF TypeOK, Shot
    <3>3. /\ ~strayed /\ knows.last_build_hash # NULL => tree["out"] = tree["work"]
          /\ knows'.last_render_healthy = TRUE =>
               shot' # NULL /\ shot'.content = tree'[shot'.tree]
      BY <2>1, <3>1, <3>2, NullAssumption DEF LocalsAreCurrent
    <3>4. ~Completing'
      BY <1>9, <1>13 DEF Render
    <3> QED
      BY <2>1, <3>1, <3>3, <3>4 DEF LocalsAreCurrent
  <2> QED
    BY <1>13, <2>2, <2>3 DEF Render
<1>14. ASSUME NEW isRender \in BOOLEAN, Look(isRender) PROVE LocalsAreCurrent'
  BY <1>2, <1>9, <1>14 DEF Look, Executed, MayComplete
<1>15. CASE Charge
  BY <1>2, <1>15 DEF Charge, LoadTurn, Completing
<1>16. CASE Exhaust
  BY <1>2, <1>16 DEF Exhaust, Completing
<1>17. CASE SaveTurn
  <2>1. CASE turn.of = "none"
    BY <1>1, <1>17, <2>1 DEF SaveTurn
  <2>2. CASE turn.of # "none"
    <3>1. Completing' => MayComplete(knows')
      BY <1>17, <2>2, OnwardFacts DEF SaveTurn, Completing
    <3> QED
      BY <1>2, <1>17, <2>2, <3>1 DEF SaveTurn
  <2> QED
    BY <2>1, <2>2
<1>18. CASE CompleteCheck
  BY <1>1, <1>2, <1>18 DEF CompleteCheck, Completing
<1>19. CASE CompleteLoad
  BY <1>2, <1>19 DEF CompleteLoad, Completing
<1>20. CASE ChatFails \/ TurnRefused \/ SaveCompleted \/ Crash \/ LoopSaveRaises
  BY <1>1, <1>20 DEF ChatFails, TurnRefused, SaveCompleted, Crash, LoopSaveRaises
<1>21. CASE UserStep
  BY <1>2, <1>21
     DEF UserStep, UserLoads, UserSaves, UserSaveRaises, WriteTemporary, Completing
<1>22. CASE UNCHANGED vars
  BY <1>2, <1>22 DEF vars, Completing
<1>23. CASE WriteTemporary("loop")
  BY <1>2, <1>23 DEF WriteTemporary, Completing
<1> QED
  BY <1>3, <1>4, <1>5, <1>6, <1>7, <1>8, <1>10, <1>11, <1>12, <1>13, <1>14,
     <1>15, <1>16, <1>17, <1>18, <1>19, <1>20, <1>21, <1>22, <1>23
     DEF Next, LoopStep, Answer, Act, Record, Complete

\* The completion gate speaks of the files as they are now.
THEOREM GateCorrect == Spec => []GateIsCurrent
<1>1. ASSUME Init PROVE LocalsAreCurrent
  <2>1. /\ knows.last_build_hash = NULL
        /\ knows.last_render_healthy = NULL
        /\ ~Completing
    BY <1>1 DEF Init, Forgotten, Completing
  <2> QED
    BY <2>1, NullAssumption DEF LocalsAreCurrent
<1>2. LocalsAreCurrent => GateIsCurrent
  BY DEF LocalsAreCurrent, GateIsCurrent, MayComplete
<1> QED
  BY <1>1, <1>2, GateStep, TypeCorrect, PTL DEF Spec

----------------------------------------------------------------------------
(* The budget *)

LEMMA SavedRecord ==
  ASSUME TypeOK, TemporaryFits, Accounts, NEW p \in Parties, Save(p)
  PROVE  /\ session' \in Session /\ session' # NULL /\ WithinLimits(session)'
         /\ ~raced' => ~raced /\ session'.steps = session.steps + Due(p)
         /\ \A q \in Parties : saving'[q] # NULL =>
              WithinLimits(saving'[q].record) /\ saving'[q].stale = TRUE
<1>1. /\ session' = temporary.record /\ temporary # NULL
      /\ saving[p] # NULL /\ saving[p].written
      /\ session' \in Session /\ session' # NULL
      /\ saving'[p] = NULL
      /\ raced' = (raced \/ saving[p].stale \/ temporary.by # p)
      /\ \A q \in Parties \ {p} :
           /\ saving[q] = NULL => saving'[q] = NULL
           /\ saving[q] # NULL => /\ saving'[q].record = saving[q].record
                                  /\ saving'[q].stale = TRUE
  BY SaveTypes
<1>2. WithinLimits(session)'
  BY <1>1 DEF Accounts, WithinLimits
<1>3. ~raced' => ~raced /\ session'.steps = session.steps + Due(p)
  BY <1>1 DEF Accounts, TemporaryFits
<1> QED
  BY <1>1, <1>2, <1>3 DEF Accounts, WithinLimits

LEMMA AccountsStep ==
  TypeOK /\ Control /\ TemporaryFits /\ Accounts /\ [Next]_vars => Accounts'
<1> SUFFICES ASSUME TypeOK, Control, TemporaryFits, Accounts, [Next]_vars
             PROVE  Accounts'
  OBVIOUS
<1> USE DEF historyVars, loopVars, treeVars, disk, Parties
<1>0. /\ pc # "idle" => session # NULL /\ session \in Session
      /\ \A p \in Parties : saving[p] # NULL => session # NULL /\ session \in Session
      /\ worked \in Nat /\ runs \in Nat /\ turn \in Turn
      /\ session \in Session => session.steps \in Nat
  BY DEF TypeOK, Control, Session
<1>1. CASE Start
  <2>1. /\ session' = [status |-> "RUNNING", steps |-> 0, renders |-> 0]
        /\ pc = "idle" /\ \A p \in Parties : saving[p] = NULL
        /\ UNCHANGED <<pc, turn, saving, temporary, worked, runs>> /\ worked = 0
    BY <1>1 DEF Start, Control, Accounts
  <2>2. session' # NULL
    BY <2>1, NullAssumption DEF Session, Status
  <2> QED
    BY <1>0, <2>1, <2>2, LimitsAssumption DEF Accounts, WithinLimits, Slack
<1>2. CASE Run
  <2>1. /\ session \in Session /\ session # NULL /\ pc = "idle"
        /\ runs' = runs + 1 /\ UNCHANGED <<session, temporary, turn, worked, raced>>
    BY <1>2 DEF Run, TypeOK
  <2>2. CASE pc' = "asking" /\ UNCHANGED saving
    BY <1>0, <2>1, <2>2 DEF Accounts, WithinLimits, Slack, Due
  <2>3. CASE pc' = "resuming" /\ Load("loop", [session EXCEPT !.status = "RUNNING"])
    <3> DEFINE r == [session EXCEPT !.status = "RUNNING"]
    <3>1. r \in Session /\ r.steps = session.steps /\ r.renders = session.renders
      BY <2>1, WithStatus DEF Status
    <3> HIDE DEF r
    <3>2. /\ saving'["loop"].record = r /\ saving'["user"] = saving["user"]
      BY <2>3, <3>1, LoadTypes DEF r
    <3> QED
      BY <1>0, <2>1, <2>3, <3>1, <3>2 DEF Accounts, WithinLimits, Slack, Due
  <2> QED
    BY <1>2, <2>2, <2>3 DEF Run
\* A step that leaves the file and what was loaded from it alone.
<1>3. ASSUME UNCHANGED <<session, saving, temporary, runs, raced>>,
             pc # "idle", pc # "saving", pc' # "saving",
             worked' \in Nat, worked' + Slack' <= worked + Slack
      PROVE  Accounts'
  <2>1. Slack \in {0, 1} /\ Slack' \in {0, 1}
    BY DEF Slack
  <2>2. session.steps \in Nat /\ (~raced => worked + Slack <= session.steps + runs)
    BY <1>0, <1>3 DEF Accounts
  <2>3. worked' + Slack' <= worked + Slack /\ worked \in Nat /\ worked' \in Nat
        /\ runs \in Nat
    BY <1>0, <1>3
  <2>4. ~raced => worked' + Slack' <= session.steps + runs
    <3>1. \A i, j, k, l, m, n \in Nat : i + j <= k + l /\ k + l <= m + n => i + j <= m + n
      OBVIOUS
    <3>2. Slack \in Nat /\ Slack' \in Nat
      BY <2>1
    <3> QED
      BY <2>3, <2>2, <3>1, <3>2
  <2> QED
    BY <1>0, <1>3, <2>4 DEF Accounts, WithinLimits, Due
<1>4. CASE AnswerUnreadable
  BY <1>0, <1>3, <1>4 DEF AnswerUnreadable, Work, Slack
<1>5. CASE AnswerActions \/ ChatFails \/ CompleteCheck
  BY <1>0, <1>3, <1>5 DEF AnswerActions, ChatFails, CompleteCheck, Ended, Slack
<1>6. CASE AnswerEmpty
  BY <1>0, <1>3, <1>6 DEF AnswerEmpty, Work, Slack
<1>7. CASE Act
  <2>1. ASSUME NEW isRender \in BOOLEAN, pc = "acting", Executed(isRender)
        PROVE  Accounts'
    BY <1>0, <1>3, <2>1, ExecutedFacts DEF Slack
  <2> QED
    BY <1>7, <2>1 DEF Act, Edit, CommandStrays, Build, Render, Look
<1>8. CASE TurnRefused
  BY <1>0, <1>3, <1>8 DEF TurnRefused, Ended, Slack
\* A step that loads the file and keeps the counters.
<1>9. ASSUME NEW p \in Parties, NEW status \in Status,
             Load(p, [session EXCEPT !.status = status]),
             session # NULL, UNCHANGED <<session, temporary, worked, runs, raced>>,
             Slack' = Slack, Due(p)' = 0,
             \A q \in Parties \ {p} : saving[q] # NULL => Due(q)' = Due(q)
      PROVE  Accounts'
  <2> DEFINE r == [session EXCEPT !.status = status]
  <2>1. session \in Session
    BY <1>9 DEF TypeOK
  <2>2. r \in Session /\ r.steps = session.steps /\ r.renders = session.renders
    BY <2>1, <1>9, WithStatus
  <2> HIDE DEF r
  <2>3. /\ saving'[p].record = r
        /\ \A q \in Parties \ {p} : saving'[q] = saving[q]
    BY <1>9, <2>2, LoadTypes DEF r
  <2> QED
    BY <1>0, <1>9, <2>1, <2>2, <2>3 DEF Accounts, WithinLimits
<1>10. CASE Charge
  <2>1. /\ session # NULL /\ turn.of # "none" /\ pc = "recording" /\ pc' = "saving"
        /\ UNCHANGED <<session, temporary, turn, worked, runs, raced>>
        /\ WithinLimits(Charged) /\ Load("loop", Charged)
    BY <1>10 DEF Charge, LoadTurn, Control
  <2>2. Charged \in Session /\ Charged.steps = session.steps + 1
    BY <2>1, ChargedTypes
  <2>3. saving'["loop"].record = Charged /\ saving'["user"] = saving["user"]
    BY <2>1, <2>2, LoadTypes
  <2> QED
    BY <1>0, <2>1, <2>2, <2>3 DEF Accounts, WithinLimits, Slack, Due
<1>11. CASE Exhaust
  <2>1. turn'.of = "none"
    BY <1>11 DEF Exhaust, NoTurn
  <2>2. session # NULL
    BY <1>0, <1>11 DEF Exhaust
  <2> QED
    BY <1>9, <1>11, <2>1, <2>2 DEF Exhaust, Slack, Due, Status
<1>12. CASE CompleteLoad
  BY <1>0, <1>9, <1>12 DEF CompleteLoad, Slack, Due, Status
<1>13. ASSUME NEW s \in {"PAUSED", "CANCELED", "RUNNING"}, UserLoads(s)
       PROVE  Accounts'
  BY <1>9, <1>13 DEF UserLoads, Slack, Due, Status
\* A step that replaces the file.
<1>14. ASSUME NEW p \in Parties, Save(p), temporary' = NULL,
              UNCHANGED <<worked, runs>>, Slack' <= Slack + Due(p)
       PROVE  Accounts'
  <2>1. /\ session' \in Session /\ session' # NULL /\ WithinLimits(session)'
        /\ ~raced' => ~raced /\ session'.steps = session.steps + Due(p)
        /\ \A q \in Parties : saving'[q] # NULL =>
             WithinLimits(saving'[q].record) /\ saving'[q].stale = TRUE
    BY <1>14, SavedRecord
  <2>2. Slack \in {0, 1} /\ Slack' \in {0, 1} /\ Due(p) \in {0, 1}
    BY DEF Slack, Due
  <2>3. ~raced' => worked' + Slack' <= session'.steps + runs'
    <3>1. session # NULL /\ session.steps \in Nat
      BY <1>0, <1>14 DEF Save
    <3>2. ~raced => worked + Slack <= session.steps + runs
      BY <3>1 DEF Accounts
    <3>3. worked' = worked /\ runs' = runs /\ Slack' <= Slack + Due(p)
      BY <1>14
    <3> HIDE DEF disk
    <3> QED
      BY <1>0, <2>1, <2>2, <3>1, <3>2, <3>3
  <2> QED
    BY <1>14, <2>1, <2>3 DEF Accounts, WithinLimits
<1>15. CASE SaveResumed \/ SaveCompleted
  BY <1>14, <1>15 DEF SaveResumed, SaveCompleted, Save, Ended, Slack, Due
<1>16. CASE SaveTurn
  <2>1. Slack' <= Slack + Due("loop")
    <3>1. turn.of # "none" => pc' \in {"asking", "acting", "checking"}
      BY <1>16, OnwardFacts DEF SaveTurn
    <3> QED
      BY <1>16, <3>1 DEF SaveTurn, Ended, Slack, Due
  <2> QED
    BY <1>14, <1>16, <2>1 DEF SaveTurn, Save
<1>17. CASE UserSaves
  BY <1>14, <1>17 DEF UserSaves, Save, Slack, Due
<1>18. CASE Crash \/ LoopSaveRaises
  <2>1. /\ saving'["loop"] = NULL /\ saving'["user"] = saving["user"]
        /\ temporary' \in {temporary, NULL}
    BY <1>18, DropTypes DEF Crash, LoopSaveRaises, SaveRaises
  <2>2. /\ pc' = "idle" /\ pc # "idle"
        /\ UNCHANGED <<session, worked, runs, raced>>
    BY <1>18 DEF Crash, LoopSaveRaises, SaveRaises, Ended, Control
  <2> QED
    BY <1>0, <2>1, <2>2 DEF Accounts, WithinLimits, Slack, Due
<1>19. CASE UNCHANGED vars
  BY <1>19 DEF vars, Accounts, WithinLimits, Slack, Due
<1>20. ASSUME NEW p \in Parties, WriteTemporary(p) PROVE Accounts'
  <2>1. /\ temporary'.record = saving[p].record /\ saving[p] # NULL
        /\ \A q \in Parties :
             /\ saving[q] = NULL <=> saving'[q] = NULL
             /\ saving[q] # NULL => /\ saving'[q].record = saving[q].record
                                   /\ saving'[q].stale = saving[q].stale
    BY <1>20, WriteTypes DEF WriteTemporary
  <2>2. UNCHANGED <<session, pc, turn, worked, runs, raced>>
    BY <1>20 DEF WriteTemporary
  <2> QED
    BY <2>1, <2>2 DEF Accounts, WithinLimits, Slack, Due
<1>21. CASE UserSaveRaises
  <2>1. /\ saving'["user"] = NULL /\ saving'["loop"] = saving["loop"]
        /\ temporary' \in {temporary, NULL}
        /\ UNCHANGED <<session, pc, turn, worked, runs, raced>>
    BY <1>21, DropTypes DEF UserSaveRaises, SaveRaises
  <2> QED
    BY <2>1 DEF Accounts, WithinLimits, Slack, Due
<1> QED
  BY <1>1, <1>2, <1>4, <1>5, <1>6, <1>7, <1>8, <1>10, <1>11, <1>12, <1>13,
     <1>15, <1>16, <1>17, <1>18, <1>19, <1>20, <1>21
     DEF Next, LoopStep, UserStep, Answer, Record, Complete

\* The budget counts all the work but one action per run, as long as no save
\* undoes another.
THEOREM BudgetCorrect == Spec => []BudgetBinds
<1>1. Init => Accounts
  BY DEF Init, Accounts
<1>2. TypeOK /\ Accounts => BudgetBinds
  <2> SUFFICES ASSUME TypeOK, Accounts, ~raced, session # NULL
               PROVE  worked <= session.steps + runs
    BY DEF Accounts, BudgetBinds
  <2>1. session.steps \in Nat /\ worked \in Nat /\ runs \in Nat
    BY DEF TypeOK, Session
  <2>2. worked + Slack <= session.steps + runs /\ Slack \in {0, 1}
    BY DEF Accounts, Slack
  <2> QED
    BY <2>1, <2>2
<1> QED
  BY <1>1, <1>2, AccountsStep, TypeCorrect, PTL DEF Spec

----------------------------------------------------------------------------
(* Stopping *)

LEMMA LatenessStep ==
  TypeOK /\ Control /\ TemporaryFits /\ Lateness /\ [Next]_vars => Lateness'
<1> SUFFICES ASSUME TypeOK, Control, TemporaryFits, Lateness, [Next]_vars
             PROVE  Lateness'
  OBVIOUS
<1> USE DEF historyVars, loopVars, treeVars, disk, Parties
<1>0. late \in Nat /\ (pc # "idle" => session # NULL)
  BY DEF TypeOK, Control
<1>1. ASSUME UNCHANGED <<session, late, raced>>,
             \/ pc' \in {"idle", pc}
             \/ pc \notin {"idle", "resuming", "recording"}
             \/ session.status = "RUNNING"
             \/ pc' = "resuming"
      PROVE  Lateness'
  BY <1>0, <1>1 DEF Lateness
<1>2. ASSUME Work, UNCHANGED <<session, raced>>, pc \in {"asking", "acting"},
             pc' = "recording"
      PROVE  Lateness'
  BY <1>0, <1>2 DEF Lateness, Work
<1>3. ASSUME NEW p \in Parties, Save(p),
             \/ pc' = pc
             \/ pc \in {"saving", "finishing"}
             \/ saving[p].record.status = "RUNNING"
      PROVE  Lateness'
  <2>1. /\ session' # NULL /\ session' = temporary.record
        /\ saving[p] # NULL /\ saving[p].written /\ temporary # NULL
        /\ raced' = (raced \/ saving[p].stale \/ temporary.by # p)
        /\ late' = IF session'.status = "RUNNING" THEN 0 ELSE late
    BY <1>3, SaveTypes
  <2>2. /\ raced' \/ ~raced
        /\ late' = 0 \/ (late' = late /\ session'.status # "RUNNING")
    BY <2>1
  <2>3. CASE late' = 0
    BY <2>3 DEF Lateness
  <2>4. CASE late' = late /\ session'.status # "RUNNING"
    BY <1>0, <1>3, <2>1, <2>2, <2>4 DEF Lateness, TemporaryFits
  <2> QED
    BY <2>2, <2>3, <2>4
<1>4. CASE Start
  BY <1>0, <1>4 DEF Start, Lateness
<1>5. CASE Run
  BY <1>1, <1>5 DEF Run
<1>6. CASE SaveResumed \/ SaveTurn \/ SaveCompleted
  BY <1>3, <1>6 DEF SaveResumed, SaveTurn, SaveCompleted, Control
<1>7. CASE UserSaves
  BY <1>3, <1>7 DEF UserSaves
<1>8. CASE AnswerUnreadable \/ Act
  BY <1>2, <1>8
     DEF AnswerUnreadable, Act, Edit, CommandStrays, Build, Render, Look, Executed
<1>9. CASE AnswerEmpty
  BY <1>2, <1>9 DEF AnswerEmpty
<1>10. CASE \/ ChatFails \/ AnswerActions \/ TurnRefused \/ Crash
            \/ LoopSaveRaises \/ UserSaveRaises
  BY <1>1, <1>10
     DEF ChatFails, AnswerActions, TurnRefused, Crash, LoopSaveRaises,
         UserSaveRaises, Ended
<1>11. CASE Charge \/ Exhaust \/ CompleteCheck \/ CompleteLoad
  BY <1>1, <1>11 DEF Charge, LoadTurn, Exhaust, CompleteCheck, CompleteLoad, Ended
<1>12. ASSUME NEW s \in {"PAUSED", "CANCELED", "RUNNING"}, UserLoads(s)
       PROVE  Lateness'
  BY <1>1, <1>12 DEF UserLoads
<1>13. CASE UNCHANGED vars
  BY <1>1, <1>13 DEF vars
<1>14. ASSUME NEW p \in Parties, WriteTemporary(p) PROVE Lateness'
  BY <1>1, <1>14 DEF WriteTemporary
<1> QED
  BY <1>4, <1>5, <1>6, <1>7, <1>8, <1>9, <1>10, <1>11, <1>12, <1>13, <1>14
     DEF Next, LoopStep, UserStep, Answer, Record, Complete

\* After a pause or a cancel at most the action under way is finished.
THEOREM StopCorrect == Spec => []StopTakesEffect
<1>1. Init => Lateness
  BY DEF Init, Lateness
<1>2. Lateness => StopTakesEffect
  BY DEF Lateness, StopTakesEffect
<1> QED
  BY <1>1, <1>2, LatenessStep, TypeCorrect, PTL DEF Spec
=============================================================================
