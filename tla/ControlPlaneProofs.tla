------------------------- MODULE ControlPlaneProofs -------------------------
(***************************************************************************)
(* Proofs about ControlPlane, for any number of runs, handlers and         *)
(* executions: types, diagnoses, the exclusion of two executions, the life *)
(* of each record, and that nothing a run has made is forgotten.           *)
(***************************************************************************)
EXTENDS ControlPlane, TLAPS

-----------------------------------------------------------------------------
(***************************************************************************)
(* Types.                                                                  *)
(***************************************************************************)
LEMMA NoExecution == 0 \in Executions
BY MaxRunsAssumption DEF Executions

LEMMA EmptyDoc == NoDoc \in Doc /\ Announced \in Doc
BY NoExecution DEF NoDoc, Doc, Announced

LEMMA IdleTask == Idle \in Task
BY NoExecution, EmptyDoc DEF Idle, Task, Points

LEMMA DocUpdates ==
  ASSUME NEW r \in Doc
  PROVE  /\ [r EXCEPT !.state = "RUNNING"] \in Doc
         /\ Cleared(r) \in Doc
         /\ [r EXCEPT !.state = "STOPPED"] \in Doc
         /\ [r EXCEPT !.state = "READY"] \in Doc
         /\ [r EXCEPT !.service = TRUE] \in Doc
         /\ [r EXCEPT !.diagnosis = r.error] \in Doc
         /\ \A n \in Executions : [r EXCEPT !.collection = n] \in Doc
         /\ \A n, k \in Executions :
              [r EXCEPT !.state = Outcome(r), !.error = n, !.diagnosis = k] \in Doc
         /\ \A n \in Executions : Crashed(r, n) \in Doc
BY NoExecution DEF Doc, Cleared, Crashed, Outcome

\* A task's entry after any of its moves.
LEMMA TaskUpdates ==
  ASSUME NEW p \in Task, NEW r \in Doc, NEW to \in Points,
         NEW l \in SUBSET (Mcps \X Executions)
  PROVE  /\ [p EXCEPT !.pc = to, !.rec = r, !.list = {}, !.current = TRUE] \in Task
         /\ [p EXCEPT !.pc = to, !.rec = r] \in Task
         /\ [p EXCEPT !.pc = to, !.list = l] \in Task
         /\ [p EXCEPT !.current = FALSE] \in Task
BY DEF Task

LEMMA StaleType ==
  ASSUME task \in [Tasks -> Task], NEW t \in Tasks, NEW next \in Task, NEW m
  PROVE  Stale(t, next, m) \in [Tasks -> Task]
<1>1. \A u \in Tasks : task[u] \in Task
  OBVIOUS
<1>2. \A u \in Tasks : [task[u] EXCEPT !.current = FALSE] \in Task
  BY <1>1 DEF Task
<1> QED BY <1>1, <1>2 DEF Stale

\* Where the handlers that begin and end an execution go.
LEMMA KnownPoints ==
  /\ "begin" \in Points /\ "deploy" \in Points /\ "final" \in Points
  /\ "begin" \notin Executing
BY DEF Points, Executing

\* What a put does to each entry of the store and of the task table.
Puts(t, rec, to) ==
  /\ store' \in [Mcps -> Doc] /\ task' \in [Tasks -> Task]
  /\ clobbered' \subseteq Mcps
  /\ store'[task[t].mcp] = rec
  /\ \A m \in Mcps \ {task[t].mcp} : store'[m] = store[m]
  /\ task'[t].pc = to /\ task'[t].rec = rec /\ task'[t].mcp = task[t].mcp
  /\ task'[t].n = task[t].n /\ task'[t].current = TRUE
  /\ \A u \in Tasks \ {t} :
       /\ task'[u].pc = task[u].pc /\ task'[u].rec = task[u].rec
       /\ task'[u].mcp = task[u].mcp /\ task'[u].n = task[u].n
       /\ task'[u].current = (task[u].current /\ task[u].mcp # task[t].mcp)

\* The same of a put after which the handler answers.
Leaves(t, rec) ==
  /\ store' \in [Mcps -> Doc] /\ task' \in [Tasks -> Task]
  /\ clobbered' \subseteq Mcps
  /\ store'[task[t].mcp] = rec
  /\ \A m \in Mcps \ {task[t].mcp} : store'[m] = store[m]
  /\ task'[t] = Idle
  /\ \A u \in Tasks \ {t} :
       /\ task'[u].pc = task[u].pc /\ task'[u].rec = task[u].rec
       /\ task'[u].mcp = task[u].mcp /\ task'[u].n = task[u].n
       /\ task'[u].current = (task[u].current /\ task[u].mcp # task[t].mcp)

LEMMA PutEntries ==
  ASSUME TypeOK, NEW t \in Tasks, NEW rec \in Doc, NEW to \in Points,
         task[t].mcp \in Mcps, Put(t, rec, to)
  PROVE  Puts(t, rec, to)
<1> DEFINE next == [task[t] EXCEPT !.pc = to, !.rec = rec, !.list = {}, !.current = TRUE]
<1>1. task[t] \in Task /\ task \in [Tasks -> Task] /\ store \in [Mcps -> Doc]
  BY DEF TypeOK
<1>2. next \in Task
  BY <1>1, TaskUpdates
<1>3. task' = Stale(t, next, task[t].mcp) /\ store' = [store EXCEPT ![task[t].mcp] = rec]
  BY DEF Put
<1>4. task' \in [Tasks -> Task]
  BY <1>1, <1>2, <1>3, StaleType
<1>5. clobbered' \subseteq Mcps
  BY DEF Put, Unseen, TypeOK
<1>6. task'[t] = next
  BY <1>3 DEF Stale
<1>7. next.pc = to /\ next.rec = rec /\ next.mcp = task[t].mcp
      /\ next.n = task[t].n /\ next.current = TRUE
  BY <1>1 DEF Task
<1>8. ASSUME NEW u \in Tasks \ {t}
      PROVE  /\ task'[u].pc = task[u].pc /\ task'[u].rec = task[u].rec
             /\ task'[u].mcp = task[u].mcp /\ task'[u].n = task[u].n
             /\ task'[u].current = (task[u].current /\ task[u].mcp # task[t].mcp)
  <2>1. task[u] \in Task
    BY <1>1
  <2>2. task'[u] = IF task[u].mcp = task[t].mcp
                   THEN [task[u] EXCEPT !.current = FALSE] ELSE task[u]
    BY <1>3 DEF Stale
  <2> QED BY <2>1, <2>2 DEF Task
<1> HIDE DEF next
<1> QED BY <1>1, <1>3, <1>4, <1>5, <1>6, <1>7, <1>8 DEF Puts

LEMMA LeaveEntries ==
  ASSUME TypeOK, NEW t \in Tasks, NEW rec \in Doc,
         task[t].mcp \in Mcps, PutAndLeave(t, rec)
  PROVE  Leaves(t, rec)
<1>1. task \in [Tasks -> Task] /\ store \in [Mcps -> Doc]
  BY DEF TypeOK
<1>2. task' = Stale(t, Idle, task[t].mcp) /\ store' = [store EXCEPT ![task[t].mcp] = rec]
  BY DEF PutAndLeave
<1>3. task' \in [Tasks -> Task]
  BY <1>1, <1>2, IdleTask, StaleType
<1>4. clobbered' \subseteq Mcps
  BY DEF PutAndLeave, Unseen, TypeOK
<1>5. task'[t] = Idle
  BY <1>2 DEF Stale
<1>6. ASSUME NEW u \in Tasks \ {t}
      PROVE  /\ task'[u].pc = task[u].pc /\ task'[u].rec = task[u].rec
             /\ task'[u].mcp = task[u].mcp /\ task'[u].n = task[u].n
             /\ task'[u].current = (task[u].current /\ task[u].mcp # task[t].mcp)
  <2>1. task[u] \in Task
    BY <1>1
  <2>2. task'[u] = IF task[u].mcp = task[t].mcp
                   THEN [task[u] EXCEPT !.current = FALSE] ELSE task[u]
    BY <1>2 DEF Stale
  <2> QED BY <2>1, <2>2 DEF Task
<1> QED BY <1>1, <1>2, <1>3, <1>4, <1>5, <1>6 DEF Leaves

\* Every handler works on a run whose identifier was drawn.
LEMMA OwnRun ==
  ASSUME TypeOK, Drawn, NEW t \in Tasks, task[t].pc # "idle"
  PROVE  task[t].mcp \in used /\ task[t].mcp \in Mcps
BY DEF TypeOK, Drawn

LEMMA PutKeeps ==
  ASSUME TypeOK, Drawn, NEW t \in Tasks, NEW rec \in Doc, NEW to \in Points,
         task[t].pc # "idle", Put(t, rec, to), UNCHANGED used
  PROVE  /\ store' \in [Mcps -> Doc] /\ task' \in [Tasks -> Task]
         /\ clobbered' \subseteq Mcps /\ Drawn'
<1>1. task[t].mcp \in used /\ task[t].mcp \in Mcps
  BY OwnRun
<1>a. Puts(t, rec, to)
  BY <1>1, PutEntries
<1>2. \A u \in Tasks : task'[u].mcp = task[u].mcp
                       /\ (task'[u].pc # "idle" => u = t \/ task[u].pc # "idle")
  BY <1>a DEF Puts
<1>3. \A u \in Tasks : task'[u].pc # "idle" => task'[u].mcp \in used'
  BY <1>1, <1>2 DEF Drawn
<1>4. \A m \in Mcps \ {task[t].mcp} : store'[m] = store[m]
  BY <1>a DEF Puts
<1>5. \A m \in Mcps : store'[m] # NoDoc => m \in used'
  BY <1>1, <1>4 DEF Drawn
<1>6. Drawn'
  BY <1>3, <1>5 DEF Drawn
<1> QED BY <1>1, <1>6, <1>a DEF Puts

LEMMA LeaveKeeps ==
  ASSUME TypeOK, Drawn, NEW t \in Tasks, NEW rec \in Doc,
         task[t].pc # "idle", PutAndLeave(t, rec), UNCHANGED used
  PROVE  /\ store' \in [Mcps -> Doc] /\ task' \in [Tasks -> Task]
         /\ clobbered' \subseteq Mcps /\ Drawn'
<1>1. task[t].mcp \in used /\ task[t].mcp \in Mcps
  BY OwnRun
<1>a. Leaves(t, rec)
  BY <1>1, LeaveEntries
<1>2. \A u \in Tasks : task'[u].pc # "idle" => u # t /\ task[u].pc # "idle"
                                               /\ task'[u].mcp = task[u].mcp
  BY <1>a DEF Leaves, Idle
<1>3. \A u \in Tasks : task'[u].pc # "idle" => task'[u].mcp \in used'
  BY <1>2 DEF Drawn
<1>4. \A m \in Mcps \ {task[t].mcp} : store'[m] = store[m]
  BY <1>a DEF Leaves
<1>5. \A m \in Mcps : store'[m] # NoDoc => m \in used'
  BY <1>1, <1>4 DEF Drawn
<1>6. Drawn'
  BY <1>3, <1>5 DEF Drawn
<1> QED BY <1>1, <1>6, <1>a DEF Leaves

\* A handler that only changes its own entry.
LEMMA MoveKeeps ==
  ASSUME TypeOK, Drawn, NEW t \in Tasks, NEW p \in Task,
         p.pc # "idle" => p.mcp \in used,
         task' = [task EXCEPT ![t] = p], UNCHANGED <<store, used, clobbered>>
  PROVE  /\ store' \in [Mcps -> Doc] /\ task' \in [Tasks -> Task]
         /\ clobbered' \subseteq Mcps /\ Drawn'
<1>1. task \in [Tasks -> Task]
  BY DEF TypeOK
<1>2. \A u \in Tasks : task'[u] = IF u = t THEN p ELSE task[u]
  BY <1>1
<1> QED BY <1>1, <1>2 DEF TypeOK, Drawn

LEMMA GoesKeeps ==
  ASSUME TypeOK, Drawn, NEW t \in Tasks, NEW rec \in Doc, NEW to \in Points,
         task[t].pc # "idle", Goes(t, rec, to), UNCHANGED used
  PROVE  /\ store' \in [Mcps -> Doc] /\ task' \in [Tasks -> Task]
         /\ clobbered' \subseteq Mcps /\ Drawn'
<1>1. task[t] \in Task /\ task[t].mcp \in used /\ task \in [Tasks -> Task]
  BY OwnRun DEF TypeOK
<1> DEFINE p == [task[t] EXCEPT !.pc = to, !.rec = rec]
<1>2. p \in Task /\ p.mcp = task[t].mcp
  <2>1. p \in Task
    BY <1>1, TaskUpdates
  <2> QED BY <1>1, <2>1 DEF Task
<1>3. task' = [task EXCEPT ![t] = p] /\ UNCHANGED <<store, clobbered>>
  BY <1>1 DEF Goes
<1> HIDE DEF p
<1> QED BY <1>1, <1>2, <1>3, MoveKeeps

\* The same, for a handler that has read or written the app's list.
LEMMA ListKeeps ==
  ASSUME TypeOK, Drawn, NEW t \in Tasks, NEW to \in Points,
         NEW l \in SUBSET (Mcps \X Executions), task[t].pc # "idle",
         task' = [task EXCEPT ![t] = [@ EXCEPT !.pc = to, !.list = l]],
         UNCHANGED <<store, used, clobbered>>
  PROVE  /\ store' \in [Mcps -> Doc] /\ task' \in [Tasks -> Task]
         /\ clobbered' \subseteq Mcps /\ Drawn'
<1>1. task[t] \in Task /\ task[t].mcp \in used /\ task \in [Tasks -> Task]
  BY OwnRun DEF TypeOK
<1> DEFINE p == [task[t] EXCEPT !.pc = to, !.list = l]
<1>2. p \in Task /\ p.mcp = task[t].mcp
  <2>1. p \in Task
    BY <1>1, TaskUpdates, NoExecution, EmptyDoc
  <2> QED BY <1>1, <2>1 DEF Task
<1>3. task' = [task EXCEPT ![t] = p]
  BY <1>1
<1> HIDE DEF p
<1> QED BY <1>1, <1>2, <1>3, MoveKeeps

\* A handler whose write failed.
LEMMA GiveUpKeeps ==
  ASSUME TypeOK, Drawn, NEW t \in Tasks, GiveUp(t), UNCHANGED used
  PROVE  /\ store' \in [Mcps -> Doc] /\ task' \in [Tasks -> Task]
         /\ clobbered' \subseteq Mcps /\ Drawn'
<1>1. Idle.pc = "idle"
  BY DEF Idle
<1> QED BY <1>1, IdleTask, MoveKeeps DEF GiveUp

LEMMA FailedKeeps ==
  ASSUME TypeOK, Drawn, NEW t \in Tasks, task[t].pc # "idle", Failed(t), UNCHANGED used
  PROVE  /\ store' \in [Mcps -> Doc] /\ task' \in [Tasks -> Task]
         /\ clobbered' \subseteq Mcps /\ Drawn'
<1>1. PICK known \in BOOLEAN :
        Put(t, [task[t].rec EXCEPT
              !.state = Outcome(task[t].rec),
              !.error = task[t].n,
              !.diagnosis = IF known THEN task[t].n ELSE 0],
            "final")
  BY DEF Failed
<1>2. task[t].rec \in Doc /\ task[t].n \in Executions
  BY DEF TypeOK, Task
<1>3. [task[t].rec EXCEPT
              !.state = Outcome(task[t].rec),
              !.error = task[t].n,
              !.diagnosis = IF known THEN task[t].n ELSE 0] \in Doc
  BY <1>2, NoExecution, DocUpdates
<1> QED BY <1>1, <1>3, PutKeeps DEF Points

-----------------------------------------------------------------------------
LEMMA InitType == Init => TypeOK /\ Drawn
<1> SUFFICES ASSUME Init PROVE TypeOK /\ Drawn
  OBVIOUS
<1>1. task \in [Tasks -> Task] /\ store \in [Mcps -> Doc]
  BY EmptyDoc, IdleTask DEF Init
<1>2. \A t \in Tasks : task[t].pc = "idle"
  BY DEF Init, Idle
<1>3. \A m \in Mcps : store[m] = NoDoc
  BY DEF Init
<1> QED BY <1>1, <1>2, <1>3, NoExecution DEF Init, TypeOK, Drawn

LEMMA StepType == TypeOK /\ Drawn /\ [Next]_vars => TypeOK' /\ Drawn'
<1> SUFFICES ASSUME TypeOK, Drawn, [Next]_vars
             PROVE  TypeOK' /\ Drawn'
  OBVIOUS
<1> USE DEF outside
<1>1. \A t \in Tasks : task[t] \in Task /\ task[t].rec \in Doc /\ task[t].n \in Executions
                       /\ task[t].list \in SUBSET (Mcps \X Executions)
  BY DEF TypeOK, Task
<1>2. \A m \in Mcps : store[m] \in Doc
  BY DEF TypeOK
<1>3. \A t \in Tasks : task[t].pc # "idle" => Mine(t) \in Mcps \X Executions
  BY <1>1, OwnRun DEF Mine, Doc
<1>4. ASSUME NEW t \in Tasks, NEW m \in Mcps, Create(t, m)
      PROVE  TypeOK' /\ Drawn'
  <2>1. runs + 1 \in Executions /\ runs' = runs + 1
    BY <1>4, MaxRunsAssumption DEF Create, Executions, TypeOK
  <2>0. PICK wait \in BOOLEAN :
          /\ task' = [task EXCEPT ![t] =
               [Idle EXCEPT !.pc = "begin", !.mcp = m, !.n = runs + 1, !.waits = wait,
                            !.rec = Announced]]
          /\ store' = IF wait THEN store ELSE [store EXCEPT ![m] = Announced]
    BY <1>4 DEF Create
  <2> DEFINE p == [Idle EXCEPT !.pc = "begin", !.mcp = m, !.n = runs + 1, !.waits = wait,
                               !.rec = Announced]
  <2>2. p \in Task /\ p.mcp = m
    BY <2>1, EmptyDoc, IdleTask DEF Task, Points
  <2>3. \A u \in Tasks : task'[u] = IF u = t THEN p ELSE task[u]
    BY <2>0 DEF TypeOK
  <2>4. task' \in [Tasks -> Task]
    BY <2>0, <2>2, <1>1 DEF TypeOK
  <2>5. store' \in [Mcps -> Doc] /\ (\A k \in Mcps : store'[k] = store[k] \/ k = m)
    BY <2>0, EmptyDoc DEF TypeOK
  <2>6. used' = used \union {m}
    BY <1>4 DEF Create
  <2> HIDE DEF p
  <2>7. Drawn'
    BY <2>2, <2>3, <2>5, <2>6 DEF Drawn
  <2> QED BY <1>4, <2>1, <2>4, <2>5, <2>6, <2>7 DEF Create, TypeOK
<1>5. ASSUME NEW t \in Tasks, NEW m \in Mcps, Resume(t, m)
      PROVE  TypeOK' /\ Drawn'
  <2>1. runs + 1 \in Executions /\ runs' = runs + 1
    BY <1>5, MaxRunsAssumption DEF Resume, Executions, TypeOK
  <2>2. PICK wait \in BOOLEAN : task' = [task EXCEPT ![t] =
         [Idle EXCEPT !.pc = IF wait THEN "begin" ELSE "resume",
                      !.mcp = m, !.n = runs + 1, !.waits = wait, !.rec = store[m]]]
    BY <1>5 DEF Resume
  <2> DEFINE p == [Idle EXCEPT !.pc = IF wait THEN "begin" ELSE "resume",
                      !.mcp = m, !.n = runs + 1, !.waits = wait, !.rec = store[m]]
  <2>3. p \in Task /\ p.mcp = m
    BY <2>1, <1>2, IdleTask DEF Task, Points
  <2>4. m \in used
    BY <1>5 DEF Resume, Resumable, NoDoc, Drawn
  <2>5. task' = [task EXCEPT ![t] = p]
    BY <2>2
  <2> HIDE DEF p
  <2>6. store' \in [Mcps -> Doc] /\ task' \in [Tasks -> Task]
        /\ clobbered' \subseteq Mcps /\ Drawn'
    BY <1>5, <2>3, <2>4, <2>5, MoveKeeps DEF Resume
  <2> QED BY <1>5, <2>1, <2>6 DEF Resume, TypeOK
<1>6. ASSUME NEW t \in Tasks, NEW m \in Mcps, Diagnose(t, m)
      PROVE  TypeOK' /\ Drawn'
  <2> DEFINE p == [Idle EXCEPT !.pc = "diagnose", !.mcp = m,
                    !.rec = [store[m] EXCEPT !.diagnosis = store[m].error]]
  <2>1. p \in Task /\ p.mcp = m
    BY <1>2, IdleTask, DocUpdates DEF Task, Points
  <2>2. m \in used
    BY <1>6 DEF Diagnose, Diagnosable, NoDoc, Drawn
  <2>3. task' = [task EXCEPT ![t] = p]
    BY <1>6 DEF Diagnose
  <2> HIDE DEF p
  <2>4. store' \in [Mcps -> Doc] /\ task' \in [Tasks -> Task]
        /\ clobbered' \subseteq Mcps /\ Drawn'
    BY <1>6, <2>1, <2>2, <2>3, MoveKeeps DEF Diagnose
  <2> QED BY <1>6, <2>4 DEF Diagnose, TypeOK
<1>7. ASSUME NEW t \in Tasks, NEW m \in Mcps, Delete(t, m)
      PROVE  TypeOK' /\ Drawn'
  <2> DEFINE p == [Idle EXCEPT !.pc = IF store[m].collection # 0 THEN "detach" ELSE "remove",
                               !.mcp = m,
                               !.rec = [NoDoc EXCEPT !.collection = store[m].collection]]
  <2>1. p \in Task /\ p.mcp = m
    <3>1. store[m].collection \in Executions
      BY <1>2 DEF Doc
    <3>2. [NoDoc EXCEPT !.collection = store[m].collection] \in Doc
      BY <3>1, EmptyDoc, DocUpdates
    <3> QED BY <3>2, IdleTask DEF Task, Points
  <2>2. m \in used
    BY <1>7 DEF Delete, Drawn
  <2>3. task' = [task EXCEPT ![t] = p]
    BY <1>7 DEF Delete
  <2> HIDE DEF p
  <2>4. store' \in [Mcps -> Doc] /\ task' \in [Tasks -> Task]
        /\ clobbered' \subseteq Mcps /\ Drawn'
    BY <1>7, <2>1, <2>2, <2>3, MoveKeeps DEF Delete
  <2> QED BY <1>7, <2>4 DEF Delete, TypeOK
<1>8. ASSUME NEW t \in Tasks, Announce(t)
      PROVE  TypeOK' /\ Drawn'
  <2>1. store' \in [Mcps -> Doc] /\ task' \in [Tasks -> Task]
        /\ clobbered' \subseteq Mcps /\ Drawn'
    BY <1>8, <1>1, DocUpdates, PutKeeps DEF Announce, Points
  <2> QED BY <1>8, <2>1 DEF Announce, TypeOK
<1>9. ASSUME NEW t \in Tasks, Begin(t)
      PROVE  TypeOK' /\ Drawn'
  <2>1. store' \in [Mcps -> Doc] /\ task' \in [Tasks -> Task]
        /\ clobbered' \subseteq Mcps /\ Drawn'
    BY <1>9, <1>1, DocUpdates, PutKeeps DEF Begin, Points, Executing
  <2> QED BY <1>9, <2>1 DEF Begin, TypeOK
<1>10. ASSUME NEW t \in Tasks, Deploy(t)
       PROVE  TypeOK' /\ Drawn'
  <2>1. task[t].pc # "idle" /\ UNCHANGED used
    BY <1>10 DEF Deploy
  <2>2. [task[t].rec EXCEPT !.service = TRUE] \in Doc /\ "deployed" \in Points
    BY <1>1, DocUpdates DEF Points, Executing
  <2>3. services' \subseteq Mcps
    BY <1>10, <2>1, OwnRun DEF Deploy, TypeOK
  <2>4. Goes(t, [task[t].rec EXCEPT !.service = TRUE], "deployed") \/ Failed(t)
    BY <1>10 DEF Deploy
  <2>5. store' \in [Mcps -> Doc] /\ task' \in [Tasks -> Task]
        /\ clobbered' \subseteq Mcps /\ Drawn'
    BY <2>1, <2>2, <2>4, GoesKeeps, FailedKeeps
  <2> QED BY <1>10, <2>3, <2>5 DEF Deploy, TypeOK
<1>11. ASSUME NEW t \in Tasks, Connect(t)
       PROVE  TypeOK' /\ Drawn'
  <2>1. task[t].pc # "idle" /\ UNCHANGED used
    BY <1>11 DEF Connect
  <2>2. CollectionOf(t) \in Executions
    BY <1>1 DEF CollectionOf, Doc
  <2>3. [task[t].rec EXCEPT !.collection = CollectionOf(t)] \in Doc /\ "connected" \in Points
    BY <1>1, <2>2, DocUpdates DEF Points, Executing
  <2>4. collections' \subseteq Mcps \X Executions
    BY <1>11, <2>1, <2>2, OwnRun DEF Connect, TypeOK
  <2>5. Goes(t, [task[t].rec EXCEPT !.collection = CollectionOf(t)], "connected") \/ Failed(t)
    BY <1>11 DEF Connect
  <2>6. store' \in [Mcps -> Doc] /\ task' \in [Tasks -> Task]
        /\ clobbered' \subseteq Mcps /\ Drawn'
    BY <2>1, <2>3, <2>5, GoesKeeps, FailedKeeps
  <2> QED BY <1>11, <2>4, <2>6 DEF Connect, TypeOK
<1>12. ASSUME NEW t \in Tasks, PublishStage(t) \/ Conclude(t)
       PROVE  TypeOK' /\ Drawn'
  <2>1. task[t].pc # "idle" /\ UNCHANGED used
    BY <1>12 DEF PublishStage, Conclude
  <2>2. PICK rec \in Doc, to \in Points : Put(t, rec, to)
    BY <1>12, <1>1, DocUpdates DEF PublishStage, Conclude, Points, Executing
  <2>3. store' \in [Mcps -> Doc] /\ task' \in [Tasks -> Task]
        /\ clobbered' \subseteq Mcps /\ Drawn'
    BY <2>1, <2>2, PutKeeps
  <2> QED BY <1>12, <2>3 DEF PublishStage, Conclude, TypeOK
<1>13. ASSUME NEW t \in Tasks, Attach(t)
       PROVE  TypeOK' /\ Drawn'
  <2>1. task[t].pc # "idle" /\ UNCHANGED used
    BY <1>13 DEF Attach
  <2>2. CASE Failed(t)
    <3>1. store' \in [Mcps -> Doc] /\ task' \in [Tasks -> Task]
          /\ clobbered' \subseteq Mcps /\ Drawn'
      BY <2>1, <2>2, FailedKeeps
    <3> QED BY <1>13, <3>1 DEF Attach, TypeOK
  <2>3. CASE ReadList(t, Mine(t) \in engine, "attached", "patch")
             /\ UNCHANGED <<store, clobbered>>
    <3>1. PICK to \in Points, l \in SUBSET (Mcps \X Executions) :
            task' = [task EXCEPT ![t] = [@ EXCEPT !.pc = to, !.list = l]]
      BY <2>3 DEF ReadList, Points, Executing, TypeOK
    <3>2. store' \in [Mcps -> Doc] /\ task' \in [Tasks -> Task]
          /\ clobbered' \subseteq Mcps /\ Drawn'
      BY <2>1, <2>3, <3>1, ListKeeps
    <3> QED BY <1>13, <3>2 DEF Attach, TypeOK
  <2> QED BY <1>13, <2>2, <2>3 DEF Attach
<1>14. ASSUME NEW t \in Tasks, Patch(t)
       PROVE  TypeOK' /\ Drawn'
  <2>1. task[t].pc # "idle" /\ UNCHANGED used
    BY <1>14 DEF Patch
  <2>2. CASE Failed(t) /\ UNCHANGED <<engine, raced>>
    <3>1. store' \in [Mcps -> Doc] /\ task' \in [Tasks -> Task]
          /\ clobbered' \subseteq Mcps /\ Drawn'
      BY <2>1, <2>2, FailedKeeps
    <3> QED BY <1>14, <2>2, <3>1 DEF Patch, TypeOK
  <2>3. CASE /\ WriteList(t, task[t].list \union {Mine(t)})
             /\ ListWritten(t, "attached") /\ UNCHANGED <<store, clobbered>>
    <3>1. store' \in [Mcps -> Doc] /\ task' \in [Tasks -> Task]
          /\ clobbered' \subseteq Mcps /\ Drawn'
      <4>1. {} \in SUBSET (Mcps \X Executions) /\ "attached" \in Points
        BY DEF Points, Executing
      <4>2. task' = [task EXCEPT ![t] = [@ EXCEPT !.pc = "attached", !.list = {}]]
        BY <2>3 DEF ListWritten
      <4> QED BY <2>1, <2>3, <4>1, <4>2, ListKeeps
    <3>2. engine' \subseteq Mcps \X Executions /\ raced' \in BOOLEAN
      BY <1>1, <1>3, <2>1, <2>3 DEF WriteList, TypeOK
    <3> QED BY <1>14, <3>1, <3>2 DEF Patch, TypeOK
  <2> QED BY <1>14, <2>2, <2>3 DEF Patch
<1>15. ASSUME NEW t \in Tasks, Final(t)
       PROVE  TypeOK' /\ Drawn'
  <2>1. task[t].pc # "idle" /\ task[t].mcp \in Mcps /\ UNCHANGED used
    BY <1>15, OwnRun DEF Final
  <2>2. Crashed(store[task[t].mcp], task[t].n) \in Doc /\ "rescue" \in Points
    BY <1>1, <1>2, <2>1, DocUpdates DEF Points
  <2>3. store' \in [Mcps -> Doc] /\ task' \in [Tasks -> Task]
        /\ clobbered' \subseteq Mcps /\ Drawn'
    BY <1>15, <1>1, <2>1, <2>2, LeaveKeeps, GiveUpKeeps, GoesKeeps DEF Final
  <2> QED BY <1>15, <2>3 DEF Final, TypeOK
<1>16. ASSUME NEW t \in Tasks, Rescue(t) \/ CacheDiagnosis(t)
       PROVE  TypeOK' /\ Drawn'
  <2>1. task[t].pc # "idle" /\ UNCHANGED used
    BY <1>16 DEF Rescue, CacheDiagnosis
  <2>2. store' \in [Mcps -> Doc] /\ task' \in [Tasks -> Task]
        /\ clobbered' \subseteq Mcps /\ Drawn'
    BY <1>16, <1>1, <2>1, LeaveKeeps, GiveUpKeeps DEF Rescue, CacheDiagnosis
  <2> QED BY <1>16, <2>2 DEF Rescue, CacheDiagnosis, TypeOK
<1>17. ASSUME NEW t \in Tasks, Detach(t)
       PROVE  TypeOK' /\ Drawn'
  <2>1. task[t].pc # "idle" /\ UNCHANGED used
    BY <1>17 DEF Detach
  <2>2. PICK to \in Points, l \in SUBSET (Mcps \X Executions) :
          task' = [task EXCEPT ![t] = [@ EXCEPT !.pc = to, !.list = l]]
    BY <1>17 DEF Detach, ReadList, Points, TypeOK
  <2>3. store' \in [Mcps -> Doc] /\ task' \in [Tasks -> Task]
        /\ clobbered' \subseteq Mcps /\ Drawn'
    BY <1>17, <2>1, <2>2, ListKeeps DEF Detach
  <2> QED BY <1>17, <2>3 DEF Detach, TypeOK
<1>18. ASSUME NEW t \in Tasks, Unpatch(t)
       PROVE  TypeOK' /\ Drawn'
  <2>1. task[t].pc # "idle" /\ UNCHANGED used
    BY <1>18 DEF Unpatch
  <2>2. store' \in [Mcps -> Doc] /\ task' \in [Tasks -> Task]
        /\ clobbered' \subseteq Mcps /\ Drawn'
    <3>1. {} \in SUBSET (Mcps \X Executions) /\ "remove" \in Points
      BY DEF Points
    <3>2. task' = [task EXCEPT ![t] = [@ EXCEPT !.pc = "remove", !.list = {}]]
      BY <1>18 DEF Unpatch, ListWritten
    <3>3. UNCHANGED <<store, used, clobbered>>
      BY <1>18 DEF Unpatch
    <3> QED BY <2>1, <3>1, <3>2, <3>3, ListKeeps
  <2>3. engine' \subseteq Mcps \X Executions /\ raced' \in BOOLEAN
    BY <1>18, <1>1 DEF Unpatch, WriteList, Detached, TypeOK
  <2> QED BY <1>18, <2>2, <2>3 DEF Unpatch, TypeOK
<1>19. ASSUME NEW t \in Tasks, Remove(t)
       PROVE  TypeOK' /\ Drawn'
  <2>1. task[t].pc # "idle" /\ UNCHANGED used
    BY <1>19 DEF Remove
  <2>2. store' \in [Mcps -> Doc] /\ task' \in [Tasks -> Task]
        /\ clobbered' \subseteq Mcps /\ Drawn'
    BY <1>19, <2>1, EmptyDoc, GoesKeeps DEF Remove, Points
  <2> QED BY <1>19, <2>2 DEF Remove, TypeOK
<1>20. ASSUME NEW t \in Tasks, Forget(t)
       PROVE  TypeOK' /\ Drawn'
  <2>1. store' \in [Mcps -> Doc] /\ task' \in [Tasks -> Task]
        /\ clobbered' \subseteq Mcps /\ Drawn'
    BY <1>20, EmptyDoc, LeaveKeeps DEF Forget
  <2>2. task[t].mcp \in Mcps
    BY <1>20, OwnRun DEF Forget
  <2> QED BY <1>20, <2>1, <2>2 DEF Forget, TypeOK
<1>21. CASE UNCHANGED vars
  BY <1>21 DEF vars, TypeOK, Drawn
<1> QED BY <1>4, <1>5, <1>6, <1>7, <1>8, <1>9, <1>10, <1>11, <1>12, <1>13, <1>14,
           <1>15, <1>16, <1>17, <1>18, <1>19, <1>20, <1>21
        DEF Next, Execute, Handle, Arrive

\* The variables hold what their declarations say, in every behaviour of any
\* number of handlers (the handlers of main.py over the store of records.py).
THEOREM HandlersTypeCorrect == Spec => []TypeOK
<1>1. Spec => [](TypeOK /\ Drawn)
  BY InitType, StepType, PTL DEF Spec
<1> QED BY <1>1, PTL

LEMMA DrawnAlways == Spec => [](TypeOK /\ Drawn)
BY InitType, StepType, PTL DEF Spec

-----------------------------------------------------------------------------
(***************************************************************************)
(* The exclusion of two executions.  HandlersInv is inductive with the     *)
(* types: one lemma for each way a handler moves.                          *)
(***************************************************************************)
\* A handler writes the document and goes on.
LEMMA PutExcludes ==
  ASSUME TypeOK, HandlersInv, NEW t \in Tasks, NEW rec \in Doc, NEW to \in Points,
         task[t].pc \in Executing \union {"resume", "begin"}, Put(t, rec, to),
         to \in Executing => rec.state = "RUNNING" /\ rec.error = 0
  PROVE  Told' /\ Alone'
<1> DEFINE m == task[t].mcp
<1>1. m \in Mcps
  BY OwnRun DEF HandlersInv, Executing
<1>a. Puts(t, rec, to)
  BY <1>1, PutEntries
<1>2. clobbered \subseteq clobbered'
      /\ (m \notin clobbered' => task[t].current /\ m \notin clobbered)
  BY DEF Put, Unseen
<1>3. ASSUME NEW u \in Tasks \ {t}, task[u].mcp = m, m \notin clobbered'
      PROVE  task[u].pc \notin Executing
  <2>1. task[t].pc \in Executing \/ Holding(task[t])
    BY <1>2, <1>3 DEF Holding
  <2> QED BY <1>2, <1>3, <2>1 DEF HandlersInv, Alone
<1>4. /\ task'[t].pc = to /\ task'[t].rec = rec /\ task'[t].mcp = m
      /\ task'[t].current = TRUE /\ store'[m] = rec
  <2>1. store'[m] = rec
    BY <1>a DEF Puts
  <2>2. task'[t].pc = to /\ task'[t].rec = rec /\ task'[t].mcp = m
    BY <1>a DEF Puts
  <2>3. task'[t].current = TRUE
    BY <1>a DEF Puts
  <2> QED BY <2>1, <2>2, <2>3
<1>5. \A k \in Mcps \ {m} : store'[k] = store[k]
  BY <1>a DEF Puts
<1>6. \A u \in Tasks \ {t} :
        /\ task'[u].pc = task[u].pc /\ task'[u].rec = task[u].rec
        /\ task'[u].mcp = task[u].mcp
        /\ task'[u].current = (task[u].current /\ task[u].mcp # m)
  BY <1>a DEF Puts
<1>7. \A u \in Tasks : task[u].pc \in Executing => task[u].mcp \in Mcps
  BY OwnRun DEF HandlersInv, Executing
<1> HIDE DEF m
<1>8. Told'
  <2> SUFFICES ASSUME NEW u \in Tasks, task'[u].pc \in Executing
               PROVE  /\ task'[u].rec.state = "RUNNING" /\ task'[u].rec.error = 0
                      /\ task'[u].mcp \notin clobbered' =>
                           \/ /\ task'[u].current
                              /\ store'[task'[u].mcp].state = "RUNNING"
                              /\ store'[task'[u].mcp].error = 0
                           \/ ~task'[u].current /\ store'[task'[u].mcp] = NoDoc
    BY DEF Told
  <2>1. CASE u = t
    BY <2>1, <1>4
  <2>2. CASE u # t /\ task[u].mcp = m
    BY <2>2, <1>3, <1>6 DEF HandlersInv, Told
  <2>3. CASE u # t /\ task[u].mcp # m
    <3>1. task[u].pc \in Executing /\ store'[task[u].mcp] = store[task[u].mcp]
      BY <2>3, <1>5, <1>6, <1>7
    <3>2. task[u].current \in BOOLEAN
      BY DEF TypeOK, Task
    <3>3. /\ task'[u].current = task[u].current /\ task'[u].mcp = task[u].mcp
          /\ task'[u].rec = task[u].rec /\ task[u].pc \in Executing
      BY <2>3, <3>2, <1>6
    <3>4. task[u].mcp \notin clobbered' => task[u].mcp \notin clobbered
      BY <1>2
    <3> QED BY <3>1, <3>3, <3>4 DEF HandlersInv, Told
  <2> QED BY <2>1, <2>2, <2>3
<1>9. Alone'
  <2> SUFFICES ASSUME NEW u \in Tasks, NEW v \in Tasks, u # v,
                      task'[u].mcp = task'[v].mcp, task'[u].mcp \notin clobbered',
                      task'[u].pc \in Executing
               PROVE  task'[v].pc \notin Executing /\ ~Holding(task'[v])
    BY DEF Alone, Holding
  <2>1. CASE u = t
    BY <2>1, <1>3, <1>4, <1>6 DEF Holding
  <2>2. CASE v = t
    BY <2>2, <1>3, <1>4, <1>6
  <2>3. CASE u # t /\ v # t
    BY <2>3, <1>2, <1>6 DEF HandlersInv, Alone, Holding
  <2> QED BY <2>1, <2>2, <2>3
<1> QED BY <1>8, <1>9

\* A handler writes the document, or deletes it, and is done.
LEMMA LeaveExcludes ==
  ASSUME TypeOK, HandlersInv, NEW t \in Tasks, NEW rec \in Doc,
         PutAndLeave(t, rec), task[t].pc # "idle",
         task[t].pc \in {"final", "rescue", "diagnose"} \/ rec = NoDoc,
         task[t].pc \notin Executing
  PROVE  Told' /\ Alone'
<1> DEFINE m == task[t].mcp
<1>1. m \in Mcps
  BY OwnRun DEF HandlersInv
<1>a. Leaves(t, rec)
  BY <1>1, LeaveEntries
<1>2. clobbered \subseteq clobbered'
      /\ (m \notin clobbered' => task[t].current /\ m \notin clobbered)
  BY DEF PutAndLeave, Unseen
<1>3. ASSUME NEW u \in Tasks \ {t}, task[u].mcp = m, m \notin clobbered', rec # NoDoc
      PROVE  task[u].pc \notin Executing
  <2>1. Holding(task[t])
    BY <1>2, <1>3 DEF Holding
  <2> QED BY <1>2, <1>3, <2>1 DEF HandlersInv, Alone
<1>4. task'[t] = Idle /\ store'[m] = rec
  BY <1>a DEF Leaves
<1>5. \A k \in Mcps \ {m} : store'[k] = store[k]
  BY <1>a DEF Leaves
<1>6. \A u \in Tasks \ {t} :
        /\ task'[u].pc = task[u].pc /\ task'[u].rec = task[u].rec
        /\ task'[u].mcp = task[u].mcp
        /\ task'[u].current = (task[u].current /\ task[u].mcp # m)
  BY <1>a DEF Leaves
<1>7. \A u \in Tasks : task[u].pc \in Executing => task[u].mcp \in Mcps
  BY OwnRun DEF HandlersInv, Executing
<1>8. Idle.pc \notin Executing /\ ~Holding(Idle)
  BY DEF Idle, Executing, Holding
<1> HIDE DEF m
<1>9. Told'
  <2> SUFFICES ASSUME NEW u \in Tasks, task'[u].pc \in Executing
               PROVE  /\ task'[u].rec.state = "RUNNING" /\ task'[u].rec.error = 0
                      /\ task'[u].mcp \notin clobbered' =>
                           \/ /\ task'[u].current
                              /\ store'[task'[u].mcp].state = "RUNNING"
                              /\ store'[task'[u].mcp].error = 0
                           \/ ~task'[u].current /\ store'[task'[u].mcp] = NoDoc
    BY DEF Told
  <2>1. u # t /\ task[u].pc \in Executing
    BY <1>4, <1>6, <1>8
  <2>2. CASE task[u].mcp = m
    BY <2>1, <2>2, <1>3, <1>4, <1>6 DEF HandlersInv, Told
  <2>3. CASE task[u].mcp # m
    <3>1. store'[task[u].mcp] = store[task[u].mcp]
      BY <2>1, <2>3, <1>5, <1>7
    <3>2. task[u].current \in BOOLEAN
      BY DEF TypeOK, Task
    <3>3. /\ task'[u].current = task[u].current /\ task'[u].mcp = task[u].mcp
          /\ task'[u].rec = task[u].rec /\ task[u].pc \in Executing
      BY <2>1, <2>3, <3>2, <1>6
    <3>4. task[u].mcp \notin clobbered' => task[u].mcp \notin clobbered
      BY <1>2
    <3> QED BY <3>1, <3>3, <3>4 DEF HandlersInv, Told
  <2> QED BY <2>2, <2>3
<1>10. Alone'
  <2> SUFFICES ASSUME NEW u \in Tasks, NEW v \in Tasks, u # v,
                      task'[u].mcp = task'[v].mcp, task'[u].mcp \notin clobbered',
                      task'[u].pc \in Executing
               PROVE  task'[v].pc \notin Executing /\ ~Holding(task'[v])
    BY DEF Alone, Holding
  <2>1. u # t
    BY <1>4, <1>8
  <2>2. CASE v = t
    BY <2>2, <1>4, <1>8
  <2>3. CASE v # t
    BY <2>1, <2>3, <1>2, <1>6 DEF HandlersInv, Alone, Holding
  <2> QED BY <2>2, <2>3
<1> QED BY <1>9, <1>10

\* A handler that is no execution moves: it does not come to hold a fresh copy
\* of a run that is executed, and no executed run's document changes.
LEMMA MoveExcludes ==
  ASSUME TypeOK, HandlersInv, NEW t \in Tasks, NEW p,
         p.pc \notin Executing, task' = [task EXCEPT ![t] = p], UNCHANGED clobbered,
         \A u \in Tasks \ {t} : task[u].pc \in Executing =>
           /\ store'[task[u].mcp] = store[task[u].mcp]
           /\ Holding(p) => task[u].mcp # p.mcp \/ p.mcp \in clobbered
  PROVE  Told' /\ Alone'
<1>1. \A u \in Tasks : task'[u] = IF u = t THEN p ELSE task[u]
  BY DEF TypeOK
<1>2. Told'
  BY <1>1 DEF HandlersInv, Told
<1>3. Alone'
  <2> SUFFICES ASSUME NEW u \in Tasks, NEW v \in Tasks, u # v,
                      task'[u].mcp = task'[v].mcp, task'[u].mcp \notin clobbered',
                      task'[u].pc \in Executing
               PROVE  task'[v].pc \notin Executing /\ ~Holding(task'[v])
    BY DEF Alone, Holding
  <2>1. u # t /\ task'[u] = task[u]
    BY <1>1
  <2>2. CASE v = t
    BY <1>1, <2>1, <2>2 DEF Holding
  <2>3. CASE v # t
    BY <1>1, <2>1, <2>3 DEF HandlersInv, Alone, Holding
  <2> QED BY <2>2, <2>3
<1> QED BY <1>2, <1>3

\* An execution makes a call between two writes.
LEMMA CallExcludes ==
  ASSUME TypeOK, HandlersInv, NEW t \in Tasks, NEW p,
         task[t].pc \in Executing, p.pc \in Executing,
         p.mcp = task[t].mcp, p.current = task[t].current,
         p.rec.state = task[t].rec.state, p.rec.error = task[t].rec.error,
         task' = [task EXCEPT ![t] = p], UNCHANGED <<store, clobbered>>
  PROVE  Told' /\ Alone'
<1>1. \A u \in Tasks : task'[u] = IF u = t THEN p ELSE task[u]
  BY DEF TypeOK
<1>2. \A u \in Tasks :
        /\ task'[u].pc \in Executing <=> task[u].pc \in Executing
        /\ task'[u].mcp = task[u].mcp /\ task'[u].current = task[u].current
        /\ task'[u].rec.state = task[u].rec.state
        /\ task'[u].rec.error = task[u].rec.error
  BY <1>1
<1>3. Told'
  BY <1>2 DEF HandlersInv, Told
<1>4. \A u \in Tasks : Holding(task'[u]) => Holding(task[u])
  BY <1>1 DEF Holding, Executing
<1>5. Alone'
  BY <1>2, <1>4 DEF HandlersInv, Alone, Holding
<1> QED BY <1>3, <1>5

LEMMA FailedExcludes ==
  ASSUME TypeOK, HandlersInv, NEW t \in Tasks, task[t].pc \in Executing, Failed(t)
  PROVE  Told' /\ Alone'
<1>1. PICK known \in BOOLEAN :
        Put(t, [task[t].rec EXCEPT
              !.state = Outcome(task[t].rec),
              !.error = task[t].n,
              !.diagnosis = IF known THEN task[t].n ELSE 0],
            "final")
  BY DEF Failed
<1> DEFINE rec == [task[t].rec EXCEPT
              !.state = Outcome(task[t].rec),
              !.error = task[t].n,
              !.diagnosis = IF known THEN task[t].n ELSE 0]
<1>2. task[t].rec \in Doc /\ task[t].n \in Executions
  BY DEF TypeOK, Task
<1>3. rec \in Doc
  BY <1>2, NoExecution, DocUpdates
<1>4. "final" \in Points /\ "final" \notin Executing
  BY DEF Points, Executing
<1>5. Put(t, rec, "final")
  BY <1>1
<1> HIDE DEF rec
<1> QED BY <1>3, <1>4, <1>5, PutExcludes

LEMMA StepExcludes == TypeOK /\ HandlersInv /\ [Next]_vars => Told' /\ Alone'
<1> SUFFICES ASSUME TypeOK, HandlersInv, [Next]_vars
             PROVE  Told' /\ Alone'
  OBVIOUS
<1> USE DEF outside
<1>1. \A t \in Tasks : task[t] \in Task /\ task[t].rec \in Doc
  BY DEF TypeOK, Task
<1>2. \A m \in Mcps : store[m] \in Doc
  BY DEF TypeOK
<1>3. \A t \in Tasks : task[t].pc \in Executing =>
        /\ task[t].rec.state = "RUNNING" /\ task[t].rec.error = 0
        /\ task[t].mcp \in used
  BY OwnRun DEF HandlersInv, Told, Executing
\* A document that may be resumed or diagnosed is not that of an execution.
<1>4. \A u \in Tasks : task[u].pc \in Executing /\ task[u].mcp \notin clobbered =>
        /\ store[task[u].mcp].state \in {"RUNNING", "ABSENT"}
        /\ store[task[u].mcp].error = 0
  BY DEF HandlersInv, Told, NoDoc
<1>5. ASSUME NEW t \in Tasks, NEW m \in Mcps, Create(t, m)
      PROVE  Told' /\ Alone'
  <2>0. PICK wait \in BOOLEAN :
          /\ task' = [task EXCEPT ![t] =
               [Idle EXCEPT !.pc = "begin", !.mcp = m, !.n = runs + 1, !.waits = wait,
                            !.rec = Announced]]
          /\ store' = IF wait THEN store ELSE [store EXCEPT ![m] = Announced]
    BY <1>5 DEF Create
  <2> DEFINE p == [Idle EXCEPT !.pc = "begin", !.mcp = m, !.n = runs + 1, !.waits = wait,
                               !.rec = Announced]
  <2>1. p.pc \notin Executing /\ p.mcp = m
    BY DEF Idle, Executing
  <2>2. task' = [task EXCEPT ![t] = p] /\ UNCHANGED clobbered
    BY <1>5, <2>0 DEF Create
  <2>3. \A k \in Mcps \ {m} : store'[k] = store[k]
    BY <2>0 DEF TypeOK
  <2>4. \A u \in Tasks : task[u].pc \in Executing => task[u].mcp \in Mcps \ {m}
    BY <1>3, <1>5 DEF Create, TypeOK
  <2> HIDE DEF p
  <2> QED BY <2>1, <2>2, <2>3, <2>4, MoveExcludes
<1>6. ASSUME NEW t \in Tasks, NEW m \in Mcps, Resume(t, m)
      PROVE  Told' /\ Alone'
  <2>1. PICK wait \in BOOLEAN : task' = [task EXCEPT ![t] =
         [Idle EXCEPT !.pc = IF wait THEN "begin" ELSE "resume",
                      !.mcp = m, !.n = runs + 1, !.waits = wait, !.rec = store[m]]]
    BY <1>6 DEF Resume
  <2> DEFINE p == [Idle EXCEPT !.pc = IF wait THEN "begin" ELSE "resume",
                               !.mcp = m, !.n = runs + 1, !.waits = wait, !.rec = store[m]]
  <2>2. p.pc \notin Executing /\ p.mcp = m
    BY DEF Idle, Executing
  <2>3. task' = [task EXCEPT ![t] = p] /\ UNCHANGED <<store, clobbered>>
    BY <1>6, <2>1 DEF Resume
  <2>4. \A u \in Tasks : task[u].pc \in Executing => task[u].mcp # m \/ m \in clobbered
    BY <1>4, <1>6 DEF Resume, Resumable
  <2> HIDE DEF p
  <2> QED BY <2>2, <2>3, <2>4, MoveExcludes
<1>7. ASSUME NEW t \in Tasks, NEW m \in Mcps, Diagnose(t, m)
      PROVE  Told' /\ Alone'
  <2> DEFINE p == [Idle EXCEPT !.pc = "diagnose", !.mcp = m,
                               !.rec = [store[m] EXCEPT !.diagnosis = store[m].error]]
  <2>1. p.pc \notin Executing /\ p.mcp = m
    BY DEF Idle, Executing
  <2>2. task' = [task EXCEPT ![t] = p] /\ UNCHANGED <<store, clobbered>>
    BY <1>7 DEF Diagnose
  <2>3. \A u \in Tasks : task[u].pc \in Executing => task[u].mcp # m \/ m \in clobbered
    BY <1>4, <1>7 DEF Diagnose, Diagnosable
  <2> HIDE DEF p
  <2> QED BY <2>1, <2>2, <2>3, MoveExcludes
<1>8. ASSUME NEW t \in Tasks, NEW m \in Mcps, Delete(t, m)
      PROVE  Told' /\ Alone'
  <2> DEFINE p == [Idle EXCEPT !.pc = IF store[m].collection # 0 THEN "detach" ELSE "remove",
                               !.mcp = m,
                               !.rec = [NoDoc EXCEPT !.collection = store[m].collection]]
  <2>1. p.pc \in {"detach", "remove"}
    BY DEF Idle
  <2>2. task' = [task EXCEPT ![t] = p] /\ UNCHANGED <<store, clobbered>>
    BY <1>8 DEF Delete
  <2> HIDE DEF p
  <2>3. p.pc \notin Executing /\ ~Holding(p)
    BY <2>1 DEF Executing, Holding
  <2> QED BY <2>2, <2>3, MoveExcludes
<1>9. ASSUME NEW t \in Tasks, Announce(t)
      PROVE  Told' /\ Alone'
  <2>1. [task[t].rec EXCEPT !.state = "RUNNING"] \in Doc
    BY <1>1, DocUpdates
  <2>2. Put(t, [task[t].rec EXCEPT !.state = "RUNNING"], "begin")
        /\ "begin" \in Points /\ "begin" \notin Executing /\ task[t].pc = "resume"
    BY <1>9, KnownPoints DEF Announce
  <2> QED BY <2>1, <2>2, PutExcludes
<1>10. ASSUME NEW t \in Tasks, Begin(t)
       PROVE  Told' /\ Alone'
  <2>1. Cleared(task[t].rec) \in Doc
    BY <1>1, DocUpdates
  <2>3. Cleared(task[t].rec).state = "RUNNING" /\ Cleared(task[t].rec).error = 0
    BY <1>1 DEF Cleared, Doc
  <2>2. Put(t, Cleared(task[t].rec), "deploy") /\ "deploy" \in Points /\ task[t].pc = "begin"
    BY <1>10, KnownPoints DEF Begin
  <2> QED BY <2>1, <2>2, <2>3, PutExcludes
<1>11. ASSUME NEW t \in Tasks, Deploy(t)
       PROVE  Told' /\ Alone'
  <2>1. task[t].pc \in Executing
    BY <1>11 DEF Deploy, Executing
  <2>2. CASE Failed(t)
    BY <2>1, <2>2, FailedExcludes
  <2>3. CASE ~Failed(t)
    <3> DEFINE p == [task[t] EXCEPT !.pc = "deployed", !.rec = [task[t].rec EXCEPT !.service = TRUE]]
    <3>1. p.pc = "deployed" /\ p.rec = [task[t].rec EXCEPT !.service = TRUE]
          /\ p.mcp = task[t].mcp /\ p.current = task[t].current
      BY <1>1 DEF Task
    <3>2. p.rec.state = task[t].rec.state /\ p.rec.error = task[t].rec.error
      BY <1>1, <3>1 DEF Doc
    <3>3. task' = [task EXCEPT ![t] = p] /\ UNCHANGED <<store, clobbered>>
      BY <1>11, <2>3 DEF Deploy, Goes
    <3>4. p.pc \in Executing
      BY <3>1 DEF Executing
    <3> HIDE DEF p
    <3> QED BY <2>1, <3>1, <3>2, <3>3, <3>4, CallExcludes
  <2> QED BY <2>2, <2>3
<1>12. ASSUME NEW t \in Tasks, Connect(t)
       PROVE  Told' /\ Alone'
  <2>1. task[t].pc \in Executing
    BY <1>12 DEF Connect, Executing
  <2>2. CASE Failed(t)
    BY <2>1, <2>2, FailedExcludes
  <2>3. CASE ~Failed(t)
    <3> DEFINE p == [task[t] EXCEPT !.pc = "connected",
                                    !.rec = [task[t].rec EXCEPT !.collection = CollectionOf(t)]]
    <3>1. p.pc = "connected" /\ p.rec = [task[t].rec EXCEPT !.collection = CollectionOf(t)]
          /\ p.mcp = task[t].mcp /\ p.current = task[t].current
      BY <1>1 DEF Task
    <3>2. p.rec.state = task[t].rec.state /\ p.rec.error = task[t].rec.error
      BY <1>1, <3>1 DEF Doc
    <3>3. task' = [task EXCEPT ![t] = p] /\ UNCHANGED <<store, clobbered>>
      BY <1>12, <2>3 DEF Connect, Goes
    <3>4. p.pc \in Executing
      BY <3>1 DEF Executing
    <3> HIDE DEF p
    <3> QED BY <2>1, <3>1, <3>2, <3>3, <3>4, CallExcludes
  <2> QED BY <2>2, <2>3
<1>13. ASSUME NEW t \in Tasks, Attach(t) \/ Patch(t)
       PROVE  Told' /\ Alone'
  <2>1. task[t].pc \in Executing
    BY <1>13 DEF Attach, Patch, Executing
  <2>2. CASE Failed(t)
    BY <2>1, <2>2, FailedExcludes
  <2>3. CASE ~Failed(t)
    <3>1. PICK to \in Executing, l \in {{}, engine} :
            task' = [task EXCEPT ![t] = [@ EXCEPT !.pc = to, !.list = l]]
      BY <1>13, <2>3 DEF Attach, Patch, ReadList, ListWritten, Executing
    <3> DEFINE p == [task[t] EXCEPT !.pc = to, !.list = l]
    <3>2. p.pc = to /\ p.rec = task[t].rec
          /\ p.mcp = task[t].mcp /\ p.current = task[t].current
      BY <1>1 DEF Task
    <3>3. task' = [task EXCEPT ![t] = p] /\ UNCHANGED <<store, clobbered>>
      BY <1>13, <2>3, <3>1 DEF Attach, Patch, TypeOK
    <3> HIDE DEF p
    <3> QED BY <2>1, <3>1, <3>2, <3>3, CallExcludes
  <2> QED BY <2>2, <2>3
<1>14. ASSUME NEW t \in Tasks, PublishStage(t) \/ Conclude(t)
       PROVE  Told' /\ Alone'
  <2>1. task[t].pc \in Executing
    BY <1>14 DEF PublishStage, Conclude, Executing
  <2>2. CASE \E to \in {"connect", "attach", "wired"} : Put(t, task[t].rec, to)
    <3>1. {"connect", "attach", "wired"} \subseteq Points
      BY DEF Points, Executing
    <3> QED BY <1>1, <1>3, <2>1, <2>2, <3>1, PutExcludes
  <2>3. CASE \E s \in {"STOPPED", "READY"} : Put(t, [task[t].rec EXCEPT !.state = s], "final")
    <3>1. PICK s \in {"STOPPED", "READY"} : Put(t, [task[t].rec EXCEPT !.state = s], "final")
      BY <2>3
    <3>2. [task[t].rec EXCEPT !.state = s] \in Doc
      BY <1>1, <3>1, DocUpdates
    <3>3. "final" \in Points /\ "final" \notin Executing
      BY DEF Points, Executing
    <3> QED BY <2>1, <3>1, <3>2, <3>3, PutExcludes
  <2> QED BY <1>14, <2>2, <2>3 DEF PublishStage, Conclude
<1>15. ASSUME NEW t \in Tasks, Final(t) \/ Rescue(t) \/ CacheDiagnosis(t)
       PROVE  Told' /\ Alone'
  <2>1. /\ task[t].pc \in {"final", "rescue", "diagnose"} /\ task[t].pc \notin Executing
        /\ task[t].pc # "idle"
    BY <1>15 DEF Final, Rescue, CacheDiagnosis, Executing
  <2>2. CASE PutAndLeave(t, task[t].rec)
    BY <1>1, <2>1, <2>2, LeaveExcludes
  <2>3. CASE GiveUp(t)
    <3>1. Idle.pc \notin Executing /\ ~Holding(Idle)
      BY DEF Idle, Executing, Holding
    <3> QED BY <2>3, <3>1, MoveExcludes DEF GiveUp
  <2>4. CASE task[t].pc = "final"
             /\ Goes(t, Crashed(store[task[t].mcp], task[t].n), "rescue")
    <3> DEFINE p == [task[t] EXCEPT !.pc = "rescue",
                                    !.rec = Crashed(store[task[t].mcp], task[t].n)]
    <3>1. p.pc = "rescue" /\ p.mcp = task[t].mcp /\ p.current = task[t].current
      BY <1>1 DEF Task
    <3>2. task' = [task EXCEPT ![t] = p] /\ UNCHANGED <<store, clobbered>>
      BY <2>4 DEF Goes
    <3> HIDE DEF p
    <3>3. p.pc \notin Executing /\ (Holding(p) => Holding(task[t]))
      BY <2>4, <3>1 DEF Executing, Holding
    <3>4. \A u \in Tasks \ {t} : task[u].pc \in Executing /\ Holding(p) =>
            task[u].mcp # p.mcp \/ p.mcp \in clobbered
      BY <3>1, <3>3 DEF HandlersInv, Alone
    <3> QED BY <3>2, <3>3, <3>4, MoveExcludes
  <2> QED BY <1>15, <2>2, <2>3, <2>4 DEF Final, Rescue, CacheDiagnosis
<1>17. ASSUME NEW t \in Tasks, Detach(t) \/ Unpatch(t)
       PROVE  Told' /\ Alone'
  <2>1. PICK to \in {"remove", "unpatch"}, l \in {{}, engine} :
          task' = [task EXCEPT ![t] = [@ EXCEPT !.pc = to, !.list = l]]
    BY <1>17 DEF Detach, Unpatch, ReadList, ListWritten
  <2> DEFINE p == [task[t] EXCEPT !.pc = to, !.list = l]
  <2>2. p.pc = to
    BY <1>1 DEF Task
  <2>3. task' = [task EXCEPT ![t] = p] /\ UNCHANGED <<store, clobbered>>
    BY <1>17, <2>1 DEF Detach, Unpatch, TypeOK
  <2> HIDE DEF p
  <2>4. p.pc \notin Executing /\ ~Holding(p)
    BY <2>1, <2>2 DEF Executing, Holding
  <2> QED BY <2>3, <2>4, MoveExcludes
<1>18. ASSUME NEW t \in Tasks, Remove(t)
       PROVE  Told' /\ Alone'
  <2> DEFINE p == [task[t] EXCEPT !.pc = "forget", !.rec = NoDoc]
  <2>1. p.pc = "forget"
    BY <1>1 DEF Task
  <2>2. task' = [task EXCEPT ![t] = p] /\ UNCHANGED <<store, clobbered>>
    BY <1>18 DEF Remove, Goes
  <2> HIDE DEF p
  <2>3. p.pc \notin Executing /\ ~Holding(p)
    BY <2>1 DEF Executing, Holding
  <2> QED BY <2>2, <2>3, MoveExcludes
<1>19. ASSUME NEW t \in Tasks, Forget(t)
       PROVE  Told' /\ Alone'
  <2>1. task[t].pc = "forget" /\ "forget" \notin Executing /\ PutAndLeave(t, NoDoc)
    BY <1>19 DEF Forget, Executing
  <2> QED BY <2>1, EmptyDoc, LeaveExcludes
<1>20. CASE UNCHANGED vars
  BY <1>20 DEF vars, HandlersInv, Told, Alone, Holding
<1> QED BY <1>5, <1>6, <1>7, <1>8, <1>9, <1>10, <1>11, <1>12, <1>13, <1>14,
           <1>15, <1>17, <1>18, <1>19, <1>20
        DEF Next, Execute, Handle, Arrive

\* What resume_mcp's check and the order of the writes keep true, as long as no
\* document is written over unseen: an executed run's document is RUNNING
\* without an error, or gone, and nobody else has a fresh copy to write.
THEOREM HandlersExclude == Spec => []HandlersInv
<1>1. Init => HandlersInv
  <2> SUFFICES ASSUME Init PROVE HandlersInv
    OBVIOUS
  <2>1. \A t \in Tasks : task[t].pc \notin Executing
    BY DEF Init, Idle, Executing
  <2>2. Drawn
    BY InitType
  <2> QED BY <2>1, <2>2 DEF HandlersInv, Told, Alone
<1>2. TypeOK /\ HandlersInv /\ [Next]_vars => HandlersInv'
  BY StepExcludes, StepType DEF HandlersInv
<1> QED BY <1>1, <1>2, HandlersTypeCorrect, PTL DEF Spec

\* No two executions of one run, whatever the callers of create, resume,
\* diagnose and delete do, while no handler writes over what it has not seen.
THEOREM NoTwoExecutions == Spec => []OneExecution
<1>1. HandlersInv => OneExecution
  BY DEF HandlersInv, Alone, OneExecution
<1> QED BY <1>1, HandlersExclude, PTL

\* A caller that polls a run that is executed reads RUNNING, or that it is gone.
THEOREM PollerIsTold == Spec => []StateTells
<1>1. HandlersInv => StateTells
  BY DEF HandlersInv, Told, StateTells, NoDoc
<1> QED BY <1>1, HandlersExclude, PTL

-----------------------------------------------------------------------------
(***************************************************************************)
(* Copies.  What a handler holds in its hands is the document it read, up  *)
(* to its own changes, until somebody else writes; and what exists of a    *)
(* run is what the copy of the one writer at work on it names, or else the *)
(* document.  The first is an invariant of every run (CopiesInv), the      *)
(* second (Ledger) of a run whose writers come one after the other.        *)
(***************************************************************************)
\* Handlers that change what exists.  (An execution that has ended, its crash
\* handler and a diagnosis touch the document alone, and may leave without that.)
Writer(p) == p.pc \notin {"idle", "final", "rescue", "diagnose"}

Retriable == {"STOPPED", "PARTIAL", "FAILED"}

Deleting == {"detach", "unpatch", "remove", "forget"}

\* What a handler's copy has to do with the document it was read from, as long
\* as nobody else has written it.  `p' is the handler, d the document.
Faithful(p, d, gone) ==
  /\ p.pc = "resume" => p.rec = d /\ d.state \in Retriable
  /\ p.pc = "begin" =>
       \/ p.rec = d /\ d.state \in Retriable \union {"RUNNING"}
       \/ p.rec = Announced /\ d = NoDoc /\ p.mcp \notin gone
  /\ p.pc \in Executing =>
       (d.service => p.rec.service) /\ d.collection \in {0, p.rec.collection}
  /\ p.pc = "final" => p.rec = d
  /\ p.pc = "rescue" => /\ p.rec = Crashed(d, p.n) /\ d.error \in {0, p.n}
                        /\ d.state \in {"STOPPED", "READY", Outcome(d)}
  /\ p.pc = "diagnose" => /\ p.rec.state = d.state /\ p.rec.service = d.service
                          /\ p.rec.collection = d.collection
  /\ p.pc \in Deleting => d.state # "ABSENT"
  /\ p.pc \in {"detach", "unpatch", "remove"} => p.rec.collection = d.collection

\* What a handler's copy holds whatever the others have done.
Holds(p) ==
  /\ p.pc \notin {"idle"} \union Deleting => p.rec.state # "ABSENT"
  /\ p.pc \in {"resume", "begin"} \union Executing => p.n # 0
  /\ p.pc \in Executing \ {"deploy"} => p.rec.service
  /\ p.pc \in {"connected", "attach", "patch", "attached", "wired"} => p.rec.collection # 0
  /\ p.pc \in Executing => p.rec.diagnosis = 0
  /\ p.pc = "final" => /\ p.rec.state \in {"STOPPED", "READY", Outcome(p.rec)}
                       /\ p.rec.error \in {0, p.n}
  /\ p.pc = "diagnose" => p.rec.diagnosis = p.rec.error

CopiesInv ==
  /\ \A t \in Tasks : task[t].pc # "idle" =>
       Holds(task[t]) /\ (task[t].current => Faithful(task[t], store[task[t].mcp], forgotten))
  /\ \A m \in Mcps : store[m].state = "ABSENT" => store[m] = NoDoc
  /\ forgotten \subseteq used

\* Document d of run m names what exists of the run, and all of it.
Accounted(m, d, sv, co) ==
  /\ d.service <=> m \in sv
  /\ \A c \in Executions : <<m, c>> \in co <=> c # 0 /\ c = d.collection

\* What a handler p, alone at work on run m with document d, has done so far.
Accounts(m, p, d, sv, co, en) ==
  /\ p.pc \in {"resume", "begin"} \union Executing => Accounted(m, p.rec, sv, co)
  /\ p.pc \in {"detach", "unpatch", "remove"} => Accounted(m, d, sv, co)
  /\ p.pc = "remove" => p.rec.collection = 0 \/ <<m, p.rec.collection>> \notin en
  /\ p.pc = "forget" => Accounted(m, NoDoc, sv, co)
  /\ p.pc \in {"attached", "wired"} => <<m, p.rec.collection>> \in en

WorksOn(t, m) == Writer(task[t]) /\ task[t].mcp = m

\* Nothing was written over unseen, nor will be: at most one writer is at work
\* on m, with a fresh copy.
Orderly(m) ==
  /\ m \notin clobbered /\ ~raced
  /\ \A t \in Tasks : WorksOn(t, m) => task[t].current
  /\ \A t, u \in Tasks : WorksOn(t, m) /\ WorksOn(u, m) => t = u

\* The same of a run nobody works on; one that succeeded is on the app's list.
Filed(m, d, sv, co, en) ==
  /\ Accounted(m, d, sv, co)
  /\ d.state = "READY" => <<m, d.collection>> \in en

Books(m) ==
  Orderly(m) =>
    /\ \A t \in Tasks :
         WorksOn(t, m) => Accounts(m, task[t], store[m], services, collections, engine)
    /\ (\A t \in Tasks : ~WorksOn(t, m)) => Filed(m, store[m], services, collections, engine)

Ledger == \A m \in Mcps : Books(m)

LEMMA PutCopies ==
  ASSUME TypeOK, Drawn, CopiesInv, NEW t \in Tasks, NEW rec \in Doc, NEW to \in Points,
         task[t].pc # "idle", Put(t, rec, to), UNCHANGED <<used, forgotten>>,
         rec.state # "ABSENT",
         LET p == task'[t] IN
           p.pc = to /\ p.rec = rec /\ p.mcp = task[t].mcp /\ p.n = task[t].n
             => Holds(p) /\ Faithful(p, rec, forgotten)
  PROVE  CopiesInv'
<1> DEFINE m == task[t].mcp
<1>1. m \in Mcps
  BY OwnRun
<1>a. Puts(t, rec, to)
  BY <1>1, PutEntries
<1>2. /\ task'[t].pc = to /\ task'[t].rec = rec /\ task'[t].mcp = m /\ task'[t].n = task[t].n
      /\ store'[m] = rec /\ \A k \in Mcps \ {m} : store'[k] = store[k]
  BY <1>a DEF Puts
<1>3. \A u \in Tasks \ {t} :
        /\ task'[u].pc = task[u].pc /\ task'[u].rec = task[u].rec
        /\ task'[u].mcp = task[u].mcp /\ task'[u].n = task[u].n
        /\ task'[u].current = (task[u].current /\ task[u].mcp # m)
  BY <1>a DEF Puts
<1> HIDE DEF m
<1>4. ASSUME NEW u \in Tasks, task'[u].pc # "idle"
      PROVE  /\ Holds(task'[u])
             /\ task'[u].current => Faithful(task'[u], store'[task'[u].mcp], forgotten')
  <2>1. CASE u = t
    BY <1>2, <2>1 DEF m
  <2>2. CASE u # t
    <3>1. Holds(task[u]) /\ (task[u].current => Faithful(task[u], store[task[u].mcp], forgotten))
      BY <1>3, <1>4, <2>2 DEF CopiesInv
    <3>2. Holds(task'[u])
      BY <1>3, <2>2, <3>1 DEF Holds
    <3>3. ASSUME task'[u].current
          PROVE  Faithful(task'[u], store'[task'[u].mcp], forgotten')
      <4>1. task[u].mcp \in Mcps \ {m} /\ task[u].current
        BY <1>3, <1>4, <2>2, <3>3, OwnRun
      <4>2. Faithful(task[u], store[task[u].mcp], forgotten)
        BY <3>1, <4>1
      <4>3. store'[task'[u].mcp] = store[task[u].mcp]
        BY <1>2, <1>3, <2>2, <4>1
      <4> QED BY <1>3, <2>2, <4>2, <4>3 DEF Faithful
    <3> QED BY <3>2, <3>3
  <2> QED BY <2>1, <2>2
<1>5. \A k \in Mcps : store'[k].state = "ABSENT" => store'[k] = NoDoc
  BY <1>2 DEF CopiesInv
<1> QED BY <1>4, <1>5 DEF CopiesInv

LEMMA LeaveCopies ==
  ASSUME TypeOK, Drawn, CopiesInv, NEW t \in Tasks, NEW rec \in Doc,
         task[t].pc # "idle", PutAndLeave(t, rec), UNCHANGED used,
         forgotten' \in {forgotten, forgotten \union {task[t].mcp}},
         rec.state # "ABSENT" \/ rec = NoDoc
  PROVE  CopiesInv'
<1> DEFINE m == task[t].mcp
<1>1. m \in Mcps /\ m \in used
  BY OwnRun
<1>a. Leaves(t, rec)
  BY <1>1, LeaveEntries
<1>2. /\ task'[t] = Idle
      /\ store'[m] = rec /\ \A k \in Mcps \ {m} : store'[k] = store[k]
  BY <1>a DEF Leaves
<1>3. \A u \in Tasks \ {t} :
        /\ task'[u].pc = task[u].pc /\ task'[u].rec = task[u].rec
        /\ task'[u].mcp = task[u].mcp /\ task'[u].n = task[u].n
        /\ task'[u].current = (task[u].current /\ task[u].mcp # m)
  BY <1>a DEF Leaves
<1>g. forgotten' \in {forgotten, forgotten \union {m}}
  OBVIOUS
<1> HIDE DEF m
<1>4. ASSUME NEW u \in Tasks, task'[u].pc # "idle"
      PROVE  /\ Holds(task'[u])
             /\ task'[u].current => Faithful(task'[u], store'[task'[u].mcp], forgotten')
  <2>2. u # t
    BY <1>2, <1>4 DEF Idle
  <2>3. Holds(task[u]) /\ (task[u].current => Faithful(task[u], store[task[u].mcp], forgotten))
    BY <1>3, <1>4, <2>2 DEF CopiesInv
  <2>4. Holds(task'[u])
    BY <1>3, <2>2, <2>3 DEF Holds
  <2>5. ASSUME task'[u].current
        PROVE  Faithful(task'[u], store'[task'[u].mcp], forgotten')
    <3>1. task[u].mcp \in Mcps \ {m} /\ task[u].current
      BY <1>3, <1>4, <2>2, <2>5, OwnRun
    <3>2. Faithful(task[u], store[task[u].mcp], forgotten)
      BY <2>3, <3>1
    <3>3. store'[task'[u].mcp] = store[task[u].mcp]
      BY <1>2, <1>3, <2>2, <3>1
    <3>4. task[u].mcp \notin forgotten => task[u].mcp \notin forgotten'
      BY <1>g, <3>1
    <3> QED BY <1>3, <2>2, <3>2, <3>3, <3>4 DEF Faithful
  <2> QED BY <2>4, <2>5
<1>5. \A k \in Mcps : store'[k].state = "ABSENT" => store'[k] = NoDoc
  BY <1>2 DEF CopiesInv
<1>6. forgotten' \subseteq used'
  BY <1>1, <1>g DEF CopiesInv, m
<1> QED BY <1>4, <1>5, <1>6 DEF CopiesInv

\* A handler that only changes its own entry.
LEMMA MoveCopies ==
  ASSUME TypeOK, CopiesInv, NEW t \in Tasks, NEW p,
         task' = [task EXCEPT ![t] = p], UNCHANGED <<store, used, forgotten>>,
         p.pc # "idle" => Holds(p) /\ (p.current => Faithful(p, store[p.mcp], forgotten))
  PROVE  CopiesInv'
<1>1. \A u \in Tasks : task'[u] = IF u = t THEN p ELSE task[u]
  BY DEF TypeOK
<1>2. ASSUME NEW u \in Tasks, task'[u].pc # "idle"
      PROVE  /\ Holds(task'[u])
             /\ task'[u].current => Faithful(task'[u], store'[task'[u].mcp], forgotten')
  BY <1>1, <1>2 DEF CopiesInv
<1> QED BY <1>2 DEF CopiesInv

LEMMA FailedCopies ==
  ASSUME TypeOK, Drawn, CopiesInv, NEW t \in Tasks, task[t].pc # "idle", Failed(t),
         UNCHANGED <<used, forgotten>>
  PROVE  CopiesInv'
<1>1. PICK known \in BOOLEAN :
        Put(t, [task[t].rec EXCEPT
              !.state = Outcome(task[t].rec),
              !.error = task[t].n,
              !.diagnosis = IF known THEN task[t].n ELSE 0],
            "final")
  BY DEF Failed
<1> DEFINE rec == [task[t].rec EXCEPT
              !.state = Outcome(task[t].rec),
              !.error = task[t].n,
              !.diagnosis = IF known THEN task[t].n ELSE 0]
<1>2. task[t].rec \in Doc /\ task[t].n \in Executions
  BY DEF TypeOK, Task
<1>3. rec \in Doc /\ rec.state \in {"PARTIAL", "FAILED"} /\ rec.state = Outcome(rec)
      /\ rec.error = task[t].n
  <2>1. rec \in Doc
    BY <1>2, NoExecution, DocUpdates
  <2>2. /\ rec.state = Outcome(task[t].rec) /\ rec.service = task[t].rec.service
        /\ rec.error = task[t].n
    BY <1>2 DEF Doc
  <2> HIDE DEF rec
  <2> QED BY <2>1, <2>2 DEF Outcome
<1>4. Put(t, rec, "final")
  BY <1>1
<1> HIDE DEF rec
<1>5. \A p : p.pc = "final" /\ p.rec = rec /\ p.n = task[t].n
               => Holds(p) /\ Faithful(p, rec, forgotten)
  BY <1>3 DEF Holds, Faithful, Executing, Deleting
<1> QED BY <1>3, <1>4, <1>5, PutCopies DEF Points

LEMMA StepCopies == TypeOK /\ HandlersInv /\ CopiesInv /\ [Next]_vars => CopiesInv'
<1> SUFFICES ASSUME TypeOK, HandlersInv, CopiesInv, [Next]_vars
             PROVE  CopiesInv'
  OBVIOUS
<1> USE DEF outside
<1>0. Drawn
  BY DEF HandlersInv
<1>1. \A t \in Tasks : /\ task[t] \in Task /\ task[t].rec \in Doc /\ task[t].n \in Executions
                       /\ task[t].pc \in Executing =>
                            task[t].rec.state = "RUNNING" /\ task[t].rec.error = 0
  BY DEF TypeOK, Task, HandlersInv, Told
<1>2. \A m \in Mcps : store[m] \in Doc
  BY DEF TypeOK
<1>3. \A t \in Tasks : task[t].pc # "idle" =>
        Holds(task[t]) /\ (task[t].current => Faithful(task[t], store[task[t].mcp], forgotten))
  BY DEF CopiesInv
<1>4. ASSUME NEW t \in Tasks, NEW m \in Mcps, Create(t, m)
      PROVE  CopiesInv'
  <2>0. PICK wait \in BOOLEAN :
          /\ task' = [task EXCEPT ![t] =
               [Idle EXCEPT !.pc = "begin", !.mcp = m, !.n = runs + 1, !.waits = wait,
                            !.rec = Announced]]
          /\ store' = IF wait THEN store ELSE [store EXCEPT ![m] = Announced]
    BY <1>4 DEF Create
  <2> DEFINE p == [Idle EXCEPT !.pc = "begin", !.mcp = m, !.n = runs + 1, !.waits = wait,
                               !.rec = Announced]
  <2>1. /\ \A u \in Tasks : task'[u] = IF u = t THEN p ELSE task[u]
        /\ m \notin used /\ used' = used \union {m} /\ forgotten' = forgotten
    BY <1>4, <2>0 DEF Create, TypeOK
  <2>2. p.pc = "begin" /\ p.mcp = m /\ p.rec = Announced /\ p.n = runs + 1
    BY DEF Idle
  <2>3. p.n # 0 /\ Announced.state = "RUNNING" /\ Announced # NoDoc
    BY <2>2, MaxRunsAssumption DEF TypeOK, Executions, Announced, NoDoc
  <2> HIDE DEF p
  <2>4. store[m] = NoDoc /\ m \notin forgotten
    BY <2>1, <1>0 DEF Drawn, CopiesInv
  <2>5. /\ store'[m] \in {NoDoc, Announced} /\ \A k \in Mcps \ {m} : store'[k] = store[k]
    BY <2>0, <2>4 DEF TypeOK
  <2>6. Holds(p) /\ Faithful(p, store'[m], forgotten')
    BY <2>1, <2>2, <2>3, <2>4, <2>5 DEF Holds, Faithful, Executing, Deleting, Retriable
  <2>7. ASSUME NEW u \in Tasks, task'[u].pc # "idle"
        PROVE  Holds(task'[u])
               /\ (task'[u].current => Faithful(task'[u], store'[task'[u].mcp], forgotten'))
    <3>1. CASE u = t
      BY <2>1, <2>2, <2>6, <3>1
    <3>2. CASE u # t
      <4>1. task'[u] = task[u] /\ task[u].mcp \in Mcps \ {m}
        BY <1>0, <2>1, <2>7, <3>2, OwnRun
      <4> QED BY <1>3, <2>1, <2>5, <2>7, <4>1
    <3> QED BY <3>1, <3>2
  <2>8. \A k \in Mcps : store'[k].state = "ABSENT" => store'[k] = NoDoc
    BY <2>3, <2>5 DEF CopiesInv
  <2> QED BY <2>1, <2>7, <2>8 DEF CopiesInv
<1>5. ASSUME NEW t \in Tasks, NEW m \in Mcps, Resume(t, m)
      PROVE  CopiesInv'
  <2>1. PICK wait \in BOOLEAN : task' = [task EXCEPT ![t] =
         [Idle EXCEPT !.pc = IF wait THEN "begin" ELSE "resume",
                      !.mcp = m, !.n = runs + 1, !.waits = wait, !.rec = store[m]]]
    BY <1>5 DEF Resume
  <2> DEFINE p == [Idle EXCEPT !.pc = IF wait THEN "begin" ELSE "resume",
                               !.mcp = m, !.n = runs + 1, !.waits = wait, !.rec = store[m]]
  <2>2. p.pc \in {"begin", "resume"} /\ p.mcp = m /\ p.rec = store[m] /\ p.n = runs + 1
    BY DEF Idle
  <2>3. p.n # 0 /\ store[m].state \in Retriable
    BY <1>2, <1>5, <2>2, MaxRunsAssumption
    DEF TypeOK, Executions, Resume, Resumable, Retriable, Doc
  <2>4. task' = [task EXCEPT ![t] = p] /\ UNCHANGED <<store, used, forgotten>>
    BY <1>5, <2>1 DEF Resume
  <2> HIDE DEF p
  <2>5. Holds(p) /\ Faithful(p, store[p.mcp], forgotten)
    BY <2>2, <2>3 DEF Holds, Faithful, Executing, Deleting, Retriable
  <2> QED BY <2>4, <2>5, MoveCopies
<1>6. ASSUME NEW t \in Tasks, NEW m \in Mcps, Diagnose(t, m)
      PROVE  CopiesInv'
  <2> DEFINE p == [Idle EXCEPT !.pc = "diagnose", !.mcp = m,
                               !.rec = [store[m] EXCEPT !.diagnosis = store[m].error]]
  <2>1. /\ p.pc = "diagnose" /\ p.mcp = m /\ p.rec.state = store[m].state
        /\ p.rec.service = store[m].service /\ p.rec.collection = store[m].collection
        /\ p.rec.diagnosis = p.rec.error
    BY <1>2 DEF Idle, Doc
  <2>2. store[m].state # "ABSENT"
    BY <1>6 DEF Diagnose, Diagnosable, CopiesInv, NoDoc
  <2>3. task' = [task EXCEPT ![t] = p] /\ UNCHANGED <<store, used, forgotten>>
    BY <1>6 DEF Diagnose
  <2> HIDE DEF p
  <2>4. Holds(p) /\ Faithful(p, store[p.mcp], forgotten)
    BY <2>1, <2>2 DEF Holds, Faithful, Executing, Deleting
  <2> QED BY <2>3, <2>4, MoveCopies
<1>7. ASSUME NEW t \in Tasks, NEW m \in Mcps, Delete(t, m)
      PROVE  CopiesInv'
  <2> DEFINE p == [Idle EXCEPT !.pc = IF store[m].collection # 0 THEN "detach" ELSE "remove",
                               !.mcp = m,
                               !.rec = [NoDoc EXCEPT !.collection = store[m].collection]]
  <2>1. p.pc \in {"detach", "remove"} /\ p.mcp = m /\ p.rec.collection = store[m].collection
    BY DEF Idle, NoDoc
  <2>2. store[m].state # "ABSENT"
    BY <1>7 DEF Delete, CopiesInv
  <2>3. task' = [task EXCEPT ![t] = p] /\ UNCHANGED <<store, used, forgotten>>
    BY <1>7 DEF Delete
  <2> HIDE DEF p
  <2>4. Holds(p) /\ Faithful(p, store[p.mcp], forgotten)
    BY <2>1, <2>2 DEF Holds, Faithful, Executing, Deleting
  <2> QED BY <2>3, <2>4, MoveCopies
<1>8. ASSUME NEW t \in Tasks, Announce(t)
      PROVE  CopiesInv'
  <2> DEFINE r == [task[t].rec EXCEPT !.state = "RUNNING"]
  <2>1. r \in Doc /\ r.state = "RUNNING"
    <3>1. r \in Doc
      BY <1>1, DocUpdates
    <3>2. r.state = "RUNNING"
      BY <1>1 DEF Doc
    <3> QED BY <3>1, <3>2
  <2>2. Put(t, r, "begin") /\ "begin" \in Points /\ task[t].pc = "resume"
        /\ UNCHANGED <<used, forgotten>>
    BY <1>8, KnownPoints DEF Announce
  <2> HIDE DEF r
  <2>3. \A p : p.pc = "begin" /\ p.rec = r /\ p.n = task[t].n
                 => Holds(p) /\ Faithful(p, r, forgotten)
    BY <1>3, <2>1, <2>2 DEF Holds, Faithful, Executing, Deleting
  <2> QED BY <1>0, <2>1, <2>2, <2>3, PutCopies
<1>9. ASSUME NEW t \in Tasks, Begin(t)
      PROVE  CopiesInv'
  <2> DEFINE r == Cleared(task[t].rec)
  <2>1. r \in Doc /\ r.state = "RUNNING" /\ r.diagnosis = 0
    <3>1. r \in Doc
      BY <1>1, DocUpdates
    <3>2. r.state = "RUNNING" /\ r.diagnosis = 0
      BY <1>1 DEF Doc, Cleared
    <3> QED BY <3>1, <3>2
  <2>2. Put(t, r, "deploy") /\ "deploy" \in Points /\ task[t].pc = "begin"
        /\ UNCHANGED <<used, forgotten>>
    BY <1>9, KnownPoints DEF Begin
  <2> HIDE DEF r
  <2>3. \A p : p.pc = "deploy" /\ p.rec = r /\ p.n = task[t].n
                 => Holds(p) /\ Faithful(p, r, forgotten)
    BY <1>3, <2>1, <2>2 DEF Holds, Faithful, Executing, Deleting
  <2> QED BY <1>0, <2>1, <2>2, <2>3, PutCopies
<1>10. ASSUME NEW t \in Tasks, Deploy(t) \/ Connect(t) \/ Attach(t) \/ Patch(t)
       PROVE  CopiesInv'
  <2>1. task[t].pc \in Executing /\ task[t].pc # "idle" /\ UNCHANGED <<used, forgotten>>
    BY <1>10 DEF Deploy, Connect, Attach, Patch, Executing
  <2>2. CASE Failed(t)
    BY <1>0, <2>1, <2>2, FailedCopies
  <2>h. Holds(task[t]) /\ (task[t].current => Faithful(task[t], store[task[t].mcp], forgotten))
    BY <1>3, <2>1
  <2>3. CASE Deploy(t) /\ ~Failed(t)
    <3> DEFINE p == [task[t] EXCEPT !.pc = "deployed", !.rec = [task[t].rec EXCEPT !.service = TRUE]]
    <3>1. /\ p.rec.service /\ p.pc = "deployed" /\ p.n = task[t].n /\ p.mcp = task[t].mcp
          /\ p.current = task[t].current /\ p.rec.state = task[t].rec.state
          /\ p.rec.collection = task[t].rec.collection
          /\ p.rec.diagnosis = task[t].rec.diagnosis
      BY <1>1 DEF Task, Doc
    <3>2. task' = [task EXCEPT ![t] = p] /\ UNCHANGED store
      BY <2>3 DEF Deploy, Goes
    <3> HIDE DEF p
    <3>3. Holds(p) /\ (p.current => Faithful(p, store[p.mcp], forgotten))
      BY <1>1, <2>1, <2>h, <3>1 DEF Holds, Faithful, Executing, Deleting
    <3> QED BY <2>1, <3>2, <3>3, MoveCopies
  <2>4. CASE Connect(t) /\ ~Failed(t)
    <3> DEFINE p == [task[t] EXCEPT !.pc = "connected",
                                    !.rec = [task[t].rec EXCEPT !.collection = CollectionOf(t)]]
    <3>1. /\ p.rec.collection = CollectionOf(t) /\ p.pc = "connected" /\ p.n = task[t].n
          /\ p.mcp = task[t].mcp /\ p.current = task[t].current
          /\ p.rec.state = task[t].rec.state /\ p.rec.service = task[t].rec.service
          /\ p.rec.diagnosis = task[t].rec.diagnosis
      BY <1>1 DEF Task, Doc
    <3>2. task' = [task EXCEPT ![t] = p] /\ UNCHANGED store /\ task[t].pc = "connect"
      BY <2>4 DEF Connect, Goes
    <3> HIDE DEF p
    <3>3. CollectionOf(t) # 0
      BY <2>1, <2>h DEF CollectionOf, Holds
    <3>4. Holds(p) /\ (p.current => Faithful(p, store[p.mcp], forgotten))
      BY <1>1, <2>1, <2>h, <3>1, <3>2, <3>3 DEF Holds, Faithful, Executing, Deleting, CollectionOf
    <3> QED BY <2>1, <3>2, <3>4, MoveCopies
  <2>5. CASE (Attach(t) \/ Patch(t)) /\ ~Failed(t)
    <3>1. PICK to \in {"patch", "attached"}, l \in {{}, engine} :
            task' = [task EXCEPT ![t] = [@ EXCEPT !.pc = to, !.list = l]]
      BY <2>5 DEF Attach, Patch, ReadList, ListWritten
    <3> DEFINE p == [task[t] EXCEPT !.pc = to, !.list = l]
    <3>2. /\ p.pc = to /\ p.rec = task[t].rec /\ p.mcp = task[t].mcp /\ p.n = task[t].n
          /\ p.current = task[t].current
      BY <1>1 DEF Task
    <3>3. task' = [task EXCEPT ![t] = p] /\ UNCHANGED store /\ task[t].pc \in {"attach", "patch"}
      BY <2>5, <3>1 DEF Attach, Patch, TypeOK
    <3> HIDE DEF p
    <3>4. Holds(p) /\ (p.current => Faithful(p, store[p.mcp], forgotten))
      BY <2>h, <3>1, <3>2, <3>3 DEF Holds, Faithful, Executing, Deleting
    <3> QED BY <2>1, <3>3, <3>4, MoveCopies
  <2> QED BY <1>10, <2>2, <2>3, <2>4, <2>5
<1>11. ASSUME NEW t \in Tasks, PublishStage(t) \/ Conclude(t)
       PROVE  CopiesInv'
  <2>1. task[t].pc \in Executing /\ task[t].pc # "idle" /\ UNCHANGED <<used, forgotten>>
    BY <1>11 DEF PublishStage, Conclude, Executing
  <2>2. ASSUME NEW to \in {"connect", "attach", "wired"}, Put(t, task[t].rec, to),
               \/ task[t].pc = "deployed" /\ to = "connect"
               \/ task[t].pc = "connected" /\ to = "attach"
               \/ task[t].pc = "attached" /\ to = "wired"
        PROVE  CopiesInv'
    <3>1. task[t].rec.state = "RUNNING" /\ Holds(task[t]) /\ to \in Points
      BY <1>1, <1>3, <2>1 DEF Points, Executing
    <3>2. \A p : p.pc = to /\ p.rec = task[t].rec /\ p.n = task[t].n
                   => Holds(p) /\ Faithful(p, task[t].rec, forgotten)
      BY <2>2, <3>1 DEF Holds, Faithful, Executing, Deleting
    <3> QED BY <1>0, <1>1, <2>1, <2>2, <3>1, <3>2, PutCopies
  <2>3. ASSUME NEW s \in {"STOPPED", "READY"}, Put(t, [task[t].rec EXCEPT !.state = s], "final")
        PROVE  CopiesInv'
    <3> DEFINE r == [task[t].rec EXCEPT !.state = s]
    <3>1. r \in Doc /\ r.state = s /\ r.error = 0
      <4>1. r \in Doc
        BY <1>1, <2>3, DocUpdates
      <4>2. r.state = s /\ r.error = 0
        BY <1>1, <2>1 DEF Doc
      <4> QED BY <4>1, <4>2
    <3>2. Put(t, r, "final") /\ "final" \in Points
      BY <2>3 DEF Points
    <3> HIDE DEF r
    <3>3. \A p : p.pc = "final" /\ p.rec = r => Holds(p) /\ Faithful(p, r, forgotten)
      BY <3>1 DEF Holds, Faithful, Executing, Deleting
    <3> QED BY <1>0, <2>1, <3>1, <3>2, <3>3, PutCopies
  <2> QED BY <1>11, <2>2, <2>3 DEF PublishStage, Conclude
<1>12. ASSUME NEW t \in Tasks, Final(t) \/ Rescue(t) \/ CacheDiagnosis(t) \/ Forget(t)
       PROVE  CopiesInv'
  <2>1. task[t].pc # "idle" /\ used' = used
        /\ forgotten' \in {forgotten, forgotten \union {task[t].mcp}}
    BY <1>12 DEF Final, Rescue, CacheDiagnosis, Forget
  <2>2. CASE PutAndLeave(t, task[t].rec) /\ task[t].pc \in {"final", "rescue", "diagnose"}
    <3>1. task[t].rec.state # "ABSENT"
      BY <1>3, <2>2 DEF Holds, Deleting
    <3> QED BY <1>0, <1>1, <2>1, <2>2, <3>1, LeaveCopies
  <2>3. CASE PutAndLeave(t, NoDoc)
    BY <1>0, <2>1, <2>3, EmptyDoc, LeaveCopies
  <2>4. CASE GiveUp(t) /\ forgotten' = forgotten
    <3>1. Idle.pc = "idle"
      BY DEF Idle
    <3> QED BY <2>1, <2>4, <3>1, MoveCopies DEF GiveUp
  <2>5. CASE /\ task[t].pc = "final" /\ forgotten' = forgotten
             /\ Goes(t, Crashed(store[task[t].mcp], task[t].n), "rescue")
    <3> DEFINE d == store[task[t].mcp]
               p == [task[t] EXCEPT !.pc = "rescue", !.rec = Crashed(d, task[t].n)]
    <3>1. /\ p.pc = "rescue" /\ p.rec = Crashed(d, task[t].n) /\ p.mcp = task[t].mcp
          /\ p.n = task[t].n /\ p.current = task[t].current
      BY <1>1 DEF Task
    <3>2. task' = [task EXCEPT ![t] = p] /\ UNCHANGED store
      BY <2>5 DEF Goes
    <3>3. Crashed(d, task[t].n).state # "ABSENT"
      BY <1>0, <1>2, <2>1, OwnRun DEF Crashed, Outcome, Doc
    <3>4. Holds(task[t]) /\ (task[t].current => task[t].rec = d)
      BY <1>3, <2>1, <2>5 DEF Faithful
    <3>5. store[p.mcp] = d
      BY <3>1
    <3> HIDE DEF p, d
    <3>6. Holds(p) /\ (p.current => Faithful(p, d, forgotten))
      BY <2>5, <3>1, <3>3, <3>4 DEF Holds, Faithful, Executing, Deleting
    <3> QED BY <2>1, <2>5, <3>2, <3>5, <3>6, MoveCopies
  <2> QED BY <1>12, <2>2, <2>3, <2>4, <2>5 DEF Final, Rescue, CacheDiagnosis, Forget
<1>13. ASSUME NEW t \in Tasks, Detach(t) \/ Unpatch(t)
       PROVE  CopiesInv'
  <2>1. PICK to \in {"remove", "unpatch"}, l \in {{}, engine} :
          task' = [task EXCEPT ![t] = [@ EXCEPT !.pc = to, !.list = l]]
    BY <1>13 DEF Detach, Unpatch, ReadList, ListWritten
  <2> DEFINE p == [task[t] EXCEPT !.pc = to, !.list = l]
  <2>2. /\ p.pc = to /\ p.rec = task[t].rec /\ p.mcp = task[t].mcp
        /\ p.current = task[t].current
    BY <1>1 DEF Task
  <2>3. task' = [task EXCEPT ![t] = p] /\ UNCHANGED <<store, used, forgotten>>
        /\ task[t].pc \in {"detach", "unpatch"}
    BY <1>13, <2>1 DEF Detach, Unpatch, TypeOK
  <2> HIDE DEF p
  <2>4. Holds(p) /\ (p.current => Faithful(p, store[p.mcp], forgotten))
    BY <1>3, <2>1, <2>2, <2>3 DEF Holds, Faithful, Executing, Deleting
  <2> QED BY <2>3, <2>4, MoveCopies
<1>14. ASSUME NEW t \in Tasks, Remove(t)
       PROVE  CopiesInv'
  <2> DEFINE p == [task[t] EXCEPT !.pc = "forget", !.rec = NoDoc]
  <2>1. p.pc = "forget" /\ p.mcp = task[t].mcp /\ p.current = task[t].current
    BY <1>1 DEF Task
  <2>2. task' = [task EXCEPT ![t] = p] /\ UNCHANGED <<store, used, forgotten>>
        /\ task[t].pc = "remove"
    BY <1>14 DEF Remove, Goes
  <2> HIDE DEF p
  <2>3. Holds(p) /\ (p.current => Faithful(p, store[p.mcp], forgotten))
    BY <1>3, <2>1, <2>2 DEF Holds, Faithful, Executing, Deleting
  <2> QED BY <2>2, <2>3, MoveCopies
<1>15. CASE UNCHANGED vars
  BY <1>15 DEF vars, CopiesInv
<1> QED BY <1>4, <1>5, <1>6, <1>7, <1>8, <1>9, <1>10, <1>11, <1>12, <1>13, <1>14, <1>15
        DEF Next, Execute, Handle, Arrive

\* A handler's copy is the document it was read from, up to what the handler
\* itself did, as long as nobody else has written that document.
THEOREM CopiesAreFaithful == Spec => []CopiesInv
<1>1. Init => CopiesInv
  <2> SUFFICES ASSUME Init PROVE CopiesInv
    OBVIOUS
  <2>1. /\ \A t \in Tasks : task[t].pc = "idle"
        /\ \A m \in Mcps : store[m] = NoDoc
        /\ forgotten \subseteq used
    BY DEF Init, Idle
  <2> QED BY <2>1 DEF CopiesInv
<1>2. TypeOK /\ HandlersInv /\ CopiesInv /\ [Next]_vars => CopiesInv'
  BY StepCopies
<1> QED BY <1>1, <1>2, HandlersTypeCorrect, HandlersExclude, PTL DEF Spec

-----------------------------------------------------------------------------
(***************************************************************************)
(* Diagnoses.  Whoever has a fresh copy writes a diagnosis that fits the   *)
(* error beside it: CopiesInv says what each of them has in its hands.     *)
(***************************************************************************)
Fits(d) == d.diagnosis \in {0, d.error}

\* One write of a document that fitted.
LEMMA PutFits ==
  ASSUME TypeOK, Drawn, DiagnosisFits, NEW t \in Tasks, NEW rec \in Doc, NEW to \in Points,
         task[t].pc # "idle", Put(t, rec, to) \/ PutAndLeave(t, rec),
         task[t].current /\ task[t].mcp \notin clobbered => Fits(rec)
  PROVE  DiagnosisFits'
<1>1. task[t].mcp \in Mcps
  BY OwnRun
<1>2. /\ store'[task[t].mcp] = rec
      /\ \A m \in Mcps \ {task[t].mcp} : store'[m] = store[m]
  <2>1. CASE Put(t, rec, to)
    <3>1. Puts(t, rec, to)
      BY <1>1, <2>1, PutEntries
    <3> QED BY <3>1 DEF Puts
  <2>2. CASE PutAndLeave(t, rec)
    <3>1. Leaves(t, rec)
      BY <1>1, <2>2, LeaveEntries
    <3> QED BY <3>1 DEF Leaves
  <2> QED BY <2>1, <2>2
<1>3. /\ clobbered \subseteq clobbered'
      /\ task[t].mcp \notin clobbered' => task[t].current
  BY DEF Put, PutAndLeave, Unseen
<1> QED BY <1>2, <1>3 DEF DiagnosisFits, Fits

LEMMA FailedFits ==
  ASSUME TypeOK, Drawn, DiagnosisFits, NEW t \in Tasks, task[t].pc # "idle", Failed(t)
  PROVE  DiagnosisFits'
<1>1. PICK known \in BOOLEAN :
        Put(t, [task[t].rec EXCEPT
              !.state = Outcome(task[t].rec),
              !.error = task[t].n,
              !.diagnosis = IF known THEN task[t].n ELSE 0],
            "final")
  BY DEF Failed
<1> DEFINE rec == [task[t].rec EXCEPT
              !.state = Outcome(task[t].rec),
              !.error = task[t].n,
              !.diagnosis = IF known THEN task[t].n ELSE 0]
<1>2. task[t].rec \in Doc /\ task[t].n \in Executions
  BY DEF TypeOK, Task
<1>3. rec \in Doc
  BY <1>2, NoExecution, DocUpdates
<1>4. Fits(rec)
  BY <1>2 DEF Doc, Fits
<1>5. Put(t, rec, "final") /\ "final" \in Points
  BY <1>1 DEF Points
<1> HIDE DEF rec
<1> QED BY <1>3, <1>4, <1>5, PutFits

LEMMA StepFits ==
  TypeOK /\ HandlersInv /\ CopiesInv /\ DiagnosisFits /\ [Next]_vars => DiagnosisFits'
<1> SUFFICES ASSUME TypeOK, HandlersInv, CopiesInv, DiagnosisFits, [Next]_vars
             PROVE  DiagnosisFits'
  OBVIOUS
<1>0. Drawn
  BY DEF HandlersInv
<1>1. \A t \in Tasks : task[t].rec \in Doc /\ task[t].n \in Executions
  BY DEF TypeOK, Task
<1>2. \A t \in Tasks : task[t].pc # "idle" =>
        Holds(task[t]) /\ (task[t].current => Faithful(task[t], store[task[t].mcp], forgotten))
  BY DEF CopiesInv
<1>3. \A t \in Tasks : task[t].pc # "idle" /\ task[t].mcp \notin clobbered =>
        Fits(store[task[t].mcp]) /\ store[task[t].mcp] \in Doc
  BY <1>0, OwnRun DEF DiagnosisFits, Fits, TypeOK
<1>4. ASSUME UNCHANGED <<store, clobbered>>
      PROVE  DiagnosisFits'
  BY <1>4 DEF DiagnosisFits
<1>5. ASSUME NEW t \in Tasks, NEW m \in Mcps, Create(t, m)
      PROVE  DiagnosisFits'
  <2>1. \A k \in Mcps : store'[k] \in {store[k], Announced}
    BY <1>5 DEF Create, TypeOK
  <2>2. Fits(Announced) /\ clobbered' = clobbered
    BY <1>5 DEF Create, Announced, NoDoc, Fits
  <2> QED BY <2>1, <2>2 DEF DiagnosisFits, Fits
<1>6. ASSUME NEW t \in Tasks, NEW m \in Mcps, Resume(t, m) \/ Diagnose(t, m) \/ Delete(t, m)
      PROVE  DiagnosisFits'
  BY <1>4, <1>6 DEF Resume, Diagnose, Delete
<1>7. ASSUME NEW t \in Tasks, Announce(t)
      PROVE  DiagnosisFits'
  <2> DEFINE r == [task[t].rec EXCEPT !.state = "RUNNING"]
  <2>1. r \in Doc
    BY <1>1, DocUpdates
  <2>2. r.error = task[t].rec.error /\ r.diagnosis = task[t].rec.diagnosis
    BY <1>1 DEF Doc
  <2>3. Put(t, r, "begin") /\ "begin" \in Points /\ task[t].pc = "resume"
    BY <1>7, KnownPoints DEF Announce
  <2> HIDE DEF r
  <2>4. task[t].current /\ task[t].mcp \notin clobbered => Fits(r)
    BY <1>2, <1>3, <2>2, <2>3 DEF Faithful, Fits
  <2> QED BY <1>0, <2>1, <2>3, <2>4, PutFits
<1>8. ASSUME NEW t \in Tasks, Begin(t)
      PROVE  DiagnosisFits'
  <2>1. Cleared(task[t].rec) \in Doc
    BY <1>1, DocUpdates
  <2>2. Fits(Cleared(task[t].rec))
    BY <1>1 DEF Cleared, Doc, Fits
  <2>3. Put(t, Cleared(task[t].rec), "deploy") /\ "deploy" \in Points /\ task[t].pc = "begin"
    BY <1>8, KnownPoints DEF Begin
  <2> QED BY <1>0, <2>1, <2>2, <2>3, PutFits
<1>9. ASSUME NEW t \in Tasks, Deploy(t) \/ Connect(t) \/ Attach(t) \/ Patch(t)
      PROVE  DiagnosisFits'
  <2>1. task[t].pc # "idle"
    BY <1>9 DEF Deploy, Connect, Attach, Patch
  <2>2. CASE Failed(t)
    BY <1>0, <2>1, <2>2, FailedFits
  <2>3. CASE ~Failed(t)
    BY <1>4, <1>9, <2>3 DEF Deploy, Connect, Attach, Patch, Goes
  <2> QED BY <2>2, <2>3
<1>10. ASSUME NEW t \in Tasks, PublishStage(t) \/ Conclude(t)
       PROVE  DiagnosisFits'
  <2>1. task[t].pc \in Executing /\ task[t].pc # "idle"
    BY <1>10 DEF PublishStage, Conclude, Executing
  <2>2. task[t].rec.diagnosis = 0
    BY <1>2, <2>1 DEF Holds
  <2>3. PICK s \in {"STOPPED", "READY"}, to \in Points :
          \/ Put(t, [task[t].rec EXCEPT !.state = s], to)
          \/ Put(t, task[t].rec, to)
    BY <1>10 DEF PublishStage, Conclude, Points, Executing
  <2> DEFINE r == [task[t].rec EXCEPT !.state = s]
  <2>4. r \in Doc /\ r.diagnosis = 0
    <3>1. r.diagnosis = 0
      BY <1>1, <2>2 DEF Doc
    <3>2. r \in Doc
      BY <1>1, <2>3, DocUpdates
    <3> QED BY <3>1, <3>2
  <2> HIDE DEF r
  <2>5. Put(t, r, to) \/ Put(t, task[t].rec, to)
    BY <2>3 DEF r
  <2>6. Fits(r) /\ Fits(task[t].rec)
    BY <2>2, <2>4 DEF Fits
  <2> QED BY <1>0, <1>1, <2>1, <2>4, <2>5, <2>6, PutFits
<1>11. ASSUME NEW t \in Tasks, Final(t) \/ Rescue(t) \/ CacheDiagnosis(t)
       PROVE  DiagnosisFits'
  <2>1. /\ task[t].pc \in {"final", "rescue", "diagnose"} /\ "idle" \in Points
        /\ PutAndLeave(t, task[t].rec) \/ UNCHANGED <<store, clobbered>>
    BY <1>11 DEF Final, Rescue, CacheDiagnosis, GiveUp, Goes, Points
  <2>2. ASSUME task[t].current, task[t].mcp \notin clobbered
        PROVE  Fits(task[t].rec)
    <3>1. /\ Faithful(task[t], store[task[t].mcp], forgotten) /\ Holds(task[t])
          /\ Fits(store[task[t].mcp]) /\ store[task[t].mcp] \in Doc
      BY <1>2, <1>3, <2>1, <2>2
    <3>2. CASE task[t].pc = "final"
      BY <3>1, <3>2 DEF Faithful
    <3>3. CASE task[t].pc = "diagnose"
      BY <3>1, <3>3 DEF Holds, Fits
    <3>4. CASE task[t].pc = "rescue"
      <4>1. /\ task[t].rec = Crashed(store[task[t].mcp], task[t].n)
            /\ store[task[t].mcp].error \in {0, task[t].n}
        BY <3>1, <3>4 DEF Faithful
      <4>2. /\ task[t].rec.error = task[t].n
            /\ task[t].rec.diagnosis = store[task[t].mcp].diagnosis
        BY <3>1, <4>1 DEF Crashed, Doc
      <4> QED BY <3>1, <4>1, <4>2 DEF Fits
    <3> QED BY <2>1, <3>2, <3>3, <3>4
  <2> QED BY <1>0, <1>1, <1>4, <2>1, <2>2, PutFits
<1>12. ASSUME NEW t \in Tasks, Detach(t) \/ Unpatch(t) \/ Remove(t)
       PROVE  DiagnosisFits'
  BY <1>4, <1>12 DEF Detach, Unpatch, Remove, Goes
<1>13. ASSUME NEW t \in Tasks, Forget(t)
       PROVE  DiagnosisFits'
  <2>1. PutAndLeave(t, NoDoc) /\ task[t].pc # "idle" /\ "idle" \in Points /\ Fits(NoDoc)
    BY <1>13 DEF Forget, Points, Fits, NoDoc
  <2> QED BY <1>0, <2>1, EmptyDoc, PutFits
<1>14. CASE UNCHANGED vars
  BY <1>4, <1>14 DEF vars
<1> QED BY <1>5, <1>6, <1>7, <1>8, <1>9, <1>10, <1>11, <1>12, <1>13, <1>14
        DEF Next, Execute, Handle, Arrive

\* A cause shown is that of the execution whose error is shown, whichever resumes,
\* diagnoses, deletes and crash handlers overlap, until one of them writes over a
\* document it has not seen (create_mcp's and resume_mcp's tasks, diagnose_mcp).
THEOREM DiagnosesFit == Spec => []DiagnosisFits
<1>1. Init => DiagnosisFits
  BY DEF Init, DiagnosisFits, NoDoc
<1>2. TypeOK /\ HandlersInv /\ CopiesInv /\ DiagnosisFits /\ [Next]_vars => DiagnosisFits'
  BY StepFits
<1> QED BY <1>1, <1>2, HandlersTypeCorrect, HandlersExclude, CopiesAreFaithful, PTL DEF Spec

-----------------------------------------------------------------------------
(***************************************************************************)
(* The life of a record.  A write that is not over something unseen takes  *)
(* the document from the handler's copy to the next state of that copy.    *)
(***************************************************************************)
Lives(m) == Life(m)!Next \/ UNCHANGED Life(m)!vars

\* How one write may change a document of run m.
Turns(d, e) ==
  \/ /\ d = NoDoc /\ e = Announced
  \/ /\ d.state = "RUNNING" /\ e.state = "RUNNING"
     /\ d.service => e.service
     /\ d.collection # 0 => e.collection # 0
  \/ /\ d.state = "RUNNING"
     /\ e.state \in {"STOPPED", "READY", Outcome(e)}
     /\ e.state = "READY" => e.service /\ e.collection # 0
     /\ d.service => e.service
     /\ d.collection # 0 => e.collection # 0
  \/ /\ d.state \in Retriable /\ e.state = "RUNNING"
     /\ e.service = d.service /\ e.collection = d.collection
  \/ /\ d.state \in {"STOPPED", "READY"} /\ e.state = Outcome(e)
     /\ e.service = d.service /\ e.collection = d.collection
  \/ /\ e.state = d.state
     /\ e.service = d.service /\ e.collection = d.collection

LEMMA OutputsGrow ==
  ASSUME NEW d \in Doc, NEW e \in Doc
  PROVE  /\ OutputsOf(d) \in SUBSET {"service", "registry", "endpoint", "collection", "datastore"}
         /\ (d.service => e.service) /\ (d.collection # 0 => e.collection # 0)
              => OutputsOf(d) \subseteq OutputsOf(e)
         /\ e.service = d.service /\ e.collection = d.collection => OutputsOf(e) = OutputsOf(d)
         /\ {"registry", "endpoint"} \subseteq OutputsOf(e) <=> e.service
         /\ {"collection", "datastore"} \subseteq OutputsOf(e) <=> e.collection # 0
         /\ OutputsOf(NoDoc) = {} /\ OutputsOf(Announced) = {}
BY DEF OutputsOf, Doc, NoDoc, Announced

LEMMA TurnLives ==
  ASSUME TypeOK, TypeOK', NEW m \in Mcps, Turns(store[m], store'[m]),
         m \in forgotten' <=> m \in forgotten,
         store[m] = NoDoc /\ store'[m] # NoDoc => m \notin forgotten
  PROVE  Lives(m)
<1> DEFINE d == store[m]
           e == store'[m]
<1>1. d \in Doc /\ e \in Doc
  BY DEF TypeOK
<1>2. CASE d = NoDoc /\ e = Announced
  <2>1. d.state = "ABSENT" /\ e.state = "RUNNING" /\ OutputsOf(e) = OutputsOf(d)
    BY <1>1, <1>2, OutputsGrow DEF NoDoc, Announced
  <2>2. m \notin forgotten
    BY <1>2 DEF NoDoc, Announced
  <2>3. Life(m)!Start
    BY <2>1, <2>2 DEF Life!Start
  <2> QED BY <2>3 DEF Lives, Life!Next
<1>3. CASE /\ d.state = "RUNNING" /\ e.state = "RUNNING"
           /\ d.service => e.service
           /\ d.collection # 0 => e.collection # 0
  <2>1. OutputsOf(d) \subseteq OutputsOf(e) /\ OutputsOf(e) \in SUBSET Life(m)!Outputs
    BY <1>1, <1>3, OutputsGrow DEF Life!Outputs
  <2>2. Life(m)!Progress
    BY <1>3, <2>1 DEF Life!Progress
  <2> QED BY <2>2 DEF Lives, Life!Next
<1>4. CASE /\ d.state = "RUNNING"
           /\ e.state \in {"STOPPED", "READY", Outcome(e)}
           /\ e.state = "READY" => e.service /\ e.collection # 0
           /\ d.service => e.service
           /\ d.collection # 0 => e.collection # 0
  <2>1. OutputsOf(d) \subseteq OutputsOf(e) /\ OutputsOf(e) \in SUBSET Life(m)!Outputs
    BY <1>1, <1>4, OutputsGrow DEF Life!Outputs
  <2>2. e.state \in Life(m)!Settled(OutputsOf(e))
    BY <1>1, <1>4, OutputsGrow DEF Life!Settled, Life!Working, Outcome
  <2>3. Life(m)!Settle
    BY <1>4, <2>1, <2>2 DEF Life!Settle
  <2> QED BY <2>3 DEF Lives, Life!Next
<1>5. CASE /\ d.state \in Retriable /\ e.state = "RUNNING"
           /\ e.service = d.service /\ e.collection = d.collection
  <2>1. OutputsOf(e) = OutputsOf(d)
    BY <1>1, <1>5, OutputsGrow
  <2>2. Life(m)!Resume
    BY <1>5, <2>1 DEF Life!Resume, Retriable
  <2> QED BY <2>2 DEF Lives, Life!Next
<1>6. CASE /\ e.state = d.state
           /\ e.service = d.service /\ e.collection = d.collection
  <2>1. OutputsOf(e) = OutputsOf(d)
    BY <1>1, <1>6, OutputsGrow
  <2> QED BY <1>6, <2>1 DEF Lives, Life!vars
<1>7. CASE /\ d.state \in {"STOPPED", "READY"} /\ e.state = Outcome(e)
           /\ e.service = d.service /\ e.collection = d.collection
  <2>1. OutputsOf(e) = OutputsOf(d)
    BY <1>1, <1>7, OutputsGrow
  <2>2. e.state \in Life(m)!Settled(OutputsOf(d)) \ {"STOPPED", "READY"}
    BY <1>1, <1>7, <2>1, OutputsGrow DEF Life!Settled, Life!Working, Outcome
  <2>3. Life(m)!Recant
    BY <1>7, <2>1, <2>2 DEF Life!Recant
  <2> QED BY <2>3 DEF Lives, Life!Next
<1> QED BY <1>2, <1>3, <1>4, <1>5, <1>6, <1>7 DEF Turns

LEMMA UntouchedLives ==
  ASSUME NEW m \in Mcps, store'[m] = store[m], m \in forgotten' <=> m \in forgotten
  PROVE  Lives(m)
BY DEF Lives, Life!vars

LEMMA PutLives ==
  ASSUME TypeOK, TypeOK', Drawn, CopiesInv, NEW t \in Tasks, NEW rec \in Doc,
         NEW to \in Points, task[t].pc # "idle",
         Put(t, rec, to) \/ PutAndLeave(t, rec), UNCHANGED forgotten,
         task[t].current /\ task[t].mcp \notin clobbered =>
           /\ Turns(store[task[t].mcp], rec)
           /\ store[task[t].mcp] = NoDoc /\ rec # NoDoc => task[t].mcp \notin forgotten
  PROVE  \A m \in Mcps : m \in clobbered' \/ Lives(m)
<1>1. task[t].mcp \in Mcps
  BY OwnRun
<1>2. store'[task[t].mcp] = rec /\ \A m \in Mcps \ {task[t].mcp} : store'[m] = store[m]
  <2>1. CASE Put(t, rec, to)
    <3>1. Puts(t, rec, to)
      BY <1>1, <2>1, PutEntries
    <3> QED BY <3>1 DEF Puts
  <2>2. CASE PutAndLeave(t, rec)
    <3>1. Leaves(t, rec)
      BY <1>1, <2>2, LeaveEntries
    <3> QED BY <3>1 DEF Leaves
  <2> QED BY <2>1, <2>2
<1>3. task[t].mcp \notin clobbered' => task[t].current /\ task[t].mcp \notin clobbered
  BY DEF Put, PutAndLeave, Unseen
<1>4. ASSUME NEW m \in Mcps, m # task[t].mcp
      PROVE  Lives(m)
  BY <1>2, <1>4, UntouchedLives
<1>5. ASSUME NEW m \in Mcps, m = task[t].mcp, m \notin clobbered'
      PROVE  Lives(m)
  BY <1>2, <1>3, <1>5, TurnLives
<1> QED BY <1>4, <1>5

LEMMA FailedLives ==
  ASSUME TypeOK, TypeOK', HandlersInv, CopiesInv, NEW t \in Tasks,
         task[t].pc \in Executing, Failed(t), UNCHANGED forgotten
  PROVE  \A m \in Mcps : m \in clobbered' \/ Lives(m)
<1>1. PICK known \in BOOLEAN :
        Put(t, [task[t].rec EXCEPT
              !.state = Outcome(task[t].rec),
              !.error = task[t].n,
              !.diagnosis = IF known THEN task[t].n ELSE 0],
            "final")
  BY DEF Failed
<1> DEFINE rec == [task[t].rec EXCEPT
              !.state = Outcome(task[t].rec),
              !.error = task[t].n,
              !.diagnosis = IF known THEN task[t].n ELSE 0]
<1>2. task[t].rec \in Doc /\ task[t].n \in Executions
  BY DEF TypeOK, Task
<1>3. rec \in Doc
  BY <1>2, NoExecution, DocUpdates
<1>4. /\ rec.state = Outcome(rec)
      /\ rec.service = task[t].rec.service /\ rec.collection = task[t].rec.collection
  <2>1. /\ rec.state = Outcome(task[t].rec) /\ rec.service = task[t].rec.service
        /\ rec.collection = task[t].rec.collection
    BY <1>2 DEF Doc
  <2> HIDE DEF rec
  <2> QED BY <2>1 DEF Outcome
<1>5. Put(t, rec, "final") /\ "final" \in Points /\ Drawn /\ task[t].pc # "idle"
  BY <1>1 DEF Points, HandlersInv, Executing
<1> HIDE DEF rec
<1>6. ASSUME task[t].current, task[t].mcp \notin clobbered
      PROVE  Turns(store[task[t].mcp], rec) /\ store[task[t].mcp] # NoDoc
  <2>1. store[task[t].mcp].state = "RUNNING"
    BY <1>6 DEF HandlersInv, Told
  <2>2. Faithful(task[t], store[task[t].mcp], forgotten)
    BY <1>5, <1>6 DEF CopiesInv
  <2>3. /\ store[task[t].mcp].service => rec.service
        /\ store[task[t].mcp].collection # 0 => rec.collection # 0
    BY <1>4, <2>2 DEF Faithful
  <2>4. rec.state \in {"PARTIAL", "FAILED"}
    BY <1>4 DEF Outcome
  <2> QED BY <1>4, <2>1, <2>3, <2>4 DEF Turns, NoDoc
<1> QED BY <1>3, <1>5, <1>6, PutLives

LEMMA StepLives ==
  TypeOK /\ TypeOK' /\ HandlersInv /\ CopiesInv /\ [Next]_vars
    => \A m \in Mcps : m \in clobbered' \/ Lives(m)
<1> SUFFICES ASSUME TypeOK, TypeOK', HandlersInv, CopiesInv, [Next]_vars
             PROVE  \A m \in Mcps : m \in clobbered' \/ Lives(m)
  OBVIOUS
<1>0. Drawn
  BY DEF HandlersInv
<1>1. \A t \in Tasks : /\ task[t] \in Task /\ task[t].rec \in Doc
                       /\ task[t].pc \in Executing => task[t].rec.state = "RUNNING"
  BY DEF TypeOK, Task, HandlersInv, Told
<1>2. \A t \in Tasks : task[t].pc # "idle" =>
        Holds(task[t]) /\ (task[t].current => Faithful(task[t], store[task[t].mcp], forgotten))
  BY DEF CopiesInv
<1>3. \A t \in Tasks : task[t].pc \in Executing /\ task[t].mcp \notin clobbered /\ task[t].current =>
        store[task[t].mcp].state = "RUNNING" /\ store[task[t].mcp] # NoDoc
  BY DEF HandlersInv, Told, NoDoc
<1>4. ASSUME UNCHANGED <<store, forgotten>>
      PROVE  \A m \in Mcps : Lives(m)
  BY <1>4, UntouchedLives
<1>5. ASSUME NEW t \in Tasks, NEW m \in Mcps, Create(t, m)
      PROVE  \A k \in Mcps : Lives(k)
  <2>1. /\ m \notin forgotten /\ store[m] = NoDoc /\ forgotten' = forgotten
        /\ store'[m] \in {NoDoc, Announced}
        /\ \A k \in Mcps \ {m} : store'[k] = store[k]
    BY <1>0, <1>5 DEF Create, CopiesInv, Drawn, TypeOK
  <2>2. Turns(store[m], store'[m])
    BY <2>1 DEF Turns
  <2>3. Lives(m)
    BY <2>1, <2>2, TurnLives
  <2> QED BY <2>1, <2>3, UntouchedLives
<1>6. ASSUME NEW t \in Tasks, NEW m \in Mcps, Resume(t, m) \/ Diagnose(t, m) \/ Delete(t, m)
      PROVE  \A k \in Mcps : Lives(k)
  BY <1>4, <1>6 DEF Resume, Diagnose, Delete
<1>7. ASSUME NEW t \in Tasks, Announce(t)
      PROVE  \A m \in Mcps : m \in clobbered' \/ Lives(m)
  <2> DEFINE r == [task[t].rec EXCEPT !.state = "RUNNING"]
  <2>1. r \in Doc
    BY <1>1, DocUpdates
  <2>2. r.state = "RUNNING" /\ r.service = task[t].rec.service
        /\ r.collection = task[t].rec.collection
    BY <1>1 DEF Doc
  <2>3. Put(t, r, "begin") /\ "begin" \in Points /\ task[t].pc = "resume" /\ forgotten' = forgotten
    BY <1>7, KnownPoints DEF Announce
  <2> HIDE DEF r
  <2>4. task[t].current => Turns(store[task[t].mcp], r) /\ store[task[t].mcp] # NoDoc
    BY <1>2, <2>2, <2>3 DEF Faithful, Turns, Retriable, NoDoc
  <2> QED BY <1>0, <2>1, <2>3, <2>4, PutLives
<1>8. ASSUME NEW t \in Tasks, Begin(t)
      PROVE  \A m \in Mcps : m \in clobbered' \/ Lives(m)
  <2> DEFINE r == Cleared(task[t].rec)
  <2>1. r \in Doc
    BY <1>1, DocUpdates
  <2>2. /\ r.state = "RUNNING" /\ r.service = task[t].rec.service
        /\ r.collection = task[t].rec.collection
        /\ task[t].rec = Announced => r = Announced
    BY <1>1 DEF Doc, Cleared, Announced, NoDoc
  <2>3. Put(t, r, "deploy") /\ "deploy" \in Points /\ task[t].pc = "begin" /\ forgotten' = forgotten
    BY <1>8, KnownPoints DEF Begin
  <2> HIDE DEF r
  <2>4. task[t].current =>
          /\ Turns(store[task[t].mcp], r)
          /\ store[task[t].mcp] = NoDoc => task[t].mcp \notin forgotten
    <3> SUFFICES ASSUME task[t].current
                 PROVE  /\ Turns(store[task[t].mcp], r)
                        /\ store[task[t].mcp] = NoDoc => task[t].mcp \notin forgotten
      OBVIOUS
    <3>1. Faithful(task[t], store[task[t].mcp], forgotten)
      BY <1>2, <2>3
    <3>2. CASE /\ task[t].rec = store[task[t].mcp]
               /\ store[task[t].mcp].state \in Retriable \union {"RUNNING"}
      BY <2>2, <3>2 DEF Turns, Retriable, NoDoc
    <3>3. CASE /\ task[t].rec = Announced /\ store[task[t].mcp] = NoDoc
               /\ task[t].mcp \notin forgotten
      BY <2>2, <3>3 DEF Turns
    <3> QED BY <2>3, <3>1, <3>2, <3>3 DEF Faithful
  <2> QED BY <1>0, <2>1, <2>3, <2>4, PutLives
<1>9. ASSUME NEW t \in Tasks, Deploy(t) \/ Connect(t) \/ Attach(t) \/ Patch(t)
      PROVE  \A m \in Mcps : m \in clobbered' \/ Lives(m)
  <2>1. task[t].pc \in Executing /\ UNCHANGED forgotten
    BY <1>9 DEF Deploy, Connect, Attach, Patch, Executing
  <2>2. CASE Failed(t)
    BY <2>1, <2>2, FailedLives
  <2>3. CASE ~Failed(t)
    <3>1. UNCHANGED store
      BY <1>9, <2>3 DEF Deploy, Connect, Attach, Patch, Goes
    <3> QED BY <1>4, <2>1, <3>1
  <2> QED BY <2>2, <2>3
<1>10. ASSUME NEW t \in Tasks, PublishStage(t)
       PROVE  \A m \in Mcps : m \in clobbered' \/ Lives(m)
  <2>1. PICK to \in {"connect", "attach", "wired"} : Put(t, task[t].rec, to)
    BY <1>10 DEF PublishStage
  <2>2. /\ to \in Points /\ task[t].pc \in Executing /\ task[t].pc # "idle"
        /\ forgotten' = forgotten
    BY <1>10 DEF PublishStage, Points, Executing
  <2>3. ASSUME task[t].current, task[t].mcp \notin clobbered
        PROVE  Turns(store[task[t].mcp], task[t].rec) /\ store[task[t].mcp] # NoDoc
    <3>1. Faithful(task[t], store[task[t].mcp], forgotten)
      BY <1>2, <2>2, <2>3
    <3>2. store[task[t].mcp].state = "RUNNING" /\ store[task[t].mcp] # NoDoc
      BY <1>3, <2>2, <2>3
    <3> QED BY <1>1, <2>2, <3>1, <3>2 DEF Faithful, Turns
  <2> QED BY <1>0, <1>1, <2>1, <2>2, <2>3, PutLives
<1>11. ASSUME NEW t \in Tasks, Conclude(t)
       PROVE  \A m \in Mcps : m \in clobbered' \/ Lives(m)
  <2>1. PICK s \in {"STOPPED", "READY"} :
          /\ Put(t, [task[t].rec EXCEPT !.state = s], "final")
          /\ s = "READY" => task[t].pc = "wired"
    BY <1>11 DEF Conclude
  <2> DEFINE r == [task[t].rec EXCEPT !.state = s]
  <2>2. r \in Doc
    BY <1>1, <2>1, DocUpdates
  <2>3. r.state = s /\ r.service = task[t].rec.service /\ r.collection = task[t].rec.collection
    BY <1>1 DEF Doc
  <2>4. /\ Put(t, r, "final") /\ "final" \in Points /\ task[t].pc \in Executing \ {"deploy"}
        /\ task[t].pc # "idle" /\ forgotten' = forgotten
    BY <1>11, <2>1 DEF Conclude, Points, Executing
  <2> HIDE DEF r
  <2>5. ASSUME task[t].current, task[t].mcp \notin clobbered
        PROVE  Turns(store[task[t].mcp], r) /\ store[task[t].mcp] # NoDoc
    <3>1. Faithful(task[t], store[task[t].mcp], forgotten) /\ Holds(task[t])
      BY <1>2, <2>4, <2>5
    <3>2. store[task[t].mcp].state = "RUNNING" /\ store[task[t].mcp] # NoDoc
      BY <1>3, <2>4, <2>5
    <3>3. s = "READY" => r.service /\ r.collection # 0
      BY <2>1, <2>3, <2>4, <3>1 DEF Holds
    <3>4. /\ store[task[t].mcp].service => r.service
          /\ store[task[t].mcp].collection # 0 => r.collection # 0
      BY <2>3, <2>4, <3>1 DEF Faithful
    <3> QED BY <2>1, <2>3, <3>2, <3>3, <3>4 DEF Turns
  <2> QED BY <1>0, <2>2, <2>4, <2>5, PutLives
<1>12. ASSUME NEW t \in Tasks, Final(t) \/ Rescue(t) \/ CacheDiagnosis(t)
       PROVE  \A m \in Mcps : m \in clobbered' \/ Lives(m)
  <2>1. /\ task[t].pc \in {"final", "rescue", "diagnose"} /\ forgotten' = forgotten
        /\ PutAndLeave(t, task[t].rec) \/ UNCHANGED store
    BY <1>12 DEF Final, Rescue, CacheDiagnosis, GiveUp, Goes
  <2>2. CASE UNCHANGED store
    BY <1>4, <2>1, <2>2
  <2>3. CASE PutAndLeave(t, task[t].rec)
    <3>0. task[t].mcp \in Mcps
      BY <1>0, <2>1, OwnRun
    <3> DEFINE d == store[task[t].mcp]
               e == task[t].rec
    <3>1. ASSUME task[t].current
          PROVE  Turns(d, e) /\ d # NoDoc
      <4>1. Faithful(task[t], d, forgotten) /\ Holds(task[t]) /\ d \in Doc
        BY <1>2, <2>1, <3>0, <3>1 DEF TypeOK
      <4>2. CASE task[t].pc \in {"final", "diagnose"}
        <5>1. e.state = d.state /\ e.service = d.service /\ e.collection = d.collection
          BY <4>1, <4>2 DEF Faithful
        <5>2. e.state # "ABSENT"
          BY <4>1, <4>2 DEF Holds, Deleting
        <5> QED BY <5>1, <5>2 DEF Turns, NoDoc
      <4>3. CASE task[t].pc = "rescue"
        <5>1. e = Crashed(d, task[t].n) /\ d.state \in {"STOPPED", "READY", Outcome(d)}
          BY <4>1, <4>3 DEF Faithful
        <5>2. e.state = Outcome(d) /\ e.service = d.service /\ e.collection = d.collection
          BY <4>1, <5>1 DEF Crashed, Doc
        <5>3. Outcome(e) = Outcome(d) /\ Outcome(d) \in {"PARTIAL", "FAILED"}
          BY <5>2 DEF Outcome
        <5> QED BY <5>1, <5>2, <5>3 DEF Turns, NoDoc
      <4> QED BY <2>1, <4>2, <4>3
    <3>2. "idle" \in Points
      BY DEF Points
    <3> QED BY <1>0, <1>1, <2>1, <2>3, <3>1, <3>2, PutLives
  <2> QED BY <2>1, <2>2, <2>3
<1>13. ASSUME NEW t \in Tasks, Handle(t), ~CacheDiagnosis(t), ~Forget(t)
       PROVE  \A m \in Mcps : Lives(m)
  BY <1>4, <1>13 DEF Handle, Detach, Unpatch, Remove, Goes
<1>14. ASSUME NEW t \in Tasks, Forget(t)
       PROVE  \A m \in Mcps : m \in clobbered' \/ Lives(m)
  <2>1. /\ task[t].pc = "forget" /\ PutAndLeave(t, NoDoc)
        /\ forgotten' = forgotten \union {task[t].mcp}
    BY <1>14 DEF Forget
  <2>2. task[t].mcp \in Mcps
    BY <1>0, <2>1, OwnRun
  <2>3. store'[task[t].mcp] = NoDoc /\ \A m \in Mcps \ {task[t].mcp} : store'[m] = store[m]
    <3>1. Leaves(t, NoDoc)
      BY <2>1, <2>2, LeaveEntries, EmptyDoc
    <3> QED BY <3>1 DEF Leaves
  <2>4. ASSUME NEW m \in Mcps, m # task[t].mcp
        PROVE  Lives(m)
    BY <2>1, <2>3, <2>4, UntouchedLives
  <2>5. ASSUME NEW m \in Mcps, m = task[t].mcp, m \notin clobbered'
        PROVE  Lives(m)
    <3>1. task[t].current
      BY <2>1, <2>5 DEF PutAndLeave, Unseen
    <3>2. store[m].state # "ABSENT"
      BY <1>2, <2>1, <2>5, <3>1 DEF Faithful, Deleting
    <3>3. store'[m].state = "ABSENT" /\ OutputsOf(store'[m]) = {}
      BY <2>3, <2>5, EmptyDoc, OutputsGrow DEF NoDoc
    <3>4. Life(m)!Delete
      BY <2>1, <2>5, <3>2, <3>3 DEF Life!Delete
    <3> QED BY <3>4 DEF Lives, Life!Next
  <2> QED BY <2>4, <2>5
<1>15. CASE UNCHANGED vars
  BY <1>4, <1>15 DEF vars
<1> QED BY <1>5, <1>6, <1>7, <1>8, <1>9, <1>10, <1>11, <1>12, <1>13, <1>14, <1>15
        DEF Next, Execute, Handle, Arrive

\* Each record lives the life RunLifecycle promises, whichever handlers work on
\* the other runs or on its own, until one writes over what it has not seen: so
\* what a caller polls is never a run that was deleted, nor one that forgets
\* what it has named, nor one that leaves READY but by a delete or because its
\* crash handler settled it again.
THEOREM EachRecordLives == Spec => EachLivesOnce
<1>1. TypeOK /\ TypeOK' /\ HandlersInv /\ CopiesInv /\ [Next]_vars
        => [\A m \in Mcps : m \in clobbered' \/ Life(m)!Next \/ UNCHANGED Life(m)!vars]_vars
  BY StepLives DEF Lives
<1> QED BY <1>1, HandlersTypeCorrect, HandlersExclude, CopiesAreFaithful, PTL
        DEF Spec, EachLivesOnce

-----------------------------------------------------------------------------
(***************************************************************************)
(* The books of one step.                                                  *)
(***************************************************************************)
\* What exists of other runs is none of a handler's business.
Apart(m) ==
  \A k \in Mcps \ {m} :
    /\ k \in services' <=> k \in services
    /\ \A c \in Executions : /\ <<k, c>> \in collections' <=> <<k, c>> \in collections
                             /\ <<k, c>> \in engine' <=> <<k, c>> \in engine

LEMMA SameBooks ==
  ASSUME TypeOK, NEW m \in Mcps, Books(m), Orderly(m)',
         m \in clobbered => m \in clobbered', raced => raced',
         store'[m] = store[m],
         \A u \in Tasks : (WorksOn(u, m))' <=> WorksOn(u, m),
         \A u \in Tasks : WorksOn(u, m) => /\ task'[u].pc = task[u].pc
                                           /\ task'[u].rec = task[u].rec
                                           /\ task'[u].current = task[u].current,
         m \in services' <=> m \in services,
         \A c \in Executions : /\ <<m, c>> \in collections' <=> <<m, c>> \in collections
                               /\ <<m, c>> \in engine' <=> <<m, c>> \in engine
  PROVE  (Books(m))'
<1>1. Orderly(m)
  BY DEF Orderly
<1>2. \A u \in Tasks : task[u].rec.collection \in Executions
  BY DEF TypeOK, Task, Doc
<1>3. store[m].collection \in Executions
  BY DEF TypeOK, Doc
<1>4. ASSUME NEW u \in Tasks, WorksOn(u, m)
      PROVE  Accounts(m, task'[u], store'[m], services', collections', engine')
  <2>1. Accounts(m, task[u], store[m], services, collections, engine)
    BY <1>1, <1>4 DEF Books
  <2>2. \A d : Accounted(m, d, services, collections) => Accounted(m, d, services', collections')
    BY DEF Accounted
  <2> QED BY <1>2, <1>4, <2>1, <2>2 DEF Accounts
<1>5. ASSUME \A u \in Tasks : ~WorksOn(u, m)
      PROVE  Filed(m, store'[m], services', collections', engine')
  <2>1. Filed(m, store[m], services, collections, engine)
    BY <1>1, <1>5 DEF Books
  <2> QED BY <1>3, <2>1 DEF Filed, Accounted
<1> QED BY <1>4, <1>5 DEF Books

\* The writer at work keeps the books of its run.
LEMMA OwnBooks ==
  ASSUME NEW m \in Mcps, NEW t \in Tasks, Orderly(m)', (WorksOn(t, m))',
         Accounts(m, task'[t], store'[m], services', collections', engine')
  PROVE  (Books(m))'
<1>1. \A u \in Tasks : (WorksOn(u, m))' => u = t
  BY DEF Orderly
<1> QED BY <1>1 DEF Books

\* What a write does to the other entries, whether or not the handler goes on.
LEMMA WriteEntries ==
  ASSUME TypeOK, NEW t \in Tasks, NEW rec \in Doc, NEW to \in Points,
         task[t].mcp \in Mcps, Put(t, rec, to) \/ PutAndLeave(t, rec)
  PROVE  /\ store'[task[t].mcp] = rec
         /\ \A m \in Mcps \ {task[t].mcp} : store'[m] = store[m]
         /\ task'[t].pc = "idle" \/ task'[t].mcp = task[t].mcp
         /\ \A u \in Tasks \ {t} :
              /\ task'[u].pc = task[u].pc /\ task'[u].rec = task[u].rec
              /\ task'[u].mcp = task[u].mcp /\ task'[u].n = task[u].n
              /\ task'[u].current = (task[u].current /\ task[u].mcp # task[t].mcp)
<1>1. CASE Put(t, rec, to)
  <2>1. Puts(t, rec, to)
    BY <1>1, PutEntries
  <2> QED BY <2>1 DEF Puts
<1>2. CASE PutAndLeave(t, rec)
  <2>1. Leaves(t, rec)
    BY <1>2, LeaveEntries
  <2>2. task'[t].pc = "idle"
    BY <2>1 DEF Leaves, Idle
  <2> QED BY <2>1, <2>2 DEF Leaves
<1> QED BY <1>1, <1>2

\* After a put nobody else has a fresh copy, so nobody else was at work.
LEMMA PutOrderly ==
  ASSUME TypeOK, NEW t \in Tasks, NEW rec \in Doc, NEW to \in Points,
         NEW m \in Mcps, task[t].mcp = m,
         Put(t, rec, to) \/ PutAndLeave(t, rec), UNCHANGED raced, Orderly(m)'
  PROVE  /\ task[t].current /\ Orderly(m)
         /\ \A u \in Tasks : WorksOn(u, m) => u = t
         /\ \A u \in Tasks \ {t} : ~(WorksOn(u, m))'
<1>1. \A u \in Tasks \ {t} :
        /\ task'[u].pc = task[u].pc /\ task'[u].mcp = task[u].mcp
        /\ task'[u].current = (task[u].current /\ task[u].mcp # m)
  BY WriteEntries
<1>2. \A u \in Tasks \ {t} : (WorksOn(u, m))' <=> WorksOn(u, m)
  BY <1>1 DEF WorksOn, Writer
<1>3. \A u \in Tasks \ {t} : ~(WorksOn(u, m))'
  <2> SUFFICES ASSUME NEW u \in Tasks \ {t}, (WorksOn(u, m))' PROVE FALSE
    OBVIOUS
  <2>1. task'[u].current /\ task[u].mcp = m
    BY <1>1 DEF Orderly, WorksOn
  <2> QED BY <1>1, <2>1
<1>4. task[t].current /\ m \notin clobbered /\ ~raced
  BY DEF Put, PutAndLeave, Unseen, Orderly
<1>5. \A u \in Tasks : WorksOn(u, m) => u = t
  BY <1>2, <1>3
<1> QED BY <1>3, <1>4, <1>5 DEF Orderly

\* A put, or a put and the end, leaves the other runs' books as they are.
LEMMA PutElsewhere ==
  ASSUME TypeOK, Ledger, NEW t \in Tasks, NEW rec \in Doc, NEW to \in Points,
         task[t].mcp \in Mcps, Put(t, rec, to) \/ PutAndLeave(t, rec), UNCHANGED outside,
         NEW m \in Mcps, m # task[t].mcp, Orderly(m)'
  PROVE  (Books(m))'
<1>1. store'[m] = store[m]
  BY WriteEntries
<1>2. /\ \A u \in Tasks \ {t} :
           /\ task'[u].pc = task[u].pc /\ task'[u].rec = task[u].rec
           /\ task'[u].mcp = task[u].mcp
           /\ task'[u].current = (task[u].current /\ task[u].mcp # task[t].mcp)
      /\ task'[t].pc = "idle" \/ task'[t].mcp # m
  BY WriteEntries
<1>3. \A u \in Tasks : (WorksOn(u, m))' <=> WorksOn(u, m)
  BY <1>2 DEF WorksOn, Writer
<1>4. \A u \in Tasks : WorksOn(u, m) => /\ task'[u].pc = task[u].pc
                                        /\ task'[u].rec = task[u].rec
                                        /\ task'[u].current = task[u].current
  <2>1. \A u \in Tasks : task[u].current \in BOOLEAN
    BY DEF TypeOK, Task
  <2> QED BY <1>2, <2>1 DEF WorksOn
<1>5. m \in clobbered => m \in clobbered'
  BY DEF Put, PutAndLeave, Unseen
<1>6. Books(m)
  BY DEF Ledger
<1> QED BY <1>1, <1>3, <1>4, <1>5, <1>6, SameBooks DEF outside

LEMMA PutLedger ==
  ASSUME TypeOK, Drawn, Ledger, NEW t \in Tasks, NEW rec \in Doc, NEW to \in Points,
         Writer(task[t]), to \notin {"idle", "final", "rescue", "diagnose"}, Put(t, rec, to),
         UNCHANGED outside,
         \A m \in Mcps : \A p :
           /\ m = task[t].mcp /\ p.pc = to /\ p.rec = rec
           /\ Accounts(m, task[t], store[m], services, collections, engine)
           => Accounts(m, p, rec, services, collections, engine)
  PROVE  Ledger'
<1>1. task[t].mcp \in Mcps
  BY OwnRun DEF Writer
<1>a. Puts(t, rec, to)
  BY <1>1, PutEntries
<1>2. \A m \in Mcps : m # task[t].mcp /\ Orderly(m)' => (Books(m))'
  BY <1>1, PutElsewhere
<1>3. ASSUME NEW m \in Mcps, m = task[t].mcp, Orderly(m)'
      PROVE  (Books(m))'
  <2>1. Orderly(m) /\ WorksOn(t, m)
    BY <1>3, PutOrderly DEF outside, WorksOn
  <2>2. Accounts(m, task[t], store[m], services, collections, engine)
    BY <2>1 DEF Ledger, Books
  <2>3. task'[t].pc = to /\ task'[t].rec = rec /\ task'[t].mcp = m /\ store'[m] = rec
    BY <1>3, <1>a DEF Puts
  <2>4. Accounts(m, task'[t], store'[m], services', collections', engine')
    BY <1>3, <2>2, <2>3 DEF outside
  <2>5. (WorksOn(t, m))'
    BY <2>3 DEF WorksOn, Writer
  <2> QED BY <1>3, <2>4, <2>5, OwnBooks
<1>4. \A m \in Mcps : ~Orderly(m)' => (Books(m))'
  BY DEF Books
<1> QED BY <1>2, <1>3, <1>4 DEF Ledger

\* A handler writes and is at work no more: with its books as they are, or, being
\* no writer, with what the document said.
LEMMA LeaveLedger ==
  ASSUME TypeOK, Drawn, Ledger, NEW t \in Tasks, NEW rec \in Doc,
         task[t].pc # "idle", Put(t, rec, "final") \/ PutAndLeave(t, rec), UNCHANGED outside,
         \A m \in Mcps :
           /\ m = task[t].mcp /\ task[t].current
           /\ IF Writer(task[t])
                THEN Accounts(m, task[t], store[m], services, collections, engine)
                ELSE Filed(m, store[m], services, collections, engine)
           => Filed(m, rec, services, collections, engine)
  PROVE  Ledger'
<1>1. task[t].mcp \in Mcps /\ "final" \in Points
  BY OwnRun DEF Points
<1>a. /\ store'[task[t].mcp] = rec
      /\ task'[t].pc \in {"idle", "final"}
  <2>1. CASE Put(t, rec, "final")
    <3>1. Puts(t, rec, "final")
      BY <1>1, <2>1, PutEntries
    <3> QED BY <3>1 DEF Puts
  <2>2. CASE PutAndLeave(t, rec)
    <3>1. Leaves(t, rec)
      BY <1>1, <2>2, LeaveEntries
    <3> QED BY <3>1 DEF Leaves, Idle
  <2> QED BY <2>1, <2>2
<1>2. \A m \in Mcps : m # task[t].mcp /\ Orderly(m)' => (Books(m))'
  BY <1>1, PutElsewhere
<1>3. ASSUME NEW m \in Mcps, m = task[t].mcp, Orderly(m)'
      PROVE  (Books(m))'
  <2>1. /\ task[t].current /\ Orderly(m)
        /\ \A u \in Tasks : WorksOn(u, m) => u = t
        /\ \A u \in Tasks \ {t} : ~(WorksOn(u, m))'
    BY <1>1, <1>3, PutOrderly DEF outside
  <2>4. Filed(m, rec, services, collections, engine)
    <3>1. IF Writer(task[t])
            THEN Accounts(m, task[t], store[m], services, collections, engine)
            ELSE Filed(m, store[m], services, collections, engine)
      <4>1. ASSUME ~Writer(task[t])
            PROVE  Filed(m, store[m], services, collections, engine)
        BY <2>1, <4>1 DEF Ledger, Books, WorksOn
      <4> QED BY <1>3, <2>1, <4>1 DEF Ledger, Books, WorksOn
    <3> QED BY <1>3, <2>1, <3>1
  <2>5. task'[t].pc \in {"idle", "final"} /\ store'[m] = rec
    BY <1>3, <1>a
  <2>6. ~(WorksOn(t, m))'
    BY <2>5 DEF WorksOn, Writer
  <2> QED BY <2>1, <2>4, <2>5, <2>6 DEF Books, outside
<1>4. \A m \in Mcps : ~Orderly(m)' => (Books(m))'
  BY DEF Books
<1> QED BY <1>2, <1>3, <1>4 DEF Ledger

\* A writer makes a call.
LEMMA MoveLedger ==
  ASSUME TypeOK, Drawn, Ledger, NEW t \in Tasks, NEW p,
         Writer(task[t]), Writer(p), p.mcp = task[t].mcp, p.current = task[t].current,
         task' = [task EXCEPT ![t] = p], UNCHANGED <<store, clobbered>>,
         raced => raced', ~raced' => Apart(task[t].mcp),
         \A m \in Mcps :
           /\ m = task[t].mcp /\ task[t].current /\ ~raced'
           /\ Accounts(m, task[t], store[m], services, collections, engine)
           => Accounts(m, p, store[m], services', collections', engine')
  PROVE  Ledger'
<1>1. task[t].mcp \in Mcps
  BY OwnRun DEF Writer
<1>2. \A u \in Tasks : task'[u] = IF u = t THEN p ELSE task[u]
  BY DEF TypeOK
<1>3. \A m \in Mcps : \A u \in Tasks : (WorksOn(u, m))' <=> WorksOn(u, m)
  BY <1>2 DEF WorksOn
<1>4. ASSUME NEW m \in Mcps, m # task[t].mcp, Orderly(m)'
      PROVE  (Books(m))'
  <2>1. Apart(task[t].mcp) /\ Books(m)
    BY <1>4 DEF Orderly, Ledger
  <2>2. /\ m \in services' <=> m \in services
        /\ \A c \in Executions : /\ <<m, c>> \in collections' <=> <<m, c>> \in collections
                                 /\ <<m, c>> \in engine' <=> <<m, c>> \in engine
    BY <1>4, <2>1 DEF Apart
  <2>3. \A u \in Tasks : WorksOn(u, m) => /\ task'[u].pc = task[u].pc
                                          /\ task'[u].rec = task[u].rec
                                          /\ task'[u].current = task[u].current
    BY <1>2, <1>4 DEF WorksOn
  <2> QED BY <1>3, <1>4, <2>1, <2>2, <2>3, SameBooks
<1>5. ASSUME NEW m \in Mcps, m = task[t].mcp, Orderly(m)'
      PROVE  (Books(m))'
  <2>1. \A u \in Tasks : task'[u].current = task[u].current
    BY <1>2
  <2>2. Orderly(m) /\ WorksOn(t, m) /\ task[t].current /\ ~raced'
    BY <1>3, <1>5, <2>1 DEF Orderly, WorksOn
  <2>3. Accounts(m, task[t], store[m], services, collections, engine)
    BY <2>2 DEF Ledger, Books
  <2>4. Accounts(m, task'[t], store'[m], services', collections', engine')
    BY <1>2, <1>5, <2>2, <2>3
  <2> QED BY <1>3, <1>5, <2>2, <2>4, OwnBooks
<1>6. \A m \in Mcps : ~Orderly(m)' => (Books(m))'
  BY DEF Books
<1> QED BY <1>4, <1>5, <1>6 DEF Ledger

\* A writer arrives: if it finds the books in order, it takes them over.
LEMMA ArriveLedger ==
  ASSUME TypeOK, Ledger, NEW t \in Tasks, NEW m \in Mcps, NEW p,
         task[t].pc = "idle", Writer(p), p.mcp = m,
         task' = [task EXCEPT ![t] = p], UNCHANGED <<clobbered, outside>>,
         \A k \in Mcps \ {m} : store'[k] = store[k],
         Filed(m, store[m], services, collections, engine)
           => Accounts(m, p, store'[m], services, collections, engine)
  PROVE  Ledger'
<1>1. \A u \in Tasks : task'[u] = IF u = t THEN p ELSE task[u]
  BY DEF TypeOK
<1>2. ASSUME NEW k \in Mcps, k # m, Orderly(k)'
      PROVE  (Books(k))'
  <2>1. \A u \in Tasks : (WorksOn(u, k))' <=> WorksOn(u, k)
    BY <1>1, <1>2 DEF WorksOn, Writer
  <2>2. \A u \in Tasks : WorksOn(u, k) => /\ task'[u].pc = task[u].pc
                                          /\ task'[u].rec = task[u].rec
                                          /\ task'[u].current = task[u].current
    BY <1>1 DEF WorksOn, Writer
  <2>3. Books(k) /\ store'[k] = store[k]
    BY <1>2 DEF Ledger
  <2> QED BY <1>2, <2>1, <2>2, <2>3, SameBooks DEF outside
<1>3. ASSUME Orderly(m)'
      PROVE  (Books(m))'
  <2>1. (WorksOn(t, m))'
    BY <1>1 DEF WorksOn
  <2>2. \A u \in Tasks : ~WorksOn(u, m)
    <3> SUFFICES ASSUME NEW u \in Tasks, WorksOn(u, m) PROVE FALSE
      OBVIOUS
    <3>1. u # t /\ (WorksOn(u, m))'
      BY <1>1 DEF WorksOn, Writer
    <3> QED BY <1>3, <2>1, <3>1 DEF Orderly
  <2>3. Orderly(m)
    BY <1>3, <2>2 DEF Orderly, outside
  <2>4. Filed(m, store[m], services, collections, engine)
    BY <2>2, <2>3 DEF Ledger, Books
  <2>5. Accounts(m, task'[t], store'[m], services', collections', engine')
    BY <1>1, <2>4 DEF outside
  <2> QED BY <1>3, <2>1, <2>5, OwnBooks
<1>4. \A k \in Mcps : ~Orderly(k)' => (Books(k))'
  BY DEF Books
<1> QED BY <1>2, <1>3, <1>4 DEF Ledger

\* Whoever only touches the document comes, looks again or goes, without a write.
LEMMA PassLedger ==
  ASSUME TypeOK, Ledger, NEW t \in Tasks, NEW p, ~Writer(task[t]), ~Writer(p),
         task' = [task EXCEPT ![t] = p], UNCHANGED <<store, clobbered, outside>>
  PROVE  Ledger'
<1>1. \A u \in Tasks : task'[u] = IF u = t THEN p ELSE task[u]
  BY DEF TypeOK
<1>2. ASSUME NEW k \in Mcps, Orderly(k)'
      PROVE  (Books(k))'
  <2>1. \A u \in Tasks : (WorksOn(u, k))' <=> WorksOn(u, k)
    BY <1>1 DEF WorksOn
  <2>2. \A u \in Tasks : WorksOn(u, k) => task'[u] = task[u]
    BY <1>1 DEF WorksOn
  <2>3. Books(k)
    BY DEF Ledger
  <2> QED BY <1>2, <2>1, <2>2, <2>3, SameBooks DEF outside
<1>3. \A k \in Mcps : ~Orderly(k)' => (Books(k))'
  BY DEF Books
<1> QED BY <1>2, <1>3 DEF Ledger

LEMMA FailedLedger ==
  ASSUME TypeOK, Drawn, Ledger, NEW t \in Tasks, task[t].pc \in Executing, Failed(t),
         UNCHANGED outside
  PROVE  Ledger'
<1>1. PICK known \in BOOLEAN :
        Put(t, [task[t].rec EXCEPT
              !.state = Outcome(task[t].rec),
              !.error = task[t].n,
              !.diagnosis = IF known THEN task[t].n ELSE 0],
            "final")
  BY DEF Failed
<1> DEFINE rec == [task[t].rec EXCEPT
              !.state = Outcome(task[t].rec),
              !.error = task[t].n,
              !.diagnosis = IF known THEN task[t].n ELSE 0]
<1>2. task[t].rec \in Doc /\ task[t].n \in Executions
  BY DEF TypeOK, Task
<1>3. rec \in Doc
  BY <1>2, NoExecution, DocUpdates
<1>4. /\ rec.state # "READY"
      /\ rec.service = task[t].rec.service /\ rec.collection = task[t].rec.collection
  BY <1>2 DEF Doc, Outcome
<1>5. Put(t, rec, "final") /\ task[t].pc # "idle" /\ Writer(task[t])
  BY <1>1 DEF Writer, Executing
<1> HIDE DEF rec
<1>6. ASSUME NEW m \in Mcps,
             Accounts(m, task[t], store[m], services, collections, engine)
      PROVE  Filed(m, rec, services, collections, engine)
  BY <1>4, <1>6 DEF Accounts, Accounted, Filed
<1> QED BY <1>3, <1>5, <1>6, LeaveLedger

\* The app's list: what is written is what was read, with or without one's own.
LEMMA ListLedger ==
  ASSUME TypeOK, Drawn, Ledger, NEW t \in Tasks, NEW to, NEW l,
         \/ task[t].pc \in {"attach", "patch"} /\ to \in {"patch", "attached"}
         \/ task[t].pc \in {"detach", "unpatch"} /\ to \in {"unpatch", "remove"},
         task' = [task EXCEPT ![t] = [@ EXCEPT !.pc = to, !.list = l]],
         UNCHANGED <<store, clobbered, services, collections>>, raced => raced',
         ~raced' => Apart(task[t].mcp),
         to = "attached" => Mine(t) \in engine',
         to = "remove" => Mine(t) \notin engine'
  PROVE  Ledger'
<1> DEFINE p == [task[t] EXCEPT !.pc = to, !.list = l]
<1>1. p.pc = to /\ p.mcp = task[t].mcp /\ p.rec = task[t].rec /\ p.current = task[t].current
  BY DEF TypeOK, Task
<1>2. task' = [task EXCEPT ![t] = p]
  BY DEF TypeOK
<1> HIDE DEF p
<1>3. Writer(task[t]) /\ Writer(p)
  BY <1>1 DEF Writer
<1>4. ASSUME NEW m \in Mcps, m = task[t].mcp,
             Accounts(m, task[t], store[m], services, collections, engine)
      PROVE  Accounts(m, p, store[m], services', collections', engine')
  BY <1>1, <1>4 DEF Accounts, Executing, Mine
<1> QED BY <1>1, <1>2, <1>3, <1>4, MoveLedger

LEMMA StepLedger ==
  TypeOK /\ HandlersInv /\ CopiesInv /\ Ledger /\ [Next]_vars => Ledger'
<1> SUFFICES ASSUME TypeOK, HandlersInv, CopiesInv, Ledger, [Next]_vars
             PROVE  Ledger'
  OBVIOUS
<1>0. Drawn
  BY DEF HandlersInv
<1>1. \A t \in Tasks : task[t] \in Task /\ task[t].rec \in Doc /\ task[t].n \in Executions
                       /\ task[t].rec.collection \in Executions
  BY DEF TypeOK, Task, Doc
<1>2. \A m \in Mcps : store[m] \in Doc /\ store[m].collection \in Executions
  BY DEF TypeOK, Doc
<1>3. \A t \in Tasks : task[t].pc # "idle" =>
        Holds(task[t]) /\ (task[t].current => Faithful(task[t], store[task[t].mcp], forgotten))
  BY DEF CopiesInv
<1>4. ASSUME NEW t \in Tasks, NEW m \in Mcps, Create(t, m)
      PROVE  Ledger'
  <2>0. PICK wait \in BOOLEAN :
          /\ task' = [task EXCEPT ![t] =
               [Idle EXCEPT !.pc = "begin", !.mcp = m, !.n = runs + 1, !.waits = wait,
                            !.rec = Announced]]
          /\ store' = IF wait THEN store ELSE [store EXCEPT ![m] = Announced]
    BY <1>4 DEF Create
  <2> DEFINE p == [Idle EXCEPT !.pc = "begin", !.mcp = m, !.n = runs + 1, !.waits = wait,
                               !.rec = Announced]
  <2>1. p.pc = "begin" /\ p.mcp = m /\ p.rec = Announced
    BY DEF Idle
  <2>2. /\ task' = [task EXCEPT ![t] = p] /\ task[t].pc = "idle"
        /\ UNCHANGED <<clobbered, outside>>
        /\ \A k \in Mcps \ {m} : store'[k] = store[k]
    BY <1>4, <2>0 DEF Create, TypeOK
  <2>3. store[m] = NoDoc
    BY <1>0, <1>4 DEF Create, Drawn
  <2> HIDE DEF p
  <2>4. Writer(p)
    BY <2>1 DEF Writer
  <2>5. Filed(m, store[m], services, collections, engine)
          => Accounts(m, p, store'[m], services, collections, engine)
    BY <2>1, <2>3 DEF Filed, Accounts, Accounted, Announced, NoDoc
  <2> QED BY <2>1, <2>2, <2>4, <2>5, ArriveLedger
<1>5. ASSUME NEW t \in Tasks, NEW m \in Mcps, Resume(t, m)
      PROVE  Ledger'
  <2>1. PICK wait \in BOOLEAN : task' = [task EXCEPT ![t] =
         [Idle EXCEPT !.pc = IF wait THEN "begin" ELSE "resume",
                      !.mcp = m, !.n = runs + 1, !.waits = wait, !.rec = store[m]]]
    BY <1>5 DEF Resume
  <2> DEFINE p == [Idle EXCEPT !.pc = IF wait THEN "begin" ELSE "resume",
                               !.mcp = m, !.n = runs + 1, !.waits = wait, !.rec = store[m]]
  <2>2. p.pc \in {"begin", "resume"} /\ p.mcp = m /\ p.rec = store[m]
    BY DEF Idle
  <2>3. /\ task' = [task EXCEPT ![t] = p] /\ task[t].pc = "idle"
        /\ UNCHANGED <<store, clobbered, outside>>
    BY <1>5, <2>1 DEF Resume
  <2> HIDE DEF p
  <2>4. Writer(p)
    BY <2>2 DEF Writer
  <2>5. Filed(m, store[m], services, collections, engine)
          => Accounts(m, p, store'[m], services, collections, engine)
    BY <2>2, <2>3 DEF Filed, Accounts
  <2> QED BY <2>2, <2>3, <2>4, <2>5, ArriveLedger
<1>6. ASSUME NEW t \in Tasks, NEW m \in Mcps, Diagnose(t, m)
      PROVE  Ledger'
  <2> DEFINE p == [Idle EXCEPT !.pc = "diagnose", !.mcp = m,
                               !.rec = [store[m] EXCEPT !.diagnosis = store[m].error]]
  <2>1. p.pc = "diagnose"
    BY DEF Idle
  <2>2. /\ task' = [task EXCEPT ![t] = p] /\ task[t].pc = "idle"
        /\ UNCHANGED <<store, clobbered, outside>>
    BY <1>6 DEF Diagnose
  <2> HIDE DEF p
  <2>3. ~Writer(p) /\ ~Writer(task[t])
    BY <2>1, <2>2 DEF Writer
  <2> QED BY <2>2, <2>3, PassLedger
<1>7. ASSUME NEW t \in Tasks, NEW m \in Mcps, Delete(t, m)
      PROVE  Ledger'
  <2> DEFINE p == [Idle EXCEPT !.pc = IF store[m].collection # 0 THEN "detach" ELSE "remove",
                               !.mcp = m,
                               !.rec = [NoDoc EXCEPT !.collection = store[m].collection]]
  <2>1. /\ p.pc \in {"detach", "remove"} /\ p.mcp = m
        /\ p.rec.collection = store[m].collection /\ p.rec.state = "ABSENT"
        /\ p.pc = "remove" => p.rec.collection = 0
    BY DEF Idle, NoDoc
  <2>2. /\ task' = [task EXCEPT ![t] = p] /\ task[t].pc = "idle"
        /\ UNCHANGED <<store, clobbered, outside>>
    BY <1>7 DEF Delete
  <2> HIDE DEF p
  <2>3. Writer(p)
    BY <2>1 DEF Writer
  <2>4. Filed(m, store[m], services, collections, engine)
          => Accounts(m, p, store'[m], services, collections, engine)
    BY <2>1, <2>2 DEF Filed, Accounts, Executing
  <2> QED BY <2>1, <2>2, <2>3, <2>4, ArriveLedger
<1>8. ASSUME NEW t \in Tasks, NEW r \in Doc, NEW to \in {"begin", "deploy"},
             task[t].pc \in {"resume", "begin"}, Put(t, r, to), UNCHANGED outside,
             r.service = task[t].rec.service, r.collection = task[t].rec.collection
      PROVE  Ledger'
  <2>1. Writer(task[t]) /\ to \in Points
    BY <1>8 DEF Writer, Points, Executing
  <2>2. ASSUME NEW m \in Mcps, NEW p, p.pc = to, p.rec = r,
               Accounts(m, task[t], store[m], services, collections, engine)
        PROVE  Accounts(m, p, r, services, collections, engine)
    BY <1>8, <2>2 DEF Accounts, Accounted, Executing
  <2> QED BY <1>0, <1>8, <2>1, <2>2, PutLedger
<1>9. ASSUME NEW t \in Tasks, Announce(t)
      PROVE  Ledger'
  <2> DEFINE r == [task[t].rec EXCEPT !.state = "RUNNING"]
  <2>1. r \in Doc
    BY <1>1, DocUpdates
  <2>2. r.service = task[t].rec.service /\ r.collection = task[t].rec.collection
    BY <1>1 DEF Doc
  <2>3. Put(t, r, "begin") /\ task[t].pc = "resume" /\ UNCHANGED outside
    BY <1>9 DEF Announce
  <2> HIDE DEF r
  <2> QED BY <1>8, <2>1, <2>2, <2>3
<1>10. ASSUME NEW t \in Tasks, Begin(t)
       PROVE  Ledger'
  <2> DEFINE r == Cleared(task[t].rec)
  <2>1. r \in Doc
    BY <1>1, DocUpdates
  <2>2. r.service = task[t].rec.service /\ r.collection = task[t].rec.collection
    BY <1>1 DEF Doc, Cleared
  <2>3. Put(t, r, "deploy") /\ task[t].pc = "begin" /\ UNCHANGED outside
    BY <1>10 DEF Begin
  <2> HIDE DEF r
  <2> QED BY <1>8, <2>1, <2>2, <2>3
<1>11. ASSUME NEW t \in Tasks, Deploy(t)
       PROVE  Ledger'
  <2>1. task[t].pc = "deploy" /\ "deploy" \in Executing /\ Writer(task[t])
    BY <1>11 DEF Deploy, Executing, Writer
  <2>2. CASE Failed(t) /\ UNCHANGED services
    BY <1>0, <1>11, <2>1, <2>2, FailedLedger DEF Deploy, outside
  <2>3. CASE ~(Failed(t) /\ UNCHANGED services)
    <3> DEFINE p == [task[t] EXCEPT !.pc = "deployed", !.rec = [task[t].rec EXCEPT !.service = TRUE]]
    <3>1. /\ p.pc = "deployed" /\ p.mcp = task[t].mcp /\ p.current = task[t].current
          /\ p.rec.service = TRUE /\ p.rec.collection = task[t].rec.collection
      BY <1>1 DEF Task, Doc
    <3>2. /\ task' = [task EXCEPT ![t] = p] /\ UNCHANGED <<store, clobbered>>
          /\ UNCHANGED <<collections, engine, raced>>
          /\ services' = services \union (IF task[t].rec.service THEN {} ELSE {task[t].mcp})
      BY <1>11, <2>3 DEF Deploy, Goes
    <3> HIDE DEF p
    <3>3. Writer(p) /\ Apart(task[t].mcp)
      BY <3>1, <3>2 DEF Writer, Apart
    <3>4. ASSUME NEW m \in Mcps, m = task[t].mcp,
                 Accounts(m, task[t], store[m], services, collections, engine)
          PROVE  Accounts(m, p, store[m], services', collections', engine')
      <4>1. Accounted(m, task[t].rec, services, collections)
        BY <2>1, <3>4 DEF Accounts
      <4>2. Accounted(m, p.rec, services', collections')
        BY <3>1, <3>2, <3>4, <4>1 DEF Accounted
      <4> QED BY <3>1, <4>2 DEF Accounts, Executing
    <3> QED BY <1>0, <2>1, <3>1, <3>2, <3>3, <3>4, MoveLedger
  <2> QED BY <2>2, <2>3
<1>12. ASSUME NEW t \in Tasks, Connect(t)
       PROVE  Ledger'
  <2>1. task[t].pc = "connect" /\ "connect" \in Executing /\ Writer(task[t])
    BY <1>12 DEF Connect, Executing, Writer
  <2>2. CASE Failed(t) /\ UNCHANGED collections
    BY <1>0, <1>12, <2>1, <2>2, FailedLedger DEF Connect, outside
  <2>3. CASE ~(Failed(t) /\ UNCHANGED collections)
    <3> DEFINE p == [task[t] EXCEPT !.pc = "connected",
                                    !.rec = [task[t].rec EXCEPT !.collection = CollectionOf(t)]]
    <3>1. /\ p.pc = "connected" /\ p.mcp = task[t].mcp /\ p.current = task[t].current
          /\ p.rec.service = task[t].rec.service /\ p.rec.collection = CollectionOf(t)
      BY <1>1 DEF Task, Doc
    <3>2. /\ task' = [task EXCEPT ![t] = p] /\ UNCHANGED <<store, clobbered>>
          /\ UNCHANGED <<services, engine, raced>>
          /\ collections' = collections \union {<<task[t].mcp, CollectionOf(t)>>}
      BY <1>12, <2>3 DEF Connect, Goes
    <3> HIDE DEF p
    <3>3. Writer(p) /\ Apart(task[t].mcp)
      BY <3>1, <3>2 DEF Writer, Apart
    <3>4. CollectionOf(t) # 0
      BY <1>3, <2>1 DEF CollectionOf, Holds
    <3>5. ASSUME NEW m \in Mcps, m = task[t].mcp,
                 Accounts(m, task[t], store[m], services, collections, engine)
          PROVE  Accounts(m, p, store[m], services', collections', engine')
      <4>1. Accounted(m, task[t].rec, services, collections)
        BY <2>1, <3>5 DEF Accounts
      <4>2. \A c \in Executions : <<m, c>> \in collections' <=> c = CollectionOf(t)
        BY <3>2, <3>4, <3>5, <4>1 DEF Accounted, CollectionOf
      <4>3. Accounted(m, p.rec, services', collections')
        BY <3>1, <3>2, <3>4, <4>1, <4>2 DEF Accounted
      <4> QED BY <3>1, <4>3 DEF Accounts, Executing
    <3> QED BY <1>0, <2>1, <3>1, <3>2, <3>3, <3>5, MoveLedger
  <2> QED BY <2>2, <2>3
<1>13. ASSUME NEW t \in Tasks, PublishStage(t)
       PROVE  Ledger'
  <2>1. PICK to \in {"connect", "attach", "wired"} :
          Put(t, task[t].rec, to) /\ (to = "wired" => task[t].pc = "attached")
    BY <1>13 DEF PublishStage
  <2>2. /\ Writer(task[t]) /\ to \in Points /\ task[t].pc \in Executing
        /\ to \in Executing /\ UNCHANGED outside
    BY <1>13, <2>1 DEF PublishStage, Writer, Points, Executing
  <2>3. ASSUME NEW m \in Mcps, NEW p, p.pc = to, p.rec = task[t].rec,
               Accounts(m, task[t], store[m], services, collections, engine)
        PROVE  Accounts(m, p, task[t].rec, services, collections, engine)
    BY <2>1, <2>2, <2>3 DEF Accounts
  <2>4. to \notin {"idle", "final", "rescue", "diagnose"}
    BY <2>1
  <2> QED BY <1>0, <1>1, <2>1, <2>2, <2>3, <2>4, PutLedger
<1>14. ASSUME NEW t \in Tasks, Conclude(t)
       PROVE  Ledger'
  <2>1. PICK s \in {"STOPPED", "READY"} :
          /\ Put(t, [task[t].rec EXCEPT !.state = s], "final")
          /\ s = "READY" => task[t].pc = "wired"
    BY <1>14 DEF Conclude
  <2> DEFINE r == [task[t].rec EXCEPT !.state = s]
  <2>2. r \in Doc
    BY <1>1, <2>1, DocUpdates
  <2>3. r.state = s /\ r.service = task[t].rec.service /\ r.collection = task[t].rec.collection
    BY <1>1 DEF Doc
  <2>4. /\ Put(t, r, "final") /\ task[t].pc \in Executing /\ task[t].pc # "idle"
        /\ Writer(task[t]) /\ UNCHANGED outside
    BY <1>14, <2>1 DEF Conclude, Executing, Writer
  <2> HIDE DEF r
  <2>5. ASSUME NEW m \in Mcps,
               Accounts(m, task[t], store[m], services, collections, engine)
        PROVE  Filed(m, r, services, collections, engine)
    BY <2>1, <2>3, <2>4, <2>5 DEF Accounts, Accounted, Filed
  <2> QED BY <1>0, <2>2, <2>4, <2>5, LeaveLedger
<1>15. ASSUME NEW t \in Tasks, Final(t) \/ Rescue(t) \/ CacheDiagnosis(t)
       PROVE  Ledger'
  <2>1. /\ task[t].pc \in {"final", "rescue", "diagnose"} /\ ~Writer(task[t])
        /\ UNCHANGED outside
    BY <1>15 DEF Final, Rescue, CacheDiagnosis, Writer
  <2>2. CASE PutAndLeave(t, task[t].rec)
    <3>1. ASSUME NEW m \in Mcps, m = task[t].mcp, task[t].current,
                 Filed(m, store[m], services, collections, engine)
          PROVE  Filed(m, task[t].rec, services, collections, engine)
      <4>1. Faithful(task[t], store[m], forgotten) /\ store[m] \in Doc
        BY <1>2, <1>3, <2>1, <3>1
      <4>2. /\ task[t].rec.state = store[m].state \/ task[t].rec.state = Outcome(store[m])
            /\ task[t].rec.service = store[m].service
            /\ task[t].rec.collection = store[m].collection
        BY <2>1, <4>1 DEF Faithful, Crashed, Doc
      <4> QED BY <3>1, <4>2 DEF Filed, Accounted, Outcome
    <3> QED BY <1>0, <1>1, <2>1, <2>2, <3>1, LeaveLedger
  <2>3. CASE GiveUp(t)
    <3>1. ~Writer(Idle)
      BY DEF Writer, Idle
    <3> QED BY <2>1, <2>3, <3>1, PassLedger DEF GiveUp
  <2>4. CASE Goes(t, Crashed(store[task[t].mcp], task[t].n), "rescue")
    <3>1. ~Writer([task[t] EXCEPT !.pc = "rescue",
                                  !.rec = Crashed(store[task[t].mcp], task[t].n)])
      BY <1>1 DEF Writer, Task
    <3> QED BY <2>1, <2>4, <3>1, PassLedger DEF Goes
  <2> QED BY <1>15, <2>2, <2>3, <2>4 DEF Final, Rescue, CacheDiagnosis
<1>17. ASSUME NEW t \in Tasks, Remove(t)
       PROVE  Ledger'
  <2> DEFINE p == [task[t] EXCEPT !.pc = "forget", !.rec = NoDoc]
  <2>1. p.pc = "forget" /\ p.mcp = task[t].mcp /\ p.current = task[t].current
    BY <1>1 DEF Task
  <2>2. /\ task' = [task EXCEPT ![t] = p] /\ UNCHANGED <<store, clobbered, engine, raced>>
        /\ task[t].pc = "remove"
        /\ collections' = collections \ ({Mine(t)} \ engine)
        /\ services' = services \ {task[t].mcp}
    BY <1>17 DEF Remove, Goes
  <2> HIDE DEF p
  <2>3. Writer(task[t]) /\ Writer(p) /\ Apart(task[t].mcp)
    BY <2>1, <2>2 DEF Writer, Apart, Mine
  <2>4. ASSUME NEW m \in Mcps, m = task[t].mcp, task[t].current,
               Accounts(m, task[t], store[m], services, collections, engine)
        PROVE  Accounts(m, p, store[m], services', collections', engine')
    <3>1. /\ Accounted(m, store[m], services, collections)
          /\ task[t].rec.collection = 0 \/ Mine(t) \notin engine
      BY <2>2, <2>4 DEF Accounts, Mine
    <3>2. task[t].rec.collection = store[m].collection
      BY <1>3, <2>2, <2>4 DEF Faithful
    <3>3. \A c \in Executions : <<m, c>> \notin collections'
      BY <2>2, <2>4, <3>1, <3>2 DEF Accounted, Mine
    <3>4. Accounted(m, NoDoc, services', collections')
      BY <2>2, <2>4, <3>3 DEF Accounted, NoDoc
    <3> QED BY <2>1, <3>4 DEF Accounts, Executing
  <2> QED BY <1>0, <2>1, <2>2, <2>3, <2>4, MoveLedger
<1>18. ASSUME NEW t \in Tasks, Forget(t)
       PROVE  Ledger'
  <2>1. /\ task[t].pc = "forget" /\ Writer(task[t]) /\ PutAndLeave(t, NoDoc)
        /\ UNCHANGED outside
    BY <1>18 DEF Forget, Writer
  <2>2. ASSUME NEW m \in Mcps,
               Accounts(m, task[t], store[m], services, collections, engine)
        PROVE  Filed(m, NoDoc, services, collections, engine)
    BY <2>1, <2>2 DEF Accounts, Filed, NoDoc
  <2> QED BY <1>0, EmptyDoc, <2>1, <2>2, LeaveLedger
<1>19. ASSUME NEW t \in Tasks, Attach(t) \/ Patch(t)
       PROVE  Ledger'
  <2>1. task[t].pc \in {"attach", "patch"} /\ task[t].pc \in Executing
    BY <1>19 DEF Attach, Patch, Executing
  <2>2. CASE Failed(t) /\ UNCHANGED outside
    BY <1>0, <2>1, <2>2, FailedLedger
  <2>3. CASE Attach(t) /\ ~(Failed(t) /\ UNCHANGED outside)
    <3>1. PICK to \in {"patch", "attached"}, l \in {{}, engine} :
            /\ task' = [task EXCEPT ![t] = [@ EXCEPT !.pc = to, !.list = l]]
            /\ to = "attached" => Mine(t) \in engine
      BY <2>3 DEF Attach, ReadList
    <3>2. UNCHANGED <<store, clobbered, services, collections, engine, raced>>
      BY <2>3 DEF Attach, outside
    <3>3. Apart(task[t].mcp)
      BY <3>2 DEF Apart
    <3> QED BY <1>0, <2>1, <3>1, <3>2, <3>3, ListLedger
  <2>4. CASE Patch(t) /\ ~(Failed(t) /\ UNCHANGED outside)
    <3>1. /\ task' = [task EXCEPT ![t] = [@ EXCEPT !.pc = "attached", !.list = {}]]
          /\ UNCHANGED <<store, clobbered, services, collections>>
      BY <2>4 DEF Patch, ListWritten, outside
    <3>2. engine' = task[t].list \union {Mine(t)} /\ raced' = (raced \/ engine # task[t].list)
      BY <2>4 DEF Patch, WriteList, outside
    <3>3. ~raced' => Apart(task[t].mcp)
      BY <3>1, <3>2 DEF Apart, Mine
    <3>4. (raced => raced') /\ Mine(t) \in engine'
      BY <3>2
    <3> QED BY <1>0, <2>1, <3>1, <3>3, <3>4, ListLedger
  <2> QED BY <1>19, <2>2, <2>3, <2>4
<1>20. ASSUME NEW t \in Tasks, Detach(t)
       PROVE  Ledger'
  <2>1. PICK to \in {"remove", "unpatch"}, l \in {{}, engine} :
          /\ task' = [task EXCEPT ![t] = [@ EXCEPT !.pc = to, !.list = l]]
          /\ to = "remove" => Mine(t) \notin engine
    BY <1>20 DEF Detach, ReadList
  <2>2. UNCHANGED <<store, clobbered, services, collections, engine, raced>>
        /\ task[t].pc = "detach"
    BY <1>20 DEF Detach, outside
  <2>3. Apart(task[t].mcp)
    BY <2>2 DEF Apart
  <2> QED BY <1>0, <2>1, <2>2, <2>3, ListLedger
<1>21. ASSUME NEW t \in Tasks, Unpatch(t)
       PROVE  Ledger'
  <2>1. PICK to \in {"remove"}, l \in {{}} :
        /\ task' = [task EXCEPT ![t] = [@ EXCEPT !.pc = to, !.list = l]]
        /\ UNCHANGED <<store, clobbered, services, collections>> /\ task[t].pc \in {"detach", "unpatch"}
    BY <1>21 DEF Unpatch, ListWritten
  <2>2. engine' = task[t].list \ {Mine(t)} /\ raced' = (raced \/ engine # task[t].list)
    BY <1>21 DEF Unpatch, WriteList, Detached
  <2>3. ~raced' => Apart(task[t].mcp)
    BY <2>1, <2>2 DEF Apart, Mine
  <2>4. (raced => raced') /\ Mine(t) \notin engine'
    BY <2>2
  <2> QED BY <1>0, <2>1, <2>3, <2>4, ListLedger
<1>22. CASE UNCHANGED vars
  BY <1>22 DEF vars, Ledger, Books, Orderly, WorksOn, Writer
<1> QED BY <1>4, <1>5, <1>6, <1>7, <1>9, <1>10, <1>11, <1>12, <1>13, <1>14, <1>15,
           <1>17, <1>18, <1>19, <1>20, <1>21, <1>22
        DEF Next, Execute, Handle, Arrive

\* The books of a run balance at every point of every handler, as long as at
\* most one writer is at work on it and the app's list is not written over
\* unseen: what exists is what the writer's copy, or the document, names.
THEOREM BooksBalance == Spec => []Ledger
<1>1. Init => Ledger
  <2> SUFFICES ASSUME Init PROVE Ledger
    OBVIOUS
  <2>1. /\ \A t \in Tasks : task[t].pc = "idle"
        /\ \A m \in Mcps : store[m] = NoDoc
        /\ services = {} /\ collections = {}
    BY DEF Init, Idle
  <2> QED BY <2>1 DEF Ledger, Books, WorksOn, Writer, Filed, Accounted, NoDoc
<1>2. TypeOK /\ HandlersInv /\ CopiesInv /\ Ledger /\ [Next]_vars => Ledger'
  BY StepLedger
<1> QED BY <1>1, <1>2, HandlersTypeCorrect, HandlersExclude, CopiesAreFaithful, PTL DEF Spec

LEMMA QuietBooks ==
  ASSUME TypeOK, Ledger, NEW m \in Mcps \ clobbered, Quiet(m), ~raced
  PROVE  Filed(m, store[m], services, collections, engine)
<1>1. \A t \in Tasks : ~WorksOn(t, m)
  BY DEF Quiet, WorksOn
<1> QED BY <1>1 DEF Ledger, Books, Orderly

\* A run nobody works on has left nothing its record does not name: whoever
\* deleted it, resumed it or failed half way through it.
THEOREM NothingIsForgotten == Spec => []NothingForgotten
<1>1. TypeOK /\ Ledger => NothingForgotten
  <2> SUFFICES ASSUME TypeOK, Ledger, NEW m \in Mcps \ clobbered, Quiet(m), ~raced
               PROVE  /\ store[m].service <=> m \in services
                      /\ {c \in collections : c[1] = m} =
                           {<<m, store[m].collection>>} \ {<<m, 0>>}
    BY DEF NothingForgotten
  <2>1. Accounted(m, store[m], services, collections)
    BY QuietBooks DEF Filed
  <2>2. store[m].collection \in Executions
    BY DEF TypeOK, Doc
  <2>3. \A c \in collections : c[1] = m => c[2] \in Executions /\ c = <<m, c[2]>>
    BY DEF TypeOK
  <2>4. \A c \in collections : c[1] = m => c = <<m, store[m].collection>> /\ c # <<m, 0>>
    BY <2>1, <2>3 DEF Accounted
  <2>5. store[m].collection # 0 => <<m, store[m].collection>> \in collections
    BY <2>1, <2>2 DEF Accounted
  <2> QED BY <2>1, <2>4, <2>5 DEF Accounted
<1> QED BY <1>1, HandlersTypeCorrect, BooksBalance, PTL

\* A run that succeeded stays on its app while others are attached and deleted.
THEOREM AttachmentsAlwaysKept == Spec => []AttachmentsKept
<1>1. TypeOK /\ Ledger => AttachmentsKept
  BY QuietBooks DEF AttachmentsKept, Filed
<1> QED BY <1>1, HandlersTypeCorrect, BooksBalance, PTL

-----------------------------------------------------------------------------
(***************************************************************************)
(* Handlers in turn.  The properties except a run whose document, or the   *)
(* app whose list, was written over unseen.  Nothing but an overlap does   *)
(* that: if no two handlers of one run are in progress at a time, and no   *)
(* two are about to write the app's list, there is nothing to except.      *)
(***************************************************************************)
InTurn ==
  \A t, u \in Tasks :
    task[t].pc # "idle" /\ task[u].pc # "idle" /\ task[t].mcp = task[u].mcp => t = u

Listing(t) == task[t].pc \in {"patch", "unpatch"}

ListsInTurn == \A t, u \in Tasks : Listing(t) /\ Listing(u) => t = u

\* Whoever is in progress has seen the last write.
AllSeen == clobbered = {} /\ \A t \in Tasks : task[t].pc # "idle" => task[t].current

ListSeen == ~raced /\ \A t \in Tasks : Listing(t) => task[t].list = engine

\* A write of a document, by the only handler of its run.
LEMMA WriteSeen ==
  ASSUME TypeOK, InTurn, AllSeen, NEW t \in Tasks, task[t].pc # "idle",
         NEW rec, NEW to, Put(t, rec, to) \/ PutAndLeave(t, rec)
  PROVE  AllSeen'
<1>1. clobbered' = {}
  BY DEF AllSeen, Put, PutAndLeave, Unseen
<1>2. \E next : next.current /\ task' = Stale(t, next, task[t].mcp)
  <2>1. [task[t] EXCEPT !.pc = to, !.rec = rec, !.list = {}, !.current = TRUE].current
    BY DEF TypeOK, Task
  <2>2. Idle.current
    BY DEF Idle
  <2> QED BY <2>1, <2>2 DEF Put, PutAndLeave
<1>3. ASSUME NEW u \in Tasks \ {t}, task'[u].pc # "idle"
      PROVE  task'[u].current
  <2>1. task'[u] = task[u] \/ (task[u].mcp = task[t].mcp /\ task'[u].pc = task[u].pc)
    BY <1>2 DEF Stale, TypeOK, Task
  <2> QED BY <1>3, <2>1 DEF InTurn, AllSeen
<1> QED BY <1>1, <1>2, <1>3 DEF AllSeen, Stale

\* A step that changes the handler's own entry alone.
LEMMA MoveSeen ==
  ASSUME TypeOK, AllSeen, NEW t \in Tasks, NEW p, task' = [task EXCEPT ![t] = p],
         p.pc # "idle" => p.current, UNCHANGED clobbered
  PROVE  AllSeen'
BY DEF TypeOK, AllSeen

LEMMA StepSeen == TypeOK /\ InTurn /\ AllSeen /\ [Next]_vars => AllSeen'
<1> SUFFICES ASSUME TypeOK, InTurn, AllSeen, [Next]_vars PROVE AllSeen'
  OBVIOUS
<1>1. \A t \in Tasks : task[t] \in Task /\ (task[t].pc # "idle" => task[t].current)
  BY DEF TypeOK, AllSeen
<1>2. ASSUME NEW t \in Tasks, NEW m \in Mcps, Arrive(t, m) PROVE AllSeen'
  <2>1. \E p : p.current /\ task' = [task EXCEPT ![t] = p]
    BY <1>2 DEF Arrive, Create, Resume, Diagnose, Delete, Idle
  <2>2. UNCHANGED clobbered
    BY <1>2 DEF Arrive, Create, Resume, Diagnose, Delete
  <2> QED BY <2>1, <2>2, MoveSeen
<1>3. ASSUME NEW t \in Tasks, NEW rec, NEW to, task[t].pc # "idle", Goes(t, rec, to)
      PROVE  AllSeen'
  <2>1. [task[t] EXCEPT !.pc = to, !.rec = rec].current
    BY <1>1, <1>3 DEF Task
  <2> QED BY <1>3, <2>1, MoveSeen DEF Goes
<1>4. ASSUME NEW t \in Tasks, NEW to, NEW l, task[t].pc # "idle", UNCHANGED clobbered,
             task' = [task EXCEPT ![t] = [@ EXCEPT !.pc = to, !.list = l]]
      PROVE  AllSeen'
  <2>1. [task[t] EXCEPT !.pc = to, !.list = l].current
    BY <1>1, <1>4 DEF Task
  <2> QED BY <1>4, <2>1, MoveSeen
<1>5. ASSUME NEW t \in Tasks, Announce(t) \/ Begin(t) \/ PublishStage(t) \/ Conclude(t)
                              \/ Forget(t)
      PROVE  AllSeen'
  <2>1. task[t].pc # "idle" /\ \E rec, to : Put(t, rec, to) \/ PutAndLeave(t, rec)
    BY <1>5 DEF Announce, Begin, PublishStage, Conclude, Forget
  <2> QED BY <2>1, WriteSeen
<1>6. ASSUME NEW t \in Tasks, task[t].pc # "idle", Failed(t) PROVE AllSeen'
  BY <1>6, WriteSeen DEF Failed
<1>7. ASSUME NEW t \in Tasks, Deploy(t) \/ Connect(t) \/ Remove(t) PROVE AllSeen'
  BY <1>3, <1>6, <1>7 DEF Deploy, Connect, Remove
<1>8. ASSUME NEW t \in Tasks, Attach(t) \/ Patch(t) \/ Detach(t) \/ Unpatch(t) PROVE AllSeen'
  BY <1>4, <1>6, <1>8 DEF Attach, Patch, Detach, Unpatch, ReadList, ListWritten
<1>9. ASSUME NEW t \in Tasks, Final(t) \/ Rescue(t) \/ CacheDiagnosis(t) PROVE AllSeen'
  <2>1. Idle.current /\ task[t].pc # "idle"
    BY <1>9 DEF Idle, Final, Rescue, CacheDiagnosis
  <2>2. CASE GiveUp(t)
    BY <2>1, <2>2, MoveSeen DEF GiveUp
  <2> QED BY <1>3, <1>9, <2>1, <2>2, WriteSeen DEF Final, Rescue, CacheDiagnosis
<1>10. CASE UNCHANGED vars
  BY <1>10 DEF vars, AllSeen
<1> QED BY <1>2, <1>5, <1>7, <1>8, <1>9, <1>10 DEF Next, Execute, Handle

\* The list stays as it is, and so does every copy of it that is about to be written.
LEMMA ListStays ==
  ASSUME ListSeen, UNCHANGED <<engine, raced>>,
         \A u \in Tasks : Listing(u)' => \/ Listing(u) /\ task'[u].list = task[u].list
                                         \/ task'[u].list = engine
  PROVE  ListSeen'
BY DEF ListSeen

LEMMA StepLists == TypeOK /\ ListsInTurn /\ ListSeen /\ [Next]_vars => ListSeen'
<1> SUFFICES ASSUME TypeOK, ListsInTurn, ListSeen, [Next]_vars PROVE ListSeen'
  OBVIOUS
<1> USE DEF outside
<1>1. \A t \in Tasks : task[t] \in Task
  BY DEF TypeOK
<1>2. ASSUME NEW t \in Tasks, NEW p, UNCHANGED <<engine, raced>>,
             task' = [task EXCEPT ![t] = p],
             p.pc \in {"patch", "unpatch"} => p.list = engine
      PROVE  ListSeen'
  <2>1. \A u \in Tasks : task'[u] = IF u = t THEN p ELSE task[u]
    BY <1>2 DEF TypeOK
  <2> QED BY <1>2, <2>1, ListStays DEF Listing
<1>3. ASSUME NEW t \in Tasks, NEW m \in Mcps, Arrive(t, m) PROVE ListSeen'
  <2>1. \E p : p.pc \notin {"patch", "unpatch"} /\ task' = [task EXCEPT ![t] = p]
    BY <1>3 DEF Arrive, Create, Resume, Diagnose, Delete, Idle
  <2>2. UNCHANGED <<engine, raced>>
    BY <1>3 DEF Arrive, Create, Resume, Diagnose, Delete
  <2> QED BY <1>2, <2>1, <2>2
<1>4. ASSUME NEW t \in Tasks, NEW rec, NEW to, to \notin {"patch", "unpatch"},
             Put(t, rec, to) \/ PutAndLeave(t, rec), UNCHANGED <<engine, raced>>
      PROVE  ListSeen'
  <2>1. \E next : next.pc \notin {"patch", "unpatch"} /\ task' = Stale(t, next, task[t].mcp)
    <3>1. [task[t] EXCEPT !.pc = to, !.rec = rec, !.list = {}, !.current = TRUE].pc = to
      BY <1>1 DEF Task
    <3>2. Idle.pc = "idle"
      BY DEF Idle
    <3> QED BY <1>4, <3>1, <3>2 DEF Put, PutAndLeave
  <2>2. \A u \in Tasks \ {t} : task'[u].pc = task[u].pc /\ task'[u].list = task[u].list
    BY <1>1, <2>1 DEF Stale, Task
  <2>3. ~Listing(t)'
    BY <2>1 DEF Stale, Listing
  <2> QED BY <1>4, <2>2, <2>3, ListStays DEF Listing
<1>5. ASSUME NEW t \in Tasks, NEW rec, NEW to, to \notin {"patch", "unpatch"}, Goes(t, rec, to),
             UNCHANGED <<engine, raced>>
      PROVE  ListSeen'
  <2>1. [task[t] EXCEPT !.pc = to, !.rec = rec].pc = to
    BY <1>1 DEF Task
  <2> QED BY <1>2, <1>5, <2>1 DEF Goes
<1>6. ASSUME NEW t \in Tasks, Failed(t), UNCHANGED <<engine, raced>> PROVE ListSeen'
  BY <1>4, <1>6 DEF Failed
<1>7. ASSUME NEW t \in Tasks, Announce(t) \/ Begin(t) \/ PublishStage(t) \/ Conclude(t)
                              \/ Forget(t)
      PROVE  ListSeen'
  <2>1. \E rec, to : /\ to \notin {"patch", "unpatch"}
                     /\ Put(t, rec, to) \/ PutAndLeave(t, rec)
    BY <1>7 DEF Announce, Begin, PublishStage, Conclude, Forget
  <2>2. UNCHANGED <<engine, raced>>
    BY <1>7 DEF Announce, Begin, PublishStage, Conclude, Forget
  <2> QED BY <1>4, <2>1, <2>2
<1>8. ASSUME NEW t \in Tasks, Deploy(t) \/ Connect(t) \/ Remove(t) PROVE ListSeen'
  BY <1>5, <1>6, <1>8 DEF Deploy, Connect, Remove
<1>9. ASSUME NEW t \in Tasks, NEW to, NEW l,
             task' = [task EXCEPT ![t] = [@ EXCEPT !.pc = to, !.list = l]]
      PROVE  /\ l = engine \/ to \notin {"patch", "unpatch"} =>
                  (UNCHANGED <<engine, raced>> => ListSeen')
             /\ \A u \in Tasks : u # t => task'[u] = task[u]
             /\ task'[t].pc = to
  <2>1. /\ [task[t] EXCEPT !.pc = to, !.list = l].pc = to
        /\ [task[t] EXCEPT !.pc = to, !.list = l].list = l
    BY <1>1 DEF Task
  <2> QED BY <1>2, <1>9, <2>1 DEF TypeOK
<1>10. ASSUME NEW t \in Tasks, Attach(t) \/ Detach(t) PROVE ListSeen'
  <2>1. CASE Failed(t) /\ UNCHANGED <<engine, raced>>
    BY <1>6, <2>1
  <2>2. CASE ~(Failed(t) /\ UNCHANGED <<engine, raced>>)
    <3>1. UNCHANGED <<engine, raced>>
      BY <1>10 DEF Attach, Detach
    <3>2. \/ ReadList(t, Mine(t) \in engine, "attached", "patch")
          \/ ReadList(t, Mine(t) \notin engine, "remove", "unpatch")
      BY <1>10, <2>2, <3>1 DEF Attach, Detach
    <3>3. CASE ReadList(t, Mine(t) \in engine, "attached", "patch")
      <4>1. CASE Mine(t) \in engine
        <5>1. PICK to \in {"attached"}, l \in {{}} :
                task' = [task EXCEPT ![t] = [@ EXCEPT !.pc = to, !.list = l]]
          BY <3>3, <4>1 DEF ReadList
        <5> QED BY <1>9, <3>1, <5>1
      <4>2. CASE Mine(t) \notin engine
        <5>1. task' = [task EXCEPT ![t] = [@ EXCEPT !.pc = "patch", !.list = engine]]
          BY <3>3, <4>2 DEF ReadList
        <5> QED BY <1>9, <3>1, <5>1
      <4> QED BY <4>1, <4>2
    <3>4. CASE ReadList(t, Mine(t) \notin engine, "remove", "unpatch")
      <4>1. CASE Mine(t) \notin engine
        <5>1. PICK to \in {"remove"}, l \in {{}} :
                task' = [task EXCEPT ![t] = [@ EXCEPT !.pc = to, !.list = l]]
          BY <3>4, <4>1 DEF ReadList
        <5> QED BY <1>9, <3>1, <5>1
      <4>2. CASE Mine(t) \in engine
        <5>1. task' = [task EXCEPT ![t] = [@ EXCEPT !.pc = "unpatch", !.list = engine]]
          BY <3>4, <4>2 DEF ReadList
        <5> QED BY <1>9, <3>1, <5>1
      <4> QED BY <4>1, <4>2
    <3> QED BY <3>2, <3>3, <3>4
  <2> QED BY <2>1, <2>2
<1>11. ASSUME NEW t \in Tasks, Patch(t) \/ Unpatch(t) PROVE ListSeen'
  <2>1. Listing(t)
    BY <1>11 DEF Patch, Unpatch, Listing
  <2>2. CASE Failed(t) /\ UNCHANGED <<engine, raced>>
    BY <1>6, <2>2
  <2>3. CASE ~(Failed(t) /\ UNCHANGED <<engine, raced>>)
    <3>1. /\ raced' = (raced \/ engine # task[t].list)
          /\ \E to \in {"attached", "remove"} : ListWritten(t, to)
      BY <1>11, <2>3 DEF Patch, Unpatch, WriteList
    <3>2. ~raced'
      BY <2>1, <3>1 DEF ListSeen
    <3>3. PICK to \in {"attached", "remove"} :
            task' = [task EXCEPT ![t] = [@ EXCEPT !.pc = to, !.list = {}]]
      BY <3>1 DEF ListWritten
    <3>4. task'[t].pc = to /\ \A u \in Tasks : u # t => task'[u] = task[u]
      BY <1>9, <3>3
    <3>5. \A u \in Tasks : ~Listing(u)'
      BY <2>1, <3>4 DEF ListsInTurn, Listing
    <3> QED BY <3>2, <3>5 DEF ListSeen
  <2> QED BY <2>2, <2>3
<1>12. ASSUME NEW t \in Tasks, Final(t) \/ Rescue(t) \/ CacheDiagnosis(t) PROVE ListSeen'
  <2>1. Idle.pc = "idle" /\ UNCHANGED <<engine, raced>>
    BY <1>12 DEF Final, Rescue, CacheDiagnosis, Idle
  <2>2. CASE PutAndLeave(t, task[t].rec)
    BY <1>4, <2>1, <2>2
  <2>3. CASE GiveUp(t)
    BY <1>2, <2>1, <2>3 DEF GiveUp
  <2>4. CASE Goes(t, Crashed(store[task[t].mcp], task[t].n), "rescue")
    BY <1>5, <2>1, <2>4
  <2> QED BY <1>12, <2>2, <2>3, <2>4 DEF Final, Rescue, CacheDiagnosis
<1>13. CASE UNCHANGED vars
  BY <1>13 DEF vars, ListSeen, Listing
<1> QED BY <1>3, <1>7, <1>8, <1>10, <1>11, <1>12, <1>13 DEF Next, Execute, Handle

\* An execution is alone with its run, its poller reads RUNNING, and of a run nobody
\* works on the record names what exists; a run that succeeded is on its app.
Undisturbed ==
  /\ clobbered = {} /\ ~raced
  /\ \A t \in Tasks : task[t].pc \in Executing => store[task[t].mcp].state = "RUNNING"
  /\ \A m \in Mcps : Quiet(m) => Filed(m, store[m], services, collections, engine)

\* Handlers in turn do each other no harm: no document and no list is written over
\* unseen, and what is promised of the records holds without an exception.  So an
\* overlap is all that has to be kept from happening (the document writes of
\* records.py and the list of attach_datastore_to_engine are where).
THEOREM InTurnIsHarmless ==
  Spec /\ []InTurn /\ []ListsInTurn =>
    /\ []Undisturbed
    /\ [][\A m \in Mcps : Life(m)!Next \/ UNCHANGED Life(m)!vars]_vars
<1>1. Init => AllSeen /\ ListSeen
  BY DEF Init, AllSeen, ListSeen, Listing, Idle
<1>2. TypeOK /\ InTurn /\ AllSeen /\ [Next]_vars => AllSeen'
  BY StepSeen
<1>3. TypeOK /\ ListsInTurn /\ ListSeen /\ [Next]_vars => ListSeen'
  BY StepLists
<1>4. TypeOK /\ HandlersInv /\ Ledger /\ AllSeen /\ ListSeen => Undisturbed
  <2> SUFFICES ASSUME TypeOK, HandlersInv, Ledger, AllSeen, ListSeen PROVE Undisturbed
    OBVIOUS
  <2>1. clobbered = {} /\ ~raced
    BY DEF AllSeen, ListSeen
  <2>2. ASSUME NEW t \in Tasks, task[t].pc \in Executing
        PROVE  store[task[t].mcp].state = "RUNNING"
    BY <2>1, <2>2 DEF AllSeen, HandlersInv, Told, Executing
  <2>3. ASSUME NEW m \in Mcps, Quiet(m)
        PROVE  Filed(m, store[m], services, collections, engine)
    BY <2>1, <2>3, QuietBooks
  <2> QED BY <2>1, <2>2, <2>3 DEF Undisturbed
<1>5. AllSeen' /\ [\A m \in Mcps : m \in clobbered' \/ Life(m)!Next \/ UNCHANGED Life(m)!vars]_vars
        => [\A m \in Mcps : Life(m)!Next \/ UNCHANGED Life(m)!vars]_vars
  BY DEF AllSeen
<1> QED BY <1>1, <1>2, <1>3, <1>4, <1>5, HandlersTypeCorrect, HandlersExclude, BooksBalance,
           EachRecordLives, PTL DEF Spec, EachLivesOnce
=============================================================================
