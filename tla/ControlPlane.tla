---------------------------- MODULE ControlPlane ----------------------------
(***************************************************************************)
(* The handlers of the control plane at the same time: executions of runs, *)
(* resumes, diagnoses and deletes over one record store, and the runs that *)
(* share a Gemini Enterprise app.  A handler reads a whole document, works *)
(* on its copy and writes or deletes the whole document; the app's list of *)
(* data stores is read, changed and written in the same way.               *)
(*                                                                         *)
(* A run is reduced to what others can interfere with: a service, whose    *)
(* name is the run's, a collection, named by the execution that makes it,  *)
(* and the attachment of that collection.  What a single execution makes   *)
(* of failures, evictions and lost progress writes is Pipeline's subject;  *)
(* here a call, and the put that ends an execution, fails without effect.  *)
(***************************************************************************)
EXTENDS Naturals, FiniteSets

CONSTANTS
  Mcps,     \* the identifiers create_mcp draws
  Tasks,    \* bound: handlers and background tasks at the same time
  MaxRuns   \* bound: executions, first ones and resumed ones

ASSUME MaxRunsAssumption == MaxRuns \in Nat

Executions == 0 .. MaxRuns   \* 0 is none

\* McpRecord: an error, or a diagnosis, is that of the execution it is about.  An
\* internal error is the crash handler's, in the place of what the execution said.
Doc ==
  [state : {"ABSENT", "RUNNING", "STOPPED", "PARTIAL", "FAILED", "READY"},
   service : BOOLEAN, collection : Executions,
   error : Executions, internal : BOOLEAN, diagnosis : Executions]

NoDoc == [state |-> "ABSENT", service |-> FALSE, collection |-> 0,
          error |-> 0, internal |-> FALSE, diagnosis |-> 0]

VARIABLES
  store,      \* the documents
  task,       \* the handlers and executions in progress
  services,   \* runs whose Cloud Run service exists
  collections,\* <<run, execution>> of each collection that exists
  engine,     \* the data stores on the app's list
  runs,       \* executions begun so far
  used,       \* identifiers drawn so far
  forgotten,  \* history: runs whose delete has been answered
  clobbered,  \* history: runs whose document was written over unseen
  raced       \* history: the app's list was written over unseen

vars == <<store, task, services, collections, engine, runs, used,
          forgotten, clobbered, raced>>

\* An execution's way up to its last emit, and the other handlers' points.
Executing == {"deploy", "deployed", "connect", "connected", "attach", "patch",
              "attached", "wired"}
Points == {"idle", "begin", "resume", "final", "rescue", "diagnose", "detach", "unpatch",
           "remove", "forget"} \union Executing

Task ==
  [pc : Points, mcp : Mcps \union {"None"}, n : Executions,
   waits : BOOLEAN,                         \* the caller waits for the execution
   rec : Doc,                               \* the handler's copy
   list : SUBSET (Mcps \X Executions),      \* the app's list as it was read
   current : BOOLEAN]       \* history: nobody wrote since the copy was made

Idle == [pc |-> "idle", mcp |-> "None", n |-> 0, waits |-> FALSE, rec |-> NoDoc,
         list |-> {}, current |-> TRUE]

Init ==
  /\ store = [m \in Mcps |-> NoDoc]
  /\ task = [t \in Tasks |-> Idle]
  /\ services = {} /\ collections = {} /\ engine = {}
  /\ runs = 0 /\ used = {} /\ forgotten = {} /\ clobbered = {} /\ raced = FALSE

-----------------------------------------------------------------------------
(***************************************************************************)
(* What every handler does.                                                *)
(***************************************************************************)
outside == <<services, collections, engine, raced>>

\* Task t goes on as `next'; everyone else's copy of m is now an old one.
Stale(t, next, m) ==
  [u \in Tasks |->
     IF u = t THEN next
     ELSE IF task[u].mcp = m THEN [task[u] EXCEPT !.current = FALSE]
     ELSE task[u]]

Unseen(t) ==
  clobbered' = IF task[t].current THEN clobbered
                                  ELSE clobbered \union {task[t].mcp}

\* records.put: the whole document, whatever is there.
Put(t, rec, to) ==
  LET m == task[t].mcp
  IN  /\ store' = [store EXCEPT ![m] = rec]
      /\ Unseen(t)
      /\ task' = Stale(t, [task[t] EXCEPT !.pc = to, !.rec = rec, !.list = {},
                                          !.current = TRUE], m)

PutAndLeave(t, rec) ==
  LET m == task[t].mcp
  IN  /\ store' = [store EXCEPT ![m] = rec]
      /\ Unseen(t)
      /\ task' = Stale(t, Idle, m)

\* Only the handler's own copy changes.
Goes(t, rec, to) ==
  /\ task' = [task EXCEPT ![t] = [@ EXCEPT !.pc = to, !.rec = rec]]
  /\ UNCHANGED <<store, clobbered>>

-----------------------------------------------------------------------------
(***************************************************************************)
(* POST /v1/mcps, and POST .../resume.  A caller that waits skips the      *)
(* write that announces the run; the execution's first emit is that write. *)
(***************************************************************************)
\* Variant: the record starts in the state the model gives it by default.
AnnouncedByDefault == [NoDoc EXCEPT !.state = "PENDING"]

Announced == [NoDoc EXCEPT !.state = "RUNNING"]

Create(t, m) ==
  /\ task[t].pc = "idle" /\ m \notin used /\ runs < MaxRuns
  /\ runs' = runs + 1 /\ used' = used \union {m}
  /\ \E wait \in BOOLEAN :
       /\ task' = [task EXCEPT ![t] =
            [Idle EXCEPT !.pc = "begin", !.mcp = m, !.n = runs + 1, !.waits = wait,
                         !.rec = Announced]]
       /\ store' = IF wait THEN store ELSE [store EXCEPT ![m] = Announced]
  /\ UNCHANGED <<outside, forgotten, clobbered>>

\* Variant: a resume does not look whether the run is running.
ResumableRunning(rec) == rec.state \notin {"ABSENT", "READY"}

\* Variant: a run that succeeded may be resumed.
ResumableReady(rec) == rec.state \notin {"ABSENT", "RUNNING"}

Resumable(rec) == rec.state \notin {"ABSENT", "RUNNING", "READY"}

Resume(t, m) ==
  /\ task[t].pc = "idle" /\ runs < MaxRuns
  /\ Resumable(store[m])
  /\ runs' = runs + 1
  /\ \E wait \in BOOLEAN :
       task' = [task EXCEPT ![t] =
         [Idle EXCEPT !.pc = IF wait THEN "begin" ELSE "resume",
                      !.mcp = m, !.n = runs + 1, !.waits = wait, !.rec = store[m]]]
  /\ UNCHANGED <<store, outside, used, forgotten, clobbered>>

\* The old error stays on the record until the execution begins.
Announce(t) ==
  /\ task[t].pc = "resume"
  /\ Put(t, [task[t].rec EXCEPT !.state = "RUNNING"], "begin")
  /\ UNCHANGED <<outside, runs, used, forgotten>>

-----------------------------------------------------------------------------
(***************************************************************************)
(* Pipeline.run.                                                           *)
(***************************************************************************)
\* Variant: the diagnosis of the failure that is retried stays.
ClearedButDiagnosis(rec) ==
  [rec EXCEPT !.state = "RUNNING", !.error = 0, !.internal = FALSE]

\* Variant: the execution leaves the state to the handler's write.
ClearedButState(rec) ==
  [rec EXCEPT !.error = 0, !.internal = FALSE, !.diagnosis = 0]

Cleared(rec) ==
  [rec EXCEPT !.state = "RUNNING", !.error = 0, !.internal = FALSE, !.diagnosis = 0]

Begin(t) ==
  /\ task[t].pc = "begin"
  /\ Put(t, Cleared(task[t].rec), "deploy")
  /\ UNCHANGED <<outside, runs, used, forgotten>>

\* McpRecord.usable
Outcome(rec) == IF rec.service THEN "PARTIAL" ELSE "FAILED"

\* A call failed.  A failure a rule knows is diagnosed at once, and the record
\* emitted for the last time.
Failed(t) ==
  \E known \in BOOLEAN :
    Put(t, [task[t].rec EXCEPT
              !.state = Outcome(task[t].rec),
              !.error = task[t].n,
              !.diagnosis = IF known THEN task[t].n ELSE 0],
        "final")

\* What the record names is reused; a service deployed again is the same one.
Deploy(t) ==
  /\ task[t].pc = "deploy"
  /\ \/ /\ services' = services \union (IF task[t].rec.service THEN {} ELSE {task[t].mcp})
        /\ Goes(t, [task[t].rec EXCEPT !.service = TRUE], "deployed")
     \/ Failed(t) /\ UNCHANGED services
  /\ UNCHANGED <<collections, engine, raced, runs, used, forgotten>>

\* Variant: a resumed run takes a collection of its own.
OwnCollection(t) == task[t].n

CollectionOf(t) ==
  IF task[t].rec.collection # 0 THEN task[t].rec.collection ELSE task[t].n

Connect(t) ==
  /\ task[t].pc = "connect"
  /\ \/ /\ collections' = collections \union {<<task[t].mcp, CollectionOf(t)>>}
        /\ Goes(t, [task[t].rec EXCEPT !.collection = CollectionOf(t)], "connected")
     \/ Failed(t) /\ UNCHANGED collections
  /\ UNCHANGED <<services, engine, raced, runs, used, forgotten>>

\* The stage is published; the run then goes on or was told to stop here.
PublishStage(t) ==
  /\ \/ task[t].pc = "deployed"  /\ Put(t, task[t].rec, "connect")
     \/ task[t].pc = "connected" /\ Put(t, task[t].rec, "attach")
     \/ task[t].pc = "attached"  /\ Put(t, task[t].rec, "wired")
  /\ UNCHANGED <<outside, runs, used, forgotten>>

\* A run that is not to stop after deploy or connect ends after the attach.
Conclude(t) ==
  /\ \/ /\ task[t].pc \in {"connect", "attach"}
        /\ Put(t, [task[t].rec EXCEPT !.state = "STOPPED"], "final")
     \/ /\ task[t].pc = "wired"
        /\ Put(t, [task[t].rec EXCEPT !.state = "READY"], "final")
  /\ UNCHANGED <<outside, runs, used, forgotten>>

\* attach_datastore_to_engine: the list is read, and written with one more.
Mine(t) == <<task[t].mcp, task[t].rec.collection>>

ReadList(t, asWanted, done, change) ==
  task' = [task EXCEPT ![t] =
    [@ EXCEPT !.pc = IF asWanted THEN done ELSE change,
              !.list = IF asWanted THEN {} ELSE engine]]

Attach(t) ==
  /\ task[t].pc = "attach"
  /\ \/ /\ ReadList(t, Mine(t) \in engine, "attached", "patch")
        /\ UNCHANGED <<store, clobbered>>
     \/ Failed(t)
  /\ UNCHANGED <<outside, runs, used, forgotten>>

\* The list that is written is the one that was read, changed.
WriteList(t, list) ==
  /\ engine' = list
  /\ raced' = (raced \/ engine # task[t].list)

ListWritten(t, to) == task' = [task EXCEPT ![t] = [@ EXCEPT !.pc = to, !.list = {}]]

Patch(t) ==
  /\ task[t].pc = "patch"
  /\ \/ /\ WriteList(t, task[t].list \union {Mine(t)})
        /\ ListWritten(t, "attached")
        /\ UNCHANGED <<store, clobbered>>
     \/ Failed(t) /\ UNCHANGED <<engine, raced>>
  /\ UNCHANGED <<services, collections, runs, used, forgotten>>

\* A write failed, or the read before it, and nobody tries again.
GiveUp(t) == task' = [task EXCEPT ![t] = Idle] /\ UNCHANGED <<store, clobbered>>

\* What the crash handler makes of the document: a bare one if there is none.
Crashed(doc, n) ==
  [doc EXCEPT !.state = Outcome(doc), !.error = n, !.internal = TRUE]

\* The put of whoever awaited the run, of what was emitted before.  If it fails,
\* a caller that waits is answered 500; the crash handler of a background task
\* reads the document, whoever wrote it last, to settle it in its own way.
Final(t) ==
  /\ task[t].pc = "final"
  /\ \/ PutAndLeave(t, task[t].rec)
     \/ GiveUp(t)
     \/ ~task[t].waits /\ Goes(t, Crashed(store[task[t].mcp], task[t].n), "rescue")
  /\ UNCHANGED <<outside, runs, used, forgotten>>

Rescue(t) ==
  /\ task[t].pc = "rescue"
  /\ PutAndLeave(t, task[t].rec) \/ GiveUp(t)
  /\ UNCHANGED <<outside, runs, used, forgotten>>

-----------------------------------------------------------------------------
(***************************************************************************)
(* POST .../diagnose.  A record that resume announced still has its error. *)
(***************************************************************************)
Diagnosable(rec) == rec.error # 0

Diagnose(t, m) ==
  /\ task[t].pc = "idle"
  /\ Diagnosable(store[m])
  /\ task' = [task EXCEPT ![t] =
       [Idle EXCEPT !.pc = "diagnose", !.mcp = m,
                    !.rec = [store[m] EXCEPT !.diagnosis = store[m].error]]]
  /\ UNCHANGED <<store, outside, runs, used, forgotten, clobbered>>

\* The write is best effort.
CacheDiagnosis(t) ==
  /\ task[t].pc = "diagnose"
  /\ PutAndLeave(t, task[t].rec) \/ GiveUp(t)
  /\ UNCHANGED <<outside, runs, used, forgotten>>

-----------------------------------------------------------------------------
(***************************************************************************)
(* DELETE, whatever the run is doing: by the record as it was read.        *)
(***************************************************************************)
\* Of the copy, only the names of what was created are used.
Delete(t, m) ==
  /\ task[t].pc = "idle" /\ store[m] # NoDoc
  /\ task' = [task EXCEPT ![t] =
       [Idle EXCEPT !.pc = IF store[m].collection # 0 THEN "detach" ELSE "remove",
                    !.mcp = m,
                    !.rec = [NoDoc EXCEPT !.collection = store[m].collection]]]
  /\ UNCHANGED <<store, outside, runs, used, forgotten, clobbered>>

Detach(t) ==
  /\ task[t].pc = "detach"
  /\ ReadList(t, Mine(t) \notin engine, "remove", "unpatch")
  /\ UNCHANGED <<store, outside, runs, used, forgotten, clobbered>>

\* Variant: the detach empties the list.
AllDetached(t) == {}

Detached(t) == task[t].list \ {Mine(t)}

Unpatch(t) ==
  /\ task[t].pc = "unpatch"
  /\ WriteList(t, Detached(t))
  /\ ListWritten(t, "remove")
  /\ UNCHANGED <<store, services, collections, runs, used, forgotten, clobbered>>

\* The collection and the service go; a collection whose data store is on a
\* list cannot.
Remove(t) ==
  /\ task[t].pc = "remove"
  /\ collections' = collections \ ({Mine(t)} \ engine)
  /\ services' = services \ {task[t].mcp}
  /\ Goes(t, NoDoc, "forget")
  /\ UNCHANGED <<engine, raced, runs, used, forgotten>>

Forget(t) ==
  /\ task[t].pc = "forget"
  /\ PutAndLeave(t, NoDoc)
  /\ forgotten' = forgotten \union {task[t].mcp}
  /\ UNCHANGED <<outside, runs, used>>

-----------------------------------------------------------------------------
Execute(t) ==
  \/ Announce(t) \/ Begin(t) \/ Deploy(t) \/ Connect(t) \/ PublishStage(t)
  \/ Attach(t) \/ Patch(t) \/ Conclude(t) \/ Final(t)
  \/ Rescue(t)

Handle(t) ==
  \/ CacheDiagnosis(t) \/ Detach(t) \/ Unpatch(t) \/ Remove(t) \/ Forget(t)

Arrive(t, m) == Create(t, m) \/ Resume(t, m) \/ Diagnose(t, m) \/ Delete(t, m)

Next ==
  \E t \in Tasks : Execute(t) \/ Handle(t) \/ \E m \in Mcps : Arrive(t, m)

Spec == Init /\ [][Next]_vars

-----------------------------------------------------------------------------
(***************************************************************************)
(* Properties.  What the handlers can do to each other, they do by writing *)
(* over a document, or the app's list, that changed since they read it:    *)
(* nothing in the code prevents that, and without it the following holds.  *)
(***************************************************************************)
\* The variables hold what their declarations say.
TypeOK ==
  /\ store \in [Mcps -> Doc]
  /\ task \in [Tasks -> Task]
  /\ services \subseteq Mcps
  /\ collections \subseteq Mcps \X Executions
  /\ engine \subseteq Mcps \X Executions
  /\ runs \in Executions
  /\ used \subseteq Mcps /\ forgotten \subseteq Mcps /\ clobbered \subseteq Mcps
  /\ raced \in BOOLEAN

Quiet(m) == \A t \in Tasks : task[t].mcp # m

\* No two executions work on one run: the check of resume_mcp is enough as long
\* as no handler writes over a document it has not seen.
OneExecution ==
  \A t, u \in Tasks :
    /\ task[t].pc \in Executing /\ task[u].pc \in Executing
    /\ task[t].mcp = task[u].mcp /\ task[t].mcp \notin clobbered
    => t = u

\* While a run is executed its poller reads RUNNING, or nothing once it has
\* been deleted.
StateTells ==
  \A t \in Tasks :
    task[t].pc \in Executing /\ task[t].mcp \notin clobbered
      => store[task[t].mcp].state \in {"RUNNING", "ABSENT"}

\* What an execution has in memory, and what its poller reads: its own last
\* write, or nothing because the run was deleted.
Told ==
  \A t \in Tasks : task[t].pc \in Executing =>
    /\ task[t].rec.state = "RUNNING" /\ task[t].rec.error = 0
    /\ task[t].mcp \notin clobbered =>
         \/ /\ task[t].current
            /\ store[task[t].mcp].state = "RUNNING" /\ store[task[t].mcp].error = 0
         \/ ~task[t].current /\ store[task[t].mcp] = NoDoc

\* Whoever could still write a run's document with a fresh copy in hand.
Holding(p) ==
  p.pc \in {"resume", "begin", "diagnose", "final", "rescue"} /\ p.current

\* An execution is alone: there is no second one, and no such writer.
Alone ==
  \A t, u \in Tasks :
    /\ t # u /\ task[t].mcp = task[u].mcp /\ task[t].mcp \notin clobbered
    /\ task[t].pc \in Executing
    => task[u].pc \notin Executing /\ ~Holding(task[u])

Drawn ==
  /\ \A t \in Tasks : task[t].pc # "idle" => task[t].mcp \in used
  /\ \A m \in Mcps : store[m] # NoDoc => m \in used

\* OneExecution and StateTells made inductive.
HandlersInv == Told /\ Alone /\ Drawn

\* A diagnosis on a record is of the execution whose error the record shows, over
\* resumes, diagnoses and deletes that overlap: a cause that was retried is not
\* shown beside the next one.  The words may still differ, because the crash
\* handler replaces the error and keeps the diagnosis (create_mcp.task).
DiagnosisFits ==
  \A m \in Mcps \ clobbered : store[m].diagnosis \in {0, store[m].error}

\* When nobody works on a run, its record names what exists and all of it: a
\* deleted run has left nothing behind.
NothingForgotten ==
  \A m \in Mcps \ clobbered :
    Quiet(m) /\ ~raced =>
      /\ store[m].service <=> m \in services
      /\ {c \in collections : c[1] = m} =
           {<<m, store[m].collection>>} \ {<<m, 0>>}

\* A run that succeeded is on the app it was made for, whichever other runs were
\* attached or deleted meanwhile, unless the list itself was written over.
AttachmentsKept ==
  \A m \in Mcps \ clobbered :
    store[m].state = "READY" /\ Quiet(m) /\ ~raced
      => <<m, store[m].collection>> \in engine

\* The life of each record is the one RunLifecycle promises, with every other
\* handler at work.
OutputsOf(rec) ==
  (IF rec.service THEN {"service", "registry", "endpoint"} ELSE {})
  \union (IF rec.collection # 0 THEN {"collection", "datastore"} ELSE {})

Life(m) == INSTANCE RunLifecycle
  WITH state <- store[m].state, outputs <- OutputsOf(store[m]),
       deleted <- m \in forgotten

EachLivesOnce ==
  [][\A m \in Mcps : m \in clobbered' \/ Life(m)!Next \/ UNCHANGED Life(m)!vars]_vars
=============================================================================
