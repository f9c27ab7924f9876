---------------------------- MODULE RunLifecycle ----------------------------
(***************************************************************************)
(* What a run promises whoever polls GET /v1/mcps/{id}: the life of its    *)
(* record, without stages, calls or crashes.  A run works, settles, may be *)
(* resumed unless it succeeded, and is deleted for good.  A good end may   *)
(* be taken back, a bad one only by a resume.  An output that the record   *)
(* names stays named until the delete, and the outcome tells whether a     *)
(* working server exists.                                                  *)
(***************************************************************************)
EXTENDS FiniteSets

Outputs == {"service", "keySecret", "client", "registry", "endpoint",
            "authorization", "collection", "datastore"}

VARIABLES state,    \* what the record says of the run
          outputs,  \* the outputs it names
          deleted   \* DELETE has been answered

vars == <<state, outputs, deleted>>

\* A registered server that answers somewhere is worth keeping.
Working(o) == {"registry", "endpoint"} \subseteq o

\* The states a run may settle in, by what it has built.
Settled(o) ==
  {"STOPPED", IF Working(o) THEN "PARTIAL" ELSE "FAILED"}
  \union (IF Working(o) /\ {"collection", "datastore"} \subseteq o THEN {"READY"} ELSE {})

TypeOK ==
  /\ state \in {"ABSENT", "RUNNING", "STOPPED", "PARTIAL", "FAILED", "READY"}
  /\ outputs \subseteq Outputs
  /\ deleted \in BOOLEAN

\* A new run names at most the server it was asked to register.
Init == state = "ABSENT" /\ outputs \subseteq {"endpoint"} /\ ~deleted

Start ==
  /\ state = "ABSENT" /\ ~deleted
  /\ state' = "RUNNING" /\ UNCHANGED <<outputs, deleted>>

\* The run has published more of its outputs.
Progress ==
  /\ state = "RUNNING"
  /\ outputs' \in SUBSET Outputs /\ outputs \subseteq outputs'
  /\ UNCHANGED <<state, deleted>>

Settle ==
  /\ state = "RUNNING"
  /\ outputs' \in SUBSET Outputs /\ outputs \subseteq outputs'
  /\ state' \in Settled(outputs')
  /\ UNCHANGED deleted

\* A run that has settled short of success may go on.
Resume ==
  /\ state \in {"STOPPED", "PARTIAL", "FAILED"}
  /\ state' = "RUNNING" /\ UNCHANGED <<outputs, deleted>>

\* A run that ended well is reported as broken after all, because what settled it
\* could not be written a second time.
Recant ==
  /\ state \in {"STOPPED", "READY"}
  /\ state' \in Settled(outputs) \ {"STOPPED", "READY"}
  /\ UNCHANGED <<outputs, deleted>>

Delete ==
  /\ state # "ABSENT"
  /\ state' = "ABSENT" /\ outputs' \subseteq {"endpoint"} /\ deleted' = TRUE

Next == Start \/ Progress \/ Settle \/ Recant \/ Resume \/ Delete

Spec == Init /\ [][Next]_vars
=============================================================================
