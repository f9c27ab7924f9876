--------------------------- MODULE PipelineClaims ---------------------------
(***************************************************************************)
(* What the repository's own words say of a run, where the code does       *)
(* something else.  Each formula is checked by a run of its own, in which  *)
(* TLC finds a behaviour of the code that breaks it.                       *)
(***************************************************************************)
EXTENDS MCPipeline

\* "A run that was deliberately stopped early is being asked to continue, so
\* the instruction that stopped it must not be replayed" (main.py:606): a resume
\* that does not name a stage to stop after runs to the end.
StopNotReplayed ==
  [][Resume(NoOverride) => req'.stop = None]_vars

\* "Reusing the existing registration is what lets a resume get past it at all"
\* (pipeline.py:733): a run is not refused because of its own registration.
OwnRegistrationNoConflict ==
  ~(db.registry /\ db.error = "url_conflict")

\* "a cold-start eviction cannot orphan a half-finished run -- though such a run
\* is resumable rather than lost" (README.md:730): a run nobody executes, and
\* that neither succeeded nor was deleted, may be resumed.
OrphanResumable ==
  pc = "idle" /\ db.state \notin {"ABSENT", "READY"} => Resumable(db)

\* "The collection a failed `connect` named is reused rather than stranded"
\* (README.md:592): however often connect fails, one collection exists.
OneCollection == Cardinality(cloud.collections) <= 1

\* "Anything it could not remove is reported in `manual_cleanup_required`"
\* (README.md:726): a teardown with errors does not report that all is gone.
RemaindersReported ==
  report.errors # {} => report.stranded
=============================================================================
