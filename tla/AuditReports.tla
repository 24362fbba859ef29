---------------------------- MODULE AuditReports ----------------------------
(***************************************************************************)
(* Audit reports of one tenant: api/audit.go, services/audit_service.go,   *)
(* services/objectstore.go, events/report_queue.go and report_worker.go.   *)
(*                                                                         *)
(* A handler counts the pending reports, inserts a row and publishes a job *)
(* on a Redis stream.  A worker on each pod takes jobs, generates the file *)
(* and uploads it under a name made of the tenant, the second in which the *)
(* report was created and the format, then records the name and completes  *)
(* the row.  Another handler deletes reports.                              *)
(*                                                                         *)
(* One step is one statement, one Redis command or one call of the object  *)
(* store.  The contents of a file are the report it was generated for.     *)
(* The consumer group exists.  XACK is left out: nothing reads the list of *)
(* unacknowledged jobs, so a job is delivered once whatever becomes of it. *)
(***************************************************************************)
EXTENDS Integers, Sequences, FiniteSets

CONSTANTS
    Reports,     \* identities of reports
    None,        \* no report
    Formats,     \* the formats of a file
    Handlers,    \* requests of the API that may run at a time
    Pods,        \* each runs one worker
    MaxPending,  \* 3 in the code
    MaxSecond,   \* bound: seconds
    MaxFailures  \* bound: failures and crashes

ASSUME ReportsAssumption == None \notin Reports /\ Handlers \cap Pods = {} /\ Formats # {}

ASSUME BoundsAssumption == MaxPending \in Nat /\ MaxSecond \in Nat /\ MaxFailures \in Nat

VARIABLES
    row,      \* row[r]: the report's row
    objects,  \* objects[n]: whose contents the object store has under name n
    jobs,     \* the stream: jobs not yet delivered
    task,     \* task[c]: where a handler or worker is, and its report
    second,   \* the clock
    failures, \* failures so far
    asked,    \* history: reports whose deletion has begun
    doubtful  \* history: reports whose XADD was repeated or answered by an error

reportVars == <<row, objects, jobs, task, second, failures, asked, doubtful>>
history == <<asked, doubtful>>

Callers == Handlers \cup Pods
Names == (0..MaxSecond) \X Formats
Statuses == {"absent", "QUEUED", "RUNNING", "COMPLETED", "FAILED", "deleted"}
Absent == [status |-> "absent", name |-> CHOOSE n \in Names : TRUE, keyed |-> FALSE]
Rows == [status : Statuses, name : Names, keyed : BOOLEAN]

HandlerSteps == {"insert", "publish", "unpublished", "object", "row"}
WorkerSteps == {"load", "running", "generate", "name", "upload", "save", "complete", "failed"}
NoTask == [pc |-> "idle", report |-> None]
Tasks == [pc : HandlerSteps \cup WorkerSteps \cup {"idle"}, report : Reports \cup {None}]

Doing(c, pc) == task[c].pc = pc
Goto(c, pc) == task' = [task EXCEPT ![c].pc = pc]
Finish(c) == task' = [task EXCEPT ![c] = NoTask]

Exists(r) == row[r].status \notin {"absent", "deleted"}

\* UpdateStatus: no row, no error.
UpdateStatus(r, status) ==
    row' = IF Exists(r) THEN [row EXCEPT ![r].status = status] ELSE row

InitReports ==
    /\ row = [r \in Reports |-> Absent]
    /\ objects = [n \in Names |-> None]
    /\ jobs = <<>>
    /\ task = [c \in Callers |-> NoTask]
    /\ second = 0
    /\ failures = 0
    /\ asked = {} /\ doubtful = {}

-----------------------------------------------------------------------------
(* handleCreateAuditReport *)

Pending == {r \in Reports : row[r].status \in {"QUEUED", "RUNNING"}}

HasRoom == Cardinality(Pending) < MaxPending

CountPending(h) ==
    /\ task[h] = NoTask
    /\ HasRoom
    /\ Goto(h, "insert")
    /\ UNCHANGED <<row, objects, jobs, second, failures, history>>

Inserted(h, r) == task' = [task EXCEPT ![h] = [pc |-> "publish", report |-> r]]

InsertReport(h) ==
    /\ Doing(h, "insert")
    /\ \E r \in Reports, f \in Formats :
          /\ row[r].status = "absent"
          /\ row' = [row EXCEPT ![r] = [status |-> "QUEUED", name |-> <<second, f>>, keyed |-> FALSE]]
          /\ Inserted(h, r)
    /\ UNCHANGED <<objects, jobs, second, failures, history>>

PublishJob(h) ==
    /\ Doing(h, "publish")
    /\ jobs' = Append(jobs, task[h].report)
    /\ Finish(h)
    /\ UNCHANGED <<row, objects, second, failures, history>>

MarkFailed(h) ==
    /\ Doing(h, "unpublished")
    /\ UpdateStatus(task[h].report, "FAILED")
    /\ Finish(h)
    /\ UNCHANGED <<objects, jobs, second, failures, history>>

-----------------------------------------------------------------------------
(* handleDeleteAuditReport *)

DeletionOf(h, r, pc) == /\ task' = [task EXCEPT ![h] = [pc |-> pc, report |-> r]]
                        /\ asked' = asked \cup {r}

ReadKey(h) ==
    /\ task[h] = NoTask
    /\ \E r \in Reports :
          /\ Exists(r)
          /\ DeletionOf(h, r, IF row[r].keyed THEN "object" ELSE "row")
    /\ UNCHANGED <<row, objects, jobs, second, failures, doubtful>>

DeleteObject(h) ==
    /\ Doing(h, "object")
    /\ objects' = [objects EXCEPT ![row[task[h].report].name] = None]
    /\ Goto(h, "row")
    /\ UNCHANGED <<row, jobs, second, failures, history>>

DeleteRow(h) ==
    /\ Doing(h, "row")
    /\ row' = [row EXCEPT ![task[h].report].status = "deleted"]
    /\ Finish(h)
    /\ UNCHANGED <<objects, jobs, second, failures, history>>

-----------------------------------------------------------------------------
(* processReport *)

\* Mutant: every pod gets every job.
DeliverShared(p) ==
    /\ task[p] = NoTask
    /\ jobs # <<>>
    /\ task' = [task EXCEPT ![p] = [pc |-> "load", report |-> Head(jobs)]]
    /\ UNCHANGED <<row, objects, jobs, second, failures, history>>

Deliver(p) ==
    /\ task[p] = NoTask
    /\ jobs # <<>>
    /\ jobs' = Tail(jobs)
    /\ task' = [task EXCEPT ![p] = [pc |-> "load", report |-> Head(jobs)]]
    /\ UNCHANGED <<row, objects, second, failures, history>>

LoadReport(p) ==
    /\ Doing(p, "load")
    /\ IF Exists(task[p].report) THEN Goto(p, "running") ELSE Finish(p)
    /\ UNCHANGED <<row, objects, jobs, second, failures, history>>

SetRunning(p) ==
    /\ Doing(p, "running")
    /\ UpdateStatus(task[p].report, "RUNNING")
    /\ Goto(p, "generate")
    /\ UNCHANGED <<objects, jobs, second, failures, history>>

\* Filters that do not parse, a failed query and a file that is too large
\* all fail the report.
Generate(p) ==
    /\ Doing(p, "generate")
    /\ Goto(p, "name") \/ Goto(p, "failed")
    /\ UNCHANGED <<row, objects, jobs, second, failures, history>>

LoadName(p) ==
    /\ Doing(p, "name")
    /\ Goto(p, IF Exists(task[p].report) THEN "upload" ELSE "failed")
    /\ UNCHANGED <<row, objects, jobs, second, failures, history>>

Upload(p) ==
    /\ Doing(p, "upload")
    /\ objects' = [objects EXCEPT ![row[task[p].report].name] = task[p].report]
    /\ Goto(p, "save")
    /\ UNCHANGED <<row, jobs, second, failures, history>>

SaveKey(p) ==
    /\ Doing(p, "save")
    /\ row' = IF Exists(task[p].report) THEN [row EXCEPT ![task[p].report].keyed = TRUE] ELSE row
    /\ Goto(p, "complete")
    /\ UNCHANGED <<objects, jobs, second, failures, history>>

SetCompleted(p) ==
    /\ Doing(p, "complete")
    /\ UpdateStatus(task[p].report, "COMPLETED")
    /\ Finish(p)
    /\ UNCHANGED <<objects, jobs, second, failures, history>>

\* Mutant: the error ends the job without a word.
SetFailedSilently(p) ==
    /\ Doing(p, "failed")
    /\ Finish(p)
    /\ UNCHANGED <<row, objects, jobs, second, failures, history>>

SetFailed(p) ==
    /\ Doing(p, "failed")
    /\ UpdateStatus(task[p].report, "FAILED")
    /\ Finish(p)
    /\ UNCHANGED <<objects, jobs, second, failures, history>>

-----------------------------------------------------------------------------
(* Time and failures. *)

SecondPasses ==
    /\ second < MaxSecond
    /\ second' = second + 1
    /\ UNCHANGED <<row, objects, jobs, task, failures, history>>

Failure == failures < MaxFailures /\ failures' = failures + 1

\* The client repeats an XADD whose answer is lost; after the last attempt,
\* or a refusal, the handler sees an error, whether or not the job is there.
PublishUnanswered(h) ==
    /\ Failure
    /\ Doing(h, "publish")
    /\ jobs' \in {jobs, Append(jobs, task[h].report)}
    /\ \/ Goto(h, "unpublished")
       \/ UNCHANGED task
    /\ doubtful' = doubtful \cup (IF jobs' = jobs THEN {} ELSE {task[h].report})
    /\ UNCHANGED <<row, objects, second, asked>>

\* Where the code goes when a statement or a call fails.
\* Mutant: the result of the upload is not looked at.
AfterFailureUnseen(pc) ==
    IF pc \in {"name", "save"} THEN "failed" ELSE IF pc = "upload" THEN "save"
    ELSE IF pc = "object" THEN "row" ELSE "idle"

AfterFailure(pc) ==
    IF pc \in {"name", "upload", "save"} THEN "failed"
    ELSE IF pc = "object" THEN "row" ELSE "idle"

CallFails(c) ==
    /\ Failure
    /\ task[c].pc \notin {"idle", "publish", "generate"}
    /\ IF AfterFailure(task[c].pc) = "idle" THEN Finish(c) ELSE Goto(c, AfterFailure(task[c].pc))
    /\ UNCHANGED <<row, objects, jobs, second, history>>

\* A failed read of the key skips the object.
ReadKeyFails(h) ==
    /\ Failure
    /\ task[h] = NoTask
    /\ \E r \in Reports : Exists(r) /\ DeletionOf(h, r, "row")
    /\ UNCHANGED <<row, objects, jobs, second, doubtful>>

\* The upload arrives and its answer does not.
UploadUnanswered(p) ==
    /\ Failure
    /\ Doing(p, "upload")
    /\ objects' = [objects EXCEPT ![row[task[p].report].name] = task[p].report]
    /\ Goto(p, "failed")
    /\ UNCHANGED <<row, jobs, second, history>>

Die(c) ==
    /\ Failure
    /\ task[c] # NoTask
    /\ Finish(c)
    /\ UNCHANGED <<row, objects, jobs, second, history>>

Create(h) == CountPending(h) \/ InsertReport(h) \/ PublishJob(h) \/ MarkFailed(h)
Delete(h) == ReadKey(h) \/ DeleteObject(h) \/ DeleteRow(h)
WorkOn(p) ==
    \/ Deliver(p) \/ LoadReport(p) \/ SetRunning(p) \/ Generate(p) \/ LoadName(p)
    \/ Upload(p) \/ SaveKey(p) \/ SetCompleted(p) \/ SetFailed(p)

NextReports ==
    \/ \E h \in Handlers : Create(h) \/ Delete(h) \/ PublishUnanswered(h) \/ ReadKeyFails(h)
    \/ \E p \in Pods : WorkOn(p) \/ UploadUnanswered(p)
    \/ \E c \in Callers : CallFails(c) \/ Die(c)
    \/ SecondPasses

SpecReports == InitReports /\ [][NextReports]_reportVars

\* A handler that has inserted a row goes on, and workers do not stop.
Fairness == /\ \A h \in Handlers : WF_reportVars(PublishJob(h) \/ MarkFailed(h))
            /\ \A p \in Pods : WF_reportVars(WorkOn(p))

FairReports == SpecReports /\ Fairness

-----------------------------------------------------------------------------
(* Properties. *)

\* No other report was created in the same second with the same format.
Alone(r) == \A q \in Reports \ {r} : row[q].status # "absent" => row[q].name # row[r].name

\* A completed report that shares its name with no other has its own file in
\* the object store, through every crash and failed call, until somebody asks
\* for its deletion.
CompletedHasFile ==
    \A r \in Reports : row[r].status = "COMPLETED" /\ Alone(r) /\ r \notin asked
        => row[r].keyed /\ objects[row[r].name] = r

\* With several pods and any crashes, a completed report is never reopened,
\* unless Redis left the handler in doubt about the XADD.
CompletedStays ==
    [][\A r \in Reports \ doubtful : row[r].status = "COMPLETED"
          => row'[r].status \in {"COMPLETED", "deleted"}]_reportVars

\* Every report is completed, failed or deleted in the end, unless a call
\* failed or a process died on the way.
EventuallyDone ==
    \A r \in Reports : row[r].status \in {"QUEUED", "RUNNING"}
        ~> row[r].status \in {"COMPLETED", "FAILED", "deleted"} \/ failures > 0

-----------------------------------------------------------------------------
(* What the documents and comments say and the code does not keep. *)

\* A completed report has its own file, whenever it was created.
CompletedOwnsFile ==
    \A r \in Reports : row[r].status = "COMPLETED" /\ r \notin asked => objects[row[r].name] = r

\* A report that could not be published, and only such a report, is marked as
\* failed by the handler: what was published and completed is not.
PublishedNotFailed ==
    [][\A h \in Handlers, r \in Reports :
          MarkFailed(h) /\ task[h].report = r => row[r].status # "COMPLETED"]_reportVars

\* A deleted report leaves no file behind once no worker is at work on it.
DeletedLeavesNothing ==
    \A r \in Reports : /\ row[r].status = "deleted"
                       /\ \A p \in Pods : task[p].report # r
                       => objects[row[r].name] # r
=============================================================================
