----------------------------- MODULE Publication -----------------------------
(***************************************************************************)
(* How an upload becomes a published collection version (app.rs): the      *)
(* request handler and its detached worker, the in-memory catalog and task *)
(* cache, start-up with its clean-up and task reconciliation, graceful     *)
(* shutdown, crashes and restarts, over the storage of Storage.tla.        *)
(***************************************************************************)
EXTENDS Storage

CONSTANTS
  UploadSlots, \* permits of the upload semaphore (2 in the code)
  TaskLimit    \* import tasks kept in memory (4096 in the code)

ASSUME PublicationAssumption ==
  /\ UploadSlots \in Nat \ {0}
  /\ TaskLimit \in Nat \ {0}

VARIABLES
  server,   \* phase of the galaxyd process
  catalog,  \* records held in memory, which the listings are made from
  cache,    \* Uploads -> import task held in memory
  response, \* Uploads -> what the client was told
  old,      \* artifacts older than 24 hours at this start-up
  lostPuts  \* history: tasks whose last write to storage failed

vars == <<storageVars, server, catalog, cache, response, old, lostPuts>>
process == <<server, catalog, cache, old>>

Starting == {"loading", "cleaning", "tasks"}
Up == {"serving", "draining", "closing"}
Servers == {"down", "stopped"} \cup Starting \cup Up

Handling == {"queued", "receiving"}
Working == {"create_task", "published", "final_put", "remember"} \cup PublishSteps
Active == Handling \cup Working
Steps == {"idle", "done", "dead"} \cup Active

TaskStates == {"none", "running", "completed", "failed"}
Responses == {"none", "rejected", "dropped", "202", "409", "503"}

TypeOK ==
  /\ job \in [Uploads -> Archives]
  /\ lostPower \in BOOLEAN
  /\ records \in [Keys -> Uploads \cup {None}]
  /\ artifacts \in [Uploads -> {"absent", "partial", "complete"}]
  /\ tasks \in [Uploads -> TaskStates]
  /\ straggler \in [Uploads -> {"none", "sent", "applied"}]
  /\ dirtyRecords \subseteq Uploads
  /\ dirtyArtifacts \subseteq Uploads
  /\ pc \in [Uploads -> Steps]
  /\ attempts \in [Uploads -> 0 .. MaxAttempts - 1]
  /\ outcome \in [Uploads -> {"none", "ok", "exists", "error"}]
  /\ server \in Servers
  /\ catalog \subseteq Uploads
  /\ cache \in [Uploads -> TaskStates]
  /\ response \in [Uploads -> Responses]
  /\ old \subseteq Uploads
  /\ lostPuts \subseteq Uploads

Init ==
  /\ job \in [Uploads -> Archives]
  /\ lostPower = FALSE
  /\ \A u, v \in LegacyUploads : Key(u) = Key(v) => u = v
  /\ records = [k \in Keys |-> None]
  /\ artifacts = [u \in Uploads |->
                    IF u \in LegacyUploads THEN "complete" ELSE "absent"]
  /\ tasks = [u \in Uploads |-> "none"]
  /\ straggler = [u \in Uploads |-> "none"]
  /\ dirtyRecords = {}
  /\ dirtyArtifacts = {}
  /\ pc = [u \in Uploads |-> IF u \in LegacyUploads THEN "done" ELSE "idle"]
  /\ attempts = [u \in Uploads |-> 0]
  /\ outcome = [u \in Uploads |-> "none"]
  /\ server = "down"
  /\ catalog = {}
  /\ cache = [u \in Uploads |-> "none"]
  /\ response = [u \in Uploads |-> "none"]
  /\ old = {}
  /\ lostPuts = {}

-----------------------------------------------------------------------------
(* The request handler                                                     *)

Goto(u, to) == pc' = [pc EXCEPT ![u] = to]

\* A client that is gone, or was answered 408 by the timeout layer, is told
\* nothing more.
Respond(u, r) ==
  response' = [response EXCEPT ![u] = IF @ = "none" THEN r ELSE @]

\* A POST arrives and waits for an upload slot.
Arrive(u) ==
  /\ server = "serving"
  /\ pc[u] = "idle"
  /\ Goto(u, "queued")
  /\ UNCHANGED <<job, lostPower, disk, tasks, straggler, attempts, outcome, process,
                 response, lostPuts>>

SlotHolders == {u \in Uploads : pc[u] \in Working \cup {"receiving"}}

AcquireSlot(u) ==
  /\ pc[u] = "queued"
  /\ Cardinality(SlotHolders) < UploadSlots
  /\ Goto(u, "receiving")
  /\ UNCHANGED <<job, lostPower, disk, tasks, straggler, attempts, outcome, process,
                 response, lostPuts>>

\* Any of the early returns: no token, bad address, not authorized, body or
\* archive refused, authorization withdrawn meanwhile.
Reject(u) ==
  /\ pc[u] = "receiving"
  /\ Goto(u, "done")
  /\ Respond(u, "rejected")
  /\ UNCHANGED <<job, lostPower, disk, tasks, straggler, attempts, outcome, process, lostPuts>>

\* The request passed every check: a worker is spawned that takes the slot
\* over and outlives the request.
Spawn(u) ==
  /\ pc[u] = "receiving"
  /\ Goto(u, "create_task")
  /\ UNCHANGED <<job, lostPower, disk, tasks, straggler, attempts, outcome, process,
                 response, lostPuts>>

\* Mutation: nothing ends a handler that waits for a slot or for its body.
DropKeepsHandler(u) ==
  /\ pc[u] \in Active
  /\ response[u] = "none"
  /\ Respond(u, "dropped")
  /\ UNCHANGED <<storageVars, process, lostPuts>>

\* The client disconnects or the 60-second timeout drops the handler.  What
\* the handler itself was doing ends; a spawned worker goes on.
Drop(u) ==
  /\ pc[u] \in Active
  /\ response[u] = "none"
  /\ Respond(u, "dropped")
  /\ Goto(u, IF pc[u] \in Handling THEN "done" ELSE pc[u])
  /\ UNCHANGED <<job, lostPower, disk, tasks, straggler, attempts, outcome, process, lostPuts>>

-----------------------------------------------------------------------------
(* The worker                                                              *)

\* The task is stored as running before anything is published.  On an error
\* (the write may have happened) the worker returns at once.
CreateTask(u) ==
  /\ pc[u] = "create_task"
  /\ \/ /\ tasks' = [tasks EXCEPT ![u] = "running"]
        /\ Goto(u, FirstStep)
        /\ UNCHANGED <<response, lostPuts>>
     \/ /\ tasks' \in {tasks, [tasks EXCEPT ![u] = "running"]}
        /\ lostPuts' = lostPuts \cup {u}
        /\ Goto(u, "done")
        /\ Respond(u, "503")
  /\ UNCHANGED <<job, lostPower, disk, straggler, attempts, outcome, process>>

Publish(u) ==
  /\ publish_file(u)
  /\ UNCHANGED <<process, response, lostPuts>>

\* Mutation: the catalog is updated without looking at the result.
PushAlways(u) ==
  /\ pc[u] = "published"
  /\ catalog' = catalog \cup {u}
  /\ Goto(u, "final_put")
  /\ UNCHANGED <<job, lostPower, disk, tasks, straggler, attempts, outcome, server, cache,
                 old, response, lostPuts>>

\* Mutation: the catalog is left to the next restart.
PushNever(u) ==
  /\ pc[u] = "published"
  /\ Goto(u, "final_put")
  /\ UNCHANGED <<job, lostPower, disk, tasks, straggler, attempts, outcome, process,
                 response, lostPuts>>

\* A published record is added to the catalog.
PushCatalog(u) ==
  /\ pc[u] = "published"
  /\ catalog' = IF outcome[u] = "ok" THEN catalog \cup {u} ELSE catalog
  /\ Goto(u, "final_put")
  /\ UNCHANGED <<job, lostPower, disk, tasks, straggler, attempts, outcome, server, cache,
                 old, response, lostPuts>>

FinalState(u) == IF outcome[u] = "ok" THEN "completed" ELSE "failed"

\* The final task state is stored; an error (the write may have happened) is
\* only logged.
FinalPutTask(u) ==
  /\ pc[u] = "final_put"
  /\ \/ /\ tasks' = [tasks EXCEPT ![u] = FinalState(u)]
        /\ UNCHANGED lostPuts
     \/ /\ tasks' \in {tasks, [tasks EXCEPT ![u] = FinalState(u)]}
        /\ lostPuts' = lostPuts \cup {u}
  /\ Goto(u, "remember")
  /\ UNCHANGED <<job, lostPower, disk, straggler, attempts, outcome, process, response>>

Cached == {u \in Uploads : cache[u] # "none"}

\* remember_task: a full cache gives up a finished task, or any task when none
\* is finished.
Evicted(v) ==
  \/ Cardinality(Cached) < TaskLimit /\ v = None
  \/ /\ Cardinality(Cached) >= TaskLimit
     /\ v \in Cached
     /\ cache[v] = "running" => \A w \in Cached : cache[w] = "running"

\* Mutation: any failure of publish_file is reported as a conflict.
ConflictOnError(u) == IF outcome[u] = "ok" THEN "202" ELSE "409"

FinalAnswer(u) == CASE outcome[u] = "ok" -> "202"
                    [] outcome[u] = "exists" -> "409"
                    [] OTHER -> "503"

\* Mutation: the worker can only hand its result to a handler that still waits.
RememberBlocks(u) ==
  /\ pc[u] = "remember"
  /\ response[u] = "none"
  /\ \E v \in Uploads \cup {None} :
       /\ Evicted(v)
       /\ cache' = [w \in Uploads |-> IF w = u THEN FinalState(u)
                                      ELSE IF w = v THEN "none" ELSE cache[w]]
  /\ Goto(u, "done")
  /\ Respond(u, FinalAnswer(u))
  /\ UNCHANGED <<job, lostPower, disk, tasks, straggler, attempts, outcome, server,
                 catalog, old, lostPuts>>

\* The task is put in the cache and the handler, if it is still there, gets
\* the result and answers.
RememberTask(u) ==
  /\ pc[u] = "remember"
  /\ \E v \in Uploads \cup {None} :
       /\ Evicted(v)
       /\ cache' = [w \in Uploads |-> IF w = u THEN FinalState(u)
                                      ELSE IF w = v THEN "none" ELSE cache[w]]
  /\ Goto(u, "done")
  /\ Respond(u, FinalAnswer(u))
  /\ UNCHANGED <<job, lostPower, disk, tasks, straggler, attempts, outcome, server,
                 catalog, old, lostPuts>>

-----------------------------------------------------------------------------
(* Start-up.  An error of any of its steps but the clean-up ends the       *)
(* process, which Crash stands for.                                        *)

\* Whatever artifact is there may be older than 24 hours by now, unless its
\* record was on its way to S3 a moment ago.
Start ==
  /\ server \in {"down", "stopped"}
  /\ server' = "loading"
  /\ old' \in SUBSET {u \in Uploads : artifacts[u] # "absent" /\ straggler[u] # "sent"}
  /\ UNCHANGED <<storageVars, catalog, cache, response, lostPuts>>

LoadCatalog ==
  /\ server = "loading"
  /\ server' = "cleaning"
  /\ catalog' = StoredRecords
  /\ UNCHANGED <<storageVars, cache, old, response, lostPuts>>

\* Mutation: the clean-up looks at the age of an artifact only.
RemoveReferenced(u) ==
  /\ server = "cleaning"
  /\ u \in old
  /\ SetArtifact(u, "absent")
  /\ old' = old \ {u}
  /\ UNCHANGED <<job, lostPower, tasks, straggler, worker, server, catalog, cache,
                 response, lostPuts>>

\* An old artifact that no loaded record references is removed.
RemoveOrphan(u) ==
  /\ server = "cleaning"
  /\ u \in old
  /\ u \notin catalog
  /\ SetArtifact(u, "absent")
  /\ old' = old \ {u}
  /\ UNCHANGED <<job, lostPower, tasks, straggler, worker, server, catalog, cache,
                 response, lostPuts>>

\* The clean-up is over, or failed half-way, which is only logged.
EndCleanup ==
  /\ server = "cleaning"
  /\ server' = "tasks"
  /\ old' = {}
  /\ UNCHANGED <<storageVars, catalog, cache, response, lostPuts>>

\* Mutation: the version alone decides, not the digest.
ReconcileByVersion(u) ==
  /\ server = "tasks"
  /\ tasks[u] = "running"
  /\ tasks' = [tasks EXCEPT ![u] =
       IF \E r \in catalog : Key(r) = Key(u) THEN "completed" ELSE "failed"]
  /\ lostPuts' = lostPuts \ {u}
  /\ UNCHANGED <<job, lostPower, disk, straggler, worker, process, response>>

\* Mutation: whatever was interrupted is taken to have failed.
ReconcileFails(u) ==
  /\ server = "tasks"
  /\ tasks[u] = "running"
  /\ tasks' = [tasks EXCEPT ![u] = "failed"]
  /\ lostPuts' = lostPuts \ {u}
  /\ UNCHANGED <<job, lostPower, disk, straggler, worker, process, response>>

\* reconcile_tasks: a task stored as running is finished according to whether
\* the catalog has a record of the same version with the same digest.
ReconcileTask(u) ==
  /\ server = "tasks"
  /\ tasks[u] = "running"
  /\ tasks' = [tasks EXCEPT ![u] =
       IF \E r \in catalog : Key(r) = Key(u) /\ job[r] = job[u]
       THEN "completed" ELSE "failed"]
  /\ lostPuts' = lostPuts \ {u}
  /\ UNCHANGED <<job, lostPower, disk, straggler, worker, process, response>>

\* The latest TaskLimit tasks are kept in memory, and requests are served.
Serve ==
  /\ server = "tasks"
  /\ \A u \in Uploads : tasks[u] # "running"
  /\ \E kept \in SUBSET {u \in Uploads : tasks[u] # "none"} :
       /\ \/ Cardinality(kept) = TaskLimit
          \/ /\ Cardinality(kept) < TaskLimit
             /\ kept = {u \in Uploads : tasks[u] # "none"}
       /\ cache' = [u \in Uploads |-> IF u \in kept THEN tasks[u] ELSE "none"]
  /\ server' = "serving"
  /\ UNCHANGED <<storageVars, catalog, old, response, lostPuts>>

-----------------------------------------------------------------------------
(* Shutdown and crash                                                      *)

\* SIGTERM or SIGINT: no new connection is accepted.
Shutdown ==
  /\ server = "serving"
  /\ server' = "draining"
  /\ UNCHANGED <<storageVars, catalog, cache, old, response, lostPuts>>

\* The servers return once every open request has been answered or dropped;
\* the tracker of workers is closed.
CloseListeners ==
  /\ server = "draining"
  /\ \A u \in Uploads : pc[u] \in Active => response[u] # "none"
  /\ server' = "closing"
  /\ UNCHANGED <<storageVars, catalog, cache, old, response, lostPuts>>

Forget == catalog' = {} /\ cache' = [u \in Uploads |-> "none"] /\ old' = {}

\* Mutation: the workers are not waited for.
StopAtOnce ==
  /\ server = "closing"
  /\ server' = "stopped"
  /\ pc' = [u \in Uploads |-> IF pc[u] \in Active THEN "dead" ELSE pc[u]]
  /\ Forget
  /\ UNCHANGED <<job, lostPower, disk, tasks, straggler, attempts, outcome, response, lostPuts>>

\* `publications.wait()` returns when no worker is left; then main returns.
Stop ==
  /\ server = "closing"
  /\ \A u \in Uploads : pc[u] \notin Active
  /\ server' = "stopped"
  /\ Forget
  /\ UNCHANGED <<storageVars, response, lostPuts>>

\* The process ends without warning: workers, handlers, catalog and cache are
\* gone, the record PUTs in S \subseteq Uploads are still on their way to S3.
Die(S) ==
  /\ server' = "down"
  /\ Forget
  /\ pc' = [u \in Uploads |-> IF pc[u] \in Active THEN "dead" ELSE pc[u]]
  /\ response' = [u \in Uploads |->
       IF pc[u] \in Active /\ response[u] = "none" THEN "dropped" ELSE response[u]]
  /\ straggler' = [u \in Uploads |->
       IF u \in S /\ straggler[u] = "none" THEN "sent" ELSE straggler[u]]
  /\ UNCHANGED <<job, tasks, attempts, outcome, lostPuts>>

Crash ==
  /\ server \notin {"down", "stopped"}
  /\ \E S \in SUBSET {u \in Uploads : pc[u] = "put_record"} : Die(S)
  /\ UNCHANGED <<disk, lostPower>>

\* The machine loses power: of the directory entries not yet synced any part
\* is gone after the reboot.
PowerFail ==
  /\ PowerLoss
  /\ server \notin {"down", "stopped"} \/ dirtyRecords \cup dirtyArtifacts # {}
  /\ Die({})
  /\ lostPower' = TRUE
  /\ \E lost \in SUBSET dirtyRecords :
       records' = [k \in Keys |-> IF records[k] \in lost THEN None ELSE records[k]]
  /\ \E lost \in SUBSET dirtyArtifacts :
       artifacts' = [u \in Uploads |-> IF u \in lost THEN "absent" ELSE artifacts[u]]
  /\ dirtyRecords' = {}
  /\ dirtyArtifacts' = {}

-----------------------------------------------------------------------------
Late(u) ==
  /\ LateRecord(u)
  /\ UNCHANGED <<process, response, lostPuts>>

WorkerStep(u) ==
  CreateTask(u) \/ Publish(u) \/ PushCatalog(u) \/ FinalPutTask(u) \/ RememberTask(u)

Startup ==
  \/ LoadCatalog \/ EndCleanup \/ Serve
  \/ \E u \in Uploads : RemoveOrphan(u) \/ ReconcileTask(u)

Next ==
  \/ \E u \in Uploads :
       \/ Arrive(u) \/ AcquireSlot(u) \/ Reject(u) \/ Spawn(u) \/ Drop(u)
       \/ WorkerStep(u) \/ Late(u)
  \/ Start \/ Startup \/ Shutdown \/ CloseListeners \/ Stop
  \/ Crash \/ PowerFail

Spec == Init /\ [][Next]_vars

\* Workers and start-up make progress because storage calls return; the
\* timeout layer ends every handler; the servers notice that they are idle.
Fairness ==
  /\ \A u \in Uploads : WF_vars(WorkerStep(u)) /\ WF_vars(Drop(u))
  /\ WF_vars(Startup) /\ WF_vars(CloseListeners) /\ WF_vars(Stop)

LiveSpec == Spec /\ Fairness
-----------------------------------------------------------------------------
(* Safety                                                                  *)

\* Every publication record that a reader can find names an artifact that is
\* there in full: publish_file writes the artifact first, and nothing (losing
\* a race, clean-up, a failed request) removes one whose record is in place.
\* Only a loss of power between the two syncs can tear them apart.
RecordHasArtifact ==
  lostPower \/ \A u \in StoredRecords : artifacts[u] = "complete"

\* An import task, stored or cached, says "completed" only if a record of the
\* same version with the same digest is stored, whoever put it there; over
\* crashes this is what reconcile_tasks must get right.  A loss of power may
\* take a record back that a start-up has seen.
CompletedTaskIsPublished ==
  lostPower \/ \A u \in Uploads : "completed" \in {tasks[u], cache[u]} =>
                 \E v \in StoredRecords : job[v] = job[u]

\* What the client was told stays true: after 202 its own record is the one
\* at that version, after 409 somebody else's is.
AnswersAreTrue ==
  \A u \in Uploads :
    /\ response[u] = "202" => records[Key(u)] = u
    /\ response[u] = "409" => records[Key(u)] \notin {None, u}

\* Who was answered 202 can download that version and gets the archive that
\* was uploaded, after a loss of power too: the worker answers only after both
\* directories are synced.
AcceptedIsDurable ==
  \A u \in Uploads : response[u] = "202" => stream(Key(u)) = u

\* While requests are served the catalog lists stored records only, and misses
\* none but those a worker has yet to push and those whose publication was
\* reported as failed although the record is there.
CatalogTracksRecords ==
  server \in Up =>
    /\ catalog \subseteq StoredRecords
    /\ \A u \in StoredRecords \ catalog :
         \/ pc[u] \in {"sync_records", "sync_artifacts", "published"}
         \/ outcome[u] = "error"
         \/ straggler[u] = "applied"

\* After a graceful shutdown no stored task is left running, except where the
\* storage refused the last write of it: run() waits for the workers even when
\* their clients are long gone.
StoppedMeansSettled ==
  server = "stopped" =>
    \A u \in Uploads : tasks[u] = "running" => u \in lostPuts

\* task_status: the cached task, else the stored one.
task_status(u) == IF cache[u] # "none" THEN cache[u] ELSE tasks[u]

\* A client that was answered 202 and polls the task it was given sees it
\* completed, after eviction from the cache and after any number of restarts;
\* only when storage refused the final write can it still read as running.
AcceptedUploadPolls ==
  \A u \in Uploads : response[u] = "202" /\ server \in Up =>
    task_status(u) = "completed" \/ (task_status(u) = "running" /\ u \in lostPuts)

\* A task is stored as failed while its own record is in place only where
\* publish_file returned an error after it had created the record (a sync that
\* failed, a PUT that was not answered) or S3 applied the PUT of a dead process
\* late: what a crash interrupts, reconcile_tasks never calls failed when the
\* record made it.
FailedIsUnpublished ==
  \A u \in Uploads : tasks[u] = "failed" /\ records[Key(u)] = u =>
    outcome[u] = "error" \/ straggler[u] = "applied"

\* What PLAN.md asks of a restart, that tasks with a committed record be marked
\* completed, of the ones stored as failed too.  The code does not do it.
CommittedTasksCompleted ==
  server = "serving" => \A u \in catalog : tasks[u] # "failed"

\* Publication, with everything it does to storage, is a write-once registry
\* that answers truthfully.
Registry == INSTANCE CollectionRegistry
              WITH registry <- records, reply <- response,
                   key <- [u \in Uploads |-> Key(u)]

RefinesRegistry == Registry!Spec

-----------------------------------------------------------------------------
(* The inductive invariant.  It holds where no record PUT is repeated,     *)
(* until power is lost.                                                    *)

SingleShot == Backend = "s3" => MaxAttempts = 1

Ended == {"published", "final_put", "remember", "done", "dead"}
Committed == {"sync_records", "sync_artifacts"} \cup Ended

\* A record is where it belongs, its artifact is complete, and its worker is
\* past every step that could still remove the artifact.
RecordInv ==
  \A k \in Keys : records[k] # None =>
    /\ Key(records[k]) = k
    /\ records[k] \notin LegacyUploads
    /\ artifacts[records[k]] = "complete"
    /\ pc[records[k]] \in Committed
    /\ outcome[records[k]] # "exists"

LegacyInv ==
  \A u \in LegacyUploads :
    pc[u] = "done" /\ artifacts[u] = "complete" /\ response[u] = "none"
    /\ outcome[u] = "none" /\ straggler[u] = "none"

\* What the position of a worker says about storage.
WorkerInv ==
  \A u \in Uploads :
    /\ pc[u] \in S3Steps => Backend = "s3"
    /\ pc[u] \in {"link", "put_record"} => artifacts[u] = "complete"
    /\ pc[u] \in {"sync_records", "sync_artifacts"} => records[Key(u)] = u
    /\ pc[u] = "delete_artifact" => records[Key(u)] \notin {None, u}
    /\ pc[u] \notin Ended => outcome[u] = "none"
    /\ pc[u] \in {"published", "final_put", "remember"} => outcome[u] # "none"
    /\ outcome[u] = "ok" => records[Key(u)] = u
    /\ outcome[u] = "exists" => records[Key(u)] \notin {None, u}

\* A request that is still under way to S3 finds its artifact in place.
StragglerInv ==
  \A u \in Uploads :
    /\ straggler[u] # "none" => pc[u] \in Ended /\ outcome[u] \notin {"ok", "exists"}
                                /\ response[u] # "rejected"
    /\ straggler[u] = "sent" => artifacts[u] = "complete" /\ u \notin old

ResponseInv ==
  \A u \in Uploads :
    /\ response[u] = "202" => outcome[u] = "ok"
    /\ response[u] = "409" => outcome[u] = "exists"
    /\ response[u] = "rejected" => pc[u] = "done" /\ records[Key(u)] # u
    /\ pc[u] \in {"idle"} \cup Handling => response[u] = "none"
    /\ pc[u] \in Working => response[u] \in {"none", "dropped"}

\* While the server is not up there are no workers; only start-up looks for
\* old artifacts, and the catalog it goes by has every old one in use.
ServerInv ==
  /\ server \notin Up => \A u \in Uploads : pc[u] \notin Active
  /\ server \notin {"loading", "cleaning"} => old = {}
  /\ server = "cleaning" => StoredRecords \cap old \subseteq catalog
  /\ catalog \subseteq StoredRecords

\* Where the stored task of an upload can be unfinished.  This part needs no
\* SingleShot.
Unfinished == PublishSteps \cup {"published", "final_put"}

TaskInv ==
  /\ server \notin Up => \A u \in Uploads : pc[u] \notin Active
  /\ \A u \in Uploads :
       /\ pc[u] \in {"idle", "create_task"} \cup Handling => tasks[u] = "none"
       /\ pc[u] \in Unfinished => tasks[u] = "running"
       /\ server \in Up \cup {"stopped"} /\ tasks[u] = "running" =>
            pc[u] \in Unfinished \/ u \in lostPuts

IInv ==
  /\ TypeOK
  /\ RecordInv
  /\ LegacyInv
  /\ WorkerInv
  /\ StragglerInv
  /\ ResponseInv
  /\ ServerInv
  /\ CompletedTaskIsPublished

-----------------------------------------------------------------------------
(* Liveness                                                                *)

\* Every request that arrived comes to an end, and so does the worker that
\* outlives it: no slot is held for ever.
UploadsSettle ==
  \A u \in Uploads : pc[u] \in Active ~> pc[u] \in {"done", "dead"}

\* A graceful shutdown ends, whatever uploads were under way when it began.
ShutdownCompletes == server = "draining" ~> server \in {"stopped", "down"}
=============================================================================
