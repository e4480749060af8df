------------------------------- MODULE Storage -------------------------------
(***************************************************************************)
(* The storage of galaxyd (storage.rs): publication records, artifacts and *)
(* import tasks, and the two implementations of `publish_file`, on a local *)
(* directory and on S3, step by step.                                      *)
(*                                                                         *)
(* An upload stands for one accepted request: its task id, its artifact    *)
(* (a fresh UUID), the record it wants to publish and the worker that does *)
(* it.  The worker's position is pc[u], so workers interleave freely.      *)
(***************************************************************************)
EXTENDS Naturals, FiniteSets

CONSTANTS
  Uploads,       \* upload requests (each has a task id and an artifact name)
  LegacyUploads, \* the ones published before records were put in directories
  Archives,      \* archive contents; two archives differ iff their sha256 do
  Keys,          \* (namespace, name, version)
  Identity,      \* the key in an archive's MANIFEST.json
  Backend,       \* "local" or "s3"
  MaxAttempts,   \* attempts the AWS SDK makes of one request
  PowerLoss,     \* does the machine lose power (unsynced entries vanish)?
  FreshDirs,     \* keys whose record directory is new, its own entry unsynced
  None

ASSUME StorageAssumption ==
  /\ LegacyUploads \subseteq Uploads
  /\ Identity \in [Archives -> Keys]
  /\ Backend \in {"local", "s3"}
  /\ Backend = "s3" => ~PowerLoss
  /\ MaxAttempts \in Nat \ {0}
  /\ PowerLoss \in BOOLEAN
  /\ FreshDirs \subseteq Keys
  /\ None \notin Uploads

VARIABLES
  job,            \* Uploads -> Archives: what is uploaded
  lostPower,      \* history: has the machine lost power?
  records,        \* Keys -> the upload named by the record at that key, or None
  artifacts,      \* Uploads -> state of the artifact file or object
  tasks,          \* Uploads -> the stored import task
  straggler,      \* Uploads -> a record PUT whose sender stopped waiting for it
  dirtyRecords,   \* records whose directory entry is not yet durable
  dirtyArtifacts, \* artifacts whose directory entry is not yet durable
  pc,             \* Uploads -> where the request or its worker stands
  attempts,       \* Uploads -> attempts made of the record PUT
  outcome         \* Uploads -> the result of publish_file

disk == <<records, artifacts, dirtyRecords, dirtyArtifacts>>
worker == <<pc, attempts, outcome>>
storageVars == <<job, lostPower, disk, tasks, straggler, worker>>

LocalSteps == {"open", "copy", "link", "sync_records", "sync_artifacts"}
S3Steps == {"put_artifact", "put_record", "delete_artifact"}
PublishSteps == LocalSteps \cup S3Steps

Key(u) == Identity[job[u]]

\* Entries that a loss of power could take back; nothing is tracked without it.
Dirty(S) == IF PowerLoss THEN S ELSE {}

-----------------------------------------------------------------------------
(* Reading                                                                 *)

LegacyRecord(k) == {u \in LegacyUploads : Key(u) = k}

\* The lookup by key: the record in its directory, else the flat legacy file.
record(k) ==
  IF records[k] # None THEN records[k]
  ELSE IF LegacyRecord(k) # {} THEN CHOOSE u \in LegacyRecord(k) : TRUE
  ELSE None

\* A download: the record is looked up and its artifact opened; None is an
\* error (no record, no artifact, or one of another size).
stream(k) ==
  IF record(k) # None /\ artifacts[record(k)] = "complete" THEN record(k) ELSE None

\* Every record there is, wherever its file is: what the walk of the
\* directory, or the listing of the prefix, returns.
StoredRecords == ({records[k] : k \in Keys} \ {None}) \cup LegacyUploads

-----------------------------------------------------------------------------
(* publish_file.  Publishing(u, from) is a step of u's worker that leaves  *)
(* `from`; it ends with Step (go on) or Finish (return a result).          *)

FirstStep == IF Backend = "local" THEN "open" ELSE "put_artifact"

Publishing(u, from) == pc[u] = from /\ UNCHANGED <<job, lostPower, tasks>>

Step(u, to) ==
  /\ pc' = [pc EXCEPT ![u] = to]
  /\ UNCHANGED outcome

Finish(u, result) ==
  /\ pc' = [pc EXCEPT ![u] = "published"]
  /\ outcome' = [outcome EXCEPT ![u] = result]

SetArtifact(u, state) ==
  /\ artifacts' = [artifacts EXCEPT ![u] = state]
  /\ dirtyArtifacts' = IF state = "absent" THEN dirtyArtifacts \ {u}
                       ELSE dirtyArtifacts
  /\ UNCHANGED <<records, dirtyRecords>>

\* The artifact file is created (create_new), or a directory or the file
\* cannot be.
LocalOpenArtifact(u) ==
  /\ Publishing(u, "open")
  /\ UNCHANGED <<records, dirtyRecords, straggler, attempts>>
  /\ \/ /\ artifacts' = [artifacts EXCEPT ![u] = "partial"]
        /\ dirtyArtifacts' = Dirty(dirtyArtifacts \cup {u})
        /\ Step(u, "copy")
     \/ /\ UNCHANGED <<artifacts, dirtyArtifacts>>
        /\ Finish(u, "error")

\* The archive is copied and synced and the record written to a temporary
\* file.  An error leaves what was written, or removes it (size mismatch).
LocalCopyArtifact(u) ==
  /\ Publishing(u, "copy")
  /\ UNCHANGED <<straggler, attempts>>
  /\ \/ SetArtifact(u, "complete") /\ Step(u, "link")
     \/ \E left \in {"absent", "partial", "complete"} :
          SetArtifact(u, left) /\ Finish(u, "error")

\* hard_link creates the record or fails.  On failure the artifact is removed;
\* that the removal may fail too is ignored.
LocalLinkRecord(u) ==
  /\ Publishing(u, "link")
  /\ UNCHANGED <<straggler, attempts>>
  /\ \/ /\ records[Key(u)] = None
        /\ records' = [records EXCEPT ![Key(u)] = u]
        /\ dirtyRecords' = Dirty(dirtyRecords \cup {u})
        /\ UNCHANGED <<artifacts, dirtyArtifacts>>
        /\ Step(u, "sync_records")
     \/ /\ records[Key(u)] # None
        /\ \E left \in {"absent", "complete"} : SetArtifact(u, left)
        /\ Finish(u, "exists")
     \/ /\ \E left \in {"absent", "complete"} : SetArtifact(u, left)
        /\ Finish(u, "error")

\* Mutation: an fsync of the record's directory is forgotten.
SyncRecordsForgotten(u) ==
  /\ Publishing(u, "sync_records")
  /\ Step(u, "sync_artifacts")
  /\ UNCHANGED <<disk, straggler, attempts>>

\* fsync of the record's directory.  It makes the entry in that directory
\* durable, not the entry of the directory itself in its parent.
LocalSyncRecords(u) ==
  /\ Publishing(u, "sync_records")
  /\ UNCHANGED <<records, artifacts, dirtyArtifacts, straggler, attempts>>
  /\ \/ /\ dirtyRecords' = IF Key(u) \in FreshDirs THEN dirtyRecords
                           ELSE dirtyRecords \ {u}
        /\ Step(u, "sync_artifacts")
     \/ /\ UNCHANGED dirtyRecords
        /\ Finish(u, "error")

\* fsync of the artifact directory, the last step.
LocalSyncArtifacts(u) ==
  /\ Publishing(u, "sync_artifacts")
  /\ UNCHANGED <<records, artifacts, dirtyRecords, straggler, attempts>>
  /\ \/ dirtyArtifacts' = {} /\ Finish(u, "ok")
     \/ UNCHANGED dirtyArtifacts /\ Finish(u, "error")

\* PUT of the artifact object.  A failed PUT may have stored it.
S3PutArtifact(u) ==
  /\ Publishing(u, "put_artifact")
  /\ UNCHANGED <<straggler, attempts>>
  /\ \/ SetArtifact(u, "complete") /\ Step(u, "put_record")
     \/ \E left \in {"absent", "complete"} :
          SetArtifact(u, left) /\ Finish(u, "error")

\* Mutation: the PUT of the record is not conditional.
PutRecordOverwrites(u) ==
  /\ Publishing(u, "put_record")
  /\ records' = [records EXCEPT ![Key(u)] = u]
  /\ Finish(u, "ok")
  /\ UNCHANGED <<artifacts, dirtyRecords, dirtyArtifacts, straggler, attempts>>

\* The conditional PUT of the record is answered: created, or 412.
S3PutRecordAnswered(u) ==
  /\ Publishing(u, "put_record")
  /\ UNCHANGED <<artifacts, dirtyRecords, dirtyArtifacts, straggler, attempts>>
  /\ \/ /\ records[Key(u)] = None
        /\ records' = [records EXCEPT ![Key(u)] = u]
        /\ Finish(u, "ok")
     \/ /\ records[Key(u)] # None
        /\ UNCHANGED records
        /\ Step(u, "delete_artifact")

\* Mutation: the artifact is removed whenever the record PUT fails.
UnansweredDeletes(u) ==
  /\ Publishing(u, "put_record")
  /\ straggler' = [straggler EXCEPT ![u] = "sent"]
  /\ SetArtifact(u, "absent")
  /\ Finish(u, "error")
  /\ UNCHANGED attempts

\* Mutation: one attempt too many.
UnansweredOnceMore(u) ==
  /\ Publishing(u, "put_record")
  /\ attempts[u] < MaxAttempts
  /\ attempts' = [attempts EXCEPT ![u] = @ + 1]
  /\ UNCHANGED <<disk, straggler, pc, outcome>>

\* An attempt ends with no answer, or with an error other than 412: the SDK
\* tries again, or the error is returned and the artifact kept.  The request
\* may still be on its way to S3.
S3PutRecordUnanswered(u) ==
  /\ Publishing(u, "put_record")
  /\ UNCHANGED disk
  /\ \/ UNCHANGED straggler
     \/ straggler' = [straggler EXCEPT ![u] = IF @ = "none" THEN "sent" ELSE @]
  /\ \/ /\ attempts[u] + 1 < MaxAttempts
        /\ attempts' = [attempts EXCEPT ![u] = @ + 1]
        /\ UNCHANGED <<pc, outcome>>
     \/ /\ Finish(u, "error")
        /\ UNCHANGED attempts

\* After a 412 the artifact is deleted; a failing delete is only logged.
S3DeleteArtifact(u) ==
  /\ Publishing(u, "delete_artifact")
  /\ \E left \in {"absent", "complete"} : SetArtifact(u, left)
  /\ Finish(u, "exists")
  /\ UNCHANGED <<straggler, attempts>>

publish_file(u) ==
  \/ LocalOpenArtifact(u) \/ LocalCopyArtifact(u) \/ LocalLinkRecord(u)
  \/ LocalSyncRecords(u) \/ LocalSyncArtifacts(u)
  \/ S3PutArtifact(u) \/ S3PutRecordAnswered(u) \/ S3PutRecordUnanswered(u)
  \/ S3DeleteArtifact(u)

\* S3 receives a record PUT that nobody waits for any more.
LateRecord(u) ==
  /\ straggler[u] = "sent"
  /\ \/ /\ records[Key(u)] = None
        /\ records' = [records EXCEPT ![Key(u)] = u]
        /\ straggler' = [straggler EXCEPT ![u] = "applied"]
     \/ /\ records[Key(u)] # None
        /\ straggler' = [straggler EXCEPT ![u] = "none"]
        /\ UNCHANGED records
  /\ UNCHANGED <<job, lostPower, artifacts, dirtyRecords, dirtyArtifacts, tasks, worker>>
=============================================================================
