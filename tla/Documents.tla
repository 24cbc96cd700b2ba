----------------------------- MODULE Documents ------------------------------
(***************************************************************************)
(* Documents on their three ways into the knowledge base: an IngestionJob  *)
(* of the IngestionService, which is what POST /documents/upload begins;   *)
(* the handler of that path in api/documents.py, which the router does not *)
(* reach; and a task of the worker pool for a Document that is there.  The *)
(* last two run the IngestionPipeline, which splits, embeds and stores.    *)
(* Each is one transaction; a query retrieves what has been committed.     *)
(***************************************************************************)
EXTENDS Naturals, FiniteSets

CONSTANTS
  Uploads,     \* requests, or documents for the pool
  MaxBatches   \* bound: batches of chunks of a document

ASSUME DocumentAssumption == MaxBatches \in Nat

VARIABLES
  upload,   \* the request: where it is, its route, its batches, how many are
            \* stored, and what aborted its transaction
  record,   \* the committed status of its Document or IngestionJob
  chunks,   \* the committed batches of its chunks
  entry,    \* the committed audit entries about it
  deleter   \* the documents whose deletion is under way

docVars == <<upload, record, chunks, entry, deleter>>

NotUploading == [pc |-> "none"]

Uploading(pc, route, batches, stored, cause) ==
  [pc |-> pc, route |-> route, batches |-> batches, stored |-> stored, cause |-> cause]

DocumentsInit ==
  /\ upload = [u \in Uploads |-> NotUploading]
  /\ record = [u \in Uploads |-> "none"]
  /\ chunks = [u \in Uploads |-> 0]
  /\ entry = [u \in Uploads |-> {}]
  /\ deleter = {}

Committed == <<record, chunks, entry>>

(* The request comes to another point. *)
GoesOn(u, pc, stored, cause) ==
  upload' = [upload EXCEPT ![u] = Uploading(pc, upload[u].route, upload[u].batches, stored, cause)]
Becomes(u, pc) == GoesOn(u, pc, upload[u].stored, upload[u].cause)

(* Somebody stores a Document whose task the pool is to be given: nothing  *)
(* under src/ does.                                                        *)
StoreDocument(u) ==
  /\ upload[u] = NotUploading /\ record[u] = "none" /\ entry[u] = {}
  /\ record' = [record EXCEPT ![u] = "pending"]
  /\ UNCHANGED <<upload, chunks, entry, deleter>>

(* The record is added, or for a task found, and its status is flushed. *)
BeginUpload(u, route, n) ==
  /\ upload[u] = NotUploading /\ entry[u] = {}
  /\ record[u] = IF route = "worker" THEN "pending" ELSE "none"
  /\ upload' = [upload EXCEPT ![u] = Uploading("processing", route, n, 0, "none")]
  /\ UNCHANGED <<Committed, deleter>>

(* A Document is the parent of its chunks.  The chunks of an IngestionJob  *)
(* name a document that there is not.                                      *)
HasParent(u) == upload[u].route # "ingestion"

IsTask(u) == upload[u] # NotUploading /\ upload[u].route = "worker"

(* A batch is embedded and flushed. *)
StoreBatch(u) ==
  /\ upload[u].pc = "processing" /\ upload[u].stored < upload[u].batches
  /\ IF HasParent(u) THEN GoesOn(u, "processing", upload[u].stored + 1, "none")
     ELSE GoesOn(u, "aborted", upload[u].stored, "constraint")
  /\ UNCHANGED <<Committed, deleter>>

Complete(u) ==
  /\ upload[u].pc = "processing" /\ upload[u].stored = upload[u].batches
  /\ Becomes(u, "ready")
  /\ UNCHANGED <<Committed, deleter>>

(* The parser or the embedding model raises; the pipeline marks the record *)
(* and raises, and the route writes an audit entry and answers.            *)
PipelineFails(u) ==
  /\ upload[u].pc = "processing"
  /\ Becomes(u, "failed")
  /\ UNCHANGED <<Committed, deleter>>

(* A flush fails, that of the audit entry included, and has rolled the     *)
(* transaction back.                                                       *)
FlushFails(u) ==
  /\ upload[u].pc \in {"processing", "ready", "failed"}
  /\ GoesOn(u, "aborted", upload[u].stored, "database")
  /\ UNCHANGED <<Committed, deleter>>

(* The handlers go on: the flush of the new status writes nothing, since   *)
(* the record is not in the session any more; the error of the audit       *)
(* entry's is swallowed; and the commit after the route is refused.        *)
RefuseCommit(u) ==
  /\ upload[u].pc = "aborted" /\ ~IsTask(u)
  /\ Becomes(u, "refused")
  /\ UNCHANGED <<Committed, deleter>>

(* The client leaves, or the process dies. *)
AbandonUpload(u) ==
  /\ upload[u].pc \in {"processing", "ready", "failed", "aborted"} /\ ~IsTask(u)
  /\ Becomes(u, "abandoned")
  /\ UNCHANGED <<Committed, deleter>>

(* The task raises, is cancelled, or its process dies: its session closes  *)
(* without a commit, and the pool may try again.                           *)
TaskRaises(u) ==
  /\ IsTask(u) /\ upload[u].pc # "answered"
  /\ upload' = [upload EXCEPT ![u] = NotUploading]
  /\ UNCHANGED <<Committed, deleter>>

(* What the audit log is told: by a task, nothing. *)
EntriesAbout(u) ==
  CASE IsTask(u) -> {}
    [] upload[u].pc = "failed" -> {"error"}
    [] OTHER -> {"success"}

(* Mutant of CommitUpload: each batch is committed as it is stored. *)
CommitBatches(u) ==
  /\ upload[u].pc \in {"ready", "failed", "processing"}
  /\ Becomes(u, IF upload[u].pc = "processing" THEN "processing" ELSE "answered")
  /\ record' = [record EXCEPT ![u] = IF upload[u].pc = "failed" THEN "failed" ELSE "ready"]
  /\ chunks' = [chunks EXCEPT ![u] = upload[u].stored]
  /\ entry' = [entry EXCEPT ![u] = EntriesAbout(u)]
  /\ UNCHANGED deleter

CommitUpload(u) ==
  /\ upload[u].pc \in (IF IsTask(u) THEN {"ready"} ELSE {"ready", "failed"})
  /\ Becomes(u, "answered")
  /\ record' = [record EXCEPT ![u] = upload[u].pc]
  /\ chunks' = [chunks EXCEPT ![u] = upload[u].stored]
  /\ entry' = [entry EXCEPT ![u] = EntriesAbout(u)]
  /\ UNCHANGED deleter

(* An administrator deletes a document: its chunks are those the session   *)
(* has loaded and those the foreign key cascades to.  The loser of two     *)
(* deletions finds nothing to delete, and writes its entry as well.        *)
BeginDelete(u) ==
  /\ record[u] # "none" /\ (upload[u] # NotUploading => HasParent(u))
  /\ u \notin deleter
  /\ deleter' = deleter \cup {u}
  /\ UNCHANGED <<upload, Committed>>

(* The deletion waits for the task that has the row. *)
CommitDelete(u) ==
  /\ u \in deleter
  /\ upload[u] = NotUploading \/ upload[u].pc = "answered"
  /\ deleter' = deleter \ {u}
  /\ record' = [record EXCEPT ![u] = "none"]
  /\ chunks' = [chunks EXCEPT ![u] = 0]
  /\ entry' = [entry EXCEPT ![u] = @ \cup {"deleted"}]
  /\ UNCHANGED upload

DeleteFails(u) ==
  /\ u \in deleter
  /\ deleter' = deleter \ {u}
  /\ UNCHANGED <<upload, Committed>>

DocumentsNext ==
  \E u \in Uploads :
    \/ \E route \in {"documents", "ingestion", "worker"}, n \in 0..MaxBatches : BeginUpload(u, route, n)
    \/ StoreDocument(u) \/ StoreBatch(u) \/ Complete(u) \/ PipelineFails(u) \/ FlushFails(u)
    \/ RefuseCommit(u) \/ AbandonUpload(u) \/ TaskRaises(u) \/ CommitUpload(u)
    \/ BeginDelete(u) \/ CommitDelete(u) \/ DeleteFails(u)

DocumentsSpec == DocumentsInit /\ [][DocumentsNext]_docVars

-----------------------------------------------------------------------------
(* Whatever fails, and wherever, and however often the pool tries again: a *)
(* document that can be retrieved has all its chunks, once; a record that  *)
(* can be seen has ended as its audit entry says, if it was uploaded; and  *)
(* no chunk is left of what was deleted or waits to be ingested.           *)
UploadsAreWhole ==
  \A u \in Uploads :
    /\ record[u] = "ready" => chunks[u] = upload[u].batches /\ (IsTask(u) \/ "success" \in entry[u])
    /\ record[u] = "failed" => "error" \in entry[u]
    /\ record[u] \in {"none", "pending"} => chunks[u] = 0
    /\ record[u] = "none" /\ entry[u] # {} => "deleted" \in entry[u]

(* "Job is in FAILED state - return it (don't raise)", "Client can check    *)
(* status and retry": the commit is refused, and with it the job that the  *)
(* client could check, only if the database fails.                         *)
FailedJobsAreReturned ==
  \A u \in Uploads : upload[u].pc = "refused" => upload[u].cause = "database"
=============================================================================
