----------------------------- MODULE FineTuning ------------------------------
(***************************************************************************)
(* From feedback to a fine-tuned model: the feedback and the datasets      *)
(* that are made of it, and the jobs that train with them.                 *)
(***************************************************************************)
EXTENDS Naturals, Sequences, FiniteSets

(***************************************************************************)
(* Feedback on answers, the memories that are made of it, its statistics,  *)
(* and the fine-tuning datasets that are taken from it, each in a READ     *)
(* COMMITTED transaction.  Nobody changes or deletes a feedback.           *)
(***************************************************************************)

CONSTANTS
  Responses,       \* feedbacks that users may submit, one each
  Datasets         \* datasets that may be created

ASSUME FeedbackAssumption == IsFiniteSet(Responses)

VARIABLES
  submission,   \* of each feedback: the rating, the comment, and the memories flushed so far
  remembered,   \* the committed memories: the feedback and their type
  stats,        \* what get_feedback_stats() has counted, and whether submissions came between
  dataset,      \* the committed datasets
  curation,     \* the session that creates or exports a dataset
  exported      \* history: the datasets somebody has got

feedbackVars == <<submission, remembered, stats, dataset, curation, exported>>

NoDataset == [status |-> "none"]
NotCounting == [at |-> "idle"]
NotCurating == [at |-> "idle"]

FeedbackInit ==
  /\ submission = [f \in Responses |-> [at |-> "none"]]
  /\ remembered = {}
  /\ stats = NotCounting
  /\ dataset = [d \in Datasets |-> NoDataset]
  /\ curation = NotCurating
  /\ exported = {}

(* The rows that are committed, which is what a statement sees.            *)
RatedAs(ratings) == {f \in Responses : submission[f].at = "stored" /\ submission[f].rating \in ratings}
AllRatings == {"positive", "neutral", "negative"}

Submits(f, record) == submission' = [submission EXCEPT ![f] = record]

(* submit_feedback(): thumbs up, 4 and 5 are positive, thumbs down, 1 and  *)
(* 2 negative, and 3 is neither.                                           *)
SubmitFeedback(f) ==
  /\ submission[f].at = "none"
  /\ \E rating \in AllRatings, commented \in BOOLEAN :
       Submits(f, [at |-> "remembering", rating |-> rating, commented |-> commented, memories |-> << >>])
  /\ UNCHANGED <<remembered, stats, dataset, curation, exported>>

(* _store_feedback_memories(): what is to be stored, in its order.         *)
MemoriesOf(rating, commented) ==
  CASE rating = "negative" -> IF commented THEN <<"fact", "preference">> ELSE <<"fact">>
    [] rating = "positive" -> <<"skill">>
    [] OTHER -> << >>

AllRemembered(f) == Len(submission[f].memories) = Len(MemoriesOf(submission[f].rating, submission[f].commented))

(* store_memory() flushes one memory, or its insert fails: the error is    *)
(* only logged, but the transaction is lost.                               *)
StoreFeedbackMemory(f) ==
  /\ submission[f].at = "remembering" /\ ~AllRemembered(f)
  /\ LET type == MemoriesOf(submission[f].rating, submission[f].commented)[Len(submission[f].memories) + 1] IN
       \/ Submits(f, [submission[f] EXCEPT !.memories = Append(@, type)])
       \/ Submits(f, [submission[f] EXCEPT !.at = "aborted"])
  /\ UNCHANGED <<remembered, stats, dataset, curation, exported>>

CommitFeedback(f) ==
  /\ submission[f].at = "remembering" /\ AllRemembered(f)
  /\ Submits(f, [submission[f] EXCEPT !.at = "stored"])
  /\ remembered' = remembered \cup {<<f, submission[f].memories[i]>> : i \in DOMAIN submission[f].memories}
  /\ stats' = IF stats.at = "idle" THEN stats ELSE [stats EXCEPT !.overtaken = TRUE]
  /\ UNCHANGED <<dataset, curation, exported>>

(* The commit refuses an aborted transaction, or the client is gone.       *)
LoseFeedback(f) ==
  /\ submission[f].at \in {"remembering", "aborted"}
  /\ Submits(f, [at |-> "lost"])
  /\ UNCHANGED <<remembered, stats, dataset, curation, exported>>
-----------------------------------------------------------------------------
(* get_feedback_stats(): three counts in three statements.                 *)
CountTotal ==
  /\ stats.at \in {"idle", "done"}
  /\ stats' = [at |-> "total", total |-> Cardinality(RatedAs(AllRatings)), overtaken |-> FALSE]
  /\ UNCHANGED <<submission, remembered, dataset, curation, exported>>

CountPositive ==
  /\ stats.at = "total"
  /\ stats' = [at |-> "positive", total |-> stats.total, overtaken |-> stats.overtaken,
               positive |-> Cardinality(RatedAs({"positive"}))]
  /\ UNCHANGED <<submission, remembered, dataset, curation, exported>>

CountByModel ==
  /\ stats.at = "positive"
  /\ stats' = [at |-> "done", total |-> stats.total, overtaken |-> stats.overtaken, positive |-> stats.positive,
               by_model |-> [count |-> Cardinality(RatedAs(AllRatings)), positive |-> Cardinality(RatedAs({"positive"}))]]
  /\ UNCHANGED <<submission, remembered, dataset, curation, exported>>
-----------------------------------------------------------------------------
Curates(record) == curation' = record

(* create_dataset(): of the filters one by rating is told apart, which     *)
(* takes the positive ones or is ignored.                                  *)
CreateDataset(d) ==
  /\ curation = NotCurating /\ dataset[d] = NoDataset
  /\ \E only_positive \in BOOLEAN :
       Curates([at |-> "created", of |-> d, only_positive |-> only_positive])
  /\ UNCHANGED <<submission, remembered, stats, dataset, exported>>

Matching(only_positive) == RatedAs(IF only_positive THEN {"positive"} ELSE AllRatings)

Populated(records, only_positive) ==
  [records |-> records, count |-> Cardinality(records), only_positive |-> only_positive,
   status |-> IF records = {} THEN "draft" ELSE "ready"]

(* populate_dataset() and the commit of the route. *)
PopulateDataset ==
  /\ curation.at = "created"
  /\ dataset' = [dataset EXCEPT ![curation.of] = Populated(Matching(curation.only_positive), curation.only_positive)]
  /\ Curates(NotCurating)
  /\ UNCHANGED <<submission, remembered, stats, exported>>

(* export_dataset(): the status is flushed before the route finds nothing  *)
(* to export, which rolls it back.                                         *)
ExportDataset(d) ==
  /\ curation = NotCurating /\ dataset[d] # NoDataset
  /\ Curates([at |-> "exporting", of |-> d, lines |-> dataset[d].records])
  /\ UNCHANGED <<submission, remembered, stats, dataset, exported>>

CommitExport ==
  /\ curation.at = "exporting" /\ curation.lines # {}
  /\ dataset' = [dataset EXCEPT ![curation.of].status = "exported"]
  /\ exported' = exported \cup {curation.of}
  /\ Curates(NotCurating)
  /\ UNCHANGED <<submission, remembered, stats>>

(* 404, an exception, or the client is gone. *)
RollbackCuration ==
  /\ curation # NotCurating
  /\ Curates(NotCurating)
  /\ UNCHANGED <<submission, remembered, stats, dataset, exported>>

FeedbackNext ==
  \/ \E f \in Responses : SubmitFeedback(f) \/ StoreFeedbackMemory(f) \/ CommitFeedback(f) \/ LoseFeedback(f)
  \/ CountTotal \/ CountPositive \/ CountByModel
  \/ \E d \in Datasets : CreateDataset(d) \/ ExportDataset(d)
  \/ PopulateDataset \/ CommitExport \/ RollbackCuration

FeedbackSpec == FeedbackInit /\ [][FeedbackNext]_feedbackVars

-----------------------------------------------------------------------------
(* A feedback is stored with all the memories of its rating, or neither is *)
(* it nor any of them.                                                     *)
FeedbackIsWhole ==
  remembered =
    UNION {LET types == MemoriesOf(submission[f].rating, submission[f].commented)
           IN {<<f, types[i]>> : i \in DOMAIN types}
             : f \in {g \in Responses : submission[g].at = "stored"}}

(* The statements of the statistics see more and more: the sums by model   *)
(* are at least what was counted before, and if nothing came between they  *)
(* are the same; only then is the rate at most one for sure.               *)
StatisticsGrow ==
  stats.at = "done" =>
    /\ stats.by_model.count >= stats.total /\ stats.by_model.positive >= stats.positive
    /\ ~stats.overtaken => /\ stats.by_model = [count |-> stats.total, positive |-> stats.positive]
                           /\ stats.positive <= stats.total

(* A dataset counts its records, which are stored feedbacks of the kind    *)
(* that was asked for; it is ready only with records, and exported exactly *)
(* if somebody has got them.                                               *)
DatasetsAreHonest ==
  \A d \in Datasets : dataset[d] # NoDataset =>
    /\ dataset[d].count = Cardinality(dataset[d].records)
    /\ dataset[d].records \subseteq Matching(dataset[d].only_positive)
    /\ dataset[d].status = "draft" <=> dataset[d].records = {}
    /\ dataset[d].status = "exported" <=> d \in exported

FeedbackIsSound == FeedbackIsWhole /\ StatisticsGrow /\ DatasetsAreHonest

-----------------------------------------------------------------------------
(***************************************************************************)
(* Fine-tuning jobs: the FineTuningPipeline, which keeps them in memory,   *)
(* and the PersistentFineTuningManager, which keeps them in rows.  Either  *)
(* trains in a coroutine that nobody awaits, and that looks for a          *)
(* cancellation whenever it wakes up.                                      *)
(***************************************************************************)

CONSTANTS
  Jobs,
  LastStep   \* of the progress loop: ten, of ten per cent each

ASSUME TrainingAssumption == LastStep \in Nat \ {0}

VARIABLES
  job,        \* the object that the coroutine works on
  row,        \* the committed status of the record of a stored job
  request,    \* the session that has created the record
  cancelled   \* history: the jobs whose cancellation was accepted

tuningVars == <<job, row, request, cancelled>>

NoJob == [kind |-> "none"]

JobOf(kind, status, progress, alive) ==
  [kind |-> kind, status |-> status, progress |-> progress, alive |-> alive]

Terminal == {"completed", "failed", "cancelled"}

TuningInit ==
  /\ job = [j \in Jobs |-> NoJob]
  /\ row = [j \in Jobs |-> "none"]
  /\ request = [j \in Jobs |-> "none"]
  /\ cancelled = {}

(* create_training_job(), create_job(): the dataset has been validated.    *)
CreateJob(j, kind) ==
  /\ job[j] = NoJob
  /\ job' = [job EXCEPT ![j] = JobOf(kind, "pending", 0, TRUE)]
  /\ request' = [request EXCEPT ![j] = IF kind = "stored" THEN "open" ELSE "none"]
  /\ UNCHANGED <<row, cancelled>>

(* The request commits what has been flushed so far; closed, its session   *)
(* forgets the record, which nobody writes any more.                       *)
CommitJob(j) ==
  /\ request[j] = "open"
  /\ request' = [request EXCEPT ![j] = "closed"]
  /\ row' = [row EXCEPT ![j] = job[j].status]
  /\ UNCHANGED <<job, cancelled>>

(* A job that is rolled back is trained as well. *)
RollbackJob(j) ==
  /\ request[j] = "open"
  /\ request' = [request EXCEPT ![j] = "closed"]
  /\ UNCHANGED <<job, row, cancelled>>

(* The next stage, when the coroutine wakes up and finds no cancellation.  *)
NextStage(j) ==
  LET at == job[j] IN
  CASE at.status = "pending" -> JobOf(at.kind, "preparing", at.progress, TRUE)
    [] at.status = "preparing" -> JobOf(at.kind, "training", at.progress, TRUE)
    [] at.status = "training" /\ at.progress < LastStep -> JobOf(at.kind, "training", at.progress + 1, TRUE)
    [] at.status = "training" /\ at.progress >= LastStep -> JobOf(at.kind, "evaluating", at.progress, TRUE)
    [] OTHER -> JobOf(at.kind, "completed", at.progress, FALSE)

(* The coroutine ends with the job as it is, or is to be. *)
EndedAs(j, status) == JobOf(job[j].kind, status, job[j].progress, FALSE)

(* Mutant of Train: the cancellation is not looked for. *)
TrainOn(j) ==
  /\ job[j].kind # "none" /\ job[j].alive
  /\ job' = [job EXCEPT ![j] = NextStage(j)]
  /\ UNCHANGED <<row, request, cancelled>>

(* _process_training_job(), between two of its awaits. *)
Train(j) ==
  /\ job[j].kind # "none" /\ job[j].alive
  /\ job' = [job EXCEPT ![j] = IF job[j].status = "cancelled" THEN EndedAs(j, "cancelled") ELSE NextStage(j)]
  /\ UNCHANGED <<row, request, cancelled>>

(* The dataset cannot be read; or the flush meets the commit of the        *)
(* request in the same session.                                            *)
TrainingFails(j) ==
  /\ job[j].kind # "none" /\ job[j].alive
  /\ job[j].status = "training" \/ request[j] = "open"
  /\ job' = [job EXCEPT ![j] = EndedAs(j, "failed")]
  /\ UNCHANGED <<row, request, cancelled>>

(* cancel_job(), of the object ... *)
CancelObject(j) ==
  /\ job[j].kind = "memory" /\ job[j].status \notin Terminal
  /\ job' = [job EXCEPT ![j] = JobOf("memory", "cancelled", job[j].progress, job[j].alive)]
  /\ cancelled' = cancelled \cup {j}
  /\ UNCHANGED <<row, request>>

(* ... and of the row, in another session: the record that the coroutine   *)
(* polls is not read again.                                                *)
CancelRow(j) ==
  /\ row[j] # "none" /\ row[j] \notin Terminal
  /\ row' = [row EXCEPT ![j] = "cancelled"]
  /\ cancelled' = cancelled \cup {j}
  /\ UNCHANGED <<job, request>>

(* A restart: the objects and the coroutines are gone, the rows are not.   *)
RestartTraining ==
  /\ \E j \in Jobs : job[j].kind # "none" /\ job[j].alive
  /\ job' = [j \in Jobs |-> IF job[j].kind = "none" THEN NoJob ELSE EndedAs(j, job[j].status)]
  /\ request' = [j \in Jobs |-> IF request[j] = "open" THEN "closed" ELSE request[j]]
  /\ UNCHANGED <<row, cancelled>>

TuningNext ==
  \/ RestartTraining
  \/ \E j \in Jobs :
       \/ \E kind \in {"memory", "stored"} : CreateJob(j, kind)
       \/ CommitJob(j) \/ RollbackJob(j) \/ Train(j) \/ TrainingFails(j)
       \/ CancelObject(j) \/ CancelRow(j)

TuningSpec == TuningInit /\ [][TuningNext]_tuningVars

-----------------------------------------------------------------------------
Stages == <<"pending", "preparing", "training", "evaluating", "completed">>

Reached(at, status) == \E m, n \in DOMAIN Stages : m <= n /\ Stages[m] = status /\ Stages[n] = at

(* A cancellation that was accepted, at whatever await, lasts: the object  *)
(* is not trained further, and the training of a stored job, which does    *)
(* not see the row that was cancelled and goes on, never writes over it.   *)
(* What has completed went through all its steps; and a row says that a    *)
(* stage was reached only if it was, and a cancellation only if there was  *)
(* one; it is no more than what the request committed, though (README,     *)
(* section 6).                                                             *)
TrainingIsHonest ==
  \A j \in Jobs : job[j] # NoJob =>
    /\ j \in cancelled => (IF job[j].kind = "memory" THEN job[j].status ELSE row[j]) = "cancelled"
    /\ job[j].status = "cancelled" => j \in cancelled
    /\ job[j].status = "completed" => job[j].progress = LastStep
    /\ row[j] \in {"none", "failed"} \/ (row[j] = "cancelled" /\ j \in cancelled)
         \/ Reached(job[j].status, row[j]) \/ job[j].status = "failed"
=============================================================================
