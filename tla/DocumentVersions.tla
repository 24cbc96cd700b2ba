-------------------------- MODULE DocumentVersions --------------------------
(***************************************************************************)
(* The versions of one file: new ones are numbered from the one that is in *)
(* use, the pipeline processes them, and a cleanup deletes old ones, each  *)
(* in a READ COMMITTED transaction.  Version numbers are texts, and sorted *)
(* as texts.                                                               *)
(***************************************************************************)
EXTENDS Integers, Sequences, FiniteSets, FiniteSetsExt

CONSTANTS
  FirstVersion,    \* version <<major, minor>> of the document there is at the beginning
  Versioners,      \* sessions
  KeepLatest,      \* keep_latest_n
  MaxVersions      \* bound on the documents

ASSUME VersionAssumption ==
  /\ FirstVersion \in (Nat \ {0}) \X (0 .. 9) /\ KeepLatest \in Nat /\ MaxVersions \in Nat \ {0}

VARIABLES
  docs,        \* the committed documents: [at, version, status]; at is their place in time
  created,     \* documents so far
  cutoff,      \* documents up to this place are older than keep_newer_than_days
  versioning,  \* what each session has read
  cleaned,     \* history: what the last cleanup deleted, each with the highest version there was
  doubled,     \* history: whether there have been two documents of one version
  comparison   \* what compare_versions() has found

versionVars == <<docs, created, cutoff, versioning, cleaned, doubled, comparison>>

NotVersioning == [op |-> "none"]
NotCompared == [done |-> FALSE]

VersionsInit ==
  /\ docs = {[at |-> 1, version |-> FirstVersion, status |-> "ready"]}
  /\ created = 1
  /\ cutoff = 0
  /\ versioning = [s \in Versioners |-> NotVersioning]
  /\ cleaned = {}
  /\ doubled = FALSE
  /\ comparison = NotCompared

(* "major.minor" as the characters of its text; the dot is before the      *)
(* digits.                                                                 *)
Digits[n \in Nat] == IF n < 10 THEN <<n>> ELSE Append(Digits[n \div 10], n % 10)
Text(version) == Digits[version[1]] \o <<-1>> \o Digits[version[2]]

TextLess(s, t) ==
  \E i \in 1 .. Len(t) :
    /\ \A j \in 1 .. i - 1 : j <= Len(s) /\ s[j] = t[j]
    /\ i > Len(s) \/ s[i] < t[i]

IncrementVersion(version) ==
  IF version[2] >= 9 THEN <<version[1] + 1, 0>> ELSE <<version[1], version[2] + 1>>

Reads(s, found) == versioning' = [versioning EXCEPT ![s] = found]

InUse == {d \in docs : d.status \in {"ready", "processing"}}

(* create_new_version(): two documents in use are more than the query      *)
(* allows, and it raises.                                                  *)
CreateNewVersion(s) ==
  /\ versioning[s] = NotVersioning /\ created < MaxVersions
  /\ Cardinality(InUse) <= 1
  /\ Reads(s, [op |-> "create", existing |-> InUse])
  /\ UNCHANGED <<docs, created, cutoff, cleaned, doubled, comparison>>

(* The document in use is ready from now on, even if it is still being     *)
(* processed; if it is gone by now, and was to be changed, the flush fails.*)
CommitVersion(s) ==
  /\ versioning[s].op = "create" /\ created < MaxVersions
  /\ LET was == versioning[s].existing
         changed == {d \in docs : \E e \in was : e.status = "processing" /\ e.at = d.at}
         new == [at |-> created + 1, status |-> "pending",
                 version |-> IF was = {} THEN <<1, 0>> ELSE IncrementVersion((CHOOSE e \in was : TRUE).version)]
     IN /\ (\E e \in was : e.status = "processing") => changed # {}
        /\ docs' = (docs \ changed) \cup {[d EXCEPT !.status = "ready"] : d \in changed} \cup {new}
  /\ created' = created + 1
  /\ doubled' = (doubled \/ \E d, e \in docs' : d.at # e.at /\ Text(d.version) = Text(e.version))
  /\ Reads(s, NotVersioning)
  /\ UNCHANGED <<cutoff, cleaned, comparison>>

(* get_versions(), the last text first; documents of one version come in   *)
(* any order.                                                              *)
Sortings ==
  {order \in [1 .. Cardinality(docs) -> docs] :
     \A j \in DOMAIN order : \A i \in 1 .. j - 1 :
       order[i] # order[j] /\ ~TextLess(Text(order[i].version), Text(order[j].version))}

(* What is neither among the first nor young. *)
CleanupOldVersions(s) ==
  /\ versioning[s] = NotVersioning
  /\ \E order \in Sortings :
       Reads(s, [op |-> "cleanup",
                 doomed |-> {order[i].at : i \in {j \in DOMAIN order : j > KeepLatest /\ order[j].at <= cutoff}}])
  /\ UNCHANGED <<docs, created, cutoff, cleaned, doubled, comparison>>

Higher(v, w) == v[1] > w[1] \/ (v[1] = w[1] /\ v[2] > w[2])
HighestVersion == CHOOSE v \in {d.version : d \in docs} : \A d \in docs : ~Higher(d.version, v)

CommitCleanup(s) ==
  /\ versioning[s].op = "cleanup"
  /\ LET deleted == {d \in docs : d.at \in versioning[s].doomed} IN
       /\ docs' = docs \ deleted
       /\ cleaned' = {[doc |-> d, highest |-> HighestVersion] : d \in deleted}
  /\ Reads(s, NotVersioning)
  /\ UNCHANGED <<created, cutoff, doubled, comparison>>

AbortVersioning(s) ==
  /\ versioning[s] # NotVersioning
  /\ Reads(s, NotVersioning)
  /\ UNCHANGED <<docs, created, cutoff, cleaned, doubled, comparison>>

(* The ingestion takes a document on, and finishes it. *)
ProcessDocument ==
  /\ \E d \in docs, status \in {"processing", "ready", "failed"} :
       /\ <<d.status, status>> \in {<<"pending", "processing">>, <<"processing", "ready">>, <<"processing", "failed">>}
       /\ docs' = (docs \ {d}) \cup {[d EXCEPT !.status = status]}
  /\ UNCHANGED <<created, cutoff, versioning, cleaned, doubled, comparison>>

TimeGoesBy ==
  /\ cutoff < created
  /\ cutoff' = cutoff + 1
  /\ UNCHANGED <<docs, created, versioning, cleaned, doubled, comparison>>
-----------------------------------------------------------------------------
(* Chunks: an empty one counts as none, and what is similar to 99 of 100   *)
(* as unchanged.                                                           *)
Contents == {"", "text", "nearly text", "other"}
Similar(c, d) == c = d \/ {c, d} = {"text", "nearly text"}
ChunkAt(chunks, i) == IF i \in DOMAIN chunks THEN chunks[i] ELSE ""

ChangeType(old, new) ==
  IF old = "" THEN "added" ELSE IF new = "" THEN "removed" ELSE IF Similar(old, new) THEN "unchanged" ELSE "modified"

CompareVersions ==
  /\ created = 1 /\ cutoff = 0 /\ \A s \in Versioners : versioning[s] = NotVersioning
  /\ \E before \in SUBSET {0, 1}, after \in SUBSET {0, 1} : \E old \in [before -> Contents], new \in [after -> Contents] :
       LET places == {i \in before \cup after : ChunkAt(old, i) # "" \/ ChunkAt(new, i) # ""} IN
       comparison' = [done |-> TRUE, old |-> old, new |-> new,
                      diffs |-> [i \in places |-> ChangeType(ChunkAt(old, i), ChunkAt(new, i))]]
  /\ UNCHANGED <<docs, created, cutoff, versioning, cleaned, doubled>>

Compared ==
  /\ comparison # NotCompared
  /\ comparison' = NotCompared
  /\ UNCHANGED <<docs, created, cutoff, versioning, cleaned, doubled>>

(* A comparison changes nothing, and is answered before the next step.     *)
VersionsNext ==
  \/ /\ comparison = NotCompared
     /\ \/ \E s \in Versioners :
             \/ CreateNewVersion(s) \/ CommitVersion(s) \/ CleanupOldVersions(s) \/ CommitCleanup(s) \/ AbortVersioning(s)
        \/ ProcessDocument \/ TimeGoesBy \/ CompareVersions
  \/ Compared

VersionsSpec == VersionsInit /\ [][VersionsNext]_versionVars

-----------------------------------------------------------------------------
(* However cleanups overlap with each other and with new versions, none    *)
(* deletes what is young, and as many documents stay as are to be kept -   *)
(* unless two of them have had one version, which cleanups may order       *)
(* differently, each deleting what the other keeps.                        *)
EnoughIsKept ==
  /\ ~doubled => Cardinality(docs) >= Min({KeepLatest, created})
  /\ \A c \in cleaned : c.doc.at <= cutoff

(* Nor is the highest version deleted, as long as no major number has two  *)
(* digits.                                                                 *)
HighestStays ==
  KeepLatest > 0 /\ ~doubled => \A c \in cleaned : c.highest[1] < 10 => c.doc.version # c.highest

(* The differences lead from the old version to the new one.               *)
DiffsAddUp ==
  comparison.done =>
    \A i \in {0, 1} :
      LET old == ChunkAt(comparison.old, i)
          new == ChunkAt(comparison.new, i)
      IN IF i \in DOMAIN comparison.diffs
         THEN CASE comparison.diffs[i] = "added" -> old = "" /\ new # ""
                [] comparison.diffs[i] = "removed" -> old # "" /\ new = ""
                [] comparison.diffs[i] = "unchanged" -> Similar(old, new)
                [] OTHER -> ~Similar(old, new)
         ELSE old = new

VersionsAreKept == EnoughIsKept /\ HighestStays /\ DiffsAddUp
=============================================================================
