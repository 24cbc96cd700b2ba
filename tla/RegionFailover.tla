--------------------------- MODULE RegionFailover ----------------------------
(***************************************************************************)
(* Region failover: the ReplicationManager, which keeps the topology, and  *)
(* over it and the RegionRouter the FailoverManager.                       *)
(***************************************************************************)
EXTENDS Naturals, FiniteSets

(***************************************************************************)
(* The ReplicationManager: which region is the primary, which are the      *)
(* replicas, and the role each region's replication state says it has.     *)
(*                                                                         *)
(* promote_replica() reads the primary, awaits the management API of the   *)
(* promoted region for up to 30 seconds, and then writes the topology from *)
(* what it had read.  Whether the remote call succeeds makes no difference *)
(* to the local state.                                                     *)
(***************************************************************************)

CONSTANTS Regions, FirstPrimary

ASSUME TopologyAssumption == FirstPrimary \in Regions

VARIABLES
  primary_region,   \* _primary_region
  replica_regions,  \* _replica_regions, as a set
  role              \* _replication_states[r].role

topology == <<primary_region, replica_regions, role>>

(* configure_replication() *)
TopologyInit ==
  /\ primary_region = FirstPrimary
  /\ replica_regions = Regions \ {FirstPrimary}
  /\ role = [r \in Regions |-> IF r = FirstPrimary THEN "primary" ELSE "replica"]

(* The check before the await; it raises otherwise. *)
MayPromote(r) == r \in replica_regions

(* Mutant of Promoted: the new primary stays listed as a replica. *)
PromotedStaysReplica(r, previous_primary) ==
  /\ role' = [role EXCEPT ![previous_primary] = "replica", ![r] = "primary"]
  /\ primary_region' = r
  /\ replica_regions' = replica_regions \cup {previous_primary}

(* The update after it, with the primary that was read before. *)
Promoted(r, previous_primary) ==
  /\ role' = [role EXCEPT ![previous_primary] = "replica", ![r] = "primary"]
  /\ primary_region' = r
  /\ replica_regions' = (replica_regions \ {r}) \cup {previous_primary}

TopologyTypeOK ==
  /\ primary_region \in Regions
  /\ replica_regions \subseteq Regions
  /\ role \in [Regions -> {"primary", "replica"}]

-----------------------------------------------------------------------------
(***************************************************************************)
(* The FailoverManager over the RegionRouter and the ReplicationManager.   *)
(* trigger_failover and rollback_failover check, promote, and update the   *)
(* router; between the check and the update they await the promotion, and  *)
(* other calls, probes and detections run meanwhile.                       *)
(***************************************************************************)

CONSTANTS
  Calls,      \* manager calls that may be awaiting a promotion at a time
  Preferred,  \* preferred_failover: where auto-detection fails a region over to
  None

ASSUME ManagerAssumption ==
  /\ Preferred \in [Regions -> Regions \cup {None}]
  /\ None \notin Regions

VARIABLES
  region_status,     \* router: RegionConfig.status
  is_primary,        \* router: RegionConfig.is_primary
  active_failover,   \* _active_failover
  original_primary,  \* _original_primary
  call,              \* the calls that await promote_replica
  crossed            \* history: a call ran next to another, or named a stale primary

router == <<region_status, is_primary>>
manager == <<active_failover, original_primary>>
vars == <<topology, router, manager, call, crossed>>

NoCall == [kind |-> "none"]

Pending == [kind : {"failover"}, failed : Regions, target : Regions, previous : Regions]
             \cup [kind : {"rollback"}, target : Regions, previous : Regions]

-----------------------------------------------------------------------------
Init ==
  /\ TopologyInit
  /\ region_status = [r \in Regions |-> "healthy"]
  /\ is_primary = [r \in Regions |-> r = FirstPrimary]
  /\ active_failover = None
  /\ original_primary = None
  /\ call = [c \in Calls |-> NoCall]
  /\ crossed = FALSE

(* A health probe's answer, or none.  An answer other than 200 makes the    *)
(* region "degraded", which nothing here tells from "healthy".              *)
Probe(r) ==
  /\ \E s \in {"healthy", "unavailable"} :
       region_status' = [region_status EXCEPT ![r] = s]
  /\ UNCHANGED <<topology, is_primary, manager, call, crossed>>

(* A call begins that takes `from' for the primary region. *)
Begin(from) ==
  crossed' = (crossed \/ from # primary_region \/ \E d \in Calls : call[d] # NoCall)

(* Mutant of MayBegin: an active failover is not looked for. *)
MayAlwaysBegin(c) == call[c] = NoCall

(* The call slot is free and no failover is active. *)
MayBegin(c) == call[c] = NoCall /\ active_failover = None

(* Mutant of Failover: the previous primary is the one recorded for the     *)
(* rollback, which the first failover has not.                              *)
FailoverFromOriginal(failed, target) ==
  [kind |-> "failover", failed |-> failed, target |-> target, previous |-> original_primary]

(* What a failover that awaits its promotion has read. *)
Failover(failed, target) ==
  [kind |-> "failover", failed |-> failed, target |-> target, previous |-> primary_region]

(* trigger_failover() up to the await.  A target that is no replica makes  *)
(* the promotion raise at once; the failed region stays marked.            *)
TriggerFailover(c, failed, target) ==
  /\ MayBegin(c)
  /\ region_status' = [region_status EXCEPT ![failed] = "unavailable"]
  /\ original_primary' = IF is_primary[failed] THEN failed ELSE original_primary
  /\ IF MayPromote(target)
     THEN /\ active_failover' = failed
          /\ call' = [call EXCEPT ![c] = Failover(failed, target)]
     ELSE UNCHANGED <<active_failover, call>>
  /\ Begin(failed)
  /\ UNCHANGED <<topology, is_primary>>

(* The auto-detection found every probe of a region failing: it marks the  *)
(* region, and triggers the failover unless one is active.                 *)
DetectFailure(c, r) ==
  IF Preferred[r] # None /\ active_failover = None
  THEN TriggerFailover(c, r, Preferred[r])
  ELSE /\ region_status' = [region_status EXCEPT ![r] = "unavailable"]
       /\ UNCHANGED <<topology, is_primary, manager, call, crossed>>

(* trigger_failover() after the await. *)
FinishFailover(c) ==
  /\ call[c].kind = "failover"
  /\ Promoted(call[c].target, call[c].previous)
  /\ is_primary' = [is_primary EXCEPT ![call[c].target] = TRUE, ![call[c].failed] = FALSE]
  /\ region_status' = [region_status EXCEPT ![call[c].target] = "failover"]
  /\ active_failover' = None
  /\ call' = [call EXCEPT ![c] = NoCall]
  /\ UNCHANGED <<original_primary, crossed>>

(* rollback_failover() up to the await; it does not claim active_failover. *)
BeginRollback(c, r) ==
  /\ MayBegin(c)
  /\ region_status[r] # "unavailable"
  /\ MayPromote(r)
  /\ call' = [call EXCEPT ![c] = [kind |-> "rollback", target |-> r, previous |-> primary_region]]
  /\ Begin(primary_region)
  /\ UNCHANGED <<topology, router, manager>>

FinishRollback(c) ==
  /\ call[c].kind = "rollback"
  /\ LET r == call[c].target IN
     /\ Promoted(r, call[c].previous)
     /\ is_primary' = [q \in Regions |-> q = r]
     /\ region_status' = [q \in Regions |-> IF q = r \/ is_primary[q] THEN "healthy"
                                            ELSE region_status[q]]
  /\ original_primary' = None
  /\ call' = [call EXCEPT ![c] = NoCall]
  /\ UNCHANGED <<active_failover, crossed>>

(* Mutant of Abandon: only a call that returns frees the manager. *)
AbandonHoldsManager(c) ==
  /\ call[c] # NoCall
  /\ call' = [call EXCEPT ![c] = NoCall]
  /\ UNCHANGED <<topology, router, manager, crossed>>

(* The task that awaits the promotion is cancelled: neither topology nor   *)
(* router is updated; the finally clause of trigger_failover() still runs. *)
Abandon(c) ==
  /\ call[c] # NoCall
  /\ active_failover' = IF call[c].kind = "failover" THEN None ELSE active_failover
  /\ call' = [call EXCEPT ![c] = NoCall]
  /\ UNCHANGED <<topology, router, original_primary, crossed>>

Finish(c) == FinishFailover(c) \/ FinishRollback(c)

Next ==
  \/ \E r \in Regions : Probe(r)
  \/ \E c \in Calls, failed, target \in Regions : TriggerFailover(c, failed, target)
  \/ \E c \in Calls, r \in Regions : DetectFailure(c, r) \/ BeginRollback(c, r)
  \/ \E c \in Calls : Finish(c) \/ Abandon(c)

(* The promotion request has a timeout of 30 seconds: it always comes back. *)
Spec == Init /\ [][Next]_vars /\ \A c \in Calls : WF_vars(Finish(c))

-----------------------------------------------------------------------------
(* Every variable holds values of the shape the code gives it. *)
TypeOK ==
  /\ TopologyTypeOK
  /\ region_status \in [Regions -> {"healthy", "unavailable", "failover"}]
  /\ is_primary \in [Regions -> BOOLEAN]
  /\ active_failover \in Regions \cup {None}
  /\ original_primary \in Regions \cup {None}
  /\ call \in [Calls -> Pending \cup {NoCall}]
  /\ crossed \in BOOLEAN

Failovers == {c \in Calls : call[c].kind = "failover"}

(* However many calls race, one failover at most awaits its promotion, and *)
(* active_failover names its failed region exactly while it does.          *)
FailoversExclusive ==
  /\ Cardinality(Failovers) <= 1
  /\ active_failover # None <=> Failovers # {}
  /\ \A c \in Failovers : call[c].failed = active_failover

(* However calls cross, fail or are cancelled, one failover at a time      *)
(* holds the manager, with the record that belongs to it.                  *)
OneFailoverAtATime == TypeOK /\ FailoversExclusive

(* Even when promotions cross, the region recorded as primary has the      *)
(* primary role and is not also listed as a replica.                       *)
PrimaryIsWritable ==
  role[primary_region] = "primary" /\ primary_region \notin replica_regions

(* As long as calls came one at a time and named the current primary,      *)
(* replication manager and router agree on one primary, through failures,   *)
(* cancellations and rollbacks, and every other region can be promoted.     *)
OnePrimary ==
  crossed \/
    /\ \A r \in Regions : role[r] = "primary" <=> r = primary_region
    /\ \A r \in Regions : is_primary[r] <=> r = primary_region
    /\ replica_regions = Regions \ {primary_region}

(* A failover that was begun ends, and clears active_failover. *)
FailoverEnds == active_failover # None ~> active_failover = None
=============================================================================
