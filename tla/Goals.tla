-------------------------------- MODULE Goals --------------------------------
(***************************************************************************)
(* Goals: those the planner decomposes into tasks, and those a user        *)
(* keeps.                                                                  *)
(***************************************************************************)
EXTENDS Naturals, Sequences, FiniteSets, SequencesExt, FiniteSetsExt, TLC

(***************************************************************************)
(* Goals decomposed into task graphs by a language model: the check of the *)
(* graph, its execution in waves, and the review of the stored plan by     *)
(* database sessions that read it without a lock.                          *)
(*                                                                         *)
(* A proposal is the list of tasks the model answers.  Tasks with the same *)
(* id overwrite each other, but the edges of both stay in the graph.       *)
(***************************************************************************)

CONSTANTS
  TaskIds,        \* names of tasks, and of what is none
  Proposals,      \* lists of [id, deps] a model may answer
  PlanReviewers   \* those with APPROVE_PLAN in the tenant of the plan

ASSUME PlansAssumption ==
  Proposals \subseteq Seq([id : TaskIds, deps : {d \in SUBSET TaskIds : IsFiniteSet(d)}])

VARIABLES
  plan,         \* stage, proposal and tasks completed, wave by wave
  plan_row,     \* the committed plans row
  review,       \* what each reviewer's session has read and flushed
  reviews_overlap  \* history: two sessions were reviewing at a time

planVars == <<plan, plan_row, review, reviews_overlap>>

Drafted == [status |-> "draft", approved_by |-> {}, rejected_by |-> {}, comments |-> {}]

NotReviewing == [pc |-> "idle"]

PlansInit ==
  /\ plan = [stage |-> "none"]
  /\ plan_row = Drafted
  /\ review = [r \in PlanReviewers |-> NotReviewing]
  /\ reviews_overlap = FALSE

Nodes(p) == {p[i].id : i \in DOMAIN p}

Dependencies(p, id) == p[Max({i \in DOMAIN p : p[i].id = id})].deps

(* The edges from a set of tasks to one, overwritten tasks included. *)
EdgesFrom(p, tasks, id) ==
  Cardinality({e \in (DOMAIN p) \X tasks : p[e[1]].id = id /\ e[2] \in p[e[1]].deps})

InDegree(p, completed, id) == Cardinality(Dependencies(p, id)) - EdgesFrom(p, completed, id)

(* _topological_sort(): a task is sorted when its degree has come to 0. *)
Sorted(p) ==
  LET sorted[n \in 0 .. Len(p)] ==
        IF n = 0 THEN {} ELSE {id \in Nodes(p) : InDegree(p, sorted[n - 1], id) <= 0}
  IN sorted[Len(p)]

(* Mutant of ValidGraph: cycles pass. *)
ValidReferences(p) == \A id \in Nodes(p) : Dependencies(p, id) \subseteq Nodes(p)

(* validate_graph() *)
ValidGraph(p) ==
  /\ \A id \in Nodes(p) : Dependencies(p, id) \subseteq Nodes(p)
  /\ Sorted(p) = Nodes(p)

(* decompose() and the check that follows it; an answer that is no JSON is *)
(* replaced by one task.                                                   *)
Decompose ==
  /\ plan.stage = "none"
  /\ \E p \in Proposals :
       plan' = [stage |-> IF ValidGraph(p) THEN "accepted" ELSE "refused", proposal |-> p, waves |-> <<>>]
  /\ UNCHANGED <<plan_row, review, reviews_overlap>>

-----------------------------------------------------------------------------
Completed == {t.id : t \in UNION {plan.waves[i] : i \in DOMAIN plan.waves}}

Ready == {id \in Nodes(plan.proposal) \ Completed : InDegree(plan.proposal, Completed, id) = 0}

(* execute_graph(): the ready tasks run in parallel; those that fail count  *)
(* as completed like the others.                                           *)
ExecuteWave ==
  /\ plan.stage \in {"accepted", "running"}
  /\ Ready # {}
  /\ \E failing \in SUBSET Ready :
       LET wave == {[id |-> id, ok |-> id \notin failing] : id \in Ready} IN
       plan' = [plan EXCEPT !.stage = IF Completed \cup Ready = Nodes(plan.proposal)
                                      THEN "executed" ELSE "running",
                            !.waves = Append(@, wave)]
  /\ UNCHANGED <<plan_row, review, reviews_overlap>>

(* Tasks remain and none is ready. *)
ExecutionDeadlock ==
  /\ plan.stage \in {"accepted", "running"}
  /\ Ready = {} /\ Completed # Nodes(plan.proposal)
  /\ plan' = [plan EXCEPT !.stage = "deadlocked"]
  /\ UNCHANGED <<plan_row, review, reviews_overlap>>

-----------------------------------------------------------------------------
(* create_plan(): the graph is stored with the draft; no route executes it. *)
StorePlan ==
  /\ plan.stage = "accepted"
  /\ plan' = [stage |-> "stored"]
  /\ UNCHANGED <<plan_row, review, reviews_overlap>>

(* approve_plan() and reject_plan() up to their flush. *)
CheckPlan(r) ==
  /\ plan.stage = "stored"
  /\ review[r] = NotReviewing
  /\ plan_row.status = "draft"
  /\ \E verdict \in {"approved", "rejected"}, comment \in SUBSET {r} :
       review' = [review EXCEPT ![r] =
         [pc |-> "checked", verdict |-> verdict, comment |-> comment, seen |-> plan_row.comments]]
  /\ reviews_overlap' = (reviews_overlap \/ \E o \in PlanReviewers : review[o] # NotReviewing)
  /\ UNCHANGED <<plan, plan_row>>

(* The flush waits for the row of another reviewer. *)
FlushReview(r) ==
  /\ review[r].pc = "checked"
  /\ \A o \in PlanReviewers : review[o].pc # "flushed"
  /\ review' = [review EXCEPT ![r].pc = "flushed"]
  /\ UNCHANGED <<plan, plan_row, reviews_overlap>>

(* The columns that a session has changed; the comments as it has read them. *)
Reviewed(r) ==
  LET seen == review[r] IN
  [plan_row EXCEPT !.status = seen.verdict,
     !.approved_by = IF seen.verdict = "approved" THEN {r} ELSE @,
     !.rejected_by = IF seen.verdict = "rejected" THEN {r} ELSE @,
     !.comments = IF seen.comment # {} THEN seen.seen \cup seen.comment ELSE @]

CommitReview(r) ==
  /\ review[r].pc = "flushed"
  /\ plan_row' = Reviewed(r)
  /\ review' = [review EXCEPT ![r] = NotReviewing]
  /\ UNCHANGED <<plan, reviews_overlap>>

AbortReview(r) ==
  /\ review[r] # NotReviewing
  /\ review' = [review EXCEPT ![r] = NotReviewing]
  /\ UNCHANGED <<plan, plan_row, reviews_overlap>>

PlansNext ==
  \/ Decompose \/ ExecuteWave \/ ExecutionDeadlock \/ StorePlan
  \/ \E r \in PlanReviewers : CheckPlan(r) \/ FlushReview(r) \/ CommitReview(r) \/ AbortReview(r)

PlansSpec == PlansInit /\ [][PlansNext]_planVars

-----------------------------------------------------------------------------
UniqueTasks(p) == Cardinality(Nodes(p)) = Len(p)

Acyclic(p) ==
  \A s \in SUBSET Nodes(p) : s # {} => \E id \in s : Dependencies(p, id) \cap s = {}

(* If the ids are unique, exactly the acyclic graphs whose dependencies     *)
(* exist are accepted; their execution does not get stuck, and no task      *)
(* starts before all it depends on has been tried.                          *)
GraphsRunInOrder ==
  plan.stage \notin {"none", "stored"} /\ UniqueTasks(plan.proposal) =>
    LET p == plan.proposal IN
    /\ plan.stage = "refused" <=> ~(Acyclic(p) /\ \A id \in Nodes(p) : Dependencies(p, id) \subseteq Nodes(p))
    /\ plan.stage # "deadlocked"
    /\ \A j \in DOMAIN plan.waves : \A t \in plan.waves[j] :
         Dependencies(p, t.id) \subseteq {u.id : u \in UNION {plan.waves[i] : i \in 1 .. j - 1}}

(* A plan that is not a draft names the reviewer of its status; unless two *)
(* reviews overlapped, it names no other, and no comment is lost.          *)
ReviewsAreRecorded ==
  LET by == [approved |-> plan_row.approved_by, rejected |-> plan_row.rejected_by] IN
  plan_row.status # "draft" =>
    /\ by[plan_row.status] # {}
    /\ ~reviews_overlap => /\ Cardinality(plan_row.approved_by \cup plan_row.rejected_by) = 1
                           /\ plan_row.comments \subseteq by[plan_row.status]

PlansAreSound == GraphsRunInOrder /\ ReviewsAreRecorded

-----------------------------------------------------------------------------
(***************************************************************************)
(* The goals of a user: the calls of GoalService that change one of them,  *)
(* each in a READ COMMITTED transaction of its caller, and the chat turns  *)
(* that read them all first.  Tasks in the background of a turn note       *)
(* progress and store what is to be remembered of it, in the session of    *)
(* the request, whether that is over or not.  The routes in api/goals.py   *)
(* never come as far as these calls: they name a permission that there is  *)
(* not, and answer 500 before anything is read or written.                 *)
(***************************************************************************)

CONSTANTS
  GoalCount,       \* goals that there may be, in the order of their creation
  GoalSessions,
  NoGoal,
  MemoryTasks,     \* tasks in the background of a turn that store memories
  MaxGoalCalls     \* bound on the calls

Statuses == {"active", "completed", "abandoned"}

ASSUME GoalAssumption ==
  /\ GoalCount \in Nat \ {0} /\ MaxGoalCalls \in Nat
  /\ NoGoal \notin [status : Statuses, notes : Seq(Nat), completed : BOOLEAN]

VARIABLES
  goals,        \* the committed rows: [status, notes, completed]; notes are named by their calls
  goal_session, \* of each session: what it does, has seen, flushed and still to note
  goal_calls,   \* calls so far
  learned,      \* the committed memories: the turn, and the task that has stored them
  turns_answered,     \* history: the turns whose answers are committed
  safe_notes    \* history: goals and notes that were committed while no other session had read the goal

goalVars == <<goals, goal_session, goal_calls, learned, turns_answered, safe_notes>>
memoryHistory == <<learned, turns_answered>>

Goals == 1 .. GoalCount
NewGoal == [status |-> "active", notes |-> << >>, completed |-> FALSE]
NoGoalSession ==
  [op |-> "none", name |-> 0, seen |-> << >>, flushed |-> << >>, todo |-> {}, memorized |-> {}]

GoalsInit ==
  /\ goals = [g \in Goals |-> IF g = 1 THEN NewGoal ELSE NoGoal]
  /\ goal_session = [s \in GoalSessions |-> NoGoalSession]
  /\ goal_calls = 0
  /\ learned = {} /\ turns_answered = {}
  /\ safe_notes = {}

Existing == {g \in Goals : goals[g] # NoGoal}

(* get_active_goals(): they are updated in this order, the oldest first.   *)
ActiveGoals == {g \in Existing : goals[g].status = "active"}

Calls(s, op, seen, todo, flushed) ==
  /\ goal_session[s] = NoGoalSession /\ goal_calls < MaxGoalCalls
  /\ goal_calls' = goal_calls + 1
  /\ goal_session' = [goal_session EXCEPT ![s] =
       [op |-> op, name |-> goal_calls + 1, seen |-> [g \in seen |-> goals[g]],
        flushed |-> flushed, todo |-> todo, memorized |-> {}]]

Does(s, what) == goal_session' = [goal_session EXCEPT ![s] = what]

(* Nobody else can know a goal before it is committed.                     *)
CreateGoal(s) ==
  /\ \E g \in Goals \ Existing :
       /\ \A h \in Goals \ Existing : g <= h
       /\ \A o \in GoalSessions : g \notin DOMAIN goal_session[o].flushed
       /\ Calls(s, "create", {}, {}, [h \in {g} |-> NewGoal])
  /\ UNCHANGED <<goals, memoryHistory, safe_notes>>

(* _get_goal() of a call, whatever the status of the goal is. *)
GetGoal(s) ==
  /\ \E g \in Existing, op \in {"progress", "complete", "abandon"} : Calls(s, op, {g}, {g}, << >>)
  /\ UNCHANGED <<goals, memoryHistory, safe_notes>>

(* The columns that a call changes, of what it has seen; a status that is   *)
(* the one seen is not written.                                            *)
Change(call, g) ==
  LET seen == call.seen[g] IN
  CASE call.op \in {"progress", "turn", "over"} -> [notes |-> Append(seen.notes, call.name)]
    [] call.op = "complete" /\ seen.status = "completed" -> [completed |-> TRUE]
    [] call.op = "complete" /\ seen.status # "completed" -> [status |-> "completed", completed |-> TRUE]
    [] call.op = "abandon" /\ seen.status = "abandoned" -> << >>
    [] call.op = "abandon" /\ seen.status # "abandoned" -> [status |-> "abandoned"]

Holds(s, g) == g \in DOMAIN goal_session[s].flushed

(* The UPDATE waits for whoever has updated the row, and then overwrites   *)
(* what that has committed.                                                *)
FlushGoal(s) ==
  LET call == goal_session[s] IN
  /\ call.todo # {} /\ call.op # "answering"
  /\ LET g == Min(call.todo) IN
     /\ \A o \in GoalSessions \ {s} : ~Holds(o, g)
     /\ Does(s, [call EXCEPT !.todo = @ \ {g},
                             !.flushed = [h \in {g} \cup DOMAIN @ |-> IF h = g THEN Change(call, g) ELSE @[h]]])
  /\ UNCHANGED <<goals, goal_calls, memoryHistory, safe_notes>>

Column(change, old, column) == IF column \in DOMAIN change THEN change[column] ELSE old[column]

Updated(old, change) ==
  [status |-> Column(change, old, "status"), notes |-> Column(change, old, "notes"),
   completed |-> Column(change, old, "completed")]

GoalReaders(g) == {s \in GoalSessions : g \in DOMAIN goal_session[s].seen}

(* What is committed, and the notes that nobody can have missed.           *)
Commits(s) ==
  LET flushed == goal_session[s].flushed IN
  /\ goals' = [g \in Goals |-> IF g \notin DOMAIN flushed THEN goals[g]
                               ELSE IF goals[g] = NoGoal THEN flushed[g] ELSE Updated(goals[g], flushed[g])]
  /\ safe_notes' = safe_notes \cup
       {<<g, goal_session[s].name>> : g \in {h \in DOMAIN flushed : "notes" \in DOMAIN flushed[h]
                                               /\ goals[h] # NoGoal /\ GoalReaders(h) \subseteq {s}}}

CommitCall(s) ==
  /\ goal_session[s].op \in {"create", "progress", "complete", "abandon"} /\ goal_session[s].todo = {}
  /\ Commits(s)
  /\ Does(s, NoGoalSession)
  /\ UNCHANGED <<goal_calls, memoryHistory>>

RollbackCall(s) ==
  /\ goal_session[s].op \in {"create", "progress", "complete", "abandon", "answering"}
  /\ Does(s, NoGoalSession)
  /\ UNCHANGED <<goals, goal_calls, memoryHistory, safe_notes>>
-----------------------------------------------------------------------------
(* A turn reads the goals, and answers much later.                         *)
BeginTurn(s) ==
  /\ ActiveGoals # {}
  /\ Calls(s, "answering", ActiveGoals, ActiveGoals, << >>)
  /\ UNCHANGED <<goals, memoryHistory, safe_notes>>

(* _store_turn_memory(): what an agent was asked and has answered.         *)
TurnMemory(agent) == IF agent THEN {"turn"} ELSE {}

(* _check_goal_progress() takes the goals that the message is about, if    *)
(* any progress was made; it finds the objects the session already has.    *)
TurnAnswered(s) ==
  /\ goal_session[s].op = "answering"
  /\ \E about \in SUBSET goal_session[s].todo, agent \in BOOLEAN :
       Does(s, [goal_session[s] EXCEPT !.op = "turn", !.todo = about, !.memorized = TurnMemory(agent)])
  /\ UNCHANGED <<goals, goal_calls, memoryHistory, safe_notes>>

(* _learn_from_interaction() and _extract_and_store_preferences(), if the  *)
(* turn is one of an agent; a task may as well end with nothing stored.    *)
StoreTurnMemory(s) ==
  /\ goal_session[s].op = "turn" /\ goal_session[s].memorized # {}
  /\ \E task \in MemoryTasks \ goal_session[s].memorized :
       Does(s, [goal_session[s] EXCEPT !.memorized = @ \cup {task}])
  /\ UNCHANGED <<goals, goal_calls, memoryHistory, safe_notes>>

(* A failed flush ends the transaction, for the answer as well.            *)
Over(s) == Does(s, [goal_session[s] EXCEPT !.op = "over", !.flushed = << >>, !.memorized = {}])

TurnFails(s) ==
  /\ goal_session[s].op = "turn"
  /\ Over(s)
  /\ UNCHANGED <<goals, goal_calls, memoryHistory, safe_notes>>

(* The request commits what has been flushed by now.  The tasks go on in a *)
(* new transaction, which nobody will commit: what they store then is      *)
(* nowhere, but the goals that they update stay locked for a while.        *)
TurnEnds(s) ==
  /\ goal_session[s].op = "turn"
  /\ Commits(s)
  /\ learned' = learned \cup ({goal_session[s].name} \X goal_session[s].memorized)
  /\ turns_answered' = turns_answered \cup {goal_session[s].name}
  /\ Over(s)
  /\ UNCHANGED goal_calls

(* An error ends a task, as when two use the session at a time; what is    *)
(* left of the transaction is rolled back with the session.                *)
TasksEnd(s) ==
  \/ /\ goal_session[s].op = "turn"
     /\ goal_session[s].todo # {} /\ Does(s, [goal_session[s] EXCEPT !.todo = {}])
     /\ UNCHANGED <<goals, goal_calls, memoryHistory, safe_notes>>
  \/ /\ goal_session[s].op = "over"
     /\ Does(s, NoGoalSession)
     /\ UNCHANGED <<goals, goal_calls, memoryHistory, safe_notes>>

GoalsNext ==
  \E s \in GoalSessions :
    \/ CreateGoal(s) \/ GetGoal(s) \/ FlushGoal(s) \/ CommitCall(s) \/ RollbackCall(s)
    \/ BeginTurn(s) \/ TurnAnswered(s) \/ TurnEnds(s) \/ TasksEnd(s) \/ StoreTurnMemory(s) \/ TurnFails(s)

GoalsSpec == GoalsInit /\ [][GoalsNext]_goalVars

-----------------------------------------------------------------------------
(* Notes are appended to what was seen and may overwrite each other; but   *)
(* what is committed while no other session has read the goal is never     *)
(* lost, and no note is there twice.                                       *)
SafeNotesStay ==
  /\ \A n \in safe_notes : n[2] \in ToSet(goals[n[1]].notes)
  /\ \A g \in Existing : IsInjective(goals[g].notes)

(* A goal that is over has nothing but an end: it is completed only with   *)
(* the time of it, even if it was abandoned before or after.               *)
EndsAreStamped == \A g \in Existing : goals[g].status = "completed" => goals[g].completed

(* Nothing is remembered of a turn whose answer is lost.                   *)
LearnedFromAnswers == \A m \in learned : m[1] \in turns_answered

(* Turns update goals in the order of their creation, so no two sessions   *)
(* wait for each other.                                                    *)
Wants(s) == IF goal_session[s].todo = {} \/ goal_session[s].op = "answering" THEN {} ELSE {Min(goal_session[s].todo)}

NobodyWaitsForEver ==
  ~ \E s, t \in GoalSessions :
      /\ s # t
      /\ \E g \in Wants(s) : Holds(t, g)
      /\ \E g \in Wants(t) : Holds(s, g)

GoalsAreKept == SafeNotesStay /\ EndsAreStamped /\ LearnedFromAnswers /\ NobodyWaitsForEver
=============================================================================
