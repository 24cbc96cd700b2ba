------------------------------ MODULE Reasoning ------------------------------
(***************************************************************************)
(* How an answer is thought about: the strategies of one agent, and the    *)
(* deliberations that ask several times.                                   *)
(***************************************************************************)
EXTENDS Integers, Sequences, FiniteSets, SequencesExt, FiniteSetsExt

(***************************************************************************)
(* The reasoning strategies and the engine of the specialists: pipelines   *)
(* of calls to the model, each of which may fail, with the confidence that *)
(* they come to.  Confidences are percentages.                             *)
(***************************************************************************)

CONSTANTS
  Confidences,     \* what the model may claim
  Scores,          \* what it may give a branch, of ten
  NumBranches, BeamWidth, MaxRounds,   \* 3, 2 and 2 (max_depth)
  NumSamples,      \* 3
  MaxQueries       \* max_search_queries: 3

ASSUME ReasoningAssumption ==
  /\ Confidences \subseteq 0 .. 100 /\ Scores \subseteq 0 .. 10
  /\ NumBranches \in Nat \ {0} /\ BeamWidth \in 1 .. NumBranches /\ MaxRounds \in Nat \ {0}
  /\ NumSamples \in Nat \ {0} /\ MaxQueries \in Nat

VARIABLES
  strategy,    \* what the router, or the agent, has chosen
  phase,       \* the next call
  draft,       \* what the strategy has so far
  reasoned,    \* its result
  outage       \* history: no call has been answered yet

reasoningVars == <<strategy, phase, draft, reasoned, outage>>

Nothing == [confidence |-> 0]

ReasoningInit ==
  /\ strategy = "none" /\ phase = "idle"
  /\ draft = Nothing /\ reasoned = Nothing
  /\ outage = TRUE

(* An agent's own strategy goes first, then the kind of task, then its     *)
(* complexity, then the default.                                           *)
SelectStrategy(override, task, complexity, default) ==
  CASE override # "none" -> override
    [] override = "none" /\ task \in {"safety_critical", "critical"} -> "self_consistency"
    [] override = "none" /\ task = "knowledge_intensive" -> "retrieval_augmented_reasoning"
    [] override = "none" /\ task \in {"planning", "complex"} -> "tree_of_thought"
    [] override = "none" /\ task = "simple" -> "chain_of_thought"
    [] override = "none" /\ task = "general" ->
         IF complexity = "low" THEN "chain_of_thought"
         ELSE IF complexity = "high" THEN "tree_of_thought" ELSE default

Route ==
  /\ phase = "idle"
  /\ \E override \in {"none", "chain_of_thought"}, complexity \in {"low", "medium", "high"},
        task \in {"safety_critical", "knowledge_intensive", "planning", "simple", "general"} :
       strategy' = SelectStrategy(override, task, complexity, "chain_of_thought")
  /\ phase' = "start"
  /\ UNCHANGED <<draft, reasoned, outage>>

(* A specialist reasons by itself, with or without need of verification.   *)
BeginSpecialist ==
  /\ phase = "idle"
  /\ strategy' = "specialist"
  /\ \E critical \in BOOLEAN : draft' = [critical |-> critical, confidence |-> 0]
  /\ phase' = "start"
  /\ UNCHANGED <<reasoned, outage>>

Call(name, from) == strategy = name /\ phase = from /\ UNCHANGED strategy

Proceed(to, newDraft, failed) ==
  /\ phase' = to
  /\ draft' = newDraft
  /\ outage' = (outage /\ failed)
  /\ UNCHANGED reasoned

Finish(result, failed) ==
  /\ reasoned' = result
  /\ phase' = "done"
  /\ outage' = (outage /\ failed)
  /\ UNCHANGED draft

(* A text where a list was expected, used outside of any handler: reason() *)
(* raises and there is no result.                                          *)
Malformed == Finish([raised |-> TRUE], FALSE)
-----------------------------------------------------------------------------
(* Chain of thought: the steps, and their verification, whose issues and   *)
(* whose failure cost confidence.                                          *)
Think ==
  /\ Call("chain_of_thought", "start")
  /\ \/ \E c \in Confidences : Proceed("verify", [confidence |-> c], FALSE)
     \/ Proceed("verify", [confidence |-> 20], FALSE)  \* cannot be parsed
     \/ Proceed("verify", [confidence |-> 0], TRUE)    \* the call fails
     \/ Malformed

Penalised(c, each, count, most) == Max({0, c - Min({each * count, most})})

VerifyChain ==
  /\ Call("chain_of_thought", "verify")
  /\ \/ \E c \in Confidences, issues \in 0 .. 4 :
          Finish([confidence |-> Penalised(c, 10, issues, 30)], FALSE)
     \/ Finish([confidence |-> Penalised((draft.confidence * 9) \div 10, 10, 1, 30)], FALSE)
     \/ Finish([confidence |-> Penalised((draft.confidence * 8) \div 10, 10, 1, 30)], TRUE)
-----------------------------------------------------------------------------
(* Tree of thought: some approaches, or a general one.                     *)
Branch == [score |-> 5, steps |-> 0, alive |-> TRUE]

Generate ==
  /\ Call("tree_of_thought", "start")
  /\ \E n \in 1 .. NumBranches, failed \in BOOLEAN :
       /\ failed => n = 1
       /\ Proceed("round", [branches |-> [b \in 1 .. n |-> Branch], rounds |-> 0], failed)

Alive == {b \in DOMAIN draft.branches : draft.branches[b].alive}

(* Place in the stable order by falling score. *)
Place(b, among, score) == Cardinality({o \in among : score[o] > score[b] \/ (score[o] = score[b] /\ o < b)})

(* All that are alive are expanded and then scored, side by side, each     *)
(* writing its own branch; a score that fails is 5.  The best stay.        *)
Round ==
  /\ Call("tree_of_thought", "round")
  /\ draft.rounds < MaxRounds
  /\ \E failed \in BOOLEAN : \E score \in [Alive -> IF failed THEN {5} ELSE Scores] :
       Proceed("round",
         [branches |-> [b \in DOMAIN draft.branches |->
            IF b \in Alive
              THEN [score |-> score[b], steps |-> draft.branches[b].steps + 1,
                    alive |-> Place(b, Alive, score) < BeamWidth]
              ELSE draft.branches[b]],
          rounds |-> draft.rounds + 1], failed)

Best == CHOOSE b \in Alive : \A o \in Alive :
          \/ draft.branches[o].score < draft.branches[b].score
          \/ draft.branches[o].score = draft.branches[b].score /\ b <= o

ConcludeWith(c, failed) ==
  Finish([confidence |-> (6 * c + 40 * draft.branches[Best].score) \div 10, branch |-> Best], failed)

ConcludeTree ==
  /\ Call("tree_of_thought", "round")
  /\ draft.rounds = MaxRounds
  /\ \/ \E c \in Confidences : ConcludeWith(c, FALSE)
     \/ ConcludeWith(10 * draft.branches[Best].score, TRUE)
-----------------------------------------------------------------------------
(* Self-consistency: each sample is answered or fails, which is an answer  *)
(* as well, and the answer is taken out of it, by the model or as it is;   *)
(* the message of a failed one names the sample.                           *)
Failed(i) == <<"failed", i>>
SampleAnswers(i) == {<<"yes", 0>>, <<"no", 0>>, <<"apology", 0>>, Failed(i)}

Sample ==
  /\ Call("self_consistency", "start")
  /\ \E answers \in {f \in [1 .. NumSamples -> UNION {SampleAnswers(i) : i \in 1 .. NumSamples}] :
                      \A i \in 1 .. NumSamples : f[i] \in SampleAnswers(i)} :
       Proceed("vote", [answers |-> answers],
               \A i \in 1 .. NumSamples : answers[i] = Failed(i))

Votes(i) == Cardinality({j \in 1 .. NumSamples : draft.answers[j] = draft.answers[i]})

(* Counter.most_common: of the most frequent answers the first one seen.   *)
Majority == CHOOSE i \in 1 .. NumSamples :
  \A j \in 1 .. NumSamples : Votes(j) < Votes(i) \/ (Votes(j) = Votes(i) /\ i <= j)

Vote ==
  /\ Call("self_consistency", "vote")
  /\ Finish([confidence |-> 40 + (60 * Votes(Majority)) \div NumSamples,
             answer |-> draft.answers[Majority]], TRUE)
-----------------------------------------------------------------------------
(* Retrieval-augmented reasoning.  The first attempt fails, or is read; if *)
(* its last field cannot be, the answer is an error but what was read      *)
(* before stays.                                                           *)
Attempt ==
  /\ Call("retrieval_augmented_reasoning", "start")
  /\ \/ \E c \in Confidences, complete \in BOOLEAN, readable \in BOOLEAN :
          Proceed("attempted", [confidence |-> c, complete |-> complete, failed |-> ~readable,
                                retrieved |-> FALSE, queries |-> 0], FALSE)
     \/ Proceed("attempted", [confidence |-> 0, complete |-> FALSE, failed |-> TRUE,
                              retrieved |-> FALSE, queries |-> 0], TRUE)

Sufficient == draft.complete /\ draft.confidence >= 80

ReturnAtOnce ==
  /\ Call("retrieval_augmented_reasoning", "attempted")
  /\ Sufficient
  /\ Finish([confidence |-> draft.confidence, failed |-> draft.failed, retrieved |-> FALSE], TRUE)

(* No query, some, or the question itself when the call fails.  What is    *)
(* not a list of gaps makes the prompt raise.                              *)
FindGaps ==
  /\ Call("retrieval_augmented_reasoning", "attempted")
  /\ ~Sufficient
  /\ \/ \E n \in 0 .. MaxQueries : Proceed("retrieve", [draft EXCEPT !.queries = n], FALSE)
     \/ Proceed("retrieve", [draft EXCEPT !.queries = 1], TRUE)
     \/ draft.failed /\ ~outage /\ Malformed

(* Side by side; a search that fails finds nothing. *)
Retrieve ==
  /\ Call("retrieval_augmented_reasoning", "retrieve")
  /\ \E found \in BOOLEAN :
       /\ found => draft.queries > 0
       /\ Proceed("augment", [draft EXCEPT !.retrieved = found], TRUE)

Augment ==
  /\ Call("retrieval_augmented_reasoning", "augment")
  /\ \/ \E c \in Confidences : Proceed("check", [draft EXCEPT !.confidence = c, !.failed = FALSE], FALSE)
     \/ Proceed("check", draft, TRUE)

CheckSources ==
  /\ Call("retrieval_augmented_reasoning", "check")
  /\ \/ \E c \in Confidences, unsupported \in 0 .. 3 :
          Finish([confidence |-> Penalised(c, 15, unsupported, 40), failed |-> draft.failed,
                  retrieved |-> draft.retrieved], FALSE)
     \/ Finish([confidence |-> (draft.confidence * 9) \div 10, failed |-> draft.failed,
                retrieved |-> draft.retrieved], TRUE)
-----------------------------------------------------------------------------
(* The specialist: what it observes, or that it cannot, is in the prompt;  *)
(* its steps have an average confidence, 30 if they cannot be parsed and 0 *)
(* if there are none.                                                      *)
ObserveResult ==
  /\ Call("specialist", "start")
  /\ \E failed \in BOOLEAN : Proceed("think", draft, failed)

ThinkAsSpecialist ==
  /\ Call("specialist", "think")
  /\ \/ \E c \in Confidences \cup {30} : Proceed("verify", [draft EXCEPT !.confidence = c], FALSE)
     \/ Proceed("verify", draft, TRUE)

(* Conclusions of an agent that needs verification are reviewed if they    *)
(* are not verified, or not sure enough.                                   *)
NeedsReview(verified, review) == review \/ (draft.critical /\ (~verified \/ draft.confidence < 60))

VerifyAsSpecialist ==
  /\ Call("specialist", "verify")
  /\ \/ \E verified, review \in BOOLEAN :
          Finish([confidence |-> draft.confidence, verified |-> verified,
                  review |-> NeedsReview(verified, review)], FALSE)
     \/ Finish([confidence |-> draft.confidence, verified |-> FALSE, review |-> TRUE], TRUE)
     \/ Malformed

ReasoningNext ==
  \/ Route \/ BeginSpecialist
  \/ Think \/ VerifyChain
  \/ Generate \/ Round \/ ConcludeTree
  \/ Sample \/ Vote
  \/ Attempt \/ ReturnAtOnce \/ FindGaps \/ Retrieve \/ Augment \/ CheckSources
  \/ ObserveResult \/ ThinkAsSpecialist \/ VerifyAsSpecialist

ReasoningSpec == ReasoningInit /\ [][ReasoningNext]_reasoningVars

-----------------------------------------------------------------------------
Has(result, field) == field \in DOMAIN result
Concluded == phase = "done" /\ Has(reasoned, "confidence")

(* What is concluded when the model has answered no call at all is worth   *)
(* what the defaults of the strategy are worth: nothing for a chain of     *)
(* thought, for retrieval and for a specialist, who is also reviewed; but  *)
(* the share of a single sample on top of 40 for a vote, in which failures *)
(* never agree with each other, and 50 for a tree.                         *)
OutageIsWorthDefaults ==
  Concluded /\ outage =>
    CASE strategy \in {"chain_of_thought", "retrieval_augmented_reasoning"} -> reasoned.confidence = 0
      [] strategy = "specialist" -> reasoned.confidence = 0 /\ reasoned.review
      [] strategy = "self_consistency" -> reasoned.confidence = 40 + 60 \div NumSamples
      [] strategy = "tree_of_thought" -> reasoned.confidence = 50

(* The beam is never wider than it may be nor empty, every branch in it    *)
(* has gone through every round, and the answer is of the best of them,    *)
(* which no branch of the last round has beaten.                           *)
BeamIsKept ==
  strategy = "tree_of_thought" /\ Has(draft, "branches") =>
    /\ Alive # {}
    /\ draft.rounds > 0 => Cardinality(Alive) <= BeamWidth
    /\ \A b \in Alive : draft.branches[b].steps = draft.rounds
    /\ Concluded => \A b \in DOMAIN draft.branches :
         draft.branches[b].steps = draft.rounds => draft.branches[b].score <= draft.branches[reasoned.branch].score

(* An answer that more than half of the samples agree on is the answer.    *)
MajorityWins ==
  Concluded /\ strategy = "self_consistency" =>
    \A i \in 1 .. NumSamples : 2 * Votes(i) > NumSamples => reasoned.answer = draft.answers[i]

(* A specialist that needs verification is trusted only if it is verified  *)
(* and sure.                                                               *)
CriticalIsVerified ==
  Concluded /\ strategy = "specialist" /\ draft.critical /\ ~reasoned.review =>
    reasoned.verified /\ reasoned.confidence >= 60

ReasoningIsSound == OutageIsWorthDefaults /\ BeamIsKept /\ MajorityWins /\ CriticalIsVerified

-----------------------------------------------------------------------------
(***************************************************************************)
(* The three ways of thinking about an answer that ask the model several   *)
(* times: the red team, whose checks run side by side and whose findings   *)
(* are aggregated; the council, whose members take positions, criticise    *)
(* each other and are reconciled; and first principles, which take a       *)
(* question apart, depth first.  Any call of the model may fail, or answer *)
(* what cannot be read.                                                    *)
(***************************************************************************)

CONSTANTS
  RedTeamChecks,   \* four: grounding, omissions, calibration, leakage
  Members,         \* of the council: three
  MaxDepth,        \* MAX_DEPTH: 4
  MaxBranches      \* MAX_BRANCHES: 3

ASSUME DeliberationAssumption == MaxDepth \in Nat /\ MaxBranches \in Nat \ {0}

VARIABLES
  red_team,     \* the outcome of each check
  council,      \* the outcome of each member, and the stage
  stage,
  nodes,        \* the nodes of the decomposition: a path of branches and what became of it
  agenda,       \* the questions still to be asked, the next one first
  judgement       \* what analyze(), deliberate() or decompose() has returned

deliberationVars == <<red_team, council, stage, nodes, agenda, judgement>>

NoVerdict == [by |-> "nobody", review |-> FALSE]

DeliberationInit ==
  /\ red_team = [check \in RedTeamChecks |-> "idle"]
  /\ council = [m \in Members |-> "idle"]
  /\ stage = "idle"
  /\ nodes = [path \in {} |-> ""]
  /\ agenda = << >>
  /\ judgement = NoVerdict

(* asyncio.gather: every check, or every member, asks the model.           *)
Analyze ==
  /\ stage = "idle"
  /\ stage' = "checks"
  /\ red_team' = [check \in RedTeamChecks |-> "running"]
  /\ UNCHANGED <<council, nodes, agenda, judgement>>

(* Severities: 1 for low to 4 for critical, and 0 for no finding; of the   *)
(* findings of a check the highest counts.                                 *)
CheckEnds(check, outcome) ==
  /\ red_team[check] = "running"
  /\ red_team' = [red_team EXCEPT ![check] = outcome]
  /\ UNCHANGED <<council, stage, nodes, agenda, judgement>>

CheckReturns(check) == \E outcome \in {"none", "low", "medium", "high", "critical"} : CheckEnds(check, outcome)

(* What cannot be parsed is a finding itself. *)
CheckUnparsed(check) == CheckEnds(check, "medium")

(* The call fails, or a severity has another name: the check raises.       *)
CheckFails(check) == CheckEnds(check, "system_error")

Severity(outcome) ==
  CASE outcome = "none" -> 0 [] outcome = "low" -> 1 [] outcome = "medium" -> 2
    [] outcome \in {"high", "system_error"} -> 3 [] outcome = "critical" -> 4

Aggregate(rule, review, severity) ==
  /\ judgement' = [by |-> rule, review |-> review, severity |-> severity]
  /\ stage' = "done"
  /\ UNCHANGED <<red_team, council, nodes, agenda>>

AllChecked == stage = "checks" /\ \A check \in RedTeamChecks : red_team[check] # "running"

Overall == Max({Severity(red_team[check]) : check \in RedTeamChecks})

NothingFound == AllChecked /\ Overall = 0 /\ Aggregate("rule", FALSE, 1)

CriticalFound == AllChecked /\ Overall = 4 /\ Aggregate("rule", TRUE, 4)

(* The model decides what the rest of the findings are worth.              *)
ModelAggregates ==
  /\ AllChecked /\ Overall \in 1 .. 3
  /\ \E review \in BOOLEAN : Aggregate("model", review, Overall)

AggregationFails ==
  /\ AllChecked /\ Overall \in 1 .. 3
  /\ Aggregate("fallback", Overall = 3, Overall)
-----------------------------------------------------------------------------
Deliberate ==
  /\ stage = "idle"
  /\ stage' = "positions"
  /\ council' = [m \in Members |-> "running"]
  /\ UNCHANGED <<red_team, nodes, agenda, judgement>>

(* A member answers, fails into a position without arguments, or answers   *)
(* with arguments that are no list of texts, which nobody looks at yet.    *)
MemberAnswers(m) ==
  /\ stage \in {"positions", "critiques"} /\ council[m] = "running"
  /\ \E outcome \in {"answered", "failed", "malformed"} :
       council' = [council EXCEPT ![m] = outcome]
  /\ UNCHANGED <<red_team, stage, nodes, agenda, judgement>>

AllAnswered == \A m \in Members : council[m] # "running"
Readable == \A m \in Members : council[m] # "malformed"

(* The texts of the others are joined before the model is asked, outside   *)
(* of the handler: what is malformed makes deliberate() raise.             *)
Raise ==
  /\ stage \in {"positions", "critiques"} /\ AllAnswered /\ ~Readable
  /\ judgement' = [by |-> "exception", review |-> FALSE]
  /\ stage' = "done"
  /\ UNCHANGED <<red_team, council, nodes, agenda>>

Criticise ==
  /\ stage = "positions" /\ AllAnswered /\ Readable
  /\ stage' = "critiques"
  /\ council' = [m \in Members |-> "running"]
  /\ UNCHANGED <<red_team, nodes, agenda, judgement>>

Synthesize ==
  /\ stage = "critiques" /\ AllAnswered /\ Readable
  /\ \E review \in BOOLEAN, dissent \in {{}, Members} :
       judgement' = [by |-> "model", review |-> review, dissent |-> dissent]
  /\ stage' = "done"
  /\ UNCHANGED <<red_team, council, nodes, agenda>>

(* Nobody is reconciled: every position is a dissent, for a person to read. *)
SynthesisFails ==
  /\ stage = "critiques" /\ AllAnswered /\ Readable
  /\ judgement' = [by |-> "fallback", review |-> TRUE, dissent |-> Members]
  /\ stage' = "done"
  /\ UNCHANGED <<red_team, council, nodes, agenda>>
-----------------------------------------------------------------------------
DecomposeQuestion ==
  /\ stage = "idle"
  /\ stage' = "questions"
  /\ agenda' = << << >> >>
  /\ UNCHANGED <<red_team, council, nodes, judgement>>

(* The next question is answered; its own questions come before the rest.  *)
Settle(outcome, children) ==
  /\ nodes' = [path \in DOMAIN nodes \cup {Head(agenda)} |->
                 IF path = Head(agenda) THEN outcome ELSE nodes[path]]
  /\ agenda' = [i \in 1 .. children |-> Append(Head(agenda), i)] \o Tail(agenda)
  /\ UNCHANGED <<red_team, council, stage, judgement>>

Asking == stage = "questions" /\ agenda # << >>

FundamentalAnswer == Asking /\ Len(Head(agenda)) >= MaxDepth /\ Settle("fundamental", 0)

(* The model may call the answer fundamental, or ask any number of         *)
(* questions, of which the first MAX_BRANCHES count.                       *)
Subdivide ==
  /\ Asking /\ Len(Head(agenda)) < MaxDepth
  /\ \E asked \in 0 .. MaxBranches + 1 :
       IF asked = 0 THEN Settle("fundamental", 0)
       ELSE Settle("inner", Min({asked, MaxBranches}))

(* A failure is a leaf that counts as fundamental, with its assumption.    *)
DecompositionFails == Asking /\ Len(Head(agenda)) < MaxDepth /\ Settle("failed", 0)

Leaves == {path \in DOMAIN nodes : nodes[path] # "inner"}

Reconstruct ==
  /\ stage = "questions" /\ agenda = << >>
  /\ \E by \in {"model", "fallback"}, review \in BOOLEAN :
       /\ by = "fallback" => review
       /\ judgement' = [by |-> by, review |-> review, truths |-> Leaves]
  /\ stage' = "done"
  /\ UNCHANGED <<red_team, council, nodes, agenda>>

DeliberationNext ==
  \/ Analyze
  \/ \E check \in RedTeamChecks : CheckReturns(check) \/ CheckUnparsed(check) \/ CheckFails(check)
  \/ NothingFound \/ CriticalFound \/ ModelAggregates \/ AggregationFails
  \/ Deliberate
  \/ \E m \in Members : MemberAnswers(m)
  \/ Raise \/ Criticise \/ Synthesize \/ SynthesisFails
  \/ DecomposeQuestion
  \/ FundamentalAnswer \/ Subdivide \/ DecompositionFails
  \/ Reconstruct

DeliberationSpec == DeliberationInit /\ [][DeliberationNext]_deliberationVars

-----------------------------------------------------------------------------
(* What the checks have found critical is reviewed, whatever the model     *)
(* says; a check that failed weighs as much as a serious finding, and      *)
(* passes without a review only if the model says so.                      *)
FindingsWeigh ==
  stage = "done" /\ (\E check \in RedTeamChecks : red_team[check] # "idle") =>
    /\ (\E check \in RedTeamChecks : red_team[check] = "critical") => judgement.review
    /\ (\E check \in RedTeamChecks : red_team[check] = "system_error") =>
         judgement.severity >= 3 /\ (judgement.review \/ judgement.by = "model")

(* A council that nobody could reconcile keeps every position, and is not  *)
(* answered if one of them could not be read.                              *)
DissentIsKept ==
  stage = "done" /\ (\E m \in Members : council[m] # "idle") =>
    /\ judgement.by = "fallback" => judgement.review /\ judgement.dissent = Members
    /\ (\E m \in Members : council[m] = "malformed") => judgement.by = "exception"

(* The decomposition is a tree no deeper and no wider than it may be, and  *)
(* the answer is rebuilt from all of its leaves.                           *)
TreeIsComplete ==
  /\ \A path \in DOMAIN nodes :
       /\ Len(path) <= MaxDepth
       /\ path # << >> => Front(path) \in DOMAIN nodes /\ nodes[Front(path)] = "inner"
  /\ stage = "done" /\ nodes # << >> =>
       \A path \in DOMAIN nodes : nodes[path] = "inner" <=> Append(path, 1) \in DOMAIN nodes
  /\ stage = "done" /\ nodes # << >> => judgement.truths = Leaves

DeliberationIsSound == FindingsWeigh /\ DissentIsKept /\ TreeIsComplete
=============================================================================
