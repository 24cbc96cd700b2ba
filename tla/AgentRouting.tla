---------------------------- MODULE AgentRouting ----------------------------
(***************************************************************************)
(* One query through AgentOrchestrator.route(): sanitizing, intent, agent  *)
(* selection, classification check, complexity, execution by one agent or  *)
(* by a composition pattern (pipeline, fan-out, gate), disclosure.  What   *)
(* the language model says is any of the outcomes the code tells apart.    *)
(*                                                                         *)
(* Two branches of the code are not there because nothing reaches them:    *)
(* the sanitizer never blocks when it is told to redact, and the quality   *)
(* gate is for classes of data that check_access() has refused.            *)
(* _route_via_composition() falls back to the one agent when a pattern     *)
(* raises; the patterns catch what agents and models raise, except that a  *)
(* fan-out stumbles over an agent that ends in a CancelledError.           *)
(***************************************************************************)
EXTENDS Naturals, Sequences, FiniteSets, FiniteSetsExt

CONSTANTS
  Agents, Capabilities,
  Provides,        \* the agent that declares each capability, or NoAgent
  RequiredLevel,   \* role level each agent requires
  DefaultAgent,    \* the generalist
  NoAgent,
  GateAttempts     \* max_retries of the gate

(* In agent/specialists/ no capability has two agents, and the default     *)
(* agent is for every role.                                                *)
ASSUME RoutingAssumption ==
  /\ DefaultAgent \in Agents /\ NoAgent \notin Agents
  /\ Provides \in [Capabilities -> Agents \cup {NoAgent}]
  /\ RequiredLevel \in [Agents -> Nat] /\ RequiredLevel[DefaultAgent] = 0
  /\ GateAttempts \in Nat \ {0}

VARIABLES
  query,     \* stage; from route() on, role level and cited classes (0: no or bad metadata)
  outputs,   \* the agent runs: who ran, and whether it answered
  verified,  \* the outputs a verifier passed
  reply

routingVars == <<query, outputs, verified, reply>>

NoReply == [kind |-> "none"]

UserLevels == UNION {0 .. RequiredLevel[a] : a \in Agents}

RoutingInit ==
  /\ query = [stage |-> "none"]
  /\ outputs = <<>>
  /\ verified = {}
  /\ reply = NoReply

(* A query arrives, with the passages the retrieval has found for it. *)
Receive ==
  /\ query.stage = "none"
  /\ query' \in [stage : {"received"}, level : UserLevels, cited : SUBSET (0 .. 4)]
  /\ UNCHANGED <<outputs, verified, reply>>

Accessible(c) == Provides[c] # NoAgent /\ RequiredLevel[Provides[c]] <= query.level

(* _select_agent(): the primary capability, then the secondary ones, then  *)
(* the generalist.                                                         *)
SelectAgent(capabilities) ==
  LET usable == {i \in DOMAIN capabilities : Accessible(capabilities[i])} IN
  IF usable = {} THEN DefaultAgent ELSE Provides[capabilities[Min(usable)]]

(* An agent that an unsure intent may find in the skill memories. *)
Remembered == {a \in Agents : RequiredLevel[a] <= query.level}

(* Mutant of Highest: the last class that has metadata counts. *)
SomeClass(cited) == IF cited \ {0} = {} THEN 2 ELSE Min(cited \ {0})

(* _determine_classification() *)
Highest(cited) ==
  LET highest == Max({1} \cup cited) IN IF highest = 1 THEN 2 ELSE highest

(* check_access() without a document ACL: Class III needs one, Class IV is *)
(* never granted.                                                          *)
CheckAccess(class) == class <= 2

(* _classify_intent(): the primary and a secondary capability.  An answer  *)
(* that names no known capability is <<>>; of an unusable one, the default *)
(* is "general_knowledge".                                                 *)
Intents == UNION {[1 .. n -> Capabilities] : n \in 0 .. 2}

(* _assess_complexity(): what the model says; if it cannot be used, simple. *)
Complexities == {"simple", "pipeline", "fan_out", "gate"}

(* Intent, agent and complexity. *)
Route ==
  /\ query.stage = "received"
  /\ \E capabilities \in Intents, mode \in Complexities :
     \E agent \in {SelectAgent(capabilities)} \cup Remembered :
       IF CheckAccess(Highest(query.cited))
       THEN /\ query' = [stage |-> mode, level |-> query.level, cited |-> query.cited, agent |-> agent]
            /\ UNCHANGED reply
       ELSE /\ query' = [query EXCEPT !.stage = "done"]
            /\ reply' = [kind |-> "refusal", disclosed |-> FALSE]
  /\ UNCHANGED <<outputs, verified>>

-----------------------------------------------------------------------------
Ran(agent, ok) == Append(outputs, [agent |-> agent, ok |-> ok])

(* AI disclosure is added to everything a pattern or an agent returns. *)
Respond(kind, run) ==
  /\ query' = [query EXCEPT !.stage = "done"]
  /\ reply' = [kind |-> kind, run |-> run, mode |-> query.stage, disclosed |-> TRUE]

(* The one agent answers, at once or after a fan-out that broke off, or    *)
(* its exception becomes an apology.                                       *)
RouteToSpecialist ==
  /\ query.stage \in {"simple", "fallback"}
  /\ \E ok \in BOOLEAN :
       /\ outputs' = Ran(query.agent, ok)
       /\ IF ok THEN Respond("output", Len(outputs) + 1)
          ELSE /\ query' = [query EXCEPT !.stage = "done"]
               /\ reply' = [kind |-> "error", disclosed |-> FALSE]
  /\ UNCHANGED verified

(* PipelineExecutor: the selected agent, then the generalist; the first    *)
(* failure stops it and its message is the answer.                         *)
PipelineStage ==
  LET stages == <<query.agent, DefaultAgent>>
      n == Len(outputs) + 1 IN
  /\ query.stage = "pipeline"
  /\ \E ok \in BOOLEAN :
       /\ outputs' = Ran(stages[n], ok)
       /\ IF ok /\ n < Len(stages) THEN UNCHANGED <<query, reply>>
          ELSE Respond(IF ok THEN "output" ELSE "failure", n)
  /\ UNCHANGED verified

(* The agents a fan-out asks: all that share the primary capability, up to *)
(* three, if they are several, which they never are.                       *)
FanAgents == <<query.agent, DefaultAgent>>

(* Their runs overlap and end in any order. *)
FanOutRun ==
  /\ query.stage = "fan_out"
  /\ Len(outputs) < Len(FanAgents)
  /\ \E i \in 1 .. Len(FanAgents), ok \in BOOLEAN :
       /\ \A j \in 1 .. Len(outputs) : outputs[j].of # i
       /\ outputs' = Append(outputs, [agent |-> FanAgents[i], ok |-> ok, of |-> i])
  /\ UNCHANGED <<query, verified, reply>>

(* A synthesis of the answers there are, or their concatenation. *)
Synthesize ==
  /\ query.stage = "fan_out"
  /\ Len(outputs) = Len(FanAgents)
  /\ Respond(IF \E i \in DOMAIN outputs : outputs[i].ok THEN "synthesis" ELSE "failure", 0)
  /\ UNCHANGED <<outputs, verified>>

(* gather() hands the CancelledError of an agent over as a result, and no  *)
(* result it is.                                                           *)
FallBack ==
  /\ query.stage = "fan_out"
  /\ Len(outputs) = Len(FanAgents) /\ \E i \in DOMAIN outputs : ~outputs[i].ok
  /\ query' = [query EXCEPT !.stage = "fallback"]
  /\ UNCHANGED <<outputs, verified, reply>>

Attempts == Cardinality({i \in DOMAIN outputs : outputs[i].of = "production"})

AwaitsVerdict == outputs # <<>> /\ outputs[Len(outputs)].of = "production" /\ outputs[Len(outputs)].ok

(* GateExecutor: an attempt of the selected agent. *)
GateProduce ==
  /\ query.stage = "gate"
  /\ ~AwaitsVerdict /\ Attempts < GateAttempts
  /\ \E ok \in BOOLEAN :
       outputs' = Append(outputs, [agent |-> query.agent, ok |-> ok, of |-> "production"])
  /\ UNCHANGED <<query, verified, reply>>

(* Mutant of GateVerify: a verifier that fails lets the output pass. *)
GateVerifyLeniently ==
  /\ query.stage = "gate"
  /\ AwaitsVerdict
  /\ \E verdict \in {"passed", "feedback", "failed"} :
       /\ outputs' = Append(outputs, [agent |-> DefaultAgent, ok |-> verdict # "failed", of |-> "verification"])
       /\ verified' = IF verdict = "passed" THEN {Len(outputs)} ELSE {}
       /\ IF verdict # "feedback" THEN Respond("output", Len(outputs)) ELSE UNCHANGED <<query, reply>>

(* The generalist verifies the output: it passes, is sent back with        *)
(* feedback, or the verifier fails, which uses the attempt up too.         *)
GateVerify ==
  /\ query.stage = "gate"
  /\ AwaitsVerdict
  /\ \E verdict \in {"passed", "feedback", "failed"} :
       /\ outputs' = Append(outputs, [agent |-> DefaultAgent, ok |-> verdict # "failed", of |-> "verification"])
       /\ verified' = IF verdict = "passed" THEN {Len(outputs)} ELSE {}
       /\ IF verdict = "passed" THEN Respond("output", Len(outputs)) ELSE UNCHANGED <<query, reply>>

GateGivesUp ==
  /\ query.stage = "gate"
  /\ ~AwaitsVerdict /\ Attempts = GateAttempts
  /\ Respond("failure", 0)
  /\ UNCHANGED <<outputs, verified>>

RoutingStep ==
  \/ Receive \/ Route \/ RouteToSpecialist \/ PipelineStage
  \/ FanOutRun \/ Synthesize \/ FallBack \/ GateProduce \/ GateVerify \/ GateGivesUp

RoutingSpec == RoutingInit /\ [][RoutingStep]_routingVars

-----------------------------------------------------------------------------
(* "The orchestrator never bypasses ... role-based access control": no     *)
(* agent runs that the user's role may not use, in any pattern.            *)
AgentsFitTheRole == \A i \in DOMAIN outputs : RequiredLevel[outputs[i].agent] <= query.level

(* No agent ever sees a passage that is known to be Class III or IV. *)
RestrictedStaysOut == outputs # <<>> => query.cited \subseteq 0 .. 2

(* What the user gets carries the disclosure exactly if agents produced    *)
(* it; a gate delivers only the output its verifier has just passed.       *)
RepliesAreChecked ==
  /\ reply.kind \in {"output", "synthesis"} => reply.disclosed
  /\ reply.kind = "output" => outputs[reply.run].ok
  /\ reply.kind = "output" /\ reply.mode = "gate" => reply.run \in verified

RoutingIsCompliant == AgentsFitTheRole /\ RestrictedStaysOut /\ RepliesAreChecked

(* Retries and failures end: every query is answered. *)
EveryQueryIsAnswered == query.stage = "received" ~> reply # NoReply
=============================================================================
