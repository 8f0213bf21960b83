---------------------------- MODULE PlanContract ----------------------------
(***************************************************************************)
(* What the deterministic checks around a plan demand: the rules a         *)
(* planner's proposal has to meet before it is materialized, the checks of *)
(* a materialized plan with its task graph, the rules a revision has to    *)
(* meet, the approval policy that turns a reviewer's answer into a         *)
(* verdict, and what a verdict must satisfy to leave the system.           *)
(*                                                                         *)
(* A draft is a record: the evidence, claims, capabilities and human       *)
(* decisions it names, the gaps it mentions; whether its strategy          *)
(* discriminates between explanations; its tasks, a function from task     *)
(* keys to capability and dependencies; the evidence cited inside its      *)
(* parts; its observables and the ones its criteria measure; its baselines *)
(* and the ones its deviations depart from; its distinguishing axis; and   *)
(* the flaws of its wording that the checks look for.  Identifiers and     *)
(* texts are model values; content hashes are equality.                    *)
(***************************************************************************)
EXTENDS Naturals, FiniteSets, Sequences

CONSTANTS
  Evidence,         \* evidence allowed by the planning input
  Claims,           \* claims of the interpreted evidence packet
  SourcesOf,        \* [Claims -> SUBSET Evidence]
  Capabilities,     \* capabilities resolved from the knowledge base
  Gaps,             \* blocking evidence gaps; each asks one human decision
  RemedyOf,         \* [Gaps -> SUBSET Capabilities], what can close a gap
  Conflicts,        \* unresolved conflicts
  SidesOf,          \* [Conflicts -> SUBSET Claims]
  CriticalCodes,    \* red flags the policy answers with INSUFFICIENT_EVIDENCE
  NonRevisableCodes \* feedback no automatic revision may work on

ASSUME ContractAssumption ==
  /\ SourcesOf \in [Claims -> SUBSET Evidence]
  /\ RemedyOf \in [Gaps -> SUBSET Capabilities]
  /\ SidesOf \in [Conflicts -> SUBSET Claims]

NoTask == "none"

-----------------------------------------------------------------------------
(* The task graph *)

Dependencies(tasks) == [t \in DOMAIN tasks |-> tasks[t].needs \cap DOMAIN tasks]

\* Faulty: the loop queues whatever it reaches.
VisitEager(graph, s) ==
  IF s.queue = {} THEN s
  ELSE LET task == CHOOSE t \in s.queue : TRUE
           children == {t \in DOMAIN graph : task \in graph[t]}
       IN [queue |-> (s.queue \ {task}) \cup {t \in children : s.degree[t] > 0},
           degree |-> [t \in DOMAIN graph |-> IF t \in children THEN 0 ELSE s.degree[t]],
           visited |-> s.visited + 1]

\* One turn of the loop: take a task that waits for nothing, count it, and
\* release the tasks that waited only for it.
Visit(graph, s) ==
  IF s.queue = {} THEN s
  ELSE LET task == CHOOSE t \in s.queue : TRUE
           children == {t \in DOMAIN graph : task \in graph[t]}
           degree == [t \in DOMAIN graph |->
                        IF t \in children THEN s.degree[t] - 1 ELSE s.degree[t]]
       IN [queue |-> (s.queue \ {task}) \cup {t \in children : degree[t] = 0},
           degree |-> degree,
           visited |-> s.visited + 1]

\* The loop turn by turn, from the tasks that wait for nothing; it has at most
\* as many turns as there are tasks.
Start(graph) ==
  [queue |-> {t \in DOMAIN graph : graph[t] = {}},
   degree |-> [t \in DOMAIN graph |-> Cardinality(graph[t])],
   visited |-> 0]
Turns(graph) ==
  LET turn[n \in 0 .. Cardinality(DOMAIN graph)] ==
        IF n = 0 THEN Start(graph) ELSE Visit(graph, turn[n - 1])
  IN turn

\* Kahn's algorithm: a graph has a cycle unless every task is visited.
HasCycle(tasks) ==
  LET graph == Dependencies(tasks)
      count == Cardinality(DOMAIN graph)
  IN Turns(graph)[count].visited # count

\* The definition it is checked against: every set of tasks has one that
\* needs no other of the set.
Acyclic(tasks) ==
  \A some \in (SUBSET DOMAIN tasks) \ {{}} :
    \E t \in some : Dependencies(tasks)[t] \cap some = {}

-----------------------------------------------------------------------------
(* Proposals *)

Covers(draft, claims) == \A c \in claims \cap Claims : SourcesOf[c] \subseteq draft.evidence

UsedCapabilities(draft) == {draft.tasks[t].uses : t \in DOMAIN draft.tasks}

DraftIssues(draft) ==
  {code \in {"FABRICATED_ID", "CLAIM_EVIDENCE_MISMATCH", "EVIDENCE_OUTSIDE_CANDIDATE",
             "UNKNOWN_DEVIATION_BASELINE_REF", "UNDECLARED_CAPABILITY",
             "UNKNOWN_TASK_DRAFT_DEPENDENCY"} :
     CASE code = "FABRICATED_ID" ->
            \/ ~(draft.evidence \subseteq Evidence)
            \/ ~(draft.claims \subseteq Claims)
            \/ ~(draft.capabilities \cup UsedCapabilities(draft) \subseteq Capabilities)
            \/ ~(draft.decisions \subseteq Gaps)
       [] code = "CLAIM_EVIDENCE_MISMATCH" -> ~Covers(draft, draft.claims)
       [] code = "EVIDENCE_OUTSIDE_CANDIDATE" -> ~(draft.cited \subseteq draft.evidence)
       [] code = "UNKNOWN_DEVIATION_BASELINE_REF" -> ~(draft.departs \subseteq draft.baselines)
       [] code = "UNDECLARED_CAPABILITY" -> ~(UsedCapabilities(draft) \subseteq draft.capabilities)
       [] code = "UNKNOWN_TASK_DRAFT_DEPENDENCY" ->
            \E t \in DOMAIN draft.tasks : ~(draft.tasks[t].needs \subseteq DOMAIN draft.tasks)}

\* A candidate that keeps the conflict open for discrimination.
Retains(draft, conflict) == draft.discriminates /\ SidesOf[conflict] \subseteq draft.claims

\* A candidate that works on the gap, passes it on to a human, or mentions it
\* in a task's inputs or among its limitations.
Answers(draft, gap) ==
  \/ UsedCapabilities(draft) \cap RemedyOf[gap] # {}
  \/ gap \in draft.decisions \cup draft.mentions

\* The rules are about the whole proposal: one candidate that retains a
\* conflict or answers a gap is enough.
ProposalIssues(proposal) ==
  (UNION {DraftIssues(proposal[i]) : i \in DOMAIN proposal})
  \cup {code \in {"UNRESOLVED_CONFLICT_DROPPED"} :
          \E c \in Conflicts : \A i \in DOMAIN proposal : ~Retains(proposal[i], c)}
  \cup {code \in {"BLOCKING_EVIDENCE_GAP_DROPPED"} :
          \E g \in Gaps : \A i \in DOMAIN proposal : ~Answers(proposal[i], g)}

\* The response contract: between one and four candidates, told apart by
\* axis and value.
WellFormed(proposal) ==
  /\ Len(proposal) \in 1 .. 4
  /\ \A i, j \in DOMAIN proposal : i # j => proposal[i].axis # proposal[j].axis

\* The materializer resolves the criteria to observables and raises otherwise.
Materializable(proposal) ==
  \A i \in DOMAIN proposal : proposal[i].measures \subseteq proposal[i].observables

-----------------------------------------------------------------------------
(* Materialized plans *)

\* A plan is a draft under an identity of its own: a revision that returns
\* to the content of an earlier round makes another plan.
PlanOf(draft, index) == [draft |-> draft, index |-> index]

\* What the evidence links of a plan show while the given evidence is
\* damaged on disk.
EvidenceIssues(draft, damaged) ==
  {code \in {"SOURCE_INTEGRITY_FAILURE"} : draft.evidence \cap damaged # {}}
  \cup {code \in {"UNGROUNDED_SYSTEM_FINGERPRINT"} : draft.evidence = {}}

\* The report on a plan.
PlanIssues(plan, damaged) ==
  plan.draft.flaws
  \cup EvidenceIssues(plan.draft, damaged)
  \cup {code \in {"DAG_CYCLE"} : HasCycle(plan.draft.tasks)}
  \cup {code \in {"UNKNOWN_CAPABILITY"} : ~(plan.draft.capabilities \subseteq Capabilities)}

-----------------------------------------------------------------------------
(* Revisions *)

\* The parts of a plan two drafts differ in.
ChangedRoots(parent, revised) ==
  {root \in {"tasks", "method_fingerprint", "proposed_deviations", "grounding",
             "required_human_decisions", "limitations", "atomic_questions"} :
     CASE root = "tasks" -> parent.tasks # revised.tasks
       [] root = "method_fingerprint" ->
            <<parent.discriminates, parent.axis>> # <<revised.discriminates, revised.axis>>
       [] root = "proposed_deviations" -> parent.departs # revised.departs
       [] root = "grounding" ->
            <<parent.evidence, parent.claims, parent.capabilities>>
              # <<revised.evidence, revised.claims, revised.capabilities>>
       [] root = "required_human_decisions" -> parent.decisions # revised.decisions
       [] root = "limitations" -> parent.mentions # revised.mentions
       [] root = "atomic_questions" -> parent.flaws # revised.flaws}

SensitiveRoots == {"tasks", "method_fingerprint", "proposed_deviations"}

\* The changes a planner declares are real, and no sensitive change is left
\* undeclared.
DeclaredTruly(parent, revised, declared) ==
  LET changed == ChangedRoots(parent, revised)
  IN declared \subseteq changed /\ changed \cap SensitiveRoots \subseteq declared

\* Every tracked item is answered exactly once, and something changed.
RevisionAccepted(parent, revised, tracked, answered, declared) ==
  /\ answered = tracked
  /\ parent # revised
  /\ DeclaredTruly(parent, revised, declared)

-----------------------------------------------------------------------------
(* Approval *)

Approvable == {"APPROVE", "APPROVE_WITH_CONDITIONS"}

Open == {"UNRESOLVED", "NEEDS_HUMAN_DECISION"}

BlockingFlags(response) == {flag \in response.flags : flag.blocking}

\* Faulty: tracked items only matter when a human has to decide.
BlockingInHuman(response, states) ==
  {item \in DOMAIN response.assessed :
     item.blocking /\ response.assessed[item] = "NEEDS_HUMAN_DECISION"}

\* The blocking items the reviewer leaves in one of the given states.
BlockingIn(response, states) ==
  {item \in DOMAIN response.assessed : item.blocking /\ response.assessed[item] \in states}

\* The deterministic policy, rule after rule: scores and recommendations
\* never override it.
Policy(response, plan, record) ==
  LET recommended == response.decision
      grounded == IF recommended \in Approvable /\ record # {}
                    THEN "REQUEST_REVISION" ELSE recommended
      flagged == IF grounded \in Approvable /\ BlockingFlags(response) # {}
                   THEN IF \E flag \in BlockingFlags(response) : flag.code \in CriticalCodes
                          THEN "INSUFFICIENT_EVIDENCE" ELSE "REQUEST_REVISION"
                   ELSE grounded
      traced == CASE BlockingIn(response, {"NEEDS_HUMAN_DECISION"}) # {} -> "NEEDS_HUMAN_CHOICE"
                  [] BlockingIn(response, {"NEEDS_HUMAN_DECISION"}) = {}
                       /\ BlockingIn(response, Open) # {} /\ flagged \in Approvable
                       -> "REQUEST_REVISION"
                  [] OTHER -> flagged
      pending == plan.draft.decisions \cup response.unresolved
      decided == IF traced = "APPROVE" /\ pending # {} THEN "NEEDS_HUMAN_CHOICE" ELSE traced
      fixed == IF decided = "APPROVE" /\ response.fixes # {}
                 THEN "APPROVE_WITH_CONDITIONS" ELSE decided
  IN IF fixed = "APPROVE_WITH_CONDITIONS" /\ response.fixes = {} /\ pending = {}
       THEN "REQUEST_REVISION" ELSE fixed

\* Faulty: only blocking red flags keep a verdict from being exported.
ApprovalStateLenient(review, plan) ==
  review.verdict \in Approvable => BlockingFlags(review) = {}

\* The state in which a verdict may be exported: no red flag of any
\* severity, no open blocking fix and no open human decision.  The verdicts
\* of a scientific run carry no resolutions.
ApprovalStateValid(review, plan) ==
  review.verdict \in Approvable =>
    /\ review.flags = {}
    /\ \A fix \in review.fixes : ~fix.blocking
    /\ plan.draft.decisions = {}

-----------------------------------------------------------------------------
(* What the planner is told to revise *)

Item(source, code, blocking, task) ==
  [source |-> source, code |-> code, blocking |-> blocking, task |-> task]

\* The items a report and a review raise.
Raised(issues, review) ==
  {Item("deterministic_validation", code, TRUE, NoTask) : code \in issues}
  \cup {Item("approval_red_flag", flag.code, flag.blocking, flag.task) : flag \in review.flags}
  \cup {Item("required_fix", fix.id, fix.blocking, NoTask) : fix \in review.fixes}

\* Faulty: only what this review raises itself is passed on.
CarriedNone(response) == {}

\* The tracked items the review left open.
Carried(response) == {item \in DOMAIN response.assessed : response.assessed[item] \in Open}

\* A revision that was asked for without an item names the plan as a whole.
PlanLevel == Item("approval_red_flag", "PLAN_LEVEL_REVISION_REQUEST", TRUE, NoTask)

Feedback(issues, review) ==
  LET items == review.carried \cup Raised(issues, review)
  IN IF items = {} THEN {PlanLevel} ELSE items

\* What keeps a plan from being revised automatically.
NeedsExternalAction(plan, record, review) ==
  \/ plan.draft.decisions \cup review.unresolved # {}
  \/ ({flag.code : flag \in BlockingFlags(review)} \cup record) \cap NonRevisableCodes # {}
=============================================================================
