-------------------------- MODULE PlanReview_proofs --------------------------
(***************************************************************************)
(* Proofs about PlanReview and the checks of PlanContract it rests on: the *)
(* cycle check of the task graph is exact for every graph, no blocking     *)
(* issue is lost on the way to approval, and what is exported is sound.    *)
(***************************************************************************)
EXTENDS PlanReview, SequenceTheorems, FiniteSetTheorems, WellFoundedInduction, TLAPS

-----------------------------------------------------------------------------
(* The turns of the cycle check.                                           *)

\* A set of naturals has a least element; induction goes by least
\* counterexamples.
LEMMA LeastNat ==
  ASSUME NEW S \in SUBSET Nat, S # {}
  PROVE  \E m \in S : \A x \in S : m <= x
<1> DEFINE R == OpToRel(<, Nat)
<1>1. PICK m \in S : \A u \in S : <<u, m>> \notin R
  <2> HIDE DEF R
  <2>1. IsWellFoundedOn(R, Nat)
    BY NatLessThanWellFounded DEF R
  <2> QED BY <2>1, WFMin
<1>2. ASSUME NEW x \in S PROVE m <= x
  <2>1. ~ (x < m) /\ x \in Nat /\ m \in Nat
    BY <1>1 DEF OpToRel
  <2> QED BY <2>1
<1> QED BY <1>2

\* The function f lists the states of the loop after 0 to n turns.
AreTurns(f, n, graph) ==
  f = [i \in 0 .. n |-> IF i = 0 THEN Start(graph) ELSE Visit(graph, f[i - 1])]

\* The recursive function of the loop exists for every number of turns.
LEMMA TurnsExist ==
  ASSUME NEW graph, NEW n \in Nat
  PROVE  \E f : AreTurns(f, n, graph)
<1> SUFFICES ASSUME ~ \E f : AreTurns(f, n, graph) PROVE FALSE
  OBVIOUS
<1> DEFINE S == {k \in Nat : ~ \E f : AreTurns(f, k, graph)}
<1>1. PICK m \in S : \A x \in S : m <= x
  BY LeastNat
<1>2. CASE m = 0
  <2> DEFINE h == [i \in 0 .. 0 |-> Start(graph)]
  <2>1. AreTurns(h, 0, graph)
    BY DEF AreTurns
  <2> QED BY <1>1, <1>2, <2>1
<1>3. CASE m # 0
  <2>1. m - 1 \in Nat /\ m \in Nat /\ m - 1 \notin S
    BY <1>1, <1>3
  <2>2. PICK f : AreTurns(f, m - 1, graph)
    BY <2>1
  <2> DEFINE h == [i \in 0 .. m |-> IF i = m THEN Visit(graph, f[m - 1]) ELSE f[i]]
  <2>3. \A i \in 0 .. m : h[i] = IF i = 0 THEN Start(graph) ELSE Visit(graph, h[i - 1])
    <3> TAKE i \in 0 .. m
    <3>1. \A j \in 0 .. m - 1 : f[j] = IF j = 0 THEN Start(graph) ELSE Visit(graph, f[j - 1])
      BY <2>2 DEF AreTurns
    <3>2. CASE i = m
      <4>1. h[i] = Visit(graph, f[m - 1])
        BY <3>2
      <4>2. m - 1 \in 0 .. m /\ m - 1 # m
        BY <2>1
      <4>3. h[m - 1] = f[m - 1]
        BY <4>2
      <4> QED BY <1>3, <3>2, <4>1, <4>3
    <3>3. CASE i # m
      <4>1. i \in 0 .. m - 1 /\ h[i] = f[i]
        BY <2>1, <3>3
      <4>2. i # 0 => i - 1 \in 0 .. m /\ i - 1 # m
        BY <2>1, <3>3
      <4>3. i # 0 => h[i - 1] = f[i - 1]
        BY <4>2
      <4> HIDE DEF h
      <4> QED BY <3>1, <4>1, <4>3
    <3> QED BY <3>2, <3>3
  <2>4. AreTurns(h, m, graph)
    <3>1. h = [i \in 0 .. m |-> h[i]]
      OBVIOUS
    <3> HIDE DEF h
    <3> QED BY <2>3, <3>1 DEF AreTurns
  <2> QED BY <1>1, <2>4
<1> QED BY <1>2, <1>3

LEMMA TurnsAre ==
  ASSUME NEW graph, Cardinality(DOMAIN graph) \in Nat
  PROVE  AreTurns(Turns(graph), Cardinality(DOMAIN graph), graph)
<1>1. \E f : AreTurns(f, Cardinality(DOMAIN graph), graph)
  BY TurnsExist
<1>2. Turns(graph) = CHOOSE f : AreTurns(f, Cardinality(DOMAIN graph), graph)
  BY Zenon DEF Turns, AreTurns
<1> QED BY <1>1, <1>2

-----------------------------------------------------------------------------
(* Kahn's algorithm. *)

\* What the loop knows after it visited the tasks of V: every degree counts the
\* dependencies not visited yet, the queue holds the tasks that wait for none
\* of them, and the visited tasks have an order.
AfterVisits(graph, V, s) ==
  LET T == DOMAIN graph IN
  /\ V \subseteq T
  /\ s.visited = Cardinality(V)
  /\ s.degree = [t \in T |-> Cardinality(graph[t] \ V)]
  /\ s.queue = {t \in T \ V : graph[t] \subseteq V}
  /\ \A t \in V : graph[t] \subseteq V
  /\ \A some \in SUBSET V : some # {} => \E t \in some : graph[t] \cap some = {}

\* A turn with a task in the queue visits one task.
LEMMA TurnVisits ==
  ASSUME NEW T, IsFiniteSet(T), NEW graph \in [T -> SUBSET T], NEW V, NEW s,
         AfterVisits(graph, V, s), s.queue # {}
  PROVE  \E W : /\ AfterVisits(graph, W, Visit(graph, s))
                /\ Cardinality(W) = Cardinality(V) + 1
<1> DEFINE task == CHOOSE t \in s.queue : TRUE
           children == {t \in T : task \in graph[t]}
           degree == [t \in T |-> IF t \in children THEN s.degree[t] - 1 ELSE s.degree[t]]
           W == V \cup {task}
<1>1. /\ V \subseteq T /\ s.visited = Cardinality(V)
      /\ s.degree = [t \in T |-> Cardinality(graph[t] \ V)]
      /\ s.queue = {t \in T \ V : graph[t] \subseteq V}
      /\ \A t \in V : graph[t] \subseteq V
      /\ \A some \in SUBSET V : some # {} => \E t \in some : graph[t] \cap some = {}
  BY DEF AfterVisits
<1>2. task \in s.queue
  BY Zenon
<1>3. task \in T /\ task \notin V /\ graph[task] \subseteq V
  BY <1>1, <1>2
<1>4. Visit(graph, s) = [queue |-> (s.queue \ {task}) \cup {t \in children : degree[t] = 0},
                         degree |-> degree, visited |-> s.visited + 1]
  BY DEF Visit
<1> HIDE DEF task
<1>5. Cardinality(W) = Cardinality(V) + 1 /\ IsFiniteSet(V)
  <2>1. IsFiniteSet(V)
    BY <1>1, FS_Subset
  <2> QED BY <1>3, <2>1, FS_AddElement
<1>6. ASSUME NEW t \in T
      PROVE  /\ degree[t] = Cardinality(graph[t] \ W)
             /\ degree[t] = 0 <=> graph[t] \subseteq W
  <2>1. graph[t] \subseteq T /\ IsFiniteSet(graph[t])
    BY FS_Subset
  <2>2. IsFiniteSet(graph[t] \ V) /\ IsFiniteSet(graph[t] \ W)
    BY <2>1, FS_Difference
  <2>3. degree[t] = Cardinality(graph[t] \ W)
    <3>1. CASE task \in graph[t]
      <4>1. graph[t] \ W = (graph[t] \ V) \ {task} /\ task \in graph[t] \ V
        BY <1>3, <3>1
      <4>2. Cardinality(graph[t] \ W) = Cardinality(graph[t] \ V) - 1
        BY <2>2, <4>1, FS_RemoveElement
      <4> QED BY <1>1, <3>1, <4>2
    <3>2. CASE task \notin graph[t]
      <4>1. graph[t] \ W = graph[t] \ V
        BY <3>2
      <4> QED BY <1>1, <3>2, <4>1
    <3> QED BY <3>1, <3>2
  <2>4. Cardinality(graph[t] \ W) = 0 <=> graph[t] \ W = {}
    BY <2>2, FS_EmptySet
  <2> HIDE DEF degree, W
  <2> QED BY <2>3, <2>4
<1>7. (s.queue \ {task}) \cup {t \in children : degree[t] = 0}
        = {t \in T \ W : graph[t] \subseteq W}
  <2>1. ASSUME NEW t \in T, t \in s.queue \ {task} \/ (t \in children /\ degree[t] = 0)
        PROVE  t \notin W /\ graph[t] \subseteq W
    <3>1. CASE t \in s.queue \ {task}
      BY <1>1, <3>1
    <3>2. CASE t \in children /\ degree[t] = 0
      <4>1. graph[t] \subseteq W /\ task \in graph[t]
        BY <1>6, <3>2
      <4>2. t \notin V /\ t # task
        BY <1>1, <1>3, <4>1
      <4> QED BY <4>1, <4>2
    <3> QED BY <2>1, <3>1, <3>2
  <2>2. ASSUME NEW t \in T, t \notin W, graph[t] \subseteq W
        PROVE  t \in s.queue \ {task} \/ (t \in children /\ degree[t] = 0)
    <3>1. CASE task \in graph[t]
      BY <1>6, <2>2, <3>1
    <3>2. CASE task \notin graph[t]
      BY <1>1, <2>2, <3>2
    <3> QED BY <3>1, <3>2
  <2>3. s.queue \subseteq T /\ children \subseteq T
    BY <1>1
  <2> HIDE DEF children, degree, W
  <2> QED BY <2>1, <2>2, <2>3
<1>8. \A t \in W : graph[t] \subseteq W
  BY <1>1, <1>3
<1>9. ASSUME NEW some \in SUBSET W, some # {}
      PROVE  \E t \in some : graph[t] \cap some = {}
  <2>1. CASE some \subseteq {task}
    BY <1>3, <1>9, <2>1
  <2>2. CASE ~(some \subseteq {task})
    <3>1. some \ {task} \in SUBSET V /\ some \ {task} # {}
      BY <2>2
    <3>2. PICK t \in some \ {task} : graph[t] \cap (some \ {task}) = {}
      BY <1>1, <3>1
    <3>3. task \notin graph[t]
      BY <1>1, <1>3, <3>1, <3>2
    <3> QED BY <3>2, <3>3
  <2> QED BY <2>1, <2>2
<1>10. degree = [t \in T |-> Cardinality(graph[t] \ W)]
  BY <1>6
<1>11. W \subseteq T /\ DOMAIN graph = T
  BY <1>1, <1>3
<1>12. AfterVisits(graph, W, Visit(graph, s))
  <2> HIDE DEF degree, W, children
  <2> QED BY <1>1, <1>4, <1>5, <1>7, <1>8, <1>9, <1>10, <1>11 DEF AfterVisits
<1> QED BY <1>5, <1>12

\* After n turns n tasks are visited, or no task is left in the queue.
LEMMA TurnsVisit ==
  ASSUME NEW T, IsFiniteSet(T), NEW graph \in [T -> SUBSET T],
         NEW n \in 0 .. Cardinality(T)
  PROVE  \E V : /\ AfterVisits(graph, V, Turns(graph)[n])
                /\ Cardinality(V) = n \/ Turns(graph)[n].queue = {}
<1> DEFINE count == Cardinality(T)
           f == Turns(graph)
           Known(k) == \E V : /\ AfterVisits(graph, V, f[k])
                              /\ Cardinality(V) = k \/ f[k].queue = {}
<1>0. count \in Nat /\ DOMAIN graph = T
  BY FS_CardinalityType
<1>1. \A i \in 0 .. count : f[i] = IF i = 0 THEN Start(graph) ELSE Visit(graph, f[i - 1])
  <2>1. AreTurns(f, count, graph)
    BY <1>0, TurnsAre
  <2> QED BY <2>1 DEF AreTurns
<1> HIDE DEF f, count
<1>2. Known(0)
  <2>1. f[0] = Start(graph) /\ Cardinality({}) = 0
    BY <1>0, <1>1, FS_EmptySet
  <2>2. AfterVisits(graph, {}, Start(graph))
    <3>1. \A t \in T : graph[t] \ {} = graph[t] /\ (graph[t] \subseteq {} <=> graph[t] = {})
      OBVIOUS
    <3>2. [t \in T |-> Cardinality(graph[t])] = [t \in T |-> Cardinality(graph[t] \ {})]
      BY <3>1
    <3>3. {t \in T : graph[t] = {}} = {t \in T \ {} : graph[t] \subseteq {}}
      BY <3>1
    <3> QED BY <1>0, <2>1, <3>2, <3>3 DEF AfterVisits, Start
  <2> QED BY <2>1, <2>2
<1>3. ASSUME NEW m \in 1 .. count, Known(m - 1) PROVE Known(m)
  <2>1. PICK V : AfterVisits(graph, V, f[m - 1])
                 /\ (Cardinality(V) = m - 1 \/ f[m - 1].queue = {})
    BY <1>3
  <2>2. f[m] = Visit(graph, f[m - 1]) /\ m \in Nat
    BY <1>0, <1>1
  <2>3. CASE f[m - 1].queue = {}
    <3>1. f[m] = f[m - 1]
      BY <2>2, <2>3 DEF Visit
    <3> QED BY <2>1, <2>3, <3>1
  <2>4. CASE f[m - 1].queue # {}
    <3>1. PICK W : AfterVisits(graph, W, f[m]) /\ Cardinality(W) = Cardinality(V) + 1
      BY <2>1, <2>2, <2>4, TurnVisits
    <3>2. Cardinality(W) = m
      BY <2>1, <2>2, <2>4, <3>1
    <3> QED BY <3>1, <3>2
  <2> QED BY <2>3, <2>4
<1> HIDE DEF Known
<1>4. \A k \in 0 .. count : Known(k)
  <2> SUFFICES ASSUME ~ \A k \in 0 .. count : Known(k) PROVE FALSE
    OBVIOUS
  <2> DEFINE S == {k \in 0 .. count : ~Known(k)}
  <2>1. S \in SUBSET Nat /\ S # {}
    OBVIOUS
  <2>2. PICK m \in S : \A x \in S : m <= x
    <3> HIDE DEF S
    <3> QED BY <2>1, LeastNat
  <2>3. m # 0 /\ m \in 0 .. count /\ ~Known(m)
    BY <1>2, <2>2
  <2>4. m \in 1 .. count /\ m - 1 \in 0 .. count /\ ~(m <= m - 1)
    BY <1>0, <2>3
  <2>5. Known(m - 1)
    BY <2>2, <2>4
  <2> QED BY <1>3, <2>3, <2>4, <2>5
<1> QED BY <1>4 DEF Known, f, count

\* Kahn's algorithm finds a cycle exactly when some tasks all wait for each
\* other, for every finite set of tasks and every dependencies.
THEOREM CycleCheckCorrect ==
  ASSUME NEW tasks, IsFiniteSet(DOMAIN tasks)
  PROVE  HasCycle(tasks) <=> ~Acyclic(tasks)
<1> DEFINE T == DOMAIN tasks
           graph == Dependencies(tasks)
           count == Cardinality(T)
           last == Turns(graph)[count]
<1>1. graph \in [T -> SUBSET T] /\ DOMAIN graph = T
  BY DEF Dependencies
<1>2. count \in Nat /\ count \in 0 .. count
  BY FS_CardinalityType
<1>3. HasCycle(tasks) <=> last.visited # count
  BY <1>1 DEF HasCycle
<1>4. Acyclic(tasks) <=> \A some \in (SUBSET T) \ {{}} : \E t \in some : graph[t] \cap some = {}
  BY DEF Acyclic
<1> HIDE DEF graph, T
<1>5. PICK V : /\ AfterVisits(graph, V, last)
               /\ Cardinality(V) = count \/ last.queue = {}
  <2>1. IsFiniteSet(T)
    BY DEF T
  <2> QED BY <1>1, <1>2, <2>1, TurnsVisit
<1>6. /\ V \subseteq T /\ last.visited = Cardinality(V) /\ IsFiniteSet(T) /\ IsFiniteSet(V)
      /\ last.queue = {t \in T \ V : graph[t] \subseteq V}
      /\ \A some \in SUBSET V : some # {} => \E t \in some : graph[t] \cap some = {}
  <2>1. IsFiniteSet(T)
    BY DEF T
  <2>2. /\ V \subseteq T /\ last.visited = Cardinality(V)
        /\ last.queue = {t \in T \ V : graph[t] \subseteq V}
        /\ \A some \in SUBSET V : some # {} => \E t \in some : graph[t] \cap some = {}
    <3> HIDE DEF last
    <3>1. AfterVisits(graph, V, last)
      BY <1>5
    <3>2. /\ V \subseteq DOMAIN graph /\ last.visited = Cardinality(V)
          /\ last.queue = {t \in DOMAIN graph \ V : graph[t] \subseteq V}
          /\ \A some \in SUBSET V : some # {} => \E t \in some : graph[t] \cap some = {}
      BY <3>1, Zenon DEF AfterVisits
    <3>3. DOMAIN graph = T
      BY <1>1
    <3> QED BY <3>2, <3>3, Zenon
  <2>3. IsFiniteSet(V)
    BY <2>1, <2>2, FS_Subset
  <2> QED BY <2>1, <2>2, <2>3
<1>7. CASE V = T
  <2>1. last.visited = count
    BY <1>6, <1>7
  <2> QED BY <1>3, <1>4, <1>6, <1>7, <2>1
<1>8. CASE V # T
  <2>1. Cardinality(V) # count
    <3>1. V \in SUBSET T /\ IsFiniteSet(T)
      BY <1>6
    <3>2. Cardinality(T) = Cardinality(V) => T = V
      BY <3>1, FS_Subset
    <3> QED BY <1>8, <3>2 DEF count
  <2>2. last.visited # count /\ last.queue = {}
    BY <1>5, <1>6, <2>1
  <2>3. T \ V \in (SUBSET T) \ {{}}
    BY <1>6, <1>8
  <2>4. \A t \in T \ V : graph[t] \cap (T \ V) # {}
    <3>1. \A t \in T \ V : ~(graph[t] \subseteq V) /\ graph[t] \subseteq T
      BY <1>1, <1>6, <2>2
    <3> QED BY <3>1
  <2> QED BY <1>3, <1>4, <2>2, <2>3, <2>4
<1> QED BY <1>7, <1>8

-----------------------------------------------------------------------------
(* The inductive invariant of the review loop. *)

\* Nothing is reviewed, tracked or open before there is a plan, and what has
\* left the review has a selected plan.
StatusOK ==
  /\ run.status = "INTERPRETED" \/ (run.status = "FAILED" /\ run.resumeAt = "INTERPRETED") =>
       review = NoReview /\ tracked = {} /\ open = {}
  /\ run.status \notin {"INTERPRETED", "AWAITING_APPROVAL", "FAILED"} => Chosen
  /\ run.status \in {"APPROVED", "EXPORTED"} =>
       review # NoReview /\ (run.budget > 0 => review.verdict = "APPROVE")

\* Every plan kept met the rules of a draft when it was compiled or revised,
\* and its record is what the checks produced on some state of the files.
PlansOK ==
  \A i \in DOMAIN run.plans :
    /\ DraftIssues(run.plans[i].draft) = {}
    /\ \E damaged \in SUBSET Evidence : run.records[i] = PlanIssues(run.plans[i], damaged)

\* With revisions on, what is open is what the plan under review is tracked
\* for, and after the review what the next round will be told.
OpenIsPassedOn ==
  /\ \A item \in open : item.blocking
  /\ run.budget > 0 =>
       /\ review = NoReview => open \subseteq tracked
       /\ review # NoReview => open \subseteq review.carried \cup Raised(Record, review)

\* While a call exports a candidate the candidates stay, and with revisions on
\* so do the approval and what it answered; what the call loaded is sound.
UnderWay ==
  \A x \in Exporters : leaving[x] # NoPlan =>
    /\ leaving[x].selected \in DOMAIN run.plans /\ review # NoReview
    /\ run.budget > 0 => /\ open = {} /\ review.verdict = "APPROVE"
                        /\ run.status \in {"APPROVED", "EXPORTED", "REVISION_BLOCKED"}
    /\ leaving[x].pc # "named" =>
         SoundPackage(leaving[x].package) /\ PackageVerified(leaving[x].package)
    /\ leaving[x].pc = "staged" => leaving[x].package.evidence \subseteq leaving[x].seen

IInv ==
  TypeOK /\ StatusOK /\ PlansOK /\ OpenIsPassedOn /\ EveryBlockerAnswered /\ UnderWay

-----------------------------------------------------------------------------
(* Facts about the operators. *)

\* A report says only what a report may say.
LEMMA ReportType ==
  ASSUME NEW plan \in PlanFile, NEW damaged
  PROVE  PlanIssues(plan, damaged) \in SUBSET Codes
<1>1. plan.draft \in Drafts
  BY DEF PlanFile
<1>2. plan.draft.flaws \subseteq Codes
  BY <1>1 DEF Codes
<1>3. EvidenceIssues(plan.draft, damaged) \subseteq Codes
  BY DEF Codes, EvidenceIssues
<1>4. {code \in {"DAG_CYCLE"} : HasCycle(plan.draft.tasks)} \subseteq Codes
  BY DEF Codes
<1>5. {code \in {"UNKNOWN_CAPABILITY"} : ~(plan.draft.capabilities \subseteq Capabilities)} \subseteq Codes
  BY DEF Codes
<1> QED BY <1>2, <1>3, <1>4, <1>5 DEF PlanIssues

\* What a report and an answer raise are items.
LEMMA RaisedType ==
  ASSUME NEW issues \in SUBSET Codes, NEW answer,
         answer.flags \in FlagSets, answer.fixes \in FixSets
  PROVE  Raised(issues, answer) \in SUBSET Items
<1>1. {Item("deterministic_validation", code, TRUE, NoTask) : code \in issues} \subseteq Items
  BY Zenon DEF Items
<1>2. answer.flags \subseteq UNION FlagSets /\ answer.fixes \subseteq UNION FixSets
  OBVIOUS
<1>3. {Item("approval_red_flag", flag.code, flag.blocking, flag.task) : flag \in answer.flags}
        \subseteq Items
  BY <1>2, Zenon DEF Items
<1>4. {Item("required_fix", fix.id, fix.blocking, NoTask) : fix \in answer.fixes} \subseteq Items
  BY <1>2, Zenon DEF Items
<1> QED BY <1>1, <1>3, <1>4 DEF Raised

\* The policy answers with a verdict.
LEMMA PolicyType ==
  ASSUME NEW response, NEW plan, NEW record, response.decision \in Verdicts
  PROVE  Policy(response, plan, record) \in Verdicts
BY DEF Policy, Verdicts, Approvable

\* The policy approves only what nothing speaks against.
LEMMA PolicyApproves ==
  ASSUME NEW response, NEW plan, NEW record,
         Policy(response, plan, record) = "APPROVE"
  PROVE  /\ record = {} /\ BlockingFlags(response) = {}
         /\ BlockingIn(response, Open) = {} /\ response.fixes = {}
BY DEF Policy, Approvable

\* The report of a plan shows a cycle exactly when there is one.
LEMMA ReportOnCycle ==
  ASSUME NEW plan \in PlanFile, NEW damaged
  PROVE  "DAG_CYCLE" \in PlanIssues(plan, damaged) <=> ~Acyclic(plan.draft.tasks)
<1>1. plan.draft \in Drafts
  BY DEF PlanFile
<1>2. IsFiniteSet(DOMAIN plan.draft.tasks) /\ "DAG_CYCLE" \notin plan.draft.flaws
  BY <1>1, ReviewAssumption
<1>3. "DAG_CYCLE" \notin EvidenceIssues(plan.draft, damaged)
  BY DEF EvidenceIssues
<1>4. "DAG_CYCLE" \in PlanIssues(plan, damaged) <=> HasCycle(plan.draft.tasks)
  BY <1>2, <1>3 DEF PlanIssues
<1> QED BY <1>2, <1>4, CycleCheckCorrect

-----------------------------------------------------------------------------
(* The steps.                                                              *)

LEMMA InitOK == Init => IInv
<1> SUFFICES ASSUME Init PROVE IInv
  OBVIOUS
<1>1. PICK budget \in RevisionBudgets :
        run = [status |-> "INTERPRETED", resumeAt |-> "INTERPRETED", budget |-> budget,
               round |-> 0, plans |-> <<>>, records |-> <<>>, selected |-> 0,
               settled |-> FALSE, cause |-> "none"]
  BY DEF Init
<1>2. run \in RunFile /\ run.budget \in Nat
  <2>1. <<>> \in Seq(PlanFile) /\ <<>> \in Seq(SUBSET Codes)
    OBVIOUS
  <2> QED BY <1>1, <2>1, ReviewAssumption DEF RunFile, Statuses, Causes
<1>3. TypeOK
  <2>1. world \in [damaged : SUBSET Evidence, pack : Nat, changes : 0 .. MaxChanges]
    BY ReviewAssumption DEF Init, ContextPack
  <2>2. run.round <= run.budget /\ run.selected <= Len(run.plans)
        /\ Len(run.records) = Len(run.plans)
    BY <1>1, <1>2
  <2>3. ExportsOK
    <3>1. /\ exports = [id \in ExportIds |-> NoPlan]
          /\ leaving = [x \in Exporters |-> NoPlan]
      BY DEF Init
    <3> QED BY <3>1 DEF ExportsOK
  <2> QED BY <1>2, <2>1, <2>2, <2>3 DEF Init, TypeOK
<1>4. StatusOK
  BY <1>1 DEF Init, StatusOK
<1>5. PlansOK
  BY <1>1 DEF PlansOK
<1>6. OpenIsPassedOn /\ EveryBlockerAnswered
  BY DEF Init, OpenIsPassedOn, EveryBlockerAnswered
<1>7. UnderWay
  BY DEF Init, UnderWay
<1> QED BY <1>3, <1>4, <1>5, <1>6, <1>7 DEF IInv

\* What is known of the selected plan and its record.
LEMMA SelectedPlan ==
  ASSUME IInv, Chosen
  PROVE  /\ run.selected \in DOMAIN run.plans /\ run.selected \in DOMAIN run.records
         /\ Plan \in PlanFile /\ Record \in SUBSET Codes
         /\ DraftIssues(Plan.draft) = {}
         /\ \E damaged \in SUBSET Evidence : Record = PlanIssues(Plan, damaged)
<1>1. /\ run.plans \in Seq(PlanFile) /\ run.records \in Seq(SUBSET Codes) /\ run.selected \in Nat
      /\ run.selected <= Len(run.plans) /\ Len(run.records) = Len(run.plans)
  BY DEF IInv, TypeOK, RunFile
<1>2. run.selected \in DOMAIN run.plans /\ run.selected \in DOMAIN run.records
  BY <1>1 DEF Chosen
<1>3. Plan \in PlanFile /\ Record \in SUBSET Codes
  BY <1>1, <1>2 DEF Plan, Record
<1> QED BY <1>2, <1>3 DEF IInv, PlansOK, Plan, Record

\* A step that changes no more than where the run stands and the files
\* outside it.
LEMMA StepAside ==
  ASSUME IInv, UNCHANGED <<review, tracked, open, exports, leaving>>, run' \in RunFile,
         run'.plans = run.plans, run'.records = run.records, run'.selected = run.selected,
         run'.budget = run.budget, run'.round = run.round,
         world' \in [damaged : SUBSET Evidence, pack : Nat, changes : 0 .. MaxChanges],
         run'.status \in {"APPROVED", "EXPORTED"} => run.status \in {"APPROVED", "EXPORTED"},
         run.budget > 0 /\ review # NoReview /\ run'.status # run.status =>
           run'.status = "REVISION_BLOCKED" \/ run.status = "FAILED",
         run'.status = "INTERPRETED" \/ (run'.status = "FAILED" /\ run'.resumeAt = "INTERPRETED")
           => \/ run.status = "INTERPRETED"
              \/ run.status = "FAILED" /\ run.resumeAt = "INTERPRETED",
         run'.status \notin {"INTERPRETED", "AWAITING_APPROVAL", "FAILED"} => Chosen
  PROVE  IInv'
<1>1. TypeOK'
  BY DEF IInv, TypeOK, ExportsOK, Chosen
<1>2. StatusOK'
  BY DEF IInv, StatusOK, Chosen
<1>3. PlansOK'
  BY DEF IInv, PlansOK
<1>4. OpenIsPassedOn'
  BY DEF IInv, OpenIsPassedOn, Record
<1>5. EveryBlockerAnswered'
  BY DEF IInv, EveryBlockerAnswered
<1>6. UnderWay'
  BY DEF IInv, UnderWay
<1> QED BY <1>1, <1>2, <1>3, <1>4, <1>5, <1>6 DEF IInv

\* The files outside the run change.
LEMMA WorldStep ==
  ASSUME IInv, (\E e \in Evidence : Damage(e)) \/ ReleasePack
  PROVE  IInv'
<1>1. /\ world \in [damaged : SUBSET Evidence, pack : Nat, changes : 0 .. MaxChanges]
      /\ run \in RunFile
      /\ ExportsOK
  BY DEF IInv, TypeOK
<1>2. UNCHANGED <<run, review, tracked, open, exports, leaving>>
  BY DEF Damage, ReleasePack
<1>3. world' \in [damaged : SUBSET Evidence, pack : Nat, changes : 0 .. MaxChanges]
  <2>1. world.changes < MaxChanges
    BY DEF Damage, ReleasePack
  <2>2. world.changes \in 0 .. MaxChanges /\ MaxChanges \in Nat /\ world.pack \in Nat
    BY <1>1, ReviewAssumption
  <2>3. world.changes + 1 \in 0 .. MaxChanges /\ world.pack + 1 \in Nat
    BY <2>1, <2>2
  <2>4. CASE \E e \in Evidence : Damage(e)
    <3>1. PICK e \in Evidence :
            world' = [world EXCEPT !.damaged = IF e \in world.damaged THEN world.damaged \ {e}
                                               ELSE world.damaged \cup {e},
                                   !.changes = world.changes + 1]
      BY <2>4 DEF Damage
    <3> QED BY <1>1, <2>3, <3>1
  <2>5. CASE ReleasePack
    <3>1. world' = [world EXCEPT !.pack = @ + 1, !.changes = @ + 1]
      BY <2>5 DEF ReleasePack
    <3> QED BY <1>1, <2>3, <3>1
  <2> QED BY <2>4, <2>5
<1>4. run.status \notin {"INTERPRETED", "AWAITING_APPROVAL", "FAILED"} => Chosen
  BY DEF IInv, StatusOK
<1> QED BY <1>1, <1>2, <1>3, <1>4, StepAside

\* A run that fails keeps everything but its status.
LEMMA FailStep ==
  ASSUME IInv, NEW status \in {"INTERPRETED", "AWAITING_APPROVAL"}, Fail(status),
         status = "INTERPRETED" => run.status = "INTERPRETED",
         run.budget > 0 => review = NoReview,
         UNCHANGED <<world, review, tracked, open, exports, leaving>>
  PROVE  IInv'
<1>1. /\ world \in [damaged : SUBSET Evidence, pack : Nat, changes : 0 .. MaxChanges]
      /\ run \in RunFile
      /\ ExportsOK
  BY DEF IInv, TypeOK
<1>2. /\ run' \in RunFile /\ run'.status = "FAILED" /\ run'.resumeAt = status
      /\ run'.plans = run.plans /\ run'.records = run.records
      /\ run'.selected = run.selected /\ run'.budget = run.budget /\ run'.round = run.round
  BY <1>1 DEF Fail, RunFile, Statuses
<1> QED BY <1>1, <1>2, StepAside

LEMMA ResumeStep ==
  ASSUME IInv, Resume
  PROVE  IInv'
<1>1. /\ world \in [damaged : SUBSET Evidence, pack : Nat, changes : 0 .. MaxChanges]
      /\ run \in RunFile
      /\ ExportsOK
  BY DEF IInv, TypeOK
<1>2. /\ run.status = "FAILED" /\ UNCHANGED <<world, review, tracked, open, exports, leaving>>
      /\ run' = [run EXCEPT !.status = run.resumeAt]
  BY DEF Resume
<1>3. /\ run' \in RunFile /\ run'.status = run.resumeAt
      /\ run.resumeAt \in {"INTERPRETED", "AWAITING_APPROVAL"}
      /\ run'.plans = run.plans /\ run'.records = run.records
      /\ run'.selected = run.selected /\ run'.budget = run.budget /\ run'.round = run.round
  BY <1>1, <1>2 DEF RunFile, Statuses
<1> QED BY <1>1, <1>2, <1>3, StepAside

\* The candidates of a proposal become plans with their reports.
LEMMA CompileStep ==
  ASSUME IInv, NEW proposal \in Proposals, Compile(proposal)
  PROVE  IInv'
<1>1. /\ world \in [damaged : SUBSET Evidence, pack : Nat, changes : 0 .. MaxChanges]
      /\ run \in RunFile /\ run.round <= run.budget
      /\ ExportsOK
  BY DEF IInv, TypeOK
<1>2. run.status = "INTERPRETED" /\ UNCHANGED <<world, review, tracked, open, exports, leaving>>
  BY DEF Compile
<1>3. review = NoReview /\ tracked = {} /\ open = {}
  BY <1>2 DEF IInv, StatusOK
<1>4. CASE InputHolds /\ ProposalIssues(proposal) = {} /\ Materializable(proposal)
  <2> DEFINE plans == [i \in DOMAIN proposal |-> PlanOf(proposal[i], 0)]
             records == [i \in DOMAIN proposal |-> PlanIssues(PlanOf(proposal[i], 0), world.damaged)]
  <2>1. PICK choice \in 0 .. Len(proposal) :
          run' = [run EXCEPT !.status = "AWAITING_APPROVAL", !.plans = plans,
                             !.records = records, !.selected = choice]
    BY <1>4 DEF Compile
  <2>2. PICK n \in Nat : proposal \in [1 .. n -> Drafts]
    BY ReviewAssumption DEF Proposals
  <2>3. DOMAIN proposal = 1 .. n /\ Len(proposal) = n
    <3>1. proposal \in Seq(Drafts)
      BY <2>2, SeqDef
    <3> QED BY <2>2, <3>1, LenProperties
  <2>4. ASSUME NEW i \in 1 .. n
        PROVE  /\ plans[i] = PlanOf(proposal[i], 0) /\ plans[i] \in PlanFile
               /\ records[i] = PlanIssues(plans[i], world.damaged)
               /\ records[i] \in SUBSET Codes
               /\ plans[i].draft = proposal[i] /\ DraftIssues(proposal[i]) = {}
    <3>1. plans[i] = PlanOf(proposal[i], 0) /\ records[i] = PlanIssues(plans[i], world.damaged)
      BY <2>3
    <3>2. proposal[i] \in Drafts
      BY <2>2
    <3>3. plans[i] \in PlanFile /\ plans[i].draft = proposal[i]
      BY <3>1, <3>2 DEF PlanOf, PlanFile
    <3>4. records[i] \in SUBSET Codes
      BY <3>1, <3>3, ReportType
    <3>5. DraftIssues(proposal[i]) = {}
      BY <1>4, <2>3 DEF ProposalIssues
    <3> QED BY <3>1, <3>3, <3>4, <3>5
  <2>5. DOMAIN plans = 1 .. n /\ DOMAIN records = 1 .. n
    BY <2>3
  <2>6. plans \in [1 .. n -> PlanFile] /\ records \in [1 .. n -> SUBSET Codes]
    BY <2>3, <2>4
  <2> HIDE DEF plans, records
  <2>7. /\ plans \in Seq(PlanFile) /\ Len(plans) = n
        /\ records \in Seq(SUBSET Codes) /\ Len(records) = n
    <3>1. plans \in Seq(PlanFile) /\ records \in Seq(SUBSET Codes)
      BY <2>6, SeqDef
    <3> QED BY <2>5, <3>1, LenProperties
  <2>8. /\ run' \in RunFile /\ run'.status = "AWAITING_APPROVAL"
        /\ run'.plans = plans /\ run'.records = records /\ run'.selected = choice
        /\ run'.budget = run.budget /\ run'.round = run.round
    <3>1. choice \in Nat
      BY <2>3
    <3> QED BY <1>1, <2>1, <2>7, <3>1 DEF RunFile, Statuses
  <2>9. TypeOK'
    <3>1. run'.selected <= Len(run'.plans) /\ Len(run'.records) = Len(run'.plans)
      BY <2>3, <2>7, <2>8
    <3> QED BY <1>1, <1>2, <1>3, <2>8, <3>1 DEF TypeOK, ExportsOK
  <2>10. StatusOK'
    BY <2>8 DEF StatusOK
  <2>11. PlansOK'
    <3>1. ASSUME NEW i \in 1 .. n
          PROVE  /\ DraftIssues(plans[i].draft) = {}
                 /\ \E damaged \in SUBSET Evidence : records[i] = PlanIssues(plans[i], damaged)
      BY <1>1, <2>4
    <3> QED BY <2>5, <2>8, <3>1, Zenon DEF PlansOK
  <2>12. OpenIsPassedOn' /\ EveryBlockerAnswered'
    BY <1>2, <1>3 DEF OpenIsPassedOn, EveryBlockerAnswered
  <2>13. UnderWay'
    BY <1>2, <1>3 DEF IInv, UnderWay
  <2> QED BY <2>9, <2>10, <2>11, <2>12, <2>13 DEF IInv
<1>5. CASE ~(InputHolds /\ ProposalIssues(proposal) = {} /\ Materializable(proposal))
  <2>1. Fail("INTERPRETED")
    BY <1>5 DEF Compile
  <2> QED BY <1>2, <1>3, <2>1, FailStep
<1> QED BY <1>4, <1>5

\* A candidate is chosen before the first review.
LEMMA SelectStep ==
  ASSUME IInv, NEW choice \in 1 .. MaxCandidates, Select(choice)
  PROVE  IInv'
<1>1. /\ run \in RunFile /\ run.status = "AWAITING_APPROVAL" /\ ~Chosen
      /\ choice \in DOMAIN run.plans /\ run' = [run EXCEPT !.selected = choice]
      /\ UNCHANGED <<world, review, tracked, open, exports, leaving>>
  BY DEF IInv, TypeOK, Select
<1>2. review = NoReview
  BY <1>1 DEF IInv, TypeOK
<1>3. run.plans \in Seq(PlanFile) /\ choice \in Nat /\ choice <= Len(run.plans)
  BY <1>1 DEF RunFile
<1>4. /\ run' \in RunFile /\ run'.status = run.status /\ run'.resumeAt = run.resumeAt
      /\ run'.plans = run.plans /\ run'.records = run.records /\ run'.selected = choice
      /\ run'.budget = run.budget /\ run'.round = run.round
  BY <1>1, <1>3 DEF RunFile
<1>5. TypeOK'
  BY <1>1, <1>2, <1>3, <1>4 DEF IInv, TypeOK, ExportsOK
<1>6. StatusOK' /\ PlansOK'
  BY <1>1, <1>4 DEF IInv, StatusOK, PlansOK
<1>7. OpenIsPassedOn' /\ EveryBlockerAnswered'
  BY <1>1, <1>2, <1>4 DEF IInv, OpenIsPassedOn, EveryBlockerAnswered
<1>8. UnderWay'
  BY <1>1, <1>2 DEF IInv, UnderWay
<1> QED BY <1>5, <1>6, <1>7, <1>8 DEF IInv

-----------------------------------------------------------------------------
(* The review.                                                             *)

\* An answer inside its contract: the record of the candidate is kept, the
\* review replaces the one before, and what stays open is carried or raised.
LEMMA AcceptedStep ==
  ASSUME IInv, NEW choice \in DOMAIN run.plans, NEW record, NEW damaged \in SUBSET Evidence,
         NEW response \in Responses(run.plans[choice]),
         record = PlanIssues(run.plans[choice], damaged),
         run.budget > 0 => review = NoReview,
         review' = ReviewOf(choice, response, Policy(response, run.plans[choice], record)),
         run' = [run EXCEPT !.status =
                              StatusAfter(response, Policy(response, run.plans[choice], record)),
                            !.selected = choice, !.records[choice] = record],
         open' = OpenAfter(record, response),
         UNCHANGED <<world, tracked, exports, leaving>>
  PROVE  IInv'
<1> DEFINE verdict == Policy(response, run.plans[choice], record)
           records == [run.records EXCEPT ![choice] = record]
<1>1. /\ world \in [damaged : SUBSET Evidence, pack : Nat, changes : 0 .. MaxChanges]
      /\ run \in RunFile /\ run.round <= run.budget
      /\ run.selected <= Len(run.plans) /\ Len(run.records) = Len(run.plans)
      /\ tracked \in SUBSET Items /\ open \in SUBSET Items
      /\ ExportsOK
  BY DEF IInv, TypeOK
<1>2. run.plans \in Seq(PlanFile) /\ run.records \in Seq(SUBSET Codes)
  BY <1>1 DEF RunFile
<1>3. choice \in 1 .. Len(run.plans) /\ choice \in 1 .. Len(run.records)
      /\ run.plans[choice] \in PlanFile
  BY <1>1, <1>2
<1>4. record \in SUBSET Codes
  BY <1>3, ReportType
<1>5. /\ response.decision \in Verdicts /\ response.flags \in FlagSets
      /\ response.fixes \in FixSets /\ response.unresolved \in SUBSET Gaps
      /\ response.assessed \in [tracked -> IssueStates]
  BY DEF Responses
<1>6. verdict \in Verdicts
  BY <1>5, PolicyType
<1> HIDE DEF verdict
<1>7. StatusAfter(response, verdict) \in
        {"REQUIRES_REPLANNING", "APPROVED", "REJECTED", "AWAITING_APPROVAL"}
  BY Zenon DEF StatusAfter
<1>8. /\ records \in Seq(SUBSET Codes) /\ Len(records) = Len(run.records)
      /\ \A i \in 1 .. Len(run.records) : records[i] = IF i = choice THEN record ELSE run.records[i]
  BY <1>2, <1>3, <1>4, ExceptSeq
<1> HIDE DEF records
<1>9. /\ run' \in RunFile /\ run'.status = StatusAfter(response, verdict)
      /\ run'.plans = run.plans /\ run'.records = records /\ run'.selected = choice
      /\ run'.budget = run.budget /\ run'.round = run.round
  <2>1. run' = [run EXCEPT !.status = StatusAfter(response, verdict),
                           !.selected = choice, !.records = records]
    BY <1>1 DEF verdict, records, RunFile
  <2>2. choice \in Nat /\ StatusAfter(response, verdict) \in Statuses
    BY <1>3, <1>7 DEF Statuses
  <2> QED BY <1>1, <1>8, <2>1, <2>2 DEF RunFile
<1>10. Raised(record, response) \in SUBSET Items
  BY <1>4, <1>5, RaisedType
<1>11. Carried(response) = {item \in tracked : response.assessed[item] \in Open}
       /\ DOMAIN response.assessed = tracked
  BY <1>5 DEF Carried
<1>12. review' = ReviewOf(choice, response, verdict)
  BY DEF verdict
<1>13. /\ review' \in ReviewFile /\ review' # NoReview
       /\ review'.flags = response.flags /\ review'.fixes = response.fixes
       /\ review'.carried = Carried(response) /\ review'.verdict = verdict
  <2>1. review' \in ReviewFile
    <3>1. choice \in Nat
      BY <1>3
    <3> QED BY <1>1, <1>5, <1>6, <1>11, <1>12, <3>1 DEF ReviewOf, ReviewFile
  <2> QED BY <1>12, <2>1, NoReviewAssumption DEF ReviewOf
<1>14. Chosen'
  BY <1>3, <1>9 DEF Chosen
<1>15. open' \in SUBSET Items
  BY <1>1, <1>10 DEF OpenAfter
<1>16. TypeOK'
  BY <1>1, <1>3, <1>8, <1>9, <1>13, <1>14, <1>15 DEF TypeOK, ExportsOK
<1>17. StatusOK'
  <2>1. StatusAfter(response, verdict) = "APPROVED" => verdict = "APPROVE"
    BY Zenon DEF StatusAfter
  <2> QED BY <1>7, <1>9, <1>13, <1>14, <2>1 DEF StatusOK
<1>18. PlansOK'
  <2>1. ASSUME NEW i \in DOMAIN run.plans
        PROVE  /\ DraftIssues(run.plans[i].draft) = {}
               /\ \E files \in SUBSET Evidence : records[i] = PlanIssues(run.plans[i], files)
    <3>1. i \in 1 .. Len(run.records)
      BY <1>1, <1>2
    <3>2. CASE i = choice
      BY <1>8, <3>1, <3>2 DEF IInv, PlansOK
    <3>3. CASE i # choice
      BY <1>8, <3>1, <3>3 DEF IInv, PlansOK
    <3> QED BY <3>2, <3>3
  <2> QED BY <1>9, <2>1, Zenon DEF PlansOK
<1>19. Record' = record
  BY <1>3, <1>8, <1>9 DEF Record
<1>20. OpenIsPassedOn'
  <2>1. \A item \in open' : item.blocking
    BY DEF IInv, OpenIsPassedOn, OpenAfter
  <2>2. ASSUME run.budget > 0
        PROVE  open' \subseteq Carried(response) \cup Raised(record, response)
    BY <1>11, <2>2 DEF IInv, OpenIsPassedOn, OpenAfter
  <2>3. Raised(record, response) = Raised(record, review)'
    BY <1>13 DEF Raised
  <2> QED BY <1>9, <1>13, <1>19, <2>1, <2>2, <2>3 DEF OpenIsPassedOn
<1>21. EveryBlockerAnswered'
  <2> SUFFICES ASSUME run.budget > 0, StatusAfter(response, verdict) \in {"APPROVED", "EXPORTED"}
               PROVE  open' = {}
    BY <1>9 DEF EveryBlockerAnswered
  <2>1. verdict = "APPROVE"
    BY Zenon DEF StatusAfter
  <2>2. /\ record = {} /\ BlockingFlags(response) = {}
        /\ BlockingIn(response, Open) = {} /\ response.fixes = {}
    BY <2>1, PolicyApproves DEF verdict
  <2>3. {item \in Raised(record, response) : item.blocking} = {}
    <3>1. \A flag \in response.flags : ~flag.blocking
      BY <2>2, Zenon DEF BlockingFlags
    <3> QED BY <2>2, <3>1 DEF Raised, Item
  <2>4. \A item \in open : item \in tracked /\ item.blocking
    BY DEF IInv, OpenIsPassedOn
  <2>5. \A item \in open : item \in DOMAIN response.assessed /\ response.assessed[item] \notin Open
    BY <1>11, <2>2, <2>4 DEF BlockingIn
  <2> QED BY <2>3, <2>5 DEF OpenAfter
<1>22. UnderWay'
  BY <1>9, <1>13 DEF IInv, UnderWay
<1> QED BY <1>16, <1>17, <1>18, <1>20, <1>21, <1>22 DEF IInv

\* An answer that breaks its contract fails the run.
LEMMA AnswerStep ==
  ASSUME IInv, NEW choice \in DOMAIN run.plans, NEW record, NEW damaged \in SUBSET Evidence,
         record = PlanIssues(run.plans[choice], damaged),
         run.budget > 0 => review = NoReview,
         Answer(choice, record), UNCHANGED <<world, tracked, exports, leaving>>
  PROVE  IInv'
<1>1. CASE Fail("AWAITING_APPROVAL") /\ UNCHANGED <<review, open>>
  BY <1>1, FailStep
<1>2. CASE ~(Fail("AWAITING_APPROVAL") /\ UNCHANGED <<review, open>>)
  BY <1>2, AcceptedStep DEF Answer
<1> QED BY <1>1, <1>2

LEMMA ReviewStep ==
  ASSUME IInv, Review
  PROVE  IInv'
<1>1. /\ Chosen /\ review = NoReview /\ UNCHANGED <<world, tracked, exports, leaving>>
      /\ Answer(run.selected, Record)
  BY DEF Review
<1>2. PICK damaged \in SUBSET Evidence :
        run.selected \in DOMAIN run.plans /\ Record = PlanIssues(Plan, damaged)
  BY <1>1, SelectedPlan
<1> QED BY <1>1, <1>2, AnswerStep DEF Plan

LEMMA ReviewAgainStep ==
  ASSUME IInv, ReviewAgain
  PROVE  IInv'
<1>1. world.damaged \in SUBSET Evidence
  BY DEF IInv, TypeOK
<1>2. ~(run.budget > 0)
  BY DEF ReviewAgain
<1> QED BY <1>1, <1>2, AnswerStep DEF ReviewAgain

-----------------------------------------------------------------------------
(* Revision and export. *)

\* The loop stops: the status and its cause are all that changes.
LEMMA BlockStep ==
  ASSUME IInv, NEW cause \in Causes, Block(cause), Chosen, UNCHANGED <<world, exports, leaving>>
  PROVE  IInv'
<1>1. /\ world \in [damaged : SUBSET Evidence, pack : Nat, changes : 0 .. MaxChanges]
      /\ run \in RunFile
      /\ ExportsOK
  BY DEF IInv, TypeOK
<1>2. UNCHANGED <<world, review, tracked, open, exports, leaving>>
      /\ run' = [run EXCEPT !.status = "REVISION_BLOCKED", !.settled = TRUE, !.cause = cause]
  BY DEF Block
<1>3. /\ run' \in RunFile /\ run'.status = "REVISION_BLOCKED"
      /\ run'.plans = run.plans /\ run'.records = run.records
      /\ run'.selected = run.selected /\ run'.budget = run.budget /\ run'.round = run.round
  BY <1>1, <1>2 DEF RunFile, Statuses
<1> QED BY <1>1, <1>2, <1>3, StepAside

LEMMA SettleStep ==
  ASSUME IInv, Settle
  PROVE  IInv'
<1>1. Chosen /\ UNCHANGED <<world, exports, leaving>>
  BY DEF Settle, Reviewed, IInv, TypeOK
<1>2. CASE \E cause \in Causes : Block(cause)
  BY <1>1, <1>2, BlockStep
<1>3. CASE ~ \E cause \in Causes : Block(cause)
  <2>1. run' = [run EXCEPT !.settled = TRUE] /\ UNCHANGED <<review, tracked, open>>
    <3>1. /\ ~Block("INVALID_TRIGGER_APPROVAL_CHAIN") /\ ~Block("REVISION_BUDGET_EXHAUSTED")
          /\ ~Block("REVISION_REQUIRES_EXTERNAL_ACTION")
      BY <1>3 DEF Causes
    <3>2. run.round \in Nat /\ run.budget \in Nat
      BY ReviewAssumption DEF IInv, TypeOK, RunFile
    <3>3. run.round >= run.budget \/ run.round < run.budget
      BY <3>2
    <3> QED BY <3>1, <3>3 DEF Settle
  <2>2. /\ world \in [damaged : SUBSET Evidence, pack : Nat, changes : 0 .. MaxChanges]
        /\ run \in RunFile
        /\ ExportsOK
    BY DEF IInv, TypeOK
  <2>3. /\ run' \in RunFile /\ run'.status = run.status /\ run'.resumeAt = run.resumeAt
        /\ run'.plans = run.plans /\ run'.records = run.records
        /\ run'.selected = run.selected /\ run'.budget = run.budget /\ run'.round = run.round
    BY <2>1, <2>2 DEF RunFile
  <2> QED BY <1>1, <2>1, <2>2, <2>3, StepAside
<1> QED BY <1>2, <1>3

\* The revised plan replaces the chain's newest one, and is tracked for all
\* that was open.
LEMMA RevisionStep ==
  ASSUME IInv, Revision
  PROVE  IInv'
<1> DEFINE feedback == Feedback(Record, review)
<1>1. PICK revised \in Drafts :
        \E answered, declared : Revise(revised, answered, declared)
  BY Zenon DEF Revision
<1> DEFINE plan == PlanOf(revised, run.round + 1)
           record == PlanIssues(plan, world.damaged)
<1>2. /\ Reviewed /\ run.round < run.budget /\ UNCHANGED <<world, exports, leaving>>
  BY <1>1 DEF Revise, Revisable
<1>3. review \in ReviewFile /\ Chosen /\ review # NoReview
  BY <1>2 DEF Reviewed, IInv, TypeOK
<1>4. CASE Block("REVISION_OUTPUT_REJECTED")
  BY <1>2, <1>3, <1>4, BlockStep DEF Causes
<1>5. CASE ~Block("REVISION_OUTPUT_REJECTED")
  <2>1. /\ ProposalIssues(<<revised>>) = {}
        /\ run' = [run EXCEPT !.status = "AWAITING_APPROVAL", !.round = @ + 1,
                              !.plans = <<plan>>, !.records = <<record>>,
                              !.selected = 1, !.settled = FALSE]
        /\ review' = NoReview /\ tracked' = feedback
        /\ open' = open \cup {item \in feedback : item.blocking}
    BY <1>1, <1>5 DEF Revise
  <2>2. /\ world \in [damaged : SUBSET Evidence, pack : Nat, changes : 0 .. MaxChanges]
        /\ run \in RunFile /\ run.round \in Nat /\ run.budget \in Nat
        /\ open \in SUBSET Items
        /\ ExportsOK
    BY ReviewAssumption DEF IInv, TypeOK, RunFile
  <2>3. plan \in PlanFile /\ plan.draft = revised
    BY <2>2 DEF PlanOf, PlanFile
  <2>4. record \in SUBSET Codes
    BY <2>3, ReportType
  <2>5. DraftIssues(revised) = {}
    BY <2>1 DEF ProposalIssues
  <2>6. open \subseteq feedback /\ feedback \in SUBSET Items
    <3>1. Raised(Record, review) \in SUBSET Items /\ review.carried \in SUBSET Items
      BY <1>3, SelectedPlan, RaisedType DEF ReviewFile
    <3>2. PlanLevel \in Items
      BY Zenon DEF Items
    <3>3. open \subseteq review.carried \cup Raised(Record, review)
      BY <1>2, <1>3, <2>2 DEF IInv, OpenIsPassedOn
    <3> QED BY <3>1, <3>2, <3>3 DEF Feedback
  <2> HIDE DEF feedback, plan, record
  <2>7. /\ run' \in RunFile /\ run'.status = "AWAITING_APPROVAL"
        /\ run'.plans = <<plan>> /\ run'.records = <<record>> /\ run'.selected = 1
        /\ run'.budget = run.budget /\ run'.round = run.round + 1
    <3>1. <<plan>> \in Seq(PlanFile) /\ <<record>> \in Seq(SUBSET Codes)
      BY <2>3, <2>4
    <3>2. run.round + 1 \in Nat
      BY <2>2
    <3>3. run' = [run EXCEPT !.status = "AWAITING_APPROVAL", !.round = run.round + 1,
                             !.plans = <<plan>>, !.records = <<record>>,
                             !.selected = 1, !.settled = FALSE]
      BY <2>1
    <3> QED BY <2>2, <3>1, <3>2, <3>3 DEF RunFile, Statuses
  <2>8. TypeOK'
    <3>1. run'.round <= run'.budget /\ run'.selected <= Len(run'.plans)
          /\ Len(run'.records) = Len(run'.plans)
      BY <1>2, <2>2, <2>7
    <3>2. tracked' \in SUBSET Items /\ open' \in SUBSET Items
      BY <2>1, <2>2, <2>6
    <3> QED BY <1>2, <2>1, <2>2, <2>7, <3>1, <3>2 DEF TypeOK, ExportsOK
  <2>9. StatusOK'
    BY <2>7 DEF StatusOK
  <2>10. PlansOK'
    <3>1. world.damaged \in SUBSET Evidence /\ record = PlanIssues(plan, world.damaged)
      BY <2>2 DEF record
    <3>2. \A i \in DOMAIN <<plan>> : i = 1 /\ <<plan>>[i] = plan /\ <<record>>[i] = record
      OBVIOUS
    <3> QED BY <2>3, <2>5, <2>7, <3>1, <3>2 DEF PlansOK
  <2>11. OpenIsPassedOn'
    <3>1. \A item \in open' : item.blocking
      BY <2>1 DEF IInv, OpenIsPassedOn
    <3> QED BY <2>1, <2>6, <3>1 DEF OpenIsPassedOn
  <2>12. EveryBlockerAnswered'
    BY <2>7 DEF EveryBlockerAnswered
  <2>13. UnderWay'
    <3>1. review.verdict = "REQUEST_REVISION" /\ run.budget > 0
      BY <1>1 DEF Revise, Revisable, Reviewed
    <3>2. \A x \in Exporters : leaving[x] = NoPlan
      BY <3>1 DEF IInv, UnderWay
    <3> QED BY <1>2, <3>2 DEF UnderWay
  <2> QED BY <2>8, <2>9, <2>10, <2>11, <2>12, <2>13 DEF IInv
<1> QED BY <1>4, <1>5

\* A step of an export that leaves the run alone.
LEMMA ExportAside ==
  ASSUME IInv, UNCHANGED <<world, run, review, tracked, open>>, ExportsOK', UnderWay'
  PROVE  IInv'
<1>1. TypeOK'
  BY DEF IInv, TypeOK, Chosen
<1>2. StatusOK' /\ PlansOK'
  BY DEF IInv, StatusOK, PlansOK, Chosen
<1>3. OpenIsPassedOn' /\ EveryBlockerAnswered'
  BY DEF IInv, OpenIsPassedOn, EveryBlockerAnswered, Record
<1> QED BY <1>1, <1>2, <1>3 DEF IInv

\* What is known of a call and of the candidate it exports.
LEMMA CallUnderWay ==
  ASSUME IInv, NEW x \in Exporters, leaving[x] # NoPlan
  PROVE  /\ leaving[x] \in ExportCall
         /\ leaving[x].selected \in DOMAIN run.plans /\ leaving[x].selected \in DOMAIN run.records
         /\ leaving[x].pc # "named" => /\ leaving[x].package \in PackageFile
                                      /\ SoundPackage(leaving[x].package)
                                      /\ PackageVerified(leaving[x].package)
         /\ leaving[x].pc = "staged" => leaving[x].package.evidence \subseteq leaving[x].seen
         /\ review \in ReviewFile /\ review # NoReview
<1>1. leaving[x] \in ExportCall /\ (leaving[x].package = NoPlan <=> leaving[x].pc = "named")
  BY DEF IInv, TypeOK, ExportsOK
<1>2. /\ leaving[x].selected \in DOMAIN run.plans /\ review # NoReview
      /\ leaving[x].pc # "named" => /\ SoundPackage(leaving[x].package)
                                   /\ PackageVerified(leaving[x].package)
      /\ leaving[x].pc = "staged" => leaving[x].package.evidence \subseteq leaving[x].seen
  BY DEF IInv, UnderWay
<1>3. leaving[x].pc # "named" => leaving[x].package \in PackageFile
  BY <1>1 DEF ExportCall
<1>4. leaving[x].selected \in DOMAIN run.records
  BY <1>2 DEF IInv, TypeOK, RunFile
<1>5. review \in ReviewFile
  BY <1>2 DEF IInv, TypeOK
<1> QED BY <1>1, <1>2, <1>3, <1>4, <1>5

\* A step that moves one call on.
LEMMA CallMoves ==
  ASSUME IInv, NEW x \in Exporters, NEW call \in ExportCall,
         leaving' = [leaving EXCEPT ![x] = call],
         UNCHANGED <<world, run, review, tracked, open>>,
         exports' \in [ExportIds -> PackageFile \cup {NoPlan}],
         call.package = NoPlan <=> call.pc = "named",
         call.selected \in DOMAIN run.plans, review # NoReview,
         leaving[x] # NoPlan \/ run.status \in {"APPROVED", "EXPORTED"},
         call.pc # "named" => SoundPackage(call.package) /\ PackageVerified(call.package),
         call.pc = "staged" => call.package.evidence \subseteq call.seen
  PROVE  IInv'
<1>1. leaving \in [Exporters -> ExportCall \cup {NoPlan}]
  BY DEF IInv, TypeOK, ExportsOK
<1>2. /\ leaving' \in [Exporters -> ExportCall \cup {NoPlan}]
      /\ \A y \in Exporters : leaving'[y] = IF y = x THEN call ELSE leaving[y]
  BY <1>1
<1>3. ExportsOK'
  BY <1>2 DEF IInv, TypeOK, ExportsOK
<1>4. run.budget > 0 => /\ open = {} /\ review.verdict = "APPROVE"
                        /\ run.status \in {"APPROVED", "EXPORTED", "REVISION_BLOCKED"}
  BY DEF IInv, UnderWay, StatusOK, EveryBlockerAnswered
<1>5. UnderWay'
  <2> SUFFICES ASSUME NEW y \in Exporters, leaving'[y] # NoPlan
               PROVE  /\ leaving'[y].selected \in DOMAIN run.plans /\ review # NoReview
                      /\ run.budget > 0 =>
                           /\ open = {} /\ review.verdict = "APPROVE"
                           /\ run.status \in {"APPROVED", "EXPORTED", "REVISION_BLOCKED"}
                      /\ leaving'[y].pc # "named" => /\ SoundPackage(leaving'[y].package)
                                                    /\ PackageVerified(leaving'[y].package)
                      /\ leaving'[y].pc = "staged" =>
                           leaving'[y].package.evidence \subseteq leaving'[y].seen
    BY DEF UnderWay, SoundPackage, PackageVerified
  <2>1. CASE y = x
    BY <1>2, <1>4, <2>1
  <2>2. CASE y # x
    <3>1. leaving'[y] = leaving[y]
      BY <1>2, <2>2
    <3> QED BY <3>1 DEF IInv, UnderWay
  <2> QED BY <2>1, <2>2
<1> QED BY <1>3, <1>5, ExportAside

LEMMA BeginExportStep ==
  ASSUME IInv, NEW x \in Exporters, NEW id \in ExportIds, BeginExport(x, id)
  PROVE  IInv'
<1> DEFINE call == [id |-> id, pc |-> "named", selected |-> run.selected,
                    package |-> NoPlan, seen |-> {}]
<1>1. /\ run.status \in {"APPROVED", "EXPORTED"} /\ Chosen
      /\ leaving' = [leaving EXCEPT ![x] = call]
      /\ UNCHANGED <<world, run, review, tracked, open, exports>>
  BY DEF BeginExport
<1>2. call \in ExportCall
  BY DEF IInv, TypeOK, RunFile, ExportCall, ExportSteps
<1>3. call.package = NoPlan /\ call.pc = "named" /\ call.selected = run.selected
  OBVIOUS
<1>4. run.selected \in DOMAIN run.plans /\ review # NoReview
  BY <1>1, SelectedPlan DEF IInv, StatusOK
<1>5. exports' \in [ExportIds -> PackageFile \cup {NoPlan}]
  BY <1>1 DEF IInv, TypeOK, ExportsOK
<1> HIDE DEF call
<1> QED BY <1>1, <1>2, <1>3, <1>4, <1>5, CallMoves

\* What a call loads and may export is sound.
LEMMA LoadedIsSound ==
  ASSUME IInv, NEW choice \in DOMAIN run.plans, choice \in DOMAIN run.records,
         review \in ReviewFile, Exportable(choice, PackageOf(choice))
  PROVE  /\ PackageOf(choice) \in PackageFile
         /\ SoundPackage(PackageOf(choice)) /\ PackageVerified(PackageOf(choice))
<1> DEFINE p == PackageOf(choice)
           plan == run.plans[choice]
<1>1. /\ p.plan = plan /\ p.verdict = review /\ p.record = run.records[choice]
      /\ p.gate = GatePassed /\ p.gate /\ ApprovalStateValid(review, plan)
      /\ PlanIssues(plan, {}) = {} /\ PackageVerified(p)
  BY DEF PackageOf, Exportable, HandoffValid
<1>2. plan \in PlanFile /\ run.records[choice] \in SUBSET Codes /\ plan.draft \in Drafts
  <2>1. run.plans \in Seq(PlanFile) /\ run.records \in Seq(SUBSET Codes)
    BY DEF IInv, TypeOK, RunFile
  <2>2. plan \in PlanFile /\ run.records[choice] \in SUBSET Codes
    BY <2>1
  <2> QED BY <2>2 DEF PlanFile
<1>3. p \in PackageFile
  BY <1>2 DEF PackageOf, PackageFile, GatePassed
<1>4. DraftIssues(plan.draft) = {}
  BY DEF IInv, PlansOK
<1>5. Acyclic(plan.draft.tasks)
  BY <1>1, <1>2, ReportOnCycle
<1>6. Covers(plan.draft, plan.draft.claims)
  <2>1. "CLAIM_EVIDENCE_MISMATCH" \notin DraftIssues(plan.draft)
    BY <1>4
  <2> QED BY <2>1 DEF DraftIssues
<1>7. review.flags = {} /\ plan.draft.decisions = {}
  BY <1>1 DEF ApprovalStateValid, Approvable, GatePassed
<1> QED BY <1>1, <1>3, <1>5, <1>6, <1>7 DEF SoundPackage

LEMMA LoadExportStep ==
  ASSUME IInv, NEW x \in Exporters, LoadExport(x)
  PROVE  IInv'
<1> DEFINE p == PackageOf(leaving[x].selected)
           call == [leaving[x] EXCEPT !.pc = "loaded", !.package = p]
<1>1. /\ leaving[x] # NoPlan /\ Exportable(leaving[x].selected, p)
      /\ leaving' = [leaving EXCEPT ![x] = call]
      /\ UNCHANGED <<world, run, review, tracked, open, exports>>
  BY DEF LoadExport, At
<1>2. /\ leaving[x] \in ExportCall /\ review \in ReviewFile /\ review # NoReview
      /\ leaving[x].selected \in DOMAIN run.plans /\ leaving[x].selected \in DOMAIN run.records
  BY <1>1, CallUnderWay
<1>3. p \in PackageFile /\ SoundPackage(p) /\ PackageVerified(p)
  BY <1>1, <1>2, LoadedIsSound
<1> HIDE DEF p
<1>4. /\ call \in ExportCall /\ call.package = p /\ call.pc = "loaded"
      /\ call.selected = leaving[x].selected
  BY <1>2, <1>3 DEF ExportCall, ExportSteps
<1> HIDE DEF call
<1>5. p # NoPlan
  BY <1>3, NoPlanAssumption
<1>6. exports' \in [ExportIds -> PackageFile \cup {NoPlan}]
  BY <1>1 DEF IInv, TypeOK, ExportsOK
<1> QED BY <1>1, <1>2, <1>3, <1>4, <1>5, <1>6, CallMoves

LEMMA VerifyEvidenceStep ==
  ASSUME IInv, NEW x \in Exporters, NEW e \in Evidence, VerifyEvidence(x, e)
  PROVE  IInv'
<1> DEFINE call == [leaving[x] EXCEPT !.seen = leaving[x].seen \cup {e}]
<1>1. /\ leaving[x] # NoPlan /\ leaving[x].pc = "loaded"
      /\ leaving' = [leaving EXCEPT ![x] = call]
      /\ UNCHANGED <<world, run, review, tracked, open, exports>>
  BY DEF VerifyEvidence, At
<1>2. /\ leaving[x] \in ExportCall /\ review # NoReview
      /\ leaving[x].selected \in DOMAIN run.plans
      /\ leaving[x].package \in PackageFile
      /\ SoundPackage(leaving[x].package) /\ PackageVerified(leaving[x].package)
  BY <1>1, CallUnderWay
<1>3. /\ call \in ExportCall /\ call.package = leaving[x].package /\ call.pc = "loaded"
      /\ call.selected = leaving[x].selected
  BY <1>1, <1>2 DEF ExportCall
<1> HIDE DEF call
<1>4. leaving[x].package # NoPlan
  BY <1>2, NoPlanAssumption
<1>5. exports' \in [ExportIds -> PackageFile \cup {NoPlan}]
  BY <1>1 DEF IInv, TypeOK, ExportsOK
<1> QED BY <1>1, <1>2, <1>3, <1>4, <1>5, CallMoves

LEMMA StageExportStep ==
  ASSUME IInv, NEW x \in Exporters, StageExport(x)
  PROVE  IInv'
<1> DEFINE call == [leaving[x] EXCEPT !.pc = "staged"]
<1>1. /\ leaving[x] # NoPlan /\ leaving[x].pc = "loaded"
      /\ leaving[x].package.evidence \subseteq leaving[x].seen
      /\ leaving' = [leaving EXCEPT ![x] = call]
      /\ UNCHANGED <<world, run, review, tracked, open, exports>>
  BY DEF StageExport, EvidenceVerified, At
<1>2. /\ leaving[x] \in ExportCall /\ review # NoReview
      /\ leaving[x].selected \in DOMAIN run.plans
      /\ leaving[x].package \in PackageFile
      /\ SoundPackage(leaving[x].package) /\ PackageVerified(leaving[x].package)
  BY <1>1, CallUnderWay
<1>3. /\ call \in ExportCall /\ call.package = leaving[x].package /\ call.pc = "staged"
      /\ call.selected = leaving[x].selected /\ call.seen = leaving[x].seen
  BY <1>2 DEF ExportCall, ExportSteps
<1> HIDE DEF call
<1>4. leaving[x].package # NoPlan
  BY <1>2, NoPlanAssumption
<1>5. exports' \in [ExportIds -> PackageFile \cup {NoPlan}]
  BY <1>1 DEF IInv, TypeOK, ExportsOK
<1> QED BY <1>1, <1>2, <1>3, <1>4, <1>5, CallMoves

LEMMA MoveExportStep ==
  ASSUME IInv, NEW x \in Exporters, MoveExport(x)
  PROVE  IInv'
<1> DEFINE call == [leaving[x] EXCEPT !.pc = "moved"]
<1>1. /\ leaving[x] # NoPlan /\ leaving[x].pc = "staged"
      /\ exports' = [exports EXCEPT ![leaving[x].id] = leaving[x].package]
      /\ leaving' = [leaving EXCEPT ![x] = call]
      /\ UNCHANGED <<world, run, review, tracked, open>>
  BY DEF MoveExport, At
<1>2. /\ leaving[x] \in ExportCall /\ review # NoReview
      /\ leaving[x].selected \in DOMAIN run.plans
      /\ leaving[x].package \in PackageFile
      /\ SoundPackage(leaving[x].package) /\ PackageVerified(leaving[x].package)
  BY <1>1, CallUnderWay
<1>3. /\ call \in ExportCall /\ call.package = leaving[x].package /\ call.pc = "moved"
      /\ call.selected = leaving[x].selected
  BY <1>2 DEF ExportCall, ExportSteps
<1> HIDE DEF call
<1>4. leaving[x].package # NoPlan
  BY <1>2, NoPlanAssumption
<1>5. exports' \in [ExportIds -> PackageFile \cup {NoPlan}]
  BY <1>1, <1>2 DEF IInv, TypeOK, ExportsOK
<1> QED BY <1>1, <1>2, <1>3, <1>4, <1>5, CallMoves

\* A call that ends, saved or not, leaves the others as they are.
LEMMA OthersUnderWay ==
  ASSUME IInv, NEW x \in Exporters, leaving' = [leaving EXCEPT ![x] = NoPlan],
         UNCHANGED <<world, review, tracked, open, exports>>,
         run'.plans = run.plans, run'.budget = run.budget,
         run'.status \in {run.status, "EXPORTED"}
  PROVE  ExportsOK' /\ UnderWay'
<1>1. leaving \in [Exporters -> ExportCall \cup {NoPlan}]
  BY DEF IInv, TypeOK, ExportsOK
<1>2. /\ leaving' \in [Exporters -> ExportCall \cup {NoPlan}]
      /\ \A y \in Exporters : leaving'[y] = IF y = x THEN NoPlan ELSE leaving[y]
  BY <1>1
<1>3. ExportsOK'
  BY <1>2 DEF IInv, TypeOK, ExportsOK
<1>4. UnderWay'
  <2> SUFFICES ASSUME NEW y \in Exporters, leaving'[y] # NoPlan
               PROVE  /\ leaving'[y].selected \in DOMAIN run.plans /\ review # NoReview
                      /\ run.budget > 0 =>
                           /\ open = {} /\ review.verdict = "APPROVE"
                           /\ run'.status \in {"APPROVED", "EXPORTED", "REVISION_BLOCKED"}
                      /\ leaving'[y].pc # "named" => /\ SoundPackage(leaving'[y].package)
                                                    /\ PackageVerified(leaving'[y].package)
                      /\ leaving'[y].pc = "staged" =>
                           leaving'[y].package.evidence \subseteq leaving'[y].seen
    BY DEF UnderWay, SoundPackage, PackageVerified
  <2>1. leaving'[y] = leaving[y]
    BY <1>2
  <2> QED BY <2>1 DEF IInv, UnderWay
<1> QED BY <1>3, <1>4

LEMMA DropExportStep ==
  ASSUME IInv, NEW x \in Exporters, DropExport(x)
  PROVE  IInv'
<1>1. /\ leaving' = [leaving EXCEPT ![x] = NoPlan]
      /\ UNCHANGED <<world, run, review, tracked, open, exports>>
  BY DEF DropExport
<1>2. ExportsOK' /\ UnderWay'
  BY <1>1, OthersUnderWay
<1> QED BY <1>1, <1>2, ExportAside

\* The run saved at the end of an export is the one the call read; with
\* revisions on no blocker has been opened since.
LEMMA SaveExportedStep ==
  ASSUME IInv, NEW x \in Exporters, SaveExported(x)
  PROVE  IInv'
<1>1. /\ leaving[x] # NoPlan
      /\ run' = [run EXCEPT !.status = "EXPORTED", !.selected = leaving[x].selected]
      /\ leaving' = [leaving EXCEPT ![x] = NoPlan]
      /\ UNCHANGED <<world, review, tracked, open, exports>>
  BY DEF SaveExported, At
<1>2. /\ leaving[x].selected \in DOMAIN run.plans
      /\ review # NoReview /\ review \in ReviewFile
  BY <1>1, CallUnderWay
<1>3. run.budget > 0 => open = {} /\ review.verdict = "APPROVE"
  BY <1>1 DEF IInv, UnderWay
<1>4. run \in RunFile /\ run.plans \in Seq(PlanFile)
  BY DEF IInv, TypeOK, RunFile
<1>5. leaving[x].selected \in 1 .. Len(run.plans) /\ leaving[x].selected \in Nat
  BY <1>2, <1>4
<1>6. /\ run' \in RunFile /\ run'.status = "EXPORTED" /\ run'.selected = leaving[x].selected
      /\ run'.plans = run.plans /\ run'.records = run.records
      /\ run'.budget = run.budget /\ run'.round = run.round
  BY <1>1, <1>4, <1>5 DEF RunFile, Statuses
<1>7. ExportsOK' /\ UnderWay'
  BY <1>1, <1>6, OthersUnderWay
<1>8. Chosen' /\ run'.selected <= Len(run'.plans)
  BY <1>5, <1>6 DEF Chosen
<1>9. TypeOK'
  BY <1>1, <1>6, <1>7, <1>8 DEF IInv, TypeOK
<1>10. StatusOK'
  BY <1>1, <1>2, <1>3, <1>6, <1>8 DEF StatusOK
<1>11. PlansOK'
  BY <1>6 DEF IInv, PlansOK
<1>12. OpenIsPassedOn' /\ EveryBlockerAnswered'
  BY <1>1, <1>2, <1>3, <1>6 DEF IInv, OpenIsPassedOn, EveryBlockerAnswered
<1> QED BY <1>7, <1>9, <1>10, <1>11, <1>12 DEF IInv

LEMMA ExportStep ==
  ASSUME IInv, NEW x \in Exporters, Export(x)
  PROVE  IInv'
BY BeginExportStep, LoadExportStep, VerifyEvidenceStep, StageExportStep, MoveExportStep,
   SaveExportedStep, DropExportStep DEF Export

LEMMA InvariantNext == IInv /\ [Next]_vars => IInv'
<1> SUFFICES ASSUME IInv, [Next]_vars PROVE IInv'
  OBVIOUS
<1>1. CASE (\E e \in Evidence : Damage(e)) \/ ReleasePack
  BY <1>1, WorldStep
<1>2. CASE \E proposal \in Proposals : Compile(proposal)
  BY <1>2, CompileStep
<1>3. CASE \E choice \in 1 .. MaxCandidates : Select(choice)
  BY <1>3, SelectStep
<1>4. CASE Resume
  BY <1>4, ResumeStep
<1>5. CASE Review
  BY <1>5, ReviewStep
<1>6. CASE ReviewAgain
  BY <1>6, ReviewAgainStep
<1>7. CASE Settle
  BY <1>7, SettleStep
<1>8. CASE Revision
  BY <1>8, RevisionStep
<1>9. CASE \E x \in Exporters : Export(x)
  BY <1>9, ExportStep
<1>10. CASE UNCHANGED vars
  <2>1. run' = run /\ UNCHANGED <<review, tracked, open, world, exports, leaving>>
    BY <1>10 DEF vars
  <2>2. /\ world \in [damaged : SUBSET Evidence, pack : Nat, changes : 0 .. MaxChanges]
        /\ run \in RunFile
    BY DEF IInv, TypeOK
  <2>3. run.status \notin {"INTERPRETED", "AWAITING_APPROVAL", "FAILED"} => Chosen
    BY DEF IInv, StatusOK
  <2> QED BY <2>1, <2>2, <2>3, StepAside
<1> QED BY <1>1, <1>2, <1>3, <1>4, <1>5, <1>6, <1>7, <1>8, <1>9, <1>10, Zenon DEF Next

-----------------------------------------------------------------------------
(* The theorems.                                                           *)

\* The inductive invariant holds for every set of drafts a planner may write,
\* every answer of a reviewer, every budget and every change of the files
\* (service.py, policy.py, compilers.py).
THEOREM Invariant == Spec => []IInv
<1> QED BY InitOK, InvariantNext, PTL DEF Spec

\* The run, the review, the tracked feedback and the packages have the shape
\* their model classes declare (models.py).
THEOREM TypeCorrect == Spec => []TypeOK
<1>1. IInv => TypeOK
  BY DEF IInv
<1> QED BY <1>1, Invariant, PTL

\* With revisions on, nothing that was ever raised as blocking is open when
\* the plan gate has passed, however many rounds lie between
\* (service.py:3050-3066, policy.py:60-85).
THEOREM BlockersAnswered == Spec => []EveryBlockerAnswered
<1>1. IInv => EveryBlockerAnswered
  BY DEF IInv
<1> QED BY <1>1, Invariant, PTL

\* Every record a run keeps reports a cycle exactly when the tasks of its plan
\* have no order (validators.py:173-201).
THEOREM CycleCheckHolds == Spec => []CycleCheckIsExact
<1>1. IInv => CycleCheckIsExact
  <2> SUFFICES ASSUME IInv, NEW i \in DOMAIN run.plans
               PROVE  "DAG_CYCLE" \in run.records[i] <=> ~Acyclic(run.plans[i].draft.tasks)
    BY DEF CycleCheckIsExact
  <2>1. run.plans[i] \in PlanFile
    BY DEF IInv, TypeOK, RunFile
  <2>2. PICK damaged \in SUBSET Evidence : run.records[i] = PlanIssues(run.plans[i], damaged)
    BY DEF IInv, PlansOK
  <2> QED BY <2>1, <2>2, ReportOnCycle
<1> QED BY <1>1, Invariant, PTL

\* What a step does to a destination and to what the calls have seen.
Leaves ==
  /\ \A id \in ExportIds : exports'[id] # exports[id] =>
       /\ exports[id] = NoPlan
       /\ SoundPackage(exports'[id])
       /\ run.budget > 0 => open = {}
       /\ \E x \in Exporters :
            /\ At(x, "staged") /\ exports'[id] = leaving[x].package
            /\ exports'[id].plan.draft.evidence \subseteq leaving[x].seen
  /\ \A x \in Exporters, e \in Evidence : Seen(x, e)' => Seen(x, e) \/ e \notin world.damaged

LEMMA MoveIsSound ==
  ASSUME IInv, NEW x \in Exporters, MoveExport(x)
  PROVE  Leaves
<1> DEFINE p == leaving[x].package
           call == [leaving[x] EXCEPT !.pc = "moved"]
<1>1. /\ At(x, "staged") /\ leaving[x] # NoPlan /\ leaving[x].pc = "staged"
      /\ exports[leaving[x].id] = NoPlan
      /\ exports' = [exports EXCEPT ![leaving[x].id] = p]
      /\ leaving' = [leaving EXCEPT ![x] = call]
  BY DEF MoveExport, At
<1>2. /\ leaving[x] \in ExportCall /\ SoundPackage(p) /\ PackageVerified(p)
      /\ p.evidence \subseteq leaving[x].seen
  BY <1>1, CallUnderWay
<1>3. p.plan.draft.evidence \subseteq leaving[x].seen
  BY <1>2 DEF PackageVerified
<1>4. run.budget > 0 => open = {}
  BY <1>1 DEF IInv, UnderWay
<1>5. /\ exports \in [ExportIds -> PackageFile \cup {NoPlan}]
      /\ leaving \in [Exporters -> ExportCall \cup {NoPlan}]
  BY DEF IInv, TypeOK, ExportsOK
<1> HIDE DEF p
<1>6. ASSUME NEW id \in ExportIds, exports'[id] # exports[id]
      PROVE  /\ exports[id] = NoPlan /\ SoundPackage(exports'[id])
             /\ exports'[id] = p
  <2>1. id = leaving[x].id
    BY <1>1, <1>5, <1>6
  <2>2. exports'[id] = p
    BY <1>1, <1>5, <2>1
  <2> QED BY <1>1, <1>2, <2>1, <2>2
<1>7. call.seen = leaving[x].seen
  BY <1>2 DEF ExportCall
<1> HIDE DEF call
<1>8. ASSUME NEW y \in Exporters, NEW e \in Evidence, Seen(y, e)'
      PROVE  Seen(y, e)
  <2>1. CASE y = x
    BY <1>1, <1>5, <1>7, <1>8, <2>1 DEF Seen
  <2>2. CASE y # x
    BY <1>1, <1>5, <1>8, <2>2 DEF Seen
  <2> QED BY <2>1, <2>2
<1> QED BY <1>1, <1>3, <1>4, <1>6, <1>8, Zenon DEF Leaves, p

\* A step that leaves the destinations alone and adds to what a call has seen
\* only what is undamaged.
LEMMA OtherStepLeaves ==
  ASSUME UNCHANGED exports,
         \A x \in Exporters, e \in Evidence : Seen(x, e)' => Seen(x, e) \/ e \notin world.damaged
  PROVE  Leaves
BY DEF Leaves

LEMMA ExportLeaves ==
  ASSUME IInv, NEW x \in Exporters, Export(x)
  PROVE  Leaves
<1>1. leaving \in [Exporters -> ExportCall \cup {NoPlan}]
  BY DEF IInv, TypeOK, ExportsOK
<1>2. CASE MoveExport(x)
  BY <1>2, MoveIsSound
<1>3. ASSUME NEW seen, UNCHANGED exports,
             \E call : leaving' = [leaving EXCEPT ![x] = call] /\ (call = NoPlan \/ call.seen = seen),
             \A e \in seen : Seen(x, e) \/ e \notin world.damaged
      PROVE  Leaves
  <2>1. PICK call : leaving' = [leaving EXCEPT ![x] = call] /\ (call = NoPlan \/ call.seen = seen)
    BY <1>3
  <2>2. \A y \in Exporters : leaving'[y] = IF y = x THEN call ELSE leaving[y]
    BY <1>1, <2>1
  <2>3. ASSUME NEW y \in Exporters, NEW e \in Evidence, Seen(y, e)'
        PROVE  Seen(y, e) \/ e \notin world.damaged
    <3>1. CASE y = x
      BY <1>3, <2>1, <2>2, <2>3, <3>1 DEF Seen
    <3>2. CASE y # x
      BY <2>2, <2>3, <3>2 DEF Seen
    <3> QED BY <3>1, <3>2
  <2> QED BY <1>3, <2>3, OtherStepLeaves
<1>4. CASE \E id \in ExportIds : BeginExport(x, id)
  <2>1. PICK id \in ExportIds : BeginExport(x, id)
    BY <1>4
  <2> DEFINE call == [id |-> id, pc |-> "named", selected |-> run.selected,
                      package |-> NoPlan, seen |-> {}]
  <2>2. UNCHANGED exports /\ leaving' = [leaving EXCEPT ![x] = call] /\ call.seen = {}
    BY <2>1 DEF BeginExport
  <2> HIDE DEF call
  <2> QED BY <1>3, <2>2
<1>5. CASE LoadExport(x) \/ StageExport(x)
  <2>1. UNCHANGED exports /\ leaving[x] # NoPlan
    BY <1>5 DEF LoadExport, StageExport, At
  <2>2. leaving[x] \in ExportCall
    BY <1>1, <2>1
  <2>3. \E call : leaving' = [leaving EXCEPT ![x] = call] /\ call.seen = leaving[x].seen
    BY <1>5, <2>2 DEF LoadExport, StageExport, ExportCall
  <2>4. \A e \in leaving[x].seen : Seen(x, e)
    BY <2>1 DEF Seen
  <2> QED BY <1>3, <2>1, <2>3, <2>4
<1>6. CASE \E e \in Evidence : VerifyEvidence(x, e)
  <2>1. PICK e \in Evidence : VerifyEvidence(x, e)
    BY <1>6
  <2>2. UNCHANGED exports /\ leaving[x] # NoPlan /\ e \notin world.damaged
    BY <2>1 DEF VerifyEvidence, At
  <2>3. leaving[x] \in ExportCall
    BY <1>1, <2>2
  <2>4. \E call : leaving' = [leaving EXCEPT ![x] = call] /\ call.seen = leaving[x].seen \cup {e}
    <3> DEFINE call == [leaving[x] EXCEPT !.seen = leaving[x].seen \cup {e}]
    <3>1. call.seen = leaving[x].seen \cup {e}
      BY <2>3 DEF ExportCall
    <3>2. leaving' = [leaving EXCEPT ![x] = call]
      BY <2>1 DEF VerifyEvidence
    <3> HIDE DEF call
    <3> QED BY <3>1, <3>2
  <2>5. \A f \in leaving[x].seen \cup {e} : Seen(x, f) \/ f \notin world.damaged
    BY <2>2 DEF Seen
  <2> QED BY <1>3, <2>2, <2>4, <2>5
<1>7. CASE SaveExported(x) \/ DropExport(x)
  <2>1. UNCHANGED exports /\ leaving' = [leaving EXCEPT ![x] = NoPlan]
    BY <1>7 DEF SaveExported, DropExport
  <2>2. ASSUME NEW y \in Exporters, NEW e \in Evidence, Seen(y, e)' PROVE Seen(y, e)
    BY <1>1, <2>1, <2>2 DEF Seen
  <2> QED BY <2>1, <2>2, OtherStepLeaves
<1> QED BY <1>2, <1>4, <1>5, <1>6, <1>7 DEF Export

\* Whatever the planner and the reviewer answered and however the files, the
\* run and other exports changed in between, what is exported is sound, every
\* piece of its evidence was found undamaged by the call that wrote it, and it
\* overwrites nothing (export.py:62-157).
THEOREM SoundExports == Spec => ExportsAreSound
<1>1. IInv /\ [Next]_vars => [Leaves]_vars
  <2> SUFFICES ASSUME IInv, Next PROVE Leaves
    OBVIOUS
  <2>1. CASE \E x \in Exporters : Export(x)
    BY <2>1, ExportLeaves
  <2>2. CASE ~ \E x \in Exporters : Export(x)
    <3>1. UNCHANGED <<exports, leaving>>
      BY <2>2, Zenon DEF Next, Damage, ReleasePack, Compile, Select, Resume, Review,
         ReviewAgain, Settle, Revision, Revise
    <3> QED BY <3>1, OtherStepLeaves DEF Seen
  <2> QED BY <2>1, <2>2
<1> QED BY <1>1, Invariant, PTL DEF Spec, ExportsAreSound, Leaves

=============================================================================
