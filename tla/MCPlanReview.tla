---------------------------- MODULE MCPlanReview ----------------------------
(***************************************************************************)
(* A small instance of PlanReview: one claim on one piece of evidence, one *)
(* conflict about it, one gap that one of two capabilities closes, tasks   *)
(* in every shape of dependency, and drafts that meet or miss one rule     *)
(* each.                                                                   *)
(***************************************************************************)
EXTENDS PlanReview, TLC

CONSTANTS e1, c1, k1, k2, g1, x1, b1, o1, call1, call2

MCSourcesOf == [c \in {c1} |-> {e1}]
MCRemedyOf == [g \in {g1} |-> {k2}]
MCSidesOf == [x \in {x1} |-> {c1}]
MCCriticalCodes == {"MISSING_CRITICAL_EVIDENCE"}
MCNonRevisableCodes == {"MISSING_CRITICAL_EVIDENCE", "SOURCE_INTEGRITY_FAILURE"}

Task(capability, needs) == [uses |-> capability, needs |-> needs]

\* A draft that meets every rule.
Sound ==
  [evidence |-> {e1}, claims |-> {c1}, capabilities |-> {k1, k2}, decisions |-> {}, mentions |-> {},
   discriminates |-> TRUE, axis |-> "mechanism",
   tasks |-> [t \in {"t1", "t2"} |->
                IF t = "t1" THEN Task(k1, {}) ELSE Task(k2, {"t1"})],
   cited |-> {e1}, observables |-> {o1}, measures |-> {o1},
   baselines |-> {b1}, departs |-> {}, flaws |-> {}]

\* Tasks in a circle, in a circle behind a task that waits for nothing, and
\* in an order in which one task waits twice.
Needs(first, second, third) ==
  [Sound EXCEPT !.tasks = [t \in {"t1", "t2", "t3"} |->
                             CASE t = "t1" -> Task(k1, first)
                               [] t = "t2" -> Task(k2, second)
                               [] t = "t3" -> Task(k2, third)]]

MCDrafts ==
  {Sound,
   [Sound EXCEPT !.discriminates = FALSE, !.axis = "survey"],
   [Sound EXCEPT !.tasks = [t \in {"t1"} |-> Task(k1, {})], !.decisions = {g1}],
   [Sound EXCEPT !.tasks = [t \in {"t1"} |-> Task(k1, {})], !.mentions = {g1}],
   [Sound EXCEPT !.flaws = {"INTENT_QUESTION_MISMATCH"}],
   [Sound EXCEPT !.evidence = {}, !.cited = {}],
   [Sound EXCEPT !.measures = {b1}],
   Needs({}, {"t1", "t3"}, {"t2"}),
   Needs({}, {"t1"}, {"t1", "t2"})}

Flag(code, blocking, task) == [code |-> code, blocking |-> blocking, task |-> task]

MCFlagSets ==
  {{},
   {Flag("WEAK_CONTROL", TRUE, "t2")},
   {Flag("WEAK_CONTROL", FALSE, NoTask)},
   {Flag("MISSING_CRITICAL_EVIDENCE", TRUE, NoTask)},
   {Flag("REQUIRES_REPLANNING", TRUE, NoTask)}}

MCFixSets == {{}, {[id |-> "f1", blocking |-> TRUE]}}

MCCalls == Permutations({call1, call2})
=============================================================================
