------------------------- MODULE MCPlanningEvidence -------------------------
(***************************************************************************)
(* A small library for PlanningEvidence.  r1 and r4 state one of two       *)
(* conditions and contradict each other, r2 states the other and is        *)
(* related to r1, and r3 is topical only; r4 is an expert's.  The run asks *)
(* for both conditions, one for the first; disputed finds a contradicting  *)
(* pair at once, choice reaches it over the graph and cannot be closed by  *)
(* retrieval.                                                              *)
(***************************************************************************)
EXTENDS PlanningEvidence, TLC

CONSTANTS r1, r2, r3, r4, both, one, disputed, choice, c1, c2, k1, k2

MCRecords == {r1, r2, r3, r4}
MCLiterature == {r1, r2, r3}
MCRelations == {[from |-> r4, to |-> r1, contradicts |-> TRUE],
                [from |-> r2, to |-> r1, contradicts |-> FALSE]}
MCQuestions == {both, one, disputed, choice}
MCFinds == (both :> {r2}) @@ (one :> {r1, r3}) @@ (disputed :> {r1, r4}) @@ (choice :> {r1})
MCDemands == (both :> {c1, c2}) @@ (one :> {c1}) @@ (disputed :> {c1}) @@ (choice :> {c1, c2})
MCStates == (r1 :> {c1}) @@ (r2 :> {c2}) @@ (r3 :> {}) @@ (r4 :> {c1})
MCExperts == {disputed, choice}
MCKindOf == [q \in MCQuestions |-> IF q = choice THEN "human" ELSE "retrieval"]
MCNeeds == {[about |-> both, on |-> 1, kind |-> "retrieval"]}
MCClaims == {k1, k2}
MCConflicts == {{k1, k2}}
=============================================================================
