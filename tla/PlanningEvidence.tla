--------------------------- MODULE PlanningEvidence ---------------------------
(***************************************************************************)
(* What a hierarchical call plans from, and what it must not lose: the     *)
(* contents of the evidence rounds (requests, retrieval, criteria, child   *)
(* context, gaps carried over) and of the three stages (directions,        *)
(* triage, expansion).  HierarchicalPlanning has the same loop with its    *)
(* files and interruptions and without its contents.                       *)
(*                                                                         *)
(* A question stands for the whole wording of a request, a gap or a need:  *)
(* its text, evidence type, concepts and comparison conditions.            *)
(***************************************************************************)
EXTENDS Naturals, FiniteSets, Sequences

CONSTANTS
  Records,       \* knowledge records of the library
  Literature,    \* those reported by literature; the others are an expert's
  Relations,     \* graph edges [from, to, contradicts]
  Questions,     \* what can be asked
  Original,      \* the question of the run itself
  Finds,         \* question -> the records a lexical search for it matches
  Demands,       \* question -> the comparison conditions it declares
  States,        \* record -> the conditions its text explicitly satisfies
  Experts,       \* the questions whose requests accept expert records, too
  KindOf,        \* question -> how classify_evidence_gap reads its wording
  Needs,         \* evidence needs [about, on, kind] a triage may declare
  Claims,        \* the source claims of the interpreted context
  Conflicts,     \* unresolved conflict sets: sets of claims
  CycleLimit,    \* bound on evidence cycles (3 in the code)
  MaxRequests,   \* bound on the requests of one answer (5 in the code)
  MaxDirections  \* bound on the directions of one answer (6 in the code)

Kinds == {"retrieval", "calculation", "experiment", "human", "undetermined"}

ASSUME LibraryAssumption ==
  /\ Literature \subseteq Records /\ Original \in Questions
  /\ Relations \subseteq [from : Records, to : Records, contradicts : BOOLEAN]
  /\ Finds \in [Questions -> SUBSET Records]
  /\ States \in [Records -> SUBSET UNION {Demands[q] : q \in Questions}]
  /\ Experts \subseteq Questions /\ KindOf \in [Questions -> Kinds]
  /\ \A c \in Conflicts : c \subseteq Claims /\ Cardinality(c) > 1
  /\ {CycleLimit, MaxRequests, MaxDirections} \subseteq Nat

VARIABLES
  setup,     \* what the call finds: trusted records, cycle budget, barrier
  contexts,  \* the context of the run and its children, in order
  rounds,    \* the requests of every evidence round, by the context it served
  hier,      \* directions, triage and expansion for the last context
  at         \* where the call is, or how it ended

vars == <<setup, contexts, rounds, hier, at>>

-----------------------------------------------------------------------------
(* Retrieval. *)

Joins(e, r, hits) == r \notin hits /\ \/ e.from = r /\ e.to \in hits
                                      \/ e.to = r /\ e.from \in hits

\* The lexical matches within the view, and one hop from them.
Matches(q, view) == Finds[q] \cap view
Expanded(q, view) == {r \in view : \E e \in Relations : Joins(e, r, Matches(q, view))}
Found(q, view) == Matches(q, view) \cup Expanded(q, view)

Disputes(hits) == {e \in Relations : e.contradicts /\ e.from \in hits /\ e.to \in hits}

\* The relations a hit carries: the one an expanded record was reached by.
\* A lexical match carries none, whatever it takes part in.
RelationRefs(q, view, r) ==
  IF r \in Finds[q] THEN {}
  ELSE {CHOOSE e \in Relations : Joins(e, r, Matches(q, view))}

-----------------------------------------------------------------------------
(* Gaps and requests. *)

\* A gap is known by its wording and by the context whose interpretation
\* reported it; "carried" gaps were made from a request.
Gap == [about : Questions, of : Nat, blocking : BOOLEAN]
NoGap == [about |-> Original, of |-> 0, blocking |-> FALSE]
Carried == 0

ContextFile == [direct : SUBSET Records, expanded : SUBSET Records,
                disputes : SUBSET Relations, gaps : SUBSET Gap]
Context == contexts[Len(contexts)]
Hits(context) == context.direct \cup context.expanded
Blocking == {g \in Context.gaps : g.blocking}
Retrievable == {g \in Blocking : KindOf[g.about] = "retrieval"}

\* The evidence needs of the triage, whatever the disposition they are under.
RetrievalNeeds ==
  UNION {{n \in hier.triage[d].needs : n.kind = "retrieval"} : d \in DOMAIN hier.triage}

\* A request is about a gap of the input, or about the question of a review
\* or a need; only then is its own blocking flag read.
GapRequests == [about : Questions, gap : Blocking, blocking : {TRUE}]
QuestionRequests == [about : Questions, gap : {NoGap}, blocking : BOOLEAN]
Requests == GapRequests \cup QuestionRequests
RequestFile == [about : Questions, gap : Gap, blocking : BOOLEAN]

\* Of the requests of one signature only the first is kept: what is left of an
\* answer, and no other requests, has a signature for each.
Signature(p) == <<p.about, p.gap>>
Distinct(requests) ==
  \A i, j \in DOMAIN requests : Signature(requests[i]) = Signature(requests[j]) => i = j

-----------------------------------------------------------------------------
(* Resolution of one request against the library. *)

Acceptable(p, hits) == IF p.about \in Experts THEN hits ELSE hits \cap Literature

TrustedHits(p) == Acceptable(p, Found(p.about, setup.trusted))
PendingHits(p) == Acceptable(p, Found(p.about, Records)) \ setup.trusted

\* Faulty: topical relevance is taken for support.
SupportingTopical(p) == TrustedHits(p)

\* The matched records that satisfy a declared condition.
Supporting(p) == {r \in TrustedHits(p) : States[r] \cap Demands[p.about] # {}}
Satisfied(p) == (UNION {States[r] : r \in Supporting(p)}) \cap Demands[p.about]

\* Faulty: one satisfied condition is enough.
StatusAny(p) ==
  IF TrustedHits(p) = {} THEN IF PendingHits(p) # {} THEN "curation" ELSE "no_match"
  ELSE IF Disputes(Found(p.about, setup.trusted)) # {} THEN "conflicting"
  ELSE IF Satisfied(p) # {} THEN "resolved" ELSE "no_match"

Status(p) ==
  IF TrustedHits(p) = {} THEN IF PendingHits(p) # {} THEN "curation" ELSE "no_match"
  ELSE IF Disputes(Found(p.about, setup.trusted)) # {} THEN "conflicting"
  ELSE IF Satisfied(p) = {} THEN "no_match"
  ELSE IF Satisfied(p) = Demands[p.about] THEN "resolved" ELSE "partial"

-----------------------------------------------------------------------------
(* The child context. *)

\* augment_scientific_context: the supporting hits, of a conflict all of them.
Admitted(p) == IF Status(p) = "conflicting" THEN TrustedHits(p) ELSE Supporting(p)
AdmittedAs(p, direct) == {r \in Admitted(p) : (r \in Finds[p.about]) = direct}
AdmittedDisputes(p) ==
  IF Status(p) # "conflicting" THEN {}
  ELSE UNION {RelationRefs(p.about, setup.trusted, r) : r \in TrustedHits(p)}

\* The interpretation reads the evidence spans of the original query, which
\* an evidence round leaves alone: a barrier it misses, it always misses.
InterpretedGaps(n) ==
  IF setup.barrier THEN {[about |-> Original, of |-> n, blocking |-> TRUE]} ELSE {}

\* _carry_unresolved_evidence_gaps.
CarriedGap(p) ==
  IF p.gap # NoGap THEN p.gap
  ELSE [about |-> p.about, of |-> Carried, blocking |-> p.blocking]
CarriedGaps(requests) ==
  {CarriedGap(requests[i]) : i \in {j \in DOMAIN requests : Status(requests[j]) # "resolved"}}

\* A record found anew the other way is listed twice, which raises.
Collides(context) == context.direct \cap context.expanded # {}

Child(requests) ==
  [direct |-> Context.direct \cup UNION {AdmittedAs(requests[i], TRUE) : i \in DOMAIN requests},
   expanded |-> Context.expanded \cup UNION {AdmittedAs(requests[i], FALSE) : i \in DOMAIN requests},
   disputes |-> Context.disputes \cup
                UNION {AdmittedDisputes(requests[i]) : i \in DOMAIN requests},
   gaps |-> InterpretedGaps(Len(contexts) + 1) \cup CarriedGaps(requests)]

\* What the round of these requests comes to; "new" counts every match.
Statuses(requests) == {Status(requests[i]) : i \in DOMAIN requests}
AllHits(requests) == UNION {TrustedHits(requests[i]) : i \in DOMAIN requests}
Outcome(requests) ==
  CASE "curation" \in Statuses(requests) -> "source_curation"
    [] "no_match" \in Statuses(requests) -> "unresolved"
    [] AllHits(requests) \subseteq Hits(Context) -> "nothing_new"
    [] Collides(Child(requests)) -> "failed"
    [] OTHER -> "child"

-----------------------------------------------------------------------------
Keys == 1 .. MaxDirections
NoHierarchy == [directions |-> <<>>, triage |-> <<>>, expansion |-> <<>>]

\* ScientificContextBuilder for the original request.
Init ==
  /\ setup \in [trusted : SUBSET Records, budget : 0 .. CycleLimit, barrier : BOOLEAN]
  /\ contexts = <<[direct |-> Matches(Original, setup.trusted),
                   expanded |-> Expanded(Original, setup.trusted),
                   disputes |-> Disputes(Found(Original, setup.trusted)),
                   gaps |-> InterpretedGaps(1)]>>
  /\ rounds = <<>>
  /\ hier = NoHierarchy
  /\ at = "gaps"

End(how) == at' = how /\ UNCHANGED <<setup, contexts, rounds, hier>>

-----------------------------------------------------------------------------
(* An evidence round: for the blocking gaps of the input, for the needs of *)
(* the triage, or for a review that found the evidence insufficient.       *)

MustAsk ==
  /\ setup.budget > 0
  /\ Blocking # {} \/ at = "review" \/ (at = "needs" /\ RetrievalNeeds # {})
Asking == at \in {"gaps", "needs", "review"} /\ MustAsk /\ Len(rounds) < setup.budget

BudgetSpent ==
  /\ at \in {"gaps", "needs", "review"} /\ MustAsk /\ Len(rounds) >= setup.budget
  /\ End("budget_exhausted")

\* No provider is asked unless retrieval could close every blocking gap.
NotRetrievable == Asking /\ Blocking # Retrievable /\ End("not_retrievable")

Askable == Asking /\ Blocking = Retrievable

ProviderRaises == Askable /\ End("not_retrievable")

\* A request that names an unknown gap, claim, evidence, direction or
\* candidate, a gap retrieval cannot close, or a source class that is not
\* allowed raises; the attempt stays uncertain.
RejectRequests == Askable /\ End("failed")

\* An equivalent request set already ran against this snapshot.
Repeated(requests) ==
  /\ Askable
  /\ \E i \in DOMAIN rounds : rounds[i] = requests
  /\ End("repeated")

Fresh(requests) == Askable /\ \A i \in DOMAIN rounds : rounds[i] # requests

RoundBlocked(requests) ==
  /\ Fresh(requests) /\ Outcome(requests) # "child"
  /\ End(Outcome(requests))

\* The loop starts again with the child context and a fresh hierarchy.
RoundCompleted(requests) ==
  /\ Fresh(requests) /\ Outcome(requests) = "child"
  /\ contexts' = Append(contexts, Child(requests))
  /\ rounds' = Append(rounds, requests)
  /\ hier' = NoHierarchy /\ at' = "gaps"
  /\ UNCHANGED setup

Resolved ==
  /\ at \in {"gaps", "needs"} /\ ~MustAsk
  /\ End(IF at = "gaps" THEN "directions" ELSE "expansion")

-----------------------------------------------------------------------------
(* Directions, triage and expansion. *)

Direction == [claims : SUBSET Claims, conflicts : SUBSET Conflicts, gaps : SUBSET Blocking]
Dispositions == {"retain", "defer", "exclude", "human"}

Covers(directions, keys) ==
  /\ \A c \in Conflicts : \E d \in keys : c \in directions[d].conflicts
  /\ \A g \in Blocking : \E d \in keys : g \in directions[d].gaps

\* validate_research_direction_set; every reference is allow-listed here, and
\* the wording, which tells directions apart, is their key.
DirectionsValid(directions) ==
  /\ \A d \in DOMAIN directions : UNION directions[d].conflicts \subseteq directions[d].claims
  /\ Covers(directions, DOMAIN directions)

Propose(directions) ==
  /\ at = "directions" /\ DirectionsValid(directions)
  /\ hier' = [hier EXCEPT !.directions = directions] /\ at' = "triage"
  /\ UNCHANGED <<setup, contexts, rounds>>

Disposed(triage, as) == {d \in DOMAIN triage : triage[d].is \in as}

\* Faulty: a direction that was only put off still covers what it named.
TriageCoversAll(triage) == Covers(hier.directions, Disposed(triage, Dispositions \ {"exclude"}))
TriageCovers(triage) == Covers(hier.directions, Disposed(triage, {"retain", "human"}))

\* build_direction_triage_record and validate_direction_triage.
TriageValid(triage) ==
  /\ DOMAIN triage = DOMAIN hier.directions
  /\ \A d \in DOMAIN triage : \A n \in triage[d].needs :
       n.on = d /\ (n.kind = "retrieval" => Demands[n.about] # {})
  /\ Cardinality(Disposed(triage, {"retain"})) <= 4
  /\ TriageCovers(triage)

\* A human choice, or a triage that retains nothing, is the end.
Triage(triage) ==
  /\ at = "triage" /\ TriageValid(triage)
  /\ hier' = [hier EXCEPT !.triage = triage]
  /\ at' = IF Disposed(triage, {"human"}) # {} THEN "human_choice"
           ELSE IF Disposed(triage, {"retain"}) = {} THEN "nothing_retained" ELSE "needs"
  /\ UNCHANGED <<setup, contexts, rounds>>

\* One candidate for each retained direction, which keeps its claims.
ExpansionValid(expansion) ==
  /\ DOMAIN expansion = Disposed(hier.triage, {"retain"})
  /\ \A d \in DOMAIN expansion : hier.directions[d].claims \subseteq expansion[d]

Expand(expansion) ==
  /\ at = "expansion" /\ ExpansionValid(expansion)
  /\ hier' = [hier EXCEPT !.expansion = expansion] /\ at' = "planned"
  /\ UNCHANGED <<setup, contexts, rounds>>

\* The provider raises, or its answer does not validate.
RejectStage == at \in {"directions", "triage", "expansion"} /\ End("stage_blocked")

\* An INSUFFICIENT_EVIDENCE review of a plan asks for evidence.
Review == at = "planned" /\ setup.budget > 0 /\ End("review")

-----------------------------------------------------------------------------
Partial(S, T) == UNION {[U -> T] : U \in (SUBSET S) \ {{}}}
Triages == Partial(Keys, [is : Dispositions, needs : SUBSET Needs])
Answers == UNION {[1 .. n -> Requests] : n \in 1 .. MaxRequests}

Next ==
  \/ BudgetSpent \/ NotRetrievable \/ ProviderRaises \/ RejectRequests \/ Resolved
  \/ Askable /\ \E requests \in {answer \in Answers : Distinct(answer)} :
       \/ Repeated(requests)
       \/ RoundBlocked(requests)
       \/ RoundCompleted(requests)
  \/ at = "directions" /\ \E d \in Partial(Keys, Direction) : Propose(d)
  \/ at = "triage" /\ \E t \in Triages : Triage(t)
  \/ at = "expansion" /\ \E e \in Partial(Keys, SUBSET Claims) : Expand(e)
  \/ RejectStage \/ Review

Spec == Init /\ [][Next]_vars

-----------------------------------------------------------------------------
(* Properties. *)

Endings == {"planned", "budget_exhausted", "not_retrievable", "failed", "repeated",
  "source_curation", "unresolved", "nothing_new", "stage_blocked", "human_choice",
  "nothing_retained"}

\* Every file has the shape its model class declares.
TypeOK ==
  /\ setup \in [trusted : SUBSET Records, budget : 0 .. CycleLimit, barrier : BOOLEAN]
  /\ contexts \in Seq(ContextFile)
  /\ \A i \in DOMAIN contexts : Hits(contexts[i]) \subseteq setup.trusted
  /\ rounds \in Seq(Seq(RequestFile))
  /\ Len(contexts) = Len(rounds) + 1
  /\ at \in Endings \cup {"gaps", "directions", "triage", "needs", "expansion", "review"}

\* A record enters the planning context only as trusted support for a
\* condition that was asked for, or because its request came upon records
\* that contradict one another: a topical match alone never enters
\* (README.md:861-868, evidence_resolution.py:1044-1060).
EvidenceAdmitted ==
  \A i \in DOMAIN rounds :
    \A r \in Hits(contexts[i + 1]) \ Hits(contexts[i]) :
      \E j \in DOMAIN rounds[i] : LET about == rounds[i][j].about IN
        \/ r \in setup.trusted /\ States[r] \cap Demands[about] # {}
        \/ r \in setup.trusted /\ Disputes(Found(about, setup.trusted)) # {}

\* A blocking gap that a request named is only gone when the records of the
\* child context state every condition of that request (README.md:861-863).
ClosedIsProved ==
  \A i \in DOMAIN rounds : \A j \in DOMAIN rounds[i] :
    LET p == rounds[i][j] IN
    p.gap # NoGap /\ p.gap \notin contexts[i + 1].gaps =>
      Demands[p.about] \subseteq UNION {States[r] : r \in Hits(contexts[i + 1])}

\* A hierarchical plan keeps what its input demanded, through three provider
\* answers: the claims of each unresolved conflict stand in one candidate, each
\* blocking gap is named by an expanded direction, and a run that resolves
\* evidence plans with no blocking gap and no open retrieval need.
ObligationsKept ==
  at = "planned" =>
    /\ \A c \in Conflicts : \E d \in DOMAIN hier.expansion : c \subseteq hier.expansion[d]
    /\ \A g \in Blocking : \E d \in DOMAIN hier.expansion : g \in hier.directions[d].gaps
    /\ setup.budget > 0 => Blocking = {} /\ RetrievalNeeds = {}

\* Blocking evidence gaps must be addressed or propagated (README.md:60).
GapsPropagated ==
  \A i \in DOMAIN rounds : \A g \in contexts[i].gaps :
    g.blocking =>
      \/ \E h \in contexts[i + 1].gaps : h.blocking /\ h.about = g.about
      \/ \E j \in DOMAIN rounds[i] : rounds[i][j].gap = g

\* Conflicting records remain explicit (README.md:868).
DisputesRemain ==
  \A i \in DOMAIN rounds : Disputes(Hits(contexts[i + 1])) \subseteq contexts[i + 1].disputes

\* A completed round brought evidence the context did not have.
EveryRoundLearns ==
  \A i \in DOMAIN rounds : Hits(contexts[i + 1]) # Hits(contexts[i])
=============================================================================
