------------------------- MODULE EvidenceResolution -------------------------
(***************************************************************************)
(* What the planning-evidence resolver promises to the run it serves, for  *)
(* every order of calls, interruptions and knowledge changes.  The caller  *)
(* is reduced to what the resolver sees of it: the snapshot its context    *)
(* was built on, and whether it asks because of a planning gap or because  *)
(* of a review.  ScientificRun implements this specification.              *)
(***************************************************************************)
EXTENDS EvidenceCycles

CONSTANT
  MaxSnapshot  \* bound on knowledge changes

ASSUME SnapshotAssumption == MaxSnapshot \in Nat \ {0}

VARIABLES
  snap,  \* the current knowledge snapshot
  at,    \* the snapshot of the run's context, 0 before there is one
  open   \* what the caller wants resolved: "no", "gap" or "review"

vars == <<evidenceVars, snap, at, open>>

Init == CyclesInit /\ snap = 1 /\ at = 0 /\ open = "no"

-----------------------------------------------------------------------------
Configure(n) ==
  /\ open = "no"
  /\ EnsurePolicy(n)
  /\ UNCHANGED <<snap, at, open>>

BuildContext ==
  /\ open = "no"
  /\ at' = snap
  /\ UNCHANGED <<evidenceVars, snap, open>>

GapFound ==
  /\ open = "no" /\ at # 0
  /\ open' = "gap"
  /\ UNCHANGED <<evidenceVars, snap, at>>

ReviewFound(review) ==
  /\ open = "no" /\ at # 0 /\ policy # 0
  /\ Archive(review)
  /\ open' = "review"
  /\ UNCHANGED <<snap, at>>

Decide ==
  /\ open # "no"
  /\ Refuse(at) \/ Claim(at, open)
  /\ UNCHANGED <<snap, at, open>>

Answer ==
  /\ Resolving
  /\ UNCHANGED <<snap, at, open>>

\* After a child context the planning loop looks for gaps again; after a
\* review-driven one the caller starts over.
Take ==
  /\ Finish
  /\ open' = IF work.step = "child" /\ open = "gap" THEN "gap" ELSE "no"
  /\ UNCHANGED <<snap, at>>

Leave ==
  /\ open = "gap" /\ work.step = "off"
  /\ open' = "no"
  /\ UNCHANGED <<evidenceVars, snap, at>>

KnowledgeChanges ==
  /\ snap < MaxSnapshot
  /\ snap' = snap + 1
  /\ UNCHANGED <<evidenceVars, at, open>>

Die ==
  /\ open # "no"
  /\ open' = "no" /\ work' = Off
  /\ UNCHANGED <<policy, cycles, archive, snap, at>>

Serve == Decide \/ Answer \/ Take \/ Leave

Next ==
  \/ \E n \in 0 .. CycleLimit : Configure(n)
  \/ BuildContext
  \/ GapFound
  \/ \E review \in Reviews \ {NoReview} : ReviewFound(review)
  \/ Serve
  \/ KnowledgeChanges
  \/ Die

Spec == Init /\ [][Next]_vars

\* The process that resolves keeps running unless it is interrupted.
FairSpec == Spec /\ WF_vars(Serve)

-----------------------------------------------------------------------------
(* The cycles as a ledger of claimed provider calls. *)

LedgerState(c) ==
  IF c.outcome # Unasked THEN "settled"
  ELSE IF c.calls = 1 THEN "called" ELSE "claimed"
Ledger == [i \in DOMAIN cycles |-> LedgerState(cycles[i])]

Calls == INSTANCE ClaimedCalls WITH ledger <- Ledger, Limit <- CycleLimit

-----------------------------------------------------------------------------
(* Properties. *)

WorkStates ==
  [step : Steps, request : Requests \cup {Nothing}, why : Reasons]

TypeOK ==
  /\ policy \in 0 .. CycleLimit
  /\ cycles \in Seq(Cycle)
  /\ archive \in [1 .. CycleLimit + 1 -> Reviews \cup {NoReview}]
  /\ work \in WorkStates
  /\ snap \in 1 .. MaxSnapshot
  /\ at \in 0 .. snap
  /\ open \in Triggers \cup {"no"}

\* An evidence-request call whose outcome is unknown is never followed by
\* another one: only the newest cycle can lack its request set or its
\* resolutions (EVIDENCE_REQUEST_OUTCOME_UNCERTAIN and
\* EVIDENCE_RETRIEVAL_OUTCOME_UNCERTAIN, service.py:1988-2009).
UncertainIsTerminal ==
  \A i \in DOMAIN cycles :
    i < Len(cycles) => cycles[i].saved /\ cycles[i].outcome # Unasked

\* The evidence-request attempts implement the rule of claimed calls: no
\* provider call without its claim, none twice, none after an uncertain one
\* (request-attempt.yaml is written exclusively first, service.py:2089-2141).
AtMostOnce == Calls!Spec

\* The persisted budget bounds the claims, hence the provider calls, of all
\* the resumes of a run taken together (service.py:2010-2015).
WithinBudget == Len(cycles) <= policy

\* A terminal cycle ends resolution for its snapshot: what follows was
\* claimed after the trusted knowledge changed (service.py:1965-1977).
TerminalStops ==
  \A i, j \in DOMAIN cycles :
    i < j /\ cycles[i].record = "terminal" => cycles[j].snap > cycles[i].snap

\* No two completed cycles ran the same request against the same snapshot
\* (EQUIVALENT_EVIDENCE_REQUEST_REPEATED, service.py:2206-2220).
CompletedDistinct ==
  \A i, j \in Completed :
    i < j /\ cycles[i].snap = cycles[j].snap
      => cycles[i].request # cycles[j].request

\* A review-driven cycle has its review in its own archive, whichever
\* earlier calls archived a review and were interrupted or refused
\* (_archive_evidence_trigger_artifacts, service.py:1660-1836).
TriggerArchived ==
  \A i \in DOMAIN cycles : cycles[i].trigger = "review" => archive[i] # NoReview

\* Files are written once: the budget, an archived review, and every field
\* of a cycle keep the value they got, whatever resumes follow.
FilesKept ==
  /\ policy # 0 => policy' = policy
  /\ \A k \in DOMAIN archive : archive[k] # NoReview => archive'[k] = archive[k]
  /\ Len(cycles) <= Len(cycles')
  /\ \A i \in DOMAIN cycles :
       LET old == cycles[i] new == cycles'[i] IN
       /\ new.snap = old.snap /\ new.trigger = old.trigger
       /\ old.saved => new.saved /\ new.request = old.request
       /\ old.outcome # Unasked => new.outcome = old.outcome
       /\ old.record # "none" => new = old
FilesImmutable == [][FilesKept]_vars

-----------------------------------------------------------------------------
(* The inductive invariant: the properties above, and what relates the     *)
(* files of the newest cycle, the resolver's progress and the caller.      *)

\* A cycle is recorded after it was resolved, and resolved after its request
\* set was saved; snapshots only grow.
CyclesOrdered ==
  /\ \A i \in DOMAIN cycles :
       /\ cycles[i].outcome # Unasked => cycles[i].saved
       /\ cycles[i].record # "none" => cycles[i].outcome # Unasked
       /\ cycles[i].snap <= at
  /\ \A i, j \in DOMAIN cycles : i < j => cycles[i].snap <= cycles[j].snap

\* The resolver works for an open caller, on the newest cycle, which has
\* exactly the files its progress says.
InProgress ==
  /\ work.step # "off" => open # "no"
  /\ work.step \in {"claimed", "asked", "requested", "resolved"} =>
       /\ cycles # <<>> /\ Last.record = "none" /\ Last.snap = at
       /\ Last.saved <=> work.step \in {"requested", "resolved"}
       /\ Last.outcome = Unasked <=> work.step # "resolved"
       /\ work.step = "claimed" => Last.calls = 0
       /\ Last.saved => ~Equivalent(Last.request)

\* The review that opened the resolver is in the next cycle's archive until
\* that cycle is claimed.
ReviewReady ==
  open = "review" /\ work.step = "off" => archive[Len(cycles) + 1] # NoReview

IInv ==
  /\ TypeOK /\ CyclesOrdered /\ InProgress /\ ReviewReady
  /\ UncertainIsTerminal /\ WithinBudget /\ TerminalStops
  /\ CompletedDistinct /\ TriggerArchived

-----------------------------------------------------------------------------
\* Every resolution ends: in a verdict, or because no gap is left.
ResolutionEnds == open # "no" ~> open = "no"

\* What the project says of repeated requests (src/README.md:889-891): the
\* same request is not run again on an unchanged snapshot, whatever was
\* recorded of the earlier run.
NoEquivalentRepeat ==
  \A i, j \in DOMAIN cycles :
    i < j /\ cycles[i].outcome \notin {Unasked, "nonretrieval"}
          /\ cycles[j].outcome \notin {Unasked, "nonretrieval"}
          /\ cycles[i].snap = cycles[j].snap
      => cycles[i].request # cycles[j].request
=============================================================================
