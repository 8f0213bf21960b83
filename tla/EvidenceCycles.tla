--------------------------- MODULE EvidenceCycles ---------------------------
(***************************************************************************)
(* The planning-evidence cycles of one scientific run: what                *)
(* ScientificProblemWorkflow._maybe_resolve_planning_evidence leaves under *)
(* planning-evidence/.  Cycle i is the directory cycle-i; its files are    *)
(* written one after the other, and a process may be interrupted between   *)
(* any two of them:                                                        *)
(*                                                                         *)
(*   request-attempt.yaml   the claim, written before the provider call    *)
(*   request-set.yaml       what the provider asked for                    *)
(*   resolutions.yaml       what the trusted store answered                *)
(*   cycle.yaml             the record: terminal, or bound to a child      *)
(*                          context                                        *)
(*                                                                         *)
(* A knowledge snapshot is a number: snapshot ids are content hashes, and  *)
(* curation chains and stores only grow, so a snapshot is never seen again *)
(* once it changed.                                                        *)
(***************************************************************************)
EXTENDS Naturals, Sequences, FiniteSetsExt

CONSTANTS
  CycleLimit,   \* largest --max-evidence-resolution-cycles accepted
  Requests,     \* the request sets a provider may return, by content
  Nothing,      \* the empty request set
  Reviews,      \* the approval reviews that may trigger a cycle
  NoReview      \* no review archived

ASSUME LimitAssumption == CycleLimit \in Nat
ASSUME RequestAssumption == Nothing \notin Requests

VARIABLES
  policy,    \* policy.yaml: the persisted max_cycles, 0 when there is none
  cycles,    \* the claimed cycle directories, in order
  archive,   \* cycle-k/trigger: the review archived there
  work       \* the resolver's local state, lost when its process dies

evidenceVars == <<policy, cycles, archive, work>>

Triggers == {"gap", "review", "directions"}
Unasked == "unasked"
\* The four ways a cycle is classified; "unresolved" covers no trusted match,
\* a match that does not resolve the gap, and nothing new.
Outcomes == {"nonretrieval", "curation", "unresolved", "new"}
Steps == {"off", "claimed", "asked", "requested", "resolved", "blocked", "child", "failed"}
Reasons == Outcomes \cup {"none", "TERMINATED", "REQUEST_UNCERTAIN",
  "RETRIEVAL_UNCERTAIN", "BUDGET_EXHAUSTED", "PROVIDER_UNAVAILABLE",
  "EQUIVALENT_REPEATED"}

Off == [step |-> "off", request |-> Nothing, why |-> "none"]

Cycle == [snap : Nat, trigger : Triggers, calls : 0 .. 1,
          saved : BOOLEAN, request : Requests \cup {Nothing},
          outcome : Outcomes \cup {Unasked},
          record : {"none", "terminal", "child"}]

CyclesInit ==
  /\ policy = 0
  /\ cycles = <<>>
  /\ archive = [k \in 1 .. CycleLimit + 1 |-> NoReview]
  /\ work = Off

-----------------------------------------------------------------------------
(* What the stored files say. *)

Completed == {i \in DOMAIN cycles : cycles[i].record # "none"}
LatestCompleted == IF Completed = {} THEN 0 ELSE Max(Completed)

\* The namespace of the artifacts that depend on the context: the base one,
\* or the one of the last completed cycle when it has a child context.
Namespace ==
  IF LatestCompleted # 0 /\ cycles[LatestCompleted].record = "child"
  THEN LatestCompleted ELSE 0

\* Faulty: a resumed call forgets the child context.
ChildForgotten(s) == 0

\* The cycle whose child context replaces the one built for snapshot s.
ChildFor(s) ==
  IF Namespace # 0 /\ cycles[Namespace].snap = s THEN Namespace ELSE 0

\* Faulty: a terminal record does not stop the next call.
TerminatedIgnored(s) == FALSE

Terminated(s) ==
  /\ LatestCompleted # 0
  /\ cycles[LatestCompleted].record = "terminal"
  /\ cycles[LatestCompleted].snap = s

Last == cycles[Len(cycles)]
\* Faulty: a claim interrupted before its call is taken for free.
RequestUncertainAfterCall == cycles # <<>> /\ ~Last.saved /\ Last.calls # 0

RequestUncertain == cycles # <<>> /\ ~Last.saved
\* Faulty: a retrieval that was interrupted does not stop the next cycle.
RetrievalIgnored == FALSE

RetrievalUncertain == cycles # <<>> /\ Last.saved /\ Last.outcome = Unasked

Exhausted == Len(cycles) + 1 > policy

\* Faulty: only the terminal cycles are compared.
EquivalentToTerminal(request) ==
  \E i \in Completed : /\ cycles[i].snap = Last.snap
                       /\ cycles[i].record = "terminal"
                       /\ cycles[i].request = request

\* The check against the completed cycles; cycle Len(cycles) is the one in
\* progress.
Equivalent(request) ==
  \E i \in Completed : /\ cycles[i].snap = Last.snap
                       /\ cycles[i].request = request

-----------------------------------------------------------------------------
(* The operations, in the order the resolver runs them. *)

\* A call that asks for another budget than the persisted one is refused
\* before it does anything.
EnsurePolicy(n) ==
  /\ policy # 0 => n \in {0, policy}
  /\ policy' = IF policy = 0 THEN n ELSE policy
  /\ UNCHANGED <<cycles, archive, work>>

\* Faulty: an archived review is overwritten.
ArchiveConflictIgnored(review) == FALSE

\* The trigger of the cycle about to be claimed is archived first; a
\* different review in the same place is refused (FileExistsError).
ArchiveConflict(review) == archive[Len(cycles) + 1] \notin {NoReview, review}

\* Faulty: the review goes to the newest cycle instead of the next one.
ArchiveBehind(review) ==
  /\ ~ArchiveConflict(review)
  /\ archive' = [archive EXCEPT ![Len(cycles)] = review]
  /\ UNCHANGED <<policy, cycles, work>>

Archive(review) ==
  /\ ~ArchiveConflict(review)
  /\ archive' = [archive EXCEPT ![Len(cycles) + 1] = review]
  /\ UNCHANGED <<policy, cycles, work>>

Blocked(why) == work' = [Off EXCEPT !.step = "blocked", !.why = why]

Refuse(s) ==
  /\ work.step = "off" /\ policy # 0
  /\ \/ Terminated(s) /\ Blocked("TERMINATED")
     \/ ~Terminated(s) /\ RequestUncertain /\ Blocked("REQUEST_UNCERTAIN")
     \/ ~Terminated(s) /\ RetrievalUncertain /\ Blocked("RETRIEVAL_UNCERTAIN")
     \/ /\ ~Terminated(s) /\ ~RequestUncertain /\ ~RetrievalUncertain
        /\ Exhausted
        /\ Blocked("BUDGET_EXHAUSTED")
  /\ UNCHANGED <<policy, cycles, archive>>

Claim(s, trigger) ==
  /\ work.step = "off" /\ policy # 0
  /\ ~Terminated(s) /\ ~RequestUncertain /\ ~RetrievalUncertain /\ ~Exhausted
  /\ cycles' = Append(cycles,
       [snap |-> s, trigger |-> trigger, calls |-> 0, saved |-> FALSE,
        request |-> Nothing, outcome |-> Unasked, record |-> "none"])
  /\ work' = [Off EXCEPT !.step = "claimed"]
  /\ UNCHANGED <<policy, archive>>

\* Faulty: the answer is asked for again under the same claim.
AskAgain(request) ==
  /\ work.step \in {"claimed", "asked"}
  /\ work' = [work EXCEPT !.step = "asked", !.request = request]
  /\ \/ cycles' = [cycles EXCEPT ![Len(cycles)].calls = @ + 1]
     \/ request = Nothing /\ Last.trigger = "gap" /\ UNCHANGED cycles
  /\ UNCHANGED <<policy, archive>>

\* The provider answers with a request set, or refuses; it is not called at
\* all when a gap of the planning input is not retrieval-resolvable.
Ask(request) ==
  /\ work.step = "claimed"
  /\ work' = [work EXCEPT !.step = "asked", !.request = request]
  /\ \/ cycles' = [cycles EXCEPT ![Len(cycles)].calls = @ + 1]
     \/ request = Nothing /\ Last.trigger = "gap" /\ UNCHANGED cycles
  /\ UNCHANGED <<policy, archive>>

ProviderUnavailable ==
  /\ work.step = "claimed"
  /\ Blocked("PROVIDER_UNAVAILABLE")
  /\ UNCHANGED <<policy, cycles, archive>>

RepeatRefused ==
  /\ work.step = "asked" /\ Equivalent(work.request)
  /\ Blocked("EQUIVALENT_REPEATED")
  /\ UNCHANGED <<policy, cycles, archive>>

SaveRequests ==
  /\ work.step = "asked" /\ ~Equivalent(work.request)
  /\ cycles' = [cycles EXCEPT ![Len(cycles)].saved = TRUE,
                              ![Len(cycles)].request = work.request]
  /\ work' = [work EXCEPT !.step = "requested"]
  /\ UNCHANGED <<policy, archive>>

\* An empty request set is classified as not retrieval-resolvable.
Resolve(outcome) ==
  /\ work.step = "requested"
  /\ work.request = Nothing => outcome = "nonretrieval"
  /\ cycles' = [cycles EXCEPT ![Len(cycles)].outcome = outcome]
  /\ work' = [work EXCEPT !.step = "resolved"]
  /\ UNCHANGED <<policy, archive>>

CloseTerminal ==
  /\ work.step = "resolved" /\ Last.outcome # "new"
  /\ cycles' = [cycles EXCEPT ![Len(cycles)].record = "terminal"]
  /\ Blocked(Last.outcome)
  /\ UNCHANGED <<policy, archive>>

CloseWithChild ==
  /\ work.step = "resolved" /\ Last.outcome = "new"
  /\ cycles' = [cycles EXCEPT ![Len(cycles)].record = "child"]
  /\ work' = [Off EXCEPT !.step = "child"]
  /\ UNCHANGED <<policy, archive>>

\* Building the request set, the retrieval or the child context raises: the
\* cycle stays as far as it was written.
Fail ==
  /\ work.step \in {"asked", "requested", "resolved"}
  /\ work' = [Off EXCEPT !.step = "failed"]
  /\ UNCHANGED <<policy, cycles, archive>>

\* Faulty: an exception of the resolver is not passed on.
FinishNormally ==
  /\ work.step \in {"blocked", "child"}
  /\ work' = Off
  /\ UNCHANGED <<policy, cycles, archive>>

\* The caller takes the verdict.
Finish == /\ work.step \in {"blocked", "child", "failed"}
          /\ work' = Off
          /\ UNCHANGED <<policy, cycles, archive>>

Resolving ==
  \/ \E request \in Requests \cup {Nothing} : Ask(request)
  \/ ProviderUnavailable
  \/ RepeatRefused
  \/ SaveRequests
  \/ \E outcome \in Outcomes : Resolve(outcome)
  \/ CloseTerminal
  \/ CloseWithChild
  \/ Fail
=============================================================================
