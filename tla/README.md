# Formal models of the Scientific Problem Compiler

This directory holds TLA+ models of `src/spc`: what they cover, how they
correspond to the code, what TLC checks on small instances and what TLAPS
proves for every instance. Line numbers refer to the files under
`src/src/spc/`; `service.py` without a directory is `workflow/service.py`.

## The system

SPC turns a scientific request into an independently approved, exportable plan.
Everything it decides is kept in files under a state directory, and every
command may be interrupted and resumed, so correctness is about what the files
say after any sequence of calls, interruptions and knowledge changes.

| Component | State it keeps | Operations | What makes it correct | Modelled in |
|---|---|---|---|---|
| Scientific run (`workflow/service.py`) | `run.json`, mutable projections, `approval/` | `start`, `resume`, `export_downstream` | an APPROVED run carries a review of exactly its plan; a chain is only appended to, keeps what was recorded when it ends, and is never taken up again once left; every call returns | `ScientificRun` (partly) |
| Plan revision (`service.py`, `planning/revision.py`) | `plan-revisions/revision-chain.yaml`, immutable rounds, attempt start and outcome files | the revision loop of a call | attempts are paid once and counted over all namespaces; what a reviewer left open is passed on | `ScientificRun`, `PlanReview` |
| Evidence resolution (`service.py`, `planning/evidence_resolution.py`) | `planning-evidence/policy.yaml`, `cycle-N/*`, trigger archives | `_maybe_resolve_planning_evidence` | a request call is claimed first and never repeated; the budget holds over all resumes; only support enters the context | `EvidenceCycles`, `EvidenceResolution`, `PlanningEvidence` |
| Hierarchical planning (`planning/hierarchical.py`) | stage attempts, directions, triage, expansion | three claimed provider stages | stages are paid once and reused; a human choice stops the run; conflicts and gaps survive all stages | `HierarchicalPlanning`, `PlanningEvidence` |
| Plan compilation and validation (`compiler.py`, `planning/*`, `validators.py`) | the plan and its validation record | `compile_proposal`, `revise`, `validate_*` | the record says what today's checks say; the graph check is exact | `PlanContract`, `PlanReview` (partly) |
| Independent approval (`approval/`) | review, verdict, receipt and gate of a plan | `review`, the policy | a verdict binds one plan version and follows the policy | `PlanReview`, `ScientificRun` |
| Export (`export.py`) | export packages | `export` | a package only for a sound plan whose evidence the same call verified on disk | `PlanReview`, `RunStore` |
| Run repository (`workflow/repository.py`) | run directory, history, `.resume.lock` | `save`, immutable / exclusive / mutable writes, the lock | `run.json` never ahead of its history, and, under the lock, immutables never rewritten and no lost update of a resume | `RunStore` |
| Result intake (`result_feedback/`) | submissions, assessments, curations, receipts | `intake`, `curate` | a receipt only for an accepted, admissible result | `ResultIntake` |
| Successor planning (`result_feedback/`) | invocation, call claims, proposal, selection, approval, cycle | `compile`, status report | one planner call per invocation, claims only for results accepted now, lineage through approved cycles | `SuccessorPlanning` |
| Knowledge trust (`knowledge/trust.py`, `k1f_authority.py`, `repositories.py`) | write-once records, curation chains | curate, trusted view | only accepted, current records are trusted | `KnowledgeTrust` (partly) |
| Structures and representations (`knowledge/structure*.py`) | structure and representation selections | extract, promote, select | automatic promotion never goes back | `KnowledgeTrust` (partly) |
| Literature compiler (`knowledge/literature_knowledge/`) | evidence, claims, compilation records | `materialize` | a trusted quote belongs to the selected structure | `KnowledgeTrust` (partly) |
| Acquisition and collections (`knowledge/acquisition.py`, `collection.py`, `ingestion.py`) | snapshots, acquisitions, ingestions, import records | discover, add, ingest, import | complete means nothing was left out; what is called ingested is whole | `LiteratureImport` (partly) |
| Retrieval and context (`retrieval/`), interpretation (`interpretation/`) | none | deterministic functions of records | | as far as `PlanningEvidence` needs them |
| Providers, downstream proposals, graph view, backends, command line | none, or packages | | | not modelled, see the end |

The run workflow calls all the others. It reads the knowledge store at the
start of every call (a *snapshot*), calls the evidence resolver from its
planning loop and after a review, and shares with it the *namespace*: a
completed cycle with a child context moves all later plan and approval files
to `evidence-replan-N/`. The hard behaviour is there: several files that must
agree, written one after another, read back by calls that may have other
options and other knowledge, around external model calls whose outcome can be
unknown.

## Modules

**`ClaimedCalls`** – the rule for every paid provider call, as an abstract
ledger: a claim before the call, one call for a claim, no new claim on top of
one that was never settled. The evidence requests, the revision attempts and
the planning and approval calls of successor cycles implement it.

**`EvidenceCycles`** – the files of `planning-evidence/` and the steps of
`_maybe_resolve_planning_evidence` (service.py:1941-2519), without a
next-state relation of its own: it is composed into the two modules below.
`cycles` are the claimed directories (what was asked, answered and recorded in
each), `policy` is `policy.yaml`, `archive` the trigger archives, `work` the
local state of the resolver. One action per write: `Refuse` and `Claim` are
the checks and the exclusive write of `request-attempt.yaml`, `Ask` the
provider call, `SaveRequests`, `Resolve`, `CloseTerminal` and `CloseWithChild`
the three later files.

**`EvidenceResolution`** – the resolver with the caller reduced to what it
sees of it: the snapshot of the context and why it asks. This is the contract
of the resolver and the module of the proofs.

**`ScientificRun`** – one run under `start`, `resume` and `export_downstream`
(service.py:656-717, 774-1461, 2876-3316, 3530-3607), composed with
`EvidenceCycles`. Each action ends where the code writes a file, in the order
of the code, so `Crash` between two actions is an interruption between two
writes. A context is named by its snapshot and the evidence cycle it is the
child of; a plan by its context, round and planner answer; a review by the
plan it read and its verdict.

| Model | Code |
|---|---|
| `run`, `chain`, `attempts` | `run.json`, `revision-chain.yaml`, attempt start/outcome files of all namespaces |
| `planFile`, `reviewFile` | immutable plan and approval files under a namespace and round |
| `plain` | the mutable `planning-proposal.yaml` and `approval/` of runs without revision |
| `call` | the locals of the call that holds `.resume.lock`; `prev` is the run it was given, `chained` whether it uses the chain |
| `Enter` | the checks of `_advance` up to service.py:825 |
| `CurationPending` .. `Interpret` | service.py:826-959 |
| `ResolveGap`, `ResolveReview`, `Evidence*` | service.py:961-1018 and 1378-1460 |
| `PlanFromChain` .. `AwaitApproval` | service.py:1019-1282 |
| `ReturnUnapproved` .. `RecordRound` | service.py:1283-1359, 1463-1596, 2756-2849, 3340-3483 |
| `RejectTrigger` | the authority check at the start of every turn, service.py:2948-2969 |
| `LeaveCycle` .. `SaveRevised` | the rest of `_run_revision_cycle`, service.py:2876-3316 |
| `Block`, `SaveBlocked` | `_revision_block`, service.py:2851-2874 |
| `Export` | `export_downstream`, service.py:3530-3607 |

Abstractions, all over-approximations: whether curation is pending, whether a
stage raises, whether a planning input has changed, whether a stored
compilation still validates, whether the report on a reviewed plan comes out
otherwise today (which undoes the reuse of its approval, `ReportsChange`, and
ends its chain), what a planner, approver or retrieval answers are
nondeterministic. `RejectTrigger` may follow `Reconcile` in the same turn of
the loop, where the code would make another turn of it first. A proposal has one candidate. Files are not tampered with:
the re-validation of hashes in `_validate_revision_chain_integrity` never
fails and is left out; what the same checks say of the contents of a review is
`PlanReview`'s. A branch of the
resolver that continues a directory with a request set but no attempt file
(service.py:2027-2072) is unreachable, since the exclusive attempt file is
always first, and is left out.

**`ResultIntake`** – the files of `result-evidence/` and the steps of
`ResultEvidenceIntakeService` that write them, without a next-state relation
of its own. Line numbers of this and the next module are those of
`result_feedback/service.py`. `submission`, `assessment` and `receipt` are
files at one fixed path each and are written once; `curations` is the set of
records of a submission, each naming the one it supersedes; `task` is the call
that holds the lock between two writes. Which check blocks a result, and what
evidence it yields, is data: an assessment is nondeterministic, but only an
approved parent plan lets a result be admissible.

| Model | Code |
|---|---|
| `Submit`, `Assess` | `intake`, 936-1102 |
| `Decision`, `Curate` | `curate` with `_current_curation` and `_curation_record`, 1138-1270 |
| `Store`, `WriteReceipt` | `_materialize`, 1272-1523: evidence and facts, then the receipt |
| `Abandon` | an exception or interruption in any of them |

**`SuccessorPlanning`** – `SuccessorPlanningService.compile` (2630-3389) and
the status report, composed with `ResultIntake` under the run lock that both
take. `cycles` are the directories `successor-planning/cycle-N`, `call` the
locals of the compile call in progress, `base` whether the run still holds the
approved plan it started from: resuming a run without a revision chain can
replace it. A submission names the plan it is about, the base plan or a
candidate of some cycle, so approved successors become parents of new results.

| Model | Code |
|---|---|
| `Compilable`, `Usable` | the checks of every call before anything is written, 2640-2699 |
| `ApprovedCycles`, `ApprovedPlan` | `_load_parent` and `_successor_parent_candidates`, 329-752, with their recursion over the lineage |
| `Reserve`, `Resume` | directory scan, reuse of a finished cycle, `invocation.yaml`, 2717-2880 |
| `WriteUpdate`, `LoadCore`, `WriteCore`, `CloseWithoutPlan` | binding, update, context, packet and planning input, 2881-3070 |
| `LoadPlanning` .. `WritePlan` | the planning stage, 3072-3180, with `_load_complete_planning_stage` |
| `LoadSelection`, `AwaitSelection`, `Select` | 3181-3292 |
| `LoadApproval` .. `Close` | the approval stage, 3302-3388, with `_rebuild_complete_approval_cycle` |
| `Report` | `result_feedback_status`, 3498-3519 |

`Abort` ends a call between any two steps: an exception, or an interruption
after which the lock was released. Binding and update are one step, context,
packet and input another, plan, compilation receipt and validation record of
one candidate a third: an interruption inside leaves the same as one before,
since resume asks only whether the last file of the group is there. The
planner's identity is part of the invocation in the code and constant here;
another planner is another `followUp`.

**`HierarchicalPlanning`** – the planning loop of `_advance` with the three
hierarchical stages and their files, composed with `EvidenceCycles`. `hier` is,
for each root (`hierarchical-planning/` or `evidence-hierarchy-k/`), the stages
in the order they started, each with the context it was claimed for, its call
and its saved output. A call brings its own `--planning-strategy` and cycle
budget, and another call may bring others. Line numbers of `service.py`.

| Model | Code |
|---|---|
| `Begin`, `FailStage` | start of a call up to the planning input, 774-825 and 1107-1108 |
| `Resolve`, `Evidence*`, `Resolved` | the evidence loop, 961-1018 and 1069-1092 |
| `Reuse`, `Uncertain`, `ClaimStage`, `AskStage`, `SaveStage`, `RejectStage` | each stage of `_hierarchical_direction_triage` and `_hierarchical_expansion`, 2520-2755 |
| `Verdict` | the human boundary, 2632-2644 |
| `ChooseStrategy`, `CompileExpansion`, `PlanMade` | 1037-1068, 1203-1218 and 2646-2715 |

**`PlanningEvidence`** – the same loop without files and interruptions, with its
contents: which records a request finds, what they prove, what enters the
child context, which gaps are carried over, and what directions, triage and
expansion may drop. A *question* stands for the whole wording of a gap, a need
or a request; `Finds` says what a lexical search for it matches, `Demands`
which comparison conditions it declares, `States` which conditions a record
satisfies in words. Any subset of the library may be trusted; the rest waits
for curation. Every answer of the provider that validates is possible.

| Model | Code |
|---|---|
| `Matches` .. `RelationRefs` | `PersistentKnowledgeRetriever`, retrieval/knowledge_retriever.py |
| `Requests`, `Distinct`, `RejectRequests` | planning/evidence_resolution.py:145-492 |
| `Supporting` .. `Status` | `resolve_planning_evidence_requests`, 663-1010 |
| `Admitted`, `AdmittedDisputes`, `Child`, `Collides` | `augment_scientific_context`, 1044-1225 |
| `CarriedGaps` | `_carry_unresolved_evidence_gaps`, service.py:235-282 |
| `BudgetSpent` .. `RoundCompleted` | `_maybe_resolve_planning_evidence`, service.py:1963-2519 |
| `Propose`, `Triage`, `Expand` with `*Valid` | planning/hierarchical.py:124-779 |

**`PlanContract`** – the deterministic checks around a plan as operators: the
rules of a proposal (`ProposalIssues`, planning/validators.py), the report on a
materialized plan with Kahn's algorithm (`HasCycle`, validators.py:173-201, and
its definition `Acyclic`), the rules of a revision (`RevisionAccepted`,
planning/revision.py), the approval policy (`Policy`, approval/policy.py) and
the exportable state of a verdict (`ApprovalStateValid`, validators.py:705-853).

**`PlanReview`** – a plan on its way through these checks: `Compile`, `Select`,
`Review`, `Revision`, `Settle`, `Export`. Planner and reviewer answer anything
of the instance's small sets; `Damage` and `ReleasePack` change the evidence
files and the domain pack at any time, `Resume` repeats a failed step. An
export takes no lock: several run side by side, each step of one may be
followed by anything else, and `leaving` holds what each call has read and
seen. Evidence is verified one piece after the other; the package is staged,
moved into place, and the run as it was *read* is saved as EXPORTED, whatever
became of it since. `open`
is a history variable: every blocking issue ever raised and never assessed as
settled. Calls, files and interruptions of the same loop are `ScientificRun`'s,
as is the resumption of a run whose round was revised.

| Model | Code |
|---|---|
| `Compile` | `ScientificProblemCompiler.compile_proposal`, compiler.py:54-103, and the planning gate of service.py:1054-1104 |
| `Review`, `ReviewAgain`, `Answer` | `_approve`, service.py:3340-3483, and `IndependentApprovalService.review` |
| `TriggerValid`, `Settle`, `Revise` | `_run_revision_cycle`, service.py:2942-3190 |
| `BeginExport`, `LoadExport`, `SaveExported` | `export_downstream`, service.py:3531-3607, with the tests of destination and pack, export.py:77-108 |
| `Exportable`, `PackageVerified` | what the loaded files alone decide, export.py:89-135, validators.py:997-1335 |
| `VerifyEvidence`, `StageExport`, `MoveExport`, `DropExport` | evidence on disk (export.py:109-117), staging and its verification (136-155), `os.replace` (156), a refusal or failure |

**`RunStore`** – the files of one run and two processes that call `start`,
`resume` and `export_downstream` side by side. Looking whether a file exists,
opening it (which empties it), filling it and replacing `run.json` are steps of
their own; what is written goes out in one system call. `made` are the contents ever given to `run.json`, with
what each was made from; `history`, `artifact` and `claims` the files beside
it, which a kill can leave half written. `RemoveLock` is the person who removes
a lock directory, of a killed process or of a live one.

| Model | Code |
|---|---|
| `Start`, `Resume`, `Export`, `Read` | service.py:656-717 and 3530-3607 |
| `Lock`, `Leave`, `Refused` | `acquire_run_lock`, workflow/repository.py |
| `CompareHistory`, `LookAgain` | `save`: the two looks at the history file, repository.py:48 and 51 |
| `OpenHistory`, `EndHistory`, `ReplaceRun` | `save`: history written in place (52), then `run.json` by replacement (54-63) |
| `CompareArtifact`, `OpenArtifact`, `EndArtifact`, `BindArtifact` | `write_immutable_artifact`: the look (94), `dump_yaml` in place (99), the binding, made without reading the file again (100) |
| `CountClaims`, `Claim` | attempt index, then exclusive creation |

**`KnowledgeTrust`** – the store of one accepted document: selections of its
representation, structures and promotions of each representation, the records
the literature compiler extracts, and what curators decide on them. The
repositories take no lock and a record's id is the hash of its contents, the
id of its predecessor included, so a history is a set of decision paths and
putting a record twice is putting it once. A call reads first and puts later;
other calls come in between.

| Model | Code |
|---|---|
| `Curate`, `PutCuration`, `CurationsResolve` | knowledge/trust.py, `CURATION_TRANSITIONS` and `resolve_current_curations` |
| `SelectRepresentation`, `Extract`, `SelectStructure`, `Promotable` | knowledge/structure_selection.py, structure.py |
| `Compile`, `Ground`, `PutClaim`, `EnsureCuration`, `PutCompilation` | literature_knowledge/materializer.py in its order |
| `IsCurrent`, `Stale`, `ViewValid`, `Trusted` | knowledge/k1f_authority.py and the trusted view |

**`LiteratureImport`** – one collection import: the bounded traversal of the
pages, the acquisition of each resource down to the ingestion of one full text,
and the record, killed at any write and run again under another policy against
a web that answers differently.

| Model | Code |
|---|---|
| `Start`, `FetchPage`, `FetchFails`, `Classify` | `GenericHTMLCollectionConnector.discover`, knowledge/collection.py |
| `Take`, `Resolve`, `CandidateFails`, `DiscoverLanding`, `GiveUp` | `LiteratureAcquisitionService.add`, knowledge/acquisition.py |
| `Ingest`, `Write`, `Ingested`, `ExtractionFails` | knowledge/ingestion.py, the records of `Chain` in order |
| `Raises`, `Close`, `KillImport` | `CollectionImportService.run`, collection.py |

Operators introduced by a comment that starts with *Faulty:* are not part of
any specification. Each is a plausible bug, used to see that the property it
is meant for notices it.

## What the runs check

Ten runs pass. Their distinct states: `evidence` 574,608, `revision` 895,980,
`approval` 5,384,040, `hierarchy` 112,974, `obligations` 255,508, `plan`
1,064,622, `successor` 3,992,394, `runstore` 6,322,358, `knowledge` about 1.0
and `import` 0.8 million.

| Run | Bounds | Shows |
|---|---|---|
| `evidence` | 2 cycles, 2 request sets, 2 reviews, 2 snapshots | the resolver's contract under all orders of calls, interruptions, refusals and knowledge changes: `UncertainIsTerminal`, `TerminalStops`, `CompletedDistinct`, `TriggerArchived`, `AtMostOnce`; every resolution ends (`ResolutionEnds`) |
| `revision` | 2 revisions, 1 evidence cycle, 2 snapshots, a gap in the context of the second | revision with crashes everywhere, and replans from a review or a gap: `RoundsPaid`, `GlobalBudget`, `AtMostOnce`, `ApprovedIsExportable` (of a run that has not left its chain behind), a chain only grows, keeps all but its reason once it has ended, and gives way only to one for a later context (`ChainsAdvance`), the run implements `EvidenceResolution` (`EvidenceContract`), every call returns (`CallReturns`) |
| `approval` | callers switch between 0 and 1 revisions, 2 snapshots | an approval is of the current plan and context: `ApprovalBindsPlan` |
| `hierarchy` | 2 cycles, callers with budget 0 or 2 and either strategy, all triage outcomes, 2 snapshots | each root's stages implement `ClaimedCalls` (`StagesCalledOnce`), stay within one planning input (`OneInputPerRoot`), never pass a human choice (`HumanBoundary`), and every call returns |
| `obligations` | 4 records of which any subset is trusted, 4 questions, 2 conditions, 2 rounds of 2 requests, 2 directions | what the contents of a planning loop keep: `EvidenceAdmitted`, `ClosedIsProved`, `ObligationsKept` |
| `plan` | 11 drafts, up to 2 candidates, 0 or 2 revisions, 5 sets of flags and 3 of fixes, 1 change outside the run, 2 exports side by side (interchangeable) to one destination | `EveryBlockerAnswered`, `ExportsAreSound`, and `CycleCheckIsExact` on task graphs of up to 3 tasks |
| `successor` | 2 submissions (interchangeable), 4 curation records, 2 cycles, 2 candidates, 1 follow-up request | results accepted and rejected in any order while compile calls with any selection plan them, interrupted at every write: `ReceiptIsEarned`, `OneCyclePerInvocation`, `ApprovedLineage`, `ApprovalBindsSelection`, `ClaimsFollowAcceptance`, `AtMostOnce` |
| `runstore` | 2 processes, 2 contents (both interchangeable), 3 versions of `run.json`, 1 attempt | with kills and the other process between any two file operations: `HistoryComplete`, `BindingsHold`, `ResumeKeepsWork` |
| `knowledge` | 2 callers (interchangeable), 1 curator, a partial and a complete structure, 2 selections, 3 promotions, 4 decisions | `RejectedIsNeverTrusted`, `TrustedQuoteIsCurrent`, `AutoNeverRegresses` |
| `import` | 2 pages and links out of scope, 2 resources of which one has a DOI, 1 work, limits of 1 or 2 pages and resources and depth 0 or 1 | `ProvenIsExhaustive`, `StrongestDecision`, `EveryResourceAnswered`, `IngestedIsBacked` |

Why these bounds. Two cycles are enough for a property about a cycle and a
later one, two snapshots for knowledge that changes once between any two steps,
two revisions for an attempt after a completed one. With more, no new kind of
interleaving appears: attempts, rounds and cycles only interact with their
predecessor and with counts. One exception is left to the proof of
`ChainsAdvance`: in `revision` no second cycle can end without a child context
and so bring an older context back. The gap of the second snapshot in
`revision` lets a gap-driven and a review-driven cycle occur in one run, though
the budget leaves room for one of them. In `successor` four curation records
are enough for accept, reject and accept of one result beside another accepted
one, and two cycles for a successor of a successor. In `runstore` three
versions let two processes save on top of the same first one, and two processes
are enough for one to come between a look and a write of the other. In `knowledge`
three promotions are a structure, another and a rollback; the second selection
selects the same representation again or one without a structure, and either
makes everything compiled before stale. In `import` limits of one and two make
every bound both reached and not, and one work for two resources lets them meet
in it. In `plan` a draft misses at most one rule, so each rule decides by
itself; three tasks are a circle, a circle behind a free task, and a task that
waits for two; one change outside the run is enough to come before, within or
after the verification of an export, and two exports for one to find its
destination taken at the move. `ReportsChange` is TRUE in `revision` and
`approval`; it is FALSE in `saved_round`, where nothing but the resume itself
may be the reason for the refusal. In `obligations` the four records are support for each
condition, a contradiction and a merely topical match, and the second round
starts from what the first left behind.

`CHECK_DEADLOCK FALSE` in four configurations: a plan is reviewed and exported,
a call has ended, and the bounds on decisions and selections are used up.

Two runs show where the code does not do what it or a document says.

| Run | Statement | What happens |
|---|---|---|
| `saved_round` | README.md:919, resume reuses valid saved rounds | `_reuse_approval` rebuilds the input of an *initial* review, so a reviewed revised round always ends in STALE_APPROVAL_CHAIN |
| `orphan` | README.md:557-559, records are trusted only while their representation and structure remain current | a claim accepted before its compilation record was stored is nobody's claim (k1f_authority.py:221-222): it stays trusted when its structure is superseded |

TLC refutes more statements; each is a definition of its module with the
statement in its comment, and can be put in place of the invariants of a
configuration above.

| Definition | Statement | What happens |
|---|---|---|
| `EvidenceResolution.NoEquivalentRepeat` | README.md:889-891, resume does not repeat an equivalent request against the same snapshot | interrupted after `resolutions.yaml` and before `cycle.yaml`, the cycle is in no later comparison and its request runs again |
| `ScientificRun.CurationIsResumable` | README.md:791-793, after curation, resume without recreating the request | when the request comes from a review-driven cycle the chain was terminated before, and resume returns at once |
| `ScientificRun.BudgetNeverGrows` | docs/architecture-trust-audit.md:102, replanning and resume do not grant more attempts | the chain of a replan takes its budget from the options of the call (refuted when `RevisionOptions` has two values) |
| `ScientificRun.EveryApprovedIsExportable` | an APPROVED run can be exported | a review with INSUFFICIENT_EVIDENCE ends the chain, the evidence cycle gives the run a child context, and a resume without revisions approves it in plain `approval/` (service.py:1340-1353); export (3559) then looks in the approval of the chain that was left (487-491) (refuted when `RevisionOptions` has 0 beside another value) |
| `RunStore.HistoryWhole` | every version `run.json` names is complete in the history | two calls that save the same new (or exported) run without the lock both find no history file; the second empties it when `run.json` already names it (repository.py:51-52), and a kill leaves it so |
| `RunStore.BindingsAlwaysHold` | the same of bindings, even when the lock of a live call was removed by hand | two writers both find no artifact, and the second writes over the one that is already bound (94-99) |
| `RunStore.UpdatesKept` | no save replaces anything but the contents it was made from | `start` reads or creates the run before it takes the lock (service.py:679-713), and an export saves without it: the older copy replaces the newer |
| `SuccessorPlanning.UnclaimedResumes` | docs/architecture-trust-audit.md:227-228, a provider is not repeated only when its claimed outcome is incomplete | interrupted before `planning-input.yaml`, the invocation is refused for ever though nothing was claimed |
| `SuccessorPlanning.UncertainIsReported` | docs/architecture-trust-audit.md:124-125, a claimed call without its complete output remains planning- or approval-specific uncertain state | the status report needs only `planning-proposal.yaml` to call planning complete, and an older `planning-outcome.yaml` hides a claimed approval |
| `HierarchicalPlanning.UncertainEvidenceStops` | README.md:888-889, resume refuses uncertain retrieval attempts | a call that asks for direct planning is switched to the existing hierarchy only after the evidence loop, so it does not ask for the needs of the triage: it expands beside the uncertain cycle that was claimed for them |
| `HierarchicalPlanning.NeverMixed` | service.py:1044-1053, a run with direct planning artifacts is not continued hierarchically | the refusal needs `hierarchy` to be missing, and the loop has created it before (994-997) |
| `PlanReview.ConditionsKeepHandling` | README.md:945, a conditional approval retains its handling | with revisions on, the authority check (service.py:2945-2968) comes before the verdict is looked at: a blocking fix or an open decision ends as REVISION_BLOCKED, INVALID_TRIGGER_APPROVAL_CHAIN |
| `PlanReview.IssuesAreRevisable` | README.md:918-920, deterministic issues are part of a revision's feedback | the same check refuses any plan whose record has an issue, so none is ever revised |
| `PlanReview.EvidenceHoldsAtMove` | the evidence of a package is undamaged when it is moved into place | staging and `validate_export` look at the package only (export.py:134-156): evidence damaged after it was verified is exported as it was seen |
| `PlanReview.ApprovedCanLeave` | an APPROVED run can be exported | with revisions off, APPROVE with a warning is APPROVED, and validators.py:761-768 refuses every flag |
| `PlanningEvidence.GapsPropagated` | README.md:60, blocking gaps are addressed or propagated | only gaps a request names are carried (service.py:235-282) and the analyzer does not see the rest again; the built-in provider asks for at most five |
| `PlanningEvidence.DisputesRemain` | README.md:868, conflicting records remain explicit | conflicts travel with the relations of the hits (evidence_resolution.py:1190-1201), and a lexical hit carries none |
| `PlanningEvidence.EveryRoundLearns` | a completed round brought evidence the context did not have | `new` counts every match, while only support is admitted |

## Fairness

`WF_vars(Serve)` in `EvidenceResolution` and `WF_vars(Advance)` in
`HierarchicalPlanning` and, without `RejectTrigger`, in `ScientificRun` say that
a process that holds the lock keeps executing unless it is interrupted. That a
review loses its authority may happen and is never required, so that the
revision loop is not shown to end by it. The executing itself is justified: the
code is sequential Python, it waits for nothing but its provider calls, which
return or raise. Nothing is assumed of callers, of crashes or of the knowledge, and a call is not assumed
to be made again. `ResolutionEnds` and `CallReturns` then say that the
unbounded `while True` loops of the code end: each round of the planning loop
takes a cycle of the budget, each round of the revision loop an attempt. The
other modules have no loop that depends on anything but their input, and no
liveness property.

## What is proved

Each of eight modules `X_proofs` extends the module `X` it is about, and
`Knowledge_proofs` both `KnowledgeTrust` and `LiteratureImport`. Each has an
inductive invariant `IInv`, proved in `Invariant` action by action with the
lemmas before it (for `LiteratureImport`, `ImportInv` and `ImportInvariant`);
`TypeCorrect` and the theorems below follow from it. All of them hold for every
value of the constants: any number of processes, contexts, results, records,
rounds and cycles. What is assumed of the constants is named in the `ASSUME` of
each module: their types and the shape of the data they stand for, that a value
which stands for "nothing" is not among the real ones, in `LiteratureImport`,
that the resources are finite in number, and, in `PlanReview`, that tasks are
finite in number, candidates at most the four that a proposal may have, and a
draft carries no verdict of the cycle check in advance.

| Module | Theorems and the property they state |
|---|---|
| `EvidenceResolution_proofs` | `UncertainIsTerminal`, `TerminalStops`, `CompletedDistinct`, `TriggerArchived`; in no run, `WithinBudget` and the action property `FilesImmutable`; the refinement `AtMostOnce` of `ClaimedCalls` |
| `ScientificRun_proofs` | `RoundsPaid`, `GlobalBudget`, `ApprovalBindsPlan`, `ApprovedIsExportable`; the action property `ChainsAdvance`; the refinements `AtMostOnce` of `ClaimedCalls` and `EvidenceContract` of `EvidenceResolution` |
| `HierarchicalPlanning_proofs` | `HumanBoundary`, `OneInputPerRoot`; the refinement `StagesCalledOnce` of `ClaimedCalls` |
| `PlanningEvidence_proofs` | `EvidenceAdmitted`, `ClosedIsProved`, `ObligationsKept` |
| `PlanReview_proofs` | `CycleCheckIsExact`, `EveryBlockerAnswered`, `ExportsAreSound`; and `CycleCheckCorrect`, that the algorithm decides what it should for every finite graph |
| `SuccessorPlanning_proofs` | `ReceiptIsEarned`, `OneCyclePerInvocation`, `ApprovedLineage`, `ApprovalBindsSelection`; the action property `ClaimsFollowAcceptance`; the refinement `AtMostOnce` of `ClaimedCalls` |
| `RunStore_proofs` | `HistoryComplete`, `BindingsHold`, the action property `ResumeKeepsWork`; and `OneCallInside`, mutual exclusion by the run lock |
| `Knowledge_proofs` | of `KnowledgeTrust`: `RejectedIsNeverTrusted`, `TrustedQuoteIsCurrent`, `AutoNeverRegresses`; of `LiteratureImport`: `ProvenIsExhaustive`, `StrongestDecision`, `EveryResourceAnswered`, `IngestedIsBacked` |

None of these invariants is inductive alone. What each `IInv` adds, and why:

**Evidence resolution.** `CyclesOrdered` (a record needs an outcome, an outcome
a request set; snapshots never decrease along the cycles and never exceed the
caller's), `InProgress` (what the resolver's progress says about the newest
cycle, in particular that a saved request was compared with the completed
ones) and `ReviewReady` (the open review is archived where the next claim will
need it). `TerminalStops` needs the order of snapshots: `Claim` compares only
with the newest *completed* cycle, and only because snapshots grow does this
exclude every older terminal one.

**Scientific run.** `CallOK`: the call works on the chain exactly while the
chain is in effect, and a chain nobody terminated is never left by a call that
plans. `ChainOK`, `AttemptOK` and `ProgressOK` tie the locals of the call to
the files, step by step between two writes: the review a call is about to act
on is the stored one of the newest round, a round being revised has its own
open attempt. `EvidenceOK` says that resolution starts only when no live chain
is left, so that the child context of a completed cycle, which moves all files
to another namespace, moves none in use; a live chain's context is never that
of a newer cycle. `ApprovalOK` is the approval with the place it is stored at.
`LeftChain` (a chain that ended without an approving last review and stays on
disk) is the exception under which export looks elsewhere, see the table above: `ApprovedIsExportable` is stated for the other runs, and is false
without that restriction. `EvidenceContract` maps the call to the
caller of `EvidenceResolution`; each step of the run is a step of the resolver,
of its environment, or a stutter. So what is proved of `EvidenceResolution`
holds for the resolver inside the run.

`ChainsAdvance` needs one more invariant, `OrderInv`, on top of that one.
`CyclesOrdered`: snapshots do not decrease along the cycles, and the context of
the run is not older than any of them. `ChainBehind`: the context of the run is
that of the chain or comes after it, by snapshot and then by cycle, unless
resolution has ended for that snapshot. The exception is real, since a terminal
cycle moves the run back to the context it was replanned from; but then the
resolver stops every call that does not work on the chain before it plans, so
no chain for the older context is made. It takes two cycles, one more than
`revision` allows, so this part of `ChainsAdvance` rests on the proof.
`RecordedOnce`: the review of a round is recorded in the chain once.
A chain that has ended can still change: a turn of the revision cycle that
finds the authority of its last review gone rewrites the reason, also of a
chain that ended as "approved". `ChainGrows` allows that and nothing else, and
`LiveChain` in the proof, which stands for a chain a call may still work on,
includes a chain that ended with an approving review for the same reason.

**Hierarchical planning.** `RootOK` and `CallAt`: the stages of a root form a
prefix of the three, only the newest can lack its output, all were claimed for
one context, and where the call is says which of them it may rely on.
`EvidenceOK` keeps the cycles within the budget, without which the root of a
child context would not exist.

**Planning evidence.** `StagesOK`: triage and expansion are valid for the gaps
of the *newest* context, because a child context starts a fresh hierarchy.

**Plan review.** `OpenIsPassedOn` is the heart of `EveryBlockerAnswered`: one
review sees only what the round before passed on, so every open issue must be
in what is tracked, or in the carried and raised issues of the current review.
`PlansOK` says that each kept record is the report of the checks on *some*
state of the files. `CycleCheckCorrect` is proved by an invariant of Kahn's
loop: the tasks taken are taken in an order of their dependencies, and a task
left over at the end waits for one left over too; a least counterexample on
the number of turns takes the place of induction over the loop. `UnderWay` says
of each export between two of its steps that what it loaded is sound, that with
revisions on the approval it loaded still stands, and, once it is staged, that
it has seen all evidence of the package undamaged: nothing is said of the
evidence as it is now, which may have changed.

**Successor planning.** `HistoryOK`, `SubmissionOK` and `TaskOK` are what the
files of one result say of each other, `CycleOK` those of one cycle, `CallOK`
where a call stands with the files of its cycle. `CallInProgress` adds that the
planned results stay accepted while the call runs, since only a holder of the
same lock could change that. `ApprovedLineage` rests on what the recursive
parent check decides, which is written as a recursive function over the cycles.

**Run store.** `TypeOK` is not inductive: `ReplaceRun` stores the position its
call holds, so `Copy` (that position exists, and what a call saves it made
itself) is part of the invariant, as are `Saves` (what of the history is
written before `run.json` is replaced), `Apart` (a half written file has one
writer) and `LockHeld`. `FromStored` is the state between two steps that
`ResumeKeepsWork` needs: while nobody removed the lock, a resume works from
what is stored, unless an unlocked export or start saved over it.

**Knowledge trust.** There is no lock, so the invariant speaks of the calls as
well: a record read for but not yet put is `Legal` (each decision was an
allowed transition) and `Backed` (every proper prefix is stored) in the history
as it is *now*, since histories only grow. A history that resolves has one path
per length, so its tip agrees with every path, and a rejection in any of them
would be followed by a decision no transition allows. `CompilationsOK` ties a
compilation record, and a compiler past its grounding, to the structure its
quote is bound to, whatever is selected in between.

**Literature import.** `ImportInv` splits by what each property speaks of.
`TraversalOK` says that a page left out (out of scope, too deep, over the
limit, failed) leaves a trace in the reasons, so a traversal without reasons
has retrieved or still holds in its queue everything the retrieved pages link
to. `RoomOK` says that a resource is dropped only when the limit is reached,
and then no other is admitted later; hence `DecisionsOK`, the decision kept for
a resource is the strongest over *all* pages read, holds in spite of what was
dropped; this is where the resources must be finitely many. `AnswersOK`: among
the discovered resources exactly those still to be taken and the one in hand
(`Waiting`) have no answer yet, however the acquisition of one ends.
`WrittenOK` says that the part of `Chain` an ingestion has passed is in the
library, written now or by an import that was killed, and the library only
grows.

Only model-checked: liveness (`ResolutionEnds`, `CallReturns`), where fairness
and ENABLED are beyond the prover. Every other property of a passing run is a
theorem.

## Not modelled, and the plan

The modules of the plan are written, checked and proved about.

Left out of modelled components: the re-validation of files somebody tampered
with; that a landing page may yield several full text candidates of one medium
(`DiscoverLanding` takes at most one); that `EnsureCuration` reads and puts in
two steps (it is one, and puts the first record of a history or none); the caps
on what a retrieval returns (`PlanningEvidence` returns all that match); relations, historical authorizations and the authorization snapshot of
the trusted view; redirects, merged metadata and the comparison of two
snapshots of a collection; the scores of a review, which decide nothing. With
revisions off nothing is tracked from one review to the next, so
`EveryBlockerAnswered` is about runs with a revision budget.

Not modelled: the text work (extraction, matching, ranking, wording checks),
which maps text to records without a protocol; structured providers, whose up
to `max_attempts` repeats of a malformed answer happen inside one claimed call;
validation of downstream proposals and of single records, pure functions of
one record; backend descriptors, the graph view and rendering; the command
line, whose options are constants of the models.
