---------------------------- MODULE KnowledgeTrust ----------------------------
(***************************************************************************)
(* The shared knowledge store of one accepted literature document: which   *)
(* representation is selected, which structure of it is selected, what the *)
(* literature compiler extracts from them, how curators decide on it, and  *)
(* which records the trusted view then holds (knowledge/trust.py,          *)
(* k1f_authority.py, structure_selection.py, ingestion.py,                 *)
(* literature_knowledge/*.py, repositories.py).                            *)
(*                                                                         *)
(* The repositories take no lock.  A record is immutable and its id is the *)
(* hash of its contents, the id of the record it supersedes included, so a *)
(* record stands for its whole history: it is modelled as the path of the  *)
(* decisions that led to it, a history is a set of paths, and putting one  *)
(* record twice is putting it once.  A call reads the histories first and  *)
(* puts its record later; other calls, or a kill, come in between.         *)
(***************************************************************************)
EXTENDS Naturals, SequencesExt, FiniteSets, TLC

CONSTANTS Callers,         \* the processes that use the store at one time
          Curators,        \* who selects and decides
          PdfStructures,   \* what the extractor versions make of the PDF
          HtmlStructures,  \* and of the HTML representation
          FirstRep,        \* the representation that is selected at first
          Partial,         \* the structures with extraction status partial
          Complete,        \* and complete; the others are unresolved
          Decisions,       \* the curation statuses callers decide on
          None,
          MaxSelections,   \* bound: representation selections in a history
          MaxPromotions,   \* bound: structure selections in a history
          MaxDecisions     \* bound: curation records of callers

ASSUME StructuresAssumption ==
    /\ PdfStructures \cap HtmlStructures = {}
    /\ Partial \cap Complete = {}
    /\ FirstRep \in {"pdf", "html"}
    /\ None \notin PdfStructures \cup HtmlStructures

ASSUME BoundsAssumption ==
    /\ MaxSelections \in Nat \ {0}
    /\ MaxPromotions \in Nat /\ MaxDecisions \in Nat

VARIABLES selections,     \* paths of representation selections
          structures,     \* stored structure artifacts
          promotions,     \* per representation, paths of structure selections
          records,        \* stored scientific records
          curations,      \* per curated record, paths of decisions on it
          bound,          \* per representation, the structure its quote names
          compilations,   \* literature knowledge compilation records
          pending         \* per caller, the call it is in

vars == <<selections, structures, promotions, records, curations, bound,
          compilations, pending>>

Compiler == "compiler"
Reps == {"pdf", "html"}
Structures == PdfStructures \cup HtmlStructures
Of(s) == IF s \in PdfStructures THEN "pdf" ELSE "html"
Records == {"claim"} \X Reps
RepOf(x) == x[2]
SelectionTarget(path) == <<"selection", path>>

CurationStatus == {"machine", "reviewed", "accepted", "rejected"}

\* Faulty: a rejected record can be reviewed and accepted after all.
TransitionsReopened(status) ==
    CASE status = "none" -> CurationStatus
      [] status \in {"machine", "reviewed", "rejected"} -> {"reviewed", "accepted", "rejected"}
      [] OTHER -> {}

\* The statuses a curator may move a record to; "none" is a record without one.
Transitions(status) ==
    CASE status = "none" -> CurationStatus
      [] status = "machine" -> {"reviewed", "accepted", "rejected"}
      [] status = "reviewed" -> {"accepted", "rejected"}
      [] OTHER -> {}

-----------------------------------------------------------------------------
(* Histories *)

\* A history resolves when its records form one chain.  What a record supersedes
\* is stored before it, so two records that supersede the same one, or two first
\* records, are two paths of one length.
OneChain(paths) == \A p, q \in paths : Len(p) = Len(q) => p = q

Tip(paths) == IF paths = {} THEN << >>
              ELSE CHOOSE p \in paths : \A q \in paths : Len(q) <= Len(p)

Paths(target) == IF target \in DOMAIN curations THEN curations[target] ELSE {}

\* resolve_current_curations resolves every target, or raises.
CurationsResolve == \A target \in DOMAIN curations : OneChain(curations[target])

StatusOf(target) ==
    IF Paths(target) = {} THEN "none" ELSE Last(Tip(Paths(target))).status

Accepted(target) == StatusOf(target) = "accepted"

CurrentSelection == Tip(selections)
CurrentRep == Last(CurrentSelection).rep

StructureResolves(r) == promotions[r] # {} /\ OneChain(promotions[r])
CurrentPromotion(r) == Tip(promotions[r])
CurrentStructure(r) == Last(CurrentPromotion(r)).structure

\* The input of the literature compiler: document and selection accepted, and
\* the heads of both histories.
InputResolves ==
    /\ CurationsResolve
    /\ OneChain(selections)
    /\ Accepted(SelectionTarget(CurrentSelection))
    /\ StructureResolves(CurrentRep)

-----------------------------------------------------------------------------
(* What the trusted view holds *)

CompilationsOf(x) == {k \in compilations : x \in k.records}

\* A compilation is current while both of the selections it names are heads.
IsCurrent(k) ==
    /\ OneChain(selections)
    /\ k.selection = CurrentSelection
    /\ OneChain(promotions[CurrentRep])
    /\ k.promotion = CurrentPromotion(CurrentRep)

\* A record of the compiler is stale when none of its compilations is current;
\* a record that no compilation names is not the compiler's.
Stale(x) == CompilationsOf(x) # {} /\ \A k \in CompilationsOf(x) : ~IsCurrent(k)

Active == {x \in records : Accepted(x) /\ ~Stale(x)}

\* An accepted document needs its current selection accepted.
DocumentIsTrusted ==
    OneChain(selections) /\ Accepted(SelectionTarget(CurrentSelection))

\* Of an accepted record, each compilation made from the current selection is
\* compared with the current structure, which must resolve.
AuthorityResolves ==
    \A x \in records : Accepted(x) =>
        \A k \in CompilationsOf(x) :
            k.selection = CurrentSelection => OneChain(promotions[RepOf(x)])

\* Evidence of a representation that is not the current accepted one is refused
\* (no evidence is authorized historically here).
EvidenceIsCurrent == \A x \in Active : RepOf(x) = CurrentRep

\* Validation is all or nothing: one failure fails the whole view.
ViewValid ==
    CurationsResolve /\ DocumentIsTrusted /\ AuthorityResolves /\ EvidenceIsCurrent

Trusted == IF ViewValid THEN Active ELSE {}

-----------------------------------------------------------------------------
(* The calls *)

\* The document is accepted, and one representation selected and accepted.
Init ==
    \E by \in Curators :
        LET first == <<[rep |-> FirstRep, by |-> by]>> IN
        /\ selections = {first}
        /\ curations = [t \in {SelectionTarget(first)} |-> {<<[status |-> "accepted", by |-> by]>>}]
        /\ structures = {}
        /\ promotions = [s \in Reps |-> {}]
        /\ records = {}
        /\ bound = [s \in Reps |-> None]
        /\ compilations = {}
        /\ pending = [d \in Callers |-> None]

Idle(c) == pending[c] = None
In(c, op) == ~Idle(c) /\ pending[c].op = op
Enter(c, call) == pending' = [pending EXCEPT ![c] = call]
Leave(c) == Enter(c, None)

store == <<selections, structures, promotions, records, curations, bound,
           compilations>>

Known == records \cup {SelectionTarget(p) : p \in selections}

DecisionsMade ==
    UNION {{target} \X {p \in curations[target] : Last(p).by # Compiler} :
           target \in DOMAIN curations}

\* Put a curation record of a target.
Add(target, path) ==
    [t \in DOMAIN curations \cup {target} |->
       IF t = target THEN Paths(target) \cup {path} ELSE curations[t]]

\* curate_knowledge_record: every history is resolved, the transition checked.
Curate(c) ==
    /\ Idle(c)
    /\ CurationsResolve
    /\ Cardinality(DecisionsMade) < MaxDecisions
    /\ \E target \in Known, by \in Curators :
         \E status \in Transitions(StatusOf(target)) \cap Decisions :
            Enter(c, [op |-> "curate", target |-> target,
                      path |-> Append(Tip(Paths(target)),
                                      [status |-> status, by |-> by])])
    /\ UNCHANGED store

PutCuration(c) ==
    /\ In(c, "curate")
    /\ curations' = Add(pending[c].target, pending[c].path)
    /\ Leave(c)
    /\ UNCHANGED <<selections, structures, promotions, records, bound, compilations>>

\* LiteratureRepresentationSelector.select; selecting the current
\* representation again is a new selection.
SelectRepresentation(c) ==
    /\ Idle(c)
    /\ OneChain(selections)
    /\ Len(CurrentSelection) < MaxSelections
    /\ \E r \in Reps, by \in Curators :
         Enter(c, [op |-> "select",
                   path |-> Append(CurrentSelection, [rep |-> r, by |-> by])])
    /\ UNCHANGED store

PutSelection(c) ==
    /\ In(c, "select")
    /\ selections' = selections \cup {pending[c].path}
    /\ Leave(c)
    /\ UNCHANGED <<structures, promotions, records, curations, bound, compilations>>

HistoryStructures(r) ==
    {CurrentPromotion(r)[i].structure : i \in 1..Len(CurrentPromotion(r))}

\* Faulty: the status of the current structure is not considered.
SuccessorsOfAny(s) == Partial \cup Complete \cup {s}

\* The result an automatic promotion may put after the current one.
Successors(s) == IF s \in Complete THEN Complete ELSE Partial \cup Complete

Admissible(s) ==
    /\ s \in Partial \cup Complete
    /\ OneChain(promotions[Of(s)])
    /\ promotions[Of(s)] # {} =>
         /\ s \in Successors(CurrentStructure(Of(s)))
         /\ s \notin HistoryStructures(Of(s))

Promotable(r) == OneChain(promotions[r]) /\ Len(CurrentPromotion(r)) < MaxPromotions

Promotion(s, how) ==
    [op |-> "promote", rep |-> Of(s),
     path |-> Append(CurrentPromotion(Of(s)), [structure |-> s, how |-> how])]

\* DocumentStructureService.extract stores the artifact and then considers it
\* for promotion.  (The artifact of a custom extractor is never considered; it
\* waits for an explicit selection like one that is not admissible.)
Extract(c, s) ==
    /\ Idle(c)
    /\ structures' = structures \cup {s}
    /\ IF Promotable(Of(s)) /\ Admissible(s)
       THEN Enter(c, Promotion(s, "auto"))
       ELSE UNCHANGED pending
    /\ UNCHANGED <<selections, promotions, records, curations, bound, compilations>>

\* DocumentStructureSelector.select: any stored structure; one that was
\* selected before only with allow_rollback.
SelectStructure(c, allowRollback) ==
  \E s \in structures :
    /\ Idle(c)
    /\ Promotable(Of(s))
    /\ promotions[Of(s)] # {} => s # CurrentStructure(Of(s))
    /\ s \in HistoryStructures(Of(s)) => allowRollback
    /\ Enter(c, Promotion(s, "selected"))
    /\ UNCHANGED store

PutPromotion(c) ==
    /\ In(c, "promote")
    /\ promotions' = [promotions EXCEPT ![pending[c].rep] = @ \cup {pending[c].path}]
    /\ Leave(c)
    /\ UNCHANGED <<selections, structures, records, curations, bound, compilations>>

-----------------------------------------------------------------------------
(* The literature compiler.  What it extracts from one quote is one record *)
(* here, the claim; facts, results and relations are put in the same way,  *)
(* and the compilation record comes last.                                  *)

At(c, step) == In(c, "compile") /\ pending[c].at = step
Step(c, step) == Enter(c, [pending[c] EXCEPT !.at = step])
CompiledRep(c) == Last(pending[c].selection).rep
Claim(c) == <<"claim", CompiledRep(c)>>

Compile(c) ==
    /\ Idle(c)
    /\ InputResolves
    /\ Enter(c, [op |-> "compile", at |-> "quote", selection |-> CurrentSelection,
                 promotion |-> CurrentPromotion(CurrentRep)])
    /\ UNCHANGED store

InputIsCurrent(c) ==
    /\ InputResolves
    /\ pending[c].selection = CurrentSelection
    /\ pending[c].promotion = CurrentPromotion(CurrentRep)

\* Faulty: evidence with the same id is reused without comparing the records.
QuotableReused(c) == c \in Callers

\* The id of an evidence span leaves out its locator, which names the block and
\* so the structure: the same quote of another structure conflicts with the
\* stored record.
Quotable(c) ==
    bound[CompiledRep(c)] \in {None, Last(pending[c].promotion).structure}

\* materialize validates its input again and stores the quote's evidence.
Ground(c) ==
    /\ At(c, "quote")
    /\ InputIsCurrent(c)
    /\ Quotable(c)
    /\ bound' = [bound EXCEPT ![CompiledRep(c)] =
                    IF @ = None THEN Last(pending[c].promotion).structure ELSE @]
    /\ Step(c, "claim")
    /\ UNCHANGED <<selections, structures, promotions, records, curations, compilations>>

FailGround(c) ==
    /\ At(c, "quote")
    /\ ~(InputIsCurrent(c) /\ Quotable(c))
    /\ Leave(c)
    /\ UNCHANGED store

\* A record is put or reused; then ensure_machine_curation gives it its first
\* curation unless it has one.
PutClaim(c) ==
    /\ At(c, "claim")
    /\ records' = records \cup {Claim(c)}
    /\ Step(c, "curation")
    /\ UNCHANGED <<selections, structures, promotions, curations, bound, compilations>>

MachineCuration == <<[status |-> "machine", by |-> Compiler]>>

EnsureCuration(c) ==
    /\ At(c, "curation")
    /\ CurationsResolve
    /\ curations' = IF Paths(Claim(c)) # {} THEN curations
                    ELSE Add(Claim(c), MachineCuration)
    /\ Step(c, "compilation")
    /\ UNCHANGED <<selections, structures, promotions, records, bound, compilations>>

FailCuration(c) ==
    /\ At(c, "curation")
    /\ ~CurationsResolve
    /\ Leave(c)
    /\ UNCHANGED store

PutCompilation(c) ==
    /\ At(c, "compilation")
    /\ compilations' = compilations \cup
         {[selection |-> pending[c].selection, promotion |-> pending[c].promotion,
           records |-> {Claim(c)}]}
    /\ Leave(c)
    /\ UNCHANGED <<selections, structures, promotions, records, curations, bound>>

\* A killed process, or an exception between two writes.
Kill(c) == ~Idle(c) /\ Leave(c) /\ UNCHANGED store

Next ==
    \E c \in Callers :
        \/ Curate(c)
        \/ PutCuration(c)
        \/ SelectRepresentation(c)
        \/ PutSelection(c)
        \/ \E s \in Structures : Extract(c, s)
        \/ \E allow \in BOOLEAN : SelectStructure(c, allow)
        \/ PutPromotion(c)
        \/ Compile(c) \/ Ground(c) \/ FailGround(c)
        \/ PutClaim(c) \/ EnsureCuration(c) \/ FailCuration(c) \/ PutCompilation(c)
        \/ Kill(c)

Spec == Init /\ [][Next]_vars

Symmetry == Permutations(Callers)

-----------------------------------------------------------------------------
(* Properties *)

\* The paths over S of at most n records.
BoundedPaths(S, n) == {p \in Seq(S) : Len(p) \in 1..n}

SelectionPaths == BoundedPaths([rep : Reps, by : Curators], MaxSelections)
PromotionPaths ==
    BoundedPaths([structure : Structures, how : {"auto", "selected"}], MaxPromotions)
\* A record is decided on at most three times: a path ends in accepted or rejected.
CurationPaths ==
    BoundedPaths([status : CurationStatus, by : Curators \cup {Compiler}], 3)

Compilations ==
    [selection : SelectionPaths, promotion : PromotionPaths, records : SUBSET Records]

\* The calls, with what they read before they write.
Calls ==
    [op : {"curate"}, target : Records \cup ({"selection"} \X SelectionPaths),
     path : CurationPaths]
    \cup [op : {"select"}, path : SelectionPaths]
    \cup [op : {"promote"}, rep : Reps, path : PromotionPaths]
    \cup [op : {"compile"}, at : {"quote", "claim", "curation", "compilation"},
          selection : SelectionPaths, promotion : PromotionPaths]

\* Each variable has its type.
TypeOK ==
    /\ selections # {} /\ selections \subseteq SelectionPaths
    /\ structures \subseteq Structures
    /\ promotions \in [Reps -> SUBSET PromotionPaths]
    /\ records \subseteq Records
    /\ \A target \in DOMAIN curations : curations[target] \subseteq CurationPaths
    /\ bound \in [Reps -> Structures \cup {None}]
    /\ compilations \subseteq Compilations
    /\ pending \in [Callers -> Calls \cup {None}]

\* A record whose rejection was ever written is in no trusted view, whoever
\* decided on it at the same time and whatever is selected, rolled back or
\* extracted again afterwards (CURATION_TRANSITIONS, resolve_current_curations).
RejectedIsNeverTrusted ==
    \A x \in Trusted : \A p \in Paths(x) : \A i \in DOMAIN p :
        p[i].status # "rejected"

\* The quote behind every trusted record of the compiler names a block of the
\* structure that is selected now: no interleaving of selections, rollbacks and
\* compilations leaves a trusted fact located in a superseded structure.
TrustedQuoteIsCurrent ==
    \A x \in Trusted : CompilationsOf(x) # {} =>
        /\ StructureResolves(RepOf(x))
        /\ bound[RepOf(x)] = CurrentStructure(RepOf(x))

\* "New scientific records ... enter the trusted-current view only after
\* explicit acceptance and only while their representation and structure
\* remain current" (src/README.md:557-559).
TrustedOnlyWhileCurrent ==
    \A x \in Trusted :
        /\ RepOf(x) = CurrentRep
        /\ StructureResolves(RepOf(x))
        /\ bound[RepOf(x)] = CurrentStructure(RepOf(x))

\* "The built-in extractor may create or reuse an immutable
\* DocumentStructureSelection only when its result does not reduce extraction
\* quality or return to an earlier structure" (src/README.md:434-436), with
\* explicit selections and other extractions in between.
AutoNeverRegresses ==
    \A r \in Reps : \A p \in promotions[r] :
        Last(p).how = "auto" =>
            /\ Last(p).structure \in Partial \cup Complete
            /\ \A i \in 1..(Len(p) - 1) : p[i].structure # Last(p).structure
            /\ Len(p) > 1 /\ p[Len(p) - 1].structure \in Complete
                 => Last(p).structure \in Complete

=============================================================================
