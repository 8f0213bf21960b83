-------------------------- MODULE LiteratureImport --------------------------
(***************************************************************************)
(* Import of a literature collection: the bounded traversal of its pages   *)
(* (GenericHTMLCollectionConnector.discover), the acquisition of every     *)
(* discovered resource (LiteratureAcquisitionService.add) down to the      *)
(* ingestion of one full text, and the import record                       *)
(* (CollectionImportService.run).                                          *)
(*                                                                         *)
(* An import is one process; KillImport ends it between any two writes,    *)
(* and it may be run again, against a web that answers differently.        *)
(* Records are content-addressed, so a repeated put of an equal record     *)
(* changes nothing.  Page, occurrence and attempt records are written for  *)
(* the audit and never read again: they are left out of the state, and so  *)
(* are redirections, the priorities of candidates and merged metadata.     *)
(***************************************************************************)
EXTENDS Naturals, Sequences, FiniteSets

CONSTANTS
  LastPage,     \* the pages are 1 .. LastPage in the order of their URLs
  Resources,    \* the resources pages may name
  DOIs,         \* those with a DOI; the others have a URL
  Literature,   \* the works that metadata may identify
  PageLimits,      \* max_pages,
  DepthLimits,     \* max_depth and
  ResourceLimits   \* max_resources of the scope policies callers pass

ASSUME ImportAssumption ==
  /\ LastPage \in Nat \ {0} /\ DOIs \subseteq Resources
  /\ IsFiniteSet(Resources)
  /\ PageLimits \subseteq Nat \ {0} /\ DepthLimits \subseteq Nat
  /\ ResourceLimits \subseteq Nat \ {0}

Policies == [pages : PageLimits, depth : DepthLimits, resources : ResourceLimits]
Pages == 1 .. LastPage
Outside == 0                  \* a link out of the allowed origins and paths
Media == {"pdf", "html"}

VARIABLES
  job,       \* the import in progress: step, policy, resources still to do
  walk,      \* the locals of discover
  snapshot,  \* the discovery result the import works on
  work,      \* the locals of add, for the resource in hand
  results,   \* the resource results of this import
  links,     \* its acquisition links: resource, literature
  stored,    \* the representation chain of each literature and medium
  document,  \* the literature documents, by the medium they were made from
  record     \* the record of the last import, unless it was killed

importVars == <<job, walk, snapshot, work, results, links, stored, document, record>>

-----------------------------------------------------------------------------
(* Data. *)

\* Membership of a resource: not seen, only in contexts that establish no
\* membership, or eligible.  The enumeration of decisions is ordered so.
Rank == [absent |-> 0, unverified |-> 1, eligible |-> 2]
Classes == DOMAIN Rank

\* The records of one representation in the order they are written.  An
\* extraction that needs OCR or fails leaves the raw artifact and a failed
\* ingestion record, which nothing else refers to.
Chain == <<"raw", "canonical", "source", "ingestion", "document", "representation">>
Artifacts == {"raw", "canonical", "source", "ingestion", "representation"}

\* What an import counts a resource as (CollectionImportService.counts).
Outcomes == {"ingested", "metadata_only", "auth", "unavailable", "failed", "unverified"}

\* How a candidate fails: for want of authentication, unsupported media (no
\* PDF behind a PDF link), one of the hard failures, another failure, or
\* complete but without the metadata of a work.
Failures == {"auth", "unsupported", "hard", "soft", "metadata"}
FailuresOf == [pdf |-> Failures, html |-> Failures \ {"unsupported"}]

\* What a resolver, or a landing page, offers: an article URL may itself be
\* the PDF, a DOI may have no full text at all.
Candidates == SUBSET Media

\* The context of each occurrence of a resource on a page decides it.
Mentions == SUBSET (Resources \X {"unverified", "eligible"})

\* What a retrieved page may say: its pagination, the resources it names and
\* what its static HTML leaves open: a page that names nothing may need
\* scripts ("dynamic"); pagination without a target or text that cannot be
\* decoded is "limited".
Contents ==
  {page \in [next : SUBSET (Pages \cup {Outside}), mentions : Mentions,
             trouble : {{}, {"dynamic"}, {"limited"}}] :
     page.trouble = {"dynamic"} => page.next = {} /\ page.mentions = {}}

NoPolicy == [pages |-> 0, depth |-> 0, resources |-> 0]
NoJob == [step |-> "idle", policy |-> NoPolicy, todo |-> {}]
NoWalk == [queue |-> {}, page |-> [p \in Pages |-> "unseen"],
           linked |-> {}, class |-> [r \in Resources |-> "absent"],
           seen |-> {}, reasons |-> {}, paginated |-> FALSE, auth |-> FALSE,
           dropped |-> FALSE]
NoSnapshot == [class |-> [r \in Resources |-> "absent"], status |-> "none"]
NoWork == [res |-> "none", open |-> {}, tried |-> {}, failed |-> {}, landing |-> "none",
           lit |-> "none", medium |-> "none", written |-> 0]
NoResults == [r \in Resources |-> "none"]
NoRecord == [status |-> "none", snapshot |-> NoSnapshot, results |-> NoResults,
             members |-> {}]

ImportInit ==
  /\ job = NoJob
  /\ walk = NoWalk /\ snapshot = NoSnapshot /\ work = NoWork
  /\ results = NoResults /\ links = {}
  /\ stored = [l \in Literature |-> [m \in Media |-> {}]]
  /\ document = [l \in Literature |-> "none"]
  /\ record = NoRecord

JobAt(step) == job.step = step
Goto(step) == job' = [job EXCEPT !.step = step]
library == <<stored, document>>

-----------------------------------------------------------------------------
(* discover: breadth-first traversal of explicit pagination.               *)

Start(policy) ==
  /\ JobAt("idle")
  /\ job' = [step |-> "walking", policy |-> policy, todo |-> {}]
  /\ walk' = [NoWalk EXCEPT !.queue = {[page |-> 1, depth |-> 0]}]
  /\ record' = NoRecord
  /\ UNCHANGED <<snapshot, work, results, links, library>>

Retrieved == {p \in Pages : walk.page[p] = "ok"}
Recorded == {p \in Pages : walk.page[p] # "unseen"}
KnownPages == Recorded \cup {q.page : q \in walk.queue}
Walking == JobAt("walking") /\ walk.queue # {} /\ Cardinality(Recorded) < job.policy.pages

\* The queue is sorted by depth and URL.
QueueHead == CHOOSE q \in walk.queue : \A o \in walk.queue :
          q.depth < o.depth \/ (q.depth = o.depth /\ q.page <= o.page)
QueueRest == walk.queue \ {QueueHead}

\* The entry URL of the definition may itself be out of scope.
EntryOutside ==
  /\ Walking /\ Recorded = {}
  /\ walk' = [walk EXCEPT !.queue = {}, !.reasons = {"limited"}]
  /\ UNCHANGED <<job, snapshot, work, results, links, library, record>>

FetchFails(auth) ==
  /\ Walking
  /\ walk' = [walk EXCEPT !.queue = QueueRest, !.page[QueueHead.page] = "failed",
                          !.auth = auth, !.reasons = @ \cup {"limited"}]
  /\ UNCHANGED <<job, snapshot, work, results, links, library, record>>

\* Faulty: the last occurrence of a resource decides.
PromoteLast(current, offered) == offered

\* The logical resource keeps the strongest membership decision of its
\* occurrences, on whatever page and in whatever order they are met.
Promote(current, offered) ==
  IF Rank[offered] > Rank[current] THEN offered ELSE current

Strongest(current, r, mentions) ==
  IF <<r, "eligible">> \in mentions THEN Promote(Promote(current, "unverified"), "eligible")
  ELSE IF <<r, "unverified">> \in mentions THEN Promote(current, "unverified")
  ELSE current

\* Faulty: links beyond the depth limit are silently left alone.
LeftOutShallow(next) == Outside \in next \/ next \cap KnownPages # {}

\* Some link of this page is not followed: it is out of scope, leads back, or
\* too deep.  The code keeps a reason for each, here they are all "limited".
LeftOut(next) ==
  \/ Outside \in next \/ next \cap KnownPages # {}
  \/ QueueHead.depth >= job.policy.depth /\ next # {}

Followed(next) ==
  IF QueueHead.depth >= job.policy.depth THEN {}
  ELSE [page : next \ (KnownPages \cup {Outside}), depth : {QueueHead.depth + 1}]

\* A page is retrieved.  kept are the resources it names that were known or
\* found room.
FetchPage(page) ==
  LET named == {mention[1] : mention \in page.mentions}
      known == {r \in Resources : walk.class[r] # "absent"}
      room == job.policy.resources - Cardinality(known)
  IN
  /\ Walking
  /\ \E kept \in SUBSET named :
       /\ named \cap known \subseteq kept
       /\ \/ kept = named /\ Cardinality(named \ known) <= room
          \/ Cardinality(named \ known) > room /\ Cardinality(kept \ known) = room
       /\ LET accepted == {mention \in page.mentions : mention[1] \in kept} IN
          walk' = [queue |-> QueueRest \cup Followed(page.next),
                   page |-> [walk.page EXCEPT ![QueueHead.page] = "ok"],
                   linked |-> walk.linked \cup page.next,
                   class |-> [r \in Resources |-> Strongest(walk.class[r], r, accepted)],
                   seen |-> walk.seen \cup page.mentions,
                   reasons |-> walk.reasons \cup page.trouble
                               \cup (IF LeftOut(page.next) THEN {"limited"} ELSE {}),
                   paginated |-> walk.paginated \/ page.next # {},
                   auth |-> walk.auth,
                   dropped |-> walk.dropped \/ kept # named]
  /\ UNCHANGED <<job, snapshot, work, results, links, library, record>>

AllReasons ==
  walk.reasons \cup (IF walk.queue # {} \/ walk.dropped THEN {"limited"} ELSE {})

Completeness ==
  CASE walk.auth /\ Retrieved = {} -> "auth"
    [] ~walk.auth /\ Retrieved = {} /\ AllReasons # {} -> "failed"
    [] OTHER ->
       IF "dynamic" \in AllReasons THEN "dynamic"
       ELSE IF AllReasons # {} THEN "partial"
       ELSE IF walk.paginated THEN "proven_complete" ELSE "unverified"

\* The traversal ends: its resources are stored, and the snapshot last.
Classify ==
  /\ JobAt("walking") /\ ~Walking
  /\ snapshot' = [class |-> walk.class, status |-> Completeness]
  /\ Goto("snapshot")
  /\ UNCHANGED <<walk, work, results, links, library, record>>

Discovered == {r \in Resources : snapshot.class[r] # "absent"}
Release ==
  /\ JobAt("snapshot")
  /\ walk' = NoWalk
  /\ job' = [NoJob EXCEPT !.step = "importing", !.todo = Discovered]
  /\ UNCHANGED <<snapshot, work, results, links, library, record>>

-----------------------------------------------------------------------------
(* add: resolution, the candidates in turn, the landing page of a DOI.      *)

Others == UNCHANGED <<walk, snapshot, record>>

\* Every resource has a DOI or a URL, so MISSING_ACQUISITION_INPUT never is.
Take(r) ==
  /\ JobAt("importing") /\ r \in job.todo
  /\ IF snapshot.class[r] = "eligible"
     THEN /\ work' = [NoWork EXCEPT !.res = r]
          /\ job' = [job EXCEPT !.step = "resolving", !.todo = @ \ {r}]
          /\ UNCHANGED results
     ELSE /\ results' = [results EXCEPT ![r] = "unverified"]
          /\ job' = [job EXCEPT !.todo = @ \ {r}]
          /\ UNCHANGED work
  /\ UNCHANGED <<links, library>> /\ Others

\* _finish, the link and the result of the resource in hand.
Answer(outcome, made) ==
  /\ results' = [results EXCEPT ![work.res] = outcome]
  /\ links' = links \cup made
  /\ work' = NoWork /\ Goto("importing")

ResolveFails(outcome) ==
  /\ JobAt("resolving")
  /\ Answer(outcome, {})
  /\ UNCHANGED library /\ Others

Resolve(found) ==
  /\ JobAt("resolving")
  /\ work' = [work EXCEPT !.open = found] /\ Goto("attempting")
  /\ UNCHANGED <<results, links, library>> /\ Others

CandidateFails(m, why) ==
  /\ JobAt("attempting") /\ m \in work.open
  /\ why \in FailuresOf[m]
  /\ work' = [work EXCEPT !.open = @ \ {m}, !.tried = @ \cup {m}, !.failed = @ \cup {why}]
  /\ UNCHANGED <<job, results, links, library>> /\ Others

\* The text cannot be extracted, or needs OCR; the raw artifact stays.
ExtractionFails(l) ==
  /\ JobAt("attempting") /\ "pdf" \in work.open
  /\ work' = [work EXCEPT !.open = @ \ {"pdf"}, !.tried = @ \cup {"pdf"},
                          !.failed = @ \cup {"hard"}]
  /\ stored' = [stored EXCEPT ![l]["pdf"] = @ \cup {"raw"}]
  /\ UNCHANGED <<job, results, links, document>> /\ Others

\* The landing page, when no direct candidate succeeded; what was tried is
\* not tried again.
Landing == work.open = {} /\ work.res \in DOIs /\ work.landing = "none"
DiscoverLanding(found) ==
  /\ JobAt("attempting") /\ Landing
  /\ work' = [work EXCEPT !.landing = "found", !.open = found \ work.tried]
  /\ UNCHANGED <<job, results, links, library>> /\ Others
LandingFails(code) ==
  /\ JobAt("attempting") /\ Landing
  /\ work' = [work EXCEPT !.landing = code]
  /\ UNCHANGED <<job, results, links, library>> /\ Others

FinalStatus(failed, landing) ==
  LET codes == failed \cup ({landing} \cap Failures) IN
  CASE "metadata" \in failed -> "metadata_only"
    [] codes = {"auth"} -> "auth"
    [] "metadata" \notin failed /\ failed = {"unsupported"} -> "unavailable"
    [] "metadata" \notin failed /\ failed # {"unsupported"} /\ "hard" \in codes -> "failed"
    [] OTHER -> "unavailable"

GiveUp ==
  /\ JobAt("attempting") /\ work.open = {} /\ ~Landing
  /\ Answer(FinalStatus(work.failed, work.landing), {})
  /\ UNCHANGED library /\ Others

-----------------------------------------------------------------------------
(* ingest: the records of one representation, in the order of Chain.        *)

Ingest(m, l) ==
  /\ JobAt("attempting") /\ m \in work.open
  /\ work' = [work EXCEPT !.lit = l, !.medium = m] /\ Goto("ingesting")
  /\ UNCHANGED <<results, links, library>> /\ Others

\* Faulty: a work that has a document is taken for ingested.
WriteUnlessKnown ==
  /\ JobAt("ingesting") /\ work.written < Len(Chain)
  /\ IF document[work.lit] # "none"
     THEN work' = [work EXCEPT !.written = Len(Chain)] /\ UNCHANGED library
     ELSE /\ work' = [work EXCEPT !.written = @ + 1]
          /\ IF Chain[work.written + 1] = "document"
             THEN document' = [document EXCEPT ![work.lit] = work.medium]
                  /\ UNCHANGED stored
             ELSE stored' = [stored EXCEPT ![work.lit][work.medium] =
                               @ \cup {Chain[work.written + 1]}]
                  /\ UNCHANGED document
  /\ UNCHANGED <<job, results, links>> /\ Others

\* The first document of a work stays, whatever metadata the next
\* representation comes with; every other record is left when it is there.
Finalized(l, m) == IF document[l] = "none" THEN m ELSE document[l]

Write ==
  /\ JobAt("ingesting") /\ work.written < Len(Chain)
  /\ work' = [work EXCEPT !.written = @ + 1]
  /\ IF Chain[work.written + 1] = "document"
     THEN /\ document' = [document EXCEPT ![work.lit] = Finalized(work.lit, work.medium)]
          /\ UNCHANGED stored
     ELSE /\ stored' = [stored EXCEPT ![work.lit][work.medium] =
                          @ \cup {Chain[work.written + 1]}]
          /\ UNCHANGED document
  /\ UNCHANGED <<job, results, links>> /\ Others

Ingested ==
  /\ JobAt("ingesting") /\ work.written = Len(Chain)
  /\ Answer("ingested", {[res |-> work.res, lit |-> work.lit, medium |-> work.medium]})
  /\ UNCHANGED library /\ Others

-----------------------------------------------------------------------------
(* run: one result for every resource, then the record.                     *)

Acquiring == job.step \in {"resolving", "attempting", "ingesting"}

\* Faulty: an exception goes on with the next resource and forgets this one.
RaisesForgotten ==
  /\ Acquiring
  /\ work' = NoWork /\ Goto("importing")
  /\ UNCHANGED <<results, links, library>> /\ Others

\* An expected exception of add: invalid metadata, a conflicting record, a
\* file that cannot be written.  The resource failed, the batch goes on.
Raises ==
  /\ Acquiring
  /\ Answer("failed", {})
  /\ UNCHANGED library /\ Others

ImportStatus ==
  LET total == Cardinality(Discovered) IN
  CASE snapshot.status = "auth" /\ total = 0 -> "auth"
    [] snapshot.status = "failed" /\ total = 0 -> "failed"
    [] snapshot.status = "proven_complete"
       /\ \A r \in Discovered : results[r] \in {"ingested", "metadata_only"} -> "complete"
    [] OTHER -> "partial"

\* The works of the collection, one membership for all links of a work.
Members == {link.lit : link \in links}

Close ==
  /\ JobAt("importing") /\ job.todo = {}
  /\ record' = [status |-> ImportStatus, snapshot |-> snapshot, results |-> results,
                members |-> Members]
  /\ job' = NoJob
  /\ snapshot' = NoSnapshot /\ results' = NoResults /\ links' = {}
  /\ UNCHANGED <<walk, work, library>>

\* An interruption, or an exception nobody expects.
KillImport ==
  /\ ~JobAt("idle")
  /\ job' = NoJob
  /\ walk' = NoWalk /\ snapshot' = NoSnapshot /\ work' = NoWork
  /\ results' = NoResults /\ links' = {}
  /\ UNCHANGED <<library, record>>

-----------------------------------------------------------------------------

Traverse ==
  \/ \E auth \in BOOLEAN : FetchFails(auth)
  \/ \E page \in Contents : FetchPage(page)
  \/ EntryOutside \/ Classify \/ Release

Acquire ==
  \/ \E r \in Resources : Take(r)
  \/ \E outcome \in {"failed", "auth", "unavailable"} : ResolveFails(outcome)
  \/ \E found \in Candidates : Resolve(found) \/ DiscoverLanding(found)
  \/ \E m \in Media, why \in Failures : CandidateFails(m, why)
  \/ \E l \in Literature : ExtractionFails(l) \/ \E m \in Media : Ingest(m, l)
  \/ \E code \in {"auth", "hard", "soft"} : LandingFails(code)
  \/ GiveUp \/ Write \/ Ingested \/ Raises

ImportNext ==
  \/ \E policy \in Policies : Start(policy)
  \/ Traverse \/ Acquire \/ Close \/ KillImport

ImportSpec == ImportInit /\ [][ImportNext]_importVars

-----------------------------------------------------------------------------
(* Properties. *)

Steps == {"idle", "walking", "snapshot", "importing", "resolving", "attempting",
          "ingesting"}
Snapshots ==
  [class : [Resources -> Classes],
   status : {"none", "auth", "failed", "dynamic", "partial", "proven_complete",
             "unverified"}]
Results == [Resources -> Outcomes \cup {"none"}]

Jobs == [step : Steps, policy : Policies \cup {NoPolicy}, todo : SUBSET Resources]
Walks ==
  [queue : SUBSET [page : Pages, depth : Nat], page : [Pages -> {"unseen", "ok", "failed"}],
   linked : SUBSET (Pages \cup {Outside}), class : [Resources -> Classes],
   seen : Mentions, reasons : SUBSET {"dynamic", "limited"},
   paginated : BOOLEAN, auth : BOOLEAN, dropped : BOOLEAN]
Works ==
  [res : Resources \cup {"none"}, open : SUBSET Media, tried : SUBSET Media,
   failed : SUBSET Failures, landing : {"none", "found"} \cup Failures,
   lit : Literature \cup {"none"}, medium : Media \cup {"none"}, written : 0 .. Len(Chain)]
ImportRecords ==
  [status : {"none", "auth", "failed", "complete", "partial"}, snapshot : Snapshots,
   results : Results, members : SUBSET Literature]

\* The types of an import's locals, of its results and of the library.
ImportTypeOK ==
  /\ job \in Jobs /\ walk \in Walks /\ snapshot \in Snapshots /\ work \in Works
  /\ results \in Results
  /\ links \subseteq [res : Resources, lit : Literature, medium : Media]
  /\ stored \in [Literature -> [Media -> SUBSET Artifacts]]
  /\ document \in [Literature -> Media \cup {"none"}]
  /\ record \in ImportRecords

\* A collection that is proven complete was retrieved completely: no link of
\* a retrieved page was left out, no page failed, and no resource it names
\* was dropped (K1D: limits, cycles and failures are explicit).
ProvenIsExhaustive ==
  JobAt("snapshot") /\ snapshot.status = "proven_complete" =>
    /\ 1 \in Retrieved
    /\ walk.linked \subseteq Retrieved
    /\ \A mention \in walk.seen : mention[1] \in Discovered

\* A resource is a member exactly when some page it was found on makes it one,
\* in whatever order the pages come (K1D.2).
StrongestDecision ==
  JobAt("snapshot") => \A r \in Discovered :
    snapshot.class[r] = "eligible" <=> <<r, "eligible">> \in walk.seen

\* An import record accounts for every discovered resource, whatever failed
\* on the way, and is only complete when everything was retrieved.
EveryResourceAnswered ==
  record.status # "none" =>
    /\ \A r \in Resources :
         /\ record.results[r] = "none" <=> record.snapshot.class[r] = "absent"
         /\ record.results[r] = "unverified" <=> record.snapshot.class[r] = "unverified"
    /\ record.status = "complete" => record.snapshot.status = "proven_complete"

\* What an import calls ingested has its whole chain in the library, down to
\* the document, although an earlier import was killed in the middle of it or
\* the work was ingested from another medium.
IngestedIsBacked ==
  /\ \A link \in links : /\ stored[link.lit][link.medium] = Artifacts
                        /\ document[link.lit] # "none"
  /\ \A l \in record.members : \E m \in Media : stored[l][m] = Artifacts
=============================================================================
