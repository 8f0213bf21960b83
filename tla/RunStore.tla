------------------------------ MODULE RunStore ------------------------------
(***************************************************************************)
(* The files of one scientific run (ScientificProblemRunRepository) and    *)
(* the processes that share them.  ScientificRun treats a call as the only *)
(* one and a write as one step; here a call looks whether a file exists,   *)
(* opens it, which empties it, writes it and replaces run.json in steps of *)
(* their own, and start, resume and export run side by side:               *)
(*                                                                         *)
(*   start   reads run.json, or creates and saves the run, takes the lock, *)
(*           and advances the copy it read before                          *)
(*   resume  takes the lock, reads run.json and advances that              *)
(*   export  reads run.json and saves it as EXPORTED, without the lock     *)
(*                                                                         *)
(* What advancing computes is left out: it makes contents of run.json,     *)
(* which are the same, with the same hash, when two calls make the same of *)
(* the same copy.  What is written goes out in one system call, after the  *)
(* one that opens the file.                                                *)
(***************************************************************************)
EXTENDS Naturals, Sequences, FiniteSets, TLC

CONSTANTS
  Procs,        \* the processes that call the service
  Contents,     \* what a planner can answer for the same immutable artifact
  MaxVersions,  \* bound on the contents run.json takes
  MaxClaims     \* bound on the attempt files

Unwritten == "unwritten"
Partial == "partial"

\* A process is no state of the lock, and no content looks like a file that is
\* not there or half written.
ASSUME StoreAssumption ==
  /\ MaxVersions \in Nat \ {0} /\ MaxClaims \in Nat
  /\ "free" \notin Procs /\ "stale" \notin Procs
  /\ Unwritten \notin Contents /\ Partial \notin Contents

VARIABLES
  made,      \* the contents ever given to run.json, in the order they were made
  runFile,   \* run.json: a position in made, 0 when there is no file
  history,   \* history/<hash>.json, by position
  artifact,  \* an immutable artifact of the run
  claims,    \* the attempt files, each with the processes that created it
  lock,      \* .resume.lock: free, a process, or left by a killed one
  broken,    \* somebody removed the lock of a call that was still running
  proc       \* the calls

vars == <<made, runFile, history, artifact, claims, lock, broken, proc>>

Kinds == {"created", "working", "approved", "exported"}

\* Contents of run.json: what they were made from, and the immutable artifact
\* they bind.
Version == [from : 0 .. MaxVersions, kind : Kinds, bound : Contents \cup {Unwritten}]

\* The first contents are those of the new run, the same for every starter.
Created == [from |-> 0, kind |-> "created", bound |-> Unwritten]

\* A call holds a copy of the run, where it goes on after a save, what it
\* computed for the artifact, and the attempt index it counted.
Call == [op : {"none", "start", "resume", "export"},
         pc : {"idle", "locking", "reading", "saving", "checked", "opening", "history",
               "replacing", "advancing", "creating", "writing", "binding", "claiming"},
         then : {"none", "locking", "advancing", "return"},
         copy : 0 .. MaxVersions, content : Contents \cup {Unwritten},
         index : 0 .. MaxClaims]

Idle == [op |-> "none", pc |-> "idle", then |-> "none", copy |-> 0,
         content |-> Unwritten, index |-> 0]

Init ==
  /\ made = <<Created>>
  /\ runFile = 0
  /\ history = [v \in 1 .. MaxVersions |-> Unwritten]
  /\ artifact = Unwritten
  /\ claims = <<>>
  /\ lock = "free"
  /\ broken = FALSE
  /\ proc = [p \in Procs |-> Idle]

At(p, pc) == proc[p].pc = pc
Goto(p, pc) == proc' = [proc EXCEPT ![p].pc = pc]

\* Inside acquire_run_lock.
Inside(p) ==
  /\ proc[p].op \in {"start", "resume"}
  /\ proc[p].pc \notin {"idle", "locking"} /\ proc[p].then # "locking"

\* A call returns or raises.  The context manager removes the lock directory,
\* whoever made it.
Leave(p) ==
  /\ proc' = [proc EXCEPT ![p] = Idle]
  /\ lock' = IF Inside(p) THEN "free" ELSE lock

-----------------------------------------------------------------------------
(* The three calls. *)

Start(p) ==
  /\ At(p, "idle")
  /\ proc' = [proc EXCEPT ![p] =
       IF runFile = 0
       THEN [Idle EXCEPT !.op = "start", !.pc = "saving", !.then = "locking", !.copy = 1]
       ELSE [Idle EXCEPT !.op = "start", !.pc = "locking", !.copy = runFile]]
  /\ UNCHANGED <<made, runFile, history, artifact, claims, lock, broken>>

Resume(p) ==
  /\ At(p, "idle")
  /\ proc' = [proc EXCEPT ![p] = [Idle EXCEPT !.op = "resume", !.pc = "locking"]]
  /\ UNCHANGED <<made, runFile, history, artifact, claims, lock, broken>>

Export(p) ==
  /\ At(p, "idle")
  /\ runFile # 0 /\ made[runFile].kind \in {"approved", "exported"}
  /\ proc' = [proc EXCEPT ![p] =
       [Idle EXCEPT !.op = "export", !.pc = "advancing", !.copy = runFile]]
  /\ UNCHANGED <<made, runFile, history, artifact, claims, lock, broken>>

Refused(p) ==
  /\ At(p, "locking") /\ lock # "free"
  /\ Leave(p)
  /\ UNCHANGED <<made, runFile, history, artifact, claims, broken>>

\* Faulty: an existing lock directory is good enough.
LockShared(p) ==
  /\ At(p, "locking")
  /\ lock' = p
  /\ Goto(p, IF proc[p].op = "start" THEN "advancing" ELSE "reading")
  /\ UNCHANGED <<made, runFile, history, artifact, claims, broken>>

Lock(p) ==
  /\ At(p, "locking") /\ lock = "free"
  /\ lock' = p
  /\ Goto(p, IF proc[p].op = "start" THEN "advancing" ELSE "reading")
  /\ UNCHANGED <<made, runFile, history, artifact, claims, broken>>

\* resume reads run.json under the lock; without a run it raises.
Read(p) ==
  /\ At(p, "reading")
  /\ IF runFile = 0 THEN Leave(p)
     ELSE /\ proc' = [proc EXCEPT ![p].pc = "advancing", ![p].copy = runFile]
          /\ UNCHANGED lock
  /\ UNCHANGED <<made, runFile, history, artifact, claims, broken>>

-----------------------------------------------------------------------------
(* save: the history file in place, then run.json by replacement. *)

\* Faulty: a history file that exists is not compared with the contents.
CompareHistoryTrusting(p) ==
  /\ At(p, "saving")
  /\ Goto(p, IF history[proc[p].copy] = Unwritten THEN "checked" ELSE "replacing")
  /\ UNCHANGED <<made, runFile, history, artifact, claims, lock, broken>>

\* A history file with other bytes raises, and so does one that another
\* process is writing or left half written.
CompareHistory(p) ==
  /\ At(p, "saving")
  /\ LET old == history[proc[p].copy] IN
     \/ old = Unwritten /\ Goto(p, "checked") /\ UNCHANGED lock
     \/ old = "complete" /\ Goto(p, "replacing") /\ UNCHANGED lock
     \/ old = Partial /\ Leave(p)
  /\ UNCHANGED <<made, runFile, history, artifact, claims, broken>>

\* The second look: a file that came up since the first is left alone, whatever
\* it holds.
LookAgain(p) ==
  /\ At(p, "checked")
  /\ Goto(p, IF history[proc[p].copy] = Unwritten THEN "opening" ELSE "replacing")
  /\ UNCHANGED <<made, runFile, history, artifact, claims, lock, broken>>

\* Opening empties a file that came up since the second look.
OpenHistory(p) ==
  /\ At(p, "opening")
  /\ history' = [history EXCEPT ![proc[p].copy] = Partial]
  /\ Goto(p, "history")
  /\ UNCHANGED <<made, runFile, artifact, claims, lock, broken>>

EndHistory(p) ==
  /\ At(p, "history")
  /\ history' = [history EXCEPT ![proc[p].copy] = "complete"]
  /\ Goto(p, "replacing")
  /\ UNCHANGED <<made, runFile, artifact, claims, lock, broken>>

ReplaceRun(p) ==
  /\ At(p, "replacing")
  /\ runFile' = proc[p].copy
  /\ IF proc[p].then = "return" THEN Leave(p)
     ELSE /\ proc' = [proc EXCEPT ![p].pc = proc[p].then, ![p].then = "none"]
          /\ UNCHANGED lock
  /\ UNCHANGED <<made, history, artifact, claims, broken>>

-----------------------------------------------------------------------------
(* Advancing the copy. *)

\* The call goes on to save these contents.
SaveNext(p, v, then) ==
  proc' = [proc EXCEPT ![p].pc = "saving", ![p].then = then,
                       ![p].copy = v, ![p].content = Unwritten]

\* _update_run and save: the copy changed and bound to an artifact.  Contents
\* that another call made of the same copy are the same contents.
Make(p, kind, then, bound) ==
  LET new == [from |-> proc[p].copy, kind |-> kind, bound |-> bound] IN
  /\ \/ \E v \in DOMAIN made : made[v] = new /\ SaveNext(p, v, then) /\ UNCHANGED made
     \/ /\ \A v \in DOMAIN made : made[v] # new
        /\ Len(made) < MaxVersions
        /\ made' = Append(made, new)
        /\ SaveNext(p, Len(made) + 1, then)
  /\ UNCHANGED <<runFile, history, artifact, claims, lock, broken>>

Advance(p, kind) ==
  /\ At(p, "advancing") /\ Inside(p)
  /\ Make(p, kind, "advancing", made[proc[p].copy].bound)

SaveExported(p) ==
  /\ At(p, "advancing") /\ proc[p].op = "export"
  /\ Make(p, "exported", "return", made[proc[p].copy].bound)

\* The call goes on with what it computed for the artifact.
Answer(p, pc, content) ==
  proc' = [proc EXCEPT ![p].pc = pc, ![p].content = content]

\* Faulty: an artifact with other contents is written over.
CompareArtifactOver(p, content) ==
  /\ At(p, "advancing") /\ Inside(p)
  /\ Answer(p, IF artifact = content THEN "binding" ELSE "creating", content)
  /\ UNCHANGED <<made, runFile, history, artifact, claims, lock, broken>>

\* write_immutable_artifact looks for the file; one with other contents, or
\* half of one, raises.
CompareArtifact(p, content) ==
  /\ At(p, "advancing") /\ Inside(p)
  /\ \/ artifact = Unwritten /\ Answer(p, "creating", content) /\ UNCHANGED lock
     \/ artifact = content /\ Answer(p, "binding", content) /\ UNCHANGED lock
     \/ artifact \notin {Unwritten, content} /\ Leave(p)
  /\ UNCHANGED <<made, runFile, history, artifact, claims, broken>>

\* Opening empties a file that came up since the look.
OpenArtifact(p) ==
  /\ At(p, "creating")
  /\ artifact' = Partial
  /\ Goto(p, "writing")
  /\ UNCHANGED <<made, runFile, history, claims, lock, broken>>

\* Over what another writer has written since, the end of longer contents
\* stays behind.
EndArtifact(p) ==
  /\ At(p, "writing")
  /\ \/ artifact' = proc[p].content
     \/ artifact \notin {Partial, proc[p].content} /\ artifact' = Partial
  /\ Goto(p, "binding")
  /\ UNCHANGED <<made, runFile, history, claims, lock, broken>>

\* The binding has the hash of what the call computed; the file is not read
\* again.
BindArtifact(p) ==
  /\ At(p, "binding")
  /\ Make(p, "working", "advancing", proc[p].content)

\* The next attempt index is counted, then its file is created exclusively.
CountClaims(p) ==
  /\ At(p, "advancing") /\ Inside(p) /\ Len(claims) < MaxClaims
  /\ proc' = [proc EXCEPT ![p].pc = "claiming", ![p].index = Len(claims) + 1]
  /\ UNCHANGED <<made, runFile, history, artifact, claims, lock, broken>>

Claim(p) ==
  /\ At(p, "claiming")
  /\ IF proc[p].index \in DOMAIN claims
     THEN Leave(p) /\ UNCHANGED claims
     ELSE /\ claims' = Append(claims, {p})
          /\ Goto(p, "advancing") /\ UNCHANGED lock
  /\ UNCHANGED <<made, runFile, history, artifact, broken>>

Finish(p) ==
  /\ At(p, "advancing")
  /\ Leave(p)
  /\ UNCHANGED <<made, runFile, history, artifact, claims, broken>>

-----------------------------------------------------------------------------
\* The process is killed: what it was writing stays half written, and its lock
\* directory stays.
Kill(p) ==
  /\ ~At(p, "idle")
  /\ proc' = [proc EXCEPT ![p] = Idle]
  /\ lock' = IF lock = p THEN "stale" ELSE lock
  /\ UNCHANGED <<made, runFile, history, artifact, claims, broken>>

\* Somebody removes the lock directory by hand.  The refusal says "already
\* being resumed or has an unreconciled stale lock": it may be a live one.
RemoveLock ==
  /\ lock # "free"
  /\ lock' = "free"
  /\ broken' = (broken \/ lock # "stale")
  /\ UNCHANGED <<made, runFile, history, artifact, claims, proc>>

Next ==
  \/ \E p \in Procs :
       \/ Start(p) \/ Resume(p) \/ Export(p)
       \/ Refused(p) \/ Lock(p) \/ Read(p)
       \/ CompareHistory(p) \/ LookAgain(p) \/ OpenHistory(p) \/ EndHistory(p)
       \/ ReplaceRun(p)
       \/ \E kind \in {"working", "approved"} : Advance(p, kind)
       \/ SaveExported(p)
       \/ \E content \in Contents : CompareArtifact(p, content)
       \/ OpenArtifact(p) \/ EndArtifact(p) \/ BindArtifact(p)
       \/ CountClaims(p) \/ Claim(p)
       \/ Finish(p) \/ Kill(p)
  \/ RemoveLock

Spec == Init /\ [][Next]_vars

-----------------------------------------------------------------------------
(* Properties. *)

\* Every file and local has its shape.
TypeOK ==
  /\ made \in Seq(Version) /\ Len(made) \in 1 .. MaxVersions
  /\ runFile \in 0 .. Len(made)
  /\ history \in [1 .. MaxVersions -> {Unwritten, Partial, "complete"}]
  /\ artifact \in Contents \cup {Unwritten, Partial}
  /\ claims \in Seq(SUBSET Procs)
  /\ lock \in Procs \cup {"free", "stale"}
  /\ broken \in BOOLEAN
  /\ proc \in [Procs -> Call]

\* Contents that only a call inside the lock makes; the others are those of a
\* new run and of an export.
MadeInside(v) == made[v].kind \in {"working", "approved"}

\* The contents run.json holds, and all that others were made from.
Named == ({runFile} \cup {made[v].from : v \in DOMAIN made}) \ {0}

\* run.json is never ahead of its history: what it holds and all it descends
\* from has a history file, and a complete one when it was made under a lock
\* that nobody took away, wherever savers were killed.  Two calls that save the
\* same new or exported run without the lock may both find no file, and the
\* second to open it empties what run.json already names (see HistoryWhole).
HistoryComplete ==
  \A v \in Named :
    /\ history[v] # Unwritten
    /\ ~broken /\ MadeInside(v) => history[v] = "complete"

\* What run.json binds exists, complete and with the bound contents, under a
\* lock that nobody took away: a killed or earlier writer of an immutable
\* artifact is never taken for a complete one, although it is written in place.
BindingsHold ==
  ~broken => \A v \in DOMAIN made :
               made[v].bound # Unwritten => artifact = made[v].bound

\* A resume builds on what is stored: it replaces the contents it made its own
\* from, or those of a call that does not wait for the lock (an export, or a
\* start that creates the run), unless the lock was taken away from it.
ResumeKeepsWork ==
  [][\A p \in Procs :
       At(p, "replacing") /\ proc'[p] # proc[p] /\ runFile' # runFile
         /\ proc[p].op = "resume" /\ ~broken =>
           \/ made[runFile'].from = runFile
           \/ made[runFile].kind = "exported" \/ runFile = 1]_vars

(* Statements that do not hold; no run checks them. *)

\* All that run.json holds is complete in the history.
HistoryWhole == \A v \in Named : history[v] = "complete"

\* A bound artifact stays as it is, even when the lock of a live call was
\* removed.
BindingsAlwaysHold ==
  \A v \in DOMAIN made : made[v].bound # Unwritten => artifact = made[v].bound

\* No save replaces anything but the contents it was made from.
UpdatesKept == [][runFile' # runFile => made[runFile'].from = runFile]_vars

\* Processes are interchangeable, and so are the contents.
Symmetry == Permutations(Procs) \cup Permutations(Contents)

=============================================================================
