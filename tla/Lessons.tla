------------------------------ MODULE Lessons -------------------------------
(* memory/lessons.py with dreamer/decay.py, dreamer/tensions.py and the    *)
(* pending lesson of memory/reflections.py: .forge/lessons.yaml, loaded,   *)
(* changed and rewritten as a whole by CLI commands, agent runs and the    *)
(* daemon, without a lock.  A write truncates the file before it fills it. *)
EXTENDS Naturals, Sequences, FiniteSets, FiniteSetsExt

CONSTANTS
  Procs,
  Topics,            \* texts of lessons
  MaxLessons, MaxTime,   \* bounds on the lessons made and on the clock
  Weak, Faint,       \* confidence below what is injected, and below the dormancy
                     \* threshold, in steps of decay ...
  PerUnit,           \* ... of which one unit of time without use costs so many
  IdleLimit          \* dormancy_days, in units of time

LessonsAssumption == {MaxLessons, MaxTime, Weak, Faint, PerUnit, IdleLimit} \subseteq Nat

Ids == 1..MaxLessons
Never == MaxTime + 1

VARIABLES
  file,       \* the file: a document, or what a write left that did not finish
  proc,       \* proc[p]: the operation p is in, what it has read, and the document it will write
  now,
  made,       \* the lessons made so far: their ids are unique
  wanted,     \* wanted[i]: the last decision about lesson i that returned since commands
              \* last overlapped or a write was cut
  vetted,     \* the lessons whose approval ever returned
  injected,   \* the lessons given to agents
  disturbed   \* two of the commands under way overlapped, or a write was cut

vars == <<file, proc, now, made, wanted, vetted, injected, disturbed>>

\* A lesson has the confidence it was made with when it has faded by 0 steps.
Lesson ==
  [id : Ids, topic : Topics, status : {"pending", "approved", "deprecated"},
   faded : Nat, used : 0..Never, approved : 0..Never, dormant : BOOLEAN]

Text(doc) == [kind |-> "text", doc |-> doc]
Garbled == [kind |-> "garbled"]
\* A missing file and an empty one both read as an empty document.
Empty == Text(<<>>)

Idle == [at |-> "idle", op |-> "list", ids |-> {}, doc |-> <<>>]
Ops == {"list", "add", "approve", "deprecate", "revive", "decay", "render", "reingest"}

TypeOK ==
  /\ file = Garbled \/ (file.kind = "text" /\ file.doc \in Seq(Lesson))
  /\ \A p \in Procs :
       /\ proc[p].at \in {"idle", "scanned", "loaded", "open"} /\ proc[p].op \in Ops
       /\ proc[p].ids \subseteq Ids /\ proc[p].doc \in Seq(Lesson)
  /\ now \in 0..MaxTime /\ made \in 0..MaxLessons
  /\ wanted \in [Ids -> {"pending", "approved", "deprecated"}]
  /\ vetted \subseteq Ids /\ injected \subseteq Ids /\ disturbed \in BOOLEAN

Undecided == [i \in Ids |-> "pending"]

Init ==
  /\ file = Empty /\ proc = [p \in Procs |-> Idle] /\ now = 0 /\ made = 0
  /\ wanted = Undecided /\ vetted = {} /\ injected = {} /\ disturbed = FALSE

Tick ==
  /\ now < MaxTime /\ now' = now + 1
  /\ UNCHANGED <<file, proc, made, wanted, vetted, injected, disturbed>>

IdsOf(doc) == {doc[i].id : i \in DOMAIN doc}
Busy == {p \in Procs : proc[p].at # "idle"}

\* p reads the file: what was decided is at the mercy of commands that overlap,
\* because one of them writes back what it read before the other wrote, or
\* reads the file that the other has just truncated.
Reads(p) ==
  /\ disturbed' = (Busy \ {p} # {} \/ (disturbed /\ Busy # {}))
  /\ wanted' = IF disturbed' THEN Undecided ELSE wanted

(***************************************************************************)
(* Operations on a loaded document.                                        *)
(***************************************************************************)

Change(doc, ids, New(_)) ==
  [i \in DOMAIN doc |-> IF doc[i].id \in ids THEN New(doc[i]) ELSE doc[i]]

\* Mutant: a lesson the system proposes is approved at once.
Added_Approved(doc, topic) ==
  Append(doc, [id |-> made + 1, topic |-> topic, status |-> "approved",
               faded |-> 0, used |-> Never, approved |-> now, dormant |-> FALSE])

\* The callers' confidences differ; a lesson that is to be used is given a high one.
Added(doc, topic) ==
  Append(doc, [id |-> made + 1, topic |-> topic, status |-> "pending",
               faded |-> 0, used |-> Never, approved |-> Never, dormant |-> FALSE])

Approved(doc, id) ==
  Change(doc, {id}, LAMBDA l : [l EXCEPT !.status = "approved", !.approved = now])

Deprecated(doc, id) == Change(doc, {id}, LAMBDA l : [l EXCEPT !.status = "deprecated"])

\* revive clears the dormancy, and neither the confidence nor the last use.
Revived(doc, id) == Change(doc, {id}, LAMBDA l : [l EXCEPT !.dormant = FALSE])

Used(doc, ids) == Change(doc, ids, LAMBDA l : [l EXCEPT !.used = now])

\* From last_used_at, or else approved_at; a time to come counts as none.
IdleTime(l) == Max({0, now - (IF l.used # Never THEN l.used ELSE l.approved)})

\* apply_decay: from the confidence the last pass left, for all the time since
\* the last use; dormant if the result is faint or the time is long.
Faded(l) ==
  LET faded == Min({Faint, l.faded + PerUnit * IdleTime(l)})
  IN  [l EXCEPT !.faded = faded, !.dormant = faded = Faint \/ IdleTime(l) > IdleLimit]

Decayed(doc) ==
  [i \in DOMAIN doc |->
     IF doc[i].status = "approved" /\ ~doc[i].dormant THEN Faded(doc[i]) ELSE doc[i]]

\* approved_for_context, without its limit: a lesson that has faded a little is
\* still selected.
Selectable(doc) ==
  {doc[i].id : i \in {j \in DOMAIN doc :
     doc[j].status = "approved" /\ ~doc[j].dormant /\ doc[j].faded < Weak}}

(***************************************************************************)
(* load: a document that is not YAML raises LessonStoreError.              *)
(***************************************************************************)

Readable == file # Garbled

Load(p, op, ids, doc) ==
  /\ proc' = [proc EXCEPT ![p] = [at |-> "loaded", op |-> op, ids |-> ids, doc |-> doc]]
  /\ Reads(p)

\* add: by a user, or by the reflection of a completed stage.
LoadToAdd(p, topic) ==
  /\ proc[p].at = "idle" /\ Readable /\ made < MaxLessons
  /\ Load(p, "add", {made + 1}, Added(file.doc, topic)) /\ made' = made + 1
  /\ UNCHANGED <<file, now, vetted, injected>>

\* An unknown id raises.
LoadToDecide(p, id) ==
  /\ proc[p].at = "idle" /\ Readable /\ id \in IdsOf(file.doc)
  /\ \/ Load(p, "approve", {id}, Approved(file.doc, id))
     \/ Load(p, "deprecate", {id}, Deprecated(file.doc, id))
     \/ Load(p, "revive", {id}, Revived(file.doc, id))
  /\ UNCHANGED <<file, now, made, vetted, injected>>

LoadToDecay(p) ==
  /\ proc[p].at = "idle" /\ Readable
  /\ Load(p, "decay", {}, Decayed(file.doc))
  /\ UNCHANGED <<file, now, made, vetted, injected>>

\* The first read of render_context, and that of reingest_reflections.
Scan(p, op, ids) ==
  /\ proc' = [proc EXCEPT ![p] = [at |-> "scanned", op |-> op, ids |-> ids, doc |-> <<>>]]
  /\ Reads(p)

Select(p) ==
  /\ proc[p].at = "idle" /\ Readable /\ Selectable(file.doc) # {}
  /\ Scan(p, "render", Selectable(file.doc))
  /\ UNCHANGED <<file, now, made, vetted, injected>>

\* The second read: the selection is not looked at again.
LoadToRender(p) ==
  /\ proc[p].at = "scanned" /\ proc[p].op = "render" /\ Readable
  /\ Load(p, "render", proc[p].ids, Used(file.doc, proc[p].ids))
  /\ UNCHANGED <<file, now, made, vetted, injected>>

\* A stage with three reflections whose proposal is not pending, by the first read.
ScanReflections(p) ==
  /\ proc[p].at = "idle" /\ Readable /\ Scan(p, "reingest", {})
  /\ \E topic \in Topics :
       \A i \in DOMAIN file.doc : ~(file.doc[i].topic = topic /\ file.doc[i].status = "pending")
  /\ UNCHANGED <<file, now, made, vetted, injected>>

LoadToPropose(p, topic) ==
  /\ proc[p].at = "scanned" /\ proc[p].op = "reingest" /\ Readable /\ made < MaxLessons
  /\ Load(p, "add", {made + 1}, Added(file.doc, topic)) /\ made' = made + 1
  /\ UNCHANGED <<file, now, vetted, injected>>

\* The second read of a garbled file raises; nobody is told of the selection.
ScanFails(p) ==
  /\ proc[p].at = "scanned" /\ (~Readable \/ proc[p].op = "reingest")
  /\ proc' = [proc EXCEPT ![p] = Idle]
  /\ UNCHANGED <<file, now, made, wanted, vetted, injected, disturbed>>

(***************************************************************************)
(* save: write_text opens, which truncates, and writes.                    *)
(***************************************************************************)

Open(p) ==
  /\ proc[p].at = "loaded" /\ file' = Empty
  /\ proc' = [proc EXCEPT ![p].at = "open"]
  /\ UNCHANGED <<now, made, wanted, vetted, injected, disturbed>>

\* The operation returns.  render_context raises if a selected lesson is gone.
Returns(p) ==
  /\ vetted' = IF proc[p].op = "approve" THEN vetted \cup proc[p].ids ELSE vetted
  /\ wanted' = [i \in Ids |->
       IF disturbed \/ i \notin proc[p].ids THEN wanted[i]
       ELSE CASE proc[p].op = "approve" -> "approved"
              [] proc[p].op = "deprecate" -> "deprecated"
              [] OTHER -> wanted[i]]
  /\ injected' = IF proc[p].op = "render" /\ proc[p].ids \subseteq IdsOf(proc[p].doc)
                 THEN injected \cup proc[p].ids ELSE injected

Write(p) ==
  /\ proc[p].at = "open" /\ file' = Text(proc[p].doc) /\ Returns(p)
  /\ proc' = [proc EXCEPT ![p] = Idle]
  /\ UNCHANGED <<now, made, disturbed>>

\* A full disk, or a kill: nothing, or a part, of the document is there.
WriteIsCut(p) ==
  /\ proc[p].at = "open" /\ file' \in {file, Garbled} /\ disturbed' = TRUE
  /\ wanted' = Undecided /\ proc' = [proc EXCEPT ![p] = Idle]
  /\ UNCHANGED <<now, made, vetted, injected>>

\* A kill before the write: the operation did not happen.
Kill(p) ==
  /\ proc[p].at = "loaded" /\ proc' = [proc EXCEPT ![p] = Idle]
  /\ UNCHANGED <<file, now, made, wanted, vetted, injected, disturbed>>

Next ==
  \/ Tick
  \/ \E p \in Procs :
       \/ \E topic \in Topics : LoadToAdd(p, topic) \/ LoadToPropose(p, topic)
       \/ \E id \in Ids : LoadToDecide(p, id)
       \/ LoadToDecay(p) \/ Select(p) \/ LoadToRender(p) \/ ScanReflections(p) \/ ScanFails(p)
       \/ Open(p) \/ Write(p) \/ WriteIsCut(p) \/ Kill(p)

Spec == Init /\ [][Next]_vars

(***************************************************************************)
(* Properties.                                                             *)
(***************************************************************************)

Decided(i) == wanted[i] # "pending"

\* An agent is only ever given lessons that somebody approved at some time,
\* whatever the dreamer and overlapping or killed commands do to the file: no
\* lesson the system proposed enters a context by itself.
InjectedWasApproved == injected \subseteq vetted

\* Overlapping commands and cut writes lose decisions: from the next command
\* that runs alone on, every decision that returns is there until commands
\* overlap again.  Dormancy and decay, use and re-ingestion, and decisions about
\* other lessons, change it no more than a killed command does.
DecisionsAreKept ==
  Busy = {} =>
    \A i \in Ids : Decided(i) =>
      \E k \in DOMAIN file.doc : file.doc[k].id = i /\ file.doc[k].status = wanted[i]
=============================================================================
