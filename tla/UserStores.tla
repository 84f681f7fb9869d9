----------------------------- MODULE UserStores ------------------------------
(* The files all projects of a user share: ~/.forge/memory.yaml            *)
(* (memory/global_store.py, use_cases/global_memory.py), profiles.yaml     *)
(* (memory/project_profiles.py) and one skill (use_cases/skills.py).  Each *)
(* is read, changed and rewritten as a whole, without a lock; a write      *)
(* truncates the file before it fills it.                                  *)
EXTENDS Naturals, FiniteSets

CONSTANTS
  Procs, Projects,
  Texts,        \* texts of lessons
  Patterns,     \* what a project's profile collects
  MinProjects   \* of suggest_promotions

Statuses == {"proposed", "approved", "installed"}

\* An operation is named for the text it promotes, the status it gives the skill,
\* or is one of these.
Words == Statuses \cup {"none", "profile", "garbled"}

UserStoresAssumption == MinProjects \in Nat /\ IsFiniteSet(Projects) /\ Texts \cap Words = {}

VARIABLES
  memory,     \* memory.yaml: its lessons, and of each the projects that use it
  profiles,   \* profiles.yaml: of each project its patterns
  skill,      \* the skill's file
  proc,       \* proc[p]: the operation p is in, and the document it will write
  promoted,   \* promoted[t]: the projects that have asked to promote t
  returned,   \* returned[t]: the ones of them that were told it is promoted since
              \* commands last overlapped or a write was cut
  blessed,    \* somebody has approved the skill
  disturbed   \* two of the operations under way overlapped, or a write was cut

vars == <<memory, profiles, skill, proc, promoted, returned, blessed, disturbed>>

Garbled == [garbled |-> TRUE]
Idle == [at |-> "idle", op |-> "none", project |-> {}, doc |-> <<>>]

\* A document of lessons: a function from some texts to the projects that use them.
IsMemory(doc) == DOMAIN doc \subseteq Texts /\ \A t \in DOMAIN doc : doc[t] \subseteq Projects
IsProfiles(doc) == DOMAIN doc \subseteq Projects /\ \A x \in DOMAIN doc : doc[x] \subseteq Patterns

TypeOK ==
  /\ memory = Garbled \/ IsMemory(memory)
  /\ profiles = Garbled \/ IsProfiles(profiles)
  /\ skill \in Statuses \cup {"absent", "empty"}
  /\ \A p \in Procs :
       /\ proc[p].at \in {"idle", "loaded", "open"} /\ proc[p].project \subseteq Projects
       /\ CASE proc[p].op \in Statuses \cup {"none"} -> proc[p].doc = <<>>
            [] proc[p].op = "profile" -> IsProfiles(proc[p].doc)
            [] OTHER -> proc[p].op \in Texts /\ IsMemory(proc[p].doc)
  /\ promoted \in [Texts -> SUBSET Projects] /\ returned \in [Texts -> SUBSET Projects]
  /\ blessed \in BOOLEAN /\ disturbed \in BOOLEAN

Unasked == [t \in Texts |-> {}]

Init ==
  /\ memory = <<>> /\ profiles = <<>> /\ skill = "absent" /\ proc = [p \in Procs |-> Idle]
  /\ promoted = Unasked /\ returned = Unasked
  /\ blessed = FALSE /\ disturbed = FALSE

Busy == {p \in Procs : proc[p].at # "idle"}

Load(p, op, project, doc) ==
  /\ proc[p].at = "idle"
  /\ proc' = [proc EXCEPT ![p] = [at |-> "loaded", op |-> op, project |-> project, doc |-> doc]]
  /\ disturbed' = (Busy # {})
  /\ returned' = IF disturbed' THEN Unasked ELSE returned

(***************************************************************************)
(* Reading.                                                                *)
(***************************************************************************)

\* load: what cannot be read or is not a document is an empty one.
Readable(file) == IF file = Garbled THEN <<>> ELSE file

\* A document that gains the key if it lacks it, and the value if it lacks that.
Of(doc, key) == IF key \in DOMAIN doc THEN doc[key] ELSE {}
With(doc, key, value) ==
  [k \in DOMAIN doc \cup {key} |-> Of(doc, k) \cup (IF k = key THEN {value} ELSE {})]

\* promote_lesson: found by its text, or added, approved; _record_usage.
Recorded(doc, text, project) == With(doc, text, project)

\* Whatever the lesson's status in its project.
LoadToPromote(p, project, text) ==
  /\ Load(p, text, {project}, Recorded(Readable(memory), text, project))
  /\ promoted' = [promoted EXCEPT ![text] = @ \cup {project}]
  /\ UNCHANGED <<memory, profiles, skill, blessed>>

\* add_pattern and upsert_profile: no pattern twice.
LoadToProfile(p, project, pattern) ==
  /\ Load(p, "profile", {project}, With(Readable(profiles), project, pattern))
  /\ UNCHANGED <<memory, profiles, skill, promoted, blessed>>

\* propose_skill: only a name that has no file.
LoadToPropose(p) ==
  /\ skill = "absent" /\ Load(p, "proposed", {}, <<>>)
  /\ UNCHANGED <<memory, profiles, skill, promoted, blessed>>

\* approve_skill: whatever its status; an empty file is an error.
LoadToApprove(p) ==
  /\ skill \in Statuses /\ Load(p, "approved", {}, <<>>) /\ blessed' = TRUE
  /\ UNCHANGED <<memory, profiles, skill, promoted>>

Installable(status) == status = "approved"

LoadToInstall(p) ==
  /\ Installable(skill) /\ Load(p, "installed", {}, <<>>)
  /\ UNCHANGED <<memory, profiles, skill, promoted, blessed>>

(***************************************************************************)
(* save: write_text opens, which truncates, and writes.                    *)
(***************************************************************************)

Rewrites(p, doc, text) ==
  CASE proc[p].op \in Statuses -> skill' = text /\ UNCHANGED <<memory, profiles>>
    [] proc[p].op = "profile" -> profiles' = doc /\ UNCHANGED <<memory, skill>>
    [] OTHER -> memory' = doc /\ UNCHANGED <<profiles, skill>>

Open(p) ==
  /\ proc[p].at = "loaded" /\ Rewrites(p, <<>>, "empty")
  /\ proc' = [proc EXCEPT ![p].at = "open"]
  /\ UNCHANGED <<promoted, returned, blessed, disturbed>>

Write(p) ==
  /\ proc[p].at = "open" /\ Rewrites(p, proc[p].doc, proc[p].op)
  /\ returned' = IF disturbed \/ proc[p].op \notin Texts THEN returned
                 ELSE [returned EXCEPT ![proc[p].op] = @ \cup proc[p].project]
  /\ proc' = [proc EXCEPT ![p] = Idle]
  /\ UNCHANGED <<promoted, blessed, disturbed>>

\* A full disk, or a kill.
WriteIsCut(p) ==
  /\ proc[p].at = "open" /\ disturbed' = TRUE /\ returned' = Unasked
  /\ proc' = [proc EXCEPT ![p] = Idle]
  /\ \/ UNCHANGED <<memory, profiles, skill>>
     \/ Rewrites(p, Garbled, "empty")
  /\ UNCHANGED <<promoted, blessed>>

Next ==
  \E p \in Procs :
    \/ \E project \in Projects :
         \/ \E text \in Texts : LoadToPromote(p, project, text)
         \/ \E pattern \in Patterns : LoadToProfile(p, project, pattern)
    \/ LoadToPropose(p) \/ LoadToApprove(p) \/ LoadToInstall(p)
    \/ Open(p) \/ Write(p) \/ WriteIsCut(p)

Spec == Init /\ [][Next]_vars

(***************************************************************************)
(* Properties.                                                             *)
(***************************************************************************)

\* suggest_promotions.
Suggested ==
  IF memory = Garbled THEN {}
  ELSE {t \in DOMAIN memory : Cardinality(memory[t]) >= MinProjects}

\* Overlapping commands and cut writes may lose a promotion but never invent
\* one: a lesson is suggested only if so many projects asked to promote it, and
\* a skill is installed only if somebody approved it.
NothingIsInvented ==
  /\ \A t \in Suggested : Cardinality(promoted[t]) >= MinProjects
  /\ skill = "installed" => blessed

\* Overlapping commands and cut writes lose promotions: from the next command
\* that runs alone on, every promotion that returns is there, with every project
\* that asked for it, until commands overlap again.
PromotionsAreKept ==
  Busy = {} =>
    \A t \in Texts : returned[t] # {} => t \in DOMAIN memory /\ returned[t] \subseteq memory[t]
=============================================================================
