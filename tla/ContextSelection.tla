-------------------------- MODULE ContextSelection --------------------------
(* context/pruner.py, context/lazy.py, context/skills_reader.py and        *)
(* context/token_monitor.py: what a stage agent is told.  The artifacts    *)
(* near the stage's own, nearest first, as far as the token budget goes;   *)
(* one-line menus of skills and lessons, trimmed to a share of it.  Files  *)
(* may change between the registry's refresh and the reading of them.      *)
EXTENDS Integers, Sequences, FiniteSets, FiniteSetsExt, Functions

CONSTANTS
  Paths,         \* registered artifacts: numbers, in the order of their names
  Foreign,       \* dependencies that are not registered
  Tokens,        \* Tokens[p]: estimate_tokens at the refresh
  Sizes,         \* the tokens an edited text may have
  Budget,
  Graphs,        \* the dependencies considered
  Costs,         \* Costs[e]: the tokens of the e-th entry of a sorted menu
  WarnPercent

Nodes == Paths \cup Foreign

ContextAssumption ==
  /\ Nodes \subseteq Nat /\ IsFiniteSet(Nodes) /\ Paths \cap Foreign = {}
  /\ Tokens \in [Paths -> Nat] /\ Sizes \subseteq Nat
  /\ Budget \in Nat \ {0} /\ WarnPercent \in 1..100
  /\ Costs \in Seq(Nat) /\ Graphs \subseteq [Paths -> SUBSET Nodes]

Entries == DOMAIN Costs

VARIABLES
  at,
  own,      \* the artifacts of the stage
  deps,     \* deps[p]: what p depends on
  fresh,    \* the artifacts whose status is fresh
  calls,    \* the visits still to be made, the next one first
  found,    \* found[p]: the priority of p so far
  disk,     \* disk[p]: what happened to a file after the refresh
  todo,     \* the candidates not yet looked at
  selected, omitted, total,
  given,            \* the tokens of the texts that were read
  level,            \* what the token monitor makes of the total
  lessons, skills,  \* the entries of the lazy menus
  index, menu       \* what has been kept of them

vars ==
  <<at, own, deps, fresh, calls, found, disk, todo, selected, omitted, total, given,
    level, lessons, skills, index, menu>>

Call == [path : Nodes, priority : Nat]

TypeOK ==
  /\ at \in {"refreshed", "selecting", "selected", "graded", "failed", "lazy", "built"}
  /\ own \subseteq Paths /\ deps \in [Paths -> SUBSET Nodes] /\ fresh \subseteq Paths
  /\ calls \in Seq(Call) /\ DOMAIN found \subseteq Nodes /\ found \in [DOMAIN found -> Nat]
  /\ disk \in [Paths -> {"same", "edited", "gone"}] /\ todo \in Seq(Paths)
  /\ selected \in Seq(Paths) /\ omitted \subseteq Paths /\ total \in Nat /\ given \in Nat
  /\ level \in {"none", "ok", "warn", "error"}
  /\ lessons \subseteq Entries /\ skills \subseteq Entries
  /\ index \subseteq lessons /\ menu \subseteq skills

InOrder(S, Before(_, _)) ==
  {s \in [1..Cardinality(S) -> S] :
     /\ \A x \in S : \E i \in DOMAIN s : s[i] = x
     /\ \A i, j \in DOMAIN s : i < j => Before(s[i], s[j])}

\* One visit for each of the paths, in the order of their names.
Visits(paths, priority) ==
  {[i \in DOMAIN s |-> [path |-> s[i], priority |-> priority]] : s \in InOrder(paths, <)}

\* A stage without artifacts is told of all of them.
Roots == IF own = {} THEN Paths ELSE own

\* select has refreshed the registry, or build has read skills and lessons.
Init ==
  /\ found = <<>> /\ disk = [p \in Paths |-> "same"]
  /\ todo = <<>> /\ selected = <<>> /\ omitted = {} /\ total = 0 /\ given = 0
  /\ level = "none"
  /\ \/ /\ at = "refreshed" /\ own \in SUBSET Paths /\ fresh \in SUBSET Paths /\ deps \in Graphs
        /\ calls \in Visits(Roots, 0) /\ lessons = {} /\ skills = {}
     \/ /\ at = "lazy" /\ own = {} /\ fresh = {} /\ deps = [p \in Paths |-> {}] /\ calls = <<>>
        /\ lessons \in SUBSET Entries /\ skills \in SUBSET Entries
  /\ index = lessons /\ menu = skills

(***************************************************************************)
(* _spread_activation_priorities.                                          *)
(***************************************************************************)

\* Mutant: a path that was seen is not looked at again, however near it is now.
Improves_First(path, priority) == path \notin DOMAIN found

Improves(path, priority) ==
  path \in DOMAIN found => found[path] > priority

DepsOf(path) == IF path \in Paths THEN deps[path] ELSE {}

\* visit: depth first, dependencies in the order of their names.
Visit ==
  /\ at = "refreshed" /\ calls # <<>>
  /\ LET call == Head(calls) IN
     \/ /\ ~Improves(call.path, call.priority)
        /\ calls' = Tail(calls) /\ UNCHANGED found
     \/ /\ Improves(call.path, call.priority)
        /\ found' = [p \in DOMAIN found \cup {call.path} |->
                       IF p = call.path THEN call.priority ELSE found[p]]
        /\ \E visits \in Visits(DepsOf(call.path), call.priority + 1) :
             calls' = visits \o Tail(calls)
  /\ UNCHANGED <<at, own, deps, fresh, disk, todo, selected, omitted, total, given, level, lessons,
                 skills, index, menu>>

(***************************************************************************)
(* select.                                                                 *)
(***************************************************************************)

Nearer(p, q) == found[p] < found[q] \/ (found[p] = found[q] /\ p < q)

\* Stale and missing artifacts are passed over when their turn comes.
Sort ==
  /\ at = "refreshed" /\ calls = <<>> /\ at' = "selecting"
  /\ todo' \in InOrder(Paths \cap DOMAIN found, Nearer)
  /\ UNCHANGED <<own, deps, fresh, calls, found, disk, selected, omitted, total, given, level,
                 lessons, skills, index, menu>>

Fits(p) == total + Tokens[p] <= Budget

\* What was measured is the text of the refresh; what is read is the text by now.
Take ==
  /\ at = "selecting" /\ todo # <<>>
  /\ LET p == Head(todo) IN
       /\ p \in fresh /\ Fits(p) /\ disk[p] # "gone"
       /\ selected' = Append(selected, p) /\ total' = total + Tokens[p]
       /\ \E size \in IF disk[p] = "edited" THEN Sizes ELSE {Tokens[p]} : given' = given + size
  /\ todo' = Tail(todo)
  /\ UNCHANGED <<at, own, deps, fresh, calls, found, disk, omitted, level, lessons, skills, index,
                 menu>>

Omit ==
  /\ at = "selecting" /\ todo # <<>>
  /\ LET p == Head(todo) IN (p \notin fresh \/ ~Fits(p)) /\ omitted' = omitted \cup {p}
  /\ todo' = Tail(todo)
  /\ UNCHANGED <<at, own, deps, fresh, calls, found, disk, selected, total, given, level, lessons,
                 skills, index, menu>>

\* The call goes on to another step, and keeps what it has gathered.
Step(from, to) ==
  /\ at = from /\ at' = to
  /\ UNCHANGED <<own, deps, fresh, calls, found, disk, todo, selected, omitted, total, given,
                 lessons, skills, index, menu>>

\* _read_artifact: a file that is gone by now, or is not text.
ReadFails ==
  /\ Step("selecting", "failed") /\ UNCHANGED level
  /\ todo # <<>> /\ Head(todo) \in fresh /\ Fits(Head(todo))
  /\ disk[Head(todo)] \in {"gone", "edited"}

\* _append_audit.
Audit == todo = <<>> /\ Step("selecting", "selected") /\ UNCHANGED level

Level(used, budget) ==
  CASE used >= budget -> "error"
    [] used < budget /\ 100 * used >= WarnPercent * budget -> "warn"
    [] OTHER -> "ok"

\* _monitor_token_budget: an overage is an event; it fails nothing.
Monitor == Step("selected", "graded") /\ level' = Level(total, Budget)

\* An agent or the user changes one file that is still to be read.
Disturb(p) ==
  /\ at = "selecting" /\ p \in Range(todo) /\ \A q \in Paths : disk[q] = "same"
  /\ \E how \in {"edited", "gone"} : disk' = [disk EXCEPT ![p] = how]
  /\ UNCHANGED <<at, own, deps, fresh, calls, found, todo, selected, omitted, total, given, level,
                 lessons, skills, index, menu>>

(***************************************************************************)
(* LazyContextBuilder.build.                                               *)
(***************************************************************************)

LazyBudget == Max({1, Budget \div 4})
Cost(entries) == SumFunctionOnSet(Costs, entries)
OverBudget == Cost(menu) + Cost(index) > LazyBudget

Trim(kept, left) ==
  /\ at = "lazy" /\ OverBudget /\ index' = kept /\ menu' = left
  /\ UNCHANGED <<at, own, deps, fresh, calls, found, disk, todo, selected, omitted, total, given,
                 level, lessons, skills>>

\* Least confidence first; then the end of the alphabet.
TrimLesson == index # {} /\ Trim(index \ {Min(index)}, menu)
TrimSkill == index = {} /\ menu # {} /\ Trim({}, menu \ {Max(menu)})

Build == ~(OverBudget /\ index \cup menu # {}) /\ Step("lazy", "built") /\ UNCHANGED level

Next ==
  \/ Visit \/ Sort \/ Take \/ Omit \/ ReadFails \/ Audit \/ Monitor
  \/ TrimLesson \/ TrimSkill \/ Build \/ \E p \in Paths : Disturb(p)

Spec == Init /\ [][Next]_vars

(***************************************************************************)
(* Properties.                                                             *)
(***************************************************************************)

\* Reference: the ways of n dependencies from a root.
Walks(n) ==
  {w \in [0..n -> Nodes] : w[0] \in Roots /\ \A i \in 1..n : w[i] \in DepsOf(w[i - 1])}

\* The depth-first traversal gives every artifact its shortest distance from
\* the stage, whatever the order of names and however the graph is cyclic.
PrioritiesAreDistances ==
  at = "refreshed" /\ calls = <<>> =>
    /\ \A p \in DOMAIN found : \E w \in Walks(found[p]) : w[found[p]] = p
    /\ \A n \in 0..Cardinality(Paths) : \A w \in Walks(n) :
         w[n] \in DOMAIN found /\ found[w[n]] <= n

\* What an agent is told was fresh at the refresh and fits the budget by what the
\* refresh measured, nearest first; nothing in reach was forgotten, or left out that
\* would still have fitted; the monitor's error is no overage but a budget used up
\* exactly.  The texts themselves are as measured only where no selected file was
\* edited since: such a file is told as it is by now, of whatever size.
SelectionIsFull ==
  at = "graded" =>
    /\ total = SumFunctionOnSet(Tokens, Range(selected)) /\ total <= Budget
    /\ Range(selected) \subseteq fresh
    /\ \A i, j \in DOMAIN selected : i < j => found[selected[i]] <= found[selected[j]]
    /\ Paths \cap DOMAIN found = Range(selected) \cup omitted
    /\ \A p \in omitted \cap fresh : total + Tokens[p] > Budget
    /\ level = "error" => total = Budget
    /\ (\A p \in Range(selected) : disk[p] # "edited") => given = total

\* The lazy menus are within their share, lose lessons before skills, and an
\* entry is lost only if it and what is worth more than it do not fit.
LazyIsTrimmed ==
  at = "built" =>
    /\ Cost(index) + Cost(menu) <= LazyBudget
    /\ menu # skills => index = {}
    /\ \A e \in lessons \ index : Cost({f \in lessons : f >= e}) + Cost(skills) > LazyBudget
    /\ \A e \in skills \ menu : Cost({f \in skills : f <= e}) > LazyBudget
=============================================================================
