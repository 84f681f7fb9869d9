------------------------------- MODULE Doctor --------------------------------
(* `forge doctor --fix` (use_cases/doctor.py, health/remediation.py,       *)
(* health/doctor.py, cli/commands/doctor.py) with the initialize_project   *)
(* of project/scaffold.py: repairs are planned from one report, approved   *)
(* one by one and applied to files the operator and other commands use.    *)
EXTENDS Naturals, Sequences

CONSTANTS
  Procs,
  Broken,       \* invalid texts the operator may leave in config.yaml
  Names,        \* of backups: .bak is 1, .bak.1 is 2, ... (a bound)
  MaxCommands   \* bound on commands

\* Texts nobody has to repair, and none at all.
Words == {"absent", "empty", "theirs", "built"}

DoctorAssumption == Names \subseteq Nat \ {0} /\ MaxCommands \in Nat /\ Broken \cap Words = {}

VARIABLES
  host,       \* the interpreter is in a virtualenv, outside of one, or too old
  deps,       \* the dependencies are installed
  forge,      \* .forge/ is there
  config,     \* config.yaml
  state,      \* state.json: written by an init, or used since
  backup,     \* backup[n]: a backup of config.yaml
  audits,     \* rewrites in the security audit
  fix,        \* fix[p]: a command's progress
  commands,   \* commands started
  mine,       \* texts the operator left in config.yaml and did not replace
  begun,      \* the operator's pipeline is under way
  forced,     \* an init with --force began to write
  overlapped, \* two commands overlapped
  raced,      \* two of them were in initialize_project together
  misled      \* a command told that all is well, and it was not

vars == <<host, deps, forge, config, state, backup, audits, fix, commands,
          mine, begun, forced, overlapped, raced, misled>>

None == "none"
Kinds == {"venv", "deps", "init", "config"}
Idle == [at |-> "idle", mode |-> "none", force |-> FALSE, needs |-> FALSE, todo |-> <<>>,
         failed |-> FALSE, name |-> 0]
Texts == Broken \cup Words

\* In initialize_project: every file is looked at, and then written.
Inits == {"init", "init dirs", "look config", "init config", "look state", "init state"}

TypeOK ==
  /\ host \in {"inside", "outside", "old"} /\ deps \in BOOLEAN /\ forge \in BOOLEAN
  /\ config \in Texts /\ state \in {"absent", "empty", "new", "used"}
  /\ backup \in [Names -> Texts] /\ audits \in 0..commands /\ commands \in 0..MaxCommands
  /\ \A p \in Procs :
       /\ fix[p].at \in {"idle", "next", "venv", "deps", "config", "move", "write", "audit"} \cup Inits
       /\ fix[p].mode \in {"none", "asks", "yes"} /\ fix[p].force \in BOOLEAN
       /\ fix[p].needs \in BOOLEAN /\ fix[p].failed \in BOOLEAN /\ fix[p].name \in Names \cup {0}
       /\ fix[p].todo \in Seq(Kinds)
  /\ mine \subseteq Texts /\ {begun, forced, overlapped, raced, misled} \subseteq BOOLEAN

\* No project, a bare .forge/, or a project in use.
Init ==
  /\ host \in {"inside", "outside", "old"} /\ deps \in BOOLEAN
  /\ \/ forge \in BOOLEAN /\ config = "absent" /\ state = "absent" /\ mine = {} /\ begun = FALSE
     \/ forge = TRUE /\ config = "theirs" /\ state = "used" /\ mine = {"theirs"} /\ begun = TRUE
  /\ backup = [n \in Names |-> "absent"] /\ audits = 0 /\ commands = 0
  /\ fix = [p \in Procs |-> Idle]
  /\ forced = FALSE /\ overlapped = FALSE /\ raced = FALSE /\ misled = FALSE

(***************************************************************************)
(* The checks.                                                             *)
(***************************************************************************)

\* is_forge_project: both files are there, whatever is in them.
Project == config # "absent" /\ state # "absent"

\* check_config_valid.
Valid == config \in {"theirs", "built"}

\* DoctorReport.ok: outside a project only the installation can fail.
Ok == host # "old" /\ deps /\ (Project => Valid)

\* build_remediation_plan: the virtualenv only warns, and is asked for whenever
\* the running interpreter is outside of one.
Plan ==
  LET If(wanted, kind) == IF wanted THEN <<kind>> ELSE <<>>
  IN  If(host # "inside", "venv") \o If(~deps, "deps") \o If(~Project, "init")
        \o If(Project /\ ~Valid, "config")

(***************************************************************************)
(* One command: fix and _apply.                                            *)
(***************************************************************************)

At(p, step) == fix[p].at = step
Goto(p, step) == fix' = [fix EXCEPT ![p].at = step]
operator == <<commands, mine, begun, overlapped, raced>>
project == <<deps, forge, config, state, backup, audits>>

\* The report, the plan with its requires_force, and the guards.  A dry run, an
\* empty plan and a refusal without a terminal end here, with nothing changed.
Start(p, mode, force) ==
  /\ At(p, "idle") /\ commands < MaxCommands /\ commands' = commands + 1
  /\ Plan # <<>>
  /\ fix' = [fix EXCEPT ![p] = [Idle EXCEPT !.at = "next", !.mode = mode, !.force = force,
                                            !.needs = forge, !.todo = Plan]]
  /\ overlapped' = (overlapped \/ \E q \in Procs : ~At(q, "idle"))
  /\ UNCHANGED <<host, project, mine, begun, raced, forced, misled>>

\* --force is for re-initialization; otherwise the operator is asked.
Approved(p) ==
  ~(Head(fix[p].todo) = "init" /\ fix[p].needs /\ ~fix[p].force)

Apply(p) ==
  /\ At(p, "next") /\ fix[p].todo # <<>> /\ Approved(p) /\ Goto(p, Head(fix[p].todo))
  /\ raced' = (raced \/ (Head(fix[p].todo) = "init" /\ \E q \in Procs : fix[q].at \in Inits))
  /\ UNCHANGED <<host, project, commands, mine, begun, overlapped, forced, misled>>

\* Blocked, or declined.
Withhold(p) ==
  /\ At(p, "next") /\ fix[p].todo # <<>> /\ (Approved(p) => fix[p].mode = "asks")
  /\ fix' = [fix EXCEPT ![p].todo = Tail(@)]
  /\ UNCHANGED <<host, project, operator, forced, misled>>

\* A repair and its re-check have ended.
Done(p, failed) ==
  fix' = [fix EXCEPT ![p].at = "next", ![p].todo = Tail(@), ![p].failed = @ \/ failed]

\* The final report and _fix_exit_code.
Succeeds(p) == Ok /\ ~fix[p].failed

Finish(p) ==
  /\ At(p, "next") /\ fix[p].todo = <<>> /\ fix' = [fix EXCEPT ![p] = Idle]
  /\ misled' = (misled \/ ( /\ Succeeds(p) /\ fix[p].mode = "yes" /\ fix[p].force
                            /\ ~overlapped /\ ~(deps /\ Project /\ Valid)))
  /\ UNCHANGED <<host, project, operator, forced>>

(***************************************************************************)
(* The repairs.                                                            *)
(***************************************************************************)

\* create_venv: what it makes, no later check looks at.
CreateVenv(p) ==
  /\ At(p, "venv") /\ \E failed \in BOOLEAN : Done(p, failed)
  /\ UNCHANGED <<host, project, operator, forced, misled>>

\* install_deps: pip fails, or succeeds and the re-check finds what it finds.
InstallDeps(p) ==
  /\ At(p, "deps")
  /\ deps' \in {deps, TRUE} /\ \E ok \in BOOLEAN : Done(p, ~(ok /\ deps'))
  /\ UNCHANGED <<host, forge, config, state, backup, audits, operator, forced, misled>>

\* initialize_project looks again: .forge/ may have come since the plan.
InitLooks(p) ==
  /\ At(p, "init")
  /\ IF forge /\ ~fix[p].force THEN Done(p, TRUE) ELSE Goto(p, "init dirs")
  /\ UNCHANGED <<host, project, operator, forced, misled>>

InitMakes(p) ==
  /\ At(p, "init dirs") /\ forge' = TRUE /\ Goto(p, "look config")
  /\ UNCHANGED <<host, deps, config, state, backup, audits, operator, forced, misled>>

\* _write_text: a file that is there is not overwritten without --force.
LookAtConfig(p) ==
  /\ At(p, "look config")
  /\ IF config # "absent" /\ ~fix[p].force THEN Done(p, TRUE) ELSE Goto(p, "init config")
  /\ UNCHANGED <<host, project, operator, forced, misled>>

InitConfig(p) ==
  /\ At(p, "init config") /\ config' = "built" /\ Goto(p, "look state")
  /\ forced' = (forced \/ fix[p].force)
  /\ UNCHANGED <<host, deps, forge, state, backup, audits, operator, misled>>

LookAtState(p) ==
  /\ At(p, "look state")
  /\ IF state # "absent" /\ ~fix[p].force THEN Done(p, TRUE) ELSE Goto(p, "init state")
  /\ UNCHANGED <<host, project, operator, forced, misled>>

\* One of the other files may be there and stop it; the re-check finds the project.
InitState(p) ==
  /\ At(p, "init state") /\ state' = "new"
  /\ \E stopped \in BOOLEAN : (stopped => ~fix[p].force) /\ Done(p, stopped \/ config = "absent")
  /\ UNCHANGED <<host, deps, forge, config, backup, audits, operator, forced, misled>>

Least(names) == CHOOSE n \in names : \A m \in names : n <= m

\* Mutant: always .bak.
FreeName_First(used) == 1

\* rebuild_config: the first of .bak, .bak.1, ... that is not there.
FreeName(used) == Least(Names \ used)

PickBackup(p) ==
  /\ At(p, "config") /\ \E n \in Names : backup[n] = "absent"
  /\ LET used == {n \in Names : backup[n] # "absent"}
     IN  fix' = [fix EXCEPT ![p].at = "move", ![p].name = FreeName(used)]
  /\ UNCHANGED <<host, project, operator, forced, misled>>

\* replace: what config.yaml holds by now, valid or not, over what the name holds by now.
MoveAway(p) ==
  /\ At(p, "move") /\ Goto(p, "write")
  /\ IF config = "absent" THEN UNCHANGED <<config, backup>>
     ELSE config' = "absent" /\ backup' = [backup EXCEPT ![fix[p].name] = config]
  /\ UNCHANGED <<host, deps, forge, state, audits, operator, forced, misled>>

WriteDefaults(p) ==
  /\ At(p, "write") /\ config' = "built" /\ Goto(p, "audit")
  /\ UNCHANGED <<host, deps, forge, state, backup, audits, operator, forced, misled>>

\* The audit entry, and check_config_valid once more.
Audit(p) ==
  /\ At(p, "audit") /\ audits' = audits + 1 /\ Done(p, ~Valid)
  /\ UNCHANGED <<host, deps, forge, config, state, backup, operator, forced, misled>>

\* An OSError, which nothing catches, or a kill: write_text may have truncated.
Cut(p) ==
  /\ fix[p].at \notin {"idle", "next"} /\ fix' = [fix EXCEPT ![p] = Idle]
  /\ \/ UNCHANGED <<config, state, forced>>
     \/ /\ fix[p].at \in {"write", "init config"} /\ config' = "empty"
        /\ forced' = (forced \/ fix[p].force) /\ UNCHANGED state
     \/ At(p, "init state") /\ state' = "empty" /\ UNCHANGED <<config, forced>>
  /\ UNCHANGED <<host, deps, forge, backup, audits, operator, misled>>

(***************************************************************************)
(* The operator, meanwhile.                                                *)
(***************************************************************************)

Edit(text) ==
  /\ config \notin {"absent", text} /\ text \notin mine
  /\ text = "theirs" \/ \A n \in Names : backup[n] # text
  /\ config' = text /\ mine' = (mine \ {config}) \cup {text}
  /\ UNCHANGED <<host, deps, forge, state, backup, audits, fix, commands, begun, forced,
                 overlapped, raced, misled>>

Work ==
  /\ Project /\ Valid /\ state = "new" /\ state' = "used" /\ begun' = TRUE
  /\ UNCHANGED <<host, deps, forge, config, backup, audits, fix, commands, mine, forced,
                 overlapped, raced, misled>>

Next ==
  \/ \E p \in Procs :
       \/ \E mode \in {"asks", "yes"}, force \in BOOLEAN : Start(p, mode, force)
       \/ Apply(p) \/ Withhold(p) \/ Finish(p)
       \/ CreateVenv(p) \/ InstallDeps(p)
       \/ InitLooks(p) \/ InitMakes(p) \/ LookAtConfig(p) \/ InitConfig(p) \/ LookAtState(p) \/ InitState(p)
       \/ PickBackup(p) \/ MoveAway(p) \/ WriteDefaults(p) \/ Audit(p) \/ Cut(p)
  \/ \E text \in Broken \cup {"theirs"} : Edit(text)
  \/ Work

Spec == Init /\ [][Next]_vars

(***************************************************************************)
(* Properties.                                                             *)
(***************************************************************************)

\* Unless --force was given: the pipeline under way keeps its state.json, whatever
\* is cut short or overlaps, two initializations apart: both may find no file and
\* the later one writes over what was done since.  And what the operator left in
\* config.yaml is there or in a backup, while no two commands overlap.
RepairsKeepWork ==
  ~forced =>
    /\ begun /\ ~raced => state = "used"
    /\ ~overlapped => \A text \in mine : config = text \/ \E n \in Names : backup[n] = text

\* A forced command that succeeds leaves the dependencies, both files of a project
\* and a config.yaml that is read, whatever earlier commands left half done, while
\* no two overlap.  What state.json holds is not asked: an empty one is a project.
ReadyIsReady == ~misled
=============================================================================
