----------------------------- MODULE ClaudeCode -----------------------------
(* adapters/claude_code: spawns of the claude CLI in one project.  Each    *)
(* spawn merges its hooks into .claude/settings.json, runs the CLI,        *)
(* restores the file, and records its life in a stream of events.db from   *)
(* which replay_session rebuilds the handle.  Spawns of several commands   *)
(* overlap, file step by file step.                                        *)
EXTENDS Naturals

CONSTANTS
  Spawns,
  Inside, Outside,     \* paths the CLI writes, in the project and out of it
  Transcripts,         \* the paths a run may write
  NoHandle

ClaudeCodeAssumption ==
  /\ Inside \cap Outside = {} /\ Transcripts \subseteq SUBSET (Inside \cup Outside)
  /\ \A paths \in SUBSET Inside : paths # NoHandle

VARIABLES
  dir,        \* .claude exists
  settings,   \* .claude/settings.json
  pc, original, created,   \* of a spawn: where it is; _original_text, _created_claude_dir
  recorded,   \* recorded[s]: which events of run s are in events.db
  handle,     \* handle[s]: the outputs of the handle spawn_agent returned
  nesting,    \* nesting[s]: the spawns that came in while s was within, and are not out yet
  before,     \* the directory and the file as the user left them
  disturbed   \* a spawn read or restored the file out of that order, was killed, or failed to write

vars == <<dir, settings, pc, original, created, recorded, handle, nesting, before, disturbed>>
files == <<dir, settings>>
writer == <<original, created>>

\* The file is absent, truncated by a writer that has not finished, or holds the
\* user's keys and a number of forge's hook blocks, which all look the same.
Absent == [kind |-> "absent"]
Torn == [kind |-> "torn"]
Json(user, hooks) == [kind |-> "json", user |-> user, hooks |-> hooks]
Texts == [kind : {"json"}, user : BOOLEAN, hooks : Nat]

Events == [type : {"started", "completed", "failed"}] \cup [type : {"stream"}, path : Inside \cup Outside]

TypeOK ==
  /\ dir \in BOOLEAN /\ settings \in {Absent, Torn} \cup Texts
  /\ pc \in [Spawns -> {"idle", "started", "mkdir", "read", "open", "write", "run", "restore",
                        "rewrite", "rmdir", "done", "dead"}]
  /\ original \in [Spawns -> {Absent} \cup Texts] /\ created \in [Spawns -> BOOLEAN]
  /\ recorded \in [Spawns -> SUBSET Events]
  /\ handle \in [Spawns -> {NoHandle} \cup SUBSET Inside]
  /\ nesting \in [Spawns -> SUBSET Spawns]
  /\ before \in BOOLEAN \X ({Absent} \cup Texts) /\ disturbed \in BOOLEAN
  /\ settings # Absent => dir

Init ==
  /\ \/ dir = FALSE /\ settings = Absent
     \/ dir = TRUE /\ settings \in {Absent, Json(TRUE, 0)}
  /\ pc = [s \in Spawns |-> "idle"]
  /\ original = [s \in Spawns |-> Absent] /\ created = [s \in Spawns |-> FALSE]
  /\ recorded = [s \in Spawns |-> {}] /\ handle = [s \in Spawns |-> NoHandle]
  /\ nesting = [s \in Spawns |-> {}] /\ before = files /\ disturbed = FALSE

Goto(s, l) == pc' = [pc EXCEPT ![s] = l]

\* _safe_append: a failing store is logged and the spawn goes on.
Record(s, type) ==
  recorded' \in {[recorded EXCEPT ![s] = @ \cup {[type |-> type]}], recorded}

\* Between the start of install and the end of restore.
Within(s) == pc[s] \notin {"idle", "started", "done", "dead"}

Nest(s) == nesting' = [t \in Spawns |-> IF Within(t) THEN nesting[t] \cup {s} ELSE nesting[t]]

Unnest(s) == nesting' = [t \in Spawns |-> IF t = s THEN {} ELSE nesting[t] \ {s}]

\* Another spawn came in later and has not left yet.
OutOfOrder(s) == disturbed \/ nesting[s] # {}

\* The except clause of spawn_agent: a terminal event, then the error goes on up.
Fail(s) == Goto(s, "done") /\ Record(s, "failed") /\ Unnest(s)

(***************************************************************************)
(* spawn_agent up to the subprocess.                                       *)
(***************************************************************************)

SpawnStarts(s) ==
  /\ pc[s] = "idle" /\ Goto(s, "started") /\ Record(s, "started")
  /\ UNCHANGED <<files, writer, handle, nesting, disturbed>>

\* _enforce_spawn_allowed: denied, or the enforcer raises.
Refuse(s) ==
  /\ pc[s] = "started" /\ Fail(s)
  /\ UNCHANGED <<files, writer, handle, disturbed>>

\* install, step by step: is there a directory?
InstallLooks(s) ==
  /\ pc[s] = "started"
  /\ Goto(s, IF dir THEN "read" ELSE "mkdir")
  /\ Nest(s)
  /\ UNCHANGED <<files, writer, recorded, handle, disturbed>>

\* mkdir without exist_ok: another spawn may have been faster.
InstallMakesDir(s) ==
  /\ pc[s] = "mkdir"
  /\ IF dir THEN Fail(s) /\ UNCHANGED <<dir, created>>
     ELSE /\ dir' = TRUE /\ created' = [created EXCEPT ![s] = TRUE]
          /\ Goto(s, "read") /\ UNCHANGED <<recorded, nesting>>
  /\ UNCHANGED <<settings, original, handle, disturbed>>

\* The prior text; what is not a JSON object raises ClaudeSettingsError.  An
\* exception of __enter__ skips __exit__, and leaves a directory just made.
InstallReads(s) ==
  /\ pc[s] = "read"
  /\ IF settings = Torn
     THEN Fail(s) /\ UNCHANGED original
     ELSE /\ original' = [original EXCEPT ![s] = settings]
          /\ Goto(s, "open") /\ UNCHANGED <<recorded, nesting>>
  /\ disturbed' = (OutOfOrder(s) \/ (settings = Torn /\ created[s]))
  /\ UNCHANGED <<files, created, handle>>

\* write_text opens, and so truncates, before it writes.
InstallOpens(s) ==
  /\ pc[s] = "open"
  /\ IF dir THEN settings' = Torn /\ Goto(s, "write") /\ UNCHANGED <<recorded, nesting>>
     ELSE Fail(s) /\ UNCHANGED settings
  /\ UNCHANGED <<dir, writer, handle, disturbed>>

\* _merge_hooks: the prior text and one block more.
Merged(text) == IF text = Absent THEN Json(FALSE, 1) ELSE Json(text.user, text.hooks + 1)

\* A file that was removed since it was opened stays removed.
InstallWrites(s) ==
  /\ pc[s] = "write" /\ Goto(s, "run")
  /\ settings' = IF settings = Absent THEN Absent ELSE Merged(original[s])
  /\ UNCHANGED <<dir, writer, recorded, handle, nesting, disturbed>>

\* A full disk: the file stays truncated, and there is no __exit__ to restore it.
InstallWriteFails(s) ==
  /\ pc[s] = "write" /\ Fail(s) /\ disturbed' = TRUE
  /\ UNCHANGED <<files, writer, handle>>

(***************************************************************************)
(* The run and the outputs of its transcript.                              *)
(***************************************************************************)

\* extract_outputs: the paths in the project.  Nothing here depends on the order
\* in which a list holds its paths, nor on how often a line is recorded.
Outputs(paths) == paths \cap Inside

\* The lines that the store kept.
Streamed(kept) == [type : {"stream"}, path : kept]

\* Every line of the transcript is offered to the store, which keeps some; the
\* exit code is looked at after that.  A time-out or a missing binary has no line.
Run(s) ==
  /\ pc[s] = "run" /\ Goto(s, "restore")
  /\ \E t \in Transcripts, ok \in BOOLEAN : \E kept \in SUBSET t :
       /\ recorded' = [recorded EXCEPT ![s] = @ \cup Streamed(kept)]
       /\ handle' = [handle EXCEPT ![s] = IF ok THEN Outputs(t) ELSE NoHandle]
  /\ UNCHANGED <<files, writer, nesting, disturbed>>

(***************************************************************************)
(* restore, and the end of spawn_agent.                                    *)
(***************************************************************************)

\* The terminal event: completed if there is a handle, failed otherwise.
Finish(s) ==
  /\ Goto(s, "done")
  /\ Record(s, IF handle[s] = NoHandle THEN "failed" ELSE "completed")
  /\ Unnest(s)

\* Without a text to restore the file is removed; with one it is opened, which
\* fails, and is swallowed, if the directory is gone.
RestoreOpens(s) ==
  /\ pc[s] = "restore" /\ disturbed' = OutOfOrder(s)
  /\ IF original[s] = Absent
     THEN /\ settings' = Absent
          /\ IF created[s] THEN Goto(s, "rmdir") /\ UNCHANGED <<recorded, nesting>> ELSE Finish(s)
     ELSE IF dir THEN settings' = Torn /\ Goto(s, "rewrite") /\ UNCHANGED <<recorded, nesting>>
          ELSE UNCHANGED settings /\ Finish(s)
  /\ UNCHANGED <<dir, writer, handle>>

RestoreWrites(s) ==
  /\ pc[s] = "rewrite" /\ Finish(s)
  /\ settings' = IF settings = Absent THEN Absent ELSE original[s]
  /\ disturbed' = OutOfOrder(s)
  /\ UNCHANGED <<dir, writer, handle>>

\* An OSError of the teardown is logged and swallowed.
RestoreWriteFails(s) ==
  /\ pc[s] = "rewrite" /\ Finish(s) /\ disturbed' = TRUE
  /\ UNCHANGED <<files, writer, handle>>

\* Mutant: the directory stays.
RestoreRemovesDir_Keeps(s) ==
  /\ pc[s] = "rmdir" /\ Finish(s) /\ disturbed' = OutOfOrder(s)
  /\ UNCHANGED <<dir, settings, writer, handle>>

RestoreRemovesDir(s) ==
  /\ pc[s] = "rmdir" /\ Finish(s) /\ disturbed' = OutOfOrder(s)
  /\ dir' = (dir /\ settings # Absent)
  /\ created' = [created EXCEPT ![s] = dir']
  /\ UNCHANGED <<settings, original, handle>>

\* Killed between two steps: no teardown, no terminal event, no handle.
Kill(s) ==
  /\ Within(s) \/ pc[s] = "started"
  /\ Goto(s, "dead")
  /\ handle' = [handle EXCEPT ![s] = NoHandle] /\ disturbed' = TRUE
  /\ UNCHANGED <<files, writer, recorded, nesting>>

Next ==
  /\ UNCHANGED before
  /\ \E s \in Spawns :
       \/ SpawnStarts(s) \/ Refuse(s)
       \/ InstallLooks(s) \/ InstallMakesDir(s) \/ InstallReads(s) \/ InstallOpens(s)
       \/ InstallWrites(s) \/ InstallWriteFails(s)
       \/ Run(s)
       \/ RestoreOpens(s) \/ RestoreWrites(s) \/ RestoreWriteFails(s) \/ RestoreRemovesDir(s)
       \/ Kill(s)

Spec == Init /\ [][Next]_vars

(***************************************************************************)
(* replay_session.                                                         *)
(***************************************************************************)

Has(events, type) == \E e \in events : e.type = type

\* The paths of the recorded lines.
Lines(events) == {e.path : e \in {e \in events : e.type = "stream"}}

\* The handle of a run that started and completed; an error for every other.
Replay(events) ==
  IF Has(events, "started") /\ Has(events, "completed") /\ ~Has(events, "failed")
  THEN Outputs(Lines(events)) ELSE NoHandle

(***************************************************************************)
(* Properties.                                                             *)
(***************************************************************************)

\* What replay_session rebuilds is the handle of a run that returned one, with
\* no output that run did not have.
ReplayIsHonest ==
  \A s \in Spawns : LET again == Replay(recorded[s]) IN
    again # NoHandle => /\ pc[s] = "done" /\ handle[s] # NoHandle
                        /\ again \subseteq handle[s]

AtRest == \A s \in Spawns : ~Within(s)

\* After spawns that overlap only by nesting the user's settings are back, or
\* the file and the directory are gone again.
SettingsComeBack == AtRest /\ ~disturbed => files = before
=============================================================================
