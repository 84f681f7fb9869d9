---------------------------- MODULE AcpRegistry -----------------------------
(* kernel/acp_registry_adapter.py with use_cases/acp.py and health/acp.py: *)
(* ACP agents are found in a registry, downloaded once per archive name,   *)
(* unpacked over what is there, and recorded in installed.json, which is   *)
(* rewritten as a whole.                                                   *)
EXTENDS Naturals

CONSTANTS
  Procs,
  Agents,
  Kinds,        \* Kinds[a]: the distributions of agent a
  MaxVersion    \* bound on the releases

AcpRegistryAssumption ==
  /\ Kinds \in [Agents -> SUBSET {"npx", "uvx", "binary"}]
  /\ MaxVersion \in Nat \ {0}

Versions == 1..MaxVersion
None == [kind |-> "none"]

VARIABLES
  latest,     \* the version the registry offers
  renames,    \* a release's archive has a name of its own
  form,       \* form[a]: how agent a's releases are packed
  memo,       \* memo[p]: the version in the registry a process has fetched, 0 if none
  archive,    \* archive[a][v]: the file under the name of version v
  binary,     \* binary[a]: what the command's path holds
  installed,  \* installed.json
  proc,       \* proc[p]: how far an operation is, and what it will write
  disturbed,  \* operations have overlapped since none was under way
  settled,    \* agents whose install returned: none failed since, no operations overlapped
  torn        \* agents with an archive that a download has cut or mixed up

vars ==
  <<latest, renames, form, memo, archive, binary, installed, proc, disturbed, settled, torn>>

\* What the registry's URLs are like does not change.
offer == <<renames, form>>
ledger == <<disturbed, settled, torn>>

Garbled == [garbled |-> TRUE]
Idle == [at |-> "idle", agent |-> {}, version |-> 0, kind |-> "none", doc |-> <<>>]

\* A release is one binary, an archive, or an archive that does not hold the command.
Forms == {"bare", "tar", "zip", "without"}

Points ==
  {"idle", "downloading", "fetching", "writing", "archived", "extracting", "unpacked", "loaded", "open"}

\* A file: part or all of what belongs to some version.
Contents == [version : Versions, whole : BOOLEAN]
Opened(v) == [version |-> v, whole |-> FALSE]
\* The last of a version is written, to a file that another one may have opened since.
Filled(file, v) == [version |-> v, whole |-> file.version = v]

IsIndex(doc) ==
  DOMAIN doc \subseteq Agents
  /\ \A a \in DOMAIN doc : doc[a].version \in Versions /\ doc[a].kind \in {"npx", "uvx", "binary"}

TypeOK ==
  /\ latest \in Versions /\ renames \in BOOLEAN /\ form \in [Agents -> Forms]
  /\ disturbed \in BOOLEAN /\ settled \subseteq Agents /\ torn \subseteq Agents
  /\ memo \in [Procs -> 0..MaxVersion]
  /\ \A a \in Agents : \A v \in Versions : archive[a][v] \in Contents \cup {None}
  /\ binary \in [Agents -> Contents \cup {None}]
  /\ installed = Garbled \/ IsIndex(installed)
  /\ \A p \in Procs :
       /\ proc[p].at \in Points
       /\ proc[p].agent \subseteq Agents /\ proc[p].version \in 0..MaxVersion /\ IsIndex(proc[p].doc)

Init ==
  /\ latest = 1 /\ renames \in BOOLEAN /\ form \in [Agents -> Forms]
  /\ memo = [p \in Procs |-> 0]
  /\ archive = [a \in Agents |-> [v \in Versions |-> None]]
  /\ binary = [a \in Agents |-> None] /\ installed = <<>>
  /\ proc = [p \in Procs |-> Idle] /\ disturbed = FALSE /\ settled = {} /\ torn = {}

\* The registry's side: a new version of every agent.
Release ==
  /\ latest < MaxVersion /\ latest' = latest + 1
  /\ UNCHANGED <<offer, memo, archive, binary, installed, proc, ledger>>

\* fetch_registry: once per process; registry.json is written and never read.
Fetch(p) ==
  /\ proc[p].at = "idle" /\ memo[p] = 0 /\ memo' = [memo EXCEPT ![p] = latest]
  /\ UNCHANGED <<latest, offer, archive, binary, installed, proc, ledger>>

\* A process ends; the next one fetches anew.
Exit(p) ==
  /\ proc[p].at = "idle" /\ memo[p] # 0 /\ memo' = [memo EXCEPT ![p] = 0]
  /\ UNCHANGED <<latest, offer, archive, binary, installed, proc, ledger>>

(***************************************************************************)
(* install_agent.                                                          *)
(***************************************************************************)

\* _resolve_distribution: the one asked for, else npx before uvx before binary.
Resolve(a, preferred) ==
  CASE preferred # "none" -> preferred
    [] preferred = "none" /\ "npx" \in Kinds[a] -> "npx"
    [] preferred = "none" /\ "npx" \notin Kinds[a] /\ "uvx" \in Kinds[a] -> "uvx"
    [] OTHER -> "binary"

Agent(p) == CHOOSE a \in Agents : a \in proc[p].agent
Goto(p, at) == proc' = [proc EXCEPT ![p].at = at]

\* An operation begins; what it may race with is not settled.
Begins ==
  /\ disturbed' = (\E q \in Procs : proc[q].at # "idle")
  /\ settled' = IF disturbed' THEN {} ELSE settled

\* An operation raises or is killed; what it has written stays.
Abort(p) == proc' = [proc EXCEPT ![p] = Idle] /\ settled' = settled \ proc[p].agent

Install(p, a, preferred) ==
  LET kind == Resolve(a, preferred) IN
  /\ proc[p].at = "idle" /\ memo[p] # 0 /\ kind \in Kinds[a]
  /\ proc' = [proc EXCEPT ![p] =
       [Idle EXCEPT !.at = IF kind = "binary" THEN "downloading" ELSE "unpacked",
                    !.agent = {a}, !.version = memo[p], !.kind = kind]]
  /\ Begins
  /\ UNCHANGED <<latest, offer, memo, archive, binary, installed, torn>>

\* _archive_name: the end of the URL.
Name(v) == IF renames THEN v ELSE 1

Archive(p) == archive[Agent(p)][Name(proc[p].version)]

\* A name that is there is not downloaded again, whatever it holds.
Present(file) == file # None

SkipDownload(p) ==
  /\ proc[p].at = "downloading" /\ Present(Archive(p)) /\ Goto(p, "archived")
  /\ UNCHANGED <<latest, offer, memo, archive, binary, installed, ledger>>

Download(p) ==
  /\ proc[p].at = "downloading" /\ ~Present(Archive(p)) /\ Goto(p, "fetching")
  /\ UNCHANGED <<latest, offer, memo, archive, binary, installed, ledger>>

Saved(p, file) == archive' = [archive EXCEPT ![Agent(p)][Name(proc[p].version)] = file]

\* write_bytes: truncates, and writes.
OpenArchive(p) ==
  /\ proc[p].at = "fetching" /\ Saved(p, Opened(proc[p].version)) /\ Goto(p, "writing")
  /\ UNCHANGED <<latest, offer, memo, binary, installed, ledger>>

FillArchive(p) ==
  LET file == Filled(Archive(p), proc[p].version) IN
  /\ proc[p].at = "writing" /\ Saved(p, file) /\ Goto(p, "archived")
  /\ torn' = IF file.whole THEN torn ELSE torn \cup proc[p].agent
  /\ UNCHANGED <<latest, offer, memo, binary, installed, disturbed, settled>>

ArchiveIsCut(p) ==
  /\ proc[p].at = "writing" /\ Abort(p) /\ torn' = torn \cup proc[p].agent
  /\ UNCHANGED <<latest, offer, memo, archive, binary, installed, disturbed>>

\* _extract_archive, in place: of a tar as far as it goes, of a zip only with its end.
Extract(p) ==
  /\ proc[p].at = "archived" /\ form[Agent(p)] \in {"tar", "zip"}
  /\ form[Agent(p)] = "zip" => Archive(p).whole
  /\ binary' = [binary EXCEPT ![Agent(p)] = Opened(Archive(p).version)] /\ Goto(p, "extracting")
  /\ UNCHANGED <<latest, offer, memo, archive, installed, ledger>>

FillBinary(p) ==
  /\ proc[p].at = "extracting" /\ Archive(p).whole
  /\ binary' = [binary EXCEPT ![Agent(p)] = Filled(binary[Agent(p)], Archive(p).version)]
  /\ Goto(p, "unpacked")
  /\ UNCHANGED <<latest, offer, memo, archive, installed, ledger>>

\* The download is the binary; an archive without the command is not missed.
TakeAsItIs(p) ==
  /\ proc[p].at = "archived" /\ form[Agent(p)] \in {"bare", "without"} /\ Goto(p, "unpacked")
  /\ UNCHANGED <<latest, offer, memo, archive, binary, installed, ledger>>

\* No network, a full disk, a cut archive, or a kill.
Fails(p) ==
  /\ proc[p].at \in Points \ {"idle", "writing", "open"} /\ Abort(p)
  /\ UNCHANGED <<latest, offer, memo, archive, binary, installed, disturbed, torn>>

(***************************************************************************)
(* installed.json.                                                         *)
(***************************************************************************)

\* _load_installed: an unreadable index is an empty one.
Readable == IF installed = Garbled THEN <<>> ELSE installed

Recorded(doc, a, version, kind) ==
  [b \in DOMAIN doc \cup {a} |-> IF b = a THEN [version |-> version, kind |-> kind] ELSE doc[b]]

\* _record_installation.
LoadToRecord(p) ==
  /\ proc[p].at = "unpacked"
  /\ proc' = [proc EXCEPT ![p].at = "loaded",
                          ![p].doc = Recorded(Readable, Agent(p), proc[p].version, proc[p].kind)]
  /\ UNCHANGED <<latest, offer, memo, archive, binary, installed, ledger>>

\* uninstall_agent: the entry only; archive and binary stay.
LoadToRemove(p, a) ==
  /\ proc[p].at = "idle" /\ a \in DOMAIN Readable
  /\ proc' = [proc EXCEPT ![p].at = "loaded",
                          ![p].doc = [b \in DOMAIN Readable \ {a} |-> Readable[b]]]
  /\ Begins
  /\ UNCHANGED <<latest, offer, memo, archive, binary, installed, torn>>

\* _save_installed: write_text truncates and writes; an empty file is unreadable.
Open(p) ==
  /\ proc[p].at = "loaded" /\ installed' = Garbled /\ Goto(p, "open")
  /\ UNCHANGED <<latest, offer, memo, archive, binary, ledger>>

Write(p) ==
  /\ proc[p].at = "open" /\ installed' = proc[p].doc /\ proc' = [proc EXCEPT ![p] = Idle]
  /\ settled' = IF ~disturbed /\ proc[p].kind = "binary" THEN settled \cup proc[p].agent ELSE settled
  /\ UNCHANGED <<latest, offer, memo, archive, binary, disturbed, torn>>

WriteIsCut(p) ==
  /\ proc[p].at = "open" /\ installed' = Garbled /\ Abort(p)
  /\ UNCHANGED <<latest, offer, memo, archive, binary, disturbed, torn>>

Next ==
  \/ Release
  \/ \E p \in Procs :
       \/ Fetch(p) \/ Exit(p)
       \/ \E a \in Agents : \E preferred \in {"npx", "uvx", "binary", "none"} : Install(p, a, preferred)
       \/ SkipDownload(p) \/ Download(p) \/ OpenArchive(p) \/ FillArchive(p) \/ ArchiveIsCut(p)
       \/ Extract(p) \/ FillBinary(p) \/ TakeAsItIs(p) \/ Fails(p) \/ LoadToRecord(p)
       \/ \E a \in Agents : LoadToRemove(p, a)
       \/ Open(p) \/ Write(p) \/ WriteIsCut(p)

Spec == Init /\ [][Next]_vars

(***************************************************************************)
(* Properties.                                                             *)
(***************************************************************************)

Binaries == {a \in DOMAIN Readable : Readable[a].kind = "binary"}

\* What an agent's command would run: the archive itself, or what is unpacked of it.
Held(a) == IF form[a] = "bare" THEN archive[a][Name(Readable[a].version)] ELSE binary[a]

\* What installed.json lists as a binary was put there, however installs, removals,
\* releases, failures and kills overlap, unless the release does not hold the
\* command.  With no operation under way it is also whole and, when releases name
\* their archives apart, of the version listed: a bare one unless a download has cut
\* or mixed its archive, an unpacked one as long as, since an install of it returned,
\* none has failed and no operations have overlapped.
InstalledIsThere ==
  \A a \in {b \in Binaries : form[b] # "without"} :
    /\ Held(a) # None
    /\ (\A p \in Procs : proc[p].at = "idle") /\ (IF form[a] = "bare" THEN a \notin torn ELSE a \in settled) =>
         Held(a).whole /\ (renames => Held(a).version = Readable[a].version)
=============================================================================
