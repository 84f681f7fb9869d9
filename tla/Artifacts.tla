------------------------------ MODULE Artifacts ------------------------------
(***************************************************************************)
(* The artifact registry (`context/registry.py`, .forge/artifacts.json)    *)
(* and the backtrack tickets that rework it (`project/rework_planner.py`,  *)
(* .forge/backtrack.json).  The registry records for every artifact the    *)
(* hash of its file when it was last looked at and whether it is fresh,    *)
(* stale or missing.                                                       *)
(*                                                                         *)
(* One command runs at a time, and may be killed between the writes of its *)
(* two files.  `dependents` and adg.json are functions of the registry,    *)
(* rewritten with it, and are left out.                                    *)
(***************************************************************************)
EXTENDS Naturals, Sequences, FiniteSets

CONSTANTS
  Paths,     \* project-relative paths
  Contents,  \* what the file of a path may contain (its hash), or Absent
  Absent,    \* no such file
  StageOf,   \* the stage an artifact belongs to
  Stages,
  Given,     \* the dependency lists a registration of an artifact may give
  TicketIds

ArtifactsAssumption == \A p \in Paths : Given[p] \subseteq SUBSET Paths

VARIABLES
  files,     \* the working tree
  order,     \* registered paths, in the order of the document
  art,       \* their entries: status, hash and dependencies
  tickets,   \* status and affected artifacts of each ticket
  rework     \* the ticket whose artifacts are saved and whose status is not

vars == <<files, order, art, tickets, rework>>

Idle == [ticket |-> "none", status |-> "none"]

Init ==
  /\ files \in {f \in [Paths -> UNION {Contents[p] : p \in Paths}] : \A p \in Paths : f[p] \in Contents[p]}
  /\ order = <<>> /\ art = <<>>
  /\ tickets = [t \in TicketIds |-> [status |-> "none", affected |-> {}]]
  /\ rework = Idle

-----------------------------------------------------------------------------
(* The dependency graph                                                    *)

Snapshot(p) == IF files[p] = Absent THEN "missing" ELSE "fresh"

Dependents(a, S) == {q \in DOMAIN a : a[q].deps \intersect S # {}}

\* A set of artifacts that mark(p) cannot leave.
Closed(a, p, S) == Dependents(a, S \union {p}) \subseteq S

\* Everything that depends on p through registered artifacts; p too, on a cycle.
Downstream(a, p) ==
  {q \in DOMAIN a : \A S \in SUBSET DOMAIN a : Closed(a, p, S) => q \in S}

\* Mutant: only direct dependents are marked.
MarkDownstreamStale_Direct(a, p) ==
  [q \in DOMAIN a |->
     IF q = p THEN [a[q] EXCEPT !.status = "fresh"]
     ELSE IF p \in a[q].deps THEN [a[q] EXCEPT !.status = "stale"] ELSE a[q]]

\* Everything that depends on p becomes stale, and p, which was just looked
\* at and is there, fresh.
MarkDownstreamStale(a, p) ==
  LET down == Downstream(a, p) IN
  [q \in DOMAIN a |->
     IF q = p THEN [a[q] EXCEPT !.status = "fresh"]
     ELSE IF q \in down THEN [a[q] EXCEPT !.status = "stale"] ELSE a[q]]

\* One iteration of the loop in refresh.
LookAt(a, p) ==
  LET status == IF files[p] # Absent /\ a[p].status = "stale" THEN "stale" ELSE Snapshot(p)
      seen == [a EXCEPT ![p].status = status, ![p].hash = files[p]]
  IN  IF a[p].hash # files[p] /\ files[p] # Absent THEN MarkDownstreamStale(seen, p) ELSE seen

-----------------------------------------------------------------------------
(* ArtifactRegistry                                                        *)

\* The user or an agent writes or removes a file.
Edit(p) ==
  /\ \E c \in Contents[p] \ {files[p]} : files' = [files EXCEPT ![p] = c]
  /\ UNCHANGED <<order, art, tickets, rework>>

\* Mutant: a path that is registered again is listed twice.
Register_Duplicates(p) ==
  /\ rework = Idle
  /\ \E deps \in Given[p] :
       art' = [q \in DOMAIN art \union {p} |->
                 IF q = p THEN [status |-> Snapshot(p), hash |-> files[p], deps |-> deps] ELSE art[q]]
  /\ order' = Append(order, p)
  /\ UNCHANGED <<files, tickets, rework>>

\* register: new entries go to the end; known ones are overwritten, but keep
\* their dependencies when none are given.
Register(p) ==
  /\ rework = Idle
  /\ \E deps \in Given[p] :
       LET entry == [status |-> Snapshot(p), hash |-> files[p],
                     deps |-> IF deps = {} /\ p \in DOMAIN art THEN art[p].deps ELSE deps]
       IN  art' = [q \in DOMAIN art \union {p} |-> IF q = p THEN entry ELSE art[q]]
  /\ order' = IF p \in DOMAIN art THEN order ELSE Append(order, p)
  /\ UNCHANGED <<files, tickets, rework>>

\* refresh: the entries are looked at in the order of the document.
Refresh ==
  /\ rework = Idle
  /\ LET looked[i \in 0..Len(order)] ==
           IF i = 0 THEN art ELSE LookAt(looked[i - 1], order[i])
     IN  art' = looked[Len(order)]
  /\ UNCHANGED <<files, order, tickets, rework>>

-----------------------------------------------------------------------------
(* ReworkPlanner and BacktrackRegistry                                     *)

Affected(stage) ==
  LET seeds == {p \in DOMAIN art : StageOf[p] = stage}
  IN  seeds \union UNION {Downstream(art, p) : p \in seeds}

CreateTicket(t, stage) ==
  /\ rework = Idle
  /\ tickets[t].status = "none"
  /\ tickets' = [tickets EXCEPT ![t] = [status |-> "open", affected |-> Affected(stage)]]
  /\ UNCHANGED <<files, order, art, rework>>

\* approve_ticket looks at no status: it reopens resolved tickets too.
Approve(t) ==
  /\ rework = Idle
  /\ tickets[t].status # "none"
  /\ tickets' = [tickets EXCEPT ![t].status = "approved"]
  /\ UNCHANGED <<files, order, art, rework>>

Entered(p, status) == [status |-> status, hash |-> art[p].hash, deps |-> art[p].deps]

\* Mutant: the ticket is updated first, and the artifacts are not.
RunRework_TicketOnly(t) ==
  /\ rework = Idle
  /\ tickets[t].status = "approved"
  /\ rework' = [ticket |-> t, status |-> "in_progress"]
  /\ UNCHANGED <<files, order, art, tickets>>

\* run_rework, up to the save of the registry.
RunRework(t) ==
  /\ rework = Idle
  /\ tickets[t].status = "approved"
  /\ art' = [p \in DOMAIN art |->
               IF p \in tickets[t].affected THEN Entered(p, "stale") ELSE art[p]]
  /\ rework' = [ticket |-> t, status |-> "in_progress"]
  /\ UNCHANGED <<files, order, tickets>>

\* resolve_ticket, up to the save of the registry, whatever the ticket's status.
Resolve(t) ==
  /\ rework = Idle
  /\ tickets[t].status # "none"
  /\ art' = [p \in DOMAIN art |->
               IF p \in tickets[t].affected /\ art[p].status = "stale"
               THEN Entered(p, "fresh") ELSE art[p]]
  /\ rework' = [ticket |-> t, status |-> "resolved"]
  /\ UNCHANGED <<files, order, tickets>>

UpdateTicket ==
  /\ rework # Idle
  /\ tickets' = [tickets EXCEPT ![rework.ticket].status = rework.status]
  /\ rework' = Idle
  /\ UNCHANGED <<files, order, art>>

\* A command is killed before it has updated the ticket, or while it rewrites
\* backtrack.json: a file that cannot be parsed is read as an empty store.
Crash ==
  /\ rework' = Idle
  /\ \/ UNCHANGED tickets
     \/ tickets' = [t \in TicketIds |-> [status |-> "none", affected |-> {}]]
  /\ UNCHANGED <<files, order, art>>

-----------------------------------------------------------------------------
Next ==
  \/ \E p \in Paths : Edit(p) \/ Register(p)
  \/ Refresh
  \/ \E t \in TicketIds :
       (\E stage \in Stages : CreateTicket(t, stage)) \/ Approve(t) \/ RunRework(t) \/ Resolve(t)
  \/ UpdateTicket \/ Crash

Spec == Init /\ [][Next]_vars

-----------------------------------------------------------------------------
Entry == [status : {"fresh", "stale", "missing"}, hash : {Absent} \union UNION {Contents[p] : p \in Paths}, deps : SUBSET Paths]

TicketStatus == {"none", "open", "approved", "in_progress", "resolved"}

\* The document lists every registered path once, and the entries are well
\* formed.
TypeOK ==
  /\ \A p \in Paths : files[p] \in Contents[p]
  /\ Len(order) = Cardinality(DOMAIN art) /\ {order[i] : i \in DOMAIN order} = DOMAIN art
  /\ DOMAIN art \subseteq Paths /\ \A p \in DOMAIN art : art[p] \in Entry
  /\ tickets \in [TicketIds -> [status : TicketStatus, affected : SUBSET Paths]]
  /\ rework.ticket \in TicketIds \union {"none"}

\* The artifacts whose recorded content a step replaces by another one.
Changed == {p \in DOMAIN art : art[p].hash # art'[p].hash /\ art'[p].hash # Absent}

\* When the recorded content of an artifact changes, everything that depends on
\* it, directly or not, and was not itself rewritten is stale or missing after
\* the step.
ChangesMark ==
  \A p \in Changed :
    \A q \in Downstream(art, p) \ Changed : q # p => art'[q].status \in {"stale", "missing"}

\* refresh propagates through any graph, cycles included, whatever the order in
\* which the artifacts were registered.
RefreshMarksDownstream == [][Refresh => ChangesMark]_vars

\* "When an upstream artifact is modified, the ADG marks all downstream
\* artifacts" (SRS.md, FR-ADG-003), however the registry learns about it.
ChangesMarkDownstream == [][ChangesMark]_vars

\* A stale artifact becomes fresh only when it was rewritten, when it is
\* registered again, or when a ticket that lists it is resolved.
StaleStep ==
  \A p \in DOMAIN art :
    art[p].status = "stale" /\ art'[p].status = "fresh" =>
      \/ p \in Changed
      \/ Register(p)
      \/ \E t \in TicketIds : p \in tickets[t].affected /\ Resolve(t)
StaleUntilRevisited == [][StaleStep]_vars

\* A ticket is in progress only after the registry holds its artifacts as
\* stale, and resolved only after it holds none of them as stale: the files are
\* written in this order, so a killed command leaves a ticket that can run again.
TicketStep ==
  \A t \in TicketIds, p \in DOMAIN art :
    tickets[t].status # tickets'[t].status /\ p \in tickets'[t].affected =>
      /\ tickets'[t].status = "in_progress" => art[p].status = "stale"
      /\ tickets'[t].status = "resolved" => art[p].status # "stale"
TicketsFollowArtifacts == [][TicketStep]_vars
=============================================================================
