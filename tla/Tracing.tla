------------------------------- MODULE Tracing -------------------------------
(* tracing/ with use_cases/observability.py, and the security audit log   *)
(* of project/security_audit.py and security_enforcer.py: two append-only *)
(* sources, read one after the other while others write them, and         *)
(* projected into spans, which are grouped into traces, listed in the     *)
(* order of time, or written to a sink as a whole.                        *)
EXTENDS Integers, Sequences, FiniteSets, FiniteSetsExt

CONSTANTS
  Procs,             \* commands that list the traces or write the sink
  Runs,              \* spawns recorded in the event log
  Verdicts,          \* what the security profile may decide
  Offset,            \* of the machine's local time from UTC
  MaxTime, MaxEntries, MaxCommands  \* bounds on the clock, the entries and the commands

\* The ids of runs and of audit entries differ by their prefix.
TracingAssumption ==
  /\ Verdicts \subseteq {"allowed", "warned", "denied"} /\ Runs \cap {"AUD", "AUD-TO"} = {}
  /\ Offset \in Int /\ {MaxTime, MaxEntries, MaxCommands} \subseteq Nat

VARIABLES
  now,      \* milliseconds
  rows,     \* .forge/events.db: one stream for each run
  lines,    \* .forge/security-audit.jsonl
  open,     \* its last line has no end yet
  running,  \* a command of run_command has been let through, and has not timed out
  reader,   \* reader[p]: what p is doing, the rows and the spans it has read, what it lists
  sink,     \* .forge/traces/spans.jsonl: the number of rows it shows
  logged,   \* the number of entries for which log has returned
  cuts,     \* the number of entries that were cut
  shown,    \* the largest number of rows a sink has shown
  begun,    \* the number of commands
  excused   \* two emissions overlapped, or one could not read the event log

vars == <<now, rows, lines, open, running, reader, sink, logged, cuts, shown, begun, excused>>

Decisions == Verdicts \cup {"failed"}
Types == {"AdapterSpawnStarted", "AdapterSpawnCompleted", "AdapterSpawnFailed"}
Torn == [at |-> 0, decision |-> "torn"]     \* no JSON
Idle ==
  [at |-> "idle", emits |-> FALSE, rows |-> 0, spans |-> {}, traces |-> <<>>, failed |-> {}]

\* A span: a run is a trace, an audit entry one on its own, unless two were
\* logged within a millisecond.
Trace == (Runs \X {0}) \cup ({"AUD", "AUD-TO"} \X (0..MaxTime))
Statuses == {"error", "ok", "unset"}
Span == [trace : Trace, kind : {"reasoning", "audit"}, start : Int, status : Statuses]
Summary == [trace : Trace, kinds : SUBSET {"reasoning", "audit"}, start : Int, status : Statuses]

TypeOK ==
  /\ now \in 0..MaxTime /\ open \in BOOLEAN /\ running \in BOOLEAN /\ excused \in BOOLEAN
  /\ rows \in Seq([run : Runs, type : Types, at : 0..MaxTime])
  /\ lines \in Seq([at : 0..MaxTime, decision : Decisions \cup {"torn"}])
  /\ {sink, logged, cuts, shown} \subseteq Nat /\ begun \in 0..MaxCommands
  /\ \A p \in Procs :
     /\ reader[p].at \in {"idle", "audits", "write", "listed"}
     /\ reader[p].rows \in Nat /\ reader[p].spans \subseteq Span
     /\ reader[p].traces \in Seq(Summary) /\ reader[p].failed \subseteq Trace

Init ==
  /\ now = 0 /\ rows = <<>> /\ lines = <<>> /\ open = FALSE /\ running = FALSE
  /\ reader = [p \in Procs |-> Idle] /\ sink = 0 /\ begun = 0
  /\ logged = 0 /\ cuts = 0 /\ shown = 0 /\ excused = FALSE

Tick ==
  /\ now < MaxTime /\ now' = now + 1
  /\ UNCHANGED <<rows, lines, open, running, reader, sink, logged, cuts, shown, begun, excused>>

(***************************************************************************)
(* The sources.                                                            *)
(***************************************************************************)

TypesOf(run) == {rows[i].type : i \in {j \in DOMAIN rows : rows[j].run = run}}

\* A spawn is recorded when it starts, and once more when it ends.
Record(run, type) ==
  /\ IF type = "AdapterSpawnStarted" THEN TypesOf(run) = {}
     ELSE TypesOf(run) = {"AdapterSpawnStarted"}
  /\ rows' = Append(rows, [run |-> run, type |-> type, at |-> now])
  /\ UNCHANGED <<now, lines, open, running, reader, sink, logged, cuts, shown, begun, excused>>

Joined(line) == IF open THEN [lines EXCEPT ![Len(lines)] = Torn] ELSE Append(lines, line)

\* log: one line is appended, to the end of a line that was cut before.
Log(decision) ==
  /\ logged + cuts < MaxEntries
  /\ lines' = Joined([at |-> now, decision |-> decision]) /\ open' = FALSE
  /\ logged' = logged + 1 /\ UNCHANGED cuts

\* A full disk or a power cut takes the line's end, or more; log does not return.
LogCut(decision) ==
  /\ logged + cuts < MaxEntries /\ (decision = "failed" => running)
  /\ \E left \in {Torn, [at |-> now, decision |-> decision]} : lines' = Joined(left)
  /\ open' = TRUE /\ cuts' = cuts + 1
  /\ running' = (running /\ decision # "failed")
  /\ UNCHANGED <<now, rows, reader, sink, logged, shown, begun, excused>>

\* validate_action: the decision is logged, then returned; run_command goes on
\* unless it is a denial.
Validate(decision, forCommand) ==
  /\ decision \in Verdicts /\ Log(decision)
  /\ running' = (running \/ (forCommand /\ decision # "denied"))
  /\ UNCHANGED <<now, rows, reader, sink, shown, begun, excused>>

CommandTimesOut ==
  /\ running /\ running' = FALSE /\ Log("failed")
  /\ UNCHANGED <<now, rows, reader, sink, shown, begun, excused>>

(***************************************************************************)
(* The projection.                                                         *)
(***************************************************************************)

ReasoningStatus(type) ==
  CASE type = "AdapterSpawnFailed" -> "error"
    [] type = "AdapterSpawnCompleted" -> "ok"
    [] OTHER -> "unset"

AuditStatus(decision) == IF decision \in {"denied", "failed"} THEN "error" ELSE "ok"

ReasoningSpan(row) ==
  [trace |-> <<row.run, 0>>, kind |-> "reasoning", start |-> row.at,
   status |-> ReasoningStatus(row.type)]

AuditId(entry) == <<IF entry.decision = "failed" THEN "AUD-TO" ELSE "AUD", entry.at>>

\* The time stamp of an entry is naive: the local time.
AuditSpan(entry) ==
  [trace |-> AuditId(entry), kind |-> "audit", start |-> entry.at + Offset,
   status |-> AuditStatus(entry.decision)]

ReasoningSpans == {ReasoningSpan(rows[i]) : i \in DOMAIN rows}

Intact == {i \in DOMAIN lines : lines[i] # Torn}
AuditSpans == {AuditSpan(lines[i]) : i \in Intact}

\* TraceIndex, and the summary of a trace.
SpansFor(spans, trace) == {s \in spans : s.trace = trace}

RollupStatus(statuses) ==
  IF "error" \in statuses THEN "error" ELSE IF "ok" \in statuses THEN "ok" ELSE "unset"

Summarize(spans, trace) ==
  LET own == SpansFor(spans, trace)
  IN  [trace |-> trace, kinds |-> {s.kind : s \in own}, start |-> Min({s.start : s \in own}),
       status |-> RollupStatus({s.status : s \in own})]

\* A local time is brought back to UTC.
SortInstant(summary) == IF "audit" \in summary.kinds THEN summary.start - Offset ELSE summary.start

\* In the order of time; of one time, in that of the ids, which may be any.
ListTraces(spans) ==
  LET summaries == {Summarize(spans, s.trace) : s \in spans}
  IN  {list \in [1..Cardinality(summaries) -> summaries] :
         /\ \A summary \in summaries : \E i \in DOMAIN list : list[i] = summary
         /\ \A i, j \in DOMAIN list : i < j => SortInstant(list[i]) <= SortInstant(list[j])}

\* The traces that have failed so far, by what is in the sources to stay.
FailedRuns == {<<run, 0>> : run \in {r \in Runs : "AdapterSpawnFailed" \in TypesOf(r)}}
FailedActions ==
  {AuditId(lines[i]) : i \in {j \in DOMAIN lines :
      lines[j].decision \in {"denied", "failed"} /\ ~(open /\ j = Len(lines))}}

\* collect: the event log first.  emit does nothing unless tracing is enabled.
Begin(p, emits, number, spans, failed) ==
  /\ reader[p].at = "idle" /\ begun < MaxCommands /\ begun' = begun + 1
  /\ reader' = [reader EXCEPT ![p] =
       [Idle EXCEPT !.at = "audits", !.emits = emits, !.rows = number, !.spans = spans,
                    !.failed = IF emits THEN {} ELSE failed]]
  /\ UNCHANGED <<now, rows, lines, open, running, sink, logged, cuts, shown>>

ReadRows(p, emits) ==
  /\ Begin(p, emits, Len(rows), ReasoningSpans, FailedRuns \cup FailedActions)
  /\ excused' = (excused \/ (emits /\ \E q \in Procs : reader[q].emits))

\* A log that cannot be read, one that stays locked say, has no spans: what is
\* listed then hides the runs that failed.
RowsUnreadable(p, emits) ==
  /\ rows # <<>> /\ Begin(p, emits, 0, {}, FailedRuns \cup FailedActions)
  /\ excused' = (excused \/ emits)

\* Of what is emitted the sink shows the rows.
ReadAudits(p) ==
  /\ reader[p].at = "audits"
  /\ \/ reader[p].emits /\ reader' = [reader EXCEPT ![p].at = "write", ![p].spans = {}]
     \/ /\ ~reader[p].emits
        /\ \E list \in ListTraces(reader[p].spans \cup AuditSpans) :
             reader' = [reader EXCEPT ![p].at = "listed", ![p].spans = {}, ![p].traces = list]
  /\ UNCHANGED <<now, rows, lines, open, running, sink, logged, cuts, shown, begun, excused>>

\* write: a temporary file replaces the sink.
Write(p) ==
  /\ reader[p].at = "write" /\ sink' = reader[p].rows
  /\ shown' = Max({shown, sink'}) /\ reader' = [reader EXCEPT ![p] = Idle]
  /\ UNCHANGED <<now, rows, lines, open, running, logged, cuts, begun, excused>>

\* A kill, or an OSError: the sink stays.  A listing ends as it is.
Leave(p) ==
  /\ reader[p].at # "idle" /\ reader' = [reader EXCEPT ![p] = Idle]
  /\ UNCHANGED <<now, rows, lines, open, running, sink, logged, cuts, shown, begun, excused>>

Next ==
  \/ Tick \/ CommandTimesOut
  \/ \E run \in Runs, type \in Types : Record(run, type)
  \/ \E decision \in Decisions :
       LogCut(decision) \/ \E forCommand \in BOOLEAN : Validate(decision, forCommand)
  \/ \E p \in Procs :
       \/ \E emits \in BOOLEAN : ReadRows(p, emits) \/ RowsUnreadable(p, emits)
       \/ ReadAudits(p) \/ Write(p) \/ Leave(p)

Spec == Init /\ [][Next]_vars

(***************************************************************************)
(* Properties.                                                             *)
(***************************************************************************)

\* An entry that was cut costs at most one that was not: the one appended to it.
TornLinesCostOne == logged - cuts <= Cardinality(Intact)

\* What `forge trace` lists is in the order in which it happened, across both
\* clocks, and all that had failed before is listed as an error: a denial, though
\* an allowance was logged in the same millisecond and a line was cut since.  A
\* listing that could not read the event log shows no run, the failed ones neither.
TracesAreTrue ==
  LET Born(t) == IF t[1] \in {"AUD", "AUD-TO"} THEN t[2]
                 ELSE Min({rows[k].at : k \in {j \in DOMAIN rows : rows[j].run = t[1]}})
  IN  \A p \in {q \in Procs : reader[q].at = "listed"} :
        LET traces == reader[p].traces
        IN  /\ \A i, j \in DOMAIN traces :
                 i < j => Born(traces[i].trace) <= Born(traces[j].trace)
            /\ \A t \in reader[p].failed :
                 \/ t[1] \in Runs /\ reader[p].rows = 0
                 \/ \E i \in DOMAIN traces : traces[i].trace = t /\ traces[i].status = "error"

\* The sink never goes back: what one emission showed, all later ones show.
SinkGoesForward == ~excused => sink = shown
=============================================================================
