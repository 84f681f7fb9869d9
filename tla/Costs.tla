-------------------------------- MODULE Costs --------------------------------
(* use_cases/cost.py and cost/aggregator.py: what `forge cost` and the    *)
(* cost cap make of the spawn events, which `forge cost` reads twice, the *)
(* starts and then the completions, while agents go on.                   *)
EXTENDS Integers, Sequences, FiniteSets, Functions

CONSTANTS
  Runs, Stages,
  NoStage, NoPrice,    \* a payload without a stage, a spawn without a price
  Unreadable,          \* a payload that is no JSON object
  Prices               \* what payloads say of the cost; foreign ones may be negative

CostsAssumption ==
  /\ Prices \subseteq Int /\ NoStage \notin Stages /\ NoPrice \notin Int

VARIABLES
  events,   \* .forge/events.db: [run, type, payload]
  report    \* the report under way: the number of rows at its two reads, and its filter

vars == <<events, report>>

NoReport == [at |-> "none", first |-> 0, second |-> 0, filter |-> NoStage]
Payloads(type) ==
  (IF type = "started" THEN Stages \cup {NoStage} ELSE Prices \cup {NoPrice}) \cup {Unreadable}

TypeOK ==
  /\ events \in Seq(UNION {[run : Runs, type : {type}, payload : Payloads(type)] :
                           type \in {"started", "completed"}})
  /\ report \in [at : {"none", "started", "done"}, first : Nat, second : Nat,
                 filter : Stages \cup {NoStage}]

Init == events = <<>> /\ report = NoReport

Has(run, type) == \E i \in DOMAIN events : events[i].run = run /\ events[i].type = type

\* _record_spawn_started and _record_spawn_completed, in one stream for each run.
Record(run, type, payload) ==
  /\ ~Has(run, type) /\ (type = "completed" => Has(run, "started"))
  /\ events' = Append(events, [run |-> run, type |-> type, payload |-> payload])
  /\ UNCHANGED report

ReadByType(rows, type) == {rows[i] : i \in {j \in DOMAIN rows : rows[j].type = type}}
Decoded(rows, type) == {e \in ReadByType(rows, type) : e.payload # Unreadable}

SumOf(spawns) == SumFunction([e \in spawns |-> e.payload])

\* The sum over the spawns that carry a price, which is none if no spawn does.
Total(spawns, Priced(_)) ==
  LET priced == {e \in spawns : e.payload # NoPrice /\ Priced(e.payload)}
  IN  [cost |-> IF priced = {} THEN NoPrice ELSE SumOf(priced), spawns |-> Cardinality(spawns)]

(***************************************************************************)
(* CostAggregator.totals: a price that cannot be one is none.              *)
(***************************************************************************)

Totals(rows) == Total(Decoded(rows, "completed"), LAMBDA price : price >= 0)

(***************************************************************************)
(* CostUseCases.report.                                                    *)
(***************************************************************************)

ReadStarted(filter) ==
  /\ report.at = "none"
  /\ report' = [at |-> "started", first |-> Len(events), second |-> 0, filter |-> filter]
  /\ UNCHANGED events

ReadCompleted ==
  /\ report.at = "started" /\ report' = [report EXCEPT !.at = "done", !.second = Len(events)]
  /\ UNCHANGED events

Leave ==
  report.at = "done" /\ report' = NoReport /\ UNCHANGED events

\* stage_by_run, of the starts that were read.
StageByRun(rows, run) ==
  LET own == {e \in Decoded(rows, "started") : e.run = run}
  IN  IF own = {} THEN NoStage ELSE (CHOOSE e \in own : TRUE).payload

FirstRead == SubSeq(events, 1, report.first)
SecondRead == SubSeq(events, 1, report.second)

\* The bucket of a stage; that of NoStage is the unattributed one.
Bucket(stage) ==
  Total({e \in Decoded(SecondRead, "completed") :
           /\ StageByRun(FirstRead, e.run) = stage
           /\ report.filter # NoStage => stage = report.filter},
        LAMBDA price : TRUE)

Buckets == {s \in Stages \cup {NoStage} : Bucket(s).spawns > 0}

CostReport ==
  LET priced == {s \in Buckets : Bucket(s).cost # NoPrice}
  IN  [cost |-> IF priced = {} THEN NoPrice ELSE SumFunction([s \in priced |-> Bucket(s).cost]),
       spawns |-> SumFunction([s \in Buckets |-> Bucket(s).spawns])]

Next ==
  \/ \E run \in Runs, type \in {"started", "completed"} :
       \E payload \in Payloads(type) : Record(run, type, payload)
  \/ \E filter \in Stages \cup {NoStage} : ReadStarted(filter)
  \/ ReadCompleted \/ Leave

Spec == Init /\ [][Next]_vars

(***************************************************************************)
(* Properties.                                                             *)
(***************************************************************************)

\* `forge cost` and the cap agree on spend that is sound, though the report is
\* read in two steps; and a stage is charged with each of its spawns that was
\* under way when the report began.
SpendIsWhole ==
  LET spawns == Decoded(SecondRead, "completed")
      late == Runs \ {e.run : e \in ReadByType(FirstRead, "started")}
  IN  report.at = "done" =>
        /\ report.filter = NoStage =>
             /\ CostReport.spawns = Totals(SecondRead).spawns
             /\ (\A e \in spawns : e.payload \in Nat \cup {NoPrice}) => CostReport = Totals(SecondRead)
        /\ \A s \in Stages : report.filter \in {NoStage, s} =>
             Bucket(s).spawns =
               Cardinality({e \in spawns : StageByRun(SecondRead, e.run) = s /\ e.run \notin late})
=============================================================================
