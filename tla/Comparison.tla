----------------------------- MODULE Comparison ------------------------------
(* harness/comparison_harness.py: compare runs every kernel through every  *)
(* task, one run after the other, each under a timeout and against a judge *)
(* that answers its proposals, and reports what the runs recorded.         *)
EXTENDS Naturals, Sequences, FiniteSets

CONSTANTS
  NKernels,   \* kernels, in the order of the dictionary
  Scripts,    \* Scripts[k]: what the generator of kernel k may do, event by event
  Plans,      \* numbers of tasks and of repeats
  Timeout,    \* timeout_s, by which every event loop step has an end
  JudgeTime   \* judge_latency_s

Kinds == {"session", "thinking", "text", "proposal", "failed", "completed", "raise", "hang"}

ComparisonAssumption ==
  /\ NKernels \in Nat \ {0} /\ Timeout \in Nat /\ JudgeTime \in Nat
  /\ \A k \in 1..NKernels : Scripts[k] \subseteq Seq(Kinds)
  /\ \A plan \in Plans : {plan.tasks, plan.repeats} \subseteq Nat \ {0}

VARIABLES
  plan,       \* the call's tasks and repeats
  pos,        \* the run under way: its task, its kernel, its index
  phase,      \* where run_kernel_once is
  script,     \* what the kernel has left to do
  open,       \* generators that have not ended
  rec,        \* the _Recorder
  judged,     \* time this run has spent in the judge
  verdict,    \* of a run whose generator is being closed
  raw,        \* raw_runs
  first,      \* first_success: of each kernel the text of its first success
  summaries,  \* <<task, kernel>> -> how many of its runs ended in each status
  drift       \* task -> the texts that are compared

vars == <<plan, pos, phase, script, open, rec, judged, verdict, raw, first, summaries, drift>>

Kernels == 1..NKernels
Statuses == {"completed", "failed", "timeout", "error"}
Never == Timeout + 1
NewRecorder == [now |-> 0, token |-> Never, done |-> Never, sent |-> Never, due |-> 0,
                overhead |-> 0, proposals |-> 0, text |-> 0, failed |-> FALSE]

Positions == [task : 1..plan.tasks, kernel : Kernels, index : 1..plan.repeats]

TypeOK ==
  /\ plan \in Plans /\ phase \in {"start", "kernel", "judge", "closing", "reported"}
  /\ phase # "reported" => pos \in Positions
  /\ open \subseteq Positions
  /\ {rec.now, rec.overhead, judged} \subseteq 0..Timeout
  /\ {rec.token, rec.done, rec.sent} \subseteq 0..Never /\ rec.failed \in BOOLEAN
  /\ {rec.proposals, rec.text} \subseteq Nat
  /\ verdict \in Statuses
  /\ \A i \in DOMAIN raw : raw[i].pos \in Positions /\ raw[i].status \in Statuses
  /\ DOMAIN first \subseteq Kernels
  /\ DOMAIN summaries \subseteq (1..plan.tasks) \X Kernels /\ DOMAIN drift \subseteq 1..plan.tasks

Init ==
  /\ plan \in Plans /\ pos = [task |-> 1, kernel |-> 1, index |-> 1] /\ phase = "start"
  /\ script = <<>> /\ open = {} /\ rec = NewRecorder /\ judged = 0 /\ verdict = "error"
  /\ raw = <<>> /\ first = <<>> /\ summaries = <<>> /\ drift = <<>>

report == <<raw, first, summaries, drift>>

(***************************************************************************)
(* run_kernel_once: the asend loop.                                        *)
(***************************************************************************)

\* spawn_agent only makes the generator; the clock starts.
Start ==
  /\ phase = "start" /\ phase' = "kernel"
  /\ script' \in Scripts[pos.kernel]
  /\ open' = open \cup {pos} /\ rec' = NewRecorder /\ judged' = 0
  /\ UNCHANGED <<plan, pos, verdict, report>>

\* observe: the pending send ends with the next event, whatever it is.
Observed(kind) ==
  [rec EXCEPT
    !.overhead = IF rec.sent = Never THEN @ ELSE @ + (rec.now - rec.sent),
    !.sent = Never,
    !.text = IF kind = "text" THEN @ + 1 ELSE @,
    !.token = IF kind = "text" /\ @ = Never THEN rec.now ELSE @,
    !.proposals = IF kind = "proposal" THEN @ + 1 ELSE @,
    !.failed = @ \/ kind = "failed",
    !.done = IF kind \in {"failed", "completed"} THEN rec.now ELSE @]

\* The judge's sleep begins as the proposal arrives; mark_send comes after it.
KernelYields ==
  /\ phase = "kernel" /\ script # <<>> /\ Head(script) \notin {"raise", "hang"}
  /\ script' = Tail(script)
  /\ IF Head(script) = "proposal"
     THEN phase' = "judge" /\ rec' = [Observed("proposal") EXCEPT !.due = rec.now + JudgeTime]
     ELSE rec' = Observed(Head(script)) /\ UNCHANGED phase
  /\ UNCHANGED <<plan, pos, open, judged, verdict, report>>

\* Mutant: the send is marked before the judge's latency.
MarkSend_Early == [rec EXCEPT !.sent = rec.due - JudgeTime]

MarkSend == [rec EXCEPT !.sent = rec.now]

\* ScriptedJudge: the same outcome for the same tool, whichever kernel proposes it.
JudgeAnswers ==
  /\ phase = "judge" /\ rec.now >= rec.due
  /\ rec' = MarkSend /\ judged' = judged + JudgeTime /\ phase' = "kernel"
  /\ UNCHANGED <<plan, pos, script, open, verdict, report>>

\* The kernel and the judge's sleep are awaited; a proposal is decided at once.
Tick ==
  /\ rec.now < Timeout
  /\ \/ phase = "kernel" /\ script # <<>>
     \/ phase = "judge" /\ rec.now < rec.due
  /\ rec' = [rec EXCEPT !.now = @ + 1]
  /\ UNCHANGED <<plan, pos, phase, script, open, judged, verdict, report>>

\* The generator is closed before the run is recorded.
Closes(status) ==
  /\ phase' = "closing" /\ verdict' = status
  /\ UNCHANGED <<plan, pos, script, open, rec, judged, report>>

\* wait_for: it cancels what is awaited, the kernel or the judge's sleep.
Expire ==
  /\ rec.now = Timeout
  /\ \/ phase = "kernel" /\ script # <<>>
     \/ phase = "judge" /\ rec.now < rec.due
  /\ Closes("timeout")

KernelRaises == phase = "kernel" /\ script # <<>> /\ Head(script) = "raise" /\ Closes("error")

\* A judge of the caller's may raise.
JudgeRaises == phase = "judge" /\ rec.due = rec.now + JudgeTime /\ Closes("error")

(***************************************************************************)
(* finish, and the loops of compare.                                       *)
(***************************************************************************)

\* finish: an agent that failed did not complete.
Status(status) == IF status = "completed" /\ rec.failed THEN "failed" ELSE status

\* _summarize, of the runs of one kernel at one task: those at some places of the list.
Summary(runs, places) ==
  [s \in Statuses |-> Cardinality({i \in places : runs[i].status = s})]

\* A dictionary with a key it may hold already.
With(dict, key, value) ==
  [k \in DOMAIN dict \cup {key} |-> IF k \in DOMAIN dict THEN dict[k] ELSE value]

\* The first success of a kernel at a task.
FirstSuccess(result) ==
  [k \in DOMAIN first \cup {pos.kernel} |-> IF k \in DOMAIN first THEN first[k] ELSE result.text]

\* The run is recorded, and the loops go on: index, kernel, task.
Record(status) ==
  LET result == [pos |-> pos, status |-> Status(status), text |-> rec.text]
      succeeded == IF result.status = "completed" THEN FirstSuccess(result) ELSE first
      runs == Append(raw, result)
      lastRun == pos.index = plan.repeats
      lastKernel == lastRun /\ pos.kernel = NKernels
  IN  /\ raw' = runs
      /\ summaries' = IF ~lastRun THEN summaries
                      ELSE With(summaries, <<pos.task, pos.kernel>>,
                             Summary(runs, (Len(runs) - plan.repeats + 1)..Len(runs)))
      /\ first' = IF lastKernel THEN <<>> ELSE succeeded
      /\ drift' = IF lastKernel /\ DOMAIN succeeded # {} THEN With(drift, pos.task, succeeded) ELSE drift
      /\ pos' = IF ~lastRun THEN [pos EXCEPT !.index = @ + 1]
                ELSE IF ~lastKernel THEN [pos EXCEPT !.index = 1, !.kernel = @ + 1]
                ELSE [task |-> pos.task + 1, kernel |-> 1, index |-> 1]
      /\ phase' = IF lastKernel /\ pos.task = plan.tasks THEN "reported" ELSE "start"

\* StopAsyncIteration.
KernelEnds ==
  /\ phase = "kernel" /\ script = <<>> /\ open' = open \ {pos} /\ Record("completed")
  /\ UNCHANGED <<plan, script, rec, judged, verdict>>

\* _aclose ends the generator where it is suspended, and what that raises is dropped.
Close ==
  /\ phase = "closing" /\ open' = open \ {pos} /\ Record(verdict)
  /\ UNCHANGED <<plan, script, rec, judged, verdict>>

Next ==
  \/ Start \/ KernelYields \/ JudgeAnswers \/ Tick \/ Expire
  \/ KernelRaises \/ JudgeRaises \/ KernelEnds \/ Close

Spec == Init /\ [][Next]_vars

(***************************************************************************)
(* Properties.                                                             *)
(***************************************************************************)

\* Latencies are not polluted: no generator of an earlier run is open beside the
\* one that is timed, and the judge's latency is no kernel's overhead.
RunsAreAlone ==
  /\ open \subseteq {pos}
  /\ rec.overhead + judged <= rec.now

\* Where the list has the runs of a kernel at a task, and those that completed.
Of(task, kernel) == {i \in DOMAIN raw : raw[i].pos.task = task /\ raw[i].pos.kernel = kernel}
Successes(task, kernel) == {i \in Of(task, kernel) : raw[i].status = "completed"}

Lucky(task) == {k \in Kernels : Successes(task, k) # {}}

IsFirst(task, kernel, text) ==
  \E i \in Successes(task, kernel) :
    (\A j \in Successes(task, kernel) : i <= j) /\ text = raw[i].text

\* The report counts every run of the plan once, under its kernel and its task,
\* and compares of each task the first successes and nothing else.
ReportIsRight ==
  phase = "reported" =>
    \A task \in 1..plan.tasks :
      /\ \A kernel \in Kernels :
           /\ Cardinality(Of(task, kernel)) = plan.repeats
           /\ summaries[<<task, kernel>>] = Summary(raw, Of(task, kernel))
      /\ (task \in DOMAIN drift) = (Lucky(task) # {})
      /\ task \in DOMAIN drift =>
           /\ DOMAIN drift[task] = Lucky(task)
           /\ \A k \in Lucky(task) : IsFirst(task, k, drift[task][k])
=============================================================================
