------------------------------ MODULE Channels -------------------------------
(* channels/identity.py, intake.py, policy.py and use_cases/channels.py:   *)
(* the pairing of one sender with a Forge identity, in a file that is read *)
(* twice and replaced as a whole, and the queue of the sender's feedback,  *)
(* which is read and then appended to.                                     *)
EXTENDS Naturals, Sequences, FiniteSets

CONSTANTS
  Procs,
  Texts,          \* what the sender writes
  MaxPerWindow,   \* of FeedbackQueue, per sender
  MaxCodes, MaxItems   \* bounds on the pairing codes and on the queue

ChannelsAssumption == {MaxPerWindow, MaxCodes, MaxItems} \subseteq Nat

Codes == 1..MaxCodes
NoCode == 0

VARIABLES
  identity,   \* the sender's binding: bound, and the code that would confirm it
  queue,      \* the pending feedback: its text, and whether its window has passed
  proc,       \* proc[p]: the operation p is in, and what it has read
  issued,     \* the codes given out
  confirmed,  \* confirm has returned TRUE
  overtaken,  \* the pairings that were under way when a confirmation was written
  undone      \* the last confirmation has been overwritten by one of them

vars == <<identity, queue, proc, issued, confirmed, overtaken, undone>>

Unknown == [bound |-> FALSE, code |-> NoCode]
Idle == [at |-> "idle", identity |-> Unknown, text |-> {}]

TypeOK ==
  /\ identity \in [bound : BOOLEAN, code : 0..MaxCodes]
  /\ queue \in Seq([text : Texts, old : BOOLEAN])
  /\ \A p \in Procs :
       /\ proc[p].at \in {"idle", "pairing", "confirming", "submitting"}
       /\ proc[p].identity \in [bound : BOOLEAN, code : 0..MaxCodes] /\ proc[p].text \subseteq Texts
  /\ issued \in 0..MaxCodes /\ confirmed \in BOOLEAN
  /\ overtaken \subseteq Procs /\ undone \in BOOLEAN

Init ==
  /\ identity = Unknown /\ queue = <<>> /\ proc = [p \in Procs |-> Idle]
  /\ issued = 0 /\ confirmed = FALSE /\ overtaken = {} /\ undone = FALSE

(***************************************************************************)
(* Pairing.                                                                *)
(***************************************************************************)

Changing == {p \in Procs : proc[p].at \in {"pairing", "confirming"}}

Changes(p, at, new) ==
  /\ proc[p].at = "idle"
  /\ proc' = [proc EXCEPT ![p] = [Idle EXCEPT !.at = at, !.identity = new]]

\* begin_pairing refuses a sender that is bound.
MayPair(current) == ~current.bound

Pair(p) ==
  /\ issued < MaxCodes /\ MayPair(identity)
  /\ issued' = issued + 1 /\ Changes(p, "pairing", [bound |-> FALSE, code |-> issued + 1])
  /\ UNCHANGED <<identity, queue, confirmed, overtaken, undone>>

\* confirm: the operator's code is the one that is stored.
Confirm(p, code) ==
  /\ identity.code # NoCode /\ identity.code = code
  /\ Changes(p, "confirming", [bound |-> TRUE, code |-> NoCode])
  /\ UNCHANGED <<identity, queue, issued, confirmed, overtaken, undone>>

\* _upsert replaces the sender's entry, whatever it is by now.  It reads the other
\* senders' entries and writes them back: with one sender that shows nothing.
Upsert(p) ==
  /\ p \in Changing /\ identity' = proc[p].identity
  /\ IF proc[p].at = "confirming"
     THEN confirmed' = TRUE /\ undone' = FALSE /\ overtaken' = Changing \ {p}
     ELSE /\ undone' = (undone \/ p \in overtaken) /\ overtaken' = overtaken \ {p}
          /\ UNCHANGED confirmed
  /\ proc' = [proc EXCEPT ![p] = Idle] /\ UNCHANGED <<queue, issued>>

(***************************************************************************)
(* Feedback.                                                               *)
(***************************************************************************)

\* Everyone may give feedback; other actions need a binding and an allowance.
Authorized(action, allowed) ==
  action \in {"status", "feedback"} \/ (identity.bound /\ action \in allowed)

Duplicate(text) == \E i \in DOMAIN queue : queue[i].text = text
Recent == {i \in DOMAIN queue : ~queue[i].old}

\* Mutant: one more than the limit.
WithinLimit_OneMore(recent) == Cardinality(recent) <= MaxPerWindow

WithinLimit(recent) == Cardinality(recent) < MaxPerWindow

\* submit: no text that is pending, and not too many in the window.
Submit(p, text) ==
  /\ proc[p].at = "idle" /\ Len(queue) < MaxItems /\ Authorized("feedback", {})
  /\ ~Duplicate(text) /\ WithinLimit(Recent)
  /\ proc' = [proc EXCEPT ![p] = [Idle EXCEPT !.at = "submitting", !.text = {text}]]
  /\ UNCHANGED <<identity, queue, issued, confirmed, overtaken, undone>>

AppendItem(p) ==
  /\ proc[p].at = "submitting"
  /\ \E text \in proc[p].text : queue' = Append(queue, [text |-> text, old |-> FALSE])
  /\ proc' = [proc EXCEPT ![p] = Idle] /\ UNCHANGED <<identity, issued, confirmed, overtaken, undone>>

\* Time: the oldest item leaves the window.
Age ==
  /\ \E i \in Recent :
       /\ \A j \in Recent : i <= j
       /\ queue' = [queue EXCEPT ![i].old = TRUE]
  /\ UNCHANGED <<identity, proc, issued, confirmed, overtaken, undone>>

Kill(p) ==
  /\ proc[p].at # "idle" /\ proc' = [proc EXCEPT ![p] = Idle]
  /\ overtaken' = overtaken \ {p} /\ UNCHANGED <<identity, queue, issued, confirmed, undone>>

Next ==
  \/ Age
  \/ \E p \in Procs :
       \/ Pair(p) \/ Upsert(p) \/ AppendItem(p) \/ Kill(p)
       \/ \E code \in Codes : Confirm(p, code)
       \/ \E text \in Texts : Submit(p, text)

Spec == Init /\ [][Next]_vars

(***************************************************************************)
(* Properties.                                                             *)
(***************************************************************************)

\* A sender is bound only by a confirmation, and is unbound again only by a pairing
\* that had begun before the confirmation was written: one that begins later is
\* refused, and of the ones under way the last to be written wins.
BindingsStay ==
  /\ identity.bound => confirmed
  /\ confirmed /\ ~undone => identity.bound

\* Submissions that overlap pass the checks together, but no further: the window
\* is exceeded by no more than the other commands, and so is a text.
QueueIsBounded ==
  /\ Cardinality(Recent) <= MaxPerWindow + Cardinality(Procs) - 1
  /\ \A text \in Texts :
       Cardinality({i \in DOMAIN queue : queue[i].text = text}) <= Cardinality(Procs)

\* Overlaps lose a binding, and exceed the bounds of the feedback, so far and no
\* further; without one the bindings stay and the bounds hold.
FeedbackIsBounded == BindingsStay /\ QueueIsBounded
=============================================================================
