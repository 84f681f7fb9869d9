--------------------------- MODULE Channels_proofs ---------------------------
(***************************************************************************)
(* What the channels keep for any number of commands, texts and codes: a   *)
(* binding is lost only to a pairing that its confirmation overtook, and   *)
(* overlapping submissions exceed the limits of the feedback queue by no   *)
(* more than there are commands.                                           *)
(***************************************************************************)
EXTENDS Channels, Integers, FiniteSetTheorems, TLAPS

-----------------------------------------------------------------------------
(* The inductive invariant                                                 *)

Bindings == [bound : BOOLEAN, code : 0..MaxCodes]

Operations ==
  [at : {"idle", "pairing", "confirming", "submitting"}, identity : Bindings, text : SUBSET Texts]

Items == [text : Texts, old : BOOLEAN]

Typed ==
  /\ identity \in Bindings
  /\ queue \in Seq(Items)
  /\ proc \in [Procs -> Operations]
  /\ issued \in 0..MaxCodes /\ confirmed \in BOOLEAN
  /\ overtaken \subseteq Procs /\ undone \in BOOLEAN

\* A pairing that no confirmation has overtaken began when the sender was not
\* bound, and what it writes undoes nothing.
Changed ==
  \A p \in Procs :
    /\ proc[p].at = "pairing" => ~proc[p].identity.bound
    /\ proc[p].at = "confirming" => proc[p].identity.bound
    /\ proc[p].at = "pairing" /\ p \notin overtaken => (confirmed => undone)

Occurrences(text) == {i \in DOMAIN queue : queue[i].text = text}
Submitting == {p \in Procs : proc[p].at = "submitting"}
SubmittingText(text) == {p \in Submitting : proc[p].text = {text}}

\* What is submitted counts as if it were already on the queue.
Counted ==
  /\ \A p \in Submitting : \E text \in Texts : proc[p].text = {text}
  /\ Cardinality(Recent) + Cardinality(Submitting) <= MaxPerWindow + Cardinality(Procs) - 1
  /\ \A text \in Texts :
       Cardinality(Occurrences(text)) + Cardinality(SubmittingText(text)) <= Cardinality(Procs)

Inv == Typed /\ BindingsStay /\ Changed /\ Counted

\* What the bounds need: there is a command, and there are finitely many.
Instance == ChannelsAssumption /\ IsFiniteSet(Procs) /\ Procs # {}

LEMMA Commands == ASSUME Instance PROVE Cardinality(Procs) \in Nat \ {0}
BY FS_EmptySet, FS_CardinalityType DEF Instance

\* A set of commands, or of places in the queue, is finite.
LEMMA Counts ==
  ASSUME Instance, Typed
  PROVE  /\ \A S \in SUBSET Procs :
              IsFiniteSet(S) /\ Cardinality(S) \in Nat /\ Cardinality(S) <= Cardinality(Procs)
         /\ \A S \in SUBSET DOMAIN queue : IsFiniteSet(S) /\ Cardinality(S) \in Nat
<1>1. IsFiniteSet(DOMAIN queue)
  BY FS_Interval DEF Typed
<1> QED
  BY <1>1, FS_Subset, FS_CardinalityType DEF Instance

LEMMA InvBounds == ASSUME Instance, Inv PROVE TypeOK /\ FeedbackIsBounded
<1>1. TypeOK
  BY DEF Inv, Typed, TypeOK, Bindings, Operations, Items
<1>2. QueueIsBounded
  <2>1. Recent \subseteq DOMAIN queue /\ Submitting \subseteq Procs
    BY DEF Recent, Submitting
  <2>2. Cardinality(Recent) \in Nat /\ Cardinality(Submitting) \in Nat /\ MaxPerWindow \in Nat
        /\ Cardinality(Procs) \in Nat
    BY <2>1, Counts, Commands DEF Inv, Instance, ChannelsAssumption
  <2>3. Cardinality(Recent) <= MaxPerWindow + Cardinality(Procs) - 1
    BY <2>2 DEF Inv, Counted
  <2>4. ASSUME NEW text \in Texts PROVE Cardinality(Occurrences(text)) <= Cardinality(Procs)
    <3>1. Occurrences(text) \subseteq DOMAIN queue /\ SubmittingText(text) \subseteq Procs
      BY DEF Occurrences, SubmittingText, Submitting
    <3>2. Cardinality(Occurrences(text)) \in Nat /\ Cardinality(SubmittingText(text)) \in Nat
      BY <3>1, Counts DEF Inv
    <3> QED
      BY <2>2, <3>2 DEF Inv, Counted
  <2> QED
    BY <2>3, <2>4 DEF QueueIsBounded, Occurrences
<1> QED
  BY <1>1, <1>2 DEF Inv, FeedbackIsBounded

-----------------------------------------------------------------------------
(* Types and bindings                                                      *)

\* The records of an idle command and of one that began an operation.
LEMMA OperationForms ==
  ASSUME ChannelsAssumption
  PROVE  /\ Idle \in Operations /\ Idle.at = "idle"
         /\ \A at \in {"pairing", "confirming"}, new \in Bindings :
              LET o == [Idle EXCEPT !.at = at, !.identity = new]
              IN  o \in Operations /\ o.at = at /\ o.identity = new
         /\ \A text \in Texts :
              LET o == [Idle EXCEPT !.at = "submitting", !.text = {text}]
              IN  o \in Operations /\ o.at = "submitting" /\ o.text = {text}
<1>1. Unknown \in Bindings
  BY DEF ChannelsAssumption, Unknown, NoCode, Bindings
<1> QED
  BY <1>1 DEF Idle, Operations

LEMMA OperationTypes ==
  ASSUME Instance
  PROVE  /\ Idle \in Operations /\ Idle.at = "idle"
         /\ \A at \in {"pairing", "confirming"}, new \in Bindings :
              LET o == [Idle EXCEPT !.at = at, !.identity = new]
              IN  o \in Operations /\ o.at = at /\ o.identity = new
         /\ \A text \in Texts :
              LET o == [Idle EXCEPT !.at = "submitting", !.text = {text}]
              IN  o \in Operations /\ o.at = "submitting" /\ o.text = {text}
BY OperationForms DEF Instance

LEMMA TypesNext == ASSUME ChannelsAssumption, Typed, [Next]_vars PROVE Typed'
<1> USE DEF Typed
<1>0. MaxCodes \in Nat
  BY DEF ChannelsAssumption
<1>1. CASE UNCHANGED vars
  BY <1>1 DEF vars
<1>2. ASSUME NEW p \in Procs, Pair(p) PROVE Typed'
  <2>1. [bound |-> FALSE, code |-> issued + 1] \in Bindings /\ issued + 1 \in 0..MaxCodes
    BY <1>0, <1>2 DEF Pair, Bindings
  <2> QED
    BY <1>2, <2>1, OperationForms DEF Pair, Changes
<1>3. ASSUME NEW p \in Procs, NEW code \in Codes, Confirm(p, code) PROVE Typed'
  <2>1. [bound |-> TRUE, code |-> NoCode] \in Bindings
    BY <1>0 DEF Bindings, NoCode
  <2> QED
    BY <1>3, <2>1, OperationForms DEF Confirm, Changes
<1>4. ASSUME NEW p \in Procs, Upsert(p) PROVE Typed'
  <2>1. proc[p].identity \in Bindings
    BY DEF Operations
  <2>2. proc' \in [Procs -> Operations] /\ identity' \in Bindings /\ queue' \in Seq(Items)
        /\ issued' \in 0..MaxCodes
    BY <1>4, <2>1, OperationForms DEF Upsert
  <2>3. overtaken' \subseteq Procs
    BY <1>4 DEF Upsert, Changing
  <2>4. confirmed' \in BOOLEAN /\ undone' \in BOOLEAN
    <3>1. confirmed \in BOOLEAN /\ undone \in BOOLEAN
      OBVIOUS
    <3> QED
      BY <1>4, <3>1, Zenon DEF Upsert
  <2> QED
    BY <2>2, <2>3, <2>4
<1>5. ASSUME NEW p \in Procs, NEW text \in Texts, Submit(p, text) PROVE Typed'
  BY <1>5, OperationForms DEF Submit
<1>6. ASSUME NEW p \in Procs, AppendItem(p) PROVE Typed'
  <2>1. proc' \in [Procs -> Operations]
    BY <1>6, OperationForms DEF AppendItem
  <2>2. PICK text \in proc[p].text : queue' = Append(queue, [text |-> text, old |-> FALSE])
    BY <1>6 DEF AppendItem
  <2>3. text \in Texts
    BY <2>2 DEF Operations
  <2>4. queue' \in Seq(Items)
    <3>1. [text |-> text, old |-> FALSE] \in Items
      BY <2>3 DEF Items
    <3> QED
      BY <2>2, <3>1
  <2> QED
    BY <1>6, <2>1, <2>4 DEF AppendItem
<1>7. CASE Age
  <2>1. PICK i \in Recent : queue' = [queue EXCEPT ![i].old = TRUE]
    BY <1>7 DEF Age
  <2>2. i \in DOMAIN queue /\ queue[i] \in Items
    <3>1. i \in DOMAIN queue
      BY DEF Recent
    <3>2. queue \in Seq(Items)
      OBVIOUS
    <3> HIDE DEF Typed
    <3> QED
      BY <3>1, <3>2
  <2>3. [queue[i] EXCEPT !.old = TRUE] \in Items
    BY <2>2 DEF Items
  <2>4. queue' \in Seq(Items)
    BY <2>1, <2>2, <2>3
  <2> QED
    BY <1>7, <2>4 DEF Age
<1>8. ASSUME NEW p \in Procs, Kill(p) PROVE Typed'
  BY <1>8, OperationForms DEF Kill
<1> QED
  BY <1>1, <1>2, <1>3, <1>4, <1>5, <1>6, <1>7, <1>8 DEF Next

LEMMA TypedNext == ASSUME Instance, Inv, [Next]_vars PROVE Typed'
BY TypesNext DEF Instance, Inv

LEMMA BindingsNext ==
  ASSUME Instance, Inv, [Next]_vars
  PROVE  BindingsStay' /\ Changed'
<1> USE DEF Inv, BindingsStay, Changed, Changing
<1>0. proc \in [Procs -> Operations]
  BY DEF Typed
<1>1. CASE UNCHANGED vars
  BY <1>1 DEF vars
<1>2. ASSUME NEW p \in Procs, Pair(p) PROVE BindingsStay' /\ Changed'
  <2> DEFINE new == [bound |-> FALSE, code |-> issued + 1]
             o == [Idle EXCEPT !.at = "pairing", !.identity = new]
  <2>1. new \in Bindings /\ ~new.bound
    BY <1>2 DEF Pair, Bindings, Typed, Instance, ChannelsAssumption
  <2>2. proc' = [proc EXCEPT ![p] = o]
        /\ UNCHANGED <<identity, confirmed, overtaken, undone>> /\ ~identity.bound /\ proc[p].at = "idle"
    BY <1>2 DEF Pair, MayPair, Changes
  <2> HIDE DEF new
  <2>3. o.at = "pairing" /\ o.identity = new
    BY <2>1, OperationTypes
  <2> HIDE DEF o
  <2>4. proc'[p] = o /\ \A q \in Procs \ {p} : proc'[q] = proc[q]
    BY <1>0, <2>2
  <2> QED
    BY <2>1, <2>2, <2>3, <2>4 DEF Typed
<1>3. ASSUME NEW p \in Procs, NEW code \in Codes, Confirm(p, code) PROVE BindingsStay' /\ Changed'
  <2> DEFINE new == [bound |-> TRUE, code |-> NoCode]
             o == [Idle EXCEPT !.at = "confirming", !.identity = new]
  <2>1. new \in Bindings /\ new.bound
    BY DEF Bindings, NoCode, Instance, ChannelsAssumption
  <2>2. proc' = [proc EXCEPT ![p] = o]
        /\ UNCHANGED <<identity, confirmed, overtaken, undone>> /\ proc[p].at = "idle"
    BY <1>3 DEF Confirm, Changes
  <2> HIDE DEF new
  <2>3. o.at = "confirming" /\ o.identity = new
    BY <2>1, OperationTypes
  <2> HIDE DEF o
  <2>4. proc'[p] = o /\ \A q \in Procs \ {p} : proc'[q] = proc[q]
    BY <1>0, <2>2
  <2> QED
    BY <2>1, <2>2, <2>3, <2>4 DEF Typed
<1>4. ASSUME NEW p \in Procs, Upsert(p) PROVE BindingsStay' /\ Changed'
  <2> DEFINE o == Idle
  <2>0. o.at = "idle"
    BY OperationTypes
  <2>1. p \in Changing /\ proc' = [proc EXCEPT ![p] = o] /\ identity' = proc[p].identity
        /\ \/ /\ proc[p].at = "confirming" /\ confirmed' = TRUE /\ undone' = FALSE
              /\ overtaken' = Changing \ {p}
           \/ /\ proc[p].at # "confirming" /\ confirmed' = confirmed
              /\ undone' = (undone \/ p \in overtaken) /\ overtaken' = overtaken \ {p}
    BY <1>4 DEF Upsert
  <2> HIDE DEF o
  <2>2. proc'[p].at = "idle" /\ proc[p].at \in {"pairing", "confirming"}
        /\ \A q \in Procs \ {p} : proc'[q] = proc[q]
    BY <1>0, <2>0, <2>1
  <2> QED
    BY <2>1, <2>2 DEF Typed
<1>5. ASSUME NEW p \in Procs,
             \/ \E text \in Texts : Submit(p, text)
             \/ AppendItem(p) \/ Kill(p)
      PROVE  BindingsStay' /\ Changed'
  <2>1. PICK o : proc' = [proc EXCEPT ![p] = o] /\ o.at \in {"idle", "submitting"}
    <3>1. ASSUME NEW text \in Texts, Submit(p, text)
          PROVE  \E o : proc' = [proc EXCEPT ![p] = o] /\ o.at \in {"idle", "submitting"}
      <4> DEFINE o == [Idle EXCEPT !.at = "submitting", !.text = {text}]
      <4>1. proc' = [proc EXCEPT ![p] = o]
        BY <3>1 DEF Submit
      <4>2. o.at = "submitting"
        BY OperationTypes
      <4> HIDE DEF o
      <4> QED
        BY <4>1, <4>2
    <3>2. CASE AppendItem(p) \/ Kill(p)
      BY <3>2, OperationTypes DEF AppendItem, Kill
    <3> QED
      BY <1>5, <3>1, <3>2
  <2>2. UNCHANGED <<identity, confirmed, undone>> /\ overtaken \ {p} \subseteq overtaken'
    BY <1>5 DEF Submit, AppendItem, Kill
  <2>3. proc'[p] = o /\ \A q \in Procs \ {p} : proc'[q] = proc[q]
    BY <1>0, <2>1
  <2> QED
    BY <2>1, <2>2, <2>3
<1>6. CASE Age
  BY <1>6 DEF Age
<1> QED
  BY <1>1, <1>2, <1>3, <1>4, <1>5, <1>6 DEF Next

-----------------------------------------------------------------------------
(* Counting                                                                *)

\* What the sets of places and of submissions are, and that they are finite.
LEMMA Finite ==
  ASSUME Instance, Inv
  PROVE  /\ IsFiniteSet(Recent) /\ Cardinality(Recent) \in Nat
         /\ IsFiniteSet(Submitting) /\ Cardinality(Submitting) \in 0..Cardinality(Procs)
         /\ \A text \in Texts :
              /\ IsFiniteSet(Occurrences(text)) /\ Cardinality(Occurrences(text)) \in Nat
              /\ IsFiniteSet(SubmittingText(text))
              /\ Cardinality(SubmittingText(text)) \in 0..Cardinality(Procs)
         /\ Cardinality(Procs) \in Nat \ {0} /\ MaxPerWindow \in Nat
<1>1. Recent \subseteq DOMAIN queue /\ Submitting \subseteq Procs
  BY DEF Recent, Submitting
<1>2. \A text \in Texts : Occurrences(text) \subseteq DOMAIN queue /\ SubmittingText(text) \subseteq Procs
  BY DEF Occurrences, SubmittingText, Submitting
<1>3. Cardinality(Procs) \in Nat \ {0} /\ MaxPerWindow \in Nat
  BY Commands DEF Instance, ChannelsAssumption
<1> QED
  BY <1>1, <1>2, <1>3, Counts DEF Inv

LEMMA Fewer ==
  ASSUME NEW S, NEW x, IsFiniteSet(S)
  PROVE  Cardinality(S \ {x}) \in Nat /\ Cardinality(S \ {x}) <= Cardinality(S)
<1>1. S \ {x} \in SUBSET S
  OBVIOUS
<1>2. IsFiniteSet(S \ {x}) /\ Cardinality(S \ {x}) <= Cardinality(S)
  BY <1>1, FS_Subset
<1> QED
  BY <1>2, FS_CardinalityType

\* A command that ends takes its submission out of the counts, if it had one.
LEMMA Withdrawn ==
  ASSUME Instance, Inv, NEW p \in Procs, proc'[p].at # "submitting",
         \A q \in Procs \ {p} : proc'[q] = proc[q]
  PROVE  /\ Submitting' = Submitting \ {p}
         /\ \A text \in Texts : SubmittingText(text)' = SubmittingText(text) \ {p}
BY DEF Submitting, SubmittingText

\* The queue stays, and no command starts to submit.
LEMMA CountedKept ==
  ASSUME Instance, Inv, queue' = queue, NEW p \in Procs, proc'[p].at # "submitting",
         \A q \in Procs \ {p} : proc'[q] = proc[q]
  PROVE  Counted'
<1>1. Submitting' = Submitting \ {p} /\ \A text \in Texts : SubmittingText(text)' = SubmittingText(text) \ {p}
  BY Withdrawn
<1>2. Recent' = Recent /\ \A text \in Texts : Occurrences(text)' = Occurrences(text)
  BY DEF Recent, Occurrences
<1>3. Cardinality(Submitting') \in Nat /\ Cardinality(Submitting') <= Cardinality(Submitting)
  BY <1>1, Finite, Fewer
<1>4. \A text \in Texts :
        /\ Cardinality(SubmittingText(text)') \in Nat
        /\ Cardinality(SubmittingText(text)') <= Cardinality(SubmittingText(text))
  BY <1>1, Finite, Fewer
<1>5. \A q \in Submitting' : \E text \in Texts : proc'[q].text = {text}
  BY <1>1 DEF Inv, Counted, Submitting
<1>6. Cardinality(Recent') + Cardinality(Submitting') <= MaxPerWindow + Cardinality(Procs) - 1
  BY <1>2, <1>3, Finite DEF Inv, Counted
<1>7. ASSUME NEW text \in Texts
      PROVE  Cardinality(Occurrences(text)') + Cardinality(SubmittingText(text)') <= Cardinality(Procs)
  BY <1>2, <1>4, Finite DEF Inv, Counted
<1> QED
  BY <1>5, <1>6, <1>7 DEF Counted

\* A submission that passed the checks: there was room, and none of its text.
LEMMA CountedSubmitted ==
  ASSUME Instance, Inv, Typed', NEW p \in Procs, NEW text \in Texts, Submit(p, text)
  PROVE  Counted'
<1>0. proc \in [Procs -> Operations]
  BY DEF Inv, Typed
<1>1. proc'[p].text = {text} /\ proc'[p].at = "submitting" /\ (\A q \in Procs \ {p} : proc'[q] = proc[q])
      /\ queue' = queue
  BY <1>0, OperationTypes DEF Submit
<1>2. Recent' = Recent /\ \A t \in Texts : Occurrences(t)' = Occurrences(t)
  BY <1>1 DEF Recent, Occurrences
<1>3. Submitting' \subseteq Procs /\ \A t \in Texts : SubmittingText(t)' \subseteq Procs
  BY DEF Submitting, SubmittingText
<1>4. Cardinality(Submitting') \in Nat /\ Cardinality(Submitting') <= Cardinality(Procs)
  BY <1>3, Counts DEF Inv
<1>5. \A q \in Submitting' : \E t \in Texts : proc'[q].text = {t}
  BY <1>1 DEF Inv, Counted, Submitting
<1>6. Cardinality(Recent') + Cardinality(Submitting') <= MaxPerWindow + Cardinality(Procs) - 1
  <2>1. Cardinality(Recent) < MaxPerWindow
    BY DEF Submit, WithinLimit
  <2> QED
    BY <1>2, <1>4, <2>1, Finite
<1>7. ASSUME NEW t \in Texts
      PROVE  Cardinality(Occurrences(t)') + Cardinality(SubmittingText(t)') <= Cardinality(Procs)
  <2>1. CASE t = text
    <3>1. Occurrences(t) = {}
      BY <2>1 DEF Submit, Duplicate, Occurrences
    <3>2. Cardinality(SubmittingText(t)') \in Nat /\ Cardinality(SubmittingText(t)') <= Cardinality(Procs)
      BY <1>3, Counts DEF Inv
    <3>3. Cardinality(Occurrences(t)') = 0
      BY <1>2, <3>1, FS_EmptySet
    <3> QED
      BY <3>2, <3>3, Finite
  <2>2. CASE t # text
    <3>1. SubmittingText(t)' = SubmittingText(t)
      BY <1>1, <2>2 DEF SubmittingText, Submitting, Submit
    <3> QED
      BY <1>2, <3>1 DEF Inv, Counted
  <2> QED
    BY <2>1, <2>2
<1> QED
  BY <1>5, <1>6, <1>7 DEF Counted

\* What was counted as submitted is on the queue instead.
LEMMA CountedAppended ==
  ASSUME Instance, Inv, NEW p \in Procs, AppendItem(p)
  PROVE  Counted'
<1> DEFINE n == Len(queue) + 1
<1>0. proc \in [Procs -> Operations] /\ queue \in Seq(Items)
  BY DEF Inv, Typed
<1>1. PICK text \in Texts : proc[p].text = {text}
  BY DEF AppendItem, Inv, Counted, Submitting
<1>2. queue' = Append(queue, [text |-> text, old |-> FALSE]) /\ proc' = [proc EXCEPT ![p] = Idle]
      /\ proc[p].at = "submitting"
  BY <1>1 DEF AppendItem
<1>3. proc'[p].at # "submitting" /\ \A q \in Procs \ {p} : proc'[q] = proc[q]
  BY <1>0, <1>2, OperationTypes
<1>4. Submitting' = Submitting \ {p} /\ \A t \in Texts : SubmittingText(t)' = SubmittingText(t) \ {p}
  BY <1>3, Withdrawn
<1>5. /\ DOMAIN queue' = (DOMAIN queue) \union {n} /\ n \notin DOMAIN queue
      /\ queue'[n] = [text |-> text, old |-> FALSE]
      /\ \A i \in DOMAIN queue : queue'[i] = queue[i]
  <2>1. [text |-> text, old |-> FALSE] \in Items
    BY DEF Items
  <2> QED
    BY <1>0, <1>2, <2>1
<1> HIDE DEF n
<1>6. Recent' = Recent \union {n} /\ n \notin Recent
  BY <1>5 DEF Recent
<1>7. \A t \in Texts : Occurrences(t)' = (IF t = text THEN Occurrences(t) \union {n} ELSE Occurrences(t))
  <2>1. ASSUME NEW t \in Texts PROVE Occurrences(t)' = (IF t = text THEN Occurrences(t) \union {n} ELSE Occurrences(t))
    BY <1>5 DEF Occurrences
  <2> QED
    BY <2>1
<1>8. n \notin Occurrences(text) /\ p \in Submitting /\ p \in SubmittingText(text)
  BY <1>1, <1>2, <1>5 DEF Occurrences, Submitting, SubmittingText
<1>9. Cardinality(Recent') = Cardinality(Recent) + 1 /\ Cardinality(Submitting') = Cardinality(Submitting) - 1
  BY <1>4, <1>6, <1>8, Finite, FS_AddElement, FS_RemoveElement
<1>10. \A q \in Submitting' : \E t \in Texts : proc'[q].text = {t}
  BY <1>3, <1>4 DEF Inv, Counted, Submitting
<1>11. Cardinality(Recent') + Cardinality(Submitting') <= MaxPerWindow + Cardinality(Procs) - 1
  BY <1>9, Finite DEF Inv, Counted
<1>12. ASSUME NEW t \in Texts
       PROVE  Cardinality(Occurrences(t)') + Cardinality(SubmittingText(t)') <= Cardinality(Procs)
  <2>1. Cardinality(Occurrences(t)) + Cardinality(SubmittingText(t)) <= Cardinality(Procs)
        /\ Cardinality(Occurrences(t)) \in Nat /\ Cardinality(SubmittingText(t)) \in Nat
        /\ IsFiniteSet(Occurrences(t)) /\ IsFiniteSet(SubmittingText(t))
    BY Finite DEF Inv, Counted
  <2>2. CASE t = text
    <3>1. Cardinality(Occurrences(t)') = Cardinality(Occurrences(t)) + 1
      BY <1>7, <1>8, <2>1, <2>2, FS_AddElement
    <3>2. Cardinality(SubmittingText(t)') = Cardinality(SubmittingText(t)) - 1
      BY <1>4, <1>8, <2>1, <2>2, FS_RemoveElement
    <3> QED
      BY <2>1, <3>1, <3>2
  <2>3. CASE t # text
    <3>1. Cardinality(Occurrences(t)') = Cardinality(Occurrences(t))
      BY <1>7, <2>3
    <3>2. Cardinality(SubmittingText(t)') <= Cardinality(SubmittingText(t))
          /\ Cardinality(SubmittingText(t)') \in Int
      BY <1>4, <2>1, FS_RemoveElement
    <3> QED
      BY <2>1, <3>1, <3>2, Finite
  <2> QED
    BY <2>2, <2>3
<1> QED
  BY <1>10, <1>11, <1>12 DEF Counted

\* The window moves on: what leaves it is still on the queue.
LEMMA CountedAged ==
  ASSUME Instance, Inv, Age
  PROVE  Counted'
<1>0. queue \in Seq(Items)
  BY DEF Inv, Typed
<1>1. PICK i \in Recent : queue' = [queue EXCEPT ![i].old = TRUE]
  BY DEF Age
<1>2. i \in DOMAIN queue
  BY DEF Recent
<1>3. queue[i] \in Items
  BY <1>0, <1>2
<1>4. /\ DOMAIN queue' = DOMAIN queue
      /\ queue'[i].old /\ queue'[i].text = queue[i].text
      /\ \A j \in DOMAIN queue \ {i} : queue'[j] = queue[j]
  BY <1>1, <1>2, <1>3 DEF Items
<1>5. Recent' = Recent \ {i}
  BY <1>1, <1>4 DEF Recent
<1>6. \A text \in Texts : Occurrences(text)' = Occurrences(text)
  BY <1>4 DEF Occurrences
<1>7. proc' = proc
  BY DEF Age
<1>8. Submitting' = Submitting /\ \A text \in Texts : SubmittingText(text)' = SubmittingText(text)
  BY <1>7 DEF Submitting, SubmittingText
<1>9. Cardinality(Recent') \in Int /\ Cardinality(Recent') <= Cardinality(Recent)
  <2>1. Cardinality(Recent \ {i}) \in Nat /\ Cardinality(Recent \ {i}) <= Cardinality(Recent)
    BY Finite, Fewer
  <2> QED
    BY <1>5, <2>1
<1>10. Cardinality(Recent') + Cardinality(Submitting') <= MaxPerWindow + Cardinality(Procs) - 1
  BY <1>8, <1>9, Finite DEF Inv, Counted
<1> QED
  BY <1>6, <1>7, <1>8, <1>10 DEF Inv, Counted

LEMMA CountedNext ==
  ASSUME Instance, Inv, [Next]_vars, Typed'
  PROVE  Counted'
<1>0. proc \in [Procs -> Operations]
  BY DEF Inv, Typed
<1>1. CASE UNCHANGED vars
  <2>1. UNCHANGED <<queue, proc>>
    BY <1>1 DEF vars
  <2> QED
    BY <2>1 DEF Inv, Counted, Recent, Submitting, Occurrences, SubmittingText
<1>2. ASSUME NEW p \in Procs, Pair(p) PROVE Counted'
  <2> DEFINE new == [bound |-> FALSE, code |-> issued + 1]
             o == [Idle EXCEPT !.at = "pairing", !.identity = new]
  <2>1. new \in Bindings
    BY <1>2 DEF Pair, Bindings, Inv, Typed, Instance, ChannelsAssumption
  <2>2. proc' = [proc EXCEPT ![p] = o] /\ queue' = queue
    BY <1>2 DEF Pair, Changes
  <2> HIDE DEF new
  <2>3. o.at = "pairing"
    BY <2>1, OperationTypes
  <2> HIDE DEF o
  <2> QED
    BY <1>0, <2>2, <2>3, CountedKept
<1>3. ASSUME NEW p \in Procs, NEW code \in Codes, Confirm(p, code) PROVE Counted'
  <2> DEFINE new == [bound |-> TRUE, code |-> NoCode]
             o == [Idle EXCEPT !.at = "confirming", !.identity = new]
  <2>1. new \in Bindings
    BY DEF Bindings, NoCode, Instance, ChannelsAssumption
  <2>2. proc' = [proc EXCEPT ![p] = o] /\ queue' = queue
    BY <1>3 DEF Confirm, Changes
  <2> HIDE DEF new
  <2>3. o.at = "confirming"
    BY <2>1, OperationTypes
  <2> HIDE DEF o
  <2> QED
    BY <1>0, <2>2, <2>3, CountedKept
<1>4. ASSUME NEW p \in Procs, Upsert(p) \/ Kill(p) PROVE Counted'
  <2>1. proc' = [proc EXCEPT ![p] = Idle] /\ queue' = queue
    BY <1>4 DEF Upsert, Kill
  <2>2. proc'[p].at # "submitting" /\ \A q \in Procs \ {p} : proc'[q] = proc[q]
    BY <1>0, <2>1, OperationTypes
  <2> QED
    BY <2>1, <2>2, CountedKept
<1>5. ASSUME NEW p \in Procs, NEW text \in Texts, Submit(p, text) PROVE Counted'
  BY <1>5, CountedSubmitted
<1>6. ASSUME NEW p \in Procs, AppendItem(p) PROVE Counted'
  BY <1>6, CountedAppended
<1> QED
  BY <1>1, <1>2, <1>3, <1>4, <1>5, <1>6, CountedAged DEF Next

-----------------------------------------------------------------------------
(* The theorems                                                            *)

LEMMA InitTyped == ASSUME ChannelsAssumption, Init PROVE Typed
<1>1. queue \in Seq(Items)
  BY DEF Init
<1>2. proc \in [Procs -> Operations]
  BY OperationForms DEF Init
<1>3. identity \in Bindings /\ issued \in 0..MaxCodes
  BY DEF Init, Unknown, NoCode, Bindings, ChannelsAssumption
<1>4. confirmed \in BOOLEAN /\ undone \in BOOLEAN /\ overtaken \subseteq Procs
  BY Zenon DEF Init
<1> QED
  BY <1>1, <1>2, <1>3, <1>4 DEF Typed

LEMMA InitInv == ASSUME Instance, Init PROVE Inv
<1>0. Unknown \in Bindings /\ ~Unknown.bound /\ MaxCodes \in Nat
  BY DEF Unknown, NoCode, Bindings, Instance, ChannelsAssumption
<1>1. Typed /\ BindingsStay /\ Changed
  <2>1. \A p \in Procs : proc[p].at = "idle"
    BY OperationTypes DEF Init
  <2>2. Typed
    BY InitTyped DEF Instance
  <2>3. BindingsStay /\ Changed
    BY <1>0, <2>1 DEF Init, BindingsStay, Changed, Changing
  <2> QED
    BY <2>2, <2>3
<1>2. Recent = {} /\ Submitting = {} /\ \A text \in Texts : Occurrences(text) = {} /\ SubmittingText(text) = {}
  <2>1. \A p \in Procs : proc[p].at # "submitting"
    BY OperationTypes DEF Init
  <2>2. DOMAIN queue = {}
    BY DEF Init
  <2> QED
    BY <2>1, <2>2 DEF Recent, Submitting, Occurrences, SubmittingText
<1>3. Cardinality(Recent) = 0 /\ Cardinality(Submitting) = 0
      /\ \A text \in Texts : Cardinality(Occurrences(text)) = 0 /\ Cardinality(SubmittingText(text)) = 0
  BY <1>2, FS_EmptySet
<1>4. Counted
  BY <1>2, <1>3, Commands DEF Counted, Instance, ChannelsAssumption
<1> QED
  BY <1>1, <1>4 DEF Inv

\* The identity file, the queue and the commands stay well formed.
THEOREM TypeCorrect == ChannelsAssumption => (Spec => []TypeOK)
<1>1. ChannelsAssumption /\ Init => Typed
  BY InitTyped
<1>2. ChannelsAssumption /\ Typed /\ [Next]_vars => Typed'
  BY TypesNext
<1>3. Typed => TypeOK
  BY DEF Typed, TypeOK, Bindings, Operations, Items
<1>4. CASE ChannelsAssumption
  BY <1>1, <1>2, <1>3, <1>4, PTL DEF Spec
<1> QED
  BY <1>4

\* A binding is lost only to a pairing that had begun before its confirmation was
\* written, and the
\* window and each text are exceeded by no more than the commands under way, for
\* any number of commands.
THEOREM FeedbackStaysBounded == Instance => (Spec => []FeedbackIsBounded)
<1>1. Instance /\ Init => Inv
  BY InitInv
<1>2. Instance /\ Inv /\ [Next]_vars => Inv'
  BY TypedNext, BindingsNext, CountedNext DEF Inv
<1>3. Instance /\ Inv => FeedbackIsBounded
  BY InvBounds
<1>4. CASE Instance
  BY <1>1, <1>2, <1>3, <1>4, PTL DEF Spec
<1> QED
  BY <1>4
=============================================================================
