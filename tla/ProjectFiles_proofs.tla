------------------------- MODULE ProjectFiles_proofs -------------------------
(***************************************************************************)
(* What the stores of a project keep, for any processes, documents, agents *)
(* and texts.  Each store has an inductive invariant of its own, in the    *)
(* section of its name, and the theorems of the composition follow at the  *)
(* end: a step of the whole is a step of each store, or leaves it alone.   *)
(***************************************************************************)
EXTENDS ProjectFiles, SequenceTheorems, FiniteSetTheorems, WellFoundedInduction, TLAPS

-----------------------------------------------------------------------------
(* The event log: versions are never skipped, and while no version is taken *)
(* twice, replay_state returns what was committed last, from any snapshot.  *)

\* The versions of the first n rows.
Of(n) == {log[j].version : j \in 1..n}

\* They are the numbers up to some k: what an append reads, whatever prefix
\* its connection sees, is the number after those that are there.
Filled == \A n \in 0..Len(log) : \E k \in 0..n : Of(n) = 1..k

Unique(n) == \A i, j \in 1..n : log[i].version = log[j].version => i = j

\* As long as no version is taken twice, rows are numbered in their order.
Ordered == \A n \in 0..Len(log) : Unique(n) => \A i \in 1..n : log[i].version = i

\* The version an append has read follows those of some prefix.
NextOfPrefix(v) == \E n \in 0..Len(log), k \in Nat : Of(n) = 1..k /\ v = k + 1

\* A checkpoint's version and document are those of some prefix.
Faithful(v, s) ==
  \E m \in 1..Len(log) : Of(m) = 1..v /\ (Unique(m) => s = log[m].state)

\* What a connection has read, it has read from the log.
Reads(c) ==
  /\ c.seen \in 0..Len(log) \cup {Latest}
  /\ c.at # "idle" => c.version # 0 /\ c.row \in States
  /\ c.at \in {"versioned", "inserted"} => NextOfPrefix(c.version)
  /\ c.at = "copied" => Faithful(c.version, c.row)

Connections == \A p \in Procs : Reads(conn[p])

Snapshots == snapshot # NoSnapshot => Faithful(snapshot.version, snapshot.state)

\* A snapshot is right only together with the order of the rows it was made
\* of, and with what checkpoints under way have read.
Inv == TypeOK /\ Filled /\ Ordered /\ Connections /\ Snapshots

(***************************************************************************)
(* The largest version.                                                    *)
(***************************************************************************)

LEMMA LargestIs ==
  ASSUME NEW S \in SUBSET Int, NEW x \in S, \A y \in S : y <= x
  PROVE  Largest(S) = x
<1> DEFINE Max(z) == z \in S /\ \A y \in S : y <= z
<1>1. \A z : Max(z) => z = x
  OBVIOUS
<1>2. Max(CHOOSE z : Max(z))
  OBVIOUS
<1>3. Largest(S) = CHOOSE z : Max(z)
  BY DEF Largest
<1> QED
  BY <1>1, <1>2, <1>3

\* There is one: what lies above it is least among what lies above an element.
LEMMA LargestExists ==
  ASSUME NEW n \in Nat, NEW S \in SUBSET (1..n), S # {}
  PROVE  Largest(S) \in S
<1> DEFINE Above(i) == (i + 1)..n
           Rest == {Above(i) : i \in S}
           R == StrictSubsetOrdering(1..n)
<1>1. Rest \subseteq FiniteSubsetsOf(1..n) /\ Rest # {}
  <2>1. \A i \in S : Above(i) \in SUBSET (1..n) /\ IsFiniteSet(Above(i))
    BY FS_Interval
  <2> QED
    BY <2>1 DEF FiniteSubsetsOf
<1>2. PICK rest \in Rest : \A other \in Rest : ~(<<other, rest>> \in R)
  <2>1. IsWellFoundedOn(R, FiniteSubsetsOf(1..n))
    BY FS_StrictSubsetOrderingWellFounded
  <2> HIDE DEF R, Rest
  <2> QED
    BY <1>1, <2>1, WFMin
<1>3. PICK x \in S : rest = Above(x)
  OBVIOUS
<1>4. ASSUME NEW y \in S, ~(y <= x) PROVE FALSE
  <2>1. Above(y) \in Rest /\ Above(y) \subseteq rest /\ Above(y) # rest /\ rest \in SUBSET (1..n)
    <3>1. y \in Above(x) /\ y \notin Above(y)
      BY <1>4
    <3>2. Above(y) \subseteq Above(x) /\ Above(x) \subseteq 1..n
      BY <1>4
    <3> QED
      BY <1>3, <3>1, <3>2
  <2>2. <<Above(y), rest>> \in R
    BY <2>1 DEF StrictSubsetOrdering
  <2> QED
    BY <1>2, <2>1, <2>2
<1>5. S \in SUBSET Int /\ \A y \in S : y <= x
  BY <1>4
<1> QED
  BY <1>5, LargestIs

LEMMA PrefixVersions ==
  ASSUME TypeOK, NEW n \in 0..Len(log)
  PROVE  /\ Versions(SubSeq(log, 1, n)) = Of(n)
         /\ SubSeq(log, 1, n) = <<>> <=> n = 0
<1> DEFINE prefix == SubSeq(log, 1, n)
<1>1. log \in Seq(Row) /\ Len(log) \in Nat
  BY DEF TypeOK
<1>2. \A i \in 1..n : log[i] \in Row
  BY <1>1
<1>3. prefix \in Seq(Row) /\ Len(prefix) = n /\ \A i \in 1..n : prefix[i] = log[i]
  <2>1. n \in Int /\ 1 \in Int
    BY <1>1
  <2> QED
    BY <1>1, <1>2, <2>1, SubSeqProperties
<1>4. DOMAIN prefix = 1..n
  BY <1>3
<1>5. Versions(prefix) = Of(n)
  BY <1>3, <1>4 DEF Versions, Of
<1> QED
  BY <1>3, <1>5

LEMMA NextAfterPrefix ==
  ASSUME TypeOK, NEW n \in 0..Len(log), NEW k \in 0..n, Of(n) = 1..k
  PROVE  NextVersion(SubSeq(log, 1, n)) = k + 1
<1>1. CASE n = 0
  BY <1>1, PrefixVersions DEF NextVersion
<1>2. CASE n # 0
  <2>1. log[1].version \in Of(n)
    BY <1>2 DEF Of
  <2>2. k \in 1..k /\ 1..k \in SUBSET Int /\ \A y \in 1..k : y <= k
    BY <2>1
  <2>3. Largest(1..k) = k
    BY <2>2, LargestIs
  <2> QED
    BY <1>2, <2>3, PrefixVersions DEF NextVersion
<1> QED
  BY <1>1, <1>2

LEMMA AllVersions == ASSUME TypeOK PROVE Versions(log) = Of(Len(log))
BY DEF TypeOK, Versions, Of

(***************************************************************************)
(* replay_state.                                                           *)
(***************************************************************************)

\* In a log without duplicates, the version of a prefix is its length.
LEMMA VersionIsLength ==
  ASSUME TypeOK, Ordered, NEW m \in 0..Len(log), Unique(m), NEW v \in Nat, Of(m) = 1..v
  PROVE  v = m
<1>1. \A i \in 1..m : log[i].version = i
  BY DEF Ordered
<1>2. Of(m) = 1..m
  BY <1>1 DEF Of
<1> QED
  BY <1>2

\* The state is the last row's.
LEMMA ReplayGivesLast ==
  ASSUME TypeOK, Ordered, Snapshots, log # <<>>, Unique(Len(log))
  PROVE  ReplayState(snapshot, log) = log[Len(log)].state
<1> DEFINE n == Len(log)
           newer == {i \in DOMAIN log : log[i].version > Start(snapshot)}
<1>1. n \in Nat \ {0} /\ DOMAIN log = 1..n /\ \A i \in 1..n : log[i].version = i
  BY DEF TypeOK, Ordered
<1>2. CASE snapshot = NoSnapshot
  <2>1. Start(snapshot) = 0
    BY <1>2 DEF Start
  <2>2. newer = 1..n
    BY <1>1, <2>1
  <2>3. n \in newer /\ newer \in SUBSET Int /\ \A y \in newer : y <= n
    BY <1>1, <2>2
  <2>4. Largest(newer) = n
    BY <2>3, LargestIs
  <2> QED
    BY <2>3, <2>4 DEF ReplayState
<1>3. CASE snapshot # NoSnapshot
  <2>1. snapshot.version \in Nat
    BY <1>3, EventStoreAssumption DEF TypeOK, Row
  <2>2. PICK m \in 1..n : Of(m) = 1..snapshot.version /\ (Unique(m) => snapshot.state = log[m].state)
    BY <1>3 DEF Snapshots, Faithful
  <2>3. Unique(m)
    BY <1>1, <2>2 DEF Unique
  <2>4. snapshot.version = m
    BY <1>1, <2>1, <2>2, <2>3, VersionIsLength
  <2>5. Start(snapshot) = m
    BY <1>3, <2>4 DEF Start
  <2>6. CASE m = n
    <3>1. newer = {}
      BY <1>1, <2>5, <2>6
    <3> QED
      BY <1>3, <2>2, <2>3, <2>6, <3>1 DEF ReplayState
  <2>7. CASE m # n
    <3>1. n > m /\ n \in 1..n
      <4>1. n \in Nat \ {0}
        BY <1>1
      <4> HIDE DEF n, newer
      <4> QED
        BY <2>7, <4>1
    <3>2. n \in newer
      BY <1>1, <2>5, <3>1
    <3>3. newer \in SUBSET Int /\ \A y \in newer : y <= n
      BY <1>1
    <3>4. Largest(newer) = n
      BY <3>2, <3>3, LargestIs
    <3> QED
      BY <3>2, <3>4 DEF ReplayState
  <2> QED
    BY <2>6, <2>7
<1> QED
  BY <1>2, <1>3

\* What is replayed is a document, as soon as there is a row.
LEMMA ReplayGivesDocument ==
  ASSUME TypeOK, log # <<>>
  PROVE  ReplayState(snapshot, log) \in States
<1> DEFINE newer == {i \in DOMAIN log : log[i].version > Start(snapshot)}
<1>1. DOMAIN log = 1..Len(log) /\ Len(log) \in Nat /\ \A i \in DOMAIN log : log[i] \in Row
  BY DEF TypeOK
<1>2. CASE newer # {}
  <2>1. newer \in SUBSET (1..Len(log))
    BY <1>1
  <2>2. Largest(newer) \in DOMAIN log
    BY <1>1, <1>2, <2>1, LargestExists
  <2>3. log[Largest(newer)].state \in States
    BY <1>1, <2>2 DEF Row
  <2> QED
    BY <1>2, <2>3 DEF ReplayState
<1>3. CASE newer = {}
  <2>1. log[1] \in Row /\ 1 \in DOMAIN log
    BY <1>1
  <2>2. log[1].version > 0
    BY <2>1, EventStoreAssumption DEF Row
  <2>3. snapshot # NoSnapshot
    BY <1>3, <2>1, <2>2 DEF Start
  <2>4. snapshot.state \in States
    BY <2>3 DEF TypeOK, Row
  <2> QED
    BY <1>3, <2>3, <2>4 DEF ReplayState
<1> QED
  BY <1>2, <1>3

(***************************************************************************)
(* The log grows, and keeps what was read from it.                         *)
(***************************************************************************)

\* What a connection or a snapshot has from the log stays true.
Kept ==
  /\ Len(log) <= Len(log')
  /\ \A v : NextOfPrefix(v) => NextOfPrefix(v)'
  /\ \A v, s : Faithful(v, s) => Faithful(v, s)'

LEMMA SameLog ==
  ASSUME TypeOK, Filled, Ordered, log' = log
  PROVE  Filled' /\ Ordered' /\ Kept
<1>1. \A i : Of(i)' = Of(i) /\ Unique(i)' = Unique(i)
  BY DEF Of, Unique
<1>2. Filled' /\ Ordered'
  BY <1>1 DEF Filled, Ordered
<1>3. Kept
  BY <1>1 DEF TypeOK, Kept, NextOfPrefix, Faithful
<1> QED
  BY <1>2, <1>3

LEMMA OneMore ==
  ASSUME NEW k \in Nat, NEW l \in Nat, k <= l
  PROVE  (1..l) \cup {k + 1} = IF k = l THEN 1..(l + 1) ELSE 1..l
<1>1. \A x : x \in (1..l) \cup {k + 1} <=> x \in (IF k = l THEN 1..(l + 1) ELSE 1..l)
  <2>1. CASE k = l
    BY <2>1
  <2>2. CASE k # l
    BY <2>2
  <2> QED
    BY <2>1, <2>2
<1> QED
  BY <1>1

LEMMA LogGrows ==
  ASSUME TypeOK, Filled, Ordered, NEW row \in Row, NextOfPrefix(row.version),
         log' = Append(log, row)
  PROVE  Filled' /\ Ordered' /\ Kept
\* A constant: Len(log) changes.
<1>0. PICK n \in Nat : n = Len(log)
  BY DEF TypeOK
<1>1. /\ n = Len(log) /\ n \in Nat /\ Len(log') = n + 1 /\ log'[n + 1] = row
      /\ \A i \in 1..n : log'[i] = log[i]
  BY <1>0 DEF TypeOK
<1>2. \A i \in 0..n : Of(i)' = Of(i) /\ Unique(i)' = Unique(i)
  <2> SUFFICES ASSUME NEW i \in 0..n PROVE Of(i)' = Of(i) /\ Unique(i)' = Unique(i)
    OBVIOUS
  <2>1. \A j \in 1..i : log'[j] = log[j]
    BY <1>1
  <2> QED
    BY <2>1 DEF Of, Unique
<1>3. PICK m \in 0..n, k \in Nat : Of(m) = 1..k /\ row.version = k + 1
  BY <1>0 DEF NextOfPrefix
<1>4. Of(n + 1)' = Of(n) \cup {row.version}
  <2>1. 1..(n + 1) = 1..n \cup {n + 1}
    BY <1>1
  <2> QED
    BY <1>1, <2>1 DEF Of
<1>5. Filled'
  <2>1. PICK l \in 0..n : Of(n) = 1..l
    BY <1>1 DEF Filled
  <2>2. k <= l
    <3>1. 1..k \subseteq 1..l
      BY <1>1, <1>3, <2>1 DEF Of
    <3> QED
      BY <1>1, <3>1
  <2>3. Of(n + 1)' = 1..l \/ (k = l /\ Of(n + 1)' = 1..(l + 1))
    <3>1. Of(n + 1)' = 1..l \cup {k + 1}
      BY <1>3, <1>4, <2>1
    <3>2. l \in Nat
      OBVIOUS
    <3>3. (1..l) \cup {k + 1} = IF k = l THEN 1..(l + 1) ELSE 1..l
      BY <2>2, <3>2, OneMore
    <3> QED
      BY <3>1, <3>3
  <2>4. \E j \in 0..(n + 1) : Of(n + 1)' = 1..j
    BY <2>3
  <2>5. \A i \in 0..n : \E j \in 0..i : Of(i)' = 1..j
    BY <1>0, <1>2 DEF Filled
  <2> QED
    BY <1>1, <2>4, <2>5 DEF Filled
<1>6. Ordered'
  <2>1. ASSUME Unique(n + 1)' PROVE \A i \in 1..(n + 1) : log'[i].version = i
    <3>1. Unique(n)
      BY <1>1, <2>1 DEF Unique
    <3>2. \A i \in 1..n : log[i].version = i
      BY <1>1, <3>1 DEF Ordered
    <3>3. Unique(m)
      BY <1>1, <3>1 DEF Unique
    <3>4. k = m
      BY <1>0, <1>3, <3>3, VersionIsLength
    <3>5. CASE m < n
      \* The version of the row after the prefix, taken twice.
      <4>1. m + 1 \in 1..n /\ log'[m + 1].version = log'[n + 1].version
        BY <1>1, <1>3, <3>2, <3>4, <3>5
      <4> QED
        BY <1>1, <2>1, <4>1 DEF Unique
    <3>6. CASE m = n
      BY <1>1, <1>3, <3>2, <3>4, <3>6
    <3> QED
      BY <1>1, <3>5, <3>6
  <2>2. \A i \in 0..n : Unique(i)' => \A j \in 1..i : log'[j].version = j
    BY <1>1, <1>2 DEF Ordered
  <2> QED
    BY <1>1, <2>1, <2>2 DEF Ordered
<1>7. Kept
  <2>1. \A v : NextOfPrefix(v) => NextOfPrefix(v)'
    BY <1>1, <1>2 DEF NextOfPrefix
  <2>2. \A v, s : Faithful(v, s) => Faithful(v, s)'
    BY <1>1, <1>2 DEF Faithful
  <2> QED
    BY <1>1, <2>1, <2>2 DEF Kept
<1> QED
  BY <1>5, <1>6, <1>7

(***************************************************************************)
(* The invariant.                                                          *)
(***************************************************************************)

LEMMA ReadsKept ==
  ASSUME TypeOK, Kept, NEW d, Reads(d)
  PROVE  Reads(d)'
<1>1. d.seen \in 0..Len(log') \cup {Latest}
  BY DEF Reads, Kept, TypeOK
<1> QED
  BY <1>1 DEF Reads, Kept

\* A connection that stays as it is.
LEMMA ConnectionStays ==
  ASSUME TypeOK, Connections, Kept, NEW q \in Procs, conn'[q] = conn[q]
  PROVE  Reads(conn[q])'
<1>1. PICK d : d = conn[q]
  OBVIOUS
<1>2. Reads(d)
  BY <1>1 DEF Connections
<1>3. Reads(d)'
  BY <1>2, ReadsKept
<1> QED
  BY <1>1, <1>3 DEF Reads, NextOfPrefix, Faithful, Unique, Of

\* A connection that moves to c and has read no more than there is.
LEMMA ConnectionMoves ==
  ASSUME TypeOK, Connections, Kept, NEW p \in Procs, NEW c,
         conn' = [conn EXCEPT ![p] = c], Reads(c)'
  PROVE  Connections'
<1> USE DEF Reads, NextOfPrefix, Faithful, Unique, Of
<1> SUFFICES ASSUME NEW q \in Procs PROVE Reads(conn[q])'
  BY DEF Connections
<1>1. CASE q = p
  <2>1. conn'[q] = c
    BY <1>1 DEF TypeOK
  <2> QED
    BY <2>1
<1>2. CASE q # p
  <2>1. conn'[q] = conn[q]
    BY <1>2 DEF TypeOK
  <2> QED
    BY <2>1, ConnectionStays
<1> QED
  BY <1>1, <1>2

LEMMA InitInv == Init => Inv
<1> SUFFICES ASSUME Init PROVE Inv
  OBVIOUS
<1>1. TypeOK
  BY EventStoreAssumption DEF Init, TypeOK, Closed, Connection, Latest
<1>2. Filled
  BY DEF Init, Filled, Of
<1>3. Ordered
  BY DEF Init, Ordered
<1>4. Connections
  BY DEF Init, Connections, Reads, Closed
<1>5. Snapshots
  BY DEF Init, Snapshots
<1> QED
  BY <1>1, <1>2, <1>3, <1>4, <1>5 DEF Inv

\* The prefix a connection sees, and the version it reads there.
LEMMA SeesPrefix ==
  ASSUME TypeOK, Filled, Connections, NEW p \in Procs, Len(log) < MaxEvents
  PROVE  LET v == NextVersion(SubSeq(log, 1, Sees(p)))
         IN  /\ Sees(p) \in 0..Len(log) /\ v \in 1..MaxEvents /\ NextOfPrefix(v)
<1>1. Sees(p) \in 0..Len(log)
  BY EventStoreAssumption DEF TypeOK, Connections, Reads, Sees
<1>2. PICK n \in 0..Len(log) : n = Sees(p)
  BY <1>1
<1>3. PICK k \in 0..n : Of(n) = 1..k
  BY DEF Filled
<1>4. NextVersion(SubSeq(log, 1, n)) = k + 1
  BY <1>3, NextAfterPrefix
<1>5. k + 1 \in 1..MaxEvents
  BY EventStoreAssumption DEF TypeOK
<1>6. NextOfPrefix(k + 1)
  BY <1>3 DEF NextOfPrefix
<1> QED
  BY <1>1, <1>2, <1>4, <1>5, <1>6

\* A checkpoint reads the version and the document of the whole log.
LEMMA CheckpointReads ==
  ASSUME TypeOK, Filled, Ordered, Snapshots, log # <<>>
  PROVE  LET v == Largest(Versions(log))
             s == ReplayState(snapshot, log)
         IN  v \in 1..MaxEvents /\ s \in States /\ Faithful(v, s)
<1>1. PICK n \in Nat \ {0} : n = Len(log)
  BY DEF TypeOK
<1>2. PICK k \in 0..n : Of(n) = 1..k
  BY <1>1 DEF Filled
<1>3. k \in 1..MaxEvents
  <2>1. log[1].version \in Of(n)
    BY <1>1 DEF Of
  <2> QED
    BY <1>1, <1>2, <2>1, EventStoreAssumption DEF TypeOK
<1>4. Largest(Versions(log)) = k
  <2>1. Versions(log) = 1..k
    BY <1>1, <1>2, AllVersions
  <2>2. k \in 1..k /\ 1..k \in SUBSET Int /\ \A y \in 1..k : y <= k
    BY <1>3
  <2> QED
    BY <2>1, <2>2, LargestIs
<1>5. ReplayState(snapshot, log) \in States
  BY ReplayGivesDocument
<1>6. Unique(n) => ReplayState(snapshot, log) = log[n].state
  BY <1>1, ReplayGivesLast
<1>7. Faithful(k, ReplayState(snapshot, log))
  BY <1>1, <1>2, <1>6 DEF Faithful
<1> QED
  BY <1>3, <1>4, <1>5, <1>7

LEMMA NextInv == Inv /\ [Next]_vars => Inv'
<1> SUFFICES ASSUME Inv, [Next]_vars PROVE Inv'
  OBVIOUS
<1>0. TypeOK /\ Filled /\ Ordered /\ Connections /\ Snapshots
  BY DEF Inv
<1>1. CASE UNCHANGED vars
  <2>1. TypeOK'
    BY <1>0, <1>1 DEF TypeOK, vars
  <2>2. Filled' /\ Ordered' /\ Kept
    BY <1>0, <1>1, SameLog DEF vars
  <2>3. Connections'
    <3>1. \A q \in Procs : Reads(conn[q])'
      BY <1>0, <1>1, <2>2, ConnectionStays DEF vars
    <3> QED
      BY <3>1 DEF Connections
  <2>4. Snapshots'
    BY <1>0, <1>1 DEF vars, Snapshots, Faithful, Unique, Of
  <2> QED
    BY <2>1, <2>2, <2>3, <2>4 DEF Inv
<1>2. ASSUME NEW p \in Procs, NEW c \in Connection, conn' = [conn EXCEPT ![p] = c],
             UNCHANGED log, Reads(c), Snapshots', snapshot' \in Row \cup {NoSnapshot},
             writer' \in Procs \cup {NoOne},
             (writer' = p) <=> (c.at = "inserted"),
             \A q \in Procs \ {p} : (writer' = q) <=> (writer = q)
      PROVE  Inv'
  <2>1. TypeOK'
    <3>1. conn' \in [Procs -> Connection]
      BY <1>0, <1>2 DEF TypeOK
    <3>2. conn'[p] = c /\ \A q \in Procs \ {p} : conn'[q] = conn[q]
      BY <1>0, <1>2 DEF TypeOK
    <3>3. \A q \in Procs : (writer' = q) <=> (conn'[q].at = "inserted")
      BY <1>0, <1>2, <3>2 DEF TypeOK
    <3> QED
      BY <1>0, <1>2, <3>1, <3>3 DEF TypeOK
  <2>2. Filled' /\ Ordered' /\ Kept
    BY <1>0, <1>2, SameLog
  <2>3. Reads(c)'
    BY <1>0, <1>2, <2>2, ReadsKept
  <2>4. Connections'
    BY <1>0, <1>2, <2>2, <2>3, ConnectionMoves
  <2> QED
    BY <1>2, <2>1, <2>2, <2>4 DEF Inv
<1>3. ASSUME UNCHANGED <<log, snapshot>> PROVE Snapshots' /\ snapshot' \in Row \cup {NoSnapshot}
  BY <1>0, <1>3 DEF Snapshots, Faithful, Unique, Of, TypeOK
<1>4. ASSUME NEW p \in Procs
      PROVE  /\ conn[p] \in Connection /\ Reads(conn[p])
             /\ Closed \in Connection /\ Reads(Closed)
  BY <1>0, EventStoreAssumption
     DEF TypeOK, Connections, Connection, Closed, Latest, Reads
<1>5. ASSUME NEW p \in Procs, NEW s \in States, ReadVersion(p, s) PROVE Inv'
  <2> DEFINE v == NextVersion(SubSeq(log, 1, Sees(p)))
             c == [at |-> "versioned", open |-> conn[p].open,
                   seen |-> IF conn[p].open THEN Sees(p) ELSE Latest, version |-> v, row |-> s]
  <2>1. Sees(p) \in 0..Len(log) /\ v \in 1..MaxEvents /\ NextOfPrefix(v)
    BY <1>0, <1>5, SeesPrefix DEF ReadVersion
  <2>2. Len(log) \in 0..MaxEvents /\ conn[p].open \in BOOLEAN
    BY <1>0, <1>4 DEF TypeOK, Connection
  <2> HIDE DEF v
  <2>3. c \in Connection
    BY <2>1, <2>2, EventStoreAssumption DEF Connection, Latest
  <2>4. Reads(c)
    BY <2>1 DEF Reads
  <2>5. conn' = [conn EXCEPT ![p] = c]
    BY <1>5 DEF ReadVersion, v
  <2>6. UNCHANGED <<log, writer, snapshot>> /\ writer # p
    BY <1>0, <1>5 DEF ReadVersion, TypeOK
  <2>7. writer \in Procs \cup {NoOne}
    BY <1>0 DEF TypeOK
  <2> QED
    BY <1>2, <1>3, <2>3, <2>4, <2>5, <2>6, <2>7
<1>6. ASSUME NEW p \in Procs, Insert(p) PROVE Inv'
  <2> DEFINE c == [conn[p] EXCEPT !.at = "inserted"]
  <2>1. c \in Connection /\ conn[p].at = "versioned"
    BY <1>4, <1>6 DEF Insert, Connection
  <2>2. Reads(c)
    BY <1>4, <2>1 DEF Reads, Connection
  <2>3. conn' = [conn EXCEPT ![p] = c] /\ UNCHANGED <<log, snapshot>> /\ writer = NoOne /\ writer' = p
    BY <1>6 DEF Insert, Upgradable
  <2>4. c.at = "inserted"
    BY <1>4 DEF Connection
  <2> HIDE DEF c
  <2> QED
    BY <1>2, <1>3, <2>1, <2>2, <2>3, <2>4, EventStoreAssumption
<1>7. ASSUME NEW p \in Procs, InsertFails(p) PROVE Inv'
  <2> DEFINE c == [Closed EXCEPT !.open = TRUE, !.seen = conn[p].seen]
  <2>1. c \in Connection /\ c.at = "idle" /\ Reads(c)
    BY <1>4 DEF Closed, Connection, Reads
  <2>2. conn' = [conn EXCEPT ![p] = c] /\ UNCHANGED <<log, writer, snapshot>> /\ writer # p
    BY <1>0, <1>7 DEF InsertFails, TypeOK
  <2>3. writer \in Procs \cup {NoOne}
    BY <1>0 DEF TypeOK
  <2> HIDE DEF c
  <2> QED
    BY <1>2, <1>3, <2>1, <2>2, <2>3
<1>8. ASSUME NEW p \in Procs, Leave(p) PROVE Inv'
  <2>1. conn' = [conn EXCEPT ![p] = Closed] /\ UNCHANGED <<log, snapshot>>
        /\ writer' = (IF writer = p THEN NoOne ELSE writer)
    BY <1>8 DEF Leave
  <2>2. Closed.at = "idle" /\ writer \in Procs \cup {NoOne} /\ NoOne \notin Procs
    BY <1>0, EventStoreAssumption DEF Closed, TypeOK
  <2> QED
    BY <1>2, <1>3, <1>4, <2>1, <2>2
<1>9. ASSUME NEW p \in Procs, ReadForSnapshot(p) PROVE Inv'
  <2> DEFINE v == Largest(Versions(log))
             s == ReplayState(snapshot, log)
             c == [Closed EXCEPT !.at = "copied", !.version = v, !.row = s]
  <2>1. v \in 1..MaxEvents /\ s \in States /\ Faithful(v, s)
    BY <1>0, <1>9, CheckpointReads DEF ReadForSnapshot
  <2>2. conn' = [conn EXCEPT ![p] = c] /\ UNCHANGED <<log, writer, snapshot>> /\ conn[p].at = "idle"
    BY <1>9 DEF ReadForSnapshot, Closed
  <2> HIDE DEF v, s
  <2>3. c \in Connection
    <3>1. Latest \in 0..Latest /\ v \in 0..MaxEvents
      BY <2>1, EventStoreAssumption DEF Latest
    <3> QED
      BY <2>1, <3>1 DEF Closed, Connection
  <2>4. c.at = "copied" /\ c.seen = Latest /\ c.version = v /\ c.row = s
    BY DEF Closed
  <2>5. Reads(c)
    BY <2>1, <2>4 DEF Reads
  <2>6. writer \in Procs \cup {NoOne} /\ writer # p
    BY <1>0, <2>2 DEF TypeOK
  <2> HIDE DEF c
  <2> QED
    BY <1>2, <1>3, <2>2, <2>3, <2>4, <2>5, <2>6
<1>10. ASSUME NEW p \in Procs, SaveSnapshot(p) PROVE Inv'
  <2>1. conn' = [conn EXCEPT ![p] = Closed] /\ UNCHANGED <<log, writer>> /\ conn[p].at = "copied"
        /\ snapshot' = [version |-> conn[p].version, state |-> conn[p].row]
    BY <1>10 DEF SaveSnapshot
  <2>2. conn[p].version \in 1..MaxEvents /\ conn[p].row \in States
        /\ Faithful(conn[p].version, conn[p].row)
    BY <1>4, <2>1, EventStoreAssumption DEF Reads, Connection
  <2>3. snapshot' \in Row
    BY <2>1, <2>2 DEF Row
  <2>4. Snapshots'
    BY <2>1, <2>2 DEF Snapshots, Faithful, Unique, Of
  <2>5. Closed.at = "idle" /\ writer \in Procs \cup {NoOne} /\ writer # p
    BY <1>0, <2>1 DEF Closed, TypeOK
  <2> QED
    BY <1>2, <1>4, <2>1, <2>3, <2>4, <2>5
<1>11. ASSUME NEW p \in Procs, Commit(p) PROVE Inv'
  <2> DEFINE row == [version |-> conn[p].version, state |-> conn[p].row]
  <2>1. log' = Append(log, row) /\ writer' = NoOne /\ conn' = [conn EXCEPT ![p] = Closed]
        /\ UNCHANGED snapshot /\ Len(log) < MaxEvents /\ conn[p].at = "inserted"
    BY <1>11 DEF Commit
  <2>2. row \in Row /\ NextOfPrefix(row.version)
    BY <1>4, <2>1, EventStoreAssumption DEF Reads, Connection, Row
  <2> HIDE DEF row
  <2>3. Filled' /\ Ordered' /\ Kept
    BY <1>0, <2>1, <2>2, LogGrows
  <2>4. TypeOK'
    <3>1. log' \in Seq(Row) /\ Len(log') <= MaxEvents
      BY <1>0, <2>1, <2>2, EventStoreAssumption DEF TypeOK
    <3>2. conn' \in [Procs -> Connection] /\ conn'[p] = Closed
          /\ \A q \in Procs \ {p} : conn'[q] = conn[q]
      BY <1>0, <1>4, <2>1 DEF TypeOK
    <3>3. \A q \in Procs : conn'[q].at # "inserted"
      BY <1>0, <2>1, <3>2 DEF TypeOK, Closed
    <3> QED
      BY <1>0, <2>1, <3>1, <3>2, <3>3, EventStoreAssumption DEF TypeOK
  <2>5. Reads(Closed)'
    BY <1>0, <1>4, <2>3, ReadsKept
  <2>6. Connections'
    BY <1>0, <2>1, <2>3, <2>5, ConnectionMoves
  <2>7. Snapshots'
    <3>1. PICK t : t = snapshot
      OBVIOUS
    <3>2. t # NoSnapshot => Faithful(t.version, t.state)'
      BY <1>0, <2>3, <3>1 DEF Snapshots, Kept
    <3> QED
      BY <2>1, <3>1, <3>2 DEF Snapshots, Faithful, Unique, Of
  <2> QED
    BY <2>3, <2>4, <2>6, <2>7 DEF Inv
<1> QED
  BY <1>1, <1>5, <1>6, <1>7, <1>8, <1>9, <1>10, <1>11 DEF Next

(***************************************************************************)
(* What follows.                                                           *)
(***************************************************************************)

LEMMA InvHolds == Spec => []Inv
BY InitInv, NextInv, PTL DEF Spec

\* Connections, rows and snapshots stay well formed, and the one process that
\* has inserted a row holds the write lock.
THEOREM TypeCorrect == Spec => []TypeOK
<1>1. Inv => TypeOK
  BY DEF Inv
<1> QED
  BY <1>1, InvHolds, PTL

\* No version is skipped, although it is read outside the transaction that
\* uses it; and replay_state agrees with the log from any snapshot, for as long
\* as no two processes took the same version.
THEOREM ReplayCorrect == Spec => []ReplayFollowsLog
<1>1. Inv => NoGaps
  <2> SUFFICES ASSUME Inv PROVE NoGaps
    OBVIOUS
  <2>1. PICK n \in Nat : n = Len(log)
    BY DEF Inv, TypeOK
  <2>2. PICK k \in 0..n : Of(n) = 1..k
    BY <2>1 DEF Inv, Filled
  <2>3. \A i \in 1..n : log[i].version \in 1..k
    BY <2>2 DEF Of
  <2>4. Versions(log) = 1..k
    BY <2>1, <2>2, AllVersions DEF Inv
  <2> QED
    BY <2>1, <2>3, <2>4 DEF NoGaps, Inv, TypeOK
<1>2. Inv => ReplayIsCurrent
  <2> SUFFICES ASSUME Inv, VersionsAreUnique, log # <<>>
               PROVE  ReplayState(snapshot, log) = log[Len(log)].state
    BY DEF ReplayIsCurrent
  <2>1. Unique(Len(log))
    BY DEF Inv, TypeOK, VersionsAreUnique, Unique
  <2> QED
    BY <2>1, ReplayGivesLast DEF Inv
<1>3. Inv => ReplayFollowsLog
  BY <1>1, <1>2 DEF ReplayFollowsLog
<1> QED
  BY <1>3, InvHolds, PTL

-----------------------------------------------------------------------------
(* Sequences                                                               *)

\* The members of a sequence.
Elements(s) == {s[k] : k \in DOMAIN s}

\* What is in a sequence comes first or later.
LEMMA HeadAndTail ==
  ASSUME NEW S, NEW s \in Seq(S), s # <<>>
  PROVE  /\ Tail(s) \in Seq(S) /\ Elements(Tail(s)) \subseteq Elements(s)
         /\ \A x \in Elements(s) : x = Head(s) \/ x \in Elements(Tail(s))
<1>1. /\ Tail(s) \in Seq(S) /\ Len(Tail(s)) = Len(s) - 1 /\ DOMAIN Tail(s) = 1..Len(Tail(s))
      /\ \A i \in 1..Len(Tail(s)) : Tail(s)[i] = s[i + 1]
  BY HeadTailProperties
<1>2. DOMAIN s = 1..Len(s) /\ Len(s) \in Nat /\ Head(s) = s[1]
  OBVIOUS
<1>3. ASSUME NEW k \in DOMAIN s, k # 1 PROVE s[k] \in Elements(Tail(s))
  <2>1. k - 1 \in 1..Len(Tail(s)) /\ s[k] = Tail(s)[(k - 1) + 1 - 1]
    BY <1>1, <1>2, <1>3
  <2> QED
    BY <1>1, <2>1 DEF Elements
<1>4. ASSUME NEW k \in 1..Len(Tail(s)) PROVE Tail(s)[k] \in Elements(s)
  <2>1. k + 1 \in DOMAIN s
    BY <1>1, <1>2
  <2> QED
    BY <1>1, <2>1 DEF Elements
<1> QED
  BY <1>1, <1>2, <1>3, <1>4 DEF Elements

-----------------------------------------------------------------------------
(* The stores move on their own                                            *)

LEMMA EachStarts ==
  ASSUME FilesInit
  PROVE  /\ Init /\ Art!Init /\ LS!Init /\ US!Init /\ ACP!Init /\ Ext!Init /\ Chan!Init /\ Run!Init
         /\ Doc!Init /\ CC!Init
BY DEF FilesInit

LEMMA EachMoves ==
  ASSUME [FilesNext]_filesVars
  PROVE  /\ [Next]_vars /\ [Art!Next]_artVars /\ [LS!Next]_lsVars /\ [US!Next]_usVars
         /\ [ACP!Next]_acpVars /\ [Ext!Next]_exVars /\ [Chan!Next]_chVars /\ [Run!Next]_runVars
         /\ [Doc!Next]_drVars /\ [CC!Next]_ccVars
BY DEF FilesNext, filesVars

-----------------------------------------------------------------------------
(* Backtrack tickets                                                       *)

\* Between the two writes of a rework the registry is as the ticket will say.
TicketInv ==
  /\ DOMAIN tickets = TicketIds
  /\ \A t \in TicketIds : DOMAIN tickets[t] = {"status", "affected"}
  /\ rework # Art!Idle =>
       /\ rework.ticket \in TicketIds /\ rework.status \in {"in_progress", "resolved"}
       /\ \A f \in DOMAIN art : f \in tickets[rework.ticket].affected =>
            (art[f].status = "stale" <=> rework.status = "in_progress")

LEMMA TicketsFirst == Art!Init => TicketInv
BY DEF Art!Init, TicketInv

\* A rework saves the registry first: what it makes of an entry, and what of the
\* others, is what the ticket is going to say.
LEMMA TicketsNext ==
  ASSUME TicketInv, [Art!Next]_artVars
  PROVE  TicketInv'
<1>1. CASE rework' = Art!Idle /\ UNCHANGED tickets
  BY <1>1 DEF TicketInv
<1>2. ASSUME NEW f \in ArtPaths, Art!Edit(f) \/ Art!Register(f) PROVE TicketInv'
  <2>1. CASE Art!Edit(f)
    BY <2>1 DEF Art!Edit, TicketInv
  <2>2. CASE Art!Register(f)
    BY <1>1, <2>2 DEF Art!Register
  <2> QED
    BY <1>2, <2>1, <2>2
<1>3. CASE Art!Refresh
  BY <1>1, <1>3 DEF Art!Refresh
<1>4. ASSUME NEW t \in TicketIds, NEW stage \in Stages, Art!CreateTicket(t, stage)
      PROVE  TicketInv'
  BY <1>4 DEF Art!CreateTicket, TicketInv
<1>5. ASSUME NEW t \in TicketIds, Art!Approve(t) PROVE TicketInv'
  BY <1>5 DEF Art!Approve, TicketInv
<1>6. ASSUME NEW t \in TicketIds, Art!RunRework(t) PROVE TicketInv'
  <2>1. rework' = [ticket |-> t, status |-> "in_progress"] /\ UNCHANGED tickets
    BY <1>6 DEF Art!RunRework
  <2>2. \A f \in DOMAIN art' : f \in tickets[t].affected => art'[f].status = "stale"
    BY <1>6 DEF Art!RunRework, Art!Entered
  <2> QED
    BY <2>1, <2>2 DEF TicketInv
<1>7. ASSUME NEW t \in TicketIds, Art!Resolve(t) PROVE TicketInv'
  <2>1. rework' = [ticket |-> t, status |-> "resolved"] /\ UNCHANGED tickets
    BY <1>7 DEF Art!Resolve
  <2>2. \A f \in DOMAIN art' : f \in tickets[t].affected => art'[f].status # "stale"
    BY <1>7 DEF Art!Resolve, Art!Entered
  <2> QED
    BY <2>1, <2>2 DEF TicketInv
<1>8. CASE Art!UpdateTicket
  BY <1>8 DEF Art!UpdateTicket, TicketInv
<1>9. CASE Art!Crash
  BY <1>9 DEF Art!Crash, TicketInv
<1>10. CASE UNCHANGED artVars
  BY <1>10 DEF artVars, TicketInv
<1> QED
  BY <1>2, <1>3, <1>4, <1>5, <1>6, <1>7, <1>8, <1>9, <1>10 DEF Art!Next

LEMMA TicketsStep ==
  ASSUME TicketInv, [Art!Next]_artVars
  PROVE  Art!TicketStep
<1>1. CASE UNCHANGED tickets
  BY <1>1 DEF Art!TicketStep
<1>2. ASSUME NEW f \in ArtPaths, Art!Edit(f) \/ Art!Register(f) PROVE UNCHANGED tickets
  BY <1>2 DEF Art!Edit, Art!Register
<1>3. CASE Art!Refresh
  BY <1>1, <1>3 DEF Art!Refresh
<1>4. ASSUME NEW u \in TicketIds, NEW stage \in Stages, Art!CreateTicket(u, stage)
      PROVE  Art!TicketStep
  BY <1>4 DEF Art!CreateTicket, Art!TicketStep, TicketInv
<1>5. ASSUME NEW u \in TicketIds, Art!Approve(u) PROVE Art!TicketStep
  BY <1>5 DEF Art!Approve, Art!TicketStep, TicketInv
<1>6. ASSUME NEW u \in TicketIds, Art!RunRework(u) \/ Art!Resolve(u) PROVE UNCHANGED tickets
  BY <1>6 DEF Art!RunRework, Art!Resolve
<1>7. CASE Art!UpdateTicket
  BY <1>7 DEF Art!UpdateTicket, Art!TicketStep, TicketInv
<1>8. CASE Art!Crash
  BY <1>8 DEF Art!Crash, Art!TicketStep
<1>9. CASE UNCHANGED artVars
  BY <1>1, <1>9 DEF artVars
<1> QED
  BY <1>1, <1>2, <1>3, <1>4, <1>5, <1>6, <1>7, <1>8, <1>9 DEF Art!Next

-----------------------------------------------------------------------------
(* Lessons                                                                 *)

Document(doc) ==
  /\ \E n \in Nat : doc = [k \in 1..n |-> doc[k]]
  /\ \A k \in DOMAIN doc : {"id", "status"} \subseteq DOMAIN doc[k] /\ doc[k].id \in LS!Ids

\* What is approved somebody approved, or is about to.
Vetted(doc, ids) ==
  \A k \in DOMAIN doc : doc[k].status = "approved" => doc[k].id \in ids \cup vetted

\* What is wanted once an operation has returned.
After(op, ids, i) ==
  IF i \in ids /\ op = "approve" THEN "approved"
  ELSE IF i \in ids /\ op = "deprecate" THEN "deprecated" ELSE wanted[i]

Keeps(doc, op, ids) ==
  \A i \in LS!Ids : After(op, ids, i) # "pending" =>
    \E k \in DOMAIN doc : doc[k].id = i /\ doc[k].status = After(op, ids, i)

LsOperation(o) ==
  /\ DOMAIN o = {"at", "op", "ids", "doc"}
  /\ o.at \in {"idle", "scanned", "loaded", "open"} /\ o.ids \subseteq LS!Ids
  /\ Document(o.doc) /\ Vetted(o.doc, IF o.op = "approve" THEN o.ids ELSE {})
  /\ o.op = "render" => o.ids \subseteq vetted

LsBusy(p) == lsProc[p].at # "idle"

LsTyped ==
  /\ lsMade \in 0..MaxLessons /\ wanted \in [LS!Ids -> {"pending", "approved", "deprecated"}]
  /\ vetted \subseteq LS!Ids /\ injected \subseteq vetted
  /\ lessons = LS!Garbled \/ \E doc : lessons = LS!Text(doc) /\ Document(doc) /\ Vetted(doc, {})
  /\ DOMAIN lsProc = Procs /\ \A p \in Procs : LsOperation(lsProc[p])

LsKept ==
  IF lsDisturbed THEN wanted = LS!Undecided
  ELSE
    /\ \A p, q \in Procs : LsBusy(p) /\ LsBusy(q) => p = q
    /\ (\A p \in Procs : lsProc[p].at # "open") => LS!Readable /\ Keeps(lessons.doc, "list", {})
    /\ \A p \in Procs : lsProc[p].at \in {"loaded", "open"} =>
         Keeps(lsProc[p].doc, lsProc[p].op, lsProc[p].ids)

LsInv == LsTyped /\ LsKept

LEMMA DocumentIsASeq ==
  ASSUME NEW doc, Document(doc)
  PROVE  doc \in Seq(Elements(doc)) /\ DOMAIN doc = 1..Len(doc) /\ Len(doc) \in Nat
<1>1. PICK n \in Nat : doc = [k \in 1..n |-> doc[k]]
  BY DEF Document
<1>2. doc \in [1..n -> Elements(doc)]
  BY <1>1 DEF Elements
<1>3. doc \in Seq(Elements(doc))
  BY <1>1, <1>2
<1> QED
  BY <1>3

LEMMA SeqIsADocument ==
  ASSUME NEW S, NEW doc \in Seq(S),
         \A k \in DOMAIN doc : {"id", "status"} \subseteq DOMAIN doc[k] /\ doc[k].id \in LS!Ids
  PROVE  Document(doc)
<1>1. doc = [k \in 1..Len(doc) |-> doc[k]] /\ Len(doc) \in Nat
  OBVIOUS
<1> QED
  BY <1>1 DEF Document

LEMMA NoDocument == Document(<<>>) /\ \A ids : Vetted(<<>>, ids)
<1>1. DOMAIN <<>> = {} /\ <<>> = [k \in 1..0 |-> <<>>[k]]
  OBVIOUS
<1> QED
  BY <1>1 DEF Document, Vetted

\* What an operation makes of a document: lessons stay where they are, and of
\* some of them the status changes.
Marks(new, doc, ids, status) ==
  /\ new = [k \in DOMAIN doc |-> new[k]]
  /\ \A k \in DOMAIN doc :
       /\ DOMAIN new[k] = DOMAIN doc[k] /\ new[k].id = doc[k].id
       /\ new[k].status = IF doc[k].id \in ids THEN status ELSE doc[k].status

LEMMA DecisionMarks ==
  ASSUME NEW doc, Document(doc), NEW id \in LS!Ids
  PROVE  /\ Marks(LS!Approved(doc, id), doc, {id}, "approved")
         /\ Marks(LS!Deprecated(doc, id), doc, {id}, "deprecated")
<1>1. \A k \in DOMAIN doc : {"id", "status"} \subseteq DOMAIN doc[k]
  BY DEF Document
<1>2. Marks(LS!Approved(doc, id), doc, {id}, "approved")
  BY <1>1 DEF LS!Approved, LS!Change, Marks
<1>3. Marks(LS!Deprecated(doc, id), doc, {id}, "deprecated")
  BY <1>1 DEF LS!Deprecated, LS!Change, Marks
<1> QED
  BY <1>2, <1>3

LEMMA UseMarks ==
  ASSUME NEW doc, Document(doc)
  PROVE  /\ \A id : Marks(LS!Revived(doc, id), doc, {}, "approved")
         /\ \A ids : Marks(LS!Used(doc, ids), doc, {}, "approved")
         /\ Marks(LS!Decayed(doc), doc, {}, "approved")
<1>1. \A k \in DOMAIN doc : {"id", "status"} \subseteq DOMAIN doc[k]
  BY DEF Document
<1>2. \A id : Marks(LS!Revived(doc, id), doc, {}, "approved")
  BY <1>1 DEF LS!Revived, LS!Change, Marks
<1>3. \A ids : Marks(LS!Used(doc, ids), doc, {}, "approved")
  BY <1>1 DEF LS!Used, LS!Change, Marks
<1>4. Marks(LS!Decayed(doc), doc, {}, "approved")
  BY <1>1 DEF LS!Decayed, LS!Faded, Marks
<1> QED
  BY <1>2, <1>3, <1>4

\* Marking keeps documents; only what is marked approved need be vetted anew.
LEMMA MarkedIsADocument ==
  ASSUME NEW doc, Document(doc), NEW new, NEW ids, NEW status, Marks(new, doc, ids, status)
  PROVE  /\ Document(new)
         /\ Vetted(doc, {}) => Vetted(new, IF status = "approved" THEN ids ELSE {})
<1>1. DOMAIN new = DOMAIN doc
  BY DEF Marks
<1>2. Document(new)
  <2>1. PICK n \in Nat : doc = [k \in 1..n |-> doc[k]]
    BY DEF Document
  <2>2. new = [k \in 1..n |-> new[k]]
    BY <2>1 DEF Marks
  <2> QED
    BY <1>1, <2>2 DEF Document, Marks
<1>3. ASSUME Vetted(doc, {}) PROVE Vetted(new, IF status = "approved" THEN ids ELSE {})
  BY <1>1, <1>3 DEF Vetted, Marks
<1> QED
  BY <1>2, <1>3

\* Adding keeps what is there, and adds what is not approved.
LEMMA AddedIsADocument ==
  ASSUME NEW doc, Document(doc), NEW topic, lsMade + 1 \in LS!Ids
  PROVE  /\ Document(LS!Added(doc, topic))
         /\ Vetted(doc, {}) => Vetted(LS!Added(doc, topic), {})
         /\ \A k \in DOMAIN doc : k \in DOMAIN LS!Added(doc, topic) /\ LS!Added(doc, topic)[k] = doc[k]
<1> DEFINE l == [id |-> lsMade + 1, topic |-> topic, status |-> "pending",
                 faded |-> 0, used |-> LS!Never, approved |-> LS!Never, dormant |-> FALSE]
<1>1. l.id = lsMade + 1 /\ l.status = "pending" /\ {"id", "status"} \subseteq DOMAIN l
  OBVIOUS
<1>2. LS!Added(doc, topic) = Append(doc, l)
  BY DEF LS!Added
<1> HIDE DEF l
<1> DEFINE S == Elements(doc) \cup {l}
<1>3. doc \in Seq(S) /\ DOMAIN doc = 1..Len(doc) /\ Len(doc) \in Nat
  <2>1. Seq(Elements(doc)) \subseteq Seq(S)
    OBVIOUS
  <2> QED
    BY <2>1, DocumentIsASeq
<1>4. /\ Append(doc, l) \in Seq(S) /\ Len(Append(doc, l)) = Len(doc) + 1
      /\ \A i \in 1..Len(doc) : Append(doc, l)[i] = doc[i]
      /\ Append(doc, l)[Len(doc) + 1] = l
  BY <1>3, AppendProperties
<1>5. DOMAIN Append(doc, l) = 1..(Len(doc) + 1)
  BY <1>3, <1>4
<1>6. \A k \in DOMAIN Append(doc, l) :
        IF k \in DOMAIN doc THEN Append(doc, l)[k] = doc[k] ELSE Append(doc, l)[k] = l
  BY <1>3, <1>4, <1>5
<1>7. Document(Append(doc, l))
  <2>1. \A k \in DOMAIN Append(doc, l) :
          {"id", "status"} \subseteq DOMAIN Append(doc, l)[k] /\ Append(doc, l)[k].id \in LS!Ids
    BY <1>1, <1>6 DEF Document
  <2> HIDE DEF S
  <2> QED
    BY <1>4, <2>1, SeqIsADocument
<1>8. Vetted(doc, {}) => Vetted(Append(doc, l), {})
  BY <1>1, <1>6 DEF Vetted
<1>9. \A k \in DOMAIN doc : k \in DOMAIN Append(doc, l) /\ Append(doc, l)[k] = doc[k]
  BY <1>3, <1>4, <1>5
<1> QED
  BY <1>2, <1>7, <1>8, <1>9

LsMoves(p) == DOMAIN lsProc' = Procs /\ \A q \in Procs \ {p} : lsProc'[q] = lsProc[q]

LEMMA LsIdle ==
  /\ LsOperation(LS!Idle) /\ LsOperation(LS!Idle)' /\ LS!Idle.at = "idle"
  /\ LS!Idle.op = "list" /\ LS!Idle.ids = {} /\ LS!Idle.doc = <<>>
<1>1. /\ DOMAIN LS!Idle = {"at", "op", "ids", "doc"} /\ LS!Idle.at = "idle"
      /\ LS!Idle.op = "list" /\ LS!Idle.ids = {} /\ LS!Idle.doc = <<>>
  BY DEF LS!Idle
<1> QED
  BY <1>1, NoDocument DEF LsOperation, Vetted

\* What is vetted stays so.
LEMMA LsOperationStays ==
  ASSUME NEW o, LsOperation(o), vetted \subseteq vetted'
  PROVE  LsOperation(o)'
<1>1. ASSUME NEW ids, Vetted(o.doc, ids) PROVE Vetted(o.doc, ids)'
  BY <1>1 DEF LsOperation, Document, Vetted
<1>2. Document(o.doc)'
  BY DEF LsOperation, Document
<1>3. Vetted(o.doc, IF o.op = "approve" THEN o.ids ELSE {})'
  BY <1>1 DEF LsOperation
<1> QED
  BY <1>2, <1>3 DEF LsOperation

LEMMA LsOthers ==
  ASSUME LsTyped, NEW p \in Procs, LsMoves(p), LsOperation(lsProc[p])', vetted \subseteq vetted'
  PROVE  \A q \in Procs : LsOperation(lsProc[q])'
<1> SUFFICES ASSUME NEW q \in Procs, q # p PROVE LsOperation(lsProc[q])'
  OBVIOUS
<1>1. lsProc'[q] = lsProc[q] /\ LsOperation(lsProc[q])
  BY DEF LsTyped, LsMoves
<1>2. PICK o : o = lsProc[q]
  OBVIOUS
<1>3. LsOperation(o)'
  BY <1>1, <1>2, LsOperationStays
<1> QED
  BY <1>1, <1>2, <1>3 DEF LsOperation, Document, Vetted

\* The file, where it can be read.
LEMMA LsFile ==
  ASSUME LsTyped, LS!Readable
  PROVE  Document(lessons.doc) /\ Vetted(lessons.doc, {})
BY DEF LsTyped, LS!Readable, LS!Text

LEMMA LsAlone ==
  ASSUME LsInv, ~lsDisturbed, NEW p \in Procs, lsProc[p].at # "idle"
  PROVE  \A q \in Procs \ {p} : lsProc[q].at = "idle"
BY DEF LsInv, LsKept, LsBusy

\* A command that runs alone reads what was decided; a first one after an overlap
\* finds that nothing is known to be.
LEMMA LsReads ==
  ASSUME LsInv, NEW p \in Procs, LS!Reads(p), lsProc[p].at # "open", LS!Readable
  PROVE  /\ wanted' = IF lsDisturbed' THEN LS!Undecided ELSE wanted
         /\ ~lsDisturbed' =>
              (\A q \in Procs \ {p} : lsProc[q].at = "idle") /\ Keeps(lessons.doc, "list", {})
<1>1. wanted' = IF lsDisturbed' THEN LS!Undecided ELSE wanted
  BY DEF LS!Reads
<1> SUFFICES ASSUME ~lsDisturbed'
             PROVE  (\A q \in Procs \ {p} : lsProc[q].at = "idle") /\ Keeps(lessons.doc, "list", {})
  BY <1>1
<1>2. (\A q \in Procs \ {p} : lsProc[q].at = "idle") /\ (~lsDisturbed \/ LS!Busy = {})
  BY DEF LS!Reads, LS!Busy
<1>3. CASE ~lsDisturbed
  <2>1. \A q \in Procs : lsProc[q].at # "open"
    BY <1>2
  <2> QED
    BY <1>2, <1>3, <2>1 DEF LsInv, LsKept
<1>4. CASE lsDisturbed
  <2>1. wanted = LS!Undecided
    BY <1>4 DEF LsInv, LsKept
  <2> QED
    BY <1>2, <2>1 DEF LS!Undecided, Keeps, After
<1> QED
  BY <1>3, <1>4

\* The steps that neither open the file nor write it.
LEMMA LsStep ==
  ASSUME LsInv, NEW p \in Procs, LsMoves(p), LsOperation(lsProc'[p]), UNCHANGED <<lessons, vetted, injected>>,
         lsMade' \in 0..MaxLessons, lsProc[p].at # "open", lsProc'[p].at # "open",
         wanted' = IF lsDisturbed' THEN LS!Undecided ELSE wanted,
         ~lsDisturbed' => /\ \A q \in Procs \ {p} : lsProc[q].at = "idle"
                          /\ LS!Readable /\ Keeps(lessons.doc, "list", {}),
         ~lsDisturbed' /\ lsProc'[p].at = "loaded" =>
           Keeps(lsProc'[p].doc, lsProc'[p].op, lsProc'[p].ids)
  PROVE  LsInv'
<1>1. LsTyped'
  <2>1. \A q \in Procs : LsOperation(lsProc'[q])
    BY DEF LsInv, LsTyped, LsMoves
  <2>2. \A o : LsOperation(o) => LsOperation(o)'
    BY LsOperationStays
  <2>3. \A q \in Procs : LsOperation(lsProc[q])'
    BY <2>1, <2>2 DEF LsOperation, Document, Vetted
  <2>4. lessons' = LS!Garbled \/ \E doc : lessons' = LS!Text(doc) /\ Document(doc) /\ Vetted(doc, {})'
    BY DEF LsInv, LsTyped, Vetted
  <2>5. wanted' \in [LS!Ids -> {"pending", "approved", "deprecated"}]
    BY DEF LsInv, LsTyped, LS!Undecided
  <2> QED
    BY <2>3, <2>4, <2>5 DEF LsInv, LsTyped, LsMoves, Document, Vetted
<1>2. ASSUME ~lsDisturbed'
      PROVE  /\ \A q, r \in Procs : LsBusy(q)' /\ LsBusy(r)' => q = r
             /\ LS!Readable' /\ Keeps(lessons.doc, "list", {})'
             /\ \A q \in Procs : lsProc'[q].at \in {"loaded", "open"} =>
                  Keeps(lsProc[q].doc, lsProc[q].op, lsProc[q].ids)'
  <2>1. \A q \in Procs \ {p} : lsProc[q].at = "idle" /\ lsProc'[q] = lsProc[q]
    BY <1>2 DEF LsMoves
  <2>2. wanted' = wanted /\ LS!Readable /\ Keeps(lessons.doc, "list", {})
    BY <1>2
  <2>4. \A q, r \in Procs : LsBusy(q)' /\ LsBusy(r)' => q = r
    BY <2>1 DEF LsBusy
  <2>5. LS!Readable' /\ Keeps(lessons.doc, "list", {})'
    BY <2>2 DEF LS!Readable, Keeps, After
  <2>6. ASSUME NEW q \in Procs, lsProc'[q].at \in {"loaded", "open"}
        PROVE  Keeps(lsProc[q].doc, lsProc[q].op, lsProc[q].ids)'
    <3>1. q = p /\ lsProc'[p].at = "loaded"
      BY <2>1, <2>6
    <3> QED
      BY <1>2, <2>2, <3>1 DEF Keeps, After
  <2> QED
    BY <2>4, <2>5, <2>6
<1>3. lsDisturbed' => wanted' = LS!Undecided'
  BY DEF LS!Undecided
<1> QED
  BY <1>1, <1>2, <1>3 DEF LsInv, LsKept

LEMMA MarkedKeeps ==
  ASSUME LsTyped, NEW doc, Document(doc), Keeps(doc, "list", {}), NEW new, NEW ids, NEW status, Marks(new, doc, ids, status),
         NEW op, NEW on,
         \/ op \notin {"approve", "deprecate"} /\ ids = {}
         \/ op = "approve" /\ status = "approved" /\ on = ids /\ ids \subseteq LS!IdsOf(doc)
         \/ op = "deprecate" /\ status = "deprecated" /\ on = ids /\ ids \subseteq LS!IdsOf(doc)
  PROVE  Keeps(new, op, on)
<1> SUFFICES ASSUME NEW i \in LS!Ids, After(op, on, i) # "pending"
             PROVE  \E k \in DOMAIN new : new[k].id = i /\ new[k].status = After(op, on, i)
  BY DEF Keeps
<1>0. DOMAIN new = DOMAIN doc
  BY DEF Marks
<1>1. CASE i \in ids
  <2>1. PICK k \in DOMAIN doc : doc[k].id = i
    BY <1>1 DEF LS!IdsOf
  <2>2. new[k].id = i /\ new[k].status = status
    BY <1>1, <2>1 DEF Marks
  <2>3. After(op, on, i) = status
    BY <1>1 DEF After
  <2> QED
    BY <1>0, <2>1, <2>2, <2>3
<1>2. CASE i \notin ids
  <2>1. After(op, on, i) = wanted[i]
    BY <1>2 DEF After
  <2>2. PICK k \in DOMAIN doc : doc[k].id = i /\ doc[k].status = wanted[i]
    BY <2>1 DEF Keeps, After
  <2>3. new[k].id = i /\ new[k].status = wanted[i]
    BY <1>2, <2>2 DEF Marks
  <2> QED
    BY <1>0, <2>1, <2>2, <2>3
<1> QED
  BY <1>1, <1>2

LEMMA LsFirst == LS!Init => LsInv
<1> SUFFICES ASSUME LS!Init PROVE LsInv
  OBVIOUS
<1>1. \A p \in Procs : lsProc[p] = LS!Idle
  BY DEF LS!Init
<1>2. lessons = LS!Text(<<>>) /\ LS!Readable /\ lessons.doc = <<>>
  BY DEF LS!Init, LS!Empty, LS!Text, LS!Readable, LS!Garbled
<1>3. LsTyped
  <2>1. lsMade \in 0..MaxLessons
    BY LessonsAssumption DEF LS!Init, LS!LessonsAssumption
  <2>2. wanted \in [LS!Ids -> {"pending", "approved", "deprecated"}] /\ vetted = {} /\ injected = {}
    BY DEF LS!Init, LS!Undecided
  <2>3. lessons = LS!Text(<<>>) /\ Document(<<>>) /\ Vetted(<<>>, {})
    BY <1>2, NoDocument
  <2>4. DOMAIN lsProc = Procs /\ \A p \in Procs : LsOperation(lsProc[p])
    BY <1>1, LsIdle DEF LS!Init
  <2> QED
    BY <2>1, <2>2, <2>3, <2>4 DEF LsTyped
<1>4. Keeps(<<>>, "list", {})
  BY DEF LS!Init, LS!Undecided, Keeps, After
<1>5. \A p \in Procs : lsProc[p].at = "idle"
  BY <1>1 DEF LS!Idle
<1>6. ~lsDisturbed
  BY DEF LS!Init
<1> QED
  BY <1>2, <1>3, <1>4, <1>5, <1>6 DEF LsInv, LsKept, LsBusy

LEMMA LsNext == LsInv /\ [LS!Next]_lsVars => LsInv'
<1> SUFFICES ASSUME LsInv, [LS!Next]_lsVars PROVE LsInv'
  OBVIOUS
<1>0. LsTyped /\ MaxLessons \in Nat
  BY LessonsAssumption DEF LsInv, LS!LessonsAssumption
<1>1. CASE UNCHANGED <<lessons, lsProc, lsMade, wanted, vetted, injected, lsDisturbed>>
  <2>1. LsTyped'
    BY <1>1 DEF LsInv, LsTyped, LsOperation, Document, Vetted
  <2>2. LsKept'
    BY <1>1 DEF LsInv, LsKept, LsBusy, LS!Readable, LS!Undecided, Keeps, After
  <2> QED
    BY <2>1, <2>2 DEF LsInv
<1>2. CASE LS!Tick
  BY <1>1, <1>2 DEF LS!Tick
\* An operation reads the file and has its document.
<1>3. ASSUME NEW p \in Procs, NEW op, NEW ids, NEW doc, LS!Load(p, op, ids, doc), UNCHANGED <<lessons, vetted, injected>>,
             lsMade' \in 0..MaxLessons, lsProc[p].at \in {"idle", "scanned"}, ids \subseteq LS!Ids,
             Document(doc), Vetted(doc, IF op = "approve" THEN ids ELSE {}),
             op = "render" => ids \subseteq vetted,
             LS!Readable, Keeps(lessons.doc, "list", {}) => Keeps(doc, op, ids)
      PROVE  LsInv'
  <2> DEFINE o == [at |-> "loaded", op |-> op, ids |-> ids, doc |-> doc]
  <2>1. lsProc' = [lsProc EXCEPT ![p] = o] /\ LS!Reads(p)
    BY <1>3 DEF LS!Load
  <2>2. /\ o.at = "loaded" /\ o.op = op /\ o.ids = ids /\ o.doc = doc
        /\ DOMAIN o = {"at", "op", "ids", "doc"}
    OBVIOUS
  <2> HIDE DEF o
  <2>3. lsProc'[p] = o /\ LsMoves(p)
    BY <1>0, <2>1 DEF LsTyped, LsMoves
  <2>4. LsOperation(o)
    BY <1>3, <2>2 DEF LsOperation
  <2>5. /\ wanted' = IF lsDisturbed' THEN LS!Undecided ELSE wanted
        /\ ~lsDisturbed' =>
             (\A q \in Procs \ {p} : lsProc[q].at = "idle") /\ Keeps(lessons.doc, "list", {})
    BY <1>3, <2>1, LsReads
  <2>6. ~lsDisturbed' => Keeps(doc, op, ids)
    BY <1>3, <2>5
  <2> QED
    BY <1>3, <2>2, <2>3, <2>4, <2>5, <2>6, LsStep
\* An operation has made its first read.
<1>4. ASSUME NEW p \in Procs, NEW op, NEW ids, LS!Scan(p, op, ids), UNCHANGED <<lessons, lsMade, vetted, injected>>,
             lsProc[p].at = "idle", LS!Readable, ids \subseteq LS!Ids, op = "render" => ids \subseteq vetted
      PROVE  LsInv'
  <2> DEFINE o == [at |-> "scanned", op |-> op, ids |-> ids, doc |-> <<>>]
  <2>1. lsProc' = [lsProc EXCEPT ![p] = o] /\ LS!Reads(p)
    BY <1>4 DEF LS!Scan
  <2>2. /\ o.at = "scanned" /\ o.op = op /\ o.ids = ids /\ o.doc = <<>>
        /\ DOMAIN o = {"at", "op", "ids", "doc"}
    OBVIOUS
  <2> HIDE DEF o
  <2>3. lsProc'[p] = o /\ LsMoves(p)
    BY <1>0, <2>1 DEF LsTyped, LsMoves
  <2>4. LsOperation(o)
    BY <1>4, <2>2, NoDocument DEF LsOperation
  <2>5. /\ wanted' = IF lsDisturbed' THEN LS!Undecided ELSE wanted
        /\ ~lsDisturbed' =>
             (\A q \in Procs \ {p} : lsProc[q].at = "idle") /\ Keeps(lessons.doc, "list", {})
    BY <1>4, <2>1, LsReads
  <2>6. lsMade' \in 0..MaxLessons
    BY <1>0, <1>4 DEF LsTyped
  <2> QED
    BY <1>4, <2>2, <2>3, <2>4, <2>5, <2>6, LsStep
<1>5. ASSUME LS!Readable
      PROVE  Document(lessons.doc) /\ Vetted(lessons.doc, {}) /\ LS!IdsOf(lessons.doc) \subseteq LS!Ids
  <2>1. Document(lessons.doc) /\ Vetted(lessons.doc, {})
    BY <1>0, <1>5, LsFile
  <2> QED
    BY <2>1 DEF LS!IdsOf, Document
<1>6. ASSUME NEW p \in Procs, NEW topic, LS!Load(p, "add", {lsMade + 1}, LS!Added(lessons.doc, topic)),
             LS!Readable, lsMade < MaxLessons, lsMade' = lsMade + 1, lsProc[p].at \in {"idle", "scanned"},
             UNCHANGED <<lessons, vetted, injected>>
      PROVE  LsInv'
  <2>1. lsMade + 1 \in LS!Ids /\ lsMade + 1 \in 0..MaxLessons
    BY <1>0, <1>6 DEF LsTyped, LS!Ids
  <2>2. /\ Document(LS!Added(lessons.doc, topic)) /\ Vetted(LS!Added(lessons.doc, topic), {})
        /\ \A k \in DOMAIN lessons.doc : k \in DOMAIN LS!Added(lessons.doc, topic)
                                         /\ LS!Added(lessons.doc, topic)[k] = lessons.doc[k]
    BY <1>5, <1>6, <2>1, AddedIsADocument
  <2>3. ASSUME Keeps(lessons.doc, "list", {})
        PROVE  Keeps(LS!Added(lessons.doc, topic), "add", {lsMade + 1})
    BY <2>2, <2>3 DEF Keeps, After
  <2> QED
    BY <1>3, <1>6, <2>1, <2>2, <2>3
<1>7. ASSUME NEW p \in Procs, NEW topic, LS!LoadToAdd(p, topic) \/ LS!LoadToPropose(p, topic)
      PROVE  LsInv'
  BY <1>6, <1>7 DEF LS!LoadToAdd, LS!LoadToPropose
<1>8. ASSUME NEW p \in Procs, NEW id \in LS!Ids, LS!LoadToDecide(p, id) PROVE LsInv'
  <2>1. /\ lsProc[p].at = "idle" /\ LS!Readable /\ id \in LS!IdsOf(lessons.doc)
        /\ UNCHANGED <<lessons, lsMade, vetted, injected>>
    BY <1>8 DEF LS!LoadToDecide
  <2>2. Document(lessons.doc) /\ Vetted(lessons.doc, {}) /\ lsMade' \in 0..MaxLessons
    BY <1>0, <1>5, <2>1 DEF LsTyped
  <2>3. CASE LS!Load(p, "approve", {id}, LS!Approved(lessons.doc, id))
    <3>1. Marks(LS!Approved(lessons.doc, id), lessons.doc, {id}, "approved")
      BY <2>2, DecisionMarks
    <3>2. PICK new : new = LS!Approved(lessons.doc, id)
      OBVIOUS
    <3>3. Document(new) /\ Vetted(new, {id})
      BY <2>2, <3>1, <3>2, MarkedIsADocument
    <3>4. Keeps(lessons.doc, "list", {}) => Keeps(new, "approve", {id})
      BY <1>0, <2>1, <2>2, <3>1, <3>2, MarkedKeeps
    <3> QED
      BY <1>3, <2>1, <2>2, <2>3, <3>2, <3>3, <3>4
  <2>4. CASE LS!Load(p, "deprecate", {id}, LS!Deprecated(lessons.doc, id))
    <3>1. Marks(LS!Deprecated(lessons.doc, id), lessons.doc, {id}, "deprecated")
      BY <2>2, DecisionMarks
    <3>2. PICK new : new = LS!Deprecated(lessons.doc, id)
      OBVIOUS
    <3>3. Document(new) /\ Vetted(new, {})
      BY <2>2, <3>1, <3>2, MarkedIsADocument
    <3>4. Keeps(lessons.doc, "list", {}) => Keeps(new, "deprecate", {id})
      BY <1>0, <2>1, <2>2, <3>1, <3>2, MarkedKeeps
    <3> QED
      BY <1>3, <2>1, <2>2, <2>4, <3>2, <3>3, <3>4
  <2>5. CASE LS!Load(p, "revive", {id}, LS!Revived(lessons.doc, id))
    <3>1. Marks(LS!Revived(lessons.doc, id), lessons.doc, {}, "approved")
      BY <2>2, UseMarks
    <3>2. PICK new : new = LS!Revived(lessons.doc, id)
      OBVIOUS
    <3>3. Document(new) /\ Vetted(new, {})
      BY <2>2, <3>1, <3>2, MarkedIsADocument
    <3>4. Keeps(lessons.doc, "list", {}) => Keeps(new, "revive", {id})
      BY <1>0, <2>1, <2>2, <3>1, <3>2, MarkedKeeps
    <3> QED
      BY <1>3, <2>1, <2>2, <2>5, <3>2, <3>3, <3>4
  <2> QED
    BY <1>8, <2>3, <2>4, <2>5 DEF LS!LoadToDecide
\* Decay and use change neither which lessons there are nor their status.
<1>9. ASSUME NEW p \in Procs, NEW op \in {"decay", "render"}, NEW ids, NEW new, LS!Load(p, op, ids, new),
             LS!Readable, lsProc[p].at \in {"idle", "scanned"}, UNCHANGED <<lessons, lsMade, vetted, injected>>,
             Marks(new, lessons.doc, {}, "approved"),
             ids \subseteq LS!Ids, op = "render" => ids \subseteq vetted
      PROVE  LsInv'
  <2>1. Document(lessons.doc) /\ Vetted(lessons.doc, {}) /\ lsMade' \in 0..MaxLessons
    BY <1>0, <1>5, <1>9 DEF LsTyped
  <2>2. Document(new) /\ Vetted(new, {})
    BY <1>9, <2>1, MarkedIsADocument
  <2>3. Keeps(lessons.doc, "list", {}) => Keeps(new, op, ids)
    BY <1>0, <1>9, <2>1, MarkedKeeps
  <2> QED
    BY <1>3, <1>9, <2>1, <2>2, <2>3
<1>10. ASSUME NEW p \in Procs, LS!LoadToDecay(p) PROVE LsInv'
  BY <1>5, <1>9, <1>10, UseMarks DEF LS!LoadToDecay
<1>11. ASSUME NEW p \in Procs, LS!LoadToRender(p) PROVE LsInv'
  <2>1. lsProc[p].ids \subseteq LS!Ids /\ lsProc[p].ids \subseteq vetted
    BY <1>0, <1>11 DEF LS!LoadToRender, LsTyped, LsOperation
  <2> QED
    BY <1>5, <1>9, <1>11, <2>1, UseMarks DEF LS!LoadToRender
<1>12. ASSUME NEW p \in Procs, LS!Select(p) PROVE LsInv'
  <2>1. Document(lessons.doc) /\ Vetted(lessons.doc, {})
    BY <1>5, <1>12 DEF LS!Select
  <2>2. LS!Selectable(lessons.doc) \subseteq LS!Ids /\ LS!Selectable(lessons.doc) \subseteq vetted
    BY <2>1 DEF LS!Selectable, Document, Vetted
  <2> QED
    BY <1>4, <1>12, <2>2 DEF LS!Select
<1>13. ASSUME NEW p \in Procs, LS!ScanReflections(p) PROVE LsInv'
  BY <1>4, <1>13 DEF LS!ScanReflections
<1>14. ASSUME NEW p \in Procs, lsProc' = [lsProc EXCEPT ![p] = LS!Idle]
       PROVE  /\ LsMoves(p) /\ lsProc'[p] = LS!Idle /\ LsOperation(lsProc'[p]) /\ lsProc'[p].at = "idle"
              /\ LsOperation(lsProc[p])'
  <2>1. LsMoves(p) /\ lsProc'[p] = LS!Idle
    BY <1>0, <1>14 DEF LsTyped, LsMoves
  <2>2. LsOperation(lsProc'[p]) /\ lsProc'[p].at = "idle"
    BY <2>1, LsIdle
  <2> QED
    BY <2>1, <2>2, LsIdle DEF LsOperation, Document, Vetted
<1>15. ASSUME NEW p \in Procs, LS!ScanFails(p) \/ LS!Kill(p) PROVE LsInv'
  <2>1. /\ lsProc[p].at \in {"scanned", "loaded"} /\ lsProc' = [lsProc EXCEPT ![p] = LS!Idle]
        /\ UNCHANGED <<lessons, lsMade, wanted, vetted, injected, lsDisturbed>>
    BY <1>15 DEF LS!ScanFails, LS!Kill
  <2>2. /\ wanted' = IF lsDisturbed' THEN LS!Undecided ELSE wanted
        /\ ~lsDisturbed' => /\ \A q \in Procs \ {p} : lsProc[q].at = "idle"
                            /\ LS!Readable /\ Keeps(lessons.doc, "list", {})
    <3>1. lsDisturbed => wanted = LS!Undecided
      BY DEF LsInv, LsKept
    <3>2. ASSUME ~lsDisturbed
          PROVE  /\ \A q \in Procs \ {p} : lsProc[q].at = "idle"
                 /\ LS!Readable /\ Keeps(lessons.doc, "list", {})
      <4>1. \A q \in Procs \ {p} : lsProc[q].at = "idle"
        BY <2>1, <3>2, LsAlone
      <4>2. \A q \in Procs : lsProc[q].at # "open"
        BY <2>1, <4>1
      <4> QED
        BY <3>2, <4>1, <4>2 DEF LsInv, LsKept
    <3> QED
      BY <2>1, <3>1, <3>2
  <2>3. lsMade' \in 0..MaxLessons
    BY <1>0, <2>1 DEF LsTyped
  <2>4. LsMoves(p) /\ lsProc'[p] = LS!Idle /\ LsOperation(lsProc'[p]) /\ lsProc'[p].at = "idle"
    BY <1>14, <2>1
  <2>5. lsProc[p].at # "open" /\ lsProc'[p].at # "open" /\ lsProc'[p].at # "loaded"
    BY <2>1, <2>4
  <2> QED
    BY <2>1, <2>2, <2>3, <2>4, <2>5, LsStep
<1>16. ASSUME NEW p \in Procs, LS!Open(p) PROVE LsInv'
  <2>1. /\ lsProc[p].at = "loaded" /\ lessons' = LS!Text(<<>>) /\ lsProc' = [lsProc EXCEPT ![p].at = "open"]
        /\ UNCHANGED <<lsMade, wanted, vetted, injected, lsDisturbed>>
    BY <1>16 DEF LS!Open, LS!Empty
  <2>2. /\ LsMoves(p) /\ lsProc'[p].at = "open" /\ lsProc'[p].op = lsProc[p].op
        /\ lsProc'[p].ids = lsProc[p].ids /\ lsProc'[p].doc = lsProc[p].doc
        /\ DOMAIN lsProc'[p] = {"at", "op", "ids", "doc"}
    BY <1>0, <2>1 DEF LsTyped, LsOperation, LsMoves
  <2>3. \A q \in Procs : LsOperation(lsProc'[q])
    BY <1>0, <2>2 DEF LsTyped, LsOperation, LsMoves
  <2>4. LsTyped'
    <3>1. \A q \in Procs : LsOperation(lsProc[q])'
      BY <2>1, <2>3 DEF LsOperation, Document, Vetted
    <3>2. Document(<<>>) /\ Vetted(<<>>, {})'
      BY NoDocument DEF Vetted
    <3> QED
      BY <1>0, <2>1, <2>2, <3>1, <3>2 DEF LsTyped, LsMoves
  <2>5. ASSUME ~lsDisturbed'
        PROVE  /\ \A q, r \in Procs : LsBusy(q)' /\ LsBusy(r)' => q = r
               /\ \A q \in Procs : lsProc'[q].at \in {"loaded", "open"} =>
                    Keeps(lsProc[q].doc, lsProc[q].op, lsProc[q].ids)'
    <3>1. \A q \in Procs \ {p} : lsProc[q].at = "idle" /\ lsProc'[q] = lsProc[q]
      BY <2>1, <2>2, <2>5, LsAlone DEF LsMoves
    <3>2. Keeps(lsProc[p].doc, lsProc[p].op, lsProc[p].ids)
      BY <2>1, <2>5 DEF LsInv, LsKept
    <3>3. Keeps(lsProc[p].doc, lsProc[p].op, lsProc[p].ids)'
      BY <2>1, <2>2, <3>2 DEF Keeps, After
    <3>4. \A q, r \in Procs : LsBusy(q)' /\ LsBusy(r)' => q = r
      BY <3>1 DEF LsBusy
    <3> QED
      BY <3>1, <3>3, <3>4
  <2>6. lsProc'[p].at = "open"
    BY <2>2
  <2>7. lsDisturbed' => wanted' = LS!Undecided'
    BY <2>1 DEF LsInv, LsKept, LS!Undecided
  <2> QED
    BY <2>4, <2>5, <2>6, <2>7 DEF LsInv, LsKept
<1>17. ASSUME NEW p \in Procs, LS!Write(p) PROVE LsInv'
  <2>1. /\ lsProc[p].at = "open" /\ lessons' = LS!Text(lsProc[p].doc) /\ lsProc' = [lsProc EXCEPT ![p] = LS!Idle]
        /\ LS!Returns(p) /\ UNCHANGED <<lsMade, lsDisturbed>>
    BY <1>17 DEF LS!Write
  <2>2. LsMoves(p) /\ lsProc'[p] = LS!Idle /\ LsOperation(lsProc[p])' /\ lsProc'[p].at = "idle"
    BY <1>14, <2>1
  <2>3. LsOperation(lsProc[p]) /\ wanted \in [LS!Ids -> {"pending", "approved", "deprecated"}]
    BY <1>0 DEF LsTyped
  <2>4. /\ wanted' \in [LS!Ids -> {"pending", "approved", "deprecated"}]
        /\ ~lsDisturbed => \A i \in LS!Ids : wanted'[i] = After(lsProc[p].op, lsProc[p].ids, i)
        /\ lsDisturbed => wanted' = wanted
    BY <2>1, <2>3 DEF LS!Returns, After
  <2>5. /\ vetted \subseteq vetted' /\ vetted' \subseteq LS!Ids
        /\ lsProc[p].op = "approve" => lsProc[p].ids \subseteq vetted'
    BY <1>0, <2>1, <2>3 DEF LS!Returns, LsTyped, LsOperation
  <2>10. PICK doc : doc = lsProc[p].doc
    OBVIOUS
  <2>6. Document(doc) /\ Vetted(doc, {})'
    <3>1. Document(doc) /\ Vetted(doc, IF lsProc[p].op = "approve" THEN lsProc[p].ids ELSE {})
      BY <2>3, <2>10 DEF LsOperation
    <3>2. \A k \in DOMAIN doc : doc[k].status = "approved" => doc[k].id \in vetted'
      BY <2>5, <3>1 DEF Vetted
    <3> QED
      BY <3>1, <3>2 DEF Vetted
  <2>7. LsTyped'
    <3>1. \A q \in Procs : LsOperation(lsProc[q])'
      BY <1>0, <2>2, <2>5, LsOthers
    <3>2. injected' \subseteq vetted'
      <4>1. injected \subseteq vetted /\ (lsProc[p].op = "render" => lsProc[p].ids \subseteq vetted)
        BY <1>0, <2>3 DEF LsTyped, LsOperation
      <4>2. injected' = injected \/ (lsProc[p].op = "render" /\ injected' = injected \cup lsProc[p].ids)
        BY <2>1 DEF LS!Returns
      <4> QED
        BY <2>5, <4>1, <4>2
    <3>3. \E d : lessons' = LS!Text(d) /\ Document(d) /\ Vetted(d, {})'
      BY <2>1, <2>6, <2>10
    <3> QED
      BY <1>0, <2>1, <2>2, <2>4, <2>5, <3>1, <3>2, <3>3 DEF LsTyped, LsMoves, Document, Vetted
  <2>8. ASSUME ~lsDisturbed'
        PROVE  /\ \A q \in Procs : lsProc'[q].at = "idle"
               /\ LS!Readable' /\ Keeps(lessons.doc, "list", {})'
    <3>1. \A q \in Procs : lsProc'[q].at = "idle"
      BY <2>1, <2>2, <2>8, LsAlone DEF LsMoves
    <3>2. lessons'.doc = lsProc[p].doc /\ LS!Readable'
      BY <2>1 DEF LS!Text, LS!Readable, LS!Garbled
    <3>3. Keeps(lsProc[p].doc, lsProc[p].op, lsProc[p].ids)
      BY <2>1, <2>8 DEF LsInv, LsKept
    <3>4. Keeps(lessons.doc, "list", {})'
      BY <2>1, <2>4, <2>8, <3>2, <3>3 DEF Keeps, After
    <3> QED
      BY <3>1, <3>2, <3>4
  <2>9. LsKept'
    <3>1. lsDisturbed' => wanted' = LS!Undecided'
      BY <2>1, <2>4 DEF LsInv, LsKept, LS!Undecided
    <3> QED
      BY <2>8, <3>1 DEF LsKept, LsBusy
  <2> QED
    BY <2>7, <2>9 DEF LsInv
<1>18. ASSUME NEW p \in Procs, LS!WriteIsCut(p) PROVE LsInv'
  <2>1. /\ lessons' \in {lessons, LS!Garbled} /\ lsProc' = [lsProc EXCEPT ![p] = LS!Idle] /\ lsDisturbed'
        /\ wanted' = LS!Undecided /\ UNCHANGED <<lsMade, vetted, injected>>
    BY <1>18 DEF LS!WriteIsCut
  <2>2. LsMoves(p) /\ LsOperation(lsProc[p])'
    BY <1>14, <2>1
  <2>3. \A q \in Procs : LsOperation(lsProc[q])'
    BY <1>0, <2>1, <2>2, LsOthers
  <2>4. LsTyped'
    BY <1>0, <2>1, <2>2, <2>3 DEF LsTyped, LsMoves, LS!Undecided, Document, Vetted
  <2> QED
    BY <2>1, <2>4 DEF LsInv, LsKept, LS!Undecided
<1>19. CASE UNCHANGED lsVars
  BY <1>1, <1>19 DEF lsVars
<1> QED
  BY <1>2, <1>7, <1>8, <1>10, <1>11, <1>12, <1>13, <1>15, <1>16, <1>17, <1>18,
     <1>19 DEF LS!Next

LEMMA LsIsHonest == LsInv => LS!InjectedWasApproved /\ LS!DecisionsAreKept
<1> SUFFICES ASSUME LsInv PROVE LS!InjectedWasApproved /\ LS!DecisionsAreKept
  OBVIOUS
<1>1. LS!InjectedWasApproved
  BY DEF LsInv, LsTyped, LS!InjectedWasApproved
<1>2. ASSUME LS!Busy = {}, NEW i \in LS!Ids, LS!Decided(i)
      PROVE  \E k \in DOMAIN lessons.doc : lessons.doc[k].id = i /\ lessons.doc[k].status = wanted[i]
  <2>1. \A p \in Procs : lsProc[p].at # "open"
    BY <1>2 DEF LS!Busy
  <2>2. ~lsDisturbed
    BY <1>2 DEF LsInv, LsKept, LS!Decided, LS!Undecided
  <2> QED
    BY <1>2, <2>1, <2>2 DEF LsInv, LsKept, Keeps, After, LS!Decided
<1> QED
  BY <1>1, <1>2 DEF LS!DecisionsAreKept

-----------------------------------------------------------------------------
(* The stores of a user                                                    *)

\* A document of lessons that tells of no promotion nobody asked for.
Backs(doc) == US!IsMemory(doc) /\ \A t \in DOMAIN doc : doc[t] \subseteq promoted[t]

UsOperation(o) ==
  /\ DOMAIN o = {"at", "op", "project", "doc"}
  /\ o.at \in {"idle", "loaded", "open"} /\ o.project \subseteq Projects
  /\ o.op \in US!Statuses \cup {"none", "profile"} \/ (o.op \in Topics /\ Backs(o.doc))
  /\ o.op \in US!Statuses \ {"proposed"} => blessed
  /\ o.at # "idle" => o.op # "none"

UsBusy(p) == usProc[p].at # "idle"
Promotes(p) == usProc[p].op \in Topics

UsTyped ==
  /\ promoted \in [Topics -> SUBSET Projects] /\ returned \in [Topics -> SUBSET Projects]
  /\ memory = US!Garbled \/ Backs(memory)
  /\ skill \in US!Statuses \ {"proposed"} => blessed
  /\ DOMAIN usProc = Procs /\ \A p \in Procs : UsOperation(usProc[p])

\* A document that tells of what was returned.
Recalls(doc) == \A t \in Topics : returned[t] \subseteq US!Of(doc, t)

\* What returns when p does.
Adds(p, t) == IF t = usProc[p].op THEN usProc[p].project ELSE {}

UsKept ==
  IF usDisturbed THEN returned = US!Unasked
  ELSE
    /\ \A p, q \in Procs : UsBusy(p) /\ UsBusy(q) => p = q
    /\ (\A p \in Procs : Promotes(p) => usProc[p].at # "open") => Recalls(US!Readable(memory))
    /\ \A p \in Procs : UsBusy(p) /\ Promotes(p) =>
         Recalls(usProc[p].doc) /\ \A t \in Topics : Adds(p, t) \subseteq US!Of(usProc[p].doc, t)

UsInv == UsTyped /\ UsKept

UsMoves(p) == DOMAIN usProc' = Procs /\ \A q \in Procs \ {p} : usProc'[q] = usProc[q]
UsGrows ==
  /\ blessed => blessed'
  /\ promoted' \in [Topics -> SUBSET Projects] /\ \A t \in Topics : promoted[t] \subseteq promoted'[t]

LEMMA UsWords ==
  /\ "none" \notin Topics /\ US!Statuses \cap Topics = {} /\ "profile" \notin Topics /\ "garbled" \notin Topics
  /\ MinProjects \in Nat /\ IsFiniteSet(Projects)
<1>1. IsFiniteSet(Projects)
  BY UserAssumption DEF US!UserStoresAssumption, US!IsFiniteSet, IsFiniteSet
<1> QED
  BY <1>1, UserAssumption DEF US!UserStoresAssumption, US!Words

\* The sizes the component speaks of are those of the library's theorems.
LEMMA UsSizes == ASSUME NEW S PROVE US!Cardinality(S) = Cardinality(S)
BY Zenon DEF US!Cardinality, Cardinality

LEMMA UsNoDocument == Backs(<<>>) /\ Backs(<<>>)' /\ ~US!IsMemory(US!Garbled)
<1>1. DOMAIN <<>> = {} /\ DOMAIN US!Garbled = {"garbled"}
  BY DEF US!Garbled
<1> QED
  BY <1>1, UsWords DEF Backs, US!IsMemory

LEMMA UsIdle == UsOperation(US!Idle) /\ UsOperation(US!Idle)' /\ US!Idle.at = "idle" /\ US!Idle.op = "none"
<1>1. /\ DOMAIN US!Idle = {"at", "op", "project", "doc"} /\ US!Idle.at = "idle"
      /\ US!Idle.op = "none" /\ US!Idle.project = {} /\ US!Idle.doc = <<>>
  BY DEF US!Idle
<1> QED
  BY <1>1 DEF UsOperation, US!Statuses

LEMMA BacksStays ==
  ASSUME UsGrows, NEW doc, Backs(doc)
  PROVE  Backs(doc)'
BY DEF UsGrows, Backs, US!IsMemory

LEMMA UsOthers ==
  ASSUME UsTyped, UsGrows, NEW p \in Procs, UsMoves(p), UsOperation(usProc[p])'
  PROVE  \A q \in Procs : UsOperation(usProc[q])'
<1> SUFFICES ASSUME NEW q \in Procs, q # p PROVE UsOperation(usProc[q])'
  OBVIOUS
<1>1. usProc'[q] = usProc[q] /\ UsOperation(usProc[q])
  BY DEF UsTyped, UsMoves
<1>2. PICK o : o = usProc[q]
  OBVIOUS
<1>3. o.op \in Topics /\ Backs(o.doc) => Backs(o.doc)'
  BY BacksStays
<1> QED
  BY <1>1, <1>2, <1>3 DEF UsOperation, UsGrows, Backs

LEMMA UsAlone ==
  ASSUME UsInv, ~usDisturbed, NEW p \in Procs, usProc[p].at # "idle"
  PROVE  \A q \in Procs \ {p} : usProc[q].at = "idle"
BY DEF UsInv, UsKept, UsBusy

\* What a document with one more user of a text tells.
LEMMA WithTells ==
  ASSUME NEW doc, US!IsMemory(doc), NEW text \in Topics, NEW project \in Projects
  PROVE  /\ US!IsMemory(US!With(doc, text, project))
         /\ \A t : US!Of(US!With(doc, text, project), t) =
                     US!Of(doc, t) \cup (IF t = text THEN {project} ELSE {})
<1> DEFINE new == US!With(doc, text, project)
<1>1. /\ DOMAIN new = DOMAIN doc \cup {text}
      /\ \A k \in DOMAIN new : new[k] = US!Of(doc, k) \cup (IF k = text THEN {project} ELSE {})
  BY DEF US!With
<1> HIDE DEF new
<1>2. US!IsMemory(new)
  BY <1>1 DEF US!IsMemory, US!Of
<1>3. \A t : US!Of(new, t) = US!Of(doc, t) \cup (IF t = text THEN {project} ELSE {})
  BY <1>1 DEF US!Of
<1> QED
  BY <1>2, <1>3 DEF new

LEMMA UsFirst == US!Init => UsInv
<1> SUFFICES ASSUME US!Init PROVE UsInv
  OBVIOUS
<1>1. UsTyped
  BY UsIdle, UsNoDocument DEF US!Init, US!Unasked, UsTyped, US!Statuses
<1>2. UsKept
  <2>1. \A doc : Recalls(doc)
    BY DEF US!Init, US!Unasked, Recalls
  <2> QED
    BY <2>1, UsIdle DEF US!Init, UsKept, UsBusy
<1> QED
  BY <1>1, <1>2 DEF UsInv

\* An operation reads a file and has its document.
LEMMA UsLoads ==
  ASSUME UsInv, UsGrows, NEW p \in Procs, NEW op, NEW project, NEW doc, US!Load(p, op, project, doc),
         UNCHANGED <<memory, skill>>, project \subseteq Projects,
         \/ op = "profile"
         \/ op \in US!Statuses /\ (op # "proposed" => blessed')
         \/ op \in Topics /\ Backs(doc)',
         op \in Topics => \A t \in Topics :
           US!Of(doc, t) = US!Of(US!Readable(memory), t) \cup (IF t = op THEN project ELSE {})
  PROVE  UsInv'
<1> DEFINE o == [at |-> "loaded", op |-> op, project |-> project, doc |-> doc]
<1>1. /\ usProc[p].at = "idle" /\ usProc' = [usProc EXCEPT ![p] = o]
      /\ usDisturbed' = (US!Busy # {}) /\ returned' = IF usDisturbed' THEN US!Unasked ELSE returned
  BY DEF US!Load
<1>2. /\ o.at = "loaded" /\ o.op = op /\ o.project = project /\ o.doc = doc
      /\ DOMAIN o = {"at", "op", "project", "doc"}
  OBVIOUS
<1> HIDE DEF o
<1>3. usProc'[p] = o /\ UsMoves(p)
  BY <1>1 DEF UsInv, UsTyped, UsMoves
<1>4. UsOperation(usProc[p])'
  BY <1>2, <1>3, UsWords DEF UsOperation, Backs, US!Statuses
<1>5. UsTyped'
  <2>1. \A q \in Procs : UsOperation(usProc[q])'
    BY <1>3, <1>4, UsOthers DEF UsInv
  <2>2. memory' = US!Garbled \/ Backs(memory)'
    <3>1. memory = US!Garbled \/ Backs(memory)
      BY DEF UsInv, UsTyped
    <3> QED
      BY <3>1 DEF Backs, US!IsMemory, UsGrows
  <2>3. returned' \in [Topics -> SUBSET Projects]
    BY <1>1 DEF UsInv, UsTyped, US!Unasked
  <2> QED
    BY <1>3, <2>1, <2>2, <2>3 DEF UsInv, UsTyped, UsMoves, UsGrows
<1>6. ASSUME ~usDisturbed'
      PROVE  /\ \A q \in Procs : usProc[q].at = "idle"
             /\ returned' = returned /\ Recalls(US!Readable(memory))
  <2>1. (\A q \in Procs : usProc[q].at = "idle") /\ returned' = returned
    BY <1>1, <1>6 DEF US!Busy
  <2>2. CASE usDisturbed
    BY <2>1, <2>2 DEF UsInv, UsKept, US!Unasked, Recalls
  <2>3. CASE ~usDisturbed
    BY <2>1, <2>3 DEF UsInv, UsKept
  <2> QED
    BY <2>1, <2>2, <2>3
<1>7. UsKept'
  <2>1. ASSUME ~usDisturbed'
        PROVE  /\ \A q, r \in Procs : UsBusy(q)' /\ UsBusy(r)' => q = r
               /\ Recalls(US!Readable(memory))'
               /\ \A q \in Procs : UsBusy(q)' /\ Promotes(q)' =>
                    /\ Recalls(usProc[q].doc)'
                    /\ \A t \in Topics : Adds(q, t)' \subseteq US!Of(usProc[q].doc, t)'
    <3>1. \A q, r \in Procs : UsBusy(q)' /\ UsBusy(r)' => q = r
      BY <1>3, <1>6, <2>1 DEF UsBusy, UsMoves
    <3>2. Recalls(US!Readable(memory))'
      BY <1>6, <2>1 DEF Recalls, US!Readable, US!Of
    <3>3. ASSUME NEW q \in Procs, UsBusy(q)', Promotes(q)', NEW t \in Topics
          PROVE  returned'[t] \cup Adds(q, t)' \subseteq US!Of(usProc[q].doc, t)'
      <4>1. q = p
        BY <1>3, <1>6, <2>1, <3>3 DEF UsBusy, UsMoves
      <4>2. op \in Topics
        BY <1>2, <1>3, <3>3, <4>1 DEF Promotes
      <4>3. US!Of(doc, t) = US!Of(US!Readable(memory), t) \cup (IF t = op THEN project ELSE {})
        BY <4>2
      <4>4. returned'[t] \subseteq US!Of(US!Readable(memory), t)
        BY <1>6, <2>1 DEF Recalls
      <4> QED
        BY <1>2, <1>3, <4>1, <4>3, <4>4 DEF US!Of, Adds
    <3> QED
      BY <3>1, <3>2, <3>3 DEF Recalls
  <2>2. usDisturbed' => returned' = US!Unasked'
    BY <1>1 DEF US!Unasked
  <2> QED
    BY <2>1, <2>2 DEF UsKept
<1> QED
  BY <1>5, <1>7 DEF UsInv

LEMMA UsNext == UsInv /\ [US!Next]_usVars => UsInv'
<1> SUFFICES ASSUME UsInv, [US!Next]_usVars PROVE UsInv'
  OBVIOUS
<1>0. UsTyped /\ promoted \in [Topics -> SUBSET Projects]
  BY DEF UsInv, UsTyped
<1>1. UNCHANGED <<promoted, blessed>> => UsGrows
  BY <1>0 DEF UsGrows
<1>2. ASSUME NEW p \in Procs, NEW project \in Projects, NEW text \in Topics, US!LoadToPromote(p, project, text)
      PROVE  UsInv'
  <2>1. /\ US!Load(p, text, {project}, US!With(US!Readable(memory), text, project))
        /\ promoted' = [promoted EXCEPT ![text] = promoted[text] \cup {project}]
        /\ UNCHANGED <<memory, skill, blessed>>
    BY <1>2 DEF US!LoadToPromote, US!Recorded
  <2>2. UsGrows /\ project \in promoted'[text]
    BY <1>0, <2>1 DEF UsGrows
  <2>3. Backs(US!Readable(memory)) /\ US!IsMemory(US!Readable(memory))
    BY <1>0, UsNoDocument DEF UsTyped, US!Readable, Backs
  <2>4. PICK new : new = US!With(US!Readable(memory), text, project)
    OBVIOUS
  <2>5. /\ US!IsMemory(new)
        /\ \A t : US!Of(new, t) = US!Of(US!Readable(memory), t) \cup (IF t = text THEN {project} ELSE {})
    BY <2>3, <2>4, WithTells
  <2>6. Backs(new)'
    <3>1. \A t \in Topics : US!Of(US!Readable(memory), t) \subseteq promoted[t]
      BY <2>3 DEF Backs, US!Of
    <3>2. \A t \in DOMAIN new : t \in Topics /\ new[t] = US!Of(new, t)
      BY <2>5 DEF US!IsMemory, US!Of
    <3>3. \A t \in DOMAIN new : new[t] \subseteq promoted'[t]
      BY <2>2, <2>5, <3>1, <3>2 DEF UsGrows
    <3> QED
      BY <2>5, <3>3 DEF Backs, US!IsMemory
  <2> QED
    BY <2>1, <2>2, <2>4, <2>5, <2>6, UsLoads
<1>3. ASSUME NEW p \in Procs, NEW project \in Projects, NEW pattern \in Patterns, US!LoadToProfile(p, project, pattern)
      PROVE  UsInv'
  BY <1>1, <1>3, UsLoads, UsWords DEF US!LoadToProfile
<1>4. ASSUME NEW p \in Procs, US!LoadToPropose(p) \/ US!LoadToApprove(p) \/ US!LoadToInstall(p)
      PROVE  UsInv'
  <2>1. /\ UNCHANGED <<memory, skill, promoted>> /\ (blessed => blessed')
        /\ \E op \in US!Statuses : op \notin Topics /\ US!Load(p, op, {}, <<>>) /\ (op # "proposed" => blessed')
    BY <1>0, <1>4, UsWords
    DEF US!LoadToPropose, US!LoadToApprove, US!LoadToInstall, US!Installable, US!Statuses, UsTyped
  <2>2. UsGrows
    BY <1>0, <2>1 DEF UsGrows
  <2> QED
    BY <2>1, <2>2, UsLoads
<1>5. ASSUME NEW p \in Procs, usProc' = [usProc EXCEPT ![p] = US!Idle]
      PROVE  UsMoves(p) /\ usProc'[p] = US!Idle /\ usProc'[p].at = "idle" /\ UsOperation(usProc[p])'
  <2>1. UsMoves(p) /\ usProc'[p] = US!Idle
    BY <1>0, <1>5 DEF UsTyped, UsMoves
  <2> QED
    BY <2>1, UsIdle DEF UsOperation, Backs
\* The file an operation rewrites, and those it does not.
<1>6. ASSUME NEW p \in Procs, usProc[p].at # "idle"
      PROVE  \/ usProc[p].op \in US!Statuses /\ (usProc[p].op # "proposed" => blessed) /\ ~Promotes(p)
             \/ usProc[p].op = "profile" /\ usProc[p].op \notin US!Statuses /\ ~Promotes(p)
             \/ usProc[p].op \notin US!Statuses \cup {"profile"} /\ Promotes(p) /\ Backs(usProc[p].doc)
  BY <1>0, <1>6, UsWords DEF UsTyped, UsOperation, Promotes, US!Statuses
<1>7. ASSUME NEW p \in Procs, NEW doc, NEW text, US!Rewrites(p, doc, text)
      PROVE  /\ usProc[p].op \in US!Statuses => memory' = memory /\ skill' = text
             /\ usProc[p].op = "profile" => memory' = memory /\ skill' = skill
             /\ usProc[p].op \notin US!Statuses \cup {"profile"} => memory' = doc /\ skill' = skill
  BY <1>7 DEF US!Rewrites, US!Statuses
<1>9. ASSUME UNCHANGED promoted, NEW doc, Backs(doc) PROVE Backs(doc)'
  BY <1>9 DEF Backs, US!IsMemory
<1>10. ASSUME NEW p \in Procs, US!Open(p) PROVE UsInv'
  <2>1. /\ usProc[p].at = "loaded" /\ US!Rewrites(p, <<>>, "empty") /\ usProc' = [usProc EXCEPT ![p].at = "open"]
        /\ UNCHANGED <<promoted, returned, blessed, usDisturbed>>
    BY <1>10 DEF US!Open
  <2>2. /\ UsMoves(p) /\ usProc'[p].at = "open" /\ usProc'[p].op = usProc[p].op
        /\ usProc'[p].project = usProc[p].project /\ usProc'[p].doc = usProc[p].doc
        /\ DOMAIN usProc'[p] = {"at", "op", "project", "doc"}
    BY <1>0, <2>1 DEF UsTyped, UsOperation, UsMoves
  <2>3. UsOperation(usProc[p])'
    BY <1>0, <2>1, <2>2 DEF UsTyped, UsOperation, Backs, US!IsMemory
  <2>4. memory' = memory \/ (memory' = <<>> /\ Promotes(p))
    BY <1>6, <1>7, <2>1
  <2>5. skill' = skill \/ skill' = "empty"
    BY <1>6, <1>7, <2>1
  <2>6. UsTyped'
    <3>1. \A q \in Procs : UsOperation(usProc[q])'
      BY <1>0, <1>1, <2>1, <2>2, <2>3, UsOthers
    <3>2. memory' = US!Garbled \/ Backs(memory)'
      BY <1>0, <2>1, <2>4, UsNoDocument DEF UsTyped, Backs, US!IsMemory
    <3> QED
      BY <1>0, <2>1, <2>2, <2>5, <3>1, <3>2 DEF UsTyped, UsMoves, US!Statuses
  <2>7. ASSUME ~usDisturbed'
        PROVE  /\ \A q, r \in Procs : UsBusy(q)' /\ UsBusy(r)' => q = r
               /\ (\A q \in Procs : Promotes(q)' => usProc'[q].at # "open") => Recalls(US!Readable(memory))'
               /\ \A q \in Procs : UsBusy(q)' /\ Promotes(q)' =>
                    /\ Recalls(usProc[q].doc)'
                    /\ \A t \in Topics : Adds(q, t)' \subseteq US!Of(usProc[q].doc, t)'
    <3>1. \A q \in Procs \ {p} : usProc[q].at = "idle" /\ usProc'[q] = usProc[q]
      BY <2>1, <2>2, <2>7, UsAlone DEF UsMoves
    <3>2. \A q, r \in Procs : UsBusy(q)' /\ UsBusy(r)' => q = r
      BY <3>1 DEF UsBusy
    <3>3. ASSUME \A q \in Procs : Promotes(q)' => usProc'[q].at # "open"
          PROVE  Recalls(US!Readable(memory))'
      <4>1. ~Promotes(p) /\ memory' = memory
        BY <2>2, <2>4, <3>3 DEF Promotes
      <4>2. \A q \in Procs : Promotes(q) => usProc[q].at # "open"
        BY <3>1, <4>1
      <4>3. Recalls(US!Readable(memory))
        BY <2>1, <2>7, <4>2 DEF UsInv, UsKept
      <4> QED
        BY <2>1, <4>1, <4>3 DEF Recalls, US!Readable, US!Of
    <3>4. ASSUME NEW q \in Procs, UsBusy(q)', Promotes(q)', NEW t \in Topics
          PROVE  returned'[t] \cup Adds(q, t)' \subseteq US!Of(usProc[q].doc, t)'
      <4>1. q = p /\ Promotes(p) /\ UsBusy(p)
        BY <2>1, <2>2, <3>1, <3>4 DEF UsBusy, Promotes
      <4>2. returned[t] \cup Adds(p, t) \subseteq US!Of(usProc[p].doc, t)
        BY <2>1, <2>7, <4>1 DEF UsInv, UsKept, Recalls
      <4> QED
        BY <2>1, <2>2, <4>1, <4>2 DEF US!Of, Adds
    <3> QED
      BY <3>2, <3>3, <3>4 DEF Recalls
  <2>8. usDisturbed' => returned' = US!Unasked'
    BY <2>1 DEF UsInv, UsKept, US!Unasked
  <2> QED
    BY <2>6, <2>7, <2>8 DEF UsInv, UsKept
<1>11. ASSUME NEW p \in Procs, US!Write(p) PROVE UsInv'
  <2>1. /\ usProc[p].at = "open" /\ US!Rewrites(p, usProc[p].doc, usProc[p].op)
        /\ usProc' = [usProc EXCEPT ![p] = US!Idle] /\ UNCHANGED <<promoted, blessed, usDisturbed>>
        /\ returned' = IF usDisturbed \/ usProc[p].op \notin Topics THEN returned
                       ELSE [returned EXCEPT ![usProc[p].op] = returned[usProc[p].op] \cup usProc[p].project]
    BY <1>11 DEF US!Write
  <2>2. UsMoves(p) /\ usProc'[p].at = "idle" /\ UsOperation(usProc[p])'
    BY <1>5, <2>1
  <2>3. /\ returned \in [Topics -> SUBSET Projects] /\ usProc[p].project \subseteq Projects
    BY <1>0 DEF UsTyped, UsOperation
  <2>4. /\ returned' \in [Topics -> SUBSET Projects]
        /\ usDisturbed => returned' = returned
        /\ \A t \in Topics : returned'[t] \subseteq returned[t] \cup (IF Promotes(p) THEN Adds(p, t) ELSE {})
    BY <2>1, <2>3 DEF Promotes, Adds
  <2>5. PICK doc : doc = usProc[p].doc
    OBVIOUS
  <2>6. \/ memory' = memory /\ ~Promotes(p)
        \/ memory' = doc /\ Promotes(p) /\ Backs(doc)
    BY <1>6, <1>7, <2>1, <2>5
  <2>7. skill' = skill \/ (skill' = usProc[p].op /\ (usProc[p].op # "proposed" => blessed))
    BY <1>6, <1>7, <2>1
  <2>8. UsTyped'
    <3>1. \A q \in Procs : UsOperation(usProc[q])'
      BY <1>0, <1>1, <2>1, <2>2, UsOthers
    <3>2. memory' = US!Garbled \/ Backs(memory)'
      BY <1>0, <2>1, <2>6 DEF UsTyped, Backs, US!IsMemory
    <3>3. skill' \in US!Statuses \ {"proposed"} => blessed'
      BY <1>0, <2>1, <2>7 DEF UsTyped
    <3> QED
      BY <1>0, <2>1, <2>2, <2>4, <3>1, <3>2, <3>3 DEF UsTyped, UsMoves
  <2>9. ASSUME ~usDisturbed'
        PROVE  /\ \A q \in Procs : usProc'[q].at = "idle"
               /\ Recalls(US!Readable(memory))'
    <3>1. \A q \in Procs \ {p} : usProc[q].at = "idle" /\ usProc'[q] = usProc[q]
      BY <2>1, <2>2, <2>9, UsAlone DEF UsMoves
    <3>2. \A q \in Procs : usProc'[q].at = "idle"
      BY <2>2, <3>1
    <3>3. CASE memory' = memory /\ ~Promotes(p)
      <4>1. \A q \in Procs : Promotes(q) => usProc[q].at # "open"
        BY <3>1, <3>3
      <4>2. Recalls(US!Readable(memory))
        BY <2>1, <2>9, <4>1 DEF UsInv, UsKept
      <4>3. \A t \in Topics : returned'[t] \subseteq US!Of(US!Readable(memory), t)
        BY <2>4, <3>3, <4>2 DEF Recalls
      <4> QED
        BY <3>2, <3>3, <4>3 DEF Recalls, US!Readable, US!Of
    <3>4. CASE memory' = doc /\ Promotes(p) /\ Backs(doc)
      <4>1. \A t \in Topics : returned[t] \cup Adds(p, t) \subseteq US!Of(doc, t)
        BY <2>1, <2>5, <2>9, <3>4 DEF UsInv, UsKept, UsBusy, Recalls
      <4>2. US!Readable(memory)' = doc
        BY <3>4, UsNoDocument DEF Backs, US!Readable, US!Garbled
      <4>3. \A t \in Topics : returned'[t] \subseteq US!Of(doc, t)
        BY <2>4, <3>4, <4>1
      <4> QED
        BY <3>2, <4>2, <4>3 DEF Recalls, US!Of
    <3> QED
      BY <2>6, <3>3, <3>4
  <2>10. usDisturbed' => returned' = US!Unasked'
    BY <2>1, <2>4 DEF UsInv, UsKept, US!Unasked
  <2> QED
    BY <2>8, <2>9, <2>10 DEF UsInv, UsKept, UsBusy
<1>12. ASSUME NEW p \in Procs, US!WriteIsCut(p) PROVE UsInv'
  <2>1. /\ usProc[p].at = "open" /\ usDisturbed' /\ usProc' = [usProc EXCEPT ![p] = US!Idle]
        /\ UNCHANGED <<memory, profiles, skill>> \/ US!Rewrites(p, US!Garbled, "empty")
        /\ returned' = US!Unasked /\ UNCHANGED <<promoted, blessed>>
    BY <1>12 DEF US!WriteIsCut
  <2>2. UsMoves(p) /\ usProc'[p].at = "idle" /\ UsOperation(usProc[p])'
    BY <1>5, <2>1
  <2>3. memory' \in {memory, US!Garbled} /\ skill' \in {skill, "empty"}
    BY <1>6, <1>7, <2>1
  <2>4. UsTyped'
    <3>1. \A q \in Procs : UsOperation(usProc[q])'
      BY <1>0, <1>1, <2>1, <2>2, UsOthers
    <3>2. memory' = US!Garbled \/ Backs(memory)'
      BY <1>0, <2>1, <2>3 DEF UsTyped, Backs, US!IsMemory
    <3> QED
      BY <1>0, <2>1, <2>2, <2>3, <3>1, <3>2 DEF UsTyped, UsMoves, US!Statuses, US!Unasked
  <2> QED
    BY <2>1, <2>4 DEF UsInv, UsKept, US!Unasked
<1>13. CASE UNCHANGED usVars
  <2>1. UsTyped'
    BY <1>0, <1>13 DEF usVars, UsTyped, UsOperation, Backs, US!IsMemory
  <2>2. UsKept'
    BY <1>13 DEF usVars, UsInv, UsKept, UsBusy, Promotes, US!Of, US!Readable, US!Unasked, Recalls, Adds
  <2> QED
    BY <2>1, <2>2 DEF UsInv
<1> QED
  BY <1>2, <1>3, <1>4, <1>10, <1>11, <1>12, <1>13 DEF US!Next

LEMMA UsIsKept == UsInv => US!NothingIsInvented /\ US!PromotionsAreKept
<1> SUFFICES ASSUME UsInv PROVE US!NothingIsInvented /\ US!PromotionsAreKept
  OBVIOUS
<1>1. ASSUME NEW t \in US!Suggested PROVE US!Cardinality(promoted[t]) >= MinProjects
  <2>1. /\ memory # US!Garbled /\ t \in DOMAIN memory /\ US!Cardinality(memory[t]) >= MinProjects
    BY <1>1 DEF US!Suggested
  <2>2. t \in Topics /\ memory[t] \subseteq promoted[t] /\ promoted[t] \subseteq Projects
    BY <2>1 DEF UsInv, UsTyped, Backs, US!IsMemory
  <2>3. IsFiniteSet(promoted[t])
    BY <2>2, UsWords, FS_Subset
  <2>4. /\ Cardinality(memory[t]) <= Cardinality(promoted[t])
        /\ Cardinality(memory[t]) \in Nat /\ Cardinality(promoted[t]) \in Nat
    BY <2>2, <2>3, FS_Subset, FS_CardinalityType
  <2> QED
    BY <2>1, <2>4, UsWords, UsSizes
<1>2. skill = "installed" => blessed
  BY DEF UsInv, UsTyped, US!Statuses
<1>3. ASSUME US!Busy = {}, NEW t \in Topics, returned[t] # {}
      PROVE  t \in DOMAIN memory /\ returned[t] \subseteq memory[t]
  <2>1. \A p \in Procs : usProc[p].at # "open"
    BY <1>3 DEF US!Busy
  <2>2. ~usDisturbed
    BY <1>3 DEF UsInv, UsKept, US!Unasked
  <2>3. returned[t] \subseteq US!Of(US!Readable(memory), t)
    BY <2>1, <2>2 DEF UsInv, UsKept, Recalls
  <2> QED
    BY <1>3, <2>3 DEF US!Of, US!Readable
<1> QED
  BY <1>1, <1>2, <1>3 DEF US!NothingIsInvented, US!PromotionsAreKept

-----------------------------------------------------------------------------
(* Installed ACP agents                                                    *)

Files == ACP!Contents \cup {ACP!None}
AcpKinds == {"npx", "uvx", "binary"}
Unpacking == {"archived", "extracting", "unpacked"}
Fetching == {"downloading", "fetching", "writing"}

\* How far an operation is, and what it works on: an agent it installs, or a
\* document it writes.
AcpOperation(o) ==
  /\ DOMAIN o = {"at", "agent", "version", "kind", "doc"}
  /\ o.at \in ACP!Points
  /\ o.agent = {} \/ \E a \in Agents : o.agent = {a}
  /\ o.at = "idle" => o.agent = {} /\ o.kind = "none"
  /\ o.at \in Fetching \cup Unpacking \/ o.kind = "binary" =>
       o.agent # {} /\ o.version \in ACP!Versions /\ o.kind \in AcpKinds
  /\ o.at \in Fetching \cup {"archived", "extracting"} => o.kind = "binary"
  /\ o.version \in 0..MaxVersion /\ ACP!IsIndex(o.doc)
  /\ o.at \notin {"loaded", "open"} => DOMAIN o.doc = {}

AcpTyped ==
  /\ latest \in ACP!Versions /\ renames \in BOOLEAN /\ form \in [Agents -> ACP!Forms]
  /\ memo \in [Procs -> 0..MaxVersion]
  /\ archive \in [Agents -> [ACP!Versions -> Files]]
  /\ binary \in [Agents -> Files]
  /\ installed = ACP!Garbled \/ ACP!IsIndex(installed)
  /\ acpDisturbed \in BOOLEAN /\ settled \subseteq Agents /\ torn \subseteq Agents
  /\ DOMAIN acpProc = Procs /\ \A p \in Procs : AcpOperation(acpProc[p])

\* What documents call a binary is there, be they written or about to be.
Lists(doc) == {a \in DOMAIN doc : doc[a].kind = "binary"}
Stored(a, v) ==
  \/ form[a] = "without"
  \/ form[a] = "bare" /\ archive[a][ACP!Name(v)] # ACP!None
  \/ form[a] # "bare" /\ binary[a] # ACP!None
BackedDoc(doc) == \A a \in Lists(doc) : Stored(a, doc[a].version)

\* An install has what it works with.
OwnFiles(p) ==
  /\ acpProc[p].at \in {"writing"} \cup Unpacking /\ acpProc[p].kind = "binary" => ACP!Archive(p) # ACP!None
  /\ acpProc[p].at = "extracting" => form[ACP!Agent(p)] \notin {"bare", "without"} /\ binary[ACP!Agent(p)] # ACP!None
  /\ acpProc[p].at = "unpacked" /\ acpProc[p].kind = "binary" =>
       form[ACP!Agent(p)] \in {"bare", "without"} \/ binary[ACP!Agent(p)] # ACP!None

Backed == BackedDoc(ACP!Readable) /\ \A p \in Procs : BackedDoc(acpProc[p].doc) /\ OwnFiles(p)

\* Archives with names of their own are of their version; one that is not whole is
\* being written, unless it was cut or mixed.
WritesTo(p, a, v) ==
  acpProc[p].at = "writing" /\ acpProc[p].agent = {a} /\ ACP!Name(acpProc[p].version) = v

ArchivesKept ==
  /\ renames => \A a \in Agents, v \in ACP!Versions :
                  archive[a][v] # ACP!None => archive[a][v].version = v
  /\ \A a \in Agents \ torn, v \in ACP!Versions :
       archive[a][v] # ACP!None /\ ~archive[a][v].whole => \E p \in Procs : WritesTo(p, a, v)

\* A process installs an agent's binary.
Installs(p, a) == acpProc[p].agent = {a} /\ acpProc[p].kind = "binary"

IsUnpacked(a) == form[a] \notin {"bare", "without"}
Fresh(a, v) == binary[a].whole /\ (renames => binary[a].version = v)
FreshIn(doc, a) == a \in Lists(doc) => Fresh(a, doc[a].version)

\* The one install under way prepares the binary it will tell of.
Prepared(p) ==
  LET A == ACP!Agent(p) IN
  acpProc[p].kind = "binary" /\ IsUnpacked(A) =>
    /\ acpProc[p].at = "extracting" => binary[A].version = ACP!Archive(p).version
    /\ acpProc[p].at \in {"unpacked", "loaded", "open"} => Fresh(A, acpProc[p].version)
    /\ acpProc[p].at \in {"loaded", "open"} /\ A \in Lists(acpProc[p].doc) =>
         acpProc[p].doc[A].version = acpProc[p].version

Settled ==
  /\ acpDisturbed => settled = {}
  /\ ~acpDisturbed =>
       /\ \A p, q \in Procs : acpProc[p].at # "idle" /\ acpProc[q].at # "idle" => p = q
       /\ \A p \in Procs : Prepared(p)
  /\ \A a \in settled : IsUnpacked(a) =>
       /\ (\A p \in Procs : ~Installs(p, a)) => FreshIn(ACP!Readable, a)
       /\ \A p \in Procs : ~Installs(p, a) => FreshIn(acpProc[p].doc, a)

AcpInv == AcpTyped /\ Backed /\ ArchivesKept /\ Settled

LEMMA RecordIsAFile ==
  ASSUME NEW v \in ACP!Versions, NEW whole \in BOOLEAN
  PROVE  [version |-> v, whole |-> whole] \in ACP!Contents /\ [version |-> v, whole |-> whole] # ACP!None
<1>1. [version |-> v, whole |-> whole] \in ACP!Contents
  BY DEF ACP!Contents
<1>2. DOMAIN [version |-> v, whole |-> whole] = {"version", "whole"}
  OBVIOUS
<1>3. DOMAIN ACP!None = {"kind"}
  BY DEF ACP!None
<1> QED
  BY <1>1, <1>2, <1>3

LEMMA AgentIsOne ==
  ASSUME AcpTyped, NEW p \in Procs, acpProc[p].agent # {}
  PROVE  ACP!Agent(p) \in Agents /\ acpProc[p].agent = {ACP!Agent(p)}
<1>1. PICK a \in Agents : acpProc[p].agent = {a}
  BY DEF AcpTyped, AcpOperation
<1>2. \E x \in Agents : x \in acpProc[p].agent
  BY <1>1
<1>3. ACP!Agent(p) \in Agents /\ ACP!Agent(p) \in acpProc[p].agent
  BY <1>2 DEF ACP!Agent
<1> QED
  BY <1>1, <1>3

LEMMA NameIsAVersion ==
  ASSUME NEW v \in ACP!Versions
  PROVE  ACP!Name(v) \in ACP!Versions /\ (renames => ACP!Name(v) = v)
BY AcpAssumption DEF ACP!AcpRegistryAssumption, ACP!Versions, ACP!Name

LEMMA AcpConstants ==
  /\ MaxVersion \in Nat \ {0} /\ 1 \in ACP!Versions /\ 0 \in 0..MaxVersion
  /\ \A v \in ACP!Versions : v \in 0..MaxVersion
  /\ ACP!IsIndex(<<>>) /\ Lists(<<>>) = {} /\ AcpOperation(ACP!Idle)
<1>1. MaxVersion \in Nat \ {0} /\ ACP!IsIndex(<<>>) /\ Lists(<<>>) = {} /\ DOMAIN <<>> = {}
  BY AcpAssumption DEF ACP!AcpRegistryAssumption, ACP!IsIndex, Lists
<1> QED
  BY <1>1 DEF ACP!Versions, ACP!Idle, AcpOperation, ACP!Points, Fetching, Unpacking

\* What an install under way works on.
LEMMA AcpUnderWay ==
  ASSUME AcpTyped, NEW p \in Procs,
         acpProc[p].at \in Fetching \cup Unpacking \/ acpProc[p].kind = "binary"
  PROVE  /\ ACP!Agent(p) \in Agents /\ acpProc[p].agent = {ACP!Agent(p)}
         /\ acpProc[p].version \in ACP!Versions /\ acpProc[p].kind \in AcpKinds
         /\ ACP!Name(acpProc[p].version) \in ACP!Versions
         /\ renames => ACP!Name(acpProc[p].version) = acpProc[p].version
         /\ ACP!Archive(p) \in Files
<1>1. acpProc[p].version \in ACP!Versions /\ acpProc[p].kind \in AcpKinds /\ acpProc[p].agent # {}
  BY DEF AcpTyped, AcpOperation
<1>2. ACP!Agent(p) \in Agents /\ acpProc[p].agent = {ACP!Agent(p)}
  BY <1>1, AgentIsOne
<1>3. ACP!Name(acpProc[p].version) \in ACP!Versions
      /\ (renames => ACP!Name(acpProc[p].version) = acpProc[p].version)
  BY <1>1, NameIsAVersion
<1>4. ACP!Archive(p) \in Files
  BY <1>2, <1>3 DEF AcpTyped, ACP!Archive
<1> QED
  BY <1>1, <1>2, <1>3, <1>4

\* One process moves.
AcpMoves(p) ==
  /\ DOMAIN acpProc' = Procs /\ \A q \in Procs \ {p} : acpProc'[q] = acpProc[q]
  /\ DOMAIN acpProc'[p] = {"at", "agent", "version", "kind", "doc"}

AcpGoesOn(p) ==
  /\ acpProc'[p].agent = acpProc[p].agent /\ acpProc'[p].version = acpProc[p].version
  /\ acpProc'[p].kind = acpProc[p].kind

LEMMA AcpGoes ==
  ASSUME AcpTyped, NEW p \in Procs, NEW x, ACP!Goto(p, x)
  PROVE  AcpMoves(p) /\ AcpGoesOn(p) /\ acpProc'[p].at = x /\ acpProc'[p].doc = acpProc[p].doc
BY DEF AcpTyped, AcpOperation, ACP!Goto, AcpMoves, AcpGoesOn

LEMMA AcpLoads ==
  ASSUME AcpTyped, NEW p \in Procs, NEW doc,
         acpProc' = [acpProc EXCEPT ![p].at = "loaded", ![p].doc = doc]
  PROVE  AcpMoves(p) /\ AcpGoesOn(p) /\ acpProc'[p].at = "loaded" /\ acpProc'[p].doc = doc
BY DEF AcpTyped, AcpOperation, AcpMoves, AcpGoesOn

LEMMA AcpEnds ==
  ASSUME AcpTyped, NEW p \in Procs, acpProc' = [acpProc EXCEPT ![p] = ACP!Idle]
  PROVE  AcpMoves(p) /\ acpProc'[p] = ACP!Idle /\ acpProc'[p].at = "idle" /\ acpProc'[p].doc = <<>>
         /\ acpProc'[p].agent = {} /\ acpProc'[p].kind = "none"
<1>1. AcpMoves(p) /\ acpProc'[p] = ACP!Idle
  BY DEF AcpTyped, AcpOperation, AcpMoves, ACP!Idle
<1> QED
  BY <1>1 DEF ACP!Idle

LEMMA AcpStarts ==
  ASSUME AcpTyped, NEW p \in Procs, NEW a \in Agents, NEW preferred \in {"npx", "uvx", "binary", "none"},
         ACP!Install(p, a, preferred)
  PROVE  /\ AcpMoves(p) /\ acpProc[p].at = "idle" /\ acpProc'[p].agent = {a} /\ acpProc'[p].doc = <<>>
         /\ acpProc'[p].at = (IF acpProc'[p].kind = "binary" THEN "downloading" ELSE "unpacked")
         /\ acpProc'[p].kind \in AcpKinds /\ acpProc'[p].version \in ACP!Versions
<1> DEFINE kind == ACP!Resolve(a, preferred)
           o == [ACP!Idle EXCEPT !.at = IF kind = "binary" THEN "downloading" ELSE "unpacked",
                                 !.agent = {a}, !.version = memo[p], !.kind = kind]
<1>1. acpProc' = [acpProc EXCEPT ![p] = o] /\ acpProc[p].at = "idle" /\ memo[p] # 0 /\ kind \in AgentKinds[a]
  BY DEF ACP!Install
<1>2. memo[p] \in ACP!Versions /\ kind \in AcpKinds
  <2>1. memo[p] \in 0..MaxVersion
    BY DEF AcpTyped
  <2>2. memo[p] \in ACP!Versions
    BY <1>1, <2>1, AcpConstants DEF ACP!Versions
  <2>3. kind \in AcpKinds
    BY <1>1, AcpAssumption DEF ACP!AcpRegistryAssumption, AcpKinds
  <2> QED
    BY <2>2, <2>3
<1>3. /\ o.at = (IF kind = "binary" THEN "downloading" ELSE "unpacked") /\ o.agent = {a}
      /\ o.version = memo[p] /\ o.kind = kind /\ o.doc = <<>>
      /\ DOMAIN o = {"at", "agent", "version", "kind", "doc"}
  BY DEF ACP!Idle
<1> HIDE DEF kind, o
<1>4. acpProc'[p] = o /\ DOMAIN acpProc' = Procs /\ \A q \in Procs \ {p} : acpProc'[q] = acpProc[q]
  BY <1>1 DEF AcpTyped
<1> QED
  BY <1>1, <1>2, <1>3, <1>4 DEF AcpMoves

\* Once others are under way, nothing counts as settled.
LEMMA AcpBegins ==
  ASSUME AcpTyped, ACP!Begins
  PROVE  /\ acpDisturbed' \in BOOLEAN /\ settled' \subseteq settled /\ (acpDisturbed' => settled' = {})
         /\ ~acpDisturbed' => \A q \in Procs : acpProc[q].at = "idle"
BY DEF AcpTyped, ACP!Begins

\* What is saved, and what is left as it was.
LEMMA ArchiveIsSaved ==
  ASSUME NEW p \in Procs, NEW v \in ACP!Versions, NEW whole \in BOOLEAN, AcpTyped,
         acpProc[p].at \in Fetching, ACP!Saved(p, [version |-> v, whole |-> whole])
  PROVE  /\ archive' \in [Agents -> [ACP!Versions -> Files]]
         /\ \A a \in Agents, w \in ACP!Versions :
              IF a = ACP!Agent(p) /\ w = ACP!Name(acpProc[p].version)
              THEN /\ archive'[a][w] # ACP!None
                   /\ archive'[a][w].version = v /\ archive'[a][w].whole = whole
              ELSE archive'[a][w] = archive[a][w]
<1>1. ACP!Agent(p) \in Agents /\ ACP!Name(acpProc[p].version) \in ACP!Versions
  BY AcpUnderWay
<1>2. PICK file : file = [version |-> v, whole |-> whole]
  OBVIOUS
<1>3. file \in Files /\ file # ACP!None /\ file.version = v /\ file.whole = whole
  BY <1>1, <1>2, RecordIsAFile DEF Files
<1>4. PICK n \in ACP!Versions : n = ACP!Name(acpProc[p].version)
  BY <1>1
<1>5. PICK a \in Agents : a = ACP!Agent(p)
  BY <1>1
<1>6. archive' = [archive EXCEPT ![a][n] = file]
  BY <1>2, <1>4, <1>5 DEF ACP!Saved
<1>7. archive \in [Agents -> [ACP!Versions -> Files]]
  BY DEF AcpTyped
<1>8. archive' \in [Agents -> [ACP!Versions -> Files]]
  BY <1>3, <1>6, <1>7
<1>9. \A b \in Agents, w \in ACP!Versions :
        archive'[b][w] = IF b = a /\ w = n THEN file ELSE archive[b][w]
  BY <1>6, <1>7
<1> QED
  BY <1>3, <1>4, <1>5, <1>8, <1>9

LEMMA AcpFirst == ACP!Init => AcpInv
<1> SUFFICES ASSUME ACP!Init PROVE AcpInv
  OBVIOUS
<1>1. /\ ACP!Readable = <<>>
      /\ \A p \in Procs : /\ acpProc[p] = ACP!Idle /\ acpProc[p].at = "idle" /\ acpProc[p].doc = <<>>
                          /\ acpProc[p].kind = "none"
  <2>1. DOMAIN ACP!Garbled = {"garbled"} /\ DOMAIN <<>> = {}
    BY DEF ACP!Garbled
  <2> QED
    BY <2>1 DEF ACP!Init, ACP!Readable, ACP!Idle
<1>2. AcpTyped
  BY <1>1, AcpConstants DEF ACP!Init, AcpTyped, Files
<1>3. Backed
  BY <1>1, AcpConstants DEF Backed, BackedDoc, OwnFiles, Unpacking
<1>4. ArchivesKept
  BY DEF ArchivesKept, ACP!Init
<1>5. Settled
  BY <1>1 DEF Settled, ACP!Init, Prepared
<1> QED
  BY <1>2, <1>3, <1>4, <1>5 DEF AcpInv

\* What a step leaves of the files and the offer.
LEMMA FilesGrow ==
  ASSUME AcpTyped, Backed, [ACP!Next]_acpVars
  PROVE  /\ UNCHANGED <<renames, form>>
         /\ archive' \in [Agents -> [ACP!Versions -> Files]] /\ binary' \in [Agents -> Files]
         /\ \A a \in Agents, v \in ACP!Versions : archive[a][v] # ACP!None => archive'[a][v] # ACP!None
         /\ \A a \in Agents : binary[a] # ACP!None => binary'[a] # ACP!None
<1> DEFINE Grown == /\ UNCHANGED <<renames, form>>
                    /\ archive' \in [Agents -> [ACP!Versions -> Files]] /\ binary' \in [Agents -> Files]
                    /\ \A a \in Agents, v \in ACP!Versions : archive[a][v] # ACP!None => archive'[a][v] # ACP!None
                    /\ \A a \in Agents : binary[a] # ACP!None => binary'[a] # ACP!None
<1>1. archive \in [Agents -> [ACP!Versions -> Files]] /\ binary \in [Agents -> Files]
  BY DEF AcpTyped
<1>2. ASSUME UNCHANGED <<renames, form, archive, binary>> PROVE Grown
  BY <1>1, <1>2
<1>3. ASSUME NEW p \in Procs, NEW v \in ACP!Versions, NEW whole \in BOOLEAN, acpProc[p].at \in Fetching,
             ACP!Saved(p, [version |-> v, whole |-> whole]), UNCHANGED <<renames, form, binary>>
      PROVE  Grown
  BY <1>1, <1>3, ArchiveIsSaved
<1>4. ASSUME NEW p \in Procs, ACP!OpenArchive(p) PROVE Grown
  <2>1. acpProc[p].at \in Fetching /\ UNCHANGED <<renames, form, binary>>
    BY <1>4 DEF ACP!OpenArchive, ACP!offer, Fetching
  <2>2. acpProc[p].version \in ACP!Versions /\ ACP!Saved(p, [version |-> acpProc[p].version, whole |-> FALSE])
    BY <1>4, <2>1, AcpUnderWay DEF ACP!OpenArchive, ACP!Opened
  <2> QED
    BY <1>3, <2>1, <2>2
<1>5. ASSUME NEW p \in Procs, ACP!FillArchive(p) PROVE Grown
  <2>1. acpProc[p].at \in Fetching /\ UNCHANGED <<renames, form, binary>>
    BY <1>5 DEF ACP!FillArchive, ACP!offer, Fetching
  <2>2. acpProc[p].version \in ACP!Versions
        /\ ACP!Saved(p, [version |-> acpProc[p].version, whole |-> ACP!Archive(p).version = acpProc[p].version])
    BY <1>5, <2>1, AcpUnderWay DEF ACP!FillArchive, ACP!Filled
  <2> QED
    BY <1>3, <2>1, <2>2
<1>6. ASSUME NEW p \in Procs, NEW v \in ACP!Versions, NEW whole \in BOOLEAN, NEW A \in Agents,
             binary' = [binary EXCEPT ![A] = [version |-> v, whole |-> whole]],
             UNCHANGED <<renames, form, archive>>
      PROVE  Grown
  BY <1>1, <1>6, RecordIsAFile DEF Files
<1>7. ASSUME NEW p \in Procs, acpProc[p].at \in {"archived", "extracting"}
      PROVE  ACP!Agent(p) \in Agents /\ ACP!Archive(p).version \in ACP!Versions
  <2>1. acpProc[p].kind = "binary"
    BY <1>7 DEF AcpTyped, AcpOperation
  <2>2. ACP!Archive(p) \in Files /\ ACP!Archive(p) # ACP!None /\ ACP!Agent(p) \in Agents
    BY <1>7, <2>1, AcpUnderWay DEF Backed, OwnFiles, Unpacking
  <2> QED
    BY <2>2 DEF Files, ACP!Contents
<1>8. ASSUME NEW p \in Procs, ACP!Extract(p) PROVE Grown
  <2>1. /\ acpProc[p].at = "archived" /\ UNCHANGED <<renames, form, archive>>
        /\ binary' = [binary EXCEPT ![ACP!Agent(p)] = [version |-> ACP!Archive(p).version, whole |-> FALSE]]
    BY <1>8 DEF ACP!Extract, ACP!offer, ACP!Opened
  <2> QED
    BY <1>6, <1>7, <2>1
<1>9. ASSUME NEW p \in Procs, ACP!FillBinary(p) PROVE Grown
  <2> DEFINE whole == binary[ACP!Agent(p)].version = ACP!Archive(p).version
  <2>1. /\ acpProc[p].at = "extracting" /\ UNCHANGED <<renames, form, archive>>
        /\ binary' = [binary EXCEPT ![ACP!Agent(p)] = [version |-> ACP!Archive(p).version, whole |-> whole]]
    BY <1>9 DEF ACP!FillBinary, ACP!offer, ACP!Filled
  <2>2. whole \in BOOLEAN
    OBVIOUS
  <2> HIDE DEF whole
  <2> QED
    BY <1>6, <1>7, <2>1, <2>2
<1>10. CASE UNCHANGED <<renames, form, archive, binary>>
  BY <1>2, <1>10
<1>11. \/ UNCHANGED <<renames, form, archive, binary>>
       \/ \E p \in Procs : ACP!OpenArchive(p) \/ ACP!FillArchive(p) \/ ACP!Extract(p) \/ ACP!FillBinary(p)
  BY DEF acpVars, ACP!Next, ACP!Release, ACP!Fetch, ACP!Exit, ACP!Install, ACP!SkipDownload, ACP!Download,
         ACP!ArchiveIsCut, ACP!TakeAsItIs, ACP!Fails, ACP!LoadToRecord, ACP!LoadToRemove, ACP!Open, ACP!Write,
         ACP!WriteIsCut, ACP!offer
<1> QED
  BY <1>4, <1>5, <1>8, <1>9, <1>10, <1>11

\* Which process moves, and how.
LEMMA AcpFrame ==
  ASSUME AcpTyped, ACP!Next
  PROVE  \/ ACP!Release \/ \E p \in Procs : ACP!Fetch(p) \/ ACP!Exit(p)
         \/ \E p \in Procs, a \in Agents : \E preferred \in {"npx", "uvx", "binary", "none"} :
              ACP!Install(p, a, preferred)
         \/ \E p \in Procs : \/ ACP!SkipDownload(p) \/ ACP!Download(p) \/ ACP!OpenArchive(p) \/ ACP!FillArchive(p)
                             \/ ACP!Extract(p) \/ ACP!FillBinary(p) \/ ACP!TakeAsItIs(p)
         \/ \E p \in Procs : ACP!ArchiveIsCut(p) \/ ACP!Fails(p) \/ ACP!WriteIsCut(p)
         \/ \E p \in Procs : ACP!LoadToRecord(p) \/ \E a \in Agents : ACP!LoadToRemove(p, a)
         \/ \E p \in Procs : ACP!Open(p) \/ ACP!Write(p)
BY DEF ACP!Next

\* An install that goes on.
LEMMA AcpProgress ==
  ASSUME NEW p \in Procs, AcpTyped,
         \/ ACP!SkipDownload(p) \/ ACP!Download(p) \/ ACP!OpenArchive(p) \/ ACP!FillArchive(p)
         \/ ACP!Extract(p) \/ ACP!FillBinary(p) \/ ACP!TakeAsItIs(p)
  PROVE  /\ AcpMoves(p) /\ AcpGoesOn(p) /\ acpProc'[p].doc = acpProc[p].doc
         /\ acpProc[p].at \in Fetching \cup {"archived", "extracting"} /\ acpProc[p].kind = "binary"
         /\ acpProc'[p].at \in {"fetching", "writing"} \cup Unpacking
         /\ UNCHANGED <<latest, renames, form, memo, installed, acpDisturbed, settled>>
<1>1. PICK x \in {"fetching", "writing"} \cup Unpacking : ACP!Goto(p, x)
  BY DEF ACP!SkipDownload, ACP!Download, ACP!OpenArchive, ACP!FillArchive, ACP!Extract, ACP!FillBinary,
         ACP!TakeAsItIs, Unpacking
<1>2. /\ acpProc[p].at \in Fetching \cup {"archived", "extracting"}
      /\ UNCHANGED <<latest, renames, form, memo, installed, acpDisturbed, settled>>
  BY DEF ACP!SkipDownload, ACP!Download, ACP!OpenArchive, ACP!FillArchive, ACP!Extract, ACP!FillBinary,
         ACP!TakeAsItIs, ACP!offer, ACP!ledger, Fetching
<1>3. acpProc[p].kind = "binary"
  BY <1>2 DEF AcpTyped, AcpOperation
<1> QED
  BY <1>1, <1>2, <1>3, AcpGoes

\* An operation that stops half way.
LEMMA AcpStops ==
  ASSUME NEW p \in Procs, AcpTyped, ACP!ArchiveIsCut(p) \/ ACP!Fails(p) \/ ACP!WriteIsCut(p)
  PROVE  /\ acpProc' = [acpProc EXCEPT ![p] = ACP!Idle] /\ settled' = settled \ acpProc[p].agent
         /\ acpProc[p].at # "idle" /\ installed' \in {installed, ACP!Garbled}
         /\ torn \subseteq torn' /\ torn' \subseteq torn \cup acpProc[p].agent
         /\ acpProc[p].at = "writing" => acpProc[p].agent \subseteq torn'
         /\ UNCHANGED <<latest, renames, form, memo, archive, binary, acpDisturbed>>
BY DEF ACP!ArchiveIsCut, ACP!Fails, ACP!WriteIsCut, ACP!Abort, ACP!offer

LEMMA AcpTypedNext ==
  ASSUME AcpTyped, Backed, [ACP!Next]_acpVars
  PROVE  AcpTyped'
<1>1. UNCHANGED <<renames, form>> /\ archive' \in [Agents -> [ACP!Versions -> Files]] /\ binary' \in [Agents -> Files]
  BY FilesGrow
<1>2. ASSUME NEW p \in Procs, AcpMoves(p), AcpOperation(acpProc'[p]), UNCHANGED <<latest, memo>>,
             acpDisturbed' \in BOOLEAN, settled' \subseteq Agents, torn' \subseteq Agents,
             installed' = ACP!Garbled \/ ACP!IsIndex(installed')
      PROVE  AcpTyped'
  BY <1>1, <1>2 DEF AcpTyped, AcpMoves
<1>3. /\ installed = ACP!Garbled \/ ACP!IsIndex(installed)
      /\ acpDisturbed \in BOOLEAN /\ settled \subseteq Agents /\ torn \subseteq Agents
      /\ \A p \in Procs : AcpOperation(acpProc[p]) /\ acpProc[p].agent \subseteq Agents
  BY DEF AcpTyped, AcpOperation
<1>4. CASE ACP!Release \/ \E p \in Procs : ACP!Fetch(p) \/ ACP!Exit(p)
  <2>1. latest' \in ACP!Versions
    BY <1>4, AcpConstants DEF ACP!Release, ACP!Fetch, ACP!Exit, AcpTyped, ACP!Versions
  <2>2. memo' \in [Procs -> 0..MaxVersion]
    BY <1>4, AcpConstants DEF ACP!Release, ACP!Fetch, ACP!Exit, AcpTyped
  <2> QED
    BY <1>4, <2>1, <2>2 DEF ACP!Release, ACP!Fetch, ACP!Exit, ACP!offer, ACP!ledger, AcpTyped
<1>5. ASSUME NEW p \in Procs, NEW a \in Agents, NEW preferred \in {"npx", "uvx", "binary", "none"},
             ACP!Install(p, a, preferred)
      PROVE  AcpTyped'
  <2>1. /\ AcpMoves(p) /\ acpProc'[p].agent = {a} /\ acpProc'[p].doc = <<>>
        /\ acpProc'[p].at = (IF acpProc'[p].kind = "binary" THEN "downloading" ELSE "unpacked")
        /\ acpProc'[p].kind \in AcpKinds /\ acpProc'[p].version \in ACP!Versions
    BY <1>5, AcpStarts
  <2>2. DOMAIN <<>> = {} /\ ACP!IsIndex(<<>>) /\ acpProc'[p].version \in 0..MaxVersion
    BY <2>1, AcpConstants
  <2>3. AcpOperation(acpProc'[p])
    BY <2>1, <2>2 DEF AcpOperation, AcpMoves, ACP!Points, Fetching, Unpacking
  <2>4. UNCHANGED <<latest, memo, installed, torn>> /\ ACP!Begins
    BY <1>5 DEF ACP!Install
  <2> QED
    BY <1>2, <1>3, <2>1, <2>3, <2>4, AcpBegins
<1>6. ASSUME NEW p \in Procs,
             \/ ACP!SkipDownload(p) \/ ACP!Download(p) \/ ACP!OpenArchive(p) \/ ACP!FillArchive(p)
             \/ ACP!Extract(p) \/ ACP!FillBinary(p) \/ ACP!TakeAsItIs(p)
      PROVE  AcpTyped'
  <2>1. /\ AcpMoves(p) /\ AcpGoesOn(p) /\ acpProc'[p].doc = acpProc[p].doc
        /\ acpProc[p].at \in Fetching \cup {"archived", "extracting"} /\ acpProc[p].kind = "binary"
        /\ acpProc'[p].at \in {"fetching", "writing"} \cup Unpacking
        /\ UNCHANGED <<latest, renames, form, memo, installed, acpDisturbed, settled>>
    BY <1>6, AcpProgress
  <2>2. AcpOperation(acpProc'[p])
    BY <1>3, <2>1 DEF AcpOperation, AcpMoves, AcpGoesOn, ACP!Points, Fetching, Unpacking
  <2>3. torn' \subseteq Agents
    <3>1. torn' \in {torn, torn \cup acpProc[p].agent}
      BY <1>6 DEF ACP!SkipDownload, ACP!Download, ACP!OpenArchive, ACP!FillArchive, ACP!Extract,
                  ACP!FillBinary, ACP!TakeAsItIs, ACP!ledger
    <3> QED
      BY <1>3, <3>1
  <2> QED
    BY <1>2, <1>3, <2>1, <2>2, <2>3
<1>7. ASSUME NEW p \in Procs, ACP!ArchiveIsCut(p) \/ ACP!Fails(p) \/ ACP!WriteIsCut(p) PROVE AcpTyped'
  <2>1. AcpMoves(p) /\ AcpOperation(acpProc'[p])
    BY <1>7, AcpStops, AcpEnds, AcpConstants
  <2> QED
    BY <1>2, <1>3, <1>7, <2>1, AcpStops
<1>8. ACP!IsIndex(ACP!Readable)
  BY AcpConstants DEF AcpTyped, ACP!Readable
<1>9. ASSUME NEW p \in Procs, NEW doc, ACP!IsIndex(doc), acpProc[p].at \in {"idle", "unpacked"},
             acpProc' = [acpProc EXCEPT ![p].at = "loaded", ![p].doc = doc]
       PROVE  AcpMoves(p) /\ AcpOperation(acpProc'[p])
  <2>1. AcpMoves(p) /\ AcpGoesOn(p) /\ acpProc'[p].at = "loaded" /\ acpProc'[p].doc = doc
    BY <1>9, AcpLoads
  <2> QED
    BY <1>3, <1>9, <2>1 DEF AcpOperation, AcpMoves, AcpGoesOn, ACP!Points, Fetching, Unpacking
<1>10. ASSUME NEW p \in Procs, ACP!LoadToRecord(p) PROVE AcpTyped'
  <2> DEFINE doc == ACP!Recorded(ACP!Readable, ACP!Agent(p), acpProc[p].version, acpProc[p].kind)
  <2>1. acpProc' = [acpProc EXCEPT ![p].at = "loaded", ![p].doc = doc] /\ acpProc[p].at = "unpacked"
        /\ UNCHANGED <<latest, memo, installed, acpDisturbed, settled, torn>>
    BY <1>10 DEF ACP!LoadToRecord, ACP!ledger
  <2>2. ACP!Agent(p) \in Agents /\ acpProc[p].version \in ACP!Versions /\ acpProc[p].kind \in AcpKinds
    BY <2>1, AcpUnderWay DEF Unpacking
  <2>3. ACP!IsIndex(doc)
    BY <1>8, <2>2 DEF ACP!Recorded, ACP!IsIndex, AcpKinds
  <2> HIDE DEF doc
  <2> QED
    BY <1>2, <1>3, <1>9, <2>1, <2>3
<1>11. ASSUME NEW p \in Procs, NEW a \in Agents, ACP!LoadToRemove(p, a) PROVE AcpTyped'
  <2> DEFINE doc == [b \in DOMAIN ACP!Readable \ {a} |-> ACP!Readable[b]]
  <2>1. ACP!IsIndex(doc)
    BY <1>8 DEF ACP!IsIndex
  <2>2. acpProc' = [acpProc EXCEPT ![p].at = "loaded", ![p].doc = doc] /\ acpProc[p].at = "idle"
        /\ UNCHANGED <<latest, memo, installed, torn>> /\ ACP!Begins
    BY <1>11 DEF ACP!LoadToRemove
  <2> HIDE DEF doc
  <2> QED
    BY <1>2, <1>3, <1>9, <2>1, <2>2, AcpBegins
<1>12. ASSUME NEW p \in Procs, ACP!Open(p) PROVE AcpTyped'
  <2>1. /\ acpProc[p].at = "loaded" /\ ACP!Goto(p, "open") /\ installed' = ACP!Garbled
        /\ UNCHANGED <<latest, memo, acpDisturbed, settled, torn>>
    BY <1>12 DEF ACP!Open, ACP!ledger
  <2>2. AcpMoves(p) /\ AcpGoesOn(p) /\ acpProc'[p].at = "open" /\ acpProc'[p].doc = acpProc[p].doc
    BY <2>1, AcpGoes
  <2>3. AcpOperation(acpProc'[p])
    BY <1>3, <2>1, <2>2 DEF AcpOperation, AcpMoves, AcpGoesOn, ACP!Points, Fetching, Unpacking
  <2> QED
    BY <1>2, <1>3, <2>1, <2>2, <2>3
<1>13. ASSUME NEW p \in Procs, ACP!Write(p) PROVE AcpTyped'
  <2>1. /\ installed' = acpProc[p].doc /\ UNCHANGED <<latest, memo, acpDisturbed, torn>>
        /\ acpProc' = [acpProc EXCEPT ![p] = ACP!Idle] /\ settled' \in {settled, settled \cup acpProc[p].agent}
    BY <1>13 DEF ACP!Write
  <2>2. ACP!IsIndex(acpProc[p].doc) /\ settled' \subseteq Agents
    BY <1>3, <2>1 DEF AcpOperation
  <2>3. AcpMoves(p) /\ AcpOperation(acpProc'[p])
    BY <2>1, AcpEnds, AcpConstants
  <2> QED
    BY <1>2, <1>3, <2>1, <2>2, <2>3
<1>14. CASE UNCHANGED acpVars
  BY <1>14 DEF acpVars, AcpTyped
<1>15. CASE ACP!Next
  BY <1>4, <1>5, <1>6, <1>7, <1>10, <1>11, <1>12, <1>13, <1>15, AcpFrame
<1> QED
  BY <1>14, <1>15

\* What others work on stays.
LEMMA AcpOthers ==
  ASSUME AcpTyped, NEW p \in Procs, AcpMoves(p), NEW q \in Procs, q # p \/ AcpGoesOn(p), UNCHANGED renames
  PROVE  /\ ACP!Agent(q)' = ACP!Agent(q)
         /\ ACP!Name(acpProc[q].version)' = ACP!Name(acpProc[q].version)
         /\ UNCHANGED archive => ACP!Archive(q)' = ACP!Archive(q)
<1>1. acpProc'[q].agent = acpProc[q].agent /\ acpProc'[q].version = acpProc[q].version
  BY DEF AcpMoves, AcpGoesOn
<1> QED
  BY <1>1 DEF ACP!Agent, ACP!Name, ACP!Archive

LEMMA ReadableStays == UNCHANGED installed => ACP!Readable' = ACP!Readable
BY DEF ACP!Readable

LEMMA GarbledIsEmpty == installed' = ACP!Garbled => ACP!Readable' = <<>>
BY DEF ACP!Readable

LEMMA ReadableIsAnIndex == AcpTyped => ACP!IsIndex(ACP!Readable)
BY AcpConstants DEF AcpTyped, ACP!Readable

\* A file that is there stays there.
LEMMA BackedStays ==
  ASSUME AcpTyped, NEW doc, ACP!IsIndex(doc), BackedDoc(doc), UNCHANGED <<renames, form>>,
         \A a \in Agents, v \in ACP!Versions : archive[a][v] # ACP!None => archive'[a][v] # ACP!None,
         \A a \in Agents : binary[a] # ACP!None => binary'[a] # ACP!None
  PROVE  BackedDoc(doc)'
<1> SUFFICES ASSUME NEW a \in Lists(doc) PROVE Stored(a, doc[a].version)'
  BY DEF BackedDoc, Lists
<1>1. a \in Agents /\ doc[a].version \in ACP!Versions /\ Stored(a, doc[a].version)
  BY DEF BackedDoc, Lists, ACP!IsIndex
<1>2. PICK v \in ACP!Versions : v = doc[a].version
  BY <1>1
<1>3. ACP!Name(v) \in ACP!Versions /\ ACP!Name(v)' = ACP!Name(v)
  BY NameIsAVersion DEF ACP!Name
<1>4. Stored(a, v)'
  BY <1>1, <1>2, <1>3 DEF Stored
<1> QED
  BY <1>2, <1>4

LEMMA BackedNext ==
  ASSUME NEW p \in Procs, NEW ix, NEW doc, AcpTyped, Backed, [ACP!Next]_acpVars, AcpMoves(p),
         ACP!IsIndex(ix), BackedDoc(ix), ACP!Readable' = ix,
         ACP!IsIndex(doc), BackedDoc(doc), acpProc'[p].doc = doc, OwnFiles(p)'
  PROVE  Backed'
<1>1. /\ UNCHANGED <<renames, form>>
      /\ \A a \in Agents, v \in ACP!Versions : archive[a][v] # ACP!None => archive'[a][v] # ACP!None
      /\ \A a \in Agents : binary[a] # ACP!None => binary'[a] # ACP!None
  BY FilesGrow
<1>2. BackedDoc(ix)' /\ BackedDoc(doc)'
  BY <1>1, BackedStays
<1>3. ASSUME NEW q \in Procs, q # p PROVE BackedDoc(acpProc[q].doc)' /\ OwnFiles(q)'
  <2>1. PICK d : d = acpProc[q].doc
    OBVIOUS
  <2>2. ACP!IsIndex(d) /\ BackedDoc(d)
    BY <2>1 DEF AcpTyped, AcpOperation, Backed
  <2>3. BackedDoc(d)'
    BY <1>1, <2>2, BackedStays
  <2>4. /\ acpProc'[q] = acpProc[q] /\ ACP!Agent(q)' = ACP!Agent(q)
        /\ ACP!Name(acpProc[q].version)' = ACP!Name(acpProc[q].version)
    BY <1>1, <1>3, AcpOthers DEF AcpMoves
  <2>5. BackedDoc(acpProc[q].doc)'
    BY <2>1, <2>3, <2>4 DEF BackedDoc
  <2>6. acpProc[q].at \in {"writing"} \cup Unpacking /\ acpProc[q].kind = "binary" =>
          ACP!Archive(q)' # ACP!None
    <3> SUFFICES ASSUME acpProc[q].at \in {"writing"} \cup Unpacking, acpProc[q].kind = "binary"
                 PROVE  ACP!Archive(q)' # ACP!None
      OBVIOUS
    <3>1. ACP!Agent(q) \in Agents /\ ACP!Name(acpProc[q].version) \in ACP!Versions
      BY AcpUnderWay
    <3>2. ACP!Archive(q) # ACP!None
      BY DEF Backed, OwnFiles
    <3> QED
      BY <1>1, <2>4, <3>1, <3>2 DEF ACP!Archive
  <2>7. acpProc[q].at \in {"extracting", "unpacked"} => ACP!Agent(q) \in Agents
    BY AcpUnderWay DEF Unpacking
  <2>8. OwnFiles(q)
    BY DEF Backed
  <2>9. OwnFiles(q)'
    BY <1>1, <2>4, <2>6, <2>7, <2>8 DEF OwnFiles
  <2> QED
    BY <2>5, <2>9
<1>4. BackedDoc(ACP!Readable)' /\ BackedDoc(acpProc[p].doc)'
  BY <1>2 DEF BackedDoc
<1> QED
  BY <1>3, <1>4 DEF Backed

LEMMA KeptNext ==
  ASSUME NEW p \in Procs, AcpTyped, ArchivesKept, AcpMoves(p), UNCHANGED <<archive, renames>>, torn \subseteq torn',
         acpProc[p].at = "writing" => acpProc[p].agent \subseteq torn'
  PROVE  ArchivesKept'
<1>1. ASSUME NEW a \in Agents \ torn', NEW v \in ACP!Versions, archive[a][v] # ACP!None, ~archive[a][v].whole
      PROVE  \E q \in Procs : WritesTo(q, a, v)'
  <2>1. PICK q \in Procs : WritesTo(q, a, v)
    BY <1>1 DEF ArchivesKept
  <2>2. q # p
    BY <1>1, <2>1 DEF WritesTo
  <2> QED
    BY <2>1, <2>2, AcpOthers DEF WritesTo, AcpMoves
<1> QED
  BY <1>1 DEF ArchivesKept

LEMMA SettledNext ==
  ASSUME NEW p \in Procs, AcpTyped, AcpTyped', AcpMoves(p), UNCHANGED renames,
         acpDisturbed' => settled' = {},
         ~acpDisturbed' => (\A q \in Procs \ {p} : acpProc[q].at = "idle") /\ Prepared(p)',
         \A a \in settled' : IsUnpacked(a)' =>
           /\ ~Installs(p, a)' => FreshIn(ACP!Readable, a)'
           /\ ~Installs(p, a)' => FreshIn(acpProc[p].doc, a)'
  PROVE  Settled'
<1>1. ASSUME ~acpDisturbed', NEW q \in Procs, q # p
      PROVE  acpProc'[q].at = "idle" /\ Prepared(q)' /\ Lists(acpProc'[q].doc) = {}
  <2>1. acpProc'[q].at = "idle" /\ acpProc'[q].kind = "none" /\ DOMAIN acpProc'[q].doc = {}
    BY <1>1 DEF AcpMoves, AcpTyped, AcpOperation
  <2> QED
    BY <2>1 DEF Prepared, Lists
<1>2. ~acpDisturbed' => \A q, r \in Procs : acpProc'[q].at # "idle" /\ acpProc'[r].at # "idle" => q = r
  BY <1>1
<1>3. ASSUME NEW a \in settled', IsUnpacked(a)', NEW q \in Procs, ~Installs(q, a)'
      PROVE  FreshIn(acpProc[q].doc, a)'
  <2>1. ~acpDisturbed'
    BY <1>3 DEF AcpTyped
  <2> QED
    BY <1>1, <1>3, <2>1 DEF FreshIn, Lists
<1> QED
  BY <1>1, <1>2, <1>3 DEF Settled

\* The one that is busy, while nothing is disturbed, is alone.
LEMMA AloneWhenBusy ==
  ASSUME AcpTyped, Settled, ~acpDisturbed, NEW p \in Procs, acpProc[p].at # "idle"
  PROVE  \A q \in Procs \ {p} : acpProc[q].at = "idle" /\ acpProc[q].agent = {} /\ acpProc[q].kind = "none"
BY DEF Settled, AcpTyped, AcpOperation

\* What an operation that is alone may rely on.
LEMMA SettledIsFresh ==
  ASSUME NEW p \in Procs, NEW a \in settled, AcpTyped, Settled,
         ~Installs(p, a), IsUnpacked(a), acpProc[p].at = "idle" => \A q \in Procs : acpProc[q].at = "idle"
  PROVE  FreshIn(ACP!Readable, a) /\ FreshIn(acpProc[p].doc, a)
<1>1. ~acpDisturbed
  BY DEF Settled, AcpTyped
<1>2. \A q \in Procs : ~Installs(q, a)
  <2>1. CASE acpProc[p].at = "idle"
    BY <2>1 DEF Installs, AcpTyped, AcpOperation
  <2>2. CASE acpProc[p].at # "idle"
    BY <1>1, <2>2, AloneWhenBusy DEF Installs
  <2> QED
    BY <2>1, <2>2
<1> QED
  BY <1>2 DEF Settled

LEMMA BackedOnward ==
  ASSUME NEW p \in Procs, AcpInv, AcpMoves(p), [ACP!Next]_acpVars, UNCHANGED installed,
         acpProc'[p].doc = acpProc[p].doc, OwnFiles(p)'
  PROVE  Backed'
<1>1. PICK ix : ix = ACP!Readable
  OBVIOUS
<1>2. PICK doc : doc = acpProc[p].doc
  OBVIOUS
<1>3. ACP!IsIndex(ix) /\ BackedDoc(ix) /\ ACP!IsIndex(doc) /\ BackedDoc(doc)
  BY <1>1, <1>2, ReadableIsAnIndex DEF AcpInv, AcpTyped, AcpOperation, Backed
<1> QED
  BY <1>1, <1>2, <1>3, ReadableStays, BackedNext DEF AcpInv

\* An install that goes on disturbs no other agent's binary.
LEMMA SettledOnward ==
  ASSUME NEW p \in Procs, AcpInv, AcpTyped', AcpMoves(p), AcpGoesOn(p), acpProc'[p].doc = acpProc[p].doc,
         acpProc[p].at # "idle", acpProc[p].kind = "binary",
         UNCHANGED <<renames, form, installed, acpDisturbed, settled>>,
         \A a \in Agents : a \notin acpProc[p].agent => binary'[a] = binary[a],
         ~acpDisturbed => Prepared(p)'
  PROVE  Settled'
<1>1. acpDisturbed => settled = {}
  BY DEF AcpInv, Settled
<1>2. ~acpDisturbed => \A q \in Procs \ {p} : acpProc[q].at = "idle"
  BY AloneWhenBusy DEF AcpInv
<1>3. acpProc[p].agent = {ACP!Agent(p)}
  BY AcpUnderWay DEF AcpInv
<1>4. ASSUME NEW a \in settled, IsUnpacked(a), ~Installs(p, a)
      PROVE  FreshIn(ACP!Readable, a)' /\ FreshIn(acpProc[p].doc, a)'
  <2>1. FreshIn(ACP!Readable, a) /\ FreshIn(acpProc[p].doc, a)
    BY <1>4, SettledIsFresh DEF AcpInv
  <2>2. a \notin acpProc[p].agent /\ a \in Agents
    BY <1>3, <1>4 DEF Installs, AcpInv, AcpTyped
  <2>3. binary'[a] = binary[a] /\ ACP!Readable' = ACP!Readable
    BY <2>2, ReadableStays
  <2> QED
    BY <2>1, <2>3 DEF FreshIn, Fresh, Lists
<1>5. \A a : Installs(p, a)' <=> Installs(p, a)
  BY DEF Installs, AcpGoesOn
<1>6. \A a : IsUnpacked(a)' <=> IsUnpacked(a)
  BY DEF IsUnpacked
<1> QED
  BY <1>1, <1>2, <1>4, <1>5, <1>6, SettledNext DEF AcpInv

\* The steps of a download.
LEMMA DownloadKeeps ==
  ASSUME NEW p \in Procs, AcpInv, AcpTyped',
         ACP!SkipDownload(p) \/ ACP!Download(p) \/ ACP!OpenArchive(p) \/ ACP!FillArchive(p)
  PROVE  AcpInv'
<1>1. /\ AcpMoves(p) /\ AcpGoesOn(p) /\ acpProc'[p].doc = acpProc[p].doc
      /\ acpProc[p].at \in Fetching \cup {"archived", "extracting"} /\ acpProc[p].kind = "binary"
      /\ UNCHANGED <<renames, form, installed, acpDisturbed, settled>>
  BY AcpProgress DEF AcpInv
<1>2. [ACP!Next]_acpVars /\ AcpTyped
  BY DEF ACP!Next, AcpInv
<1>3. /\ ACP!Agent(p) \in Agents /\ acpProc[p].agent = {ACP!Agent(p)} /\ acpProc[p].version \in ACP!Versions
      /\ ACP!Name(acpProc[p].version) \in ACP!Versions
      /\ renames => ACP!Name(acpProc[p].version) = acpProc[p].version
  BY <1>1, <1>2, AcpUnderWay
<1>4. ACP!Agent(p)' = ACP!Agent(p) /\ ACP!Name(acpProc[p].version)' = ACP!Name(acpProc[p].version)
  BY <1>1, <1>2, AcpOthers
<1>5. PICK n \in ACP!Versions : n = ACP!Name(acpProc[p].version)
  BY <1>3
<1>6. PICK A \in Agents : A = ACP!Agent(p)
  BY <1>3
<1>7. UNCHANGED binary /\ acpProc'[p].at \in {"archived", "fetching", "writing"}
  BY <1>1, <1>2, AcpGoes DEF ACP!SkipDownload, ACP!Download, ACP!OpenArchive, ACP!FillArchive
<1>8. Settled'
  <2>1. Prepared(p)'
    BY <1>7 DEF Prepared
  <2>2. acpProc[p].at # "idle"
    BY <1>1 DEF Fetching
  <2> QED
    BY <1>1, <1>2, <1>7, <2>1, <2>2, SettledOnward
<1>9. CASE ACP!SkipDownload(p) \/ ACP!Download(p)
  <2>1. /\ acpProc[p].at = "downloading" /\ UNCHANGED <<archive, torn>>
        /\ acpProc'[p].at \in {"writing"} \cup Unpacking => acpProc'[p].at = "archived" /\ archive[A][n] # ACP!None
    BY <1>2, <1>5, <1>6, <1>9, AcpGoes DEF ACP!SkipDownload, ACP!Download, ACP!ledger, ACP!Present, ACP!Archive, Unpacking
  <2>2. OwnFiles(p)'
    BY <1>4, <1>5, <1>6, <1>7, <2>1 DEF OwnFiles, ACP!Archive
  <2>3. Backed'
    BY <1>1, <1>2, <2>2, BackedOnward
  <2>4. ArchivesKept'
    BY <1>1, <2>1, KeptNext DEF AcpInv
  <2> QED
    BY <1>8, <2>3, <2>4 DEF AcpInv
<1>10. ASSUME NEW whole \in BOOLEAN, ACP!Saved(p, [version |-> acpProc[p].version, whole |-> whole]),
              acpProc[p].at \in {"fetching", "writing"}, acpProc'[p].at \in {"writing", "archived"},
              torn \subseteq torn', acpProc'[p].at = "archived" => whole \/ acpProc[p].agent \subseteq torn'
       PROVE  AcpInv'
  <2>1. \A a \in Agents, w \in ACP!Versions :
          IF a = A /\ w = n
          THEN /\ archive'[a][w] # ACP!None
               /\ archive'[a][w].version = acpProc[p].version /\ archive'[a][w].whole = whole
          ELSE archive'[a][w] = archive[a][w]
    BY <1>2, <1>3, <1>5, <1>6, <1>10, ArchiveIsSaved DEF Fetching
  <2>2. OwnFiles(p)'
    BY <1>4, <1>5, <1>6, <1>10, <2>1 DEF OwnFiles, ACP!Archive
  <2>3. Backed'
    BY <1>1, <1>2, <2>2, BackedOnward
  <2>4. ArchivesKept'
    <3>1. ASSUME renames
          PROVE  \A a \in Agents, v \in ACP!Versions : archive'[a][v] # ACP!None => archive'[a][v].version = v
      BY <1>3, <1>5, <2>1, <3>1 DEF AcpInv, ArchivesKept
    <3>2. ASSUME NEW a \in Agents \ torn', NEW v \in ACP!Versions, archive'[a][v] # ACP!None, ~archive'[a][v].whole
          PROVE  \E q \in Procs : WritesTo(q, a, v)'
      <4>1. CASE a = A /\ v = n
        <5>1. ~whole /\ acpProc[p].agent = {a}
          BY <1>3, <1>6, <2>1, <3>2, <4>1
        <5>2. acpProc'[p].at = "writing"
          BY <1>10, <3>2, <5>1
        <5> QED
          BY <1>1, <1>4, <1>5, <4>1, <5>1, <5>2 DEF WritesTo, AcpGoesOn
      <4>2. CASE ~(a = A /\ v = n)
        <5>1. archive'[a][v] = archive[a][v] /\ a \in Agents \ torn
          BY <1>10, <2>1, <3>2, <4>2
        <5>2. PICK q \in Procs : WritesTo(q, a, v)
          BY <3>2, <5>1 DEF AcpInv, ArchivesKept
        <5>3. q # p
          BY <1>3, <1>5, <1>6, <4>2, <5>2 DEF WritesTo
        <5> QED
          BY <1>1, <1>2, <5>2, <5>3, AcpOthers DEF WritesTo, AcpMoves
      <4> QED
        BY <4>1, <4>2
    <3> QED
      BY <1>1, <3>1, <3>2 DEF ArchivesKept
  <2> QED
    BY <1>8, <2>3, <2>4 DEF AcpInv
<1>11. CASE ACP!OpenArchive(p)
  <2>1. /\ ACP!Saved(p, [version |-> acpProc[p].version, whole |-> FALSE]) /\ acpProc[p].at = "fetching"
        /\ ACP!Goto(p, "writing") /\ UNCHANGED torn
    BY <1>11 DEF ACP!OpenArchive, ACP!Opened, ACP!ledger
  <2>2. acpProc'[p].at = "writing"
    BY <1>2, <2>1, AcpGoes
  <2> QED
    BY <1>10, <2>1, <2>2
<1>12. CASE ACP!FillArchive(p)
  <2>1. PICK whole \in BOOLEAN : whole = (ACP!Archive(p).version = acpProc[p].version)
    OBVIOUS
  <2>2. /\ ACP!Saved(p, [version |-> acpProc[p].version, whole |-> whole]) /\ acpProc[p].at = "writing"
        /\ ACP!Goto(p, "archived")
    BY <1>12, <2>1 DEF ACP!FillArchive, ACP!Filled
  <2>3. torn' = IF whole THEN torn ELSE torn \cup acpProc[p].agent
    BY <1>12, <2>1 DEF ACP!FillArchive, ACP!Filled
  <2>4. acpProc'[p].at = "archived"
    BY <1>2, <2>2, AcpGoes
  <2> QED
    BY <1>10, <2>2, <2>3, <2>4
<1> QED
  BY <1>9, <1>11, <1>12

\* The steps that unpack.
LEMMA UnpackKeeps ==
  ASSUME NEW p \in Procs, AcpInv, AcpTyped', ACP!Extract(p) \/ ACP!FillBinary(p) \/ ACP!TakeAsItIs(p)
  PROVE  AcpInv'
<1>1. /\ AcpMoves(p) /\ AcpGoesOn(p) /\ acpProc'[p].doc = acpProc[p].doc
      /\ acpProc[p].at \in Fetching \cup {"archived", "extracting"} /\ acpProc[p].kind = "binary"
      /\ UNCHANGED <<renames, form, installed, acpDisturbed, settled>>
  BY AcpProgress DEF AcpInv
<1>2. [ACP!Next]_acpVars /\ AcpTyped
  BY DEF ACP!Next, AcpInv
<1>3. /\ ACP!Agent(p) \in Agents /\ acpProc[p].agent = {ACP!Agent(p)} /\ acpProc[p].version \in ACP!Versions
      /\ ACP!Name(acpProc[p].version) \in ACP!Versions
      /\ renames => ACP!Name(acpProc[p].version) = acpProc[p].version
  BY <1>1, <1>2, AcpUnderWay
<1>4. UNCHANGED <<archive, torn>> /\ acpProc[p].at \in {"archived", "extracting"}
  BY DEF ACP!Extract, ACP!FillBinary, ACP!TakeAsItIs, ACP!ledger
<1>5. ACP!Agent(p)' = ACP!Agent(p) /\ ACP!Archive(p)' = ACP!Archive(p)
  BY <1>1, <1>2, <1>4, AcpOthers
<1>6. ACP!Archive(p) # ACP!None /\ OwnFiles(p)
  BY <1>1, <1>4 DEF AcpInv, Backed, OwnFiles, Unpacking
<1>7. PICK A \in Agents : A = ACP!Agent(p)
  BY <1>3
<1>8. PICK v : v = ACP!Archive(p).version
  OBVIOUS
<1>9. renames => v = acpProc[p].version
  BY <1>3, <1>6, <1>8 DEF AcpInv, ArchivesKept, ACP!Archive
<1>10. ArchivesKept'
  BY <1>1, <1>4, KeptNext DEF AcpInv
<1>11. binary \in [Agents -> Files] /\ acpProc[p].at # "idle"
  BY <1>4 DEF AcpInv, AcpTyped
<1>12. ASSUME OwnFiles(p)', ~acpDisturbed => Prepared(p)',
              \A a \in Agents : a # A => binary'[a] = binary[a]
       PROVE  AcpInv'
  <2>1. Backed'
    BY <1>1, <1>2, <1>12, BackedOnward
  <2>2. Settled'
    BY <1>1, <1>3, <1>7, <1>11, <1>12, SettledOnward
  <2> QED
    BY <1>10, <2>1, <2>2 DEF AcpInv
<1>13. CASE ACP!Extract(p)
  <2>1. /\ acpProc[p].at = "archived" /\ ACP!Goto(p, "extracting") /\ form[A] \notin {"bare", "without"}
        /\ binary' = [binary EXCEPT ![A] = [version |-> v, whole |-> FALSE]]
    BY <1>7, <1>8, <1>13 DEF ACP!Extract, ACP!Opened
  <2>2. acpProc'[p].at = "extracting"
    BY <1>2, <2>1, AcpGoes
  <2>3. binary'[A] = [version |-> v, whole |-> FALSE] /\ \A a \in Agents : a # A => binary'[a] = binary[a]
    BY <1>11, <2>1
  <2>4. DOMAIN ACP!None = {"kind"} /\ DOMAIN binary'[A] = {"version", "whole"}
    BY <2>3 DEF ACP!None
  <2>5. OwnFiles(p)'
    BY <1>1, <1>5, <1>6, <1>7, <2>1, <2>2, <2>4 DEF OwnFiles
  <2>6. Prepared(p)'
    BY <1>5, <1>7, <1>8, <2>2, <2>3 DEF Prepared
  <2> QED
    BY <1>12, <2>3, <2>5, <2>6
<1>14. CASE ACP!FillBinary(p)
  <2> DEFINE whole == binary[A].version = v
  <2>1. /\ acpProc[p].at = "extracting" /\ ACP!Goto(p, "unpacked")
        /\ binary' = [binary EXCEPT ![A] = [version |-> v, whole |-> whole]]
    BY <1>7, <1>8, <1>14 DEF ACP!FillBinary, ACP!Filled
  <2>0. whole \in BOOLEAN /\ (binary[A].version = v => whole)
    OBVIOUS
  <2> HIDE DEF whole
  <2>2. acpProc'[p].at = "unpacked"
    BY <1>2, <2>1, AcpGoes
  <2>3. binary'[A] = [version |-> v, whole |-> whole] /\ \A a \in Agents : a # A => binary'[a] = binary[a]
    BY <1>11, <2>1
  <2>4. DOMAIN ACP!None = {"kind"} /\ DOMAIN binary'[A] = {"version", "whole"}
    BY <2>3 DEF ACP!None
  <2>5. OwnFiles(p)'
    BY <1>1, <1>5, <1>6, <1>7, <2>1, <2>2, <2>4 DEF OwnFiles
  <2>6. ASSUME ~acpDisturbed PROVE Prepared(p)'
    <3>1. IsUnpacked(A) => binary[A].version = v
      BY <1>1, <1>7, <1>8, <2>1, <2>6 DEF AcpInv, Settled, Prepared
    <3>2. binary'[A].version = v /\ (IsUnpacked(A) => binary'[A].whole)
      BY <2>0, <2>3, <3>1
    <3>3. IsUnpacked(A) => Fresh(A, acpProc[p].version)'
      BY <1>1, <1>9, <3>2 DEF Fresh, AcpGoesOn
    <3>4. IsUnpacked(A)' = IsUnpacked(A)
      BY <1>1 DEF IsUnpacked
    <3> QED
      BY <1>5, <1>7, <2>2, <3>3, <3>4 DEF Prepared
  <2> QED
    BY <1>12, <2>3, <2>5, <2>6
<1>15. CASE ACP!TakeAsItIs(p)
  <2>1. /\ acpProc[p].at = "archived" /\ ACP!Goto(p, "unpacked") /\ form[A] \in {"bare", "without"}
        /\ UNCHANGED binary
    BY <1>7, <1>15 DEF ACP!TakeAsItIs
  <2>2. acpProc'[p].at = "unpacked"
    BY <1>2, <2>1, AcpGoes
  <2>3. OwnFiles(p)'
    BY <1>1, <1>5, <1>6, <1>7, <2>1, <2>2 DEF OwnFiles
  <2>4. Prepared(p)'
    BY <1>1, <1>5, <1>7, <2>1 DEF Prepared, IsUnpacked
  <2> QED
    BY <1>12, <2>1, <2>3, <2>4
<1> QED
  BY <1>13, <1>14, <1>15

\* An operation that stops half way leaves what is there.
LEMMA StopKeeps ==
  ASSUME NEW p \in Procs, AcpInv, AcpTyped', ACP!ArchiveIsCut(p) \/ ACP!Fails(p) \/ ACP!WriteIsCut(p)
  PROVE  AcpInv'
<1>1. [ACP!Next]_acpVars /\ AcpTyped
  BY DEF ACP!Next, AcpInv
<1>2. /\ AcpMoves(p) /\ acpProc'[p].at = "idle" /\ acpProc'[p].doc = <<>>
      /\ acpProc'[p].agent = {} /\ acpProc'[p].kind = "none"
  BY <1>1, AcpStops, AcpEnds
<1>3. /\ settled' = settled \ acpProc[p].agent /\ acpProc[p].at # "idle"
      /\ UNCHANGED <<renames, form, archive, binary, acpDisturbed>>
  BY <1>1, AcpStops
<1>4. PICK ix \in {ACP!Readable, <<>>} : ACP!Readable' = ix
  BY <1>1, AcpStops, ReadableStays, GarbledIsEmpty
<1>5. Backed'
  <2>1. BackedDoc(<<>>) /\ ACP!IsIndex(<<>>)
    BY AcpConstants DEF BackedDoc
  <2>2. BackedDoc(ix) /\ ACP!IsIndex(ix)
    BY <1>1, <1>4, <2>1, ReadableIsAnIndex DEF AcpInv, Backed
  <2>3. OwnFiles(p)'
    BY <1>2 DEF OwnFiles, Unpacking
  <2> QED
    BY <1>1, <1>2, <1>4, <2>1, <2>2, <2>3, BackedNext DEF AcpInv
<1>6. ArchivesKept'
  BY <1>1, <1>2, <1>3, AcpStops, KeptNext DEF AcpInv
<1>7. Settled'
  <2>1. ~acpDisturbed => (\A q \in Procs \ {p} : acpProc[q].at = "idle")
    BY <1>1, <1>3, AloneWhenBusy DEF AcpInv
  <2>2. Prepared(p)'
    BY <1>2 DEF Prepared
  <2>3. ASSUME NEW a \in settled', IsUnpacked(a)'
        PROVE  FreshIn(ACP!Readable, a)' /\ FreshIn(acpProc[p].doc, a)'
    <3>1. a \in settled /\ ~Installs(p, a) /\ IsUnpacked(a)
      BY <1>3, <2>3 DEF Installs, IsUnpacked
    <3>2. FreshIn(ACP!Readable, a)
      BY <1>1, <1>3, <3>1, SettledIsFresh DEF AcpInv
    <3>3. \A v : Fresh(a, v)' <=> Fresh(a, v)
      BY <1>3 DEF Fresh
    <3>4. Lists(<<>>) = {}
      BY AcpConstants
    <3> QED
      BY <1>2, <1>4, <3>2, <3>3, <3>4 DEF FreshIn, Lists
  <2>4. acpDisturbed => settled' = {}
    BY <1>3 DEF AcpInv, Settled
  <2> QED
    BY <1>1, <1>2, <1>3, <2>1, <2>2, <2>3, <2>4, SettledNext
<1> QED
  BY <1>5, <1>6, <1>7 DEF AcpInv

LEMMA InstallKeeps ==
  ASSUME NEW p \in Procs, NEW a \in Agents, NEW preferred \in {"npx", "uvx", "binary", "none"},
         AcpInv, AcpTyped', ACP!Install(p, a, preferred)
  PROVE  AcpInv'
<1>1. [ACP!Next]_acpVars /\ AcpTyped
  BY DEF ACP!Next, AcpInv
<1>2. /\ AcpMoves(p) /\ acpProc[p].at = "idle" /\ acpProc'[p].agent = {a} /\ acpProc'[p].doc = <<>>
      /\ acpProc'[p].at \in {"downloading", "unpacked"}
      /\ acpProc'[p].at = "unpacked" => acpProc'[p].kind # "binary"
  BY <1>1, AcpStarts
<1>3. UNCHANGED <<renames, form, archive, binary, installed, torn>> /\ ACP!Begins
  BY DEF ACP!Install, ACP!offer
<1>4. PICK ix : ix = ACP!Readable
  OBVIOUS
<1>5. Backed'
  <2>1. BackedDoc(<<>>) /\ ACP!IsIndex(<<>>)
    BY AcpConstants DEF BackedDoc
  <2>2. BackedDoc(ix) /\ ACP!IsIndex(ix) /\ ACP!Readable' = ix
    BY <1>1, <1>3, <1>4, ReadableIsAnIndex, ReadableStays DEF AcpInv, Backed
  <2>3. OwnFiles(p)'
    BY <1>2 DEF OwnFiles, Unpacking
  <2> QED
    BY <1>1, <1>2, <2>1, <2>2, <2>3, BackedNext DEF AcpInv
<1>6. ArchivesKept'
  BY <1>1, <1>2, <1>3, KeptNext DEF AcpInv
<1>7. Settled'
  <2>1. /\ settled' \subseteq settled /\ (acpDisturbed' => settled' = {})
        /\ ~acpDisturbed' => \A q \in Procs : acpProc[q].at = "idle"
    BY <1>1, <1>3, AcpBegins
  <2>2. Prepared(p)'
    BY <1>2 DEF Prepared
  <2>3. ASSUME NEW b \in settled', IsUnpacked(b)'
        PROVE  FreshIn(ACP!Readable, b)' /\ FreshIn(acpProc[p].doc, b)'
    <3>1. ~acpDisturbed' /\ b \in settled /\ IsUnpacked(b)
      BY <1>3, <2>1, <2>3 DEF IsUnpacked, AcpTyped
    <3>2. ~Installs(p, b)
      BY <1>1, <1>2 DEF Installs, AcpTyped, AcpOperation
    <3>3. FreshIn(ACP!Readable, b)
      BY <1>1, <2>1, <3>1, <3>2, SettledIsFresh DEF AcpInv
    <3>4. Lists(<<>>) = {} /\ ACP!Readable' = ACP!Readable
      BY <1>3, AcpConstants, ReadableStays
    <3> QED
      BY <1>2, <1>3, <3>3, <3>4 DEF FreshIn, Fresh, Lists
  <2> QED
    BY <1>1, <1>2, <1>3, <2>1, <2>2, <2>3, SettledNext
<1> QED
  BY <1>5, <1>6, <1>7 DEF AcpInv

LEMMA RecordKeeps ==
  ASSUME NEW p \in Procs, AcpInv, AcpTyped', ACP!LoadToRecord(p)
  PROVE  AcpInv'
<1> DEFINE doc == ACP!Recorded(ACP!Readable, ACP!Agent(p), acpProc[p].version, acpProc[p].kind)
<1>1. [ACP!Next]_acpVars /\ AcpTyped
  BY DEF ACP!Next, AcpInv
<1>2. /\ acpProc[p].at = "unpacked" /\ acpProc' = [acpProc EXCEPT ![p].at = "loaded", ![p].doc = doc]
      /\ UNCHANGED <<renames, form, archive, binary, installed, acpDisturbed, settled, torn>>
  BY DEF ACP!LoadToRecord, ACP!offer, ACP!ledger
<1>3. ACP!Agent(p) \in Agents /\ acpProc[p].agent = {ACP!Agent(p)} /\ acpProc[p].version \in ACP!Versions
  BY <1>1, <1>2, AcpUnderWay DEF Unpacking
<1>4. \A a \in Lists(doc) : IF a = ACP!Agent(p)
                            THEN acpProc[p].kind = "binary" /\ doc[a].version = acpProc[p].version
                            ELSE a \in Lists(ACP!Readable) /\ doc[a] = ACP!Readable[a]
  BY DEF Lists, ACP!Recorded
<1> HIDE DEF doc
<1>5. AcpMoves(p) /\ AcpGoesOn(p) /\ acpProc'[p].at = "loaded" /\ acpProc'[p].doc = doc
  BY <1>1, <1>2, AcpLoads
<1>6. ACP!Agent(p)' = ACP!Agent(p) /\ ACP!Archive(p)' = ACP!Archive(p) /\ ACP!Readable' = ACP!Readable
  BY <1>1, <1>2, <1>5, AcpOthers, ReadableStays
<1>7. PICK A \in Agents : A = ACP!Agent(p)
  BY <1>3
<1>8. OwnFiles(p) /\ BackedDoc(ACP!Readable) /\ ACP!IsIndex(ACP!Readable)
  BY <1>1, ReadableIsAnIndex DEF AcpInv, Backed
<1>9. Backed'
  <2>1. acpProc[p].kind = "binary" => Stored(A, acpProc[p].version)
    BY <1>2, <1>7, <1>8 DEF OwnFiles, Stored, ACP!Archive, Unpacking
  <2>2. BackedDoc(doc)
    BY <1>4, <1>7, <1>8, <2>1 DEF BackedDoc
  <2>3. ACP!IsIndex(doc)
    BY <1>5 DEF AcpTyped, AcpOperation
  <2>4. OwnFiles(p)'
    BY <1>5 DEF OwnFiles, Unpacking
  <2>5. PICK ix : ix = ACP!Readable
    OBVIOUS
  <2>6. PICK d : d = doc
    OBVIOUS
  <2> QED
    BY <1>1, <1>5, <1>6, <1>8, <2>2, <2>3, <2>4, <2>5, <2>6, BackedNext DEF AcpInv
<1>10. ArchivesKept'
  BY <1>1, <1>2, <1>5, KeptNext DEF AcpInv
<1>11. Settled'
  <2>1. ~acpDisturbed => (\A q \in Procs \ {p} : acpProc[q].at = "idle")
    BY <1>1, <1>2, AloneWhenBusy DEF AcpInv
  <2>2. ASSUME ~acpDisturbed PROVE Prepared(p)'
    <3>1. acpProc[p].kind = "binary" /\ IsUnpacked(A) => Fresh(A, acpProc[p].version)
      BY <1>2, <1>7, <2>2 DEF AcpInv, Settled, Prepared
    <3>2. A \in Lists(doc) => doc[A].version = acpProc[p].version
      BY <1>4, <1>7
    <3>3. (IsUnpacked(A)' <=> IsUnpacked(A)) /\ \A v : Fresh(A, v)' <=> Fresh(A, v)
      BY <1>2 DEF IsUnpacked, Fresh
    <3> QED
      BY <1>5, <1>6, <1>7, <3>1, <3>2, <3>3 DEF Prepared, AcpGoesOn
  <2>3. ASSUME NEW a \in settled', IsUnpacked(a)', ~Installs(p, a)'
        PROVE  FreshIn(ACP!Readable, a)' /\ FreshIn(acpProc[p].doc, a)'
    <3>1. a \in settled /\ ~Installs(p, a) /\ IsUnpacked(a)
      BY <1>2, <1>5, <2>3 DEF Installs, IsUnpacked, AcpGoesOn
    <3>2. FreshIn(ACP!Readable, a)
      BY <1>1, <1>2, <3>1, SettledIsFresh DEF AcpInv
    <3>3. FreshIn(doc, a)
      BY <1>3, <1>4, <3>1, <3>2 DEF FreshIn, Installs
    <3>4. \A v : Fresh(a, v)' <=> Fresh(a, v)
      BY <1>2 DEF Fresh
    <3> QED
      BY <1>5, <1>6, <3>2, <3>3, <3>4 DEF FreshIn, Lists
  <2>4. acpDisturbed => settled' = {}
    BY <1>2 DEF AcpInv, Settled
  <2> QED
    BY <1>1, <1>2, <1>5, <2>1, <2>2, <2>3, <2>4, SettledNext
<1> QED
  BY <1>9, <1>10, <1>11 DEF AcpInv

LEMMA RemoveKeeps ==
  ASSUME NEW p \in Procs, NEW a \in Agents, AcpInv, AcpTyped', ACP!LoadToRemove(p, a)
  PROVE  AcpInv'
<1> DEFINE doc == [b \in DOMAIN ACP!Readable \ {a} |-> ACP!Readable[b]]
<1>1. [ACP!Next]_acpVars /\ AcpTyped
  BY DEF ACP!Next, AcpInv
<1>2. /\ acpProc[p].at = "idle" /\ acpProc' = [acpProc EXCEPT ![p].at = "loaded", ![p].doc = doc]
      /\ UNCHANGED <<renames, form, archive, binary, installed, torn>> /\ ACP!Begins
  BY DEF ACP!LoadToRemove, ACP!offer
<1>3. \A b \in Lists(doc) : b \in Lists(ACP!Readable) /\ doc[b] = ACP!Readable[b]
  BY DEF Lists
<1> HIDE DEF doc
<1>4. AcpMoves(p) /\ AcpGoesOn(p) /\ acpProc'[p].at = "loaded" /\ acpProc'[p].doc = doc
  BY <1>1, <1>2, AcpLoads
<1>5. acpProc'[p].kind = "none" /\ ACP!Readable' = ACP!Readable
  BY <1>1, <1>2, <1>4, ReadableStays DEF AcpGoesOn, AcpTyped, AcpOperation
<1>6. Backed'
  <2>1. BackedDoc(ACP!Readable) /\ ACP!IsIndex(ACP!Readable)
    BY <1>1, ReadableIsAnIndex DEF AcpInv, Backed
  <2>2. BackedDoc(doc)
    BY <1>3, <2>1 DEF BackedDoc
  <2>3. ACP!IsIndex(doc)
    BY <1>4 DEF AcpTyped, AcpOperation
  <2>4. OwnFiles(p)'
    BY <1>4 DEF OwnFiles, Unpacking
  <2>5. PICK ix : ix = ACP!Readable
    OBVIOUS
  <2>6. PICK d : d = doc
    OBVIOUS
  <2> QED
    BY <1>1, <1>4, <1>5, <2>1, <2>2, <2>3, <2>4, <2>5, <2>6, BackedNext DEF AcpInv
<1>7. ArchivesKept'
  BY <1>1, <1>2, <1>4, KeptNext DEF AcpInv
<1>8. Settled'
  <2>1. /\ settled' \subseteq settled /\ (acpDisturbed' => settled' = {})
        /\ ~acpDisturbed' => \A q \in Procs : acpProc[q].at = "idle"
    BY <1>1, <1>2, AcpBegins
  <2>2. Prepared(p)'
    BY <1>5 DEF Prepared
  <2>3. ASSUME NEW b \in settled', IsUnpacked(b)'
        PROVE  FreshIn(ACP!Readable, b)' /\ FreshIn(acpProc[p].doc, b)'
    <3>1. ~acpDisturbed' /\ b \in settled /\ IsUnpacked(b)
      BY <1>2, <2>1, <2>3 DEF IsUnpacked, AcpTyped
    <3>2. ~Installs(p, b)
      BY <1>1, <1>2 DEF Installs, AcpTyped, AcpOperation
    <3>3. FreshIn(ACP!Readable, b)
      BY <1>1, <2>1, <3>1, <3>2, SettledIsFresh DEF AcpInv
    <3>4. FreshIn(doc, b)
      BY <1>3, <3>3 DEF FreshIn
    <3>5. \A v : Fresh(b, v)' <=> Fresh(b, v)
      BY <1>2 DEF Fresh
    <3> QED
      BY <1>4, <1>5, <3>3, <3>4, <3>5 DEF FreshIn, Lists
  <2> QED
    BY <1>1, <1>2, <1>4, <2>1, <2>2, <2>3, SettledNext
<1> QED
  BY <1>6, <1>7, <1>8 DEF AcpInv

LEMMA OpenKeeps ==
  ASSUME NEW p \in Procs, AcpInv, AcpTyped', ACP!Open(p)
  PROVE  AcpInv'
<1>1. [ACP!Next]_acpVars /\ AcpTyped
  BY DEF ACP!Next, AcpInv
<1>2. /\ acpProc[p].at = "loaded" /\ ACP!Goto(p, "open") /\ installed' = ACP!Garbled
      /\ UNCHANGED <<renames, form, archive, binary, acpDisturbed, settled, torn>>
  BY DEF ACP!Open, ACP!offer, ACP!ledger
<1>3. AcpMoves(p) /\ AcpGoesOn(p) /\ acpProc'[p].at = "open" /\ acpProc'[p].doc = acpProc[p].doc
  BY <1>1, <1>2, AcpGoes
<1>4. ACP!Agent(p)' = ACP!Agent(p) /\ ACP!Readable' = <<>> /\ Lists(<<>>) = {}
  BY <1>1, <1>2, <1>3, AcpOthers, GarbledIsEmpty, AcpConstants
<1>5. Backed'
  <2>1. BackedDoc(<<>>) /\ ACP!IsIndex(<<>>)
    BY AcpConstants DEF BackedDoc
  <2>2. PICK d : d = acpProc[p].doc
    OBVIOUS
  <2>3. BackedDoc(d) /\ ACP!IsIndex(d)
    BY <1>1, <2>2 DEF AcpInv, Backed, AcpTyped, AcpOperation
  <2>4. OwnFiles(p)'
    BY <1>3 DEF OwnFiles, Unpacking
  <2> QED
    BY <1>1, <1>3, <1>4, <2>1, <2>2, <2>3, <2>4, BackedNext DEF AcpInv
<1>6. ArchivesKept'
  BY <1>1, <1>2, <1>3, KeptNext DEF AcpInv
<1>7. Settled'
  <2>1. ~acpDisturbed => (\A q \in Procs \ {p} : acpProc[q].at = "idle")
    BY <1>1, <1>2, AloneWhenBusy DEF AcpInv
  <2>2. ASSUME ~acpDisturbed PROVE Prepared(p)'
    <3>1. PICK A : A = ACP!Agent(p)
      OBVIOUS
    <3>2. Prepared(p)
      BY <2>2 DEF AcpInv, Settled
    <3>3. (IsUnpacked(A)' <=> IsUnpacked(A)) /\ \A v : Fresh(A, v)' <=> Fresh(A, v)
      BY <1>2 DEF IsUnpacked, Fresh
    <3> QED
      BY <1>2, <1>3, <1>4, <3>1, <3>2, <3>3 DEF Prepared, AcpGoesOn, Lists
  <2>3. ASSUME NEW a \in settled', IsUnpacked(a)', ~Installs(p, a)'
        PROVE  FreshIn(ACP!Readable, a)' /\ FreshIn(acpProc[p].doc, a)'
    <3>1. a \in settled /\ ~Installs(p, a) /\ IsUnpacked(a)
      BY <1>2, <1>3, <2>3 DEF Installs, IsUnpacked, AcpGoesOn
    <3>2. FreshIn(acpProc[p].doc, a)
      BY <1>1, <1>2, <3>1, SettledIsFresh DEF AcpInv
    <3>3. \A v : Fresh(a, v)' <=> Fresh(a, v)
      BY <1>2 DEF Fresh
    <3> QED
      BY <1>3, <1>4, <3>2, <3>3 DEF FreshIn, Lists
  <2>4. acpDisturbed => settled' = {}
    BY <1>2 DEF AcpInv, Settled
  <2> QED
    BY <1>1, <1>2, <1>3, <2>1, <2>2, <2>3, <2>4, SettledNext
<1> QED
  BY <1>5, <1>6, <1>7 DEF AcpInv

LEMMA WriteKeeps ==
  ASSUME NEW p \in Procs, AcpInv, AcpTyped', ACP!Write(p)
  PROVE  AcpInv'
<1>1. [ACP!Next]_acpVars /\ AcpTyped
  BY DEF ACP!Next, AcpInv
<1>2. /\ acpProc[p].at = "open" /\ acpProc' = [acpProc EXCEPT ![p] = ACP!Idle] /\ installed' = acpProc[p].doc
      /\ UNCHANGED <<renames, form, archive, binary, acpDisturbed, torn>>
      /\ settled' = IF ~acpDisturbed /\ acpProc[p].kind = "binary" THEN settled \cup acpProc[p].agent ELSE settled
  BY DEF ACP!Write, ACP!offer
<1>3. /\ AcpMoves(p) /\ acpProc'[p].at = "idle" /\ acpProc'[p].doc = <<>>
      /\ acpProc'[p].agent = {} /\ acpProc'[p].kind = "none"
  BY <1>1, <1>2, AcpEnds
<1>4. Lists(<<>>) = {} /\ BackedDoc(<<>>) /\ ACP!IsIndex(<<>>)
  BY AcpConstants DEF BackedDoc
<1>5. PICK ix \in {acpProc[p].doc, <<>>} : ACP!Readable' = ix
  BY <1>2 DEF ACP!Readable
<1>6. Backed'
  <2>1. BackedDoc(ix) /\ ACP!IsIndex(ix)
    BY <1>1, <1>4, <1>5 DEF AcpInv, Backed, AcpTyped, AcpOperation
  <2>2. OwnFiles(p)'
    BY <1>3 DEF OwnFiles, Unpacking
  <2> QED
    BY <1>1, <1>3, <1>4, <1>5, <2>1, <2>2, BackedNext DEF AcpInv
<1>7. ArchivesKept'
  BY <1>1, <1>2, <1>3, KeptNext DEF AcpInv
<1>8. Settled'
  <2>1. ~acpDisturbed => (\A q \in Procs \ {p} : acpProc[q].at = "idle")
    BY <1>1, <1>2, AloneWhenBusy DEF AcpInv
  <2>2. Prepared(p)'
    BY <1>3 DEF Prepared
  <2>3. ASSUME NEW a \in settled', IsUnpacked(a)'
        PROVE  FreshIn(ACP!Readable, a)' /\ FreshIn(acpProc[p].doc, a)'
    <3>1. IsUnpacked(a) /\ \A v : Fresh(a, v)' <=> Fresh(a, v)
      BY <1>2, <2>3 DEF IsUnpacked, Fresh
    <3>2. FreshIn(acpProc[p].doc, a)
      <4>1. CASE ~Installs(p, a)
        <5>1. acpProc[p].kind = "binary" => acpProc[p].agent = {ACP!Agent(p)}
          BY <1>1, AcpUnderWay
        <5>2. a \in settled
          BY <1>2, <2>3, <4>1, <5>1 DEF Installs
        <5> QED
          BY <1>1, <1>2, <3>1, <4>1, <5>2, SettledIsFresh DEF AcpInv
      <4>2. CASE Installs(p, a)
        <5>1. a = ACP!Agent(p) /\ acpProc[p].kind = "binary"
          BY <1>1, <4>2, AcpUnderWay DEF Installs
        <5>2. ~acpDisturbed
          BY <1>1, <1>2, <2>3 DEF AcpInv, Settled, AcpTyped
        <5>3. Prepared(p)
          BY <5>2 DEF AcpInv, Settled
        <5> QED
          BY <1>2, <3>1, <5>1, <5>3 DEF Prepared, FreshIn
      <4> QED
        BY <4>1, <4>2
    <3>3. FreshIn(ix, a)
      BY <1>4, <1>5, <3>2 DEF FreshIn
    <3> QED
      BY <1>3, <1>4, <1>5, <3>1, <3>3 DEF FreshIn, Lists
  <2>4. acpDisturbed => settled' = {}
    BY <1>2 DEF AcpInv, Settled
  <2> QED
    BY <1>1, <1>2, <1>3, <2>1, <2>2, <2>3, <2>4, SettledNext
<1> QED
  BY <1>6, <1>7, <1>8 DEF AcpInv

LEMMA AcpNext == AcpInv /\ [ACP!Next]_acpVars => AcpInv'
<1> SUFFICES ASSUME AcpInv, [ACP!Next]_acpVars PROVE AcpInv'
  OBVIOUS
<1>0. AcpTyped /\ AcpTyped'
  BY AcpTypedNext DEF AcpInv
<1>1. CASE UNCHANGED <<renames, form, archive, binary, installed, acpProc, acpDisturbed, settled, torn>>
  <2>1. Backed'
    BY <1>1 DEF AcpInv, Backed, BackedDoc, Stored, OwnFiles, ACP!Readable, ACP!Agent, ACP!Archive, ACP!Name, Lists
  <2>2. ArchivesKept'
    BY <1>1 DEF AcpInv, ArchivesKept, WritesTo, ACP!Name
  <2>3. Settled'
    <3>1. /\ \A p \in Procs : ACP!Agent(p)' = ACP!Agent(p) /\ ACP!Archive(p)' = ACP!Archive(p)
          /\ \A a, v : Fresh(a, v)' <=> Fresh(a, v)
          /\ \A a : IsUnpacked(a)' <=> IsUnpacked(a)
          /\ ACP!Readable' = ACP!Readable
      BY <1>1 DEF Fresh, IsUnpacked, ACP!Readable, ACP!Agent, ACP!Archive, ACP!Name
    <3>2. \A p \in Procs : Prepared(p)' <=> Prepared(p)
      BY <1>1, <3>1 DEF Prepared, Lists
    <3>3. \A a : /\ FreshIn(ACP!Readable, a)' <=> FreshIn(ACP!Readable, a)
                 /\ \A p \in Procs : FreshIn(acpProc[p].doc, a)' <=> FreshIn(acpProc[p].doc, a)
      BY <1>1, <3>1 DEF FreshIn, Lists
    <3> QED
      BY <1>1, <3>1, <3>2, <3>3 DEF AcpInv, Settled, Installs
  <2> QED
    BY <1>0, <2>1, <2>2, <2>3 DEF AcpInv
<1>2. CASE ACP!Release \/ \E p \in Procs : ACP!Fetch(p) \/ ACP!Exit(p)
  BY <1>1, <1>2 DEF ACP!Release, ACP!Fetch, ACP!Exit, ACP!offer, ACP!ledger
<1>3. ASSUME NEW p \in Procs, ACP!LoadToRecord(p) \/ \E a \in Agents : ACP!LoadToRemove(p, a) PROVE AcpInv'
  BY <1>0, <1>3, RecordKeeps, RemoveKeeps
<1>4. ASSUME NEW p \in Procs,
             \/ ACP!SkipDownload(p) \/ ACP!Download(p) \/ ACP!OpenArchive(p) \/ ACP!FillArchive(p)
             \/ ACP!Extract(p) \/ ACP!FillBinary(p) \/ ACP!TakeAsItIs(p)
      PROVE  AcpInv'
  BY <1>0, <1>4, DownloadKeeps, UnpackKeeps
<1>5. CASE UNCHANGED acpVars
  BY <1>1, <1>5 DEF acpVars
<1>6. CASE ACP!Next
  BY <1>0, <1>2, <1>3, <1>4, <1>6, AcpFrame, InstallKeeps, StopKeeps, OpenKeeps, WriteKeeps
<1> QED
  BY <1>5, <1>6

LEMMA AcpIsThere == AcpInv => ACP!InstalledIsThere
<1> SUFFICES ASSUME AcpInv, NEW a \in ACP!Binaries, form[a] # "without"
             PROVE  /\ ACP!Held(a) # ACP!None
                    /\ (\A p \in Procs : acpProc[p].at = "idle")
                       /\ (IF form[a] = "bare" THEN a \notin torn ELSE a \in settled) =>
                         ACP!Held(a).whole /\ (renames => ACP!Held(a).version = ACP!Readable[a].version)
  BY DEF ACP!InstalledIsThere
<1>1. ACP!IsIndex(ACP!Readable) /\ AcpTyped
  BY ReadableIsAnIndex DEF AcpInv
<1>2. a \in Lists(ACP!Readable) /\ a \in Agents /\ ACP!Readable[a].version \in ACP!Versions
  BY <1>1 DEF ACP!Binaries, Lists, ACP!IsIndex
<1>3. PICK v \in ACP!Versions : v = ACP!Readable[a].version
  BY <1>2
<1>4. ACP!Name(v) \in ACP!Versions /\ (renames => ACP!Name(v) = v)
  BY NameIsAVersion
<1>5. Stored(a, v)
  BY <1>2, <1>3 DEF AcpInv, Backed, BackedDoc
<1>6. ACP!Held(a) # ACP!None
  BY <1>3, <1>5 DEF ACP!Held, Stored
<1>7. ASSUME \A p \in Procs : acpProc[p].at = "idle", form[a] = "bare", a \notin torn
      PROVE  ACP!Held(a).whole /\ (renames => ACP!Held(a).version = v)
  <2>1. ACP!Held(a) = archive[a][ACP!Name(v)]
    BY <1>3, <1>7 DEF ACP!Held
  <2>2. ~\E p \in Procs : WritesTo(p, a, ACP!Name(v))
    BY <1>7 DEF WritesTo
  <2> QED
    BY <1>2, <1>4, <1>6, <1>7, <2>1, <2>2 DEF AcpInv, ArchivesKept
<1>8. ASSUME \A p \in Procs : acpProc[p].at = "idle", form[a] # "bare", a \in settled
      PROVE  ACP!Held(a).whole /\ (renames => ACP!Held(a).version = v)
  <2>1. ACP!Held(a) = binary[a] /\ IsUnpacked(a)
    BY <1>8 DEF ACP!Held, IsUnpacked
  <2>2. \A p \in Procs : ~Installs(p, a)
    BY <1>1, <1>8 DEF Installs, AcpTyped, AcpOperation
  <2>3. FreshIn(ACP!Readable, a)
    BY <1>8, <2>1, <2>2 DEF AcpInv, Settled
  <2> QED
    BY <1>2, <1>3, <2>1, <2>3 DEF FreshIn, Fresh
<1> QED
  BY <1>3, <1>6, <1>7, <1>8

-----------------------------------------------------------------------------
(* Extensions                                                              *)

Audited(s, c) ==
  Policies[c] = "allow" /\ [source |-> s, capability |-> c, decision |-> "allowed"] \in exAudit
Gated(s) == \A c \in Elements(Permissions[s]) : Audited(s, c)
Lawful(doc) ==
  /\ doc \subseteq Sources /\ \A s \in doc : Gated(s)
  /\ \A s, t \in doc : NameOf[s] = NameOf[t] => s = t

\* A capability is still to be checked, or has been; later the gates are passed.
ExtOperation(o) ==
  /\ DOMAIN o = {"at", "source", "consent", "todo", "doc"}
  /\ o.at \in {"idle", "checking", "signing", "recording", "writing", "auditing"}
  /\ o.source = {} \/ \E s \in Sources : o.source = {s}
  /\ o.at \in {"checking", "signing", "recording", "auditing"} => o.source # {}
  /\ o.at = "checking" =>
       /\ o.todo \in Seq(DOMAIN Policies)
       /\ \A s \in o.source : \A c \in Elements(Permissions[s]) : c \in Elements(o.todo) \/ Audited(s, c)
  /\ o.at \in {"signing", "recording"} => \A s \in o.source : Gated(s)
  /\ o.at = "writing" => Lawful(o.doc)
  /\ o.at = "auditing" => o.source \subseteq exRecorded

ExtInv ==
  /\ Lawful(index)
  /\ \A s \in Sources : [unsigned |-> s] \in exAudit => s \in exRecorded
  /\ DOMAIN exProc = Procs /\ \A p \in Procs : ExtOperation(exProc[p])

ExtMoves(p) ==
  /\ DOMAIN exProc' = Procs /\ \A q \in Procs \ {p} : exProc'[q] = exProc[q]
  /\ DOMAIN exProc'[p] = {"at", "source", "consent", "todo", "doc"}

ExtGoesOn(p) == exProc'[p].source = exProc[p].source /\ exProc'[p].todo = exProc[p].todo

LEMMA ExtGoes ==
  ASSUME ExtInv, NEW p \in Procs, NEW x, Ext!Goto(p, x)
  PROVE  ExtMoves(p) /\ ExtGoesOn(p) /\ exProc'[p].at = x /\ exProc'[p].doc = exProc[p].doc
BY DEF ExtInv, ExtOperation, Ext!Goto, ExtMoves, ExtGoesOn

LEMMA ExtLoads ==
  ASSUME ExtInv, NEW p \in Procs, NEW doc,
         exProc' = [exProc EXCEPT ![p].at = "writing", ![p].doc = doc]
  PROVE  ExtMoves(p) /\ ExtGoesOn(p) /\ exProc'[p].at = "writing" /\ exProc'[p].doc = doc
BY DEF ExtInv, ExtOperation, ExtMoves, ExtGoesOn

LEMMA ExtIdle == ExtOperation(Ext!Idle) /\ ExtOperation(Ext!Idle)'
BY DEF Ext!Idle, ExtOperation

LEMMA ExtEnds ==
  ASSUME ExtInv, NEW p \in Procs, Ext!Rejected(p)
  PROVE  ExtMoves(p) /\ exProc'[p] = Ext!Idle /\ ExtOperation(exProc[p])'
<1>1. ExtMoves(p) /\ exProc'[p] = Ext!Idle
  BY DEF ExtInv, Ext!Rejected, ExtMoves, Ext!Idle
<1> QED
  BY <1>1, ExtIdle DEF ExtOperation, Audited, Gated, Lawful

LEMMA SourceIsOne ==
  ASSUME ExtInv, NEW p \in Procs, exProc[p].source # {}
  PROVE  Ext!Source(p) \in Sources /\ exProc[p].source = {Ext!Source(p)}
<1>1. PICK s \in Sources : exProc[p].source = {s}
  BY DEF ExtInv, ExtOperation
<1>2. Ext!Source(p) \in Sources /\ Ext!Source(p) \in exProc[p].source
  BY <1>1 DEF Ext!Source
<1> QED
  BY <1>1, <1>2

\* The audit log only grows, so what was audited stays so.
LEMMA ExtStep ==
  ASSUME ExtInv, NEW p \in Procs, ExtMoves(p), ExtOperation(exProc[p])', Lawful(index)',
         exAudit \subseteq exAudit', exRecorded \subseteq exRecorded',
         \A s \in Sources : [unsigned |-> s] \in exAudit' => s \in exRecorded'
  PROVE  ExtInv'
<1>1. ASSUME NEW q \in Procs PROVE ExtOperation(exProc[q])'
  <2>1. CASE q = p
    BY <2>1
  <2>2. CASE q # p
    <3>1. exProc'[q] = exProc[q] /\ ExtOperation(exProc[q])
      BY <2>2 DEF ExtInv, ExtMoves
    <3>2. \A s : Gated(s) => Gated(s)'
      BY DEF Gated, Audited
    <3>3. \A s, c : Audited(s, c) => Audited(s, c)'
      BY DEF Audited
    <3>4. \A doc : Lawful(doc) => /\ doc \subseteq Sources /\ \A s \in doc : Gated(s)'
                                  /\ \A s, t \in doc : NameOf[s] = NameOf[t] => s = t
      BY <3>2 DEF Lawful
    <3> QED
      BY <3>1, <3>2, <3>3, <3>4 DEF ExtOperation, Lawful
  <2> QED
    BY <2>1, <2>2
<1> QED
  BY <1>1 DEF ExtInv, ExtMoves

LEMMA Ended ==
  ASSUME ExtInv, NEW p \in Procs, Ext!Rejected(p), UNCHANGED index, exRecorded \subseteq exRecorded',
         exAudit \subseteq exAudit',
         \A s \in Sources : [unsigned |-> s] \in exAudit' => s \in exRecorded'
  PROVE  ExtInv'
<1>1. Lawful(index)'
  BY DEF ExtInv, Lawful, Gated, Audited
<1> QED
  BY <1>1, ExtEnds, ExtStep

LEMMA WentOn ==
  ASSUME ExtInv, NEW p \in Procs, ExtMoves(p), ExtOperation(exProc[p])', UNCHANGED <<index, exAudit, exRecorded>>
  PROVE  ExtInv'
<1>1. Lawful(index)'
  BY DEF ExtInv, Lawful, Gated, Audited
<1> QED
  BY <1>1, ExtStep DEF ExtInv

LEMMA ExtFirst == Ext!Init => ExtInv
<1> SUFFICES ASSUME Ext!Init PROVE ExtInv
  OBVIOUS
<1>1. Lawful(index)
  BY DEF Ext!Init, Lawful
<1> QED
  BY <1>1, ExtIdle DEF Ext!Init, ExtInv

LEMMA ExtNext == ExtInv /\ [Ext!Next]_exVars => ExtInv'
<1> SUFFICES ASSUME ExtInv, [Ext!Next]_exVars PROVE ExtInv'
  OBVIOUS
<1>1. ASSUME NEW p \in Procs, NEW s \in Sources, NEW consent \in BOOLEAN, Ext!Install(p, s, consent)
      PROVE  ExtInv'
  <2> DEFINE o == [Ext!Idle EXCEPT !.at = "checking", !.source = {s}, !.consent = consent,
                                   !.todo = Permissions[s]]
  <2>1. exProc' = [exProc EXCEPT ![p] = o] /\ UNCHANGED <<index, exAudit, exRecorded>>
    BY <1>1 DEF Ext!Install
  <2>2. /\ o.at = "checking" /\ o.source = {s} /\ o.todo = Permissions[s]
        /\ DOMAIN o = {"at", "source", "consent", "todo", "doc"}
    BY DEF Ext!Idle
  <2> HIDE DEF o
  <2>3. exProc'[p] = o /\ ExtMoves(p)
    BY <2>1, <2>2 DEF ExtInv, ExtMoves
  <2>4. Permissions[s] \in Seq(DOMAIN Policies)
    BY ExtensionsAssumption DEF Ext!ExtensionsAssumption
  <2>5. ExtOperation(exProc[p])'
    BY <2>2, <2>3, <2>4 DEF ExtOperation
  <2> QED
    BY <2>1, <2>3, <2>5, WentOn
<1>2. ASSUME NEW p \in Procs, Ext!Check(p) PROVE ExtInv'
  <2>1. PICK c : /\ c = Head(exProc[p].todo)
                 /\ exAudit' = exAudit \cup
                      {[source |-> Ext!Source(p), capability |-> c, decision |-> Ext!Decide(c)]}
                 /\ IF Ext!Passes(Ext!Decide(c)) THEN exProc' = [exProc EXCEPT ![p].todo = Tail(@)]
                    ELSE Ext!Rejected(p)
    BY <1>2 DEF Ext!Check
  <2>2. exProc[p].at = "checking" /\ exProc[p].todo # <<>> /\ UNCHANGED <<index, exRecorded>>
    BY <1>2 DEF Ext!Check
  <2>3. exProc[p].todo \in Seq(DOMAIN Policies) /\ exProc[p].source # {}
    BY <2>2 DEF ExtInv, ExtOperation
  <2>4. Ext!Source(p) \in Sources /\ exProc[p].source = {Ext!Source(p)}
    BY <2>3, SourceIsOne
  <2>5. ASSUME NEW s \in Sources, [unsigned |-> s] \in exAudit' PROVE s \in exRecorded'
    <3>1. DOMAIN [unsigned |-> s] = {"unsigned"}
      OBVIOUS
    <3>2. DOMAIN [source |-> Ext!Source(p), capability |-> c, decision |-> Ext!Decide(c)] =
            {"source", "capability", "decision"}
      OBVIOUS
    <3>3. [unsigned |-> s] \in exAudit
      BY <2>1, <2>5, <3>1, <3>2
    <3> QED
      BY <2>2, <3>3 DEF ExtInv
  <2>6. CASE ~Ext!Passes(Ext!Decide(c))
    BY <2>1, <2>2, <2>5, <2>6, Ended
  <2>7. CASE Ext!Passes(Ext!Decide(c))
    <3>1. Policies[c] = "allow" /\ Ext!Decide(c) = "allowed"
      BY <2>7 DEF Ext!Passes, Ext!Decide
    <3>3. PICK rest : rest = Tail(exProc[p].todo)
      OBVIOUS
    <3>4. exProc' = [exProc EXCEPT ![p].todo = rest]
      BY <2>1, <2>7, <3>3
    <3>5. /\ ExtMoves(p) /\ exProc'[p].source = exProc[p].source /\ exProc'[p].at = "checking"
          /\ exProc'[p].todo = rest
      BY <2>2, <3>4 DEF ExtInv, ExtOperation, ExtMoves
    <3>8. Ext!Source(p)' = Ext!Source(p)
      BY <3>5 DEF Ext!Source
    <3>2. Audited(Ext!Source(p), c)'
      BY <2>1, <3>1, <3>8 DEF Audited
    <3>6. rest \in Seq(DOMAIN Policies) /\ \A x \in Elements(exProc[p].todo) : x = c \/ x \in Elements(rest)
      BY <2>1, <2>2, <2>3, <3>3, HeadAndTail
    <3>7. \A d \in Elements(Permissions[Ext!Source(p)]) :
            d \in Elements(rest) \/ Audited(Ext!Source(p), d)'
      <4>1. \A d \in Elements(Permissions[Ext!Source(p)]) :
              d \in Elements(exProc[p].todo) \/ Audited(Ext!Source(p), d)
        BY <2>2, <2>4 DEF ExtInv, ExtOperation
      <4>2. \A d : Audited(Ext!Source(p), d) => Audited(Ext!Source(p), d)'
        BY <2>1, <3>8 DEF Audited
      <4> QED
        BY <3>2, <3>6, <4>1, <4>2
    <3>9. ExtOperation(exProc[p])'
      BY <2>4, <3>5, <3>6, <3>7, <3>8 DEF ExtOperation, ExtMoves, Audited
    <3>10. Lawful(index)'
      BY <2>1, <2>2 DEF ExtInv, Lawful, Gated, Audited
    <3> QED
      BY <2>1, <2>2, <2>5, <3>5, <3>9, <3>10, ExtStep
  <2> QED
    BY <2>6, <2>7
<1>3. ASSUME NEW p \in Procs, Ext!Checked(p) PROVE ExtInv'
  <2>1. /\ exProc[p].at = "checking" /\ exProc[p].todo = <<>> /\ UNCHANGED <<index, exAudit, exRecorded>>
        /\ Ext!Goto(p, "signing")
    BY <1>3 DEF Ext!Checked
  <2>2. ExtMoves(p) /\ ExtGoesOn(p) /\ exProc'[p].at = "signing"
    BY <2>1, ExtGoes
  <2>3. Elements(exProc[p].todo) = {}
    BY <2>1 DEF Elements
  <2>4. \A s \in exProc[p].source : Gated(s)'
    BY <2>1, <2>3 DEF ExtInv, ExtOperation, Gated, Audited
  <2>5. ExtOperation(exProc[p])'
    BY <2>1, <2>2, <2>4 DEF ExtInv, ExtOperation, ExtMoves, ExtGoesOn
  <2> QED
    BY <2>1, <2>2, <2>5, WentOn
<1>4. ASSUME NEW p \in Procs, Ext!Consent(p) PROVE ExtInv'
  <2>1. exProc[p].at = "signing" /\ UNCHANGED <<index, exAudit, exRecorded>>
    BY <1>4 DEF Ext!Consent
  <2>2. CASE Ext!Rejected(p)
    BY <2>1, <2>2, Ended DEF ExtInv
  <2>3. CASE Ext!Goto(p, "recording")
    <3>1. ExtMoves(p) /\ ExtGoesOn(p) /\ exProc'[p].at = "recording"
      BY <2>3, ExtGoes
    <3>2. \A s \in exProc[p].source : Gated(s)'
      BY <2>1 DEF ExtInv, ExtOperation, Gated, Audited
    <3>3. ExtOperation(exProc[p])'
      BY <2>1, <3>1, <3>2 DEF ExtInv, ExtOperation, ExtMoves, ExtGoesOn
    <3> QED
      BY <2>1, <3>1, <3>3, WentOn
  <2> QED
    BY <1>4, <2>2, <2>3 DEF Ext!Consent
<1>5. ASSUME NEW p \in Procs, NEW doc, Lawful(doc), exProc' = [exProc EXCEPT ![p].at = "writing", ![p].doc = doc],
             UNCHANGED <<index, exAudit, exRecorded>>
      PROVE  ExtInv'
  <2>1. ExtMoves(p) /\ ExtGoesOn(p) /\ exProc'[p].at = "writing" /\ exProc'[p].doc = doc
    BY <1>5, ExtLoads
  <2>2. Lawful(exProc[p].doc)'
    BY <1>5, <2>1 DEF Lawful, Gated, Audited
  <2>3. ExtOperation(exProc[p])'
    BY <1>5, <2>1, <2>2 DEF ExtInv, ExtOperation, ExtMoves, ExtGoesOn
  <2> QED
    BY <1>5, <2>1, <2>3, WentOn
<1>6. ASSUME NEW p \in Procs, Ext!LoadToRecord(p) PROVE ExtInv'
  <2>1. exProc[p].at = "recording" /\ exProc[p].source # {}
    BY <1>6 DEF Ext!LoadToRecord, ExtInv, ExtOperation
  <2>2. Ext!Source(p) \in Sources /\ exProc[p].source = {Ext!Source(p)}
    BY <2>1, SourceIsOne
  <2>3. Gated(Ext!Source(p))
    BY <2>1, <2>2 DEF ExtInv, ExtOperation
  <2>4. Lawful(Ext!With(index, Ext!Source(p)))
    BY <2>2, <2>3 DEF ExtInv, Lawful, Ext!With
  <2> QED
    BY <1>5, <1>6, <2>4 DEF Ext!LoadToRecord
<1>7. ASSUME NEW p \in Procs, NEW name \in ExtNames, Ext!LoadToRemove(p, name) PROVE ExtInv'
  <2>1. Lawful({s \in index : NameOf[s] # name})
    BY DEF ExtInv, Lawful
  <2> QED
    BY <1>5, <1>7, <2>1 DEF Ext!LoadToRemove
<1>8. ASSUME NEW p \in Procs, Ext!Write(p) PROVE ExtInv'
  <2>1. /\ exProc[p].at = "writing" /\ index' = exProc[p].doc /\ exAudit' = exAudit
        /\ exRecorded' = exRecorded \cup exProc[p].source
    BY <1>8 DEF Ext!Write
  <2>2. Lawful(index)'
    BY <2>1 DEF ExtInv, ExtOperation, Lawful, Gated, Audited
  <2>3. \A s \in Sources : [unsigned |-> s] \in exAudit' => s \in exRecorded'
    BY <2>1 DEF ExtInv
  <2>4. ExtMoves(p) /\ ExtOperation(exProc[p])'
    <3>1. CASE exProc[p].source = {}
      BY <1>8, <3>1, ExtEnds DEF Ext!Write
    <3>2. CASE exProc[p].source # {}
      <4>1. ExtMoves(p) /\ ExtGoesOn(p) /\ exProc'[p].at = "auditing"
        BY <1>8, <3>2, ExtGoes DEF Ext!Write
      <4> QED
        BY <2>1, <3>2, <4>1 DEF ExtInv, ExtOperation, ExtMoves, ExtGoesOn
    <3> QED
      BY <3>1, <3>2
  <2> QED
    BY <2>1, <2>2, <2>3, <2>4, ExtStep
<1>9. ASSUME NEW p \in Procs, Ext!Audit(p) PROVE ExtInv'
  <2>1. /\ exProc[p].at = "auditing" /\ exAudit' = exAudit \cup {[unsigned |-> Ext!Source(p)]}
        /\ Ext!Rejected(p) /\ UNCHANGED <<index, exRecorded>>
    BY <1>9 DEF Ext!Audit
  <2>2. Ext!Source(p) \in exRecorded
    BY <2>1, SourceIsOne DEF ExtInv, ExtOperation
  <2>3. ASSUME NEW s \in Sources, [unsigned |-> s] \in exAudit' PROVE s \in exRecorded'
    <3>1. [unsigned |-> s] = [unsigned |-> Ext!Source(p)] => s = Ext!Source(p)
      OBVIOUS
    <3> QED
      BY <2>1, <2>2, <2>3, <3>1 DEF ExtInv
  <2> QED
    BY <2>1, <2>3, Ended
<1>10. ASSUME NEW p \in Procs, Ext!Kill(p) PROVE ExtInv'
  BY <1>10, Ended DEF Ext!Kill, ExtInv
<1>11. CASE UNCHANGED exVars
  BY <1>11 DEF exVars, ExtInv, Lawful, ExtOperation, Gated, Audited
<1> QED
  BY <1>1, <1>2, <1>3, <1>4, <1>6, <1>7, <1>8, <1>9, <1>10, <1>11 DEF Ext!Next

LEMMA ExtIsGated == ExtInv => Ext!IndexIsGated
BY DEF ExtInv, Lawful, Gated, Audited, Elements, Ext!IndexIsGated, Ext!Range

-----------------------------------------------------------------------------
(* Spawns of Claude Code                                                   *)

CcPast(s) == pc[s] \in {"open", "write", "run", "restore", "rewrite"}

\* Of two spawns within, one came in later.
CcOrdered ==
  \A s, t \in Procs :
    CC!Within(s) /\ CC!Within(t) /\ s # t => t \in nesting[s] \/ s \in nesting[t]

\* A directory that the user did not have is there as long as its maker.
CcHasDir ==
  /\ before[1] => dir
  /\ ~before[1] => before[2] = CC!Absent
  /\ ~dir => \A s \in Procs : CC!Within(s) => pc[s] = "mkdir"
  /\ dir /\ ~before[1] => \E s \in Procs : CC!Within(s) /\ created[s]

\* Whoever came in before the maker is about to fail.
CcMaker ==
  \A s \in Procs :
    /\ created[s] /\ CC!Within(s) =>
         /\ dir /\ ~before[1]
         /\ CcPast(s) => original[s] = CC!Absent
         /\ \A t \in Procs : t # s /\ CC!Within(t) /\ t \notin nesting[s] => pc[t] = "mkdir"
    /\ pc[s] = "rmdir" => created[s]
    /\ pc[s] \in {"idle", "started", "mkdir"} => ~created[s]

\* The spawn that began to write before the others holds the user's text.
CcChain ==
  /\ (\A s \in Procs : ~CcPast(s)) => settings = before[2]
  /\ \A s \in Procs :
       CcPast(s) /\ (\A t \in Procs : CcPast(t) /\ t # s => t \in nesting[s])
         => original[s] = before[2]

\* Nobody who came in later removes the file under a spawn that writes it back.
CcRewrite ==
  \A s \in Procs : pc[s] = "rewrite" =>
    /\ settings # CC!Absent /\ original[s] # CC!Absent
    /\ \A t \in Procs : CcPast(t) /\ t \in nesting[s] => original[t] # CC!Absent

CcNested == ~ccDisturbed => CcOrdered /\ CcHasDir /\ CcMaker /\ CcChain /\ CcRewrite

\* The events of a run say no more than its handle.
CcTold ==
  \A s \in Procs :
    /\ pc[s] \notin {"restore", "rewrite", "rmdir", "done", "dead"} =>
         \A e \in recorded[s] : e.type = "started"
    /\ CC!Has(recorded[s], "completed") => pc[s] = "done" /\ handle[s] # NoReplay
    /\ handle[s] # NoReplay =>
         \A e \in recorded[s] : e.type = "stream" /\ e.path \in Inside => e.path \in handle[s]

CcInv == CC!TypeOK /\ CcNested /\ CcTold

CcHandles == {NoReplay} \cup SUBSET Inside

LEMMA CcFirst == CC!Init => CcInv
<1> SUFFICES ASSUME CC!Init PROVE CcInv
  OBVIOUS
<1>1. CC!TypeOK
  <2>1. /\ dir \in BOOLEAN /\ settings \in {CC!Absent} \cup CC!Texts
        /\ settings # CC!Absent => dir
    <3>1. CC!Json(TRUE, 0) \in CC!Texts
      <4>1. TRUE \in BOOLEAN
        OBVIOUS
      <4> QED
        BY <4>1, Zenon DEF CC!Json, CC!Texts
    <3>2. CASE dir = FALSE /\ settings = CC!Absent
      BY <3>2
    <3>3. CASE dir = TRUE /\ settings \in {CC!Absent, CC!Json(TRUE, 0)}
      BY <3>1, <3>3
    <3> QED
      BY <3>2, <3>3 DEF CC!Init
  <2>2. before \in BOOLEAN \X ({CC!Absent} \cup CC!Texts)
    BY <2>1 DEF CC!Init, CC!files
  <2>3. ccDisturbed \in BOOLEAN /\ created \in [Procs -> BOOLEAN]
    BY DEF CC!Init
  <2> QED
    <3>1. /\ pc \in [Procs -> {"idle", "started", "mkdir", "read", "open", "write", "run", "restore",
                           "rewrite", "rmdir", "done", "dead"}]
          /\ original \in [Procs -> {CC!Absent} \cup CC!Texts]
          /\ nesting \in [Procs -> SUBSET Procs]
      BY DEF CC!Init
    <3>2. /\ recorded \in [Procs -> SUBSET CC!Events]
          /\ handle \in [Procs -> {NoReplay} \cup SUBSET Inside]
      BY DEF CC!Init
    <3> QED
      BY <2>1, <2>2, <2>3, <3>1, <3>2, Zenon DEF CC!TypeOK
<1>2. CcNested
  BY DEF CC!Init, CcNested, CcOrdered, CcHasDir, CcMaker, CcChain, CcRewrite, CcPast, CC!Within,
         CC!files
<1>3. CcTold
  BY DEF CC!Init, CcTold, CC!Has
<1> QED
  BY <1>1, <1>2, <1>3 DEF CcInv

\* What a step does to one of the variables.
LEMMA CcTypeNext ==
  ASSUME CC!TypeOK, [CC!Next]_ccVars
  PROVE  CC!TypeOK'
<1> USE DEF CC!Goto, CC!Record, CC!Fail, CC!Finish, CC!Nest, CC!Unnest, CC!OutOfOrder, CC!Within,
           CC!files, CC!writer, CC!Absent, CC!Torn, CC!Json, CC!Texts, CC!Merged
<1>1. ASSUME NEW s \in Procs, CC!SpawnStarts(s), UNCHANGED before PROVE CC!TypeOK'
  BY <1>1 DEF CC!SpawnStarts, CC!TypeOK, CC!Events
<1>2. ASSUME NEW s \in Procs, CC!Refuse(s), UNCHANGED before PROVE CC!TypeOK'
  BY <1>2 DEF CC!Refuse, CC!TypeOK, CC!Events
<1>3. ASSUME NEW s \in Procs, CC!InstallLooks(s), UNCHANGED before PROVE CC!TypeOK'
  BY <1>3 DEF CC!InstallLooks, CC!TypeOK, CC!Events
<1>4. ASSUME NEW s \in Procs, CC!InstallMakesDir(s), UNCHANGED before PROVE CC!TypeOK'
  <2>1. CASE dir
    <3>1. /\ UNCHANGED <<dir, settings, original, created, handle, ccDisturbed>>
          /\ CC!Fail(s)
      BY <1>4, <2>1 DEF CC!InstallMakesDir
    <3> QED
      BY <1>4, <3>1 DEF CC!TypeOK, CC!Events
  <2>2. CASE ~dir
    BY <1>4, <2>2 DEF CC!InstallMakesDir, CC!TypeOK
  <2> QED
    BY <2>1, <2>2
<1>5. ASSUME NEW s \in Procs, CC!InstallReads(s), UNCHANGED before PROVE CC!TypeOK'
  BY <1>5 DEF CC!InstallReads, CC!TypeOK, CC!Events
<1>6. ASSUME NEW s \in Procs, CC!InstallOpens(s), UNCHANGED before PROVE CC!TypeOK'
  BY <1>6 DEF CC!InstallOpens, CC!TypeOK, CC!Events
<1>7. ASSUME NEW s \in Procs, CC!InstallWrites(s), UNCHANGED before PROVE CC!TypeOK'
  BY <1>7 DEF CC!InstallWrites, CC!TypeOK, CC!Events
<1>8. ASSUME NEW s \in Procs, CC!InstallWriteFails(s), UNCHANGED before PROVE CC!TypeOK'
  BY <1>8 DEF CC!InstallWriteFails, CC!TypeOK, CC!Events
<1>9. ASSUME NEW s \in Procs, CC!Run(s), UNCHANGED before PROVE CC!TypeOK'
  <2>1. PICK t \in Transcripts, ok \in BOOLEAN : \E kept \in SUBSET t :
          /\ recorded' = [recorded EXCEPT ![s] = @ \cup CC!Streamed(kept)]
          /\ handle' = [handle EXCEPT ![s] = IF ok THEN CC!Outputs(t) ELSE NoReplay]
    BY <1>9 DEF CC!Run
  <2>2. PICK kept \in SUBSET t : recorded' = [recorded EXCEPT ![s] = @ \cup CC!Streamed(kept)]
    BY <2>1
  <2>3. kept \subseteq Inside \cup Outside
    BY ClaudeAssumption DEF CC!ClaudeCodeAssumption
  <2>4. CC!Streamed(kept) \subseteq CC!Events
    BY <2>3 DEF CC!Streamed, CC!Events
  <2>5. recorded' \in [Procs -> SUBSET CC!Events]
    BY <2>2, <2>4 DEF CC!TypeOK
  <2>6. handle' \in [Procs -> {NoReplay} \cup SUBSET Inside]
    <3>1. CC!Outputs(t) \in SUBSET Inside
      BY DEF CC!Outputs
    <3>2. (IF ok THEN CC!Outputs(t) ELSE NoReplay) \in CcHandles
      BY <3>1 DEF CcHandles
    <3>3. handle \in [Procs -> CcHandles]
      BY DEF CC!TypeOK, CcHandles
    <3>4. handle' \in [Procs -> CcHandles]
      BY <2>1, <3>2, <3>3
    <3> QED
      BY <3>4 DEF CcHandles
  <2> QED
    BY <1>9, <2>5, <2>6 DEF CC!Run, CC!TypeOK
<1>10. ASSUME NEW s \in Procs, CC!RestoreOpens(s), UNCHANGED before PROVE CC!TypeOK'
  BY <1>10 DEF CC!RestoreOpens, CC!TypeOK, CC!Events
<1>11. ASSUME NEW s \in Procs, CC!RestoreWrites(s), UNCHANGED before PROVE CC!TypeOK'
  BY <1>11 DEF CC!RestoreWrites, CC!TypeOK, CC!Events
<1>12. ASSUME NEW s \in Procs, CC!RestoreWriteFails(s), UNCHANGED before PROVE CC!TypeOK'
  BY <1>12 DEF CC!RestoreWriteFails, CC!TypeOK, CC!Events
<1>13. ASSUME NEW s \in Procs, CC!RestoreRemovesDir(s), UNCHANGED before PROVE CC!TypeOK'
  <2>1. UNCHANGED settings /\ dir' = (dir /\ settings # CC!Absent)
    BY <1>13 DEF CC!RestoreRemovesDir
  <2>2. dir' \in BOOLEAN /\ (settings' # CC!Absent => dir')
    BY <2>1 DEF CC!TypeOK
  <2>3. created' \in [Procs -> BOOLEAN]
    BY <1>13, <2>2 DEF CC!RestoreRemovesDir, CC!TypeOK
  <2> QED
    BY <1>13, <2>2, <2>3 DEF CC!RestoreRemovesDir, CC!TypeOK, CC!Events
<1>14. ASSUME NEW s \in Procs, CC!Kill(s), UNCHANGED before PROVE CC!TypeOK'
  <2>1. handle' \in [Procs -> {NoReplay} \cup SUBSET Inside]
    <3>1. NoReplay \in CcHandles /\ handle \in [Procs -> CcHandles]
      BY DEF CC!TypeOK, CcHandles
    <3>2. handle' \in [Procs -> CcHandles]
      BY <1>14, <3>1 DEF CC!Kill
    <3> QED
      BY <3>2 DEF CcHandles
  <2> QED
    BY <1>14, <2>1 DEF CC!Kill, CC!TypeOK
<1>15. CASE UNCHANGED ccVars
  BY <1>15 DEF ccVars, CC!TypeOK
<1> QED
  BY <1>1, <1>2, <1>3, <1>4, <1>5, <1>6, <1>7, <1>8, <1>9, <1>10, <1>11, <1>12, <1>13, <1>14, <1>15, Zenon DEF CC!Next, ccVars, CC!vars

\* Who is not within plays no part; who is, leaves the file to the others as it
\* was, or marks the run as disturbed.
LEMMA CcNestedNext ==
  ASSUME CC!TypeOK, CcNested, [CC!Next]_ccVars
  PROVE  CcNested'
<1> USE DEF CC!Goto, CC!Record, CC!Fail, CC!Finish, CC!Nest, CC!Unnest, CC!OutOfOrder, CC!Within,
           CC!files, CC!writer, CC!Absent, CC!Torn, CC!Json, CC!Texts, CC!Merged,
        CC!TypeOK, CcPast
<1>1. ASSUME NEW s \in Procs, CC!SpawnStarts(s), UNCHANGED before PROVE CcNested'
  <2> SUFFICES ASSUME ~ccDisturbed' PROVE (CcOrdered /\ CcHasDir /\ CcMaker /\ CcChain /\ CcRewrite)'
    BY DEF CcNested
  <2>1. CcOrdered /\ CcHasDir /\ CcMaker /\ CcChain /\ CcRewrite
    BY <1>1 DEF CC!SpawnStarts, CcNested
  <2>2. CcOrdered'
    BY <1>1, <2>1 DEF CC!SpawnStarts, CcOrdered
  <2>3. CcHasDir'
    BY <1>1, <2>1 DEF CC!SpawnStarts, CcHasDir, CcMaker, CcChain, CcOrdered, CcRewrite
  <2>4. CcMaker'
    BY <1>1, <2>1 DEF CC!SpawnStarts, CcHasDir, CcMaker, CcChain, CcOrdered
  <2>5. CcChain'
    BY <1>1, <2>1 DEF CC!SpawnStarts, CcHasDir, CcMaker, CcChain, CcOrdered, CcRewrite
  <2>6. CcRewrite'
    BY <1>1, <2>1 DEF CC!SpawnStarts, CcRewrite, CcOrdered
  <2> QED
    BY <2>2, <2>3, <2>4, <2>5, <2>6
<1>2. ASSUME NEW s \in Procs, CC!Refuse(s), UNCHANGED before PROVE CcNested'
  <2> SUFFICES ASSUME ~ccDisturbed' PROVE (CcOrdered /\ CcHasDir /\ CcMaker /\ CcChain /\ CcRewrite)'
    BY DEF CcNested
  <2>1. CcOrdered /\ CcHasDir /\ CcMaker /\ CcChain /\ CcRewrite
    BY <1>2 DEF CC!Refuse, CcNested
  <2>2. CcOrdered'
    BY <1>2, <2>1 DEF CC!Refuse, CcOrdered
  <2>3. CcHasDir'
    BY <1>2, <2>1 DEF CC!Refuse, CcHasDir, CcMaker, CcChain, CcOrdered, CcRewrite
  <2>4. CcMaker'
    BY <1>2, <2>1 DEF CC!Refuse, CcHasDir, CcMaker, CcChain, CcOrdered
  <2>5. CcChain'
    BY <1>2, <2>1 DEF CC!Refuse, CcHasDir, CcMaker, CcChain, CcOrdered, CcRewrite
  <2>6. CcRewrite'
    BY <1>2, <2>1 DEF CC!Refuse, CcRewrite, CcOrdered
  <2> QED
    BY <2>2, <2>3, <2>4, <2>5, <2>6
<1>3. ASSUME NEW s \in Procs, CC!InstallLooks(s), UNCHANGED before PROVE CcNested'
  <2> SUFFICES ASSUME ~ccDisturbed' PROVE (CcOrdered /\ CcHasDir /\ CcMaker /\ CcChain /\ CcRewrite)'
    BY DEF CcNested
  <2>1. CcOrdered /\ CcHasDir /\ CcMaker /\ CcChain /\ CcRewrite
    BY <1>3 DEF CC!InstallLooks, CcNested
  <2>2. CcOrdered'
    BY <1>3, <2>1 DEF CC!InstallLooks, CcOrdered
  <2>3. CcHasDir'
    BY <1>3, <2>1 DEF CC!InstallLooks, CcHasDir, CcMaker, CcChain, CcOrdered, CcRewrite
  <2>4. CcMaker'
    BY <1>3, <2>1 DEF CC!InstallLooks, CcHasDir, CcMaker, CcChain, CcOrdered
  <2>5. CcChain'
    BY <1>3, <2>1 DEF CC!InstallLooks, CcHasDir, CcMaker, CcChain, CcOrdered, CcRewrite
  <2>6. CcRewrite'
    BY <1>3, <2>1 DEF CC!InstallLooks, CcRewrite, CcOrdered
  <2> QED
    BY <2>2, <2>3, <2>4, <2>5, <2>6
<1>4. ASSUME NEW s \in Procs, CC!InstallMakesDir(s), UNCHANGED before PROVE CcNested'
  <2> SUFFICES ASSUME ~ccDisturbed' PROVE (CcOrdered /\ CcHasDir /\ CcMaker /\ CcChain /\ CcRewrite)'
    BY DEF CcNested
  <2>1. CcOrdered /\ CcHasDir /\ CcMaker /\ CcChain /\ CcRewrite
    BY <1>4 DEF CC!InstallMakesDir, CcNested
  <2>2. CcOrdered'
    BY <1>4, <2>1 DEF CC!InstallMakesDir, CcOrdered
  <2>3. CcHasDir'
    BY <1>4, <2>1 DEF CC!InstallMakesDir, CcHasDir, CcMaker, CcChain, CcOrdered, CcRewrite
  <2>4. CcMaker'
    BY <1>4, <2>1 DEF CC!InstallMakesDir, CcHasDir, CcMaker, CcChain, CcOrdered
  <2>5. CcChain'
    BY <1>4, <2>1 DEF CC!InstallMakesDir, CcHasDir, CcMaker, CcChain, CcOrdered, CcRewrite
  <2>6. CcRewrite'
    BY <1>4, <2>1 DEF CC!InstallMakesDir, CcRewrite, CcOrdered
  <2> QED
    BY <2>2, <2>3, <2>4, <2>5, <2>6
<1>5. ASSUME NEW s \in Procs, CC!InstallReads(s), UNCHANGED before PROVE CcNested'
  <2> SUFFICES ASSUME ~ccDisturbed' PROVE (CcOrdered /\ CcHasDir /\ CcMaker /\ CcChain /\ CcRewrite)'
    BY DEF CcNested
  <2>1. CcOrdered /\ CcHasDir /\ CcMaker /\ CcChain /\ CcRewrite
    BY <1>5 DEF CC!InstallReads, CcNested
  <2>2. CcOrdered'
    BY <1>5, <2>1 DEF CC!InstallReads, CcOrdered
  <2>3. CcHasDir'
    BY <1>5, <2>1 DEF CC!InstallReads, CcHasDir, CcMaker, CcChain, CcOrdered, CcRewrite
  <2>4. CcMaker'
    BY <1>5, <2>1 DEF CC!InstallReads, CcHasDir, CcMaker, CcChain, CcOrdered
  <2>5. CcChain'
    BY <1>5, <2>1 DEF CC!InstallReads, CcHasDir, CcMaker, CcChain, CcOrdered, CcRewrite
  <2>6. CcRewrite'
    BY <1>5, <2>1 DEF CC!InstallReads, CcRewrite, CcOrdered
  <2> QED
    BY <2>2, <2>3, <2>4, <2>5, <2>6
<1>6. ASSUME NEW s \in Procs, CC!InstallOpens(s), UNCHANGED before PROVE CcNested'
  <2> SUFFICES ASSUME ~ccDisturbed' PROVE (CcOrdered /\ CcHasDir /\ CcMaker /\ CcChain /\ CcRewrite)'
    BY DEF CcNested
  <2>1. CcOrdered /\ CcHasDir /\ CcMaker /\ CcChain /\ CcRewrite
    BY <1>6 DEF CC!InstallOpens, CcNested
  <2>2. CcOrdered'
    BY <1>6, <2>1 DEF CC!InstallOpens, CcOrdered
  <2>3. CcHasDir'
    BY <1>6, <2>1 DEF CC!InstallOpens, CcHasDir, CcMaker, CcChain, CcOrdered, CcRewrite
  <2>4. CcMaker'
    BY <1>6, <2>1 DEF CC!InstallOpens, CcHasDir, CcMaker, CcChain, CcOrdered
  <2>5. CcChain'
    BY <1>6, <2>1 DEF CC!InstallOpens, CcHasDir, CcMaker, CcChain, CcOrdered, CcRewrite
  <2>6. CcRewrite'
    BY <1>6, <2>1 DEF CC!InstallOpens, CcRewrite, CcOrdered
  <2> QED
    BY <2>2, <2>3, <2>4, <2>5, <2>6
<1>7. ASSUME NEW s \in Procs, CC!InstallWrites(s), UNCHANGED before PROVE CcNested'
  <2> SUFFICES ASSUME ~ccDisturbed' PROVE (CcOrdered /\ CcHasDir /\ CcMaker /\ CcChain /\ CcRewrite)'
    BY DEF CcNested
  <2>1. CcOrdered /\ CcHasDir /\ CcMaker /\ CcChain /\ CcRewrite
    BY <1>7 DEF CC!InstallWrites, CcNested
  <2>2. CcOrdered'
    BY <1>7, <2>1 DEF CC!InstallWrites, CcOrdered
  <2>3. CcHasDir'
    BY <1>7, <2>1 DEF CC!InstallWrites, CcHasDir, CcMaker, CcChain, CcOrdered, CcRewrite
  <2>4. CcMaker'
    BY <1>7, <2>1 DEF CC!InstallWrites, CcHasDir, CcMaker, CcChain, CcOrdered
  <2>5. CcChain'
    BY <1>7, <2>1 DEF CC!InstallWrites, CcHasDir, CcMaker, CcChain, CcOrdered, CcRewrite
  <2>6. CcRewrite'
    BY <1>7, <2>1 DEF CC!InstallWrites, CcRewrite, CcOrdered
  <2> QED
    BY <2>2, <2>3, <2>4, <2>5, <2>6
<1>8. ASSUME NEW s \in Procs, CC!Run(s), UNCHANGED before PROVE CcNested'
  <2> SUFFICES ASSUME ~ccDisturbed' PROVE (CcOrdered /\ CcHasDir /\ CcMaker /\ CcChain /\ CcRewrite)'
    BY DEF CcNested
  <2>1. CcOrdered /\ CcHasDir /\ CcMaker /\ CcChain /\ CcRewrite
    BY <1>8 DEF CC!Run, CcNested
  <2>2. CcOrdered'
    BY <1>8, <2>1 DEF CC!Run, CcOrdered
  <2>3. CcHasDir'
    BY <1>8, <2>1 DEF CC!Run, CcHasDir, CcMaker, CcChain, CcOrdered, CcRewrite
  <2>4. CcMaker'
    BY <1>8, <2>1 DEF CC!Run, CcHasDir, CcMaker, CcChain, CcOrdered
  <2>5. CcChain'
    BY <1>8, <2>1 DEF CC!Run, CcHasDir, CcMaker, CcChain, CcOrdered, CcRewrite
  <2>6. CcRewrite'
    BY <1>8, <2>1 DEF CC!Run, CcRewrite, CcOrdered
  <2> QED
    BY <2>2, <2>3, <2>4, <2>5, <2>6
<1>9. ASSUME NEW s \in Procs, CC!RestoreOpens(s), UNCHANGED before PROVE CcNested'
  <2> SUFFICES ASSUME ~ccDisturbed' PROVE (CcOrdered /\ CcHasDir /\ CcMaker /\ CcChain /\ CcRewrite)'
    BY DEF CcNested
  <2>1. CcOrdered /\ CcHasDir /\ CcMaker /\ CcChain /\ CcRewrite
    BY <1>9 DEF CC!RestoreOpens, CcNested
  <2>2. CcOrdered'
    BY <1>9, <2>1 DEF CC!RestoreOpens, CcOrdered
  <2>3. CcHasDir'
    BY <1>9, <2>1 DEF CC!RestoreOpens, CcHasDir, CcMaker, CcChain, CcOrdered, CcRewrite
  <2>4. CcMaker'
    BY <1>9, <2>1 DEF CC!RestoreOpens, CcHasDir, CcMaker, CcChain, CcOrdered
  <2>5. CcChain'
    BY <1>9, <2>1 DEF CC!RestoreOpens, CcHasDir, CcMaker, CcChain, CcOrdered, CcRewrite
  <2>6. CcRewrite'
    BY <1>9, <2>1 DEF CC!RestoreOpens, CcRewrite, CcOrdered
  <2> QED
    BY <2>2, <2>3, <2>4, <2>5, <2>6
<1>10. ASSUME NEW s \in Procs, CC!RestoreWrites(s), UNCHANGED before PROVE CcNested'
  <2> SUFFICES ASSUME ~ccDisturbed' PROVE (CcOrdered /\ CcHasDir /\ CcMaker /\ CcChain /\ CcRewrite)'
    BY DEF CcNested
  <2>1. CcOrdered /\ CcHasDir /\ CcMaker /\ CcChain /\ CcRewrite
    BY <1>10 DEF CC!RestoreWrites, CcNested
  <2>2. CcOrdered'
    BY <1>10, <2>1 DEF CC!RestoreWrites, CcOrdered
  <2>3. CcHasDir'
    BY <1>10, <2>1 DEF CC!RestoreWrites, CcHasDir, CcMaker, CcChain, CcOrdered, CcRewrite
  <2>4. CcMaker'
    BY <1>10, <2>1 DEF CC!RestoreWrites, CcHasDir, CcMaker, CcChain, CcOrdered
  <2>5. CcChain'
    BY <1>10, <2>1 DEF CC!RestoreWrites, CcHasDir, CcMaker, CcChain, CcOrdered, CcRewrite
  <2>6. CcRewrite'
    BY <1>10, <2>1 DEF CC!RestoreWrites, CcRewrite, CcOrdered
  <2> QED
    BY <2>2, <2>3, <2>4, <2>5, <2>6
<1>11. ASSUME NEW s \in Procs, CC!RestoreRemovesDir(s), UNCHANGED before PROVE CcNested'
  <2> SUFFICES ASSUME ~ccDisturbed' PROVE (CcOrdered /\ CcHasDir /\ CcMaker /\ CcChain /\ CcRewrite)'
    BY DEF CcNested
  <2>1. CcOrdered /\ CcHasDir /\ CcMaker /\ CcChain /\ CcRewrite
    BY <1>11 DEF CC!RestoreRemovesDir, CcNested
  <2>2. CcOrdered'
    BY <1>11, <2>1 DEF CC!RestoreRemovesDir, CcOrdered
  <2>3. CcHasDir'
    BY <1>11, <2>1 DEF CC!RestoreRemovesDir, CcHasDir, CcMaker, CcChain, CcOrdered, CcRewrite
  <2>4. CcMaker'
    BY <1>11, <2>1 DEF CC!RestoreRemovesDir, CcHasDir, CcMaker, CcChain, CcOrdered
  <2>5. CcChain'
    BY <1>11, <2>1 DEF CC!RestoreRemovesDir, CcHasDir, CcMaker, CcChain, CcOrdered, CcRewrite
  <2>6. CcRewrite'
    BY <1>11, <2>1 DEF CC!RestoreRemovesDir, CcRewrite, CcOrdered
  <2> QED
    BY <2>2, <2>3, <2>4, <2>5, <2>6
<1>12. ASSUME NEW s \in Procs, CC!InstallWriteFails(s) \/ CC!RestoreWriteFails(s) \/ CC!Kill(s)
      PROVE  CcNested'
  BY <1>12 DEF CC!InstallWriteFails, CC!RestoreWriteFails, CC!Kill, CcNested
<1>13. CASE UNCHANGED ccVars
  BY <1>13 DEF ccVars, CcNested, CcOrdered, CcHasDir, CcMaker, CcChain, CcRewrite
<1> QED
  BY <1>1, <1>2, <1>3, <1>4, <1>5, <1>6, <1>7, <1>8, <1>9, <1>10, <1>11, <1>12, <1>13, Zenon DEF CC!Next, ccVars, CC!vars

\* An event is added by the step that it speaks of.
LEMMA CcToldNext ==
  ASSUME CC!TypeOK, CcTold, [CC!Next]_ccVars
  PROVE  CcTold'
<1> USE DEF CC!Goto, CC!Record, CC!Fail, CC!Finish, CC!Nest, CC!Unnest, CC!OutOfOrder, CC!Within,
           CC!files, CC!writer, CC!Absent, CC!Torn, CC!Json, CC!Texts, CC!Merged, CC!Has
<1>1. ASSUME NEW s \in Procs, CC!SpawnStarts(s) PROVE CcTold'
  BY <1>1 DEF CC!SpawnStarts, CC!TypeOK, CcTold, CC!Streamed, CC!Outputs
<1>2. ASSUME NEW s \in Procs, CC!Refuse(s) PROVE CcTold'
  BY <1>2 DEF CC!Refuse, CC!TypeOK, CcTold, CC!Streamed, CC!Outputs
<1>3. ASSUME NEW s \in Procs, CC!InstallLooks(s) PROVE CcTold'
  BY <1>3 DEF CC!InstallLooks, CC!TypeOK, CcTold, CC!Streamed, CC!Outputs
<1>4. ASSUME NEW s \in Procs, CC!InstallMakesDir(s) PROVE CcTold'
  BY <1>4 DEF CC!InstallMakesDir, CC!TypeOK, CcTold, CC!Streamed, CC!Outputs
<1>5. ASSUME NEW s \in Procs, CC!InstallReads(s) PROVE CcTold'
  BY <1>5 DEF CC!InstallReads, CC!TypeOK, CcTold, CC!Streamed, CC!Outputs
<1>6. ASSUME NEW s \in Procs, CC!InstallOpens(s) PROVE CcTold'
  BY <1>6 DEF CC!InstallOpens, CC!TypeOK, CcTold, CC!Streamed, CC!Outputs
<1>7. ASSUME NEW s \in Procs, CC!InstallWrites(s) PROVE CcTold'
  BY <1>7 DEF CC!InstallWrites, CC!TypeOK, CcTold, CC!Streamed, CC!Outputs
<1>8. ASSUME NEW s \in Procs, CC!InstallWriteFails(s) PROVE CcTold'
  BY <1>8 DEF CC!InstallWriteFails, CC!TypeOK, CcTold, CC!Streamed, CC!Outputs
<1>9. ASSUME NEW s \in Procs, CC!Run(s) PROVE CcTold'
  BY <1>9 DEF CC!Run, CC!TypeOK, CcTold, CC!Streamed, CC!Outputs
<1>10. ASSUME NEW s \in Procs, CC!RestoreOpens(s) PROVE CcTold'
  BY <1>10 DEF CC!RestoreOpens, CC!TypeOK, CcTold, CC!Streamed, CC!Outputs
<1>11. ASSUME NEW s \in Procs, CC!RestoreWrites(s) PROVE CcTold'
  BY <1>11 DEF CC!RestoreWrites, CC!TypeOK, CcTold, CC!Streamed, CC!Outputs
<1>12. ASSUME NEW s \in Procs, CC!RestoreWriteFails(s) PROVE CcTold'
  BY <1>12 DEF CC!RestoreWriteFails, CC!TypeOK, CcTold, CC!Streamed, CC!Outputs
<1>13. ASSUME NEW s \in Procs, CC!RestoreRemovesDir(s) PROVE CcTold'
  BY <1>13 DEF CC!RestoreRemovesDir, CC!TypeOK, CcTold, CC!Streamed, CC!Outputs
<1>14. ASSUME NEW s \in Procs, CC!Kill(s) PROVE CcTold'
  BY <1>14 DEF CC!Kill, CC!TypeOK, CcTold, CC!Streamed, CC!Outputs
<1>15. CASE UNCHANGED ccVars
  BY <1>15 DEF ccVars, CcTold
<1> QED
  BY <1>1, <1>2, <1>3, <1>4, <1>5, <1>6, <1>7, <1>8, <1>9, <1>10, <1>11, <1>12, <1>13, <1>14, <1>15, Zenon DEF CC!Next, ccVars, CC!vars

LEMMA CcNext ==
  ASSUME CcInv, [CC!Next]_ccVars
  PROVE  CcInv'
BY CcTypeNext, CcNestedNext, CcToldNext DEF CcInv

LEMMA CcIsHonest == CcInv => SessionsAreHonest
<1> SUFFICES ASSUME CcInv PROVE SessionsAreHonest
  OBVIOUS
<1>1. ASSUME CC!AtRest, ~ccDisturbed PROVE CC!files = before
  <2>1. \A s \in Procs : ~CcPast(s) /\ ~CC!Within(s)
    BY <1>1 DEF CC!AtRest, CC!Within, CcPast
  <2>2. settings = before[2] /\ dir = before[1]
    BY <1>1, <2>1 DEF CcInv, CcNested, CcChain, CcHasDir, CC!TypeOK
  <2> QED
    BY <2>2 DEF CcInv, CC!TypeOK, CC!files
<1>2. ASSUME NEW s \in Procs, CC!Replay(recorded[s]) # NoReplay
      PROVE  /\ pc[s] = "done" /\ handle[s] # NoReplay
             /\ CC!Replay(recorded[s]) \subseteq handle[s]
  <2>1. /\ CC!Has(recorded[s], "completed")
        /\ CC!Replay(recorded[s]) = CC!Outputs(CC!Lines(recorded[s]))
    BY <1>2 DEF CC!Replay
  <2>2. pc[s] = "done" /\ handle[s] # NoReplay
    BY <2>1 DEF CcInv, CcTold
  <2> QED
    BY <2>1, <2>2 DEF CcInv, CcTold, CC!Outputs, CC!Lines
<1> QED
  BY <1>1, <1>2 DEF SessionsAreHonest, CC!ReplayIsHonest, CC!SettingsComeBack

-----------------------------------------------------------------------------
(* Agent runs                                                              *)

RunSteps == {"start", "prepared", "ready", "ended", "register", "log", "tell", "done"}
RunLine == [run : Runs, status : {"completed", "contract_failed"}]

RunTyped ==
  /\ DOMAIN run = Runs /\ DOMAIN exit = Runs
  /\ \A r \in Runs : DOMAIN run[r] = {"at", "handle", "left", "passed"} /\ run[r].at \in RunSteps
  /\ records \in Seq(RunLine) /\ runEvents \in Seq(RunLine)

\* A line tells "completed" of a run that was.
RunSays(line, of) == line.status = "completed" <=> of.handle.status = "completed" /\ of.passed

\* A run is in the record once it is past it, and in the event log likewise.
RunLogged ==
  \A r \in Runs :
    /\ \A i, j \in Run!Lines(records, r) : i = j
    /\ \A i, j \in Run!Lines(runEvents, r) : i = j
    /\ Run!Lines(records, r) # {} => run[r].at \in {"log", "tell", "done"}
    /\ Run!Lines(runEvents, r) # {} => run[r].at \in {"tell", "done"}
    /\ run[r].at = "log" => \E j \in Run!Lines(records, r) : records[j] = Run!Line(r)
    /\ run[r].at = "tell" \/ exit[r] = "ok" => Run!Lines(runEvents, r) # {}
    /\ \A i \in Run!Lines(runEvents, r) : \E j \in Run!Lines(records, r) : runEvents[i] = records[j]
    /\ exit[r] = "ok" => run[r].passed
    /\ \A i \in Run!Lines(records, r) : RunSays(records[i], run[r])

RunInv == RunTyped /\ RunLogged

\* One run moves, and its verdict may be the same.
RunMoves(r) ==
  /\ DOMAIN run' = Runs /\ \A q \in Runs \ {r} : run'[q] = run[q]
  /\ DOMAIN run'[r] = {"at", "handle", "left", "passed"}
RunSame(r) == run'[r].handle = run[r].handle /\ run'[r].passed = run[r].passed
RunExits(r) == DOMAIN exit' = Runs /\ \A q \in Runs \ {r} : exit'[q] = exit[q]

LEMMA RunGoes ==
  ASSUME RunTyped, NEW r \in Runs, NEW x, Run!Goto(r, x)
  PROVE  RunMoves(r) /\ RunSame(r) /\ run'[r].at = x
BY DEF RunTyped, Run!Goto, RunMoves, RunSame

LEMMA RunEnds ==
  ASSUME RunTyped, NEW r \in Runs, NEW how, Run!End(r, how)
  PROVE  RunMoves(r) /\ RunSame(r) /\ run'[r].at = "done" /\ RunExits(r) /\ exit'[r] = how
<1>1. RunMoves(r) /\ RunSame(r) /\ run'[r].at = "done"
  BY DEF RunTyped, Run!End, RunMoves, RunSame
<1>2. RunExits(r) /\ exit'[r] = how
  BY DEF RunTyped, Run!End, RunExits
<1> QED
  BY <1>1, <1>2

LEMMA LineIsALine ==
  ASSUME NEW r \in Runs
  PROVE  /\ Run!Line(r) \in RunLine /\ Run!Line(r).run = r
         /\ RunSays(Run!Line(r), run[r])
<1>1. Run!Status(r) \in {"completed", "contract_failed"}
      /\ (Run!Status(r) = "completed" <=> run[r].handle.status = "completed" /\ run[r].passed)
  BY DEF Run!Status
<1> QED
  BY <1>1 DEF Run!Line, RunLine, RunSays

LEMMA LineStays ==
  ASSUME NEW r \in Runs, RunSame(r)
  PROVE  Run!Line(r)' = Run!Line(r)
BY DEF RunSame, Run!Line, Run!Status

LEMMA AppendedLines ==
  ASSUME NEW lines1 \in Seq(RunLine), NEW l \in RunLine
  PROVE  /\ Append(lines1, l) \in Seq(RunLine) /\ Append(lines1, l)[Len(lines1) + 1] = l
         /\ \A i \in DOMAIN lines1 : Append(lines1, l)[i] = lines1[i]
         /\ \A q : Run!Lines(Append(lines1, l), q) =
                     Run!Lines(lines1, q) \cup (IF l.run = q THEN {Len(lines1) + 1} ELSE {})
<1>1. /\ Append(lines1, l) \in Seq(RunLine) /\ Append(lines1, l)[Len(lines1) + 1] = l
      /\ Len(Append(lines1, l)) = Len(lines1) + 1 /\ Len(lines1) \in Nat
      /\ \A i \in 1..Len(lines1) : Append(lines1, l)[i] = lines1[i]
  BY AppendProperties
<1>2. DOMAIN lines1 = 1..Len(lines1) /\ DOMAIN Append(lines1, l) = 1..(Len(lines1) + 1)
  BY <1>1
<1>3. PICK n \in Nat : n = Len(lines1)
  BY <1>1
<1>4. PICK new : new = Append(lines1, l)
  OBVIOUS
<1>5. DOMAIN new = DOMAIN lines1 \cup {n + 1} /\ n + 1 \notin DOMAIN lines1
  BY <1>2, <1>3, <1>4
<1>6. new[n + 1] = l /\ \A i \in DOMAIN lines1 : new[i] = lines1[i]
  BY <1>1, <1>2, <1>3, <1>4
<1>7. \A q : Run!Lines(new, q) = Run!Lines(lines1, q) \cup (IF l.run = q THEN {n + 1} ELSE {})
  BY <1>5, <1>6 DEF Run!Lines
<1> QED
  BY <1>1, <1>2, <1>3, <1>4, <1>6, <1>7

LEMMA RunFirst == Run!Init => RunInv
<1> SUFFICES ASSUME Run!Init PROVE RunInv
  OBVIOUS
<1>1. /\ DOMAIN Run!Fresh = {"at", "handle", "left", "passed"} /\ Run!Fresh.at = "start"
  BY DEF Run!Fresh
<1>2. records = <<>> /\ runEvents = <<>> /\ \A r : Run!Lines(<<>>, r) = {}
  BY DEF Run!Init, Run!Lines
<1>3. RunTyped
  BY <1>1, <1>2 DEF Run!Init, RunTyped, RunSteps
<1>4. RunLogged
  BY <1>1, <1>2 DEF Run!Init, RunLogged
<1> QED
  BY <1>3, <1>4 DEF RunInv

\* A step of one run that writes to neither log: it has no line yet, or ends.
LEMMA RunStep ==
  ASSUME RunInv, NEW r \in Runs, RunMoves(r), run'[r].at \in RunSteps, RunExits(r), UNCHANGED <<records, runEvents>>,
         \/ /\ run[r].at \notin {"log", "tell", "done"} /\ run'[r].at \notin {"log", "tell"}
            /\ exit'[r] # "ok"
         \/ /\ run'[r].at = "done" /\ RunSame(r) /\ run[r].at # "done" /\ (exit'[r] = "ok" => run[r].at = "tell" /\ run[r].passed)
  PROVE  RunInv'
<1>1. RunTyped'
  BY DEF RunInv, RunTyped, RunMoves, RunExits
<1>2. ASSUME NEW q \in Runs
      PROVE  /\ \A i, j \in Run!Lines(records, q) : i = j
             /\ \A i, j \in Run!Lines(runEvents, q) : i = j
             /\ Run!Lines(records, q) # {} => run'[q].at \in {"log", "tell", "done"}
             /\ Run!Lines(runEvents, q) # {} => run'[q].at \in {"tell", "done"}
             /\ run'[q].at = "log" => \E j \in Run!Lines(records, q) : records[j] = Run!Line(q)'
             /\ run'[q].at = "tell" \/ exit'[q] = "ok" => Run!Lines(runEvents, q) # {}
             /\ \A i \in Run!Lines(runEvents, q) : \E j \in Run!Lines(records, q) : runEvents[i] = records[j]
             /\ exit'[q] = "ok" => run'[q].passed
             /\ \A i \in Run!Lines(records, q) : RunSays(records[i], run'[q])
  <2>1. CASE q # r
    <3>1. run'[q] = run[q] /\ exit'[q] = exit[q] /\ Run!Line(q)' = Run!Line(q)
      BY <2>1 DEF RunMoves, RunExits, Run!Line, Run!Status
    <3> QED
      BY <3>1 DEF RunInv, RunLogged
  <2>2. CASE q = r /\ run[r].at \notin {"log", "tell", "done"} /\ run'[r].at \notin {"log", "tell"}
             /\ exit'[r] # "ok"
    <3>1. Run!Lines(records, r) = {} /\ Run!Lines(runEvents, r) = {}
      BY <2>2 DEF RunInv, RunLogged
    <3> QED
      BY <2>2, <3>1
  <2>3. CASE q = r /\ run'[r].at = "done" /\ RunSame(r) /\ run[r].at # "done" /\ (exit'[r] = "ok" => run[r].at = "tell" /\ run[r].passed)
    BY <2>3 DEF RunInv, RunLogged, RunSame, RunSays
  <2> QED
    BY <2>1, <2>2, <2>3
<1>3. RunLogged'
  BY <1>2 DEF RunLogged
<1> QED
  BY <1>1, <1>3 DEF RunInv

LEMMA RunNext == RunInv /\ [Run!Next]_runVars => RunInv'
<1> SUFFICES ASSUME RunInv, [Run!Next]_runVars PROVE RunInv'
  OBVIOUS
<1>0. RunTyped
  BY DEF RunInv
\* Before the record a run has no line, and has not told that it is well.
<1>1. ASSUME NEW r \in Runs, run[r].at \notin {"log", "tell", "done"} PROVE exit[r] # "ok"
  BY <1>1 DEF RunInv, RunLogged
<1>2. ASSUME NEW r \in Runs, RunMoves(r), UNCHANGED <<records, runEvents, exit>>,
             run[r].at \notin {"log", "tell", "done"},
             run'[r].at \in {"prepared", "ready", "ended", "register"}
      PROVE  RunInv'
  <2>1. RunExits(r) /\ exit'[r] # "ok" /\ run'[r].at \in RunSteps /\ run'[r].at \notin {"log", "tell"}
    BY <1>0, <1>1, <1>2 DEF RunTyped, RunExits, RunSteps
  <2> QED
    BY <1>2, <2>1, RunStep
<1>3. ASSUME NEW r \in Runs, NEW how, Run!End(r, how), UNCHANGED <<records, runEvents>>,
             run[r].at # "done", how = "ok" => run[r].at = "tell" /\ run[r].passed
      PROVE  RunInv'
  <2>1. RunMoves(r) /\ RunSame(r) /\ run'[r].at = "done" /\ RunExits(r) /\ exit'[r] = how /\ run'[r].at \in RunSteps
    BY <1>0, <1>3, RunEnds DEF RunSteps
  <2> QED
    BY <1>3, <2>1, RunStep
<1>4. ASSUME NEW r \in Runs, NEW how, Run!Fails(r, how), run[r].at # "done", how # "ok"
      PROVE  RunInv'
  BY <1>3, <1>4 DEF Run!Fails
<1>5. ASSUME NEW r \in Runs, Run!Prepare(r) \/ Run!PrepareAsync(r) \/ Run!GatherContext(r)
      PROVE  RunInv'
  <2>1. /\ run[r].at \in {"start", "prepared"} /\ UNCHANGED <<records, runEvents, exit>>
        /\ \E x \in {"prepared", "ready"} : Run!Goto(r, x)
    BY <1>5 DEF Run!Prepare, Run!PrepareAsync, Run!GatherContext, Run!At
  <2>2. RunMoves(r) /\ run'[r].at \in {"prepared", "ready"}
    BY <1>0, <2>1, RunGoes
  <2> QED
    BY <1>2, <2>1, <2>2
<1>6. ASSUME NEW r \in Runs,
             Run!PrepareFails(r) \/ Run!LessonsFail(r) \/ Run!PrunerFails(r) \/ Run!SpawnFails(r)
             \/ Run!RegisterFails(r) \/ Run!RecordFails(r) \/ Run!EventFails(r) \/ Run!Kill(r)
      PROVE  RunInv'
  <2>1. run[r].at # "done" /\ \E how \in {"error", "traceback", "killed"} : Run!Fails(r, how)
    BY <1>6 DEF Run!PrepareFails, Run!LessonsFail, Run!PrunerFails, Run!SpawnFails,
       Run!RegisterFails,
                Run!RecordFails, Run!EventFails, Run!Kill, Run!At
  <2> QED
    BY <1>4, <2>1
<1>7. ASSUME NEW r \in Runs, NEW status, NEW outputs, Run!Returns(r, status, outputs), run[r].at = "ready",
             UNCHANGED <<records, runEvents, exit>>
      PROVE  RunInv'
  <2>1. PICK given : run' = [run EXCEPT ![r].at = "ended", ![r].handle = given]
    BY <1>7 DEF Run!Returns
  <2>2. RunMoves(r) /\ run'[r].at = "ended"
    BY <1>0, <2>1 DEF RunTyped, RunMoves
  <2> QED
    BY <1>2, <1>7, <2>2
<1>8. ASSUME NEW r \in Runs,
             Run!DummySpawns(r) \/ Run!AsyncDummySpawns(r) \/ Run!KernelSpawns(r)
      PROVE  RunInv'
  BY <1>7, <1>8 DEF Run!DummySpawns, Run!AsyncDummySpawns, Run!KernelSpawns,
     Run!WritesDefault, Run!At
<1>9. ASSUME NEW r \in Runs, Run!Validate(r) PROVE RunInv'
  <2>1. PICK left, passed :
          run' = [run EXCEPT ![r].at = "register", ![r].left = left, ![r].passed = passed]
    BY <1>9 DEF Run!Validate
  <2>2. RunMoves(r) /\ run'[r].at = "register"
    BY <1>0, <2>1 DEF RunTyped, RunMoves
  <2> QED
    BY <1>2, <1>9, <2>2 DEF Run!Validate, Run!At
<1>10. ASSUME NEW r \in Runs, Run!Register(r) PROVE RunInv'
  <2>1. PICK left : run' = [run EXCEPT ![r].left = left]
    BY <1>10 DEF Run!Register
  <2>2. RunMoves(r) /\ run'[r].at = run[r].at
    BY <1>0, <2>1 DEF RunTyped, RunMoves
  <2> QED
    BY <1>2, <1>10, <2>2 DEF Run!Register, Run!At
<1>11. ASSUME NEW r \in Runs, Run!AppendRecord(r) PROVE RunInv'
  <2>1. /\ run[r].at = "register" /\ records' = Append(records, Run!Line(r)) /\ Run!Goto(r, "log")
        /\ UNCHANGED <<runEvents, exit>>
    BY <1>11 DEF Run!AppendRecord, Run!At
  <2>2. RunMoves(r) /\ RunSame(r) /\ run'[r].at = "log"
    BY <1>0, <2>1, RunGoes
  <2>3. PICK l \in RunLine : l = Run!Line(r) /\ l.run = r
    BY LineIsALine
  <2>4. /\ records' \in Seq(RunLine) /\ records'[Len(records) + 1] = l
        /\ \A i \in DOMAIN records : records'[i] = records[i]
        /\ \A q : Run!Lines(records', q) = Run!Lines(records, q) \cup (IF r = q THEN {Len(records) + 1} ELSE {})
    BY <1>0, <2>1, <2>3, AppendedLines DEF RunTyped
  <2>5. Run!Lines(records, r) = {} /\ Run!Lines(runEvents, r) = {} /\ exit[r] # "ok"
    BY <2>1 DEF RunInv, RunLogged
  <2>6. RunTyped'
    BY <1>0, <2>1, <2>2, <2>4 DEF RunTyped, RunMoves, RunSteps
  <2>7. \A q, i : i \in Run!Lines(records, q) => i \in DOMAIN records
    BY DEF Run!Lines
  <2>8. ASSUME NEW q \in Runs
        PROVE  /\ \A i, j \in Run!Lines(records', q) : i = j
               /\ \A i, j \in Run!Lines(runEvents, q) : i = j
               /\ Run!Lines(records', q) # {} => run'[q].at \in {"log", "tell", "done"}
               /\ Run!Lines(runEvents, q) # {} => run'[q].at \in {"tell", "done"}
               /\ run'[q].at = "log" => \E j \in Run!Lines(records', q) : records'[j] = Run!Line(q)'
               /\ run'[q].at = "tell" \/ exit[q] = "ok" => Run!Lines(runEvents, q) # {}
               /\ \A i \in Run!Lines(runEvents, q) : \E j \in Run!Lines(records', q) : runEvents[i] = records'[j]
               /\ exit[q] = "ok" => run'[q].passed
               /\ \A i \in Run!Lines(records', q) : RunSays(records'[i], run'[q])
    <3>1. CASE q # r
      <4>1. run'[q] = run[q] /\ Run!Line(q)' = Run!Line(q)
        BY <2>2, <3>1 DEF RunMoves, Run!Line, Run!Status
      <4>2. Run!Lines(records', q) = Run!Lines(records, q)
            /\ \A i \in Run!Lines(records, q) : records'[i] = records[i]
        BY <2>4, <2>7, <3>1
      <4> QED
        BY <4>1, <4>2 DEF RunInv, RunLogged
    <3>2. CASE q = r
      <4>1. Run!Lines(records', r) = {Len(records) + 1} /\ Run!Line(r)' = l
        BY <2>2, <2>3, <2>4, <2>5, LineStays
      <4>2. RunSays(l, run'[r])
        BY <2>2, <2>3, LineIsALine DEF RunSame, RunSays
      <4> QED
        BY <2>2, <2>4, <2>5, <3>2, <4>1, <4>2
    <3> QED
      BY <3>1, <3>2
  <2>9. RunLogged'
    <3>1. exit' = exit /\ runEvents' = runEvents
      BY <2>1
    <3> QED
      BY <2>8, <3>1 DEF RunLogged
  <2> QED
    BY <2>6, <2>9 DEF RunInv
<1>12. ASSUME NEW r \in Runs, Run!AppendEvent(r) PROVE RunInv'
  <2>1. /\ run[r].at = "log" /\ runEvents' = Append(runEvents, Run!Line(r)) /\ Run!Goto(r, "tell")
        /\ UNCHANGED <<records, exit>>
    BY <1>12 DEF Run!AppendEvent, Run!At
  <2>2. RunMoves(r) /\ RunSame(r) /\ run'[r].at = "tell"
    BY <1>0, <2>1, RunGoes
  <2>3. PICK l \in RunLine : l = Run!Line(r) /\ l.run = r
    BY LineIsALine
  <2>4. /\ runEvents' \in Seq(RunLine) /\ runEvents'[Len(runEvents) + 1] = l
        /\ \A i \in DOMAIN runEvents : runEvents'[i] = runEvents[i]
        /\ \A q : Run!Lines(runEvents', q) =
                    Run!Lines(runEvents, q) \cup (IF r = q THEN {Len(runEvents) + 1} ELSE {})
    BY <1>0, <2>1, <2>3, AppendedLines DEF RunTyped
  <2>5. Run!Lines(runEvents, r) = {} /\ exit[r] # "ok"
        /\ \E j \in Run!Lines(records, r) : records[j] = l
    BY <2>1, <2>3 DEF RunInv, RunLogged
  <2>6. RunTyped'
    BY <1>0, <2>1, <2>2, <2>4 DEF RunTyped, RunMoves, RunSteps
  <2>7. \A q, i : i \in Run!Lines(runEvents, q) => i \in DOMAIN runEvents
    BY DEF Run!Lines
  <2>8. ASSUME NEW q \in Runs
        PROVE  /\ \A i, j \in Run!Lines(records, q) : i = j
               /\ \A i, j \in Run!Lines(runEvents', q) : i = j
               /\ Run!Lines(records, q) # {} => run'[q].at \in {"log", "tell", "done"}
               /\ Run!Lines(runEvents', q) # {} => run'[q].at \in {"tell", "done"}
               /\ run'[q].at = "log" => \E j \in Run!Lines(records, q) : records[j] = Run!Line(q)'
               /\ run'[q].at = "tell" \/ exit[q] = "ok" => Run!Lines(runEvents', q) # {}
               /\ \A i \in Run!Lines(runEvents', q) : \E j \in Run!Lines(records, q) : runEvents'[i] = records[j]
               /\ exit[q] = "ok" => run'[q].passed
               /\ \A i \in Run!Lines(records, q) : RunSays(records[i], run'[q])
    <3>1. CASE q # r
      <4>1. run'[q] = run[q] /\ Run!Line(q)' = Run!Line(q)
        BY <2>2, <3>1 DEF RunMoves, Run!Line, Run!Status
      <4>2. Run!Lines(runEvents', q) = Run!Lines(runEvents, q)
            /\ \A i \in Run!Lines(runEvents, q) : runEvents'[i] = runEvents[i]
        BY <2>4, <2>7, <3>1
      <4> QED
        BY <4>1, <4>2 DEF RunInv, RunLogged
    <3>2. CASE q = r
      <4>1. Run!Lines(runEvents', r) = {Len(runEvents) + 1}
        BY <2>4, <2>5
      <4>2. /\ \A i, j \in Run!Lines(records, r) : i = j
            /\ \A i \in Run!Lines(records, r) : RunSays(records[i], run'[r])
        BY <2>2 DEF RunInv, RunLogged, RunSame, RunSays
      <4> QED
        BY <2>2, <2>4, <2>5, <3>2, <4>1, <4>2
    <3> QED
      BY <3>1, <3>2
  <2>9. RunLogged'
    <3>1. exit' = exit /\ records' = records
      BY <2>1
    <3> QED
      BY <2>8, <3>1 DEF RunLogged
  <2> QED
    BY <2>6, <2>9 DEF RunInv
<1>13. ASSUME NEW r \in Runs, Run!Tell(r) PROVE RunInv'
  <2>1. /\ run[r].at = "tell" /\ UNCHANGED <<records, runEvents>>
        /\ \E how \in {"ok", "error"} : Run!End(r, how) /\ (how = "ok" => run[r].passed)
    BY <1>13 DEF Run!Tell, Run!At
  <2> QED
    BY <1>3, <2>1
<1>14. CASE UNCHANGED <<run, records, runEvents, exit>>
  BY <1>14 DEF RunInv, RunTyped, RunLogged, Run!Line, Run!Status
<1>15. ASSUME NEW path \in OutPaths, Run!RemoveFile(path) PROVE RunInv'
  BY <1>14, <1>15 DEF Run!RemoveFile
<1>16. CASE UNCHANGED runVars
  BY <1>14, <1>16 DEF runVars
<1> QED
  BY <1>5, <1>6, <1>8, <1>9, <1>10, <1>11, <1>12, <1>13, <1>15, <1>16 DEF Run!Next

LEMMA RunIsRecorded == RunInv => Run!RunsAreRecorded
BY DEF RunInv, RunLogged, RunSays, Run!RunsAreRecorded

-----------------------------------------------------------------------------
(* Repairs                                                                 *)

DrBusy(p) == fix[p].at # "idle"

\* The repair under way is the first of those that are left.
Under(kind) ==
  CASE kind = "init" -> Doc!Inits
    [] kind = "config" -> {"config", "move", "write", "audit"}
    [] OTHER -> {kind}

DrOperation(o) ==
  /\ DOMAIN o = {"at", "mode", "force", "needs", "todo", "failed", "name"}
  /\ o.todo \in Seq(Doc!Kinds)
  /\ o.at \notin {"idle", "next"} => o.todo # <<>> /\ o.at \in Under(Head(o.todo))
  /\ o.at \in {"look state", "init state"} /\ o.force => forced
  /\ "config" \in Elements(o.todo) => state # "absent" /\ "init" \notin Elements(o.todo)

\* A forced command that has not failed has a project, or is still to make one.
Promises(o) ==
  o.at \notin {"idle", "write"} /\ o.force /\ o.mode = "yes" /\ ~o.failed =>
    Doc!Project \/ "init" \in Elements(o.todo)

DrTyped ==
  /\ DOMAIN backup = Backups /\ mine \subseteq Broken \cup {"theirs"}
  /\ DOMAIN fix = Procs /\ \A p \in Procs : DrOperation(fix[p])

\* Without a race, who is about to write state.json saw that there is none.
DrApart ==
  ~raced =>
    /\ \A p, q \in Procs : fix[p].at \in Doc!Inits /\ fix[q].at \in Doc!Inits => p = q
    /\ \A p \in Procs : fix[p].at = "init state" /\ ~fix[p].force => state = "absent"

DrKept ==
  /\ ~forced /\ begun /\ ~raced => state = "used"
  /\ ~drOverlapped =>
       /\ \A p, q \in Procs : DrBusy(p) /\ DrBusy(q) => p = q
       /\ \A p \in Procs :
            /\ fix[p].at = "move" => fix[p].name \in Backups /\ backup[fix[p].name] = "absent"
            /\ fix[p].at = "write" => config = "absent"
            /\ fix[p].at = "init config" /\ ~fix[p].force => config = "absent"
            /\ Promises(fix[p])
       /\ ~forced => \A text \in mine : config = text \/ \E n \in Backups : backup[n] = text
  /\ ~misled

DrInv == DrTyped /\ DrKept /\ DrApart

LEMMA LeastIsThere ==
  ASSUME NEW S, S \subseteq Nat, S # {}
  PROVE  Doc!Least(S) \in S
<1>1. IsWellFoundedOn(OpToRel(<, Nat), Nat) /\ \A m, n \in Nat : m < n => <<m, n>> \in OpToRel(<, Nat)
  BY NatLessThanWellFounded DEF OpToRel
<1>2. PICK R : IsWellFoundedOn(R, Nat) /\ \A m, n \in Nat : m < n => <<m, n>> \in R
  BY <1>1
<1>3. PICK n \in S : \A m \in S : ~(<<m, n>> \in R)
  <2>1. S \subseteq Nat /\ S # {} /\ IsWellFoundedOn(R, Nat)
    BY <1>2
  <2> QED
    BY <2>1, WFMin, Zenon
<1>4. n \in Nat /\ \A m \in S : m \in Nat /\ ~(m < n)
  BY <1>2, <1>3
<1>5. \A m \in S : n <= m
  BY <1>4
<1> QED
  BY <1>5 DEF Doc!Least

LEMMA ConcatElements ==
  ASSUME NEW S, NEW s \in Seq(S), NEW t \in Seq(S)
  PROVE  s \o t \in Seq(S) /\ Elements(s \o t) = Elements(s) \cup Elements(t)
<1>1. s \o t \in Seq(S) /\ DOMAIN s = 1..Len(s) /\ DOMAIN t = 1..Len(t) /\ Len(s) \in Nat /\ Len(t) \in Nat
      /\ DOMAIN (s \o t) = 1..(Len(s) + Len(t))
  OBVIOUS
<1>2. \A k \in DOMAIN (s \o t) : (s \o t)[k] = IF k <= Len(s) THEN s[k] ELSE t[k - Len(s)]
  OBVIOUS
<1>3. \A k \in DOMAIN s : k \in DOMAIN (s \o t) /\ (s \o t)[k] = s[k]
  BY <1>1, <1>2
<1>4. ASSUME NEW k \in DOMAIN t PROVE t[k] \in Elements(s \o t)
  <2>1. k + Len(s) \in DOMAIN (s \o t) /\ ~(k + Len(s) <= Len(s)) /\ (k + Len(s)) - Len(s) = k
    BY <1>1
  <2> QED
    BY <1>2, <2>1 DEF Elements
<1>5. ASSUME NEW k \in DOMAIN (s \o t) PROVE (s \o t)[k] \in Elements(s) \cup Elements(t)
  <2>2. PICK a, b \in Nat : a = Len(s) /\ b = Len(t)
    BY <1>1
  <2>3. k \in 1..(a + b)
    BY <1>1, <1>5, <2>2
  <2>4. k \in 1..a \/ (k - a \in 1..b /\ ~(k <= a))
    BY <2>2, <2>3
  <2>1. k \in DOMAIN s \/ (k - Len(s) \in DOMAIN t /\ ~(k <= Len(s)))
    BY <1>1, <2>2, <2>4
  <2> QED
    BY <1>1, <1>2, <2>1 DEF Elements
<1> QED
  BY <1>1, <1>3, <1>4, <1>5 DEF Elements

LEMMA PlanTells ==
  /\ Doc!Plan \in Seq(Doc!Kinds)
  /\ "init" \in Elements(Doc!Plan) <=> ~Doc!Project
  /\ "config" \in Elements(Doc!Plan) <=> Doc!Project /\ ~Doc!Valid
  /\ \E u, c \in Seq(Doc!Kinds) :
       Doc!Plan = u \o c /\ "config" \notin Elements(u) /\ (c = <<"config">> \/ c = <<>>)
<1> DEFINE If(wish, kind) == IF wish THEN <<kind>> ELSE <<>>
<1>1. ASSUME NEW wish \in BOOLEAN, NEW kind \in Doc!Kinds
      PROVE  /\ If(wish, kind) \in Seq(Doc!Kinds)
             /\ Elements(If(wish, kind)) = IF wish THEN {kind} ELSE {}
  <2>1. <<kind>> \in Seq(Doc!Kinds) /\ Elements(<<kind>>) = {kind} /\ <<>> \in Seq(Doc!Kinds) /\ Elements(<<>>) = {}
    BY DEF Elements
  <2> QED
    BY <2>1
<1>2. PICK v \in Seq(Doc!Kinds) : v = If(host # "inside", "venv") /\ Elements(v) \subseteq {"venv"}
  BY <1>1 DEF Doc!Kinds
<1>3. PICK d \in Seq(Doc!Kinds) : d = If(~pip, "deps") /\ Elements(d) \subseteq {"deps"}
  BY <1>1 DEF Doc!Kinds
<1>4. PICK i \in Seq(Doc!Kinds) : i = If(~Doc!Project, "init") /\ Elements(i) = IF ~Doc!Project THEN {"init"} ELSE {}
  BY <1>1 DEF Doc!Kinds
<1>5. PICK c \in Seq(Doc!Kinds) : c = If(Doc!Project /\ ~Doc!Valid, "config")
                                 /\ Elements(c) = IF Doc!Project /\ ~Doc!Valid THEN {"config"} ELSE {}
  BY <1>1 DEF Doc!Kinds
<1>6. Doc!Plan = v \o d \o i \o c
  BY <1>2, <1>3, <1>4, <1>5 DEF Doc!Plan
<1>11. c = <<"config">> \/ c = <<>>
  BY <1>5
<1> HIDE DEF If
<1>7. PICK vd \in Seq(Doc!Kinds) : vd = v \o d /\ Elements(vd) \subseteq {"venv", "deps"}
  <2>1. v \o d \in Seq(Doc!Kinds) /\ Elements(v \o d) = Elements(v) \cup Elements(d)
    BY ConcatElements
  <2>2. Elements(v) \subseteq {"venv"} /\ Elements(d) \subseteq {"deps"}
    BY <1>2, <1>3
  <2> QED
    BY <2>1, <2>2
<1>8. PICK vdi \in Seq(Doc!Kinds) : vdi = vd \o i /\ Elements(vdi) = Elements(vd) \cup Elements(i)
  <2>1. vd \o i \in Seq(Doc!Kinds) /\ Elements(vd \o i) = Elements(vd) \cup Elements(i)
    BY ConcatElements
  <2> QED
    BY <2>1, Zenon
<1>9. vdi \o c \in Seq(Doc!Kinds) /\ Elements(vdi \o c) = Elements(vdi) \cup Elements(c)
  BY ConcatElements
<1>10. Doc!Plan = vdi \o c
  BY <1>6, <1>7, <1>8
<1>12. "config" \notin Elements(vdi)
  BY <1>4, <1>7, <1>8
<1>13. \E u, w \in Seq(Doc!Kinds) :
         Doc!Plan = u \o w /\ "config" \notin Elements(u) /\ (w = <<"config">> \/ w = <<>>)
  BY <1>10, <1>11, <1>12
<1>14. /\ "init" \in Elements(Doc!Plan) <=> ~Doc!Project
       /\ "config" \in Elements(Doc!Plan) <=> Doc!Project /\ ~Doc!Valid
  BY <1>4, <1>5, <1>7, <1>8, <1>9, <1>10
<1> QED
  BY <1>9, <1>10, <1>13, <1>14

\* A command's progress and nobody else's.
DrMoves(p) == DOMAIN fix' = Procs /\ \A q \in Procs \ {p} : fix'[q] = fix[q]

DrFields == {"at", "mode", "force", "needs", "todo", "failed", "name"}

\* What a command relies on while no other is under way.
DrSafe(p) ==
  /\ fix[p].at = "move" => fix[p].name \in Backups /\ backup[fix[p].name] = "absent"
  /\ fix[p].at = "write" => config = "absent"
  /\ fix[p].at = "init config" /\ ~fix[p].force => config = "absent"
  /\ Promises(fix[p])

DrMine == \A text \in mine : config = text \/ \E n \in Backups : backup[n] = text

\* A step of one command leaves those apart that initialize.
DrSolo(p) ==
  ~raced' =>
    /\ fix'[p].at \in Doc!Inits => \A q \in Procs \ {p} : fix[q].at \notin Doc!Inits
    /\ fix'[p].at = "init state" /\ ~fix'[p].force => state' = "absent"
    /\ state' = state \/ \A q \in Procs \ {p} : fix[q].at \notin Doc!Inits

LEMMA DrLeaves ==
  ASSUME NEW p \in Procs, fix'[p].at \in {"idle", "next", "move", "write", "audit"}, state' = state
  PROVE  DrSolo(p)
BY DEF DrSolo, Doc!Inits

LEMMA DrFirst == Doc!Init => DrInv
<1> SUFFICES ASSUME Doc!Init PROVE DrInv
  OBVIOUS
<1>1. /\ DOMAIN fix = Procs /\ DOMAIN backup = Backups /\ forced = FALSE /\ misled = FALSE
      /\ \A p \in Procs : fix[p] = Doc!Idle
      /\ \/ config = "absent" /\ state = "absent" /\ mine = {} /\ begun = FALSE
         \/ config = "theirs" /\ state = "used" /\ mine = {"theirs"} /\ begun = TRUE
  BY DEF Doc!Init
<1>2. /\ DOMAIN Doc!Idle = DrFields /\ Doc!Idle.at = "idle" /\ Doc!Idle.todo = <<>>
      /\ <<>> \in Seq(Doc!Kinds) /\ Elements(<<>>) = {}
  BY DEF Doc!Idle, DrFields, Elements
<1>3. \A p \in Procs : DrOperation(fix[p]) /\ ~DrBusy(p) /\ DrSafe(p)
  BY <1>1, <1>2 DEF DrOperation, DrBusy, DrSafe, Promises, DrFields
<1>5. DrApart
  BY <1>1, <1>2 DEF DrApart, Doc!Inits
<1>4. DrMine /\ (begun => state = "used") /\ mine \subseteq Broken \cup {"theirs"}
  BY <1>1 DEF DrMine
<1> QED
  BY <1>1, <1>3, <1>4, <1>5 DEF DrInv, DrTyped, DrKept, DrSafe, DrMine

\* A step of one command.
LEMMA DrStep ==
  ASSUME DrInv, NEW p \in Procs, DrMoves(p), DrOperation(fix[p])',
         DOMAIN backup' = Backups, mine' = mine,
         state # "absent" => state' # "absent", forced => forced',
         ~drOverlapped' => ~drOverlapped /\ \A q \in Procs \ {p} : ~DrBusy(q),
         ~drOverlapped' => DrSafe(p)',
         raced => raced', DrSolo(p), ~forced' /\ begun' /\ ~raced' => state' = "used",
         ~drOverlapped' /\ ~forced' => DrMine',
         ~misled'
  PROVE  DrInv'
<1>1. ASSUME NEW q \in Procs PROVE DrOperation(fix[q])'
  <2>1. CASE q = p
    BY <2>1
  <2>2. CASE q # p
    <3>1. PICK o : o = fix[q]
      OBVIOUS
    <3>2. fix'[q] = o /\ DrOperation(o)
      BY <2>2, <3>1 DEF DrMoves, DrInv, DrTyped
    <3>3. DrOperation(o)'
      BY <3>2 DEF DrOperation
    <3> QED
      BY <3>2, <3>3
  <2> QED
    BY <2>1, <2>2
<1>2. ASSUME ~drOverlapped', NEW q \in Procs, q # p PROVE ~DrBusy(q)' /\ fix'[q].at = "idle"
  BY <1>2 DEF DrMoves, DrBusy
<1>3. ASSUME ~drOverlapped', NEW q \in Procs PROVE DrSafe(q)'
  BY <1>2, <1>3 DEF DrSafe, Promises
<1>4. DrTyped'
  BY <1>1 DEF DrTyped, DrInv, DrMoves
<1>5. ASSUME ~drOverlapped' PROVE \A q, r \in Procs : DrBusy(q)' /\ DrBusy(r)' => q = r
  BY <1>2, <1>5
<1>6. DrKept'
  BY <1>3, <1>5 DEF DrKept, DrSafe, DrMine
<1>7. ASSUME ~raced'
      PROVE  /\ \A q, r \in Procs : fix'[q].at \in Doc!Inits /\ fix'[r].at \in Doc!Inits => q = r
             /\ \A q \in Procs : fix'[q].at = "init state" /\ ~fix'[q].force => state' = "absent"
  <2>1. /\ \A q, r \in Procs : fix[q].at \in Doc!Inits /\ fix[r].at \in Doc!Inits => q = r
        /\ \A q \in Procs : fix[q].at = "init state" /\ ~fix[q].force => state = "absent"
        /\ "init state" \in Doc!Inits
    BY <1>7 DEF DrInv, DrApart, Doc!Inits
  <2>2. /\ fix'[p].at \in Doc!Inits => \A q \in Procs \ {p} : fix[q].at \notin Doc!Inits
        /\ fix'[p].at = "init state" /\ ~fix'[p].force => state' = "absent"
        /\ state' = state \/ \A q \in Procs \ {p} : fix[q].at \notin Doc!Inits
    BY <1>7 DEF DrSolo
  <2>3. \A q \in Procs \ {p} : fix'[q] = fix[q]
    BY DEF DrMoves
  <2> QED
    BY <2>1, <2>2, <2>3
<1>8. DrApart'
  BY <1>7 DEF DrApart, Doc!Inits
<1> QED
  BY <1>4, <1>6, <1>8 DEF DrInv

\* While no two overlap, who is under way is alone.
LEMMA DrAlone ==
  ASSUME DrInv, NEW p \in Procs, DrBusy(p)
  PROVE  ~drOverlapped => DrSafe(p) /\ \A q \in Procs \ {p} : ~DrBusy(q)
BY DEF DrInv, DrKept, DrSafe

LEMMA DrGoes ==
  ASSUME DrInv, NEW p \in Procs, NEW step, Doc!Goto(p, step)
  PROVE  /\ DrMoves(p) /\ DOMAIN fix'[p] = DrFields /\ fix'[p].at = step
         /\ fix'[p].mode = fix[p].mode /\ fix'[p].force = fix[p].force /\ fix'[p].todo = fix[p].todo
         /\ fix'[p].failed = fix[p].failed /\ fix'[p].name = fix[p].name
<1>1. fix' = [fix EXCEPT ![p].at = step] /\ DOMAIN fix = Procs /\ DOMAIN fix[p] = DrFields
  BY DEF Doc!Goto, DrInv, DrTyped, DrOperation, DrFields
<1> QED
  BY <1>1 DEF DrMoves, DrFields

\* What is planned and not yet done of a command that leaves one repair behind.
LEMMA DrTail ==
  ASSUME NEW o, DrOperation(o), o.todo # <<>>
  PROVE  /\ Tail(o.todo) \in Seq(Doc!Kinds) /\ Head(o.todo) \in Doc!Kinds
         /\ Elements(Tail(o.todo)) \subseteq Elements(o.todo) /\ Head(o.todo) \in Elements(o.todo)
         /\ \A kind \in Elements(o.todo) : kind = Head(o.todo) \/ kind \in Elements(Tail(o.todo))
<1>1. o.todo \in Seq(Doc!Kinds)
  BY DEF DrOperation
<1>2. Head(o.todo) = o.todo[1] /\ 1 \in DOMAIN o.todo /\ Head(o.todo) \in Doc!Kinds
  BY <1>1
<1> QED
  BY <1>1, <1>2, HeadAndTail DEF Elements

\* A repair that ended with nothing on the disk changed since, but what it says.
LEMMA DrDone ==
  ASSUME DrInv, NEW p \in Procs, fix[p].at \notin {"idle", "next"}, NEW failed, Doc!Done(p, failed),
         state # "absent" => state' # "absent"
  PROVE  /\ DrMoves(p) /\ DrOperation(fix[p])' /\ fix'[p].at = "next"
         /\ fix'[p].mode = fix[p].mode /\ fix'[p].force = fix[p].force
         /\ fix'[p].todo = Tail(fix[p].todo)
         /\ ~fix'[p].failed => ~fix[p].failed /\ ~failed
<1>0. PICK told : told = (fix[p].failed \/ failed)
  OBVIOUS
<1>1. fix' = [fix EXCEPT ![p].at = "next", ![p].todo = Tail(@), ![p].failed = told]
      /\ DOMAIN fix = Procs /\ DOMAIN fix[p] = DrFields
  BY <1>0 DEF Doc!Done, DrInv, DrTyped, DrOperation, DrFields
<1>2. /\ DrMoves(p) /\ fix'[p].at = "next" /\ DOMAIN fix'[p] = DrFields
      /\ fix'[p].mode = fix[p].mode /\ fix'[p].force = fix[p].force
      /\ fix'[p].todo = Tail(fix[p].todo) /\ fix'[p].failed = told
  BY <1>1 DEF DrMoves, DrFields
<1>3. ~fix'[p].failed => ~fix[p].failed /\ ~failed
  BY <1>0, <1>2
<1>4. DrOperation(fix[p]) /\ fix[p].todo # <<>>
  BY DEF DrInv, DrTyped, DrOperation
<1>5. PICK o : o = fix'[p]
  OBVIOUS
<1>6. DOMAIN o = DrFields /\ o.at = "next" /\ o.todo = Tail(fix[p].todo)
  BY <1>2, <1>5
<1>7. DrOperation(o)'
  BY <1>4, <1>6, DrTail DEF DrOperation, DrFields
<1> QED
  BY <1>2, <1>3, <1>5, <1>7

\* The files an init or a rebuild leaves alone, and what is told of them.
DrStays ==
  /\ config' = config /\ state' = state /\ backup' = backup /\ mine' = mine
  /\ begun' = begun /\ forced' = forced /\ (misled' => misled)

LEMMA DrQuiet ==
  ASSUME DrInv, NEW p \in Procs, DrMoves(p), DrOperation(fix[p])', DrStays,
         raced => raced', DrSolo(p),
         ~drOverlapped' => ~drOverlapped /\ \A q \in Procs \ {p} : ~DrBusy(q),
         ~drOverlapped' => DrSafe(p)'
  PROVE  DrInv'
<1>1. DOMAIN backup = Backups /\ ~misled /\ (~forced /\ begun /\ ~raced => state = "used")
      /\ (~drOverlapped /\ ~forced => DrMine)
  BY DEF DrInv, DrTyped, DrKept, DrMine
<1>2. ~drOverlapped' /\ ~forced' => DrMine'
  BY <1>1 DEF DrStays, DrMine
<1> QED
  BY <1>1, <1>2, DrStep DEF DrStays

LEMMA DrStarts ==
  ASSUME DrInv, NEW p \in Procs, NEW mode, NEW force, Doc!Start(p, mode, force)
  PROVE  DrInv'
<1>1. /\ fix' = [fix EXCEPT ![p] = [Doc!Idle EXCEPT !.at = "next", !.mode = mode, !.force = force,
                                            !.needs = forge, !.todo = Doc!Plan]]
      /\ DOMAIN fix = Procs
  BY DEF Doc!Start, DrInv, DrTyped
<1>2. DrStays /\ raced' = raced
  BY DEF Doc!Start, Doc!project, DrStays
<1>3. DrMoves(p) /\ DOMAIN fix'[p] = DrFields /\ fix'[p].at = "next" /\ fix'[p].todo = Doc!Plan
  BY <1>1 DEF DrMoves, DrFields, Doc!Idle
<1>4. drOverlapped' = (drOverlapped \/ \E q \in Procs : ~Doc!At(q, "idle"))
  BY DEF Doc!Start
<1>5. ~drOverlapped' => ~drOverlapped /\ \A q \in Procs \ {p} : ~DrBusy(q)
  BY <1>4 DEF DrBusy, Doc!At
<1>6. PICK o : o = fix'[p]
  OBVIOUS
<1>7. DrOperation(o)'
  BY <1>2, <1>3, <1>6, PlanTells DEF DrOperation, DrFields, Doc!Project, DrStays
<1>8. DrSafe(p)'
  BY <1>2, <1>3, PlanTells DEF DrSafe, Promises, Doc!Project, DrStays
<1>9. DrSolo(p)
  BY <1>2, <1>3, DrLeaves DEF DrStays
<1> QED
  BY <1>2, <1>3, <1>5, <1>6, <1>7, <1>8, <1>9, DrQuiet

LEMMA DrApplies ==
  ASSUME DrInv, NEW p \in Procs, Doc!Apply(p)
  PROVE  DrInv'
<1>1. /\ fix[p].at = "next" /\ fix[p].todo # <<>> /\ Doc!Goto(p, Head(fix[p].todo))
      /\ DrStays /\ drOverlapped' = drOverlapped
  BY DEF Doc!Apply, Doc!At, Doc!project, DrStays
<1>2. DrOperation(fix[p]) /\ DrBusy(p)
  BY <1>1 DEF DrInv, DrTyped, DrBusy
<1>3. Head(fix[p].todo) \in Doc!Kinds
  BY <1>1, <1>2, DrTail
<1>4. PICK o : o = fix'[p]
  OBVIOUS
<1>5. /\ DrMoves(p) /\ DOMAIN o = DrFields /\ o.at = Head(fix[p].todo)
      /\ o.mode = fix[p].mode /\ o.force = fix[p].force /\ o.todo = fix[p].todo
      /\ o.failed = fix[p].failed
  BY <1>1, <1>4, DrGoes
<1>6. DrOperation(o)'
  <2>1. Head(o.todo) \in Under(Head(o.todo)) /\ o.at \notin {"look state", "init state"}
    BY <1>3, <1>5 DEF Under, Doc!Kinds, Doc!Inits
  <2> QED
    BY <1>1, <1>2, <1>5, <2>1 DEF DrOperation, DrFields, DrStays
<1>7. ~drOverlapped => DrSafe(p)'
  <2>1. o.at \notin {"move", "write", "init config"}
    BY <1>3, <1>5 DEF Doc!Kinds
  <2>2. ~drOverlapped => Promises(fix[p])
    BY <1>2, DrAlone DEF DrSafe
  <2> QED
    BY <1>1, <1>4, <1>5, <2>1, <2>2 DEF DrSafe, Promises, DrStays, Doc!Project
<1>8. raced' = (raced \/ (Head(fix[p].todo) = "init" /\ \E q \in Procs : fix[q].at \in Doc!Inits))
  BY DEF Doc!Apply
<1>9. (raced => raced') /\ DrSolo(p)
  <2>1. fix'[p].at \in Doc!Inits => Head(fix[p].todo) = "init" /\ fix'[p].at = "init"
    BY <1>3, <1>4, <1>5 DEF Doc!Kinds, Doc!Inits
  <2>2. (raced => raced') /\ (~raced' => ~(Head(fix[p].todo) = "init" /\ \E q \in Procs : fix[q].at \in Doc!Inits))
    BY <1>8, Zenon
  <2>3. state' = state
    BY <1>1 DEF DrStays
  <2>4. ~raced' /\ fix'[p].at \in Doc!Inits => \A q \in Procs \ {p} : fix[q].at \notin Doc!Inits
    BY <2>1, <2>2
  <2>5. fix'[p].at # "init state"
    BY <2>1 DEF Doc!Inits
  <2> QED
    BY <2>2, <2>3, <2>4, <2>5 DEF DrSolo
<1> QED
  BY <1>1, <1>2, <1>4, <1>5, <1>6, <1>7, <1>9, DrAlone, DrQuiet

LEMMA DrWithholds ==
  ASSUME DrInv, NEW p \in Procs, Doc!Withhold(p)
  PROVE  DrInv'
<1>1. /\ fix[p].at = "next" /\ fix[p].todo # <<>> /\ fix' = [fix EXCEPT ![p].todo = Tail(@)]
      /\ DrStays /\ drOverlapped' = drOverlapped /\ raced' = raced
  BY DEF Doc!Withhold, Doc!At, Doc!project, Doc!operator, DrStays
<1>2. DrOperation(fix[p]) /\ DrBusy(p) /\ DOMAIN fix = Procs /\ DOMAIN fix[p] = DrFields
  BY <1>1 DEF DrInv, DrTyped, DrBusy, DrOperation, DrFields
<1>3. fix[p].force => fix[p].mode # "yes"
  BY DEF Doc!Withhold, Doc!Approved
<1>4. PICK o : o = fix'[p]
  OBVIOUS
<1>5. /\ DrMoves(p) /\ DOMAIN o = DrFields /\ o.at = "next"
      /\ o.mode = fix[p].mode /\ o.force = fix[p].force /\ o.todo = Tail(fix[p].todo)
  BY <1>1, <1>2, <1>4 DEF DrMoves, DrFields
<1>6. DrOperation(o)'
  BY <1>1, <1>2, <1>5, DrTail DEF DrOperation, DrFields, DrStays
<1>7. DrSafe(p)' /\ DrSolo(p)
  BY <1>1, <1>3, <1>4, <1>5, DrLeaves DEF DrSafe, Promises, DrStays
<1> QED
  BY <1>1, <1>2, <1>4, <1>5, <1>6, <1>7, DrAlone, DrQuiet

LEMMA DrFinishes ==
  ASSUME DrInv, NEW p \in Procs, Doc!Finish(p)
  PROVE  DrInv'
<1>1. /\ fix[p].at = "next" /\ fix[p].todo = <<>> /\ fix' = [fix EXCEPT ![p] = Doc!Idle]
      /\ config' = config /\ state' = state /\ backup' = backup /\ mine' = mine
      /\ begun' = begun /\ forced' = forced /\ drOverlapped' = drOverlapped /\ raced' = raced
  BY DEF Doc!Finish, Doc!At, Doc!project, Doc!operator
<1>2. misled' = (misled \/ ( /\ Doc!Succeeds(p) /\ fix[p].mode = "yes" /\ fix[p].force
                            /\ ~drOverlapped /\ ~(pip /\ Doc!Project /\ Doc!Valid)))
  BY DEF Doc!Finish
<1>3. DrBusy(p) /\ DOMAIN fix = Procs /\ ~misled
  BY <1>1 DEF DrInv, DrTyped, DrKept, DrBusy
<1>4. ~drOverlapped => Promises(fix[p])
  BY <1>3, DrAlone DEF DrSafe
<1>5. Elements(<<>>) = {}
  BY DEF Elements
<1>6. ASSUME misled' PROVE FALSE
  <2>1. Doc!Ok /\ ~fix[p].failed /\ fix[p].mode = "yes" /\ fix[p].force /\ ~drOverlapped
        /\ ~(pip /\ Doc!Project /\ Doc!Valid)
    BY <1>2, <1>3, <1>6 DEF Doc!Succeeds
  <2>2. Doc!Project
    BY <1>1, <1>4, <1>5, <2>1 DEF Promises
  <2> QED
    BY <2>1, <2>2 DEF Doc!Ok
<1>7. DrStays
  BY <1>1, <1>6 DEF DrStays
<1>8. PICK o : o = fix'[p]
  OBVIOUS
<1>9. DrMoves(p) /\ o = Doc!Idle
  BY <1>1, <1>3, <1>8 DEF DrMoves
<1>10. o.at = "idle" /\ o.todo = <<>> /\ DOMAIN o = DrFields /\ <<>> \in Seq(Doc!Kinds)
  BY <1>9 DEF Doc!Idle, DrFields
<1>11. DrOperation(o)' /\ DrSafe(p)' /\ DrSolo(p)
  BY <1>1, <1>5, <1>8, <1>10, DrLeaves DEF DrOperation, DrSafe, Promises, DrFields
<1> QED
  BY <1>1, <1>3, <1>7, <1>8, <1>9, <1>11, DrAlone, DrQuiet

\* A repair that looks at nothing the others do.
LEMMA DrPasses ==
  ASSUME DrInv, NEW p \in Procs, fix[p].at \in {"venv", "deps"}, NEW failed, Doc!Done(p, failed),
         DrStays, drOverlapped' = drOverlapped, raced' = raced
  PROVE  DrInv'
<1>1. DrOperation(fix[p]) /\ DrBusy(p)
  BY DEF DrInv, DrTyped, DrBusy
<1>2. fix[p].todo # <<>> /\ Head(fix[p].todo) \in Doc!Kinds /\ fix[p].at \in Under(Head(fix[p].todo))
  BY <1>1, DrTail DEF DrOperation
<1>3. Head(fix[p].todo) # "init"
  BY <1>2 DEF Under, Doc!Inits
<1>4. "init" \in Elements(fix[p].todo) => "init" \in Elements(Tail(fix[p].todo))
  BY <1>1, <1>2, <1>3, DrTail
<1>5. /\ DrMoves(p) /\ DrOperation(fix[p])' /\ fix'[p].at = "next"
      /\ fix'[p].mode = fix[p].mode /\ fix'[p].force = fix[p].force
      /\ fix'[p].todo = Tail(fix[p].todo)
      /\ (~fix'[p].failed => ~fix[p].failed)
  BY DrDone DEF DrStays
<1>6. ~drOverlapped => Promises(fix[p]) /\ \A q \in Procs \ {p} : ~DrBusy(q)
  BY <1>1, DrAlone DEF DrSafe
<1>7. ~drOverlapped => DrSafe(p)'
  BY <1>4, <1>5, <1>6 DEF DrSafe, Promises, DrStays, Doc!Project
<1>8. DrSolo(p)
  BY <1>5, DrLeaves DEF DrStays
<1> QED
  BY <1>5, <1>6, <1>7, <1>8, DrQuiet

LEMMA DrInstalls ==
  ASSUME DrInv, NEW p \in Procs, Doc!CreateVenv(p) \/ Doc!InstallDeps(p)
  PROVE  DrInv'
<1>1. fix[p].at \in {"venv", "deps"} /\ UNCHANGED <<config, state, backup, Doc!operator, forced, misled>>
  <2>1. CASE Doc!CreateVenv(p)
    BY <2>1 DEF Doc!CreateVenv, Doc!At, Doc!project
  <2>2. CASE Doc!InstallDeps(p)
    <3>1. Doc!At(p, "deps") /\ UNCHANGED <<config, state, backup, Doc!operator, forced, misled>>
      BY <2>2 DEF Doc!InstallDeps
    <3> QED
      BY <3>1 DEF Doc!At
  <2> QED
    BY <2>1, <2>2
<1>2. \E failed : Doc!Done(p, failed)
  BY DEF Doc!CreateVenv, Doc!InstallDeps
<1>3. DrStays /\ drOverlapped' = drOverlapped /\ raced' = raced
  BY <1>1 DEF Doc!operator, DrStays
<1> QED
  BY <1>1, <1>2, <1>3, DrPasses

\* In initialize_project: what is only looked at, and what is seen.
LEMMA DrProceeds ==
  ASSUME DrInv, NEW p \in Procs, NEW step \in Doc!Inits, fix[p].at \in Doc!Inits, Doc!Goto(p, step),
         DrStays, UNCHANGED <<drOverlapped, raced>>,
         step = "init config" /\ ~fix[p].force => config = "absent",
         step \in {"look state", "init state"} /\ fix[p].force => forced,
         step = "init state" /\ ~fix[p].force => state = "absent"
  PROVE  DrInv'
<1>1. DrOperation(fix[p]) /\ DrBusy(p)
  BY DEF DrInv, DrTyped, DrBusy, Doc!Inits
<1>2. ~drOverlapped => Promises(fix[p]) /\ \A q \in Procs \ {p} : ~DrBusy(q)
  BY <1>1, DrAlone DEF DrSafe
<1>3. PICK o : o = fix'[p]
  OBVIOUS
<1>4. /\ DrMoves(p) /\ DOMAIN o = DrFields /\ o.at = step
      /\ o.mode = fix[p].mode /\ o.force = fix[p].force /\ o.todo = fix[p].todo
      /\ o.failed = fix[p].failed
  BY <1>3, DrGoes
<1>5. fix[p].todo # <<>> /\ Head(fix[p].todo) \in Doc!Kinds /\ fix[p].at \in Under(Head(fix[p].todo))
  BY <1>1, DrTail DEF DrOperation, Doc!Inits
<1>6. step \in Under(Head(fix[p].todo))
  BY <1>5 DEF Under, Doc!Kinds, Doc!Inits
<1>7. DrOperation(o)'
  BY <1>1, <1>4, <1>5, <1>6 DEF DrOperation, DrFields, DrStays
<1>8. ~drOverlapped => DrSafe(p)'
  <2>1. step \notin {"idle", "move", "write"} /\ fix[p].at \notin {"idle", "write"}
    BY DEF Doc!Inits
  <2> QED
    BY <1>2, <1>3, <1>4, <2>1 DEF DrSafe, Promises, DrStays, Doc!Project
<1>9. DrSolo(p)
  <2>1. ~raced => \A q \in Procs \ {p} : fix[q].at \notin Doc!Inits
    BY DEF DrInv, DrApart
  <2> QED
    BY <1>3, <1>4, <2>1 DEF DrSolo, DrStays
<1> QED
  BY <1>2, <1>3, <1>4, <1>7, <1>8, <1>9, DrQuiet

LEMMA DrRefuses ==
  ASSUME DrInv, NEW p \in Procs, fix[p].at \in Doc!Inits, Doc!Done(p, TRUE),
         DrStays, UNCHANGED <<drOverlapped, raced>>
  PROVE  DrInv'
<1>1. DrBusy(p) /\ fix[p].at \notin {"idle", "next"}
  BY DEF DrBusy, Doc!Inits
<1>2. ~drOverlapped => \A q \in Procs \ {p} : ~DrBusy(q)
  BY <1>1, DrAlone
<1>3. DrMoves(p) /\ DrOperation(fix[p])' /\ fix'[p].at = "next" /\ fix'[p].failed
  BY <1>1, DrDone DEF DrStays
<1>4. DrSafe(p)' /\ DrSolo(p)
  BY <1>3, DrLeaves DEF DrSafe, Promises, DrStays
<1> QED
  BY <1>2, <1>3, <1>4, DrQuiet

LEMMA DrLooks ==
  ASSUME DrInv, NEW p \in Procs,
         Doc!InitLooks(p) \/ Doc!InitMakes(p) \/ Doc!LookAtConfig(p) \/ Doc!LookAtState(p)
  PROVE  DrInv'
<1>1. DrStays /\ UNCHANGED <<drOverlapped, raced>>
  <2>1. UNCHANGED <<config, state, backup, Doc!operator, forced, misled>>
    <3>1. CASE Doc!InitMakes(p)
      BY <3>1 DEF Doc!InitMakes
    <3>2. CASE Doc!InitLooks(p)
      BY <3>2 DEF Doc!InitLooks, Doc!project
    <3>3. CASE Doc!LookAtConfig(p)
      BY <3>3 DEF Doc!LookAtConfig, Doc!project
    <3>4. CASE Doc!LookAtState(p)
      BY <3>4 DEF Doc!LookAtState, Doc!project
    <3> QED
      BY <3>1, <3>2, <3>3, <3>4
  <2> QED
    BY <2>1 DEF Doc!operator, DrStays
<1>2. DrOperation(fix[p])
  BY DEF DrInv, DrTyped
<1>3. CASE Doc!InitLooks(p)
  <2>1. fix[p].at \in Doc!Inits /\ "init dirs" \in Doc!Inits
        /\ (Doc!Done(p, TRUE) \/ Doc!Goto(p, "init dirs"))
    BY <1>3 DEF Doc!InitLooks, Doc!At, Doc!Inits
  <2> QED
    BY <1>1, <2>1, DrProceeds, DrRefuses
<1>4. CASE Doc!InitMakes(p)
  <2>1. fix[p].at \in Doc!Inits /\ "look config" \in Doc!Inits /\ Doc!Goto(p, "look config")
    BY <1>4 DEF Doc!InitMakes, Doc!At, Doc!Inits
  <2> QED
    BY <1>1, <2>1, DrProceeds
<1>5. CASE Doc!LookAtConfig(p)
  <2>1. /\ fix[p].at \in Doc!Inits /\ "init config" \in Doc!Inits
        /\ Doc!Done(p, TRUE) \/ (Doc!Goto(p, "init config") /\ (~fix[p].force => config = "absent"))
    BY <1>5 DEF Doc!LookAtConfig, Doc!At, Doc!Inits
  <2> QED
    BY <1>1, <2>1, DrProceeds, DrRefuses
<1>6. CASE Doc!LookAtState(p)
  <2>1. /\ fix[p].at \in Doc!Inits /\ "init state" \in Doc!Inits /\ (fix[p].force => forced)
        /\ Doc!Done(p, TRUE) \/ (Doc!Goto(p, "init state") /\ (~fix[p].force => state = "absent"))
    BY <1>2, <1>6 DEF Doc!LookAtState, Doc!At, Doc!Inits, DrOperation
  <2> QED
    BY <1>1, <2>1, DrProceeds, DrRefuses
<1> QED
  BY <1>3, <1>4, <1>5, <1>6

\* Nothing the operator wrote is one of the texts nobody has to repair.
LEMMA DrWrote ==
  ASSUME DrInv
  PROVE  "absent" \notin mine /\ "built" \notin mine /\ "empty" \notin mine
<1>1. Broken \cap {"absent", "empty", "theirs", "built"} = {}
  BY DoctorAssumption DEF Doc!DoctorAssumption, Doc!Words
<1> QED
  BY <1>1 DEF DrInv, DrTyped

LEMMA DrWritesConfig ==
  ASSUME DrInv, NEW p \in Procs, Doc!InitConfig(p)
  PROVE  DrInv'
<1>1. /\ fix[p].at = "init config" /\ state' = state /\ backup' = backup /\ mine' = mine
      /\ begun' = begun /\ misled' = misled /\ drOverlapped' = drOverlapped /\ raced' = raced
      /\ config' = "built" /\ forced' = (forced \/ fix[p].force) /\ Doc!Goto(p, "look state")
  BY DEF Doc!InitConfig, Doc!At, Doc!operator
<1>2. DrOperation(fix[p]) /\ DrBusy(p)
  BY <1>1 DEF DrInv, DrTyped, DrBusy
<1>3. ~drOverlapped => DrSafe(p) /\ \A q \in Procs \ {p} : ~DrBusy(q)
  BY <1>2, DrAlone
<1>4. PICK o : o = fix'[p]
  OBVIOUS
<1>5. /\ DrMoves(p) /\ DOMAIN o = DrFields /\ o.at = "look state"
      /\ o.mode = fix[p].mode /\ o.force = fix[p].force /\ o.todo = fix[p].todo
      /\ o.failed = fix[p].failed
  BY <1>1, <1>4, DrGoes
<1>6. fix[p].todo # <<>> /\ Head(fix[p].todo) \in Doc!Kinds
      /\ "init config" \in Under(Head(fix[p].todo))
  BY <1>1, <1>2, DrTail DEF DrOperation
<1>7. Head(fix[p].todo) = "init" /\ "look state" \in Under(Head(fix[p].todo))
  BY <1>6 DEF Under, Doc!Kinds, Doc!Inits
<1>8. "init" \in Elements(fix[p].todo)
  BY <1>2, <1>6, <1>7, DrTail
<1>9. (forced => forced') /\ (fix[p].force => forced')
  BY <1>1
<1>10. DrOperation(o)'
  BY <1>1, <1>2, <1>5, <1>6, <1>7, <1>9 DEF DrOperation, DrFields
<1>11. DrSafe(p)'
  BY <1>4, <1>5, <1>8 DEF DrSafe, Promises
<1>12. ~drOverlapped' /\ ~forced' => DrMine'
  <2>1. SUFFICES ASSUME ~drOverlapped', ~forced' PROVE DrMine'
    OBVIOUS
  <2>2. config = "absent" /\ ~forced /\ ~drOverlapped
    BY <1>1, <1>3, <1>9, <2>1 DEF DrSafe
  <2>3. \A text \in mine : \E n \in Backups : backup[n] = text
    BY <2>2, DrWrote DEF DrInv, DrKept
  <2> QED
    BY <1>1, <2>3 DEF DrMine
<1>13. DOMAIN backup' = Backups /\ ~misled' /\ (~forced' /\ begun' /\ ~raced' => state' = "used")
  BY <1>1, <1>9 DEF DrInv, DrTyped, DrKept
<1>14. DrSolo(p)
  <2>1. ~raced => \A q \in Procs \ {p} : fix[q].at \notin Doc!Inits
    BY <1>1 DEF DrInv, DrApart, Doc!Inits
  <2> QED
    BY <1>1, <1>4, <1>5, <2>1 DEF DrSolo
<1> QED
  BY <1>1, <1>3, <1>4, <1>5, <1>9, <1>10, <1>11, <1>12, <1>13, <1>14, DrStep

LEMMA DrWritesState ==
  ASSUME DrInv, NEW p \in Procs, Doc!InitState(p)
  PROVE  DrInv'
<1>1. /\ fix[p].at = "init state" /\ config' = config /\ backup' = backup /\ mine' = mine
      /\ begun' = begun /\ forced' = forced /\ misled' = misled /\ drOverlapped' = drOverlapped
      /\ raced' = raced /\ state' = "new"
  BY DEF Doc!InitState, Doc!At, Doc!operator
<1>2. DrOperation(fix[p]) /\ DrBusy(p)
  BY <1>1 DEF DrInv, DrTyped, DrBusy
<1>3. ~drOverlapped => \A q \in Procs \ {p} : ~DrBusy(q)
  BY <1>2, DrAlone
<1>4. PICK stopped \in BOOLEAN : Doc!Done(p, stopped \/ config = "absent")
  BY DEF Doc!InitState
<1>5. /\ DrMoves(p) /\ DrOperation(fix[p])' /\ fix'[p].at = "next"
      /\ (~fix'[p].failed => ~(stopped \/ config = "absent"))
  BY <1>1, <1>4, DrDone
<1>6. DrSafe(p)'
  BY <1>1, <1>5 DEF DrSafe, Promises, Doc!Project
<1>7. ~forced' /\ ~raced' => ~begun'
  <2>1. fix[p].force => forced
    BY <1>1, <1>2 DEF DrOperation
  <2>2. ~forced /\ ~raced => state = "absent"
    BY <1>1, <2>1 DEF DrInv, DrApart
  <2> QED
    BY <1>1, <2>2 DEF DrInv, DrKept
<1>8. ~drOverlapped' /\ ~forced' => DrMine'
  BY <1>1 DEF DrMine, DrInv, DrKept
<1>9. DOMAIN backup' = Backups /\ ~misled'
  BY <1>1 DEF DrInv, DrTyped, DrKept
<1>10. DrSolo(p)
  <2>1. ~raced => \A q \in Procs \ {p} : fix[q].at \notin Doc!Inits
    BY <1>1 DEF DrInv, DrApart, Doc!Inits
  <2> QED
    BY <1>1, <1>5, <2>1 DEF DrSolo, Doc!Inits
<1> QED
  BY <1>1, <1>3, <1>5, <1>6, <1>7, <1>8, <1>9, <1>10, DrStep

LEMMA DrPicks ==
  ASSUME DrInv, NEW p \in Procs, Doc!PickBackup(p)
  PROVE  DrInv'
<1> DEFINE used == {n \in Backups : backup[n] # "absent"}
<1>1. /\ fix[p].at = "config" /\ DrStays /\ drOverlapped' = drOverlapped /\ raced' = raced
      /\ \E n \in Backups : backup[n] = "absent"
      /\ fix' = [fix EXCEPT ![p].at = "move", ![p].name = Doc!FreeName(used)]
  BY DEF Doc!PickBackup, Doc!At, Doc!project, Doc!operator, DrStays
<1>2. DrOperation(fix[p]) /\ DrBusy(p) /\ DOMAIN fix = Procs /\ DOMAIN fix[p] = DrFields
  BY <1>1 DEF DrInv, DrTyped, DrBusy, DrOperation, DrFields
<1>3. ~drOverlapped => Promises(fix[p]) /\ \A q \in Procs \ {p} : ~DrBusy(q)
  BY <1>2, DrAlone DEF DrSafe
<1>4. Doc!FreeName(used) \in Backups \ used
  <2>1. Backups \ used \subseteq Nat /\ Backups \ used # {}
    BY <1>1, DoctorAssumption DEF Doc!DoctorAssumption
  <2> QED
    BY <2>1, LeastIsThere DEF Doc!FreeName
<1>5. PICK n \in Backups : n = Doc!FreeName(used) /\ backup[n] = "absent"
  BY <1>4
<1> HIDE DEF used
<1>6. PICK o : o = fix'[p]
  OBVIOUS
<1>7. /\ DrMoves(p) /\ DOMAIN o = DrFields /\ o.at = "move" /\ o.name = n
      /\ o.mode = fix[p].mode /\ o.force = fix[p].force /\ o.todo = fix[p].todo
      /\ o.failed = fix[p].failed
  BY <1>1, <1>2, <1>5, <1>6 DEF DrMoves, DrFields
<1>8. fix[p].todo # <<>> /\ Head(fix[p].todo) \in Doc!Kinds
      /\ "config" \in Under(Head(fix[p].todo))
  BY <1>1, <1>2, DrTail DEF DrOperation
<1>9. "move" \in Under(Head(fix[p].todo))
  BY <1>8 DEF Under, Doc!Kinds, Doc!Inits
<1>10. DrOperation(o)'
  BY <1>1, <1>2, <1>7, <1>8, <1>9 DEF DrOperation, DrFields, DrStays
<1>11. ~drOverlapped => DrSafe(p)'
  BY <1>1, <1>3, <1>5, <1>6, <1>7 DEF DrSafe, Promises, DrStays, Doc!Project
<1>12. DrSolo(p)
  BY <1>1, <1>6, <1>7, DrLeaves DEF DrStays
<1> QED
  BY <1>1, <1>3, <1>6, <1>7, <1>10, <1>11, <1>12, DrQuiet

\* A rebuild is of a project: what it writes completes it again.
LEMMA DrRebuilds ==
  ASSUME DrInv, NEW p \in Procs, fix[p].at \in {"move", "write", "audit"}
  PROVE  /\ fix[p].todo # <<>> /\ Head(fix[p].todo) = "config"
         /\ {"move", "write", "audit"} \subseteq Under(Head(fix[p].todo))
         /\ state # "absent" /\ "init" \notin Elements(fix[p].todo)
<1>1. DrOperation(fix[p])
  BY DEF DrInv, DrTyped
<1>2. fix[p].todo # <<>> /\ Head(fix[p].todo) \in Doc!Kinds /\ fix[p].at \in Under(Head(fix[p].todo))
  BY <1>1, DrTail DEF DrOperation
<1>3. Head(fix[p].todo) = "config"
  BY <1>2 DEF Under, Doc!Kinds, Doc!Inits
<1>4. "config" \in Elements(fix[p].todo)
  BY <1>1, <1>2, <1>3, DrTail
<1> QED
  BY <1>1, <1>2, <1>3, <1>4 DEF Under, DrOperation

LEMMA DrMovesAway ==
  ASSUME DrInv, NEW p \in Procs, Doc!MoveAway(p)
  PROVE  DrInv'
<1>1. /\ fix[p].at = "move" /\ Doc!Goto(p, "write") /\ UNCHANGED <<drOverlapped, raced>>
      /\ state' = state /\ forced' = forced /\ mine' = mine /\ begun' = begun /\ misled' = misled
      /\ \/ config = "absent" /\ config' = config /\ backup' = backup
         \/ config # "absent" /\ config' = "absent" /\ backup' = [backup EXCEPT ![fix[p].name] = config]
  BY DEF Doc!MoveAway, Doc!At, Doc!operator
<1>2. DrOperation(fix[p]) /\ DrBusy(p) /\ DOMAIN backup = Backups /\ ~misled
      /\ (~forced /\ begun /\ ~raced => state = "used")
  BY <1>1 DEF DrInv, DrTyped, DrKept, DrBusy
<1>3. ~drOverlapped => DrSafe(p) /\ \A q \in Procs \ {p} : ~DrBusy(q)
  BY <1>2, DrAlone
<1>4. PICK o : o = fix'[p]
  OBVIOUS
<1>5. /\ DrMoves(p) /\ DOMAIN o = DrFields /\ o.at = "write"
      /\ o.force = fix[p].force /\ o.todo = fix[p].todo
  BY <1>1, <1>4, DrGoes
<1>6. DrOperation(o)'
  BY <1>1, <1>2, <1>5, DrRebuilds DEF DrOperation, DrFields
<1>7. config' = "absent" /\ DOMAIN backup' = Backups
  BY <1>1, <1>2
<1>8. DrSafe(p)' /\ DrSolo(p)
  BY <1>1, <1>4, <1>5, <1>7, DrLeaves DEF DrSafe, Promises
<1>9. ASSUME ~drOverlapped, ~forced, NEW text \in mine
      PROVE  \E n \in Backups : backup'[n] = text
  <2>1. fix[p].name \in Backups /\ backup[fix[p].name] = "absent" /\ text # "absent"
    BY <1>1, <1>3, <1>9, DrWrote DEF DrSafe
  <2>2. config = text \/ \E n \in Backups : backup[n] = text
    BY <1>9 DEF DrInv, DrKept
  <2>3. CASE config = "absent"
    BY <1>1, <2>1, <2>2, <2>3
  <2>4. CASE config # "absent"
    <3>1. backup' = [backup EXCEPT ![fix[p].name] = config]
      BY <1>1, <2>4
    <3> QED
      BY <1>2, <2>1, <2>2, <3>1
  <2> QED
    BY <2>3, <2>4
<1>10. ~drOverlapped' /\ ~forced' => DrMine'
  BY <1>1, <1>9 DEF DrMine
<1> QED
  BY <1>1, <1>2, <1>3, <1>4, <1>5, <1>6, <1>7, <1>8, <1>10, DrStep

LEMMA DrWritesDefaults ==
  ASSUME DrInv, NEW p \in Procs, Doc!WriteDefaults(p)
  PROVE  DrInv'
<1>1. /\ fix[p].at = "write" /\ Doc!Goto(p, "audit") /\ UNCHANGED <<drOverlapped, raced>>
      /\ state' = state /\ forced' = forced /\ mine' = mine /\ begun' = begun /\ misled' = misled
      /\ config' = "built" /\ backup' = backup
  BY DEF Doc!WriteDefaults, Doc!At, Doc!operator
<1>2. DrOperation(fix[p]) /\ DrBusy(p) /\ DOMAIN backup = Backups /\ ~misled
      /\ (~forced /\ begun /\ ~raced => state = "used")
  BY <1>1 DEF DrInv, DrTyped, DrKept, DrBusy
<1>3. ~drOverlapped => DrSafe(p) /\ \A q \in Procs \ {p} : ~DrBusy(q)
  BY <1>2, DrAlone
<1>4. PICK o : o = fix'[p]
  OBVIOUS
<1>5. /\ DrMoves(p) /\ DOMAIN o = DrFields /\ o.at = "audit"
      /\ o.force = fix[p].force /\ o.todo = fix[p].todo
  BY <1>1, <1>4, DrGoes
<1>6. DrOperation(o)'
  BY <1>1, <1>2, <1>5, DrRebuilds DEF DrOperation, DrFields
<1>7. Doc!Project'
  BY <1>1, DrRebuilds DEF Doc!Project
<1>8. DrSafe(p)' /\ DrSolo(p)
  BY <1>1, <1>4, <1>5, <1>7, DrLeaves DEF DrSafe, Promises
<1>9. ASSUME ~drOverlapped, ~forced, NEW text \in mine PROVE \E n \in Backups : backup[n] = text
  <2>1. config = "absent" /\ text # "absent"
    BY <1>1, <1>3, <1>9, DrWrote DEF DrSafe
  <2> QED
    BY <1>9, <2>1 DEF DrInv, DrKept
<1>10. ~drOverlapped' /\ ~forced' => DrMine'
  BY <1>1, <1>9 DEF DrMine
<1> QED
  BY <1>1, <1>2, <1>3, <1>4, <1>5, <1>6, <1>8, <1>10, DrStep

LEMMA DrAudits ==
  ASSUME DrInv, NEW p \in Procs, Doc!Audit(p)
  PROVE  DrInv'
<1>1. fix[p].at = "audit" /\ Doc!Done(p, ~Doc!Valid) /\ DrStays /\ UNCHANGED <<drOverlapped, raced>>
  BY DEF Doc!Audit, Doc!At, Doc!operator, DrStays
<1>2. DrBusy(p)
  BY <1>1 DEF DrBusy
<1>3. ~drOverlapped => DrSafe(p) /\ \A q \in Procs \ {p} : ~DrBusy(q)
  BY <1>2, DrAlone
<1>4. /\ DrMoves(p) /\ DrOperation(fix[p])' /\ fix'[p].at = "next"
      /\ (~fix'[p].failed => Doc!Valid)
  BY <1>1, DrDone DEF DrStays
<1>5. Doc!Valid => Doc!Project'
  BY <1>1, DrRebuilds DEF Doc!Valid, Doc!Project, DrStays
<1>6. DrSafe(p)' /\ DrSolo(p)
  BY <1>1, <1>4, <1>5, DrLeaves DEF DrSafe, Promises, DrStays
<1> QED
  BY <1>1, <1>3, <1>4, <1>6, DrQuiet

LEMMA DrIsCut ==
  ASSUME DrInv, NEW p \in Procs, Doc!Cut(p)
  PROVE  DrInv'
<1>1. /\ fix[p].at \notin {"idle", "next"} /\ fix' = [fix EXCEPT ![p] = Doc!Idle]
      /\ backup' = backup /\ mine' = mine /\ begun' = begun /\ misled' = misled
      /\ drOverlapped' = drOverlapped /\ raced' = raced
  BY DEF Doc!Cut, Doc!operator
<1>2. DrOperation(fix[p]) /\ DrBusy(p) /\ DOMAIN fix = Procs /\ DOMAIN backup = Backups /\ ~misled
      /\ (~forced /\ begun /\ ~raced => state = "used")
  BY <1>1 DEF DrInv, DrTyped, DrKept, DrBusy
<1>3. ~drOverlapped => DrSafe(p) /\ \A q \in Procs \ {p} : ~DrBusy(q)
  BY <1>2, DrAlone
<1>4. PICK o : o = fix'[p]
  OBVIOUS
<1>5. DrMoves(p) /\ o = Doc!Idle
  BY <1>1, <1>2, <1>4 DEF DrMoves
<1>6. o.at = "idle" /\ o.todo = <<>> /\ DOMAIN o = DrFields /\ <<>> \in Seq(Doc!Kinds)
  BY <1>5 DEF Doc!Idle, DrFields
<1>7. DrOperation(o)' /\ DrSafe(p)'
  BY <1>4, <1>6 DEF DrOperation, DrSafe, Promises, DrFields, Elements
<1>8. /\ state # "absent" => state' # "absent"
      /\ forced => forced'
      /\ ~forced' /\ begun /\ ~raced => state' = "used"
      /\ DrSolo(p)
  <2>1. CASE UNCHANGED state /\ (forced => forced')
    BY <1>2, <1>4, <1>6, <2>1, DrLeaves
  <2>3. (UNCHANGED forced \/ forced' = (forced \/ fix[p].force)) => (forced => forced')
    BY Zenon
  <2>2. CASE fix[p].at = "init state" /\ state' = "empty" /\ UNCHANGED forced
    <3>1. fix[p].force => forced
      BY <1>2, <2>2 DEF DrOperation
    <3>2. ~forced /\ ~raced => state = "absent"
      BY <2>2, <3>1 DEF DrInv, DrApart
    <3>3. ~raced => \A q \in Procs \ {p} : fix[q].at \notin Doc!Inits
      BY <2>2 DEF DrInv, DrApart, Doc!Inits
    <3>4. DrSolo(p)
      BY <1>1, <1>4, <1>6, <3>3 DEF DrSolo, Doc!Inits
    <3> QED
      BY <1>2, <2>2, <3>2, <3>4
  <2>4. \/ UNCHANGED state /\ (UNCHANGED forced \/ forced' = (forced \/ fix[p].force))
        \/ fix[p].at = "init state" /\ state' = "empty" /\ UNCHANGED forced
    BY DEF Doc!Cut, Doc!At
  <2> QED
    BY <2>1, <2>2, <2>3, <2>4
<1>9. ASSUME ~drOverlapped, ~forced', NEW text \in mine
      PROVE  config' = text \/ \E n \in Backups : backup[n] = text
  <2>1. config = text \/ \E n \in Backups : backup[n] = text
    BY <1>8, <1>9 DEF DrInv, DrKept
  <2>2. CASE config' = config
    BY <2>1, <2>2
  <2>3. CASE fix[p].at \in {"write", "init config"} /\ forced' = (forced \/ fix[p].force)
    <3>1. ~fix[p].force
      BY <1>9, <2>3
    <3>2. config = "absent"
      BY <1>3, <1>9, <2>3, <3>1 DEF DrSafe
    <3> QED
      BY <2>1, <3>2, DrWrote
  <2> QED
    BY <2>2, <2>3 DEF Doc!Cut, Doc!At
<1>10. ~drOverlapped' /\ ~forced' => DrMine'
  BY <1>1, <1>9 DEF DrMine
<1> QED
  BY <1>1, <1>2, <1>3, <1>4, <1>5, <1>7, <1>8, <1>10, DrStep

\* The operator edits config.yaml, and goes on with the pipeline.
LEMMA DrIsEdited ==
  ASSUME DrInv, NEW text \in Broken \cup {"theirs"}, Doc!Edit(text)
  PROVE  DrInv'
<1>1. /\ config # "absent" /\ config' = text /\ mine' = (mine \ {config}) \cup {text}
      /\ state' = state /\ backup' = backup /\ fix' = fix /\ begun' = begun /\ forced' = forced
      /\ drOverlapped' = drOverlapped /\ misled' = misled /\ raced' = raced
  BY DEF Doc!Edit
<1>2. text # "absent"
  BY DoctorAssumption DEF Doc!DoctorAssumption, Doc!Words
<1>3. ASSUME NEW p \in Procs PROVE DrOperation(fix[p])'
  <2>1. PICK o : o = fix[p]
    OBVIOUS
  <2>2. DrOperation(o)
    BY <2>1 DEF DrInv, DrTyped
  <2>3. DrOperation(o)'
    BY <1>1, <2>2 DEF DrOperation
  <2> QED
    BY <1>1, <2>1, <2>3
<1>4. DrTyped'
  BY <1>1, <1>3 DEF DrInv, DrTyped
<1>5. ~drOverlapped => \A p \in Procs : DrSafe(p)'
  <2>1. ~drOverlapped => \A p \in Procs : DrSafe(p)
    BY DEF DrInv, DrKept, DrSafe
  <2>2. Doc!Project => Doc!Project'
    BY <1>1, <1>2 DEF Doc!Project
  <2> QED
    BY <1>1, <2>1, <2>2 DEF DrSafe, Promises
<1>6. ~drOverlapped /\ ~forced => DrMine'
  BY <1>1 DEF DrInv, DrKept, DrMine
<1>7. ~drOverlapped => \A p, q \in Procs : DrBusy(p)' /\ DrBusy(q)' => p = q
  BY <1>1 DEF DrInv, DrKept, DrBusy
<1>8. DrKept'
  BY <1>1, <1>5, <1>6, <1>7 DEF DrInv, DrKept, DrSafe, DrMine
<1>9. DrApart'
  BY <1>1 DEF DrInv, DrApart, Doc!Inits
<1> QED
  BY <1>4, <1>8, <1>9 DEF DrInv

LEMMA DrWorks ==
  ASSUME DrInv, Doc!Work
  PROVE  DrInv'
<1>1. /\ state' = "used" /\ begun' = TRUE /\ config' = config /\ backup' = backup /\ fix' = fix
      /\ mine' = mine /\ forced' = forced /\ drOverlapped' = drOverlapped /\ misled' = misled
      /\ raced' = raced /\ state = "new"
  BY DEF Doc!Work
<1>3. ASSUME NEW p \in Procs PROVE DrOperation(fix[p])'
  <2>1. PICK o : o = fix[p]
    OBVIOUS
  <2>2. DrOperation(o)
    BY <2>1 DEF DrInv, DrTyped
  <2>3. DrOperation(o)'
    BY <1>1, <2>2 DEF DrOperation
  <2> QED
    BY <1>1, <2>1, <2>3
<1>4. DrTyped'
  BY <1>1, <1>3 DEF DrInv, DrTyped
<1>5. ~drOverlapped => \A p \in Procs : DrSafe(p)'
  <2>1. ~drOverlapped => \A p \in Procs : DrSafe(p)
    BY DEF DrInv, DrKept, DrSafe
  <2>2. Doc!Project => Doc!Project'
    BY <1>1 DEF Doc!Project
  <2> QED
    BY <1>1, <2>1, <2>2 DEF DrSafe, Promises
<1>6. ~drOverlapped /\ ~forced => DrMine'
  BY <1>1 DEF DrInv, DrKept, DrMine
<1>7. ~drOverlapped => \A p, q \in Procs : DrBusy(p)' /\ DrBusy(q)' => p = q
  BY <1>1 DEF DrInv, DrKept, DrBusy
<1>8. DrKept'
  BY <1>1, <1>5, <1>6, <1>7 DEF DrInv, DrKept, DrSafe, DrMine
<1>9. DrApart'
  BY <1>1 DEF DrInv, DrApart, Doc!Inits
<1> QED
  BY <1>4, <1>8, <1>9 DEF DrInv

LEMMA DrNext == DrInv /\ [Doc!Next]_drVars => DrInv'
<1> SUFFICES ASSUME DrInv, [Doc!Next]_drVars PROVE DrInv'
  OBVIOUS
<1>1. CASE UNCHANGED drVars
  <2>1. DrKept' /\ DrTyped'
    BY <1>1 DEF drVars, DrInv, DrTyped, DrKept, DrBusy, DrOperation, Promises, Doc!Project
  <2>2. DrApart'
    BY <1>1 DEF drVars, DrInv, DrApart, Doc!Inits
  <2> QED
    BY <2>1, <2>2 DEF DrInv
<1>2. ASSUME NEW p \in Procs, NEW mode \in {"asks", "yes"}, NEW force \in BOOLEAN,
             Doc!Start(p, mode, force)
      PROVE  DrInv'
  BY <1>2, DrStarts
<1>3. ASSUME NEW p \in Procs, Doc!Apply(p) \/ Doc!Withhold(p) \/ Doc!Finish(p)
      PROVE  DrInv'
  BY <1>3, DrApplies, DrWithholds, DrFinishes
<1>4. ASSUME NEW p \in Procs,
             \/ Doc!CreateVenv(p) \/ Doc!InstallDeps(p)
             \/ Doc!InitLooks(p) \/ Doc!InitMakes(p) \/ Doc!LookAtConfig(p) \/ Doc!InitConfig(p)
             \/ Doc!LookAtState(p) \/ Doc!InitState(p)
      PROVE  DrInv'
  BY <1>4, DrInstalls, DrLooks, DrWritesConfig, DrWritesState
<1>5. ASSUME NEW p \in Procs,
             \/ Doc!PickBackup(p) \/ Doc!MoveAway(p) \/ Doc!WriteDefaults(p) \/ Doc!Audit(p)
             \/ Doc!Cut(p)
      PROVE  DrInv'
  BY <1>5, DrPicks, DrMovesAway, DrWritesDefaults, DrAudits, DrIsCut
<1>6. ASSUME NEW text \in Broken \cup {"theirs"}, Doc!Edit(text) PROVE DrInv'
  BY <1>6, DrIsEdited
<1>7. CASE Doc!Work
  BY <1>7, DrWorks
<1> QED
  BY <1>1, <1>2, <1>3, <1>4, <1>5, <1>6, <1>7 DEF Doc!Next

LEMMA DrIsKept == DrInv => Doc!RepairsKeepWork /\ Doc!ReadyIsReady
BY DEF DrInv, DrKept, Doc!RepairsKeepWork, Doc!ReadyIsReady

-----------------------------------------------------------------------------
(* The composition                                                         *)

\* A ticket is in progress only once the registry holds its artifacts as stale,
\* and resolved only once it holds none of them so, wherever a command is killed.
THEOREM TicketsFollow == FilesSpec => TicketsFollowArtifacts
<1>1. FilesInit => TicketInv
  BY EachStarts, TicketsFirst
<1>2. TicketInv /\ [FilesNext]_filesVars => TicketInv'
  BY EachMoves, TicketsNext
<1>3. TicketInv /\ [FilesNext]_filesVars => [Art!TicketStep]_<<files, order, art, tickets, rework>>
  BY EachMoves, TicketsStep
<1>4. FilesSpec => [][Art!TicketStep]_<<files, order, art, tickets, rework>>
  BY <1>1, <1>2, <1>3, PTL DEF FilesSpec
<1> QED
  BY <1>4 DEF TicketsFollowArtifacts, Art!TicketsFollowArtifacts, Art!vars

\* However commands overlap, fail or die, what installed.json lists as a binary was
\* put there, if its release holds the command; it is whole unless its archive was
\* cut or, where it is extracted in place, an install failed or operations overlapped
\* since one returned.  An extension is listed once by its name and only after each of
\* its capabilities was allowed.
THEOREM InstallsGated == FilesSpec => []InstallsAreGated
<1>1. FilesInit => AcpInv /\ ExtInv
  BY EachStarts, AcpFirst, ExtFirst
<1>2. AcpInv /\ ExtInv /\ [FilesNext]_filesVars => (AcpInv /\ ExtInv)'
  BY EachMoves, AcpNext, ExtNext
<1>3. AcpInv /\ ExtInv => InstallsAreGated
  BY AcpIsThere, ExtIsGated DEF InstallsAreGated
<1> QED
  BY <1>1, <1>2, <1>3, PTL DEF FilesSpec

\* Agents are given only lessons that were approved at some time, and a user's stores
\* suggest nothing that too few projects asked for, whatever overlaps or is cut; and a
\* decision or promotion that returns once operations overlap no more, and no write is
\* cut, is there until they do again.
THEOREM MemoryFollows == FilesSpec => []MemoryFollowsDecisions
<1>1. FilesInit => LsInv /\ UsInv
  BY EachStarts, LsFirst, UsFirst
<1>2. LsInv /\ UsInv /\ [FilesNext]_filesVars => (LsInv /\ UsInv)'
  BY EachMoves, LsNext, UsNext
<1>3. LsInv /\ UsInv => MemoryFollowsDecisions
  BY LsIsHonest, UsIsKept DEF MemoryFollowsDecisions
<1> QED
  BY <1>1, <1>2, <1>3, PTL DEF FilesSpec

\* A run leaves at most one record and one event, which agree; they tell "completed"
\* exactly of an agent that completed and met its contract, and a command that ends
\* well has left both and met its contract.
THEOREM RunsRecorded == FilesSpec => []RunsAreRecorded
<1>1. FilesInit => RunInv
  BY EachStarts, RunFirst
<1>2. RunInv /\ [FilesNext]_filesVars => RunInv'
  BY EachMoves, RunNext
<1>3. RunInv => RunsAreRecorded
  BY RunIsRecorded DEF RunsAreRecorded
<1> QED
  BY <1>1, <1>2, <1>3, PTL DEF FilesSpec

\* After spawns that overlap only by nesting the user's settings are back; and what
\* is replayed of a run is no more than the handle it returned.
THEOREM SessionsHonest == FilesSpec => []SessionsAreHonest
<1>1. FilesInit => CcInv
  BY EachStarts, CcFirst
<1>2. CcInv /\ [FilesNext]_filesVars => CcInv'
  BY EachMoves, CcNext
<1>3. CcInv => SessionsAreHonest
  BY CcIsHonest
<1> QED
  BY <1>1, <1>2, <1>3, PTL DEF FilesSpec

\* Without --force no repair replaces a pipeline under way, unless two initializations
\* overlapped, nor loses what the operator had in config.yaml while repairs do not
\* overlap; and a forced repair that overlaps none and reports success leaves the
\* dependencies, both files of a project, and a configuration that is read.
THEOREM RepairsKeep == FilesSpec => []RepairsKeepWork
<1>1. FilesInit => DrInv
  BY EachStarts, DrFirst
<1>2. DrInv /\ [FilesNext]_filesVars => DrInv'
  BY EachMoves, DrNext
<1>3. DrInv => RepairsKeepWork
  BY DrIsKept DEF RepairsKeepWork
<1> QED
  BY <1>1, <1>2, <1>3, PTL DEF FilesSpec

ChanP == INSTANCE Channels_proofs WITH Texts <- Messages, proc <- chProc

\* Sets are finite, and have their sizes, whichever module counts them.
LEMMA ChanSizes ==
  ASSUME NEW S
  PROVE  Chan!Cardinality(S) = ChanP!Cardinality(S) /\ (ChanP!IsFiniteSet(S) <=> IsFiniteSet(S))
<1>1. Chan!Cardinality(S) = ChanP!Cardinality(S)
  BY Zenon DEF Chan!Cardinality, ChanP!Cardinality
<1>2. ChanP!IsFiniteSet(S) <=> IsFiniteSet(S)
  BY Zenon DEF ChanP!IsFiniteSet, IsFiniteSet
<1> QED
  BY <1>1, <1>2

\* The channels of the proofs are those of the composition.
LEMMA ChanRuns == FilesSpec => ChanP!Spec
<1>1. FilesInit => ChanP!Init
  BY EachStarts
     DEF Chan!Init, Chan!Idle, Chan!Unknown, Chan!NoCode,
         ChanP!Init, ChanP!Idle, ChanP!Unknown, ChanP!NoCode
<1>2. ASSUME [FilesNext]_filesVars PROVE [ChanP!Next]_ChanP!vars
  <2>1. Chan!Idle = ChanP!Idle /\ Chan!NoCode = ChanP!NoCode /\ Chan!Codes = ChanP!Codes
        /\ Chan!Changing = ChanP!Changing /\ Chan!Recent = ChanP!Recent
    BY DEF Chan!Idle, Chan!Unknown, Chan!NoCode, Chan!Codes, Chan!Changing, Chan!Recent,
           ChanP!Idle, ChanP!Unknown, ChanP!NoCode, ChanP!Codes, ChanP!Changing, ChanP!Recent
  <2>2. ASSUME NEW p \in Procs, NEW at, NEW new, Chan!Changes(p, at, new)
        PROVE  ChanP!Changes(p, at, new)
    BY <2>1, <2>2 DEF Chan!Changes, ChanP!Changes
  <2>3. ASSUME NEW p \in Procs, Chan!Pair(p) PROVE ChanP!Pair(p)
    BY <2>2, <2>3 DEF Chan!Pair, Chan!MayPair, ChanP!Pair, ChanP!MayPair
  <2>4. ASSUME NEW p \in Procs, NEW code \in Chan!Codes, Chan!Confirm(p, code)
        PROVE  ChanP!Confirm(p, code)
    BY <2>1, <2>2, <2>4 DEF Chan!Confirm, ChanP!Confirm
  <2>5. ASSUME NEW p \in Procs, Chan!Upsert(p) PROVE ChanP!Upsert(p)
    BY <2>1, <2>5 DEF Chan!Upsert, ChanP!Upsert
  <2>6. ASSUME NEW p \in Procs, NEW text \in Messages, Chan!Submit(p, text)
        PROVE  ChanP!Submit(p, text)
    <3>1. ChanP!WithinLimit(ChanP!Recent)
      BY <2>1, <2>6, ChanSizes DEF Chan!Submit, Chan!WithinLimit, ChanP!WithinLimit
    <3> QED
      BY <2>1, <2>6, <3>1
         DEF Chan!Submit, Chan!Authorized, Chan!Duplicate,
             ChanP!Submit, ChanP!Authorized, ChanP!Duplicate
  <2>7. ASSUME NEW p \in Procs, Chan!AppendItem(p) PROVE ChanP!AppendItem(p)
    BY <2>1, <2>7 DEF Chan!AppendItem, ChanP!AppendItem
  <2>8. ASSUME Chan!Age PROVE ChanP!Age
    BY <2>1, <2>8 DEF Chan!Age, ChanP!Age
  <2>9. ASSUME NEW p \in Procs, Chan!Kill(p) PROVE ChanP!Kill(p)
    BY <2>1, <2>9 DEF Chan!Kill, ChanP!Kill
  <2>10. CASE Chan!Next
    BY <2>1, <2>3, <2>4, <2>5, <2>6, <2>7, <2>8, <2>9, <2>10 DEF Chan!Next, ChanP!Next
  <2>11. CASE UNCHANGED chVars
    BY <2>11 DEF chVars, ChanP!vars
  <2> QED
    BY <1>2, <2>10, <2>11, EachMoves
<1> QED
  BY <1>1, <1>2, PTL DEF FilesSpec, ChanP!Spec

\* A binding is lost only to a pairing that had begun before it was written, and the
\* feedback queue exceeds its limits by no more than the other commands, for any
\* finite number of them.
THEOREM FeedbackBounded ==
  IsFiniteSet(Procs) /\ Procs # {} => (FilesSpec => []FeedbackIsBounded)
<1>1. IsFiniteSet(Procs) /\ Procs # {} => ChanP!Instance
  BY ChannelsAssumption, ChanSizes
     DEF ChanP!Instance, ChanP!ChannelsAssumption, Chan!ChannelsAssumption
<1>2. ChanP!Instance => (ChanP!Spec => []ChanP!FeedbackIsBounded)
  BY ChanP!FeedbackStaysBounded
<1>3. ChanP!FeedbackIsBounded => FeedbackIsBounded
  <2>1. Chan!Recent = ChanP!Recent
    BY DEF Chan!Recent, ChanP!Recent
  <2>2. ChanP!BindingsStay => Chan!BindingsStay
    BY DEF Chan!BindingsStay, ChanP!BindingsStay
  <2>3. ChanP!QueueIsBounded => Chan!QueueIsBounded
    BY <2>1, ChanSizes DEF Chan!QueueIsBounded, ChanP!QueueIsBounded
  <2> QED
    BY <2>2, <2>3 DEF FeedbackIsBounded, Chan!FeedbackIsBounded, ChanP!FeedbackIsBounded
<1> QED
  BY <1>1, <1>2, <1>3, ChanRuns, PTL
=============================================================================
