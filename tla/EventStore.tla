----------------------------- MODULE EventStore -----------------------------
(* events/store.py: one stream of .forge/events.db, written by several     *)
(* processes.  An append reads the next version outside the transaction    *)
(* that inserts it.  A row carries a whole state document, as the dual     *)
(* write of the state manager does.                                        *)
EXTENDS Naturals, Sequences, FiniteSets

CONSTANTS
  Procs, States, NoOne, NoSnapshot,
  MaxEvents          \* bound on the rows of the stream

Row == [version : 1..MaxEvents, state : States]

ASSUME EventStoreAssumption ==
  NoOne \notin Procs /\ NoSnapshot \notin States /\ NoSnapshot \notin Row /\ MaxEvents \in Nat

VARIABLES
  log,       \* the committed rows in the order of event_id
  writer,    \* the process whose INSERT is not committed yet: it holds the write lock
  conn,      \* conn[p]: the call p is in, and the transaction its connection is in
  snapshot   \* the stream's row of `snapshots`

vars == <<log, writer, conn, snapshot>>

Versions(rows) == {rows[i].version : i \in DOMAIN rows}
Largest(S) == CHOOSE x \in S : \A y \in S : y <= x

\* COALESCE(MAX(version), 0) + 1
NextVersion(rows) == IF rows = <<>> THEN 1 ELSE Largest(Versions(rows)) + 1

\* An INSERT that met a lock leaves its BEGIN open (`open`); the first SELECT
\* after that fixes the rows the transaction sees (`seen`), until a commit.
Latest == MaxEvents + 1
Closed == [at |-> "idle", open |-> FALSE, seen |-> Latest, version |-> 0, row |-> NoSnapshot]

Connection ==
  [at : {"idle", "versioned", "inserted", "copied"}, open : BOOLEAN, seen : 0..Latest,
   version : 0..MaxEvents, row : States \cup {NoSnapshot}]

TypeOK ==
  /\ log \in Seq(Row) /\ Len(log) <= MaxEvents
  /\ writer \in Procs \cup {NoOne}
  /\ conn \in [Procs -> Connection]
  /\ snapshot \in Row \cup {NoSnapshot}
  /\ \A p \in Procs : (writer = p) <=> (conn[p].at = "inserted")

Init ==
  /\ log = <<>> /\ writer = NoOne /\ snapshot = NoSnapshot
  /\ conn = [p \in Procs |-> Closed]

(***************************************************************************)
(* append: SELECT the next version, INSERT, COMMIT.                        *)
(***************************************************************************)

Sees(p) == IF conn[p].seen = Latest THEN Len(log) ELSE conn[p].seen

ReadVersion(p, s) ==
  /\ conn[p].at = "idle" /\ Len(log) < MaxEvents
  /\ conn' = [conn EXCEPT ![p] =
       [at |-> "versioned", open |-> conn[p].open,
        seen |-> IF conn[p].open THEN Sees(p) ELSE Latest,
        version |-> NextVersion(SubSeq(log, 1, Sees(p))), row |-> s]]
  /\ UNCHANGED <<log, writer, snapshot>>

\* A transaction that already reads an older log cannot be upgraded.
Upgradable(p) == writer = NoOne /\ Sees(p) = Len(log)

Insert(p) ==
  /\ conn[p].at = "versioned" /\ Upgradable(p)
  /\ writer' = p
  /\ conn' = [conn EXCEPT ![p].at = "inserted"]
  /\ UNCHANGED <<log, snapshot>>

\* "database is locked": after the busy time-out if another process writes, at
\* once if the log has grown since this transaction's first read.  append
\* raises; its callers swallow that and keep the connection.
InsertFails(p) ==
  /\ conn[p].at = "versioned" /\ ~Upgradable(p)
  /\ conn' = [conn EXCEPT ![p] = [Closed EXCEPT !.open = TRUE, !.seen = conn[p].seen]]
  /\ UNCHANGED <<log, writer, snapshot>>

Commit(p) ==
  /\ conn[p].at = "inserted" /\ Len(log) < MaxEvents
  /\ log' = Append(log, [version |-> conn[p].version, state |-> conn[p].row])
  /\ writer' = NoOne
  /\ conn' = [conn EXCEPT ![p] = Closed]
  /\ UNCHANGED snapshot

\* close(), or the death of the process: an INSERT without a commit is rolled back.
Leave(p) ==
  /\ conn[p] # Closed
  /\ conn' = [conn EXCEPT ![p] = Closed]
  /\ writer' = IF writer = p THEN NoOne ELSE writer
  /\ UNCHANGED <<log, snapshot>>

(***************************************************************************)
(* replay_state and snapshots.                                             *)
(***************************************************************************)

Start(snap) == IF snap = NoSnapshot THEN 0 ELSE snap.version

\* Mutant: the newest row is applied first, and so overwritten by the older ones.
ReplayState_NewestFirst(snap, rows) ==
  LET newer == {i \in DOMAIN rows : rows[i].version > Start(snap)}
  IN  IF rows = <<>> THEN NoSnapshot
      ELSE IF newer # {} THEN rows[CHOOSE i \in newer : \A j \in newer : i <= j].state
      ELSE IF snap = NoSnapshot THEN NoSnapshot ELSE snap.state

\* The documents of the rows above the snapshot's version are applied in the
\* order of event_id: each replaces the one before.
ReplayState(snap, rows) ==
  LET newer == {i \in DOMAIN rows : rows[i].version > Start(snap)}
  IN  IF rows = <<>> THEN NoSnapshot
      ELSE IF newer # {} THEN rows[Largest(newer)].state
      ELSE IF snap = NoSnapshot THEN NoSnapshot ELSE snap.state

\* A checkpoint: the state replayed from the rows it sees, at the largest version of them ...
ReadForSnapshot(p) ==
  /\ conn[p] = Closed /\ log # <<>>
  /\ conn' = [conn EXCEPT ![p] =
       [@ EXCEPT !.at = "copied", !.version = Largest(Versions(log)),
                 !.row = ReplayState(snapshot, log)]]
  /\ UNCHANGED <<log, writer, snapshot>>

\* ... written later, over whatever snapshot is there by then.
SaveSnapshot(p) ==
  /\ conn[p].at = "copied" /\ writer = NoOne
  /\ snapshot' = [version |-> conn[p].version, state |-> conn[p].row]
  /\ conn' = [conn EXCEPT ![p] = Closed]
  /\ UNCHANGED <<log, writer>>

Next ==
  \E p \in Procs :
    \/ \E s \in States : ReadVersion(p, s)
    \/ Insert(p) \/ InsertFails(p) \/ Commit(p) \/ Leave(p)
    \/ ReadForSnapshot(p) \/ SaveSnapshot(p)

Spec == Init /\ [][Next]_vars

(***************************************************************************)
(* Properties.                                                             *)
(***************************************************************************)

\* Versions are never skipped, whoever appends: a snapshot's version tells
\* how many versions lie below it.
NoGaps == \A i \in DOMAIN log : 1..log[i].version \subseteq Versions(log)

\* What SRSv4.1 FR-ES-005 asks of concurrent writers: two rows of a stream never carry one version.
VersionsAreUnique == \A i, j \in DOMAIN log : log[i].version = log[j].version => i = j

\* As long as they do not, replay_state returns the last document committed,
\* from whatever snapshot, even one that an older checkpoint overwrote.
ReplayIsCurrent ==
  VersionsAreUnique /\ log # <<>> => ReplayState(snapshot, log) = log[Len(log)].state

\* The event log: versions are not skipped, and while none is taken twice the
\* state is replayed from any snapshot as it was last committed.
ReplayFollowsLog == NoGaps /\ ReplayIsCurrent
=============================================================================
