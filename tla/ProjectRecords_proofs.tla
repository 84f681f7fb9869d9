------------------------- MODULE ProjectRecords_proofs -------------------------
(***************************************************************************)
(* What ProjectFiles guarantees of what is made from the project's files:  *)
(* the artifact registry, the reports and an agent's context, and of the   *)
(* form of all that is stored, for any constants.                          *)
(***************************************************************************)
EXTENDS ProjectFiles_proofs

-----------------------------------------------------------------------------
(* The artifact registry                                                   *)

LEMMA SetInduction ==
  ASSUME NEW n \in Nat, NEW S, 0 \in S, \A i \in 1..n : i - 1 \in S => i \in S
  PROVE  \A i \in 0..n : i \in S
<1> DEFINE T == {i \in 0..n : i \notin S}
<1> SUFFICES ASSUME T # {} PROVE FALSE
  OBVIOUS
<1>1. IsWellFoundedOn(OpToRel(<, Nat), Nat) /\ \A m, k \in Nat : m < k => <<m, k>> \in OpToRel(<, Nat)
  BY NatLessThanWellFounded DEF OpToRel
<1>2. PICK R : IsWellFoundedOn(R, Nat) /\ \A m, k \in Nat : m < k => <<m, k>> \in R
  BY <1>1
<1>3. T \subseteq Nat /\ T # {}
  OBVIOUS
<1>4. PICK k \in T : \A m \in T : ~(<<m, k>> \in R)
  <2> HIDE DEF T
  <2>1. T \subseteq Nat /\ T # {} /\ IsWellFoundedOn(R, Nat)
    BY <1>2, <1>3
  <2> QED
    BY <2>1, WFMin, Zenon
<1>5. k \in 1..n /\ k - 1 \in 0..n /\ k - 1 < k /\ k - 1 \in Nat /\ k \in Nat
  OBVIOUS
<1>6. k - 1 \in S
  BY <1>2, <1>4, <1>5
<1> QED
  BY <1>5, <1>6

LEMMA ArtSizes == \A S : Art!Cardinality(S) = Cardinality(S)
BY Zenon DEF Art!Cardinality, Cardinality

ArtDoc ==
  /\ \A p \in ArtPaths : files[p] \in ArtContents[p]
  /\ files \in [ArtPaths -> UNION {ArtContents[p] : p \in ArtPaths}]
  /\ DOMAIN art \subseteq ArtPaths /\ art \in [DOMAIN art -> Art!Entry]
  /\ order \in Seq(ArtPaths) /\ Elements(order) = DOMAIN art

ArtListed == IsFiniteSet(DOMAIN art) /\ Len(order) = Cardinality(DOMAIN art)

ArtTickets ==
  /\ tickets \in [TicketIds -> [status : Art!TicketStatus, affected : SUBSET ArtPaths]]
  /\ rework.ticket \in TicketIds \union {"none"}
  /\ rework # Art!Idle => rework.ticket \in TicketIds /\ rework.status \in {"in_progress", "resolved"}

ArtInv == ArtDoc /\ ArtListed /\ ArtTickets

\* Who depends on whom is a matter of the dependencies.
LEMMA SameGraph ==
  ASSUME NEW D, NEW a, NEW b, DOMAIN a = D, DOMAIN b = D, \A q \in D : a[q].deps = b[q].deps, NEW p
  PROVE  Art!Downstream(a, p) = Art!Downstream(b, p)
<1>1. \A S : Art!Dependents(a, S) = Art!Dependents(b, S)
  BY DEF Art!Dependents
<1> QED
  BY <1>1 DEF Art!Downstream, Art!Closed

LEMMA LooksAt ==
  ASSUME ArtDoc, NEW a \in [DOMAIN art -> Art!Entry], NEW p \in DOMAIN art,
         NEW b, b = Art!LookAt(a, p)
  PROVE  /\ b \in [DOMAIN art -> Art!Entry]
         /\ \A q \in DOMAIN art :
              /\ b[q].deps = a[q].deps
              /\ b[q].hash = IF q = p THEN files[p] ELSE a[q].hash
         /\ b[p].status = IF files[p] = NoFile THEN "missing"
                          ELSE IF a[p].hash # files[p] THEN "fresh"
                          ELSE IF a[p].status = "stale" THEN "stale" ELSE "fresh"
         /\ \A q \in DOMAIN art \ {p} :
              b[q].status = IF a[p].hash # files[p] /\ files[p] # NoFile /\ q \in Art!Downstream(a, p)
                            THEN "stale" ELSE a[q].status
<1>1. PICK status : status = IF files[p] # NoFile /\ a[p].status = "stale" THEN "stale" ELSE Art!Snapshot(p)
  OBVIOUS
<1>2. PICK seen : seen = [a EXCEPT ![p].status = status, ![p].hash = files[p]]
  OBVIOUS
<1>3. status = IF files[p] = NoFile THEN "missing" ELSE IF a[p].status = "stale" THEN "stale" ELSE "fresh"
  BY <1>1 DEF Art!Snapshot
<1>4. files[p] \in {NoFile} \union UNION {ArtContents[f] : f \in ArtPaths}
  BY DEF ArtDoc
<1>5. /\ seen \in [DOMAIN art -> Art!Entry]
      /\ \A q \in DOMAIN art : /\ seen[q].deps = a[q].deps
                               /\ seen[q].hash = IF q = p THEN files[p] ELSE a[q].hash
                               /\ seen[q].status = IF q = p THEN status ELSE a[q].status
  <2>1. a[p] \in Art!Entry /\ a[p] = [status |-> a[p].status, hash |-> a[p].hash, deps |-> a[p].deps]
    BY DEF Art!Entry
  <2>2. /\ seen[p] = [status |-> status, hash |-> files[p], deps |-> a[p].deps]
        /\ DOMAIN seen = DOMAIN art /\ \A q \in DOMAIN art \ {p} : seen[q] = a[q]
    BY <1>2, <2>1
  <2>3. seen[p] \in Art!Entry
    BY <1>3, <1>4, <2>1, <2>2 DEF Art!Entry
  <2>4. seen \in [DOMAIN art -> Art!Entry]
    <3>1. seen = [q \in DOMAIN art |-> seen[q]]
      BY <1>2, <2>2
    <3> QED
      BY <2>2, <2>3, <3>1
  <2> QED
    BY <2>2, <2>4
<1>6. Art!Downstream(seen, p) = Art!Downstream(a, p)
  BY <1>5, SameGraph
<1>7. CASE a[p].hash # files[p] /\ files[p] # NoFile
  <2>1. b = [q \in DOMAIN seen |->
               IF q = p THEN [seen[q] EXCEPT !.status = "fresh"]
               ELSE IF q \in Art!Downstream(seen, p) THEN [seen[q] EXCEPT !.status = "stale"] ELSE seen[q]]
    BY <1>1, <1>2, <1>7 DEF Art!LookAt, Art!MarkDownstreamStale
  <2>2. \A q \in DOMAIN art : \A s \in {"fresh", "stale"} :
          /\ [seen[q] EXCEPT !.status = s] \in Art!Entry
          /\ [seen[q] EXCEPT !.status = s].status = s
          /\ [seen[q] EXCEPT !.status = s].hash = seen[q].hash
          /\ [seen[q] EXCEPT !.status = s].deps = seen[q].deps
    BY <1>5 DEF Art!Entry
  <2>3. DOMAIN seen = DOMAIN art
    BY <1>5
  <2> HIDE DEF Art!Entry
  <2>4. b \in [DOMAIN art -> Art!Entry]
    BY <1>5, <2>1, <2>2, <2>3
  <2>5. \A q \in DOMAIN art : b[q].deps = seen[q].deps /\ b[q].hash = seen[q].hash
    BY <2>1, <2>2, <2>3
  <2>6. b[p].status = "fresh"
    BY <2>1, <2>2, <2>3
  <2>7. \A q \in DOMAIN art \ {p} :
          b[q].status = IF q \in Art!Downstream(a, p) THEN "stale" ELSE seen[q].status
    BY <1>6, <2>1, <2>2, <2>3
  <2> QED
    BY <1>5, <1>7, <2>4, <2>5, <2>6, <2>7
<1>8. CASE ~(a[p].hash # files[p] /\ files[p] # NoFile)
  <2>1. b = seen
    BY <1>1, <1>2, <1>8 DEF Art!LookAt
  <2> QED
    BY <1>3, <1>5, <1>8, <2>1
<1> QED
  BY <1>7, <1>8

\* What a document holds of the working tree that the registry did not know.
Redone(a, q) == a[q].hash # art[q].hash /\ a[q].hash # NoFile

\* Not taken for fresh, unless its file was found rewritten.
Held(a, q) ==
  a[q].status = "stale" \/ (a[q].status = "missing" /\ files[q] = NoFile) \/ Redone(a, q)

\* The document while refresh goes over its entries.
Seen(a) ==
  /\ a \in [DOMAIN art -> Art!Entry]
  /\ \A q \in DOMAIN art :
       /\ a[q].deps = art[q].deps /\ a[q].hash \in {art[q].hash, files[q]}
       /\ art[q].status = "stale" => Held(a, q)
  /\ \A p \in DOMAIN art : Redone(a, p) => \A q \in Art!Downstream(art, p) \ {p} : Held(a, q)

LEMMA SeenFirst == ArtDoc => Seen(art)
BY DEF ArtDoc, Seen, Redone, Held

LEMMA SeenNext ==
  ASSUME ArtDoc, NEW a, Seen(a), NEW p \in DOMAIN art
  PROVE  Seen(Art!LookAt(a, p))
<1>1. PICK b : b = Art!LookAt(a, p)
  OBVIOUS
<1>2. a \in [DOMAIN art -> Art!Entry]
  BY DEF Seen
<1>3. /\ b \in [DOMAIN art -> Art!Entry]
      /\ \A q \in DOMAIN art :
           /\ b[q].deps = a[q].deps
           /\ b[q].hash = IF q = p THEN files[p] ELSE a[q].hash
      /\ b[p].status = IF files[p] = NoFile THEN "missing"
                       ELSE IF a[p].hash # files[p] THEN "fresh"
                       ELSE IF a[p].status = "stale" THEN "stale" ELSE "fresh"
      /\ \A q \in DOMAIN art \ {p} :
           b[q].status = IF a[p].hash # files[p] /\ files[p] # NoFile /\ q \in Art!Downstream(a, p)
                         THEN "stale" ELSE a[q].status
  BY <1>1, <1>2, LooksAt
<1>4. Art!Downstream(a, p) = Art!Downstream(art, p)
  <2>1. DOMAIN a = DOMAIN art /\ \A q \in DOMAIN art : a[q].deps = art[q].deps
    BY <1>2 DEF Seen
  <2> QED
    BY <2>1, SameGraph
<1>5. a[p].hash \in {art[p].hash, files[p]}
  BY DEF Seen
<1>6. ASSUME NEW q \in DOMAIN art, Held(a, q) PROVE Held(b, q)
  <2>1. CASE q = p
    BY <1>3, <1>5, <1>6, <2>1 DEF Held, Redone
  <2>2. CASE q # p
    BY <1>3, <1>6, <2>2 DEF Held, Redone
  <2> QED
    BY <2>1, <2>2
<1>7. ASSUME NEW f \in DOMAIN art, Redone(b, f), NEW q \in Art!Downstream(art, f) \ {f}
      PROVE  Held(b, q)
  <2>1. q \in DOMAIN art
    BY <1>7 DEF Art!Downstream
  <2>2. CASE Redone(a, f)
    BY <1>6, <1>7, <2>1, <2>2 DEF Seen
  <2>3. CASE ~Redone(a, f)
    <3>1. f = p /\ a[p].hash # files[p] /\ files[p] # NoFile
      BY <1>3, <1>5, <1>7, <2>3 DEF Redone
    <3>2. b[q].status = "stale"
      BY <1>3, <1>4, <1>7, <2>1, <3>1
    <3> QED
      BY <3>2 DEF Held
  <2> QED
    BY <2>2, <2>3
<1>8. \A q \in DOMAIN art : b[q].deps = art[q].deps /\ b[q].hash \in {art[q].hash, files[q]}
  BY <1>3 DEF Seen
<1>9. \A q \in DOMAIN art : art[q].status = "stale" => Held(b, q)
  BY <1>6 DEF Seen
<1>10. Seen(b)
  BY <1>3, <1>7, <1>8, <1>9 DEF Seen
<1> QED
  BY <1>1, <1>10

\* The documents refresh goes through: one for every number of entries looked at.
Looks(g, n) == g = [i \in 0..n |-> IF i = 0 THEN art ELSE Art!LookAt(g[i - 1], order[i])]

LEMMA LooksExist == \A n \in Nat : \E g : Looks(g, n)
<1> SUFFICES ASSUME NEW n \in Nat PROVE \E g : Looks(g, n)
  OBVIOUS
<1> DEFINE S == {m \in 0..n : \E g : Looks(g, m)}
<1>1. 0 \in S
  <2>1. PICK g : g = [i \in 0..0 |-> art]
    OBVIOUS
  <2>2. Looks(g, 0)
    BY <2>1 DEF Looks
  <2> QED
    BY <2>2
<1>2. ASSUME NEW m \in 1..n, m - 1 \in S PROVE m \in S
  <2>1. PICK g : Looks(g, m - 1)
    BY <1>2
  <2>2. PICK h : h = [i \in 0..m |-> IF i = m THEN Art!LookAt(g[m - 1], order[m]) ELSE g[i]]
    OBVIOUS
  <2>3. \A i \in 0..(m - 1) : i \in 0..m /\ i # m /\ (i # 0 => i - 1 \in 0..(m - 1))
    OBVIOUS
  <2>4. /\ h[m] = Art!LookAt(h[m - 1], order[m])
        /\ \A i \in 0..(m - 1) : h[i] = IF i = 0 THEN art ELSE Art!LookAt(h[i - 1], order[i])
    BY <2>1, <2>2, <2>3 DEF Looks
  <2>5. m # 0 /\ \A i \in 0..m : i \in 0..(m - 1) \/ i = m
    OBVIOUS
  <2>6. Looks(h, m)
    <3>1. \A i \in 0..m : h[i] = IF i = 0 THEN art ELSE Art!LookAt(h[i - 1], order[i])
      BY <2>4, <2>5
    <3>2. h = [i \in 0..m |-> h[i]]
      BY <2>2
    <3> QED
      BY <3>1, <3>2 DEF Looks
  <2> QED
    BY <2>6
<1>3. \A m \in 0..n : m \in S
  <2> HIDE DEF S
  <2> QED
    BY <1>1, <1>2, SetInduction
<1> QED
  BY <1>3

\* refresh ends in such a document.
LEMMA RefreshSees ==
  ASSUME ArtDoc, Art!Refresh
  PROVE  Seen(art')
<1>1. PICK n \in Nat : n = Len(order)
  BY DEF ArtDoc
<1>2. PICK g : Looks(g, n) /\ art' = g[n]
  <2>1. \E g : Looks(g, n)
    BY LooksExist
  <2>2. PICK g : g = CHOOSE f : Looks(f, n)
    OBVIOUS
  <2>3. Looks(g, n)
    BY <2>1, <2>2
  <2>4. art' = g[n]
    BY <1>1, <2>2 DEF Art!Refresh, Looks
  <2> QED
    BY <2>3, <2>4
<1> DEFINE S == {i \in 0..n : Seen(g[i])}
<1>3. 0 \in S
  BY <1>2, SeenFirst DEF Looks
<1>4. ASSUME NEW i \in 1..n, i - 1 \in S PROVE i \in S
  <2>1. order[i] \in DOMAIN art
    BY <1>1 DEF ArtDoc, Elements
  <2>2. i # 0 /\ i \in 0..n
    OBVIOUS
  <2>3. g[i] = Art!LookAt(g[i - 1], order[i])
    BY <1>2, <2>2 DEF Looks
  <2>4. Seen(g[i - 1])
    BY <1>4
  <2> QED
    BY <2>1, <2>2, <2>3, <2>4, SeenNext
<1>5. n \in S
  <2>1. \A i \in 0..n : i \in S
    <3> HIDE DEF S
    <3> QED
      BY <1>3, <1>4, SetInduction
  <2> QED
    BY <2>1
<1> QED
  BY <1>2, <1>5

LEMMA RefreshMarks ==
  ASSUME ArtDoc, Art!Refresh
  PROVE  Art!ChangesMark
<1>1. Seen(art')
  BY RefreshSees
<1>2. \A p \in DOMAIN art : p \in Art!Changed <=> Redone(art', p)
  BY DEF Art!Changed, Redone
<1>3. SUFFICES ASSUME NEW p \in Art!Changed,
                      NEW q \in Art!Downstream(art, p) \ Art!Changed, q # p
               PROVE  art'[q].status \in {"stale", "missing"}
  BY DEF Art!ChangesMark
<1>4. p \in DOMAIN art /\ q \in DOMAIN art
  BY DEF Art!Changed, Art!Downstream
<1>5. Held(art', q)
  BY <1>1, <1>2, <1>3, <1>4 DEF Seen
<1> QED
  BY <1>2, <1>3, <1>4, <1>5 DEF Held

LEMMA ArtFirst == Art!Init => ArtInv
<1> SUFFICES ASSUME Art!Init PROVE ArtInv
  OBVIOUS
<1>1. /\ files \in [ArtPaths -> UNION {ArtContents[p] : p \in ArtPaths}]
      /\ \A p \in ArtPaths : files[p] \in ArtContents[p]
      /\ order = <<>> /\ art = <<>> /\ rework = Art!Idle
      /\ tickets = [t \in TicketIds |-> [status |-> "none", affected |-> {}]]
  BY DEF Art!Init
<1>2. /\ DOMAIN art = {} /\ art \in [DOMAIN art -> Art!Entry]
      /\ order \in Seq(ArtPaths) /\ Len(order) = 0 /\ Elements(order) = {}
  BY <1>1 DEF Elements
<1>3. ArtListed
  BY <1>2, FS_EmptySet DEF ArtListed
<1>4. ArtTickets
  BY <1>1 DEF ArtTickets, Art!Idle, Art!TicketStatus
<1> QED
  BY <1>1, <1>2, <1>3, <1>4 DEF ArtInv, ArtDoc

\* A registration adds an entry, or overwrites one, and its place stays.
LEMMA ArtRegisters ==
  ASSUME ArtInv, NEW p \in ArtPaths, Art!Register(p)
  PROVE  ArtInv'
<1>1. PICK deps, entry :
        /\ deps \in Given[p]
        /\ entry = [status |-> Art!Snapshot(p), hash |-> files[p],
                    deps |-> IF deps = {} /\ p \in DOMAIN art THEN art[p].deps ELSE deps]
        /\ art' = [q \in DOMAIN art \union {p} |-> IF q = p THEN entry ELSE art[q]]
  BY DEF Art!Register
<1>2. /\ order' = IF p \in DOMAIN art THEN order ELSE Append(order, p)
      /\ files' = files /\ UNCHANGED <<tickets, rework>>
  BY DEF Art!Register
<1>3. deps \in SUBSET ArtPaths
  BY <1>1, ArtifactAssumption DEF Art!ArtifactsAssumption
<1>4. p \in DOMAIN art => art[p].deps \in SUBSET ArtPaths
  BY DEF ArtInv, ArtDoc, Art!Entry
<1>5. files[p] \in {NoFile} \union UNION {ArtContents[f] : f \in ArtPaths}
  BY DEF ArtInv, ArtDoc
<1>6. entry \in Art!Entry
  BY <1>1, <1>3, <1>4, <1>5 DEF Art!Entry, Art!Snapshot
<1>7. DOMAIN art' = DOMAIN art \union {p} /\ art' \in [DOMAIN art' -> Art!Entry]
  BY <1>1, <1>6 DEF ArtInv, ArtDoc
<1>8. order \in Seq(ArtPaths) /\ Elements(order) = DOMAIN art /\ IsFiniteSet(DOMAIN art)
      /\ Len(order) = Cardinality(DOMAIN art)
  BY DEF ArtInv, ArtDoc, ArtListed
<1>9. /\ order' \in Seq(ArtPaths) /\ Elements(order') = DOMAIN art'
      /\ IsFiniteSet(DOMAIN art') /\ Len(order') = Cardinality(DOMAIN art')
  <2>1. CASE p \in DOMAIN art
    <3>1. DOMAIN art' = DOMAIN art
      BY <1>7, <2>1
    <3> QED
      BY <1>2, <1>8, <2>1, <3>1
  <2>2. CASE p \notin DOMAIN art
    <3>1. order' = Append(order, p) /\ order' \in Seq(ArtPaths) /\ Len(order') = Len(order) + 1
      BY <1>2, <1>8, <2>2
    <3>2. Elements(order') = Elements(order) \union {p}
      <4>1. /\ DOMAIN order = 1..Len(order) /\ DOMAIN order' = 1..(Len(order) + 1)
            /\ Len(order) \in Nat /\ order'[Len(order) + 1] = p
            /\ \A i \in 1..Len(order) : order'[i] = order[i]
        BY <1>8, <3>1
      <4> QED
        BY <4>1 DEF Elements
    <3>3. IsFiniteSet(DOMAIN art') /\ Cardinality(DOMAIN art') = Cardinality(DOMAIN art) + 1
      BY <1>7, <1>8, <2>2, FS_AddElement
    <3> QED
      BY <1>7, <1>8, <3>1, <3>2, <3>3
  <2> QED
    BY <2>1, <2>2
<1>10. ArtDoc' /\ ArtListed'
  BY <1>2, <1>7, <1>9 DEF ArtInv, ArtDoc, ArtListed, Elements
<1> QED
  BY <1>2, <1>10 DEF ArtInv, ArtTickets

\* What a ticket makes of its artifacts.
LEMMA ArtReworks ==
  ASSUME ArtInv, NEW t \in TicketIds, Art!RunRework(t) \/ Art!Resolve(t)
  PROVE  ArtInv'
<1>1. \A f \in DOMAIN art, s \in {"fresh", "stale"} : Art!Entered(f, s) \in Art!Entry
  BY DEF ArtInv, ArtDoc, Art!Entered, Art!Entry
<1>2. DOMAIN art' = DOMAIN art /\ \A f \in DOMAIN art : art'[f] \in Art!Entry
  <2>1. \A f \in DOMAIN art : art[f] \in Art!Entry
    BY DEF ArtInv, ArtDoc
  <2> QED
    BY <1>1, <2>1 DEF Art!RunRework, Art!Resolve
<1>3. art' \in [DOMAIN art' -> Art!Entry]
  <2>1. art' = [f \in DOMAIN art |-> art'[f]]
    BY <1>2 DEF Art!RunRework, Art!Resolve
  <2> QED
    BY <1>2, <2>1
<1>4. /\ UNCHANGED <<files, order, tickets>>
      /\ rework'.ticket = t /\ rework'.status \in {"in_progress", "resolved"}
  BY DEF Art!RunRework, Art!Resolve
<1> QED
  BY <1>2, <1>3, <1>4 DEF ArtInv, ArtDoc, ArtListed, ArtTickets

LEMMA ArtNext ==
  ASSUME ArtInv, [Art!Next]_artVars
  PROVE  ArtInv'
<1>1. ASSUME NEW p \in ArtPaths, Art!Edit(p) PROVE ArtInv'
  <2>1. PICK c \in ArtContents[p] : files' = [files EXCEPT ![p] = c]
    BY <1>1 DEF Art!Edit
  <2>2. UNCHANGED <<order, art, tickets, rework>>
    BY <1>1 DEF Art!Edit
  <2>3. /\ files' \in [ArtPaths -> UNION {ArtContents[f] : f \in ArtPaths}]
        /\ \A f \in ArtPaths : files'[f] \in ArtContents[f]
    BY <2>1 DEF ArtInv, ArtDoc
  <2> QED
    BY <2>2, <2>3 DEF ArtInv, ArtDoc, ArtListed, ArtTickets, Elements
<1>2. ASSUME NEW p \in ArtPaths, Art!Register(p) PROVE ArtInv'
  BY <1>2, ArtRegisters
<1>3. CASE Art!Refresh
  <2>1. art' \in [DOMAIN art -> Art!Entry]
    BY <1>3, RefreshSees DEF ArtInv, Seen
  <2>2. UNCHANGED <<files, order, tickets, rework>> /\ DOMAIN art' = DOMAIN art
    BY <1>3, <2>1 DEF Art!Refresh
  <2> QED
    BY <2>1, <2>2 DEF ArtInv, ArtDoc, ArtListed, ArtTickets, Elements
<1>4. ASSUME NEW t \in TicketIds, NEW stage \in Stages, Art!CreateTicket(t, stage) PROVE ArtInv'
  <2>1. Art!Affected(stage) \in SUBSET ArtPaths
    BY DEF Art!Affected, Art!Downstream, ArtInv, ArtDoc
  <2>2. [status |-> "open", affected |-> Art!Affected(stage)] \in [status : Art!TicketStatus, affected : SUBSET ArtPaths]
    BY <2>1 DEF Art!TicketStatus
  <2>3. /\ tickets' \in [TicketIds -> [status : Art!TicketStatus, affected : SUBSET ArtPaths]]
        /\ UNCHANGED <<files, order, art, rework>>
    BY <1>4, <2>2 DEF Art!CreateTicket, ArtInv, ArtTickets
  <2> QED
    BY <2>3 DEF ArtInv, ArtDoc, ArtListed, ArtTickets, Elements
<1>5. ASSUME NEW t \in TicketIds, NEW s \in Art!TicketStatus,
             tickets' = [tickets EXCEPT ![t].status = s]
      PROVE  tickets' \in [TicketIds -> [status : Art!TicketStatus, affected : SUBSET ArtPaths]]
  BY <1>5 DEF ArtInv, ArtTickets
<1>6. ASSUME NEW t \in TicketIds, Art!Approve(t) PROVE ArtInv'
  <2>1. tickets' \in [TicketIds -> [status : Art!TicketStatus, affected : SUBSET ArtPaths]]
    BY <1>5, <1>6 DEF Art!Approve, Art!TicketStatus
  <2>2. UNCHANGED <<files, order, art, rework>>
    BY <1>6 DEF Art!Approve
  <2> QED
    BY <2>1, <2>2 DEF ArtInv, ArtDoc, ArtListed, ArtTickets, Elements
<1>7. ASSUME NEW t \in TicketIds, Art!RunRework(t) \/ Art!Resolve(t) PROVE ArtInv'
  BY <1>7, ArtReworks
<1>8. CASE Art!UpdateTicket
  <2>1. /\ rework.ticket \in TicketIds /\ rework.status \in Art!TicketStatus
        /\ tickets' = [tickets EXCEPT ![rework.ticket].status = rework.status]
        /\ rework' = Art!Idle /\ UNCHANGED <<files, order, art>>
    BY <1>8 DEF Art!UpdateTicket, ArtInv, ArtTickets, Art!TicketStatus
  <2>2. tickets' \in [TicketIds -> [status : Art!TicketStatus, affected : SUBSET ArtPaths]]
    BY <1>5, <2>1
  <2> QED
    BY <2>1, <2>2 DEF Art!Idle, ArtInv, ArtDoc, ArtListed, ArtTickets, Elements
<1>9. CASE Art!Crash
  <2>1. tickets' \in [TicketIds -> [status : Art!TicketStatus, affected : SUBSET ArtPaths]]
    BY <1>9 DEF Art!Crash, ArtInv, ArtTickets, Art!TicketStatus
  <2>2. rework' = Art!Idle /\ UNCHANGED <<files, order, art>>
    BY <1>9 DEF Art!Crash
  <2> QED
    BY <2>1, <2>2 DEF Art!Idle, ArtInv, ArtDoc, ArtListed, ArtTickets, Elements
<1>10. CASE UNCHANGED artVars
  BY <1>10 DEF artVars, ArtInv, ArtDoc, ArtListed, ArtTickets, Elements
<1> QED
  BY <1>1, <1>2, <1>3, <1>4, <1>6, <1>7, <1>8, <1>9, <1>10 DEF Art!Next

LEMMA ArtIsTyped == ArtInv => Art!TypeOK
<1> SUFFICES ASSUME ArtInv PROVE Art!TypeOK
  OBVIOUS
<1>1. {order[i] : i \in DOMAIN order} = DOMAIN art
  BY DEF ArtInv, ArtDoc, Elements
<1>2. Len(order) = Art!Cardinality(DOMAIN art)
  BY ArtSizes DEF ArtInv, ArtListed
<1> QED
  BY <1>1, <1>2 DEF ArtInv, ArtDoc, ArtTickets, Art!TypeOK

\* What is stale stays so: only a registration, a resolution of a ticket that
\* lists it, or a file that was rewritten makes it fresh.
LEMMA StaleStays ==
  ASSUME ArtInv, [Art!Next]_artVars
  PROVE  Art!StaleStep
<1>1. CASE UNCHANGED art
  BY <1>1 DEF Art!StaleStep
<1>2. ASSUME NEW p \in ArtPaths, Art!Edit(p) PROVE UNCHANGED art
  BY <1>2 DEF Art!Edit
<1>3. ASSUME NEW p \in ArtPaths, Art!Register(p) PROVE Art!StaleStep
  <2>1. \A q \in DOMAIN art : q # p => art'[q] = art[q]
    BY <1>3 DEF Art!Register
  <2> QED
    BY <1>3, <2>1 DEF Art!StaleStep
<1>4. CASE Art!Refresh
  <2>1. Seen(art')
    BY <1>4, RefreshSees DEF ArtInv
  <2>2. \A q \in DOMAIN art : Redone(art', q) => q \in Art!Changed
    BY DEF Art!Changed, Redone
  <2> QED
    BY <2>1, <2>2 DEF Seen, Held, Art!StaleStep
<1>5. ASSUME NEW t \in TicketIds, NEW stage \in Stages, Art!CreateTicket(t, stage) PROVE UNCHANGED art
  BY <1>5 DEF Art!CreateTicket
<1>6. ASSUME NEW t \in TicketIds, Art!Approve(t) PROVE UNCHANGED art
  BY <1>6 DEF Art!Approve
<1>7. ASSUME NEW t \in TicketIds, Art!RunRework(t) PROVE Art!StaleStep
  BY <1>7 DEF Art!RunRework, Art!Entered, Art!StaleStep
<1>8. ASSUME NEW t \in TicketIds, Art!Resolve(t) PROVE Art!StaleStep
  <2>1. \A q \in DOMAIN art : q \notin tickets[t].affected => art'[q] = art[q]
    BY <1>8 DEF Art!Resolve
  <2> QED
    BY <1>8, <2>1 DEF Art!StaleStep
<1>9. CASE Art!UpdateTicket \/ Art!Crash
  BY <1>1, <1>9 DEF Art!UpdateTicket, Art!Crash
<1>10. CASE UNCHANGED artVars
  BY <1>1, <1>10 DEF artVars
<1> QED
  BY <1>1, <1>2, <1>3, <1>4, <1>5, <1>6, <1>7, <1>8, <1>9, <1>10 DEF Art!Next

\* A refresh marks as stale or missing all that depends, directly or not, on what
\* it finds rewritten, and what is stale becomes fresh only when it is rewritten,
\* registered again or listed by a ticket that is resolved, for any dependencies,
\* cycles included, in any order of registration.
THEOREM StalenessHonest == FilesSpec => StalenessIsHonest
<1>1. FilesInit => ArtInv
  BY EachStarts, ArtFirst
<1>2. ArtInv /\ [FilesNext]_filesVars => ArtInv'
  BY EachMoves, ArtNext
<1>3. ArtInv /\ [FilesNext]_filesVars =>
        /\ [Art!Refresh => Art!ChangesMark]_<<files, order, art, tickets, rework>>
        /\ [Art!StaleStep]_<<files, order, art, tickets, rework>>
  BY EachMoves, RefreshMarks, StaleStays DEF ArtInv
<1>4. FilesSpec => /\ [][Art!Refresh => Art!ChangesMark]_<<files, order, art, tickets, rework>>
                   /\ [][Art!StaleStep]_<<files, order, art, tickets, rework>>
  BY <1>1, <1>2, <1>3, PTL DEF FilesSpec
<1> QED
  BY <1>4 DEF StalenessIsHonest, Art!RefreshMarksDownstream, Art!StaleUntilRevisited, Art!vars

-----------------------------------------------------------------------------
(* Sums over finite sets                                                   *)

Sum(f, S) == Cost!SumFunctionOnSet(f, S)

Pick(S) == CHOOSE x \in S : TRUE

\* g holds the sum of f over every set of the family F.
Folds(g, f, F) == g = [T \in F |-> IF T = {} THEN 0 ELSE f[Pick(T)] + g[T \ {Pick(T)}]]

UpTo(S, i) == {T \in SUBSET S : Cardinality(T) <= i}

LEMMA SumIs == \A f, S : Sum(f, S) = (CHOOSE g : Folds(g, f, SUBSET S))[S]
BY DEF Sum, Cost!SumFunctionOnSet, Cost!FoldFunctionOnSet, Cost!MapThenFoldSet, Folds, Pick

LEMMA PickOne ==
  ASSUME NEW S, IsFiniteSet(S), S # {}
  PROVE  /\ Pick(S) \in S /\ IsFiniteSet(S \ {Pick(S)})
         /\ Cardinality(S) \in Nat \ {0} /\ Cardinality(S \ {Pick(S)}) = Cardinality(S) - 1
<1>1. Pick(S) \in S
  BY DEF Pick
<1>2. Cardinality(S) \in Nat /\ Cardinality(S) # 0
  BY FS_CardinalityType, FS_EmptySet
<1> QED
  BY <1>1, <1>2, FS_RemoveElement

\* What holds of a set if it holds of all it is with one element less, holds of
\* every finite set.
LEMMA FiniteInduction ==
  ASSUME NEW S, IsFiniteSet(S), NEW P, \A T \in SUBSET S : (\A x \in T : T \ {x} \in P) => T \in P
  PROVE  S \in P
<1> DEFINE I == {i \in 0..Cardinality(S) : \A T \in SUBSET S : Cardinality(T) = i => T \in P}
<1>1. Cardinality(S) \in Nat /\ \A T \in SUBSET S : IsFiniteSet(T)
  BY FS_Subset, FS_CardinalityType
<1>2. 0 \in I
  <2>1. \A T \in SUBSET S : Cardinality(T) = 0 => T = {}
    BY <1>1, FS_EmptySet
  <2> QED
    BY <1>1, <2>1
<1>3. ASSUME NEW i \in 1..Cardinality(S), i - 1 \in I PROVE i \in I
  <2> SUFFICES ASSUME NEW T \in SUBSET S, Cardinality(T) = i, NEW x \in T PROVE T \ {x} \in P
    BY <1>1
  <2>1. Cardinality(T \ {x}) = i - 1
    BY <1>1, FS_RemoveElement
  <2> QED
    BY <1>3, <2>1
<1>4. Cardinality(S) \in I
  <2> HIDE DEF I
  <2>1. \A i \in 0..Cardinality(S) : i \in I
    BY <1>1, <1>2, <1>3, SetInduction
  <2> QED
    BY <1>1, <2>1
<1> QED
  BY <1>4

LEMMA FoldsExist ==
  ASSUME NEW f, NEW S, IsFiniteSet(S)
  PROVE  \E g : Folds(g, f, SUBSET S)
<1> DEFINE I == {i \in 0..Cardinality(S) : \E g : Folds(g, f, UpTo(S, i))}
<1>1. Cardinality(S) \in Nat /\ \A T \in SUBSET S : IsFiniteSet(T) /\ Cardinality(T) \in 0..Cardinality(S)
  BY FS_Subset, FS_CardinalityType
<1>2. 0 \in I
  <2>1. \A T \in UpTo(S, 0) : T = {}
    BY <1>1, FS_EmptySet DEF UpTo
  <2>2. Folds([T \in UpTo(S, 0) |-> 0], f, UpTo(S, 0))
    BY <2>1 DEF Folds
  <2> QED
    BY <1>1, <2>2
<1>3. ASSUME NEW i \in 1..Cardinality(S), i - 1 \in I PROVE i \in I
  <2>1. PICK g : Folds(g, f, UpTo(S, i - 1))
    BY <1>3
  <2> DEFINE h == [T \in UpTo(S, i) |-> IF T \in UpTo(S, i - 1) THEN g[T]
                                         ELSE f[Pick(T)] + g[T \ {Pick(T)}]]
  <2>2. ASSUME NEW T \in UpTo(S, i)
        PROVE  h[T] = IF T = {} THEN 0 ELSE f[Pick(T)] + h[T \ {Pick(T)}]
    <3>1. CASE T = {}
      <4>1. T \in UpTo(S, i - 1)
        BY <1>1, <3>1, FS_EmptySet DEF UpTo
      <4> QED
        BY <2>1, <3>1, <4>1 DEF Folds
    <3>2. CASE T # {}
      <4>1. T \ {Pick(T)} \in UpTo(S, i - 1) /\ T \ {Pick(T)} \in UpTo(S, i)
        BY <1>1, <3>2, PickOne DEF UpTo
      <4>2. T \in UpTo(S, i - 1) => g[T] = f[Pick(T)] + g[T \ {Pick(T)}]
        BY <2>1, <3>2 DEF Folds
      <4> QED
        BY <3>2, <4>1, <4>2
    <3> QED
      BY <3>1, <3>2
  <2>3. Folds(h, f, UpTo(S, i))
    BY <2>2 DEF Folds
  <2> QED
    BY <2>3
<1>4. Cardinality(S) \in I
  <2> HIDE DEF I
  <2>1. \A i \in 0..Cardinality(S) : i \in I
    BY <1>1, <1>2, <1>3, SetInduction
  <2> QED
    BY <1>1, <2>1
<1>5. UpTo(S, Cardinality(S)) = SUBSET S
  BY <1>1 DEF UpTo
<1> QED
  BY <1>4, <1>5

LEMMA FoldsAgree ==
  ASSUME NEW f, NEW g, NEW h, NEW S, NEW U, IsFiniteSet(S), S \subseteq U,
         Folds(g, f, SUBSET S), Folds(h, f, SUBSET U)
  PROVE  g[S] = h[S]
<1> DEFINE P == {T \in SUBSET S : g[T] = h[T]}
<1>1. ASSUME NEW T \in SUBSET S, \A x \in T : T \ {x} \in P PROVE T \in P
  <2>1. T # {} => Pick(T) \in T
    BY DEF Pick
  <2> QED
    BY <1>1, <2>1 DEF Folds
<1> HIDE DEF P
<1>2. S \in P
  BY <1>1, FiniteInduction
<1> QED
  BY <1>2 DEF P

LEMMA SumFolds ==
  ASSUME NEW f, NEW S, IsFiniteSet(S)
  PROVE  \E g : Folds(g, f, SUBSET S) /\ Sum(f, S) = g[S]
BY FoldsExist, SumIs

LEMMA SumEmpty == \A f : Sum(f, {}) = 0
<1> SUFFICES ASSUME NEW f PROVE Sum(f, {}) = 0
  OBVIOUS
<1>1. PICK g : Folds(g, f, SUBSET {}) /\ Sum(f, {}) = g[{}]
  BY SumFolds, FS_EmptySet
<1> QED
  BY <1>1 DEF Folds

LEMMA SumPicks ==
  ASSUME NEW f, NEW S, IsFiniteSet(S), S # {}
  PROVE  Sum(f, S) = f[Pick(S)] + Sum(f, S \ {Pick(S)})
<1> DEFINE U == S \ {Pick(S)}
<1>1. PICK g : Folds(g, f, SUBSET S) /\ Sum(f, S) = g[S]
  BY SumFolds
<1>2. IsFiniteSet(U)
  BY PickOne
<1>3. PICK h : Folds(h, f, SUBSET U) /\ Sum(f, U) = h[U]
  BY <1>2, SumFolds
<1>4. h[U] = g[U]
  BY <1>1, <1>2, <1>3, FoldsAgree
<1> QED
  BY <1>1, <1>3, <1>4 DEF Folds

LEMMA SumInt ==
  ASSUME NEW f, NEW S, IsFiniteSet(S), \A x \in S : f[x] \in Int
  PROVE  Sum(f, S) \in Int
<1> DEFINE P == {T \in SUBSET S : Sum(f, T) \in Int}
<1>1. ASSUME NEW T \in SUBSET S, \A x \in T : T \ {x} \in P PROVE T \in P
  <2>1. CASE T = {}
    BY <2>1, SumEmpty
  <2>2. CASE T # {}
    <3>1. IsFiniteSet(T) /\ Pick(T) \in T
      BY <2>2, FS_Subset DEF Pick
    <3>2. Sum(f, T \ {Pick(T)}) \in Int /\ f[Pick(T)] \in Int
      BY <1>1, <3>1
    <3>3. Sum(f, T) = f[Pick(T)] + Sum(f, T \ {Pick(T)})
      BY <2>2, <3>1, SumPicks
    <3> QED
      BY <3>2, <3>3
  <2> QED
    BY <2>1, <2>2
<1> HIDE DEF P
<1>2. S \in P
  BY <1>1, FiniteInduction
<1> QED
  BY <1>2 DEF P

\* The order of the summands does not matter.
LEMMA SumTakes ==
  ASSUME NEW f, NEW S, IsFiniteSet(S), \A x \in S : f[x] \in Int
  PROVE  \A x \in S : Sum(f, S) = f[x] + Sum(f, S \ {x})
<1> DEFINE P == {T \in SUBSET S : \A x \in T : Sum(f, T) = f[x] + Sum(f, T \ {x})}
<1>1. ASSUME NEW T \in SUBSET S, \A x \in T : T \ {x} \in P, NEW x \in T
      PROVE  Sum(f, T) = f[x] + Sum(f, T \ {x})
  <2> DEFINE y == Pick(T)
             V == (T \ {x}) \ {y}
  <2>1. IsFiniteSet(T) /\ y \in T /\ IsFiniteSet(V) /\ V \in SUBSET S
    BY FS_Subset DEF Pick
  <2>2. Sum(f, T) = f[y] + Sum(f, T \ {y})
    BY <2>1, SumPicks
  <2>3. CASE x = y
    BY <2>2, <2>3
  <2>4. CASE x # y
    <3>1. V = (T \ {y}) \ {x} /\ x \in T \ {y} /\ y \in T \ {x}
      BY <2>1, <2>4
    <3>2. Sum(f, T \ {y}) = f[x] + Sum(f, V) /\ Sum(f, T \ {x}) = f[y] + Sum(f, V)
      BY <1>1, <2>1, <3>1
    <3>3. f[x] \in Int /\ f[y] \in Int /\ Sum(f, V) \in Int
      BY <2>1, SumInt
    <3> QED
      BY <2>2, <3>2, <3>3
  <2> QED
    BY <2>3, <2>4
<1>2. \A T \in SUBSET S : (\A x \in T : T \ {x} \in P) => T \in P
  BY <1>1
<1> HIDE DEF P
<1>3. S \in P
  BY <1>2, FiniteInduction
<1> QED
  BY <1>3 DEF P

LEMMA SumSame ==
  ASSUME NEW f, NEW g, NEW S, IsFiniteSet(S), \A x \in S : f[x] = g[x]
  PROVE  Sum(f, S) = Sum(g, S)
<1> DEFINE P == {T \in SUBSET S : Sum(f, T) = Sum(g, T)}
<1>1. ASSUME NEW T \in SUBSET S, \A x \in T : T \ {x} \in P PROVE T \in P
  <2>1. CASE T = {}
    BY <2>1, SumEmpty
  <2>2. CASE T # {}
    <3>1. IsFiniteSet(T) /\ Pick(T) \in T
      BY <2>2, FS_Subset DEF Pick
    <3>2. Sum(f, T \ {Pick(T)}) = Sum(g, T \ {Pick(T)}) /\ f[Pick(T)] = g[Pick(T)]
      BY <1>1, <3>1
    <3>3. /\ Sum(f, T) = f[Pick(T)] + Sum(f, T \ {Pick(T)})
          /\ Sum(g, T) = g[Pick(T)] + Sum(g, T \ {Pick(T)})
      BY <2>2, <3>1, SumPicks
    <3> QED
      BY <3>2, <3>3
  <2> QED
    BY <2>1, <2>2
<1> HIDE DEF P
<1>2. S \in P
  BY <1>1, FiniteInduction
<1> QED
  BY <1>2 DEF P

\* What is summed in parts comes to the sum of the whole.
LEMMA SumParts ==
  ASSUME NEW f, NEW A, NEW B, IsFiniteSet(A), IsFiniteSet(B), A \cap B = {},
         \A x \in A \cup B : f[x] \in Int
  PROVE  Sum(f, A \cup B) = Sum(f, A) + Sum(f, B)
<1> DEFINE P == {T \in SUBSET B : Sum(f, A \cup T) = Sum(f, A) + Sum(f, T)}
<1>1. ASSUME NEW T \in SUBSET B, \A x \in T : T \ {x} \in P PROVE T \in P
  <2>0. IsFiniteSet(T) /\ Sum(f, A) \in Int
    BY FS_Subset, SumInt
  <2>1. CASE T = {}
    BY <2>0, <2>1, SumEmpty
  <2>2. CASE T # {}
    <3> DEFINE x == Pick(T)
    <3>1. x \in T
      BY <2>2 DEF Pick
    <3>2. Sum(f, A \cup (T \ {x})) = Sum(f, A) + Sum(f, T \ {x})
      BY <1>1, <3>1
    <3>3. A \cup (T \ {x}) = (A \cup T) \ {x} /\ IsFiniteSet(A \cup T) /\ x \in A \cup T
      BY <2>0, <3>1, FS_Union
    <3>4. Sum(f, A \cup T) = f[x] + Sum(f, (A \cup T) \ {x})
      BY <3>3, SumTakes
    <3>5. Sum(f, T) = f[x] + Sum(f, T \ {x})
      BY <2>0, <3>1, SumTakes
    <3>6. f[x] \in Int /\ IsFiniteSet(T \ {x}) /\ \A z \in T \ {x} : f[z] \in Int
      BY <1>1, <2>0, <3>1, FS_RemoveElement
    <3>7. Sum(f, T \ {x}) \in Int
      BY <3>6, SumInt
    <3>8. Sum(f, (A \cup T) \ {x}) = Sum(f, A) + Sum(f, T \ {x})
      BY <3>2, <3>3
    <3> HIDE DEF x
    <3> QED
      BY <2>0, <3>4, <3>5, <3>6, <3>7, <3>8
  <2> QED
    BY <2>1, <2>2
<1> HIDE DEF P
<1>2. B \in P
  BY <1>1, FiniteInduction
<1> QED
  BY <1>2 DEF P

-----------------------------------------------------------------------------
(* Costs                                                                   *)

LEMMA ImageFinite ==
  ASSUME NEW f, NEW S, IsFiniteSet(S)
  PROVE  IsFiniteSet({f[x] : x \in S})
<1> DEFINE T == {f[x] : x \in S}
           g == [x \in S |-> f[x]]
<1>1. g \in Surjection(S, T)
  BY DEF Surjection
<1> QED
  BY <1>1, FS_Surjection

LEMMA SumOnes ==
  ASSUME NEW f, NEW S, IsFiniteSet(S), \A x \in S : f[x] = 1
  PROVE  Sum(f, S) = Cardinality(S)
<1> DEFINE P == {T \in SUBSET S : Sum(f, T) = Cardinality(T)}
<1>1. ASSUME NEW T \in SUBSET S, \A x \in T : T \ {x} \in P PROVE T \in P
  <2>1. CASE T = {}
    BY <2>1, SumEmpty, FS_EmptySet
  <2>2. CASE T # {}
    <3>1. IsFiniteSet(T)
      BY FS_Subset
    <3>2. Pick(T) \in T /\ Cardinality(T) \in Nat /\ Cardinality(T \ {Pick(T)}) = Cardinality(T) - 1
      BY <2>2, <3>1, PickOne
    <3>3. Sum(f, T \ {Pick(T)}) = Cardinality(T \ {Pick(T)}) /\ f[Pick(T)] = 1
      BY <1>1, <3>2
    <3>4. Sum(f, T) = f[Pick(T)] + Sum(f, T \ {Pick(T)})
      BY <2>2, <3>1, SumPicks
    <3> QED
      BY <3>2, <3>3, <3>4
  <2> QED
    BY <2>1, <2>2
<1> HIDE DEF P
<1>2. S \in P
  BY <1>1, FiniteInduction
<1> QED
  BY <1>2 DEF P

\* A sum of sums over the keys of what is summed.
With(D, key, B) == {x \in D : key[x] \in B}

LEMMA SumByKey ==
  ASSUME NEW f, NEW D, NEW key, NEW g, NEW B, IsFiniteSet(D), IsFiniteSet(B),
         \A x \in D : f[x] \in Int, \A b \in B : g[b] = Sum(f, With(D, key, {b}))
  PROVE  Sum(g, B) = Sum(f, With(D, key, B))
<1> DEFINE P == {C \in SUBSET B : Sum(g, C) = Sum(f, With(D, key, C))}
<1>0. \A C : IsFiniteSet(With(D, key, C)) /\ \A x \in With(D, key, C) : f[x] \in Int
  BY FS_Subset DEF With
<1>1. ASSUME NEW C \in SUBSET B, \A b \in C : C \ {b} \in P PROVE C \in P
  <2>1. CASE C = {}
    <3>1. With(D, key, C) = {}
      BY <2>1 DEF With
    <3> QED
      BY <2>1, <3>1, SumEmpty
  <2>2. CASE C # {}
    <3> DEFINE b == Pick(C)
    <3>1. b \in C /\ IsFiniteSet(C)
      BY <2>2, FS_Subset DEF Pick
    <3>2. Sum(g, C) = g[b] + Sum(g, C \ {b})
      BY <2>2, <3>1, SumPicks
    <3>3. Sum(g, C \ {b}) = Sum(f, With(D, key, C \ {b}))
      BY <1>1, <3>1
    <3>4. /\ With(D, key, C) = With(D, key, {b}) \cup With(D, key, C \ {b})
          /\ With(D, key, {b}) \cap With(D, key, C \ {b}) = {}
      BY <3>1 DEF With
    <3>5. \A x \in With(D, key, {b}) \cup With(D, key, C \ {b}) : f[x] \in Int
      BY <1>0
    <3>6. Sum(f, With(D, key, {b}) \cup With(D, key, C \ {b}))
            = Sum(f, With(D, key, {b})) + Sum(f, With(D, key, C \ {b}))
      BY <1>0, <3>4, <3>5, SumParts
    <3> QED
      BY <3>1, <3>2, <3>3, <3>4, <3>6
  <2> QED
    BY <2>1, <2>2
<1> HIDE DEF P
<1>2. B \in P
  BY <1>1, FiniteInduction
<1> QED
  BY <1>2 DEF P

-----------------------------------------------------------------------------
(* What `forge cost` reports                                               *)

LEMMA CostSizes == \A S : Cost!Cardinality(S) = Cardinality(S)
BY Zenon DEF Cost!Cardinality, Cardinality

CostEvent ==
  UNION {[run : Runs, type : {type}, payload : Cost!Payloads(type)] : type \in {"started", "completed"}}

CostOnce ==
  \A i, j \in DOMAIN spending :
    spending[i].run = spending[j].run /\ spending[i].type = spending[j].type => i = j

CostReads ==
  /\ report.first \in 0..Len(spending) /\ report.second \in 0..Len(spending)
  /\ report.at = "done" => report.first <= report.second

CostInv == Cost!TypeOK /\ CostOnce /\ CostReads

LEMMA CostFirst == Cost!Init => CostInv
BY DEF Cost!Init, CostInv, Cost!TypeOK, CostOnce, CostReads, Cost!NoReport

LEMMA CostNext == CostInv /\ (Cost!Next \/ UNCHANGED costVars) => CostInv'
<1> SUFFICES ASSUME CostInv, Cost!Next \/ UNCHANGED costVars PROVE CostInv'
  OBVIOUS
<1>0. spending \in Seq(CostEvent)
  BY DEF CostInv, Cost!TypeOK, CostEvent
<1>1. ASSUME NEW r \in Runs, NEW type \in {"started", "completed"}, NEW payload \in Cost!Payloads(type),
             Cost!Record(r, type, payload)
      PROVE  CostInv'
  <2> DEFINE e == [run |-> r, type |-> type, payload |-> payload]
  <2>1. e \in CostEvent
    BY DEF CostEvent
  <2>2. spending' = Append(spending, e) /\ report' = report
    BY <1>1 DEF Cost!Record
  <2>3. spending' \in Seq(CostEvent) /\ Len(spending') = Len(spending) + 1
    BY <1>0, <2>1, <2>2
  <2>4. Cost!TypeOK'
    BY <2>2, <2>3 DEF CostInv, Cost!TypeOK, CostEvent, Cost!Payloads
  <2>5. CostOnce'
    <3>1. \A i \in DOMAIN spending : ~(spending[i].run = r /\ spending[i].type = type)
      BY <1>1 DEF Cost!Record, Cost!Has
    <3> QED
      BY <1>0, <2>1, <2>2, <3>1 DEF CostInv, CostOnce
  <2>6. CostReads'
    BY <1>0, <2>2, <2>3 DEF CostInv, CostReads
  <2> QED
    BY <2>4, <2>5, <2>6 DEF CostInv
<1>2. CASE UNCHANGED spending /\ ((\E filter \in Billed \cup {NoStage} : Cost!ReadStarted(filter))
                                  \/ Cost!ReadCompleted \/ Cost!Leave)
  <2>1. CostOnce'
    BY <1>2 DEF CostInv, CostOnce
  <2>2. Len(spending) \in Nat
    BY <1>0
  <2>3. CASE \E filter \in Billed \cup {NoStage} : Cost!ReadStarted(filter)
    <3>1. PICK filter \in Billed \cup {NoStage} : Cost!ReadStarted(filter)
      BY <2>3
    <3>2. report' = [at |-> "started", first |-> Len(spending), second |-> 0, filter |-> filter]
      BY <3>1 DEF Cost!ReadStarted
    <3>3. Cost!TypeOK'
      BY <1>2, <2>2, <3>2 DEF CostInv, Cost!TypeOK
    <3>4. CostReads'
      BY <1>2, <2>2, <3>2 DEF CostReads
    <3> QED
      BY <2>1, <3>3, <3>4 DEF CostInv
  <2>4. CASE Cost!ReadCompleted
    <3>1. report' = [report EXCEPT !.at = "done", !.second = Len(spending)]
      BY <2>4 DEF Cost!ReadCompleted
    <3>2. Cost!TypeOK'
      BY <1>2, <2>2, <3>1 DEF CostInv, Cost!TypeOK
    <3>3. CostReads'
      <4>1. report'.first = report.first /\ report'.second = Len(spending)
        BY <3>1 DEF CostInv, Cost!TypeOK
      <4> QED
        BY <1>2, <2>2, <4>1 DEF CostInv, CostReads
    <3> QED
      BY <2>1, <3>2, <3>3 DEF CostInv
  <2>5. CASE Cost!Leave
    BY <1>0, <1>2, <2>1, <2>2, <2>5 DEF CostInv, Cost!TypeOK, CostReads, Cost!Leave, Cost!NoReport
  <2> QED
    BY <1>2, <2>3, <2>4, <2>5
<1>3. CASE UNCHANGED costVars
  BY <1>3 DEF costVars, CostInv, Cost!TypeOK, CostOnce, CostReads
<1> QED
  BY <1>1, <1>2, <1>3 DEF Cost!Next, Cost!ReadStarted, Cost!ReadCompleted, Cost!Leave

-----------------------------------------------------------------------------

Read(n, type) == {spending[i] : i \in {j \in 1..n : spending[j].type = type}}

\* What a read of the first n rows holds, each run once.
LEMMA CostRows ==
  ASSUME CostInv, NEW n \in 0..Len(spending), NEW type
  PROVE  /\ Cost!ReadByType(SubSeq(spending, 1, n), type) = Read(n, type)
         /\ IsFiniteSet(Read(n, type)) /\ Read(n, type) \subseteq CostEvent
         /\ \A e \in Read(n, type) : e.type = type
         /\ \A d, e \in Read(n, type) : d.run = e.run => d = e
<1>0. spending \in Seq(CostEvent)
  BY DEF CostInv, Cost!TypeOK, CostEvent
<1>1. DOMAIN SubSeq(spending, 1, n) = 1..n /\ \A i \in 1..n : SubSeq(spending, 1, n)[i] = spending[i]
  BY <1>0
<1>2. Cost!ReadByType(SubSeq(spending, 1, n), type) = Read(n, type)
  BY <1>1 DEF Cost!ReadByType, Read
<1>3. IsFiniteSet({j \in 1..n : spending[j].type = type})
  <2>1. n \in Int
    BY <1>0
  <2>2. IsFiniteSet(1..n)
    BY <2>1, FS_Interval
  <2>3. {j \in 1..n : spending[j].type = type} \subseteq 1..n
    OBVIOUS
  <2> QED
    BY <2>2, <2>3, FS_Subset
<1>4. IsFiniteSet(Read(n, type))
  BY <1>3, ImageFinite DEF Read
<1> QED
  BY <1>0, <1>2, <1>4 DEF Read, CostInv, CostOnce

\* The completions of the second read, and the stage of each by the first.
Completed == Cost!Decoded(Cost!SecondRead, "completed")
StageBy == [e \in Completed |-> Cost!StageByRun(Cost!FirstRead, e.run)]
ChargedTo(s) == {e \in Completed : StageBy[e] = s}
PricedOf(S) == {e \in S : e.payload # NoPrice}
PriceOf == [e \in PricedOf(Completed) |-> e.payload]

LEMMA StageOfRun ==
  ASSUME CostInv, NEW n \in 0..Len(spending), NEW r
  PROVE  LET read == SubSeq(spending, 1, n)
             started == {e \in Read(n, "started") : e.run = r /\ e.payload # Unreadable}
         IN  /\ Cost!StageByRun(read, r) \in Billed \cup {NoStage}
             /\ \A e \in started : Cost!StageByRun(read, r) = e.payload
             /\ started = {} => Cost!StageByRun(read, r) = NoStage
<1> DEFINE read == SubSeq(spending, 1, n)
           started == {e \in Read(n, "started") : e.run = r /\ e.payload # Unreadable}
           own == {e \in Cost!Decoded(read, "started") : e.run = r}
<1>1. own = started
  BY CostRows DEF Cost!Decoded
<1>2. Cost!StageByRun(read, r) = IF own = {} THEN NoStage ELSE (CHOOSE e \in own : TRUE).payload
  BY DEF Cost!StageByRun
<1>3. \A e \in started : e.payload \in Billed \cup {NoStage}
  BY CostRows DEF CostEvent, Cost!Payloads
<1>4. \A d, e \in started : d = e
  BY CostRows
<1> HIDE DEF started, own
<1>5. own # {} => (CHOOSE e \in own : TRUE) \in started
  BY <1>1
<1>6. /\ Cost!StageByRun(read, r) \in Billed \cup {NoStage}
      /\ \A e \in started : Cost!StageByRun(read, r) = e.payload
      /\ started = {} => Cost!StageByRun(read, r) = NoStage
  BY <1>1, <1>2, <1>3, <1>4, <1>5
<1> QED
  BY <1>6 DEF started

LEMMA CompletedOnce ==
  ASSUME CostInv, report.at = "done"
  PROVE  /\ Completed = {e \in Read(report.second, "completed") : e.payload # Unreadable}
         /\ IsFiniteSet(Completed)
         /\ \A e \in Completed : StageBy[e] \in Billed \cup {NoStage} /\ e.payload \in Int \cup {NoPrice}
<1>1. report.first \in 0..Len(spending) /\ report.second \in 0..Len(spending)
  BY DEF CostInv, CostReads
<1>2. Completed = {e \in Read(report.second, "completed") : e.payload # Unreadable}
  BY <1>1, CostRows DEF Completed, Cost!Decoded, Cost!SecondRead
<1>3. IsFiniteSet(Completed)
  BY <1>1, <1>2, CostRows, FS_Subset
<1>4. \A e \in Completed : e.payload \in Int \cup {NoPrice}
  <2> SUFFICES ASSUME NEW e \in Completed PROVE e.payload \in Int \cup {NoPrice}
    OBVIOUS
  <2>1. e \in CostEvent /\ e.type = "completed" /\ e.payload # Unreadable
    BY <1>1, <1>2, CostRows
  <2>2. e.payload \in Cost!Payloads("completed")
    BY <2>1 DEF CostEvent
  <2> QED
    BY <2>1, <2>2, CostsAssumption DEF Cost!CostsAssumption, Cost!Payloads
<1>5. \A e \in Completed : StageBy[e] \in Billed \cup {NoStage}
  BY <1>1, StageOfRun DEF StageBy, Cost!FirstRead
<1> QED
  BY <1>2, <1>3, <1>4, <1>5

LEMMA SumOfPrices ==
  ASSUME CostInv, report.at = "done", NEW S, S \subseteq PricedOf(Completed)
  PROVE  Cost!SumOf(S) = Sum(PriceOf, S) /\ IsFiniteSet(S) /\ Cost!SumOf(S) \in Int /\ Cost!SumOf(S) # NoPrice
<1>1. IsFiniteSet(S)
  BY CompletedOnce, FS_Subset DEF PricedOf
<1>2. Cost!SumOf(S) = Sum([e \in S |-> e.payload], S)
  BY DEF Cost!SumOf, Cost!SumFunction, Sum
<1>3. Sum([e \in S |-> e.payload], S) = Sum(PriceOf, S)
  BY <1>1, SumSame DEF PriceOf
<1>4. \A e \in S : PriceOf[e] \in Int
  BY CompletedOnce DEF PriceOf, PricedOf
<1>5. Sum(PriceOf, S) \in Int
  BY <1>1, <1>4, SumInt
<1> QED
  BY <1>1, <1>2, <1>3, <1>5, CostsAssumption DEF Cost!CostsAssumption

LEMMA BucketHolds ==
  ASSUME CostInv, report.at = "done", NEW s, report.filter \in {NoStage, s}
  PROVE  /\ Cost!Bucket(s).spawns = Cardinality(ChargedTo(s))
         /\ Cost!Bucket(s).cost = IF PricedOf(ChargedTo(s)) = {} THEN NoPrice
                                  ELSE Cost!SumOf(PricedOf(ChargedTo(s)))
<1> DEFINE S == {e \in Completed : /\ Cost!StageByRun(Cost!FirstRead, e.run) = s
                                   /\ report.filter # NoStage => s = report.filter}
<1>1. S = ChargedTo(s)
  BY DEF ChargedTo, StageBy
<1>2. Cost!Bucket(s) = Cost!Total(S, LAMBDA price : TRUE)
  BY DEF Cost!Bucket, Completed
<1>3. /\ Cost!Bucket(s).spawns = Cost!Cardinality(S)
      /\ Cost!Bucket(s).cost = IF PricedOf(S) = {} THEN NoPrice ELSE Cost!SumOf(PricedOf(S))
  BY <1>2 DEF Cost!Total, PricedOf
<1> QED
  BY <1>1, <1>3, CostSizes

LEMMA WholeSpawns ==
  ASSUME CostInv, report.at = "done", report.filter = NoStage
  PROVE  /\ Cost!CostReport.spawns = Cardinality(Completed)
         /\ Cost!Buckets = {StageBy[e] : e \in Completed} /\ IsFiniteSet(Cost!Buckets)
<1>0. IsFiniteSet(Completed) /\ \A s : IsFiniteSet(ChargedTo(s))
  BY CompletedOnce, FS_Subset DEF ChargedTo
<1>1. \A s : Cost!Bucket(s).spawns > 0 <=> \E e \in Completed : StageBy[e] = s
  <2> SUFFICES ASSUME NEW s PROVE Cost!Bucket(s).spawns > 0 <=> \E e \in Completed : StageBy[e] = s
    OBVIOUS
  <2>1. Cost!Bucket(s).spawns = Cardinality(ChargedTo(s))
    BY BucketHolds
  <2>2. Cardinality(ChargedTo(s)) \in Nat /\ (Cardinality(ChargedTo(s)) = 0 <=> ChargedTo(s) = {})
    BY <1>0, FS_EmptySet, FS_CardinalityType
  <2>3. ChargedTo(s) # {} <=> \E e \in Completed : StageBy[e] = s
    BY DEF ChargedTo
  <2> QED
    BY <2>1, <2>2, <2>3
<1>2. Cost!Buckets = {StageBy[e] : e \in Completed}
  BY <1>1, CompletedOnce DEF Cost!Buckets
<1>3. IsFiniteSet(Cost!Buckets)
  BY <1>0, <1>2, ImageFinite
<1> DEFINE g == [s \in Cost!Buckets |-> Cost!Bucket(s).spawns]
           ones == [e \in Completed |-> 1]
<1>4. Cost!CostReport.spawns = Sum(g, Cost!Buckets)
  BY DEF Cost!CostReport, Cost!SumFunction, Sum
<1>5. ASSUME NEW s \in Cost!Buckets PROVE g[s] = Sum(ones, With(Completed, StageBy, {s}))
  <2>1. Sum(ones, ChargedTo(s)) = Cardinality(ChargedTo(s))
    BY <1>0, SumOnes DEF ChargedTo
  <2> QED
    BY <2>1, BucketHolds DEF ChargedTo, With
<1>6. \A e \in Completed : ones[e] \in Int
  OBVIOUS
<1> HIDE DEF g, ones
<1>7. Sum(g, Cost!Buckets) = Sum(ones, With(Completed, StageBy, Cost!Buckets))
  BY <1>0, <1>3, <1>5, <1>6, SumByKey
<1>8. With(Completed, StageBy, Cost!Buckets) = Completed
  BY <1>2 DEF With
<1>9. Sum(ones, Completed) = Cardinality(Completed)
  BY <1>0, SumOnes DEF ones
<1> QED
  BY <1>2, <1>3, <1>4, <1>7, <1>8, <1>9

LEMMA WholeCost ==
  ASSUME CostInv, report.at = "done", report.filter = NoStage,
         \A e \in Completed : e.payload \in Nat \cup {NoPrice}
  PROVE  Cost!CostReport.cost = Cost!Totals(Cost!SecondRead).cost
<1> DEFINE priced == {s \in Cost!Buckets : Cost!Bucket(s).cost # NoPrice}
           g == [s \in priced |-> Cost!Bucket(s).cost]
           D == PricedOf(Completed)
<1>1. Cost!CostReport.cost = IF priced = {} THEN NoPrice ELSE Sum(g, priced)
  BY DEF Cost!CostReport, Cost!SumFunction, Sum
<1>2. Cost!Totals(Cost!SecondRead).cost = IF D = {} THEN NoPrice ELSE Cost!SumOf(D)
  <2>1. Cost!Totals(Cost!SecondRead) = Cost!Total(Completed, LAMBDA price : price >= 0)
    BY DEF Cost!Totals, Completed
  <2>2. {e \in Completed : e.payload # NoPrice /\ e.payload >= 0} = D
    BY DEF PricedOf
  <2>3. Cost!Totals(Cost!SecondRead).cost =
          IF {e \in Completed : e.payload # NoPrice /\ e.payload >= 0} = {} THEN NoPrice
          ELSE Cost!SumOf({e \in Completed : e.payload # NoPrice /\ e.payload >= 0})
    BY <2>1 DEF Cost!Total
  <2> QED
    BY <2>2, <2>3
<1>3. \A s : PricedOf(ChargedTo(s)) \subseteq D /\ PricedOf(ChargedTo(s)) = {e \in D : StageBy[e] = s}
  BY DEF PricedOf, ChargedTo
<1>4. \A s : Cost!Bucket(s).cost # NoPrice <=> PricedOf(ChargedTo(s)) # {}
  BY <1>3, BucketHolds, SumOfPrices
<1>5. priced = {StageBy[e] : e \in D}
  BY <1>3, <1>4, WholeSpawns DEF PricedOf
<1>6. IsFiniteSet(priced) /\ IsFiniteSet(D) /\ \A e \in D : PriceOf[e] \in Int
  BY WholeSpawns, CompletedOnce, FS_Subset DEF PricedOf, PriceOf
<1>7. ASSUME NEW s \in priced PROVE g[s] = Sum(PriceOf, With(D, StageBy, {s}))
  <2>1. g[s] = Cost!SumOf(PricedOf(ChargedTo(s)))
    BY <1>4, BucketHolds
  <2>2. Cost!SumOf(PricedOf(ChargedTo(s))) = Sum(PriceOf, PricedOf(ChargedTo(s)))
    BY <1>3, SumOfPrices
  <2> QED
    BY <1>3, <2>1, <2>2 DEF With
<1>8. Cost!SumOf(D) = Sum(PriceOf, D)
  BY SumOfPrices
<1>9. With(D, StageBy, priced) = D /\ (priced = {} <=> D = {})
  BY <1>5 DEF With
<1> HIDE DEF g, priced, D
<1>10. Sum(g, priced) = Sum(PriceOf, With(D, StageBy, priced))
  BY <1>6, <1>7, SumByKey
<1> QED
  BY <1>1, <1>2, <1>8, <1>9, <1>10

LEMMA LateSpawns ==
  ASSUME CostInv, report.at = "done", NEW s \in Billed
  PROVE  LET late == Runs \ {e.run : e \in Cost!ReadByType(Cost!FirstRead, "started")}
         IN  ChargedTo(s) = {e \in Completed : Cost!StageByRun(Cost!SecondRead, e.run) = s /\ e.run \notin late}
<1> DEFINE first == Read(report.first, "started")
           second == Read(report.second, "started")
           late == Runs \ {e.run : e \in first}
<1>1. /\ report.first \in 0..Len(spending) /\ report.second \in 0..Len(spending)
      /\ report.first <= report.second
  BY DEF CostInv, CostReads
<1>2. first \subseteq second
  BY <1>1 DEF Read
<1>3. Cost!ReadByType(Cost!FirstRead, "started") = first
  BY <1>1, CostRows DEF Cost!FirstRead
<1>4. s # NoStage
  BY CostsAssumption DEF Cost!CostsAssumption
<1>5. ASSUME NEW e \in Completed
      PROVE  StageBy[e] = s <=> Cost!StageByRun(Cost!SecondRead, e.run) = s /\ e.run \notin late
  <2>0. StageBy[e] = Cost!StageByRun(Cost!FirstRead, e.run)
    BY DEF StageBy
  <2>1. CASE \E d \in first : d.run = e.run
    <3>1. PICK d \in first : d.run = e.run
      BY <2>1
    <3>2. d \in second /\ e.run \notin late
      BY <1>2, <3>1
    <3>3. CASE d.payload # Unreadable
      <4>1. StageBy[e] = d.payload
        BY <1>1, <2>0, <3>1, <3>3, StageOfRun DEF Cost!FirstRead
      <4>2. Cost!StageByRun(Cost!SecondRead, e.run) = d.payload
        BY <1>1, <3>1, <3>2, <3>3, StageOfRun DEF Cost!SecondRead
      <4> QED
        BY <3>2, <4>1, <4>2
    <3>4. CASE d.payload = Unreadable
      <4>1. /\ {c \in first : c.run = e.run /\ c.payload # Unreadable} = {}
            /\ {c \in second : c.run = e.run /\ c.payload # Unreadable} = {}
        BY <1>1, <3>1, <3>2, <3>4, CostRows
      <4>2. StageBy[e] = NoStage
        BY <1>1, <2>0, <4>1, StageOfRun DEF Cost!FirstRead
      <4>3. Cost!StageByRun(Cost!SecondRead, e.run) = NoStage
        BY <1>1, <4>1, StageOfRun DEF Cost!SecondRead
      <4> QED
        BY <1>4, <4>2, <4>3
    <3> QED
      BY <3>3, <3>4
  <2>2. CASE ~\E d \in first : d.run = e.run
    <3>1. {c \in first : c.run = e.run /\ c.payload # Unreadable} = {}
      BY <2>2
    <3>2. StageBy[e] = NoStage
      BY <1>1, <2>0, <3>1, StageOfRun DEF Cost!FirstRead
    <3>3. e \in CostEvent
      BY <1>1, CompletedOnce, CostRows
    <3>4. e.run \in Runs
      BY <3>3 DEF CostEvent
    <3>5. e.run \in late
      BY <2>2, <3>4
    <3> QED
      BY <1>4, <3>2, <3>5
  <2> QED
    BY <2>1, <2>2
<1> QED
  BY <1>3, <1>5 DEF ChargedTo

LEMMA SpendWhole == CostInv => Cost!SpendIsWhole
<1> SUFFICES ASSUME CostInv, report.at = "done"
             PROVE  /\ report.filter = NoStage =>
                         /\ Cost!CostReport.spawns = Cost!Totals(Cost!SecondRead).spawns
                         /\ (\A e \in Completed : e.payload \in Nat \cup {NoPrice}) =>
                              Cost!CostReport = Cost!Totals(Cost!SecondRead)
                    /\ \A s \in Billed : report.filter \in {NoStage, s} =>
                         LET late == Runs \ {e.run : e \in Cost!ReadByType(Cost!FirstRead, "started")}
                         IN  Cost!Bucket(s).spawns =
                               Cost!Cardinality({e \in Completed : Cost!StageByRun(Cost!SecondRead, e.run) = s
                                                                   /\ e.run \notin late})
  BY DEF Cost!SpendIsWhole, Completed
<1>1. /\ Cost!Totals(Cost!SecondRead).spawns = Cardinality(Completed)
      /\ Cost!Totals(Cost!SecondRead) = [cost |-> Cost!Totals(Cost!SecondRead).cost,
                                         spawns |-> Cost!Totals(Cost!SecondRead).spawns]
  BY CostSizes DEF Cost!Totals, Cost!Total, Completed
<1>2. Cost!CostReport = [cost |-> Cost!CostReport.cost, spawns |-> Cost!CostReport.spawns]
  BY DEF Cost!CostReport
<1>3. report.filter = NoStage => Cost!CostReport.spawns = Cost!Totals(Cost!SecondRead).spawns
  BY <1>1, WholeSpawns
<1>4. report.filter = NoStage /\ (\A e \in Completed : e.payload \in Nat \cup {NoPrice}) =>
        Cost!CostReport = Cost!Totals(Cost!SecondRead)
  BY <1>1, <1>2, <1>3, WholeCost
<1>5. ASSUME NEW s \in Billed, report.filter \in {NoStage, s}
      PROVE  LET late == Runs \ {e.run : e \in Cost!ReadByType(Cost!FirstRead, "started")}
             IN  Cost!Bucket(s).spawns =
                   Cost!Cardinality({e \in Completed : Cost!StageByRun(Cost!SecondRead, e.run) = s
                                                       /\ e.run \notin late})
  <2> DEFINE late == Runs \ {e.run : e \in Cost!ReadByType(Cost!FirstRead, "started")}
             own == {e \in Completed : Cost!StageByRun(Cost!SecondRead, e.run) = s /\ e.run \notin late}
  <2>1. ChargedTo(s) = own
    BY LateSpawns
  <2>2. Cost!Bucket(s).spawns = Cardinality(ChargedTo(s))
    BY <1>5, BucketHolds
  <2> QED
    BY <2>1, <2>2, CostSizes
<1> QED
  BY <1>3, <1>4, <1>5

-----------------------------------------------------------------------------
(* Traces                                                                  *)

LEMMA TraceSizes == \A S : Tr!Cardinality(S) = Cardinality(S)
BY Zenon DEF Tr!Cardinality, Cardinality

LEMMA LeastOf ==
  ASSUME NEW S \in SUBSET Nat, S # {}
  PROVE  \E m \in S : \A x \in S : m <= x
<1>1. IsWellFoundedOn(OpToRel(<, Nat), Nat) /\ \A m, k \in Nat : m < k => <<m, k>> \in OpToRel(<, Nat)
  BY NatLessThanWellFounded DEF OpToRel
<1>2. PICK R : IsWellFoundedOn(R, Nat) /\ \A m, k \in Nat : m < k => <<m, k>> \in R
  BY <1>1
<1>3. PICK m \in S : \A x \in S : ~(<<x, m>> \in R)
  <2>1. S \subseteq Nat /\ S # {} /\ IsWellFoundedOn(R, Nat)
    BY <1>2
  <2> QED
    BY <2>1, WFMin, Zenon
<1>4. ASSUME NEW x \in S PROVE m <= x
  <2>1. m \in Nat /\ x \in Nat /\ ~(<<x, m>> \in R)
    BY <1>3
  <2>2. ~(x < m)
    BY <1>2, <2>1
  <2> QED
    BY <2>1, <2>2
<1> QED
  BY <1>4

LEMMA MinIs ==
  ASSUME NEW S \in SUBSET Int, NEW m \in S, \A x \in S : m <= x
  PROVE  Tr!Min(S) = m
<1> DEFINE c == CHOOSE x \in S : \A y \in S : x <= y
<1>1. c \in S /\ \A y \in S : c <= y
  OBVIOUS
<1>2. c = m
  <2>1. c \in Int /\ m \in Int /\ c <= m /\ m <= c
    BY <1>1
  <2> QED
    BY <2>1
<1> QED
  BY <1>2 DEF Tr!Min

LEMMA MaxIs ==
  ASSUME NEW a \in Int, NEW b \in Int, a <= b
  PROVE  Tr!Max({a, b}) = b
BY DEF Tr!Max

TraceRow == [run : Spawned, type : Tr!Types, at : 0..MaxTime]
TraceLine == [at : 0..MaxTime, decision : Tr!Decisions \cup {"torn"}]

TraceTypes ==
  /\ now \in 0..MaxTime /\ open \in BOOLEAN /\ running \in BOOLEAN /\ excused \in BOOLEAN
  /\ rows \in Seq(TraceRow) /\ lines \in Seq(TraceLine) /\ (open => lines # <<>>)
  /\ sink \in Nat /\ logged \in Nat /\ cuts \in Nat /\ shown \in Nat /\ trBegun \in 0..MaxListings
  /\ \A i \in DOMAIN lines : lines[i].decision = "torn" => lines[i] = Tr!Torn

\* Rows are in the order of time.
TraceTimes ==
  /\ \A i, j \in DOMAIN rows : i <= j => rows[i].at <= rows[j].at
  /\ \A i \in DOMAIN rows : rows[i].at <= now

\* Of the lines that are whole, all but the last of an open file were not cut.
Standing == {i \in DOMAIN lines : lines[i] # Tr!Torn /\ ~(open /\ i = Len(lines))}
TraceLines == logged - cuts + (IF open THEN 1 ELSE 0) <= Cardinality(Standing)

TraceSink ==
  /\ sink <= Len(rows) /\ shown <= Len(rows)
  /\ \A p \in Procs : reader[p].emits => reader[p].at \in {"audits", "write"}
  /\ ~excused => /\ sink = shown
                 /\ \A p \in Procs : reader[p].emits => shown <= reader[p].rows
                 /\ \A p, q \in Procs : reader[p].emits /\ reader[q].emits => p = q

ReadSpans(n) == {Tr!ReasoningSpan(rows[i]) : i \in 1..n}
FailedIn(n) == {<<rows[i].run, 0>> : i \in {j \in 1..n : rows[j].type = "AdapterSpawnFailed"}}
Unread(n) == IF n = 0 THEN Spawned \X {0} ELSE {}   \* of an event log that cannot be read

\* A summary is of an audit entry, or of a run that has rows, and dates from its first.
Dated(summary) ==
  \/ /\ summary.trace \in {"AUD", "AUD-TO"} \X (0..MaxTime)
     /\ Tr!SortInstant(summary) = summary.trace[2]
  \/ \E k \in DOMAIN rows :
       /\ summary.trace = <<rows[k].run, 0>> /\ Tr!SortInstant(summary) = rows[k].at
       /\ \A j \in DOMAIN rows : rows[j].run = rows[k].run => rows[k].at <= rows[j].at

Reading(p) ==
  /\ reader[p].at = "audits" /\ reader[p].spans = ReadSpans(reader[p].rows)
  /\ reader[p].traces = <<>>
  /\ reader[p].failed \subseteq FailedIn(reader[p].rows) \cup Tr!FailedActions \cup Unread(reader[p].rows)
  /\ reader[p].emits \in BOOLEAN /\ (reader[p].emits => reader[p].failed = {})
  /\ reader[p] = [at |-> reader[p].at, emits |-> reader[p].emits, rows |-> reader[p].rows,
                  spans |-> reader[p].spans, traces |-> reader[p].traces, failed |-> reader[p].failed]

Listing(p) ==
  /\ reader[p].at = "listed" /\ reader[p].spans = {} /\ reader[p].emits = FALSE
  /\ reader[p].traces \in Seq(Tr!Summary)
  /\ \A i \in DOMAIN reader[p].traces : Dated(reader[p].traces[i])
  /\ \A i, j \in DOMAIN reader[p].traces :
       i < j => Tr!SortInstant(reader[p].traces[i]) <= Tr!SortInstant(reader[p].traces[j])
  /\ \A t \in reader[p].failed :
       \/ t[1] \in Spawned /\ reader[p].rows = 0
       \/ \E i \in DOMAIN reader[p].traces : reader[p].traces[i].trace = t /\ reader[p].traces[i].status = "error"

Emitting(p) ==
  /\ reader[p].at = "write" /\ reader[p].spans = {} /\ reader[p].emits = TRUE
  /\ reader[p].traces = <<>> /\ reader[p].failed = {}

TraceReader(p) ==
  /\ reader[p].rows \in 0..Len(rows)
  /\ reader[p].failed \subseteq Tr!Trace
  /\ reader[p] = Tr!Idle \/ Reading(p) \/ Listing(p) \/ Emitting(p)

TraceReaders == reader = [p \in Procs |-> reader[p]] /\ \A p \in Procs : TraceReader(p)

TraceInv == TraceTypes /\ TraceTimes /\ TraceLines /\ TraceSink /\ TraceReaders

LEMMA TraceFirst == Tr!Init => TraceInv
<1> SUFFICES ASSUME Tr!Init PROVE TraceInv
  OBVIOUS
<1> USE DEF Tr!Init
<1>1. TraceTypes
  <2>1. MaxTime \in Nat /\ MaxListings \in Nat
    BY TracingAssumption DEF Tr!TracingAssumption
  <2>2. rows \in Seq(TraceRow) /\ lines \in Seq(TraceLine) /\ DOMAIN lines = {}
    OBVIOUS
  <2>3. now \in 0..MaxTime /\ trBegun \in 0..MaxListings
    BY <2>1
  <2> QED
    BY <2>2, <2>3 DEF TraceTypes
<1>2. TraceTimes
  BY DEF TraceTimes
<1>3. TraceLines
  <2>1. Standing = {}
    BY DEF Standing
  <2> QED
    BY <2>1, FS_EmptySet DEF TraceLines
<1>4. \A p \in Procs : reader[p] = Tr!Idle
  OBVIOUS
<1>5. TraceSink
  BY <1>4 DEF TraceSink, Tr!Idle
<1>6. TraceReaders
  BY <1>4 DEF TraceReaders, TraceReader, Tr!Idle
<1> QED
  BY <1>1, <1>2, <1>3, <1>5, <1>6 DEF TraceInv

LEMMA DecisionsStand == ~("torn" \in Tr!Decisions)
BY TracingAssumption DEF Tr!TracingAssumption, Tr!Decisions

\* What is appended to the audit log leaves what had failed before.
LEMMA LineJoins ==
  ASSUME TraceTypes, NEW line \in TraceLine, line.decision = "torn" => line = Tr!Torn,
         lines' = Tr!Joined(line), open' \in BOOLEAN
  PROVE  /\ lines' \in Seq(TraceLine) /\ lines' # <<>>
         /\ \A i \in DOMAIN lines' : lines'[i].decision = "torn" => lines'[i] = Tr!Torn
         /\ Tr!FailedActions \subseteq Tr!FailedActions'
         /\ open => Standing' = Standing
         /\ ~open => Standing' = Standing \cup (IF line = Tr!Torn \/ open' THEN {} ELSE {Len(lines) + 1})
<1>0. lines \in Seq(TraceLine) /\ open \in BOOLEAN /\ Len(lines) \in Nat /\ Tr!Torn \in TraceLine
  <2>1. 0 \in 0..MaxTime
    BY TracingAssumption DEF Tr!TracingAssumption
  <2> QED
    BY <2>1 DEF TraceTypes, Tr!Torn, TraceLine
<1>1. CASE open
  <2>1. lines' = [lines EXCEPT ![Len(lines)] = Tr!Torn] /\ lines # <<>>
    BY <1>1 DEF Tr!Joined, TraceTypes
  <2>2. /\ lines' \in Seq(TraceLine) /\ Len(lines') = Len(lines) /\ DOMAIN lines' = DOMAIN lines
        /\ Len(lines) \in DOMAIN lines /\ lines'[Len(lines)] = Tr!Torn
        /\ \A i \in DOMAIN lines : i # Len(lines) => lines'[i] = lines[i]
    BY <1>0, <2>1
  <2>3. Tr!FailedActions \subseteq Tr!FailedActions'
    BY <1>1, <2>2 DEF Tr!FailedActions
  <2>4. Standing' = Standing
    BY <1>1, <2>2 DEF Standing
  <2>5. \A i \in DOMAIN lines' : lines'[i].decision = "torn" => lines'[i] = Tr!Torn
    BY <2>2 DEF TraceTypes
  <2>6. lines' # <<>>
    BY <2>2
  <2> QED
    BY <1>1, <2>2, <2>3, <2>4, <2>5, <2>6
<1>2. CASE ~open
  <2>1. lines' = Append(lines, line)
    BY <1>2 DEF Tr!Joined
  <2>2. /\ lines' \in Seq(TraceLine) /\ Len(lines') = Len(lines) + 1
        /\ DOMAIN lines = 1..Len(lines) /\ DOMAIN lines' = 1..(Len(lines) + 1)
        /\ lines'[Len(lines) + 1] = line /\ \A i \in 1..Len(lines) : lines'[i] = lines[i]
    BY <1>0, <2>1
  <2>3. Tr!FailedActions \subseteq Tr!FailedActions'
    BY <1>0, <1>2, <2>2 DEF Tr!FailedActions
  <2>4. Standing' = Standing \cup (IF line = Tr!Torn \/ open' THEN {} ELSE {Len(lines) + 1})
    <3>1. Standing = {i \in 1..Len(lines) : lines[i] # Tr!Torn}
      BY <1>2, <2>2 DEF Standing
    <3>2. Standing' = {i \in 1..(Len(lines) + 1) : lines'[i] # Tr!Torn /\ ~(open' /\ i = Len(lines) + 1)}
      BY <2>2 DEF Standing
    <3>3. CASE line = Tr!Torn \/ open'
      <4>1. \A i : i \in Standing' <=> i \in Standing
        BY <1>0, <2>2, <3>1, <3>2, <3>3
      <4> QED
        BY <3>3, <4>1
    <3>4. CASE ~(line = Tr!Torn \/ open')
      <4>1. \A i : i \in Standing' <=> i \in Standing \/ i = Len(lines) + 1
        BY <1>0, <2>2, <3>1, <3>2, <3>4
      <4> QED
        BY <3>4, <4>1
    <3> QED
      BY <3>3, <3>4
  <2>5. \A i \in DOMAIN lines' : lines'[i].decision = "torn" => lines'[i] = Tr!Torn
    BY <1>0, <2>2 DEF TraceTypes
  <2>6. lines' # <<>>
    BY <1>0, <2>2
  <2> QED
    BY <1>2, <2>2, <2>3, <2>4, <2>5, <2>6
<1> QED
  BY <1>0, <1>1, <1>2

LEMMA StandingIsFinite ==
  ASSUME TraceTypes
  PROVE  IsFiniteSet(Standing) /\ Cardinality(Standing) \in Nat /\ Standing \subseteq 1..Len(lines)
<1>1. lines \in Seq(TraceLine) /\ Len(lines) \in Nat
  BY DEF TraceTypes
<1>2. Standing \subseteq 1..Len(lines) /\ IsFiniteSet(1..Len(lines))
  <2>1. DOMAIN lines = 1..Len(lines) /\ 1 \in Int /\ Len(lines) \in Int
    BY <1>1
  <2> QED
    BY <2>1, FS_Interval DEF Standing
<1> QED
  BY <1>2, FS_Subset, FS_CardinalityType

LEMMA LineLogged ==
  ASSUME TraceTypes, TraceLines, NEW decision \in Tr!Decisions, Tr!Log(decision)
  PROVE  /\ lines' \in Seq(TraceLine) /\ open' = FALSE /\ logged' \in Nat /\ cuts' \in Nat
         /\ \A i \in DOMAIN lines' : lines'[i].decision = "torn" => lines'[i] = Tr!Torn
         /\ Tr!FailedActions \subseteq Tr!FailedActions'
         /\ TraceLines'
<1> DEFINE line == [at |-> now, decision |-> decision]
<1>0. line \in TraceLine /\ line.decision # "torn" /\ line # Tr!Torn
  BY DecisionsStand DEF TraceTypes, TraceLine, Tr!Torn
<1>1. lines' = Tr!Joined(line) /\ open' = FALSE /\ logged' = logged + 1 /\ cuts' = cuts
  BY DEF Tr!Log
<1>2. /\ lines' \in Seq(TraceLine)
      /\ \A i \in DOMAIN lines' : lines'[i].decision = "torn" => lines'[i] = Tr!Torn
      /\ Tr!FailedActions \subseteq Tr!FailedActions'
      /\ open => Standing' = Standing
      /\ ~open => Standing' = Standing \cup {Len(lines) + 1}
  <2> HIDE DEF line
  <2> QED
    BY <1>0, <1>1, LineJoins
<1>3. logged \in Nat /\ cuts \in Nat /\ Len(lines) \in Nat /\ open \in BOOLEAN
  BY DEF TraceTypes
<1>4. ~open => Cardinality(Standing') = Cardinality(Standing) + 1
  <2>1. Len(lines) + 1 \notin Standing
    BY <1>3, StandingIsFinite
  <2> QED
    BY <1>2, <2>1, StandingIsFinite, FS_AddElement
<1>5. TraceLines'
  BY <1>1, <1>2, <1>3, <1>4, StandingIsFinite DEF TraceLines
<1> QED
  BY <1>1, <1>2, <1>3, <1>5

LEMMA LineCut ==
  ASSUME TraceTypes, TraceLines, NEW decision \in Tr!Decisions, Tr!LogCut(decision)
  PROVE  /\ lines' \in Seq(TraceLine) /\ lines' # <<>> /\ open' = TRUE /\ cuts' \in Nat
         /\ \A i \in DOMAIN lines' : lines'[i].decision = "torn" => lines'[i] = Tr!Torn
         /\ Tr!FailedActions \subseteq Tr!FailedActions'
         /\ TraceLines'
<1>1. PICK left \in {Tr!Torn, [at |-> now, decision |-> decision]} : lines' = Tr!Joined(left)
  BY DEF Tr!LogCut
<1>2. open' = TRUE /\ cuts' = cuts + 1 /\ logged' = logged
  BY DEF Tr!LogCut
<1>3. left \in TraceLine /\ (left.decision = "torn" => left = Tr!Torn)
  <2>1. 0 \in 0..MaxTime
    BY TracingAssumption DEF Tr!TracingAssumption
  <2> QED
    BY <2>1, DecisionsStand DEF TraceTypes, TraceLine, Tr!Torn
<1>4. /\ lines' \in Seq(TraceLine) /\ lines' # <<>>
      /\ \A i \in DOMAIN lines' : lines'[i].decision = "torn" => lines'[i] = Tr!Torn
      /\ Tr!FailedActions \subseteq Tr!FailedActions'
      /\ Standing' = Standing
  BY <1>1, <1>2, <1>3, LineJoins
<1>5. logged \in Nat /\ cuts \in Nat /\ open \in BOOLEAN
  BY DEF TraceTypes
<1>6. TraceLines'
  BY <1>2, <1>4, <1>5, StandingIsFinite DEF TraceLines
<1> QED
  BY <1>2, <1>4, <1>5, <1>6

\* The sources grow, and what was read of them stays true.
LEMMA ReadersStay ==
  ASSUME TraceTypes, TraceTimes, TraceReaders, reader' = reader,
         rows' = rows \/ \E row \in TraceRow : row.at = now /\ rows' = Append(rows, row),
         Tr!FailedActions \subseteq Tr!FailedActions'
  PROVE  TraceReaders'
<1>1. /\ Len(rows) \in Nat /\ Len(rows') \in Nat /\ Len(rows) <= Len(rows')
      /\ DOMAIN rows = 1..Len(rows) /\ DOMAIN rows' = 1..Len(rows')
      /\ \A i \in 1..Len(rows) : rows'[i] = rows[i]
      /\ \A i \in DOMAIN rows' : i \notin DOMAIN rows => rows'[i].at = now
  <2>1. rows \in Seq(TraceRow)
    BY DEF TraceTypes
  <2>2. CASE rows' = rows
    BY <2>1, <2>2
  <2>3. CASE \E row \in TraceRow : row.at = now /\ rows' = Append(rows, row)
    <3>1. PICK row \in TraceRow : row.at = now /\ rows' = Append(rows, row)
      BY <2>3
    <3> QED
      BY <2>1, <3>1
  <2> QED
    BY <2>2, <2>3
<1>0. /\ \A n \in 0..Len(rows) : n \in 0..Len(rows') /\ \A i \in 1..n : i \in 1..Len(rows)
      /\ \A i \in 1..Len(rows) : i \in 1..Len(rows')
  <2>1. \A l, k \in Nat : l <= k =>
          /\ \A n \in 0..l : n \in 0..k /\ \A i \in 1..n : i \in 1..l
          /\ \A i \in 1..l : i \in 1..k
    OBVIOUS
  <2> QED
    BY <1>1, <2>1
<1>2. ASSUME NEW n \in 0..Len(rows)
      PROVE  n \in 0..Len(rows') /\ ReadSpans(n)' = ReadSpans(n) /\ FailedIn(n)' = FailedIn(n)
  <2>1. n \in 0..Len(rows') /\ \A i \in 1..n : rows'[i] = rows[i]
    BY <1>0, <1>1
  <2>2. ReadSpans(n)' = ReadSpans(n)
    BY <2>1 DEF ReadSpans
  <2>3. FailedIn(n)' = FailedIn(n)
    BY <2>1 DEF FailedIn
  <2> QED
    BY <2>1, <2>2, <2>3
<1>3. ASSUME NEW summary, Dated(summary) PROVE Dated(summary)'
  <2>1. CASE \E k \in DOMAIN rows :
               /\ summary.trace = <<rows[k].run, 0>> /\ Tr!SortInstant(summary) = rows[k].at
               /\ \A j \in DOMAIN rows : rows[j].run = rows[k].run => rows[k].at <= rows[j].at
    <3>1. PICK k \in DOMAIN rows :
               /\ summary.trace = <<rows[k].run, 0>> /\ Tr!SortInstant(summary) = rows[k].at
               /\ \A j \in DOMAIN rows : rows[j].run = rows[k].run => rows[k].at <= rows[j].at
      BY <2>1
    <3>2. rows'[k] = rows[k] /\ k \in DOMAIN rows' /\ rows[k].at <= now
      <4>1. k \in 1..Len(rows) /\ k \in 1..Len(rows')
        BY <1>0, <1>1
      <4> QED
        BY <1>1, <4>1 DEF TraceTimes
    <3>3. \A j \in DOMAIN rows' : rows'[j].run = rows'[k].run => rows'[k].at <= rows'[j].at
      BY <1>1, <3>1, <3>2
    <3> QED
      BY <3>1, <3>2, <3>3 DEF Dated
  <2>2. CASE /\ summary.trace \in {"AUD", "AUD-TO"} \X (0..MaxTime)
             /\ Tr!SortInstant(summary) = summary.trace[2]
    BY <2>2 DEF Dated
  <2> QED
    BY <1>3, <2>1, <2>2 DEF Dated
<1>4. ASSUME NEW p \in Procs PROVE TraceReader(p)'
  <2>0. TraceReader(p) /\ reader'[p] = reader[p] /\ reader[p].rows \in 0..Len(rows)
    BY DEF TraceReaders, TraceReader
  <2>1. CASE reader[p] = Tr!Idle
    BY <1>2, <2>0, <2>1 DEF TraceReader
  <2>2. CASE Reading(p)
    <3>1. Reading(p)'
      <4>1. /\ ReadSpans(reader[p].rows)' = ReadSpans(reader[p].rows)
            /\ FailedIn(reader[p].rows)' = FailedIn(reader[p].rows)
        <5>1. PICK n \in 0..Len(rows) : n = reader[p].rows
          BY <2>0
        <5>2. ReadSpans(n)' = ReadSpans(n) /\ FailedIn(n)' = FailedIn(n)
          BY <1>2
        <5>3. reader'[p].rows = n
          BY <2>0, <5>1
        <5> QED
          BY <5>1, <5>2, <5>3 DEF ReadSpans, FailedIn
      <4> QED
        BY <2>0, <2>2, <4>1 DEF Reading
    <3> QED
      BY <1>2, <2>0, <3>1 DEF TraceReader
  <2>3. CASE Listing(p)
    <3>1. Listing(p)'
      <4>1. \A i \in DOMAIN reader[p].traces : Dated(reader[p].traces[i])'
        <5> SUFFICES ASSUME NEW i \in DOMAIN reader[p].traces PROVE Dated(reader[p].traces[i])'
          OBVIOUS
        <5>1. PICK summary : summary = reader[p].traces[i]
          OBVIOUS
        <5>2. Dated(summary)'
          BY <1>3, <2>3, <5>1 DEF Listing
        <5>3. reader'[p].traces[i] = summary
          BY <2>0, <5>1
        <5> QED
          BY <5>2, <5>3 DEF Dated
      <4> QED
        BY <2>0, <2>3, <4>1 DEF Listing
    <3> QED
      BY <1>2, <2>0, <3>1 DEF TraceReader
  <2>4. CASE Emitting(p)
    <3>1. Emitting(p)'
      BY <2>0, <2>4 DEF Emitting
    <3> QED
      BY <1>2, <2>0, <3>1 DEF TraceReader
  <2> QED
    BY <2>0, <2>1, <2>2, <2>3, <2>4 DEF TraceReader
<1> QED
  BY <1>4 DEF TraceReaders

LEMMA SpansAre ==
  ASSUME TraceTypes, NEW n \in 0..Len(rows)
  PROVE  /\ ReadSpans(n) \subseteq Tr!Span /\ Tr!AuditSpans \subseteq Tr!Span
         /\ \A s \in ReadSpans(n) : s.kind = "reasoning" /\ s.trace[1] \in Spawned
         /\ \A s \in Tr!AuditSpans : s.kind = "audit" /\ s.trace \in {"AUD", "AUD-TO"} \X (0..MaxTime)
                                     /\ s.start = s.trace[2] + Offset
<1>0. rows \in Seq(TraceRow) /\ lines \in Seq(TraceLine) /\ MaxTime \in Nat /\ Offset \in Int
  BY TracingAssumption DEF TraceTypes, Tr!TracingAssumption
<1>1. ASSUME NEW i \in 1..n
      PROVE  LET s == Tr!ReasoningSpan(rows[i])
             IN  s \in Tr!Span /\ s.kind = "reasoning" /\ s.trace[1] \in Spawned
  <2>1. rows[i] \in TraceRow
    BY <1>0
  <2> QED
    BY <1>0, <2>1 DEF TraceRow, Tr!ReasoningSpan, Tr!ReasoningStatus, Tr!Span, Tr!Statuses, Tr!Trace
<1>2. ASSUME NEW i \in DOMAIN lines, lines[i] # Tr!Torn
      PROVE  LET s == Tr!AuditSpan(lines[i])
             IN  /\ s \in Tr!Span /\ s.kind = "audit" /\ s.trace \in {"AUD", "AUD-TO"} \X (0..MaxTime)
                 /\ s.start = s.trace[2] + Offset
  <2>1. lines[i] \in TraceLine
    BY <1>0
  <2>2. Tr!AuditId(lines[i]) \in {"AUD", "AUD-TO"} \X (0..MaxTime) /\ Tr!AuditId(lines[i])[2] = lines[i].at
    BY <2>1 DEF TraceLine, Tr!AuditId
  <2>3. lines[i].at + Offset \in Int /\ Tr!AuditStatus(lines[i].decision) \in Tr!Statuses
    BY <1>0, <2>1 DEF TraceLine, Tr!AuditStatus, Tr!Statuses
  <2> QED
    BY <2>2, <2>3 DEF Tr!AuditSpan, Tr!Span, Tr!Trace
<1> QED
  BY <1>1, <1>2 DEF ReadSpans, Tr!AuditSpans, Tr!Intact

\* The summary of a trace, from its spans, of which the first dates from m.
Dates(spans, span, m) ==
  /\ spans \subseteq Tr!Span /\ span \in spans /\ m \in Int
  /\ \E s \in Tr!SpansFor(spans, span.trace) : s.start = m
  /\ \A s \in Tr!SpansFor(spans, span.trace) : m <= s.start
SumsUp(spans, span, m, summary) ==
  /\ summary \in Tr!Summary /\ summary.trace = span.trace /\ summary.start = m
  /\ \A kind : kind \in summary.kinds <=> \E s \in Tr!SpansFor(spans, span.trace) : s.kind = kind
  /\ span.status = "error" => summary.status = "error"

LEMMA SummaryFrom ==
  ASSUME NEW spans, NEW span, NEW m, Dates(spans, span, m)
  PROVE  SumsUp(spans, span, m, Tr!Summarize(spans, span.trace))
<1>0. PICK own : own = Tr!SpansFor(spans, span.trace)
  OBVIOUS
<1>a. PICK summary : summary = Tr!Summarize(spans, span.trace)
  OBVIOUS
<1>1. summary = [trace |-> span.trace, kinds |-> {s.kind : s \in own}, start |-> Tr!Min({s.start : s \in own}),
                 status |-> Tr!RollupStatus({s.status : s \in own})]
  BY <1>0, <1>a DEF Tr!Summarize
<1>2. /\ own \subseteq Tr!Span /\ span \in own /\ span \in Tr!Span
      /\ m \in Int /\ (\E s \in own : s.start = m) /\ \A s \in own : m <= s.start
  BY <1>0 DEF Tr!SpansFor, Dates
<1>3. Tr!Min({s.start : s \in own}) = m
  <2>1. {s.start : s \in own} \subseteq Int /\ m \in {s.start : s \in own}
    BY <1>2 DEF Tr!Span
  <2>2. \A x \in {s.start : s \in own} : m <= x
    BY <1>2
  <2> QED
    BY <2>1, <2>2, MinIs
<1>4. {s.kind : s \in own} \subseteq {"reasoning", "audit"} /\ span.trace \in Tr!Trace
  BY <1>2 DEF Tr!Span
<1>5. /\ Tr!RollupStatus({s.status : s \in own}) \in Tr!Statuses
      /\ span.status = "error" => Tr!RollupStatus({s.status : s \in own}) = "error"
  BY <1>2 DEF Tr!RollupStatus, Tr!Statuses
<1>6. /\ summary \in Tr!Summary /\ summary.trace = span.trace /\ summary.start = m
      /\ span.status = "error" => summary.status = "error"
  BY <1>1, <1>2, <1>3, <1>4, <1>5 DEF Tr!Summary
<1>7. \A kind : kind \in summary.kinds <=> \E s \in own : s.kind = kind
  BY <1>1
<1> QED
  BY <1>0, <1>a, <1>6, <1>7 DEF SumsUp

LEMMA AuditSummary ==
  ASSUME TraceTypes, NEW n \in 0..Len(rows), NEW span \in Tr!AuditSpans, NEW summary,
         summary = Tr!Summarize(ReadSpans(n) \cup Tr!AuditSpans, span.trace)
  PROVE  /\ summary \in Tr!Summary /\ summary.trace = span.trace /\ Dated(summary)
         /\ span.status = "error" => summary.status = "error"
<1>1. PICK spans \in SUBSET Tr!Span : spans = ReadSpans(n) \cup Tr!AuditSpans
  BY SpansAre
<1>2. PICK own : own = Tr!SpansFor(spans, span.trace)
  OBVIOUS
<1>3. span \in own /\ own \subseteq spans /\ \A s \in own : s.trace = span.trace
  BY <1>1, <1>2 DEF Tr!SpansFor
<1>4. /\ span.trace \in {"AUD", "AUD-TO"} \X (0..MaxTime) /\ span.start = span.trace[2] + Offset
      /\ span.trace[1] \in {"AUD", "AUD-TO"} /\ span.trace[2] \in 0..MaxTime
  BY SpansAre
<1>5. ASSUME NEW s \in own PROVE s.kind = "audit" /\ s.start = span.start
  <2>1. s \in ReadSpans(n) \cup Tr!AuditSpans /\ s.trace = span.trace
    BY <1>1, <1>3
  <2>2. s \notin ReadSpans(n)
    BY <1>4, <2>1, SpansAre, TracingAssumption DEF Tr!TracingAssumption
  <2>3. s \in Tr!AuditSpans
    BY <2>1, <2>2
  <2> QED
    BY <1>4, <2>1, <2>3, SpansAre
<1>6. Offset \in Int /\ span.start \in Int /\ span.start - Offset = span.trace[2]
  <2>1. Offset \in Int /\ span.trace[2] \in Int
    BY <1>4, TracingAssumption DEF Tr!TracingAssumption
  <2> QED
    BY <1>4, <2>1
<1>7. span \in spans /\ (\E s \in own : s.start = span.start) /\ \A s \in own : span.start <= s.start
  BY <1>1, <1>3, <1>5, <1>6
<1>8. /\ summary \in Tr!Summary /\ summary.trace = span.trace /\ summary.start = span.start
      /\ (\A kind : kind \in summary.kinds <=> \E s \in own : s.kind = kind) /\ (span.status = "error" => summary.status = "error")
  <2>1. Dates(spans, span, span.start)
    BY <1>1, <1>2, <1>6, <1>7 DEF Dates
  <2>2. SumsUp(spans, span, span.start, summary)
    BY <1>1, <2>1, SummaryFrom, Zenon
  <2> QED
    BY <1>2, <2>2 DEF SumsUp
<1>9. "audit" \in summary.kinds
  BY <1>3, <1>5, <1>8
<1>10. Tr!SortInstant(summary) = span.trace[2]
  BY <1>6, <1>8, <1>9 DEF Tr!SortInstant
<1> QED
  BY <1>4, <1>8, <1>10 DEF Dated

LEMMA RunSummary ==
  ASSUME TraceTypes, TraceTimes, NEW n \in 0..Len(rows), NEW span \in ReadSpans(n), NEW summary,
         summary = Tr!Summarize(ReadSpans(n) \cup Tr!AuditSpans, span.trace)
  PROVE  /\ summary \in Tr!Summary /\ summary.trace = span.trace /\ Dated(summary)
         /\ span.status = "error" => summary.status = "error"
<1>1. PICK spans \in SUBSET Tr!Span : spans = ReadSpans(n) \cup Tr!AuditSpans
  BY SpansAre
<1>2. PICK own : own = Tr!SpansFor(spans, span.trace)
  OBVIOUS
<1>3. PICK j \in 1..n : span = Tr!ReasoningSpan(rows[j])
  BY DEF ReadSpans
<1>4. /\ rows \in Seq(TraceRow) /\ Len(rows) \in Nat /\ n \in Nat /\ DOMAIN rows = 1..Len(rows)
      /\ \A i \in 1..n : i \in Nat /\ i \in DOMAIN rows /\ rows[i] \in TraceRow
  BY DEF TraceTypes
<1>5. span.trace = <<rows[j].run, 0>> /\ rows[j].run \in Spawned
  BY <1>3, <1>4 DEF Tr!ReasoningSpan, TraceRow
<1>6. PICK K \in SUBSET Nat : K = {i \in 1..n : rows[i].run = rows[j].run} /\ j \in K
  BY <1>4
<1>7. PICK k \in K : \A i \in K : k <= i
  BY <1>6, LeastOf
<1>8. k \in 1..n /\ k \in DOMAIN rows /\ rows[k].run = rows[j].run /\ rows[k].at \in 0..MaxTime
  BY <1>4, <1>6, <1>7 DEF TraceRow
<1>9. \A i \in DOMAIN rows : rows[i].run = rows[j].run => rows[k].at <= rows[i].at
  <2> SUFFICES ASSUME NEW i \in DOMAIN rows, rows[i].run = rows[j].run PROVE k <= i
    BY <1>8 DEF TraceTimes
  <2>1. CASE i \in 1..n
    BY <1>6, <1>7, <2>1
  <2>2. CASE i \notin 1..n
    BY <1>4, <1>8, <2>2
  <2> QED
    BY <2>1, <2>2
<1>10. ASSUME NEW s \in own PROVE s.kind = "reasoning" /\ rows[k].at <= s.start
  <2>1. s \in ReadSpans(n) \cup Tr!AuditSpans /\ s.trace = span.trace
    BY <1>1, <1>2 DEF Tr!SpansFor
  <2>2. s \notin Tr!AuditSpans
    <3>1. s.trace[1] \in Spawned
      BY <1>5, <2>1
    <3> QED
      BY <3>1, SpansAre, TracingAssumption DEF Tr!TracingAssumption
  <2>3. PICK i \in 1..n : s = Tr!ReasoningSpan(rows[i])
    BY <2>1, <2>2 DEF ReadSpans
  <2>4. s.trace = <<rows[i].run, 0>> /\ s.start = rows[i].at /\ s.kind = "reasoning"
    BY <2>3 DEF Tr!ReasoningSpan
  <2>5. rows[i].run = rows[j].run
    BY <1>5, <2>1, <2>4
  <2> QED
    BY <1>4, <1>9, <2>4, <2>5
<1>11. (\E s \in own : s.start = rows[k].at) /\ rows[k].at \in Int
  <2>1. Tr!ReasoningSpan(rows[k]) \in spans
    BY <1>1, <1>8 DEF ReadSpans
  <2>2. Tr!ReasoningSpan(rows[k]).trace = span.trace /\ Tr!ReasoningSpan(rows[k]).start = rows[k].at
    BY <1>5, <1>8 DEF Tr!ReasoningSpan
  <2> QED
    BY <1>2, <1>8, <2>1, <2>2 DEF Tr!SpansFor
<1>12. span \in spans /\ spans \in SUBSET Tr!Span
  BY <1>1
<1>13. /\ summary \in Tr!Summary /\ summary.trace = span.trace /\ summary.start = rows[k].at
       /\ (\A kind : kind \in summary.kinds <=> \E s \in own : s.kind = kind) /\ (span.status = "error" => summary.status = "error")
  <2>1. Dates(spans, span, rows[k].at)
    BY <1>1, <1>2, <1>10, <1>11, <1>12 DEF Dates
  <2>2. SumsUp(spans, span, rows[k].at, summary)
    BY <1>1, <2>1, SummaryFrom, Zenon
  <2> QED
    BY <1>2, <2>2 DEF SumsUp
<1>14. "audit" \notin summary.kinds
  BY <1>10, <1>13
<1>15. Tr!SortInstant(summary) = rows[k].at
  BY <1>13, <1>14 DEF Tr!SortInstant
<1>16. Dated(summary)
  <2>1. summary.trace = <<rows[k].run, 0>>
    BY <1>5, <1>8, <1>13
  <2> QED
    BY <1>8, <1>9, <1>15, <2>1 DEF Dated
<1> QED
  BY <1>13, <1>16

\* What had failed when the event log was read is among the spans.
LEMMA FailedIsSpan ==
  ASSUME TraceTypes, NEW n \in 0..Len(rows), NEW t \in FailedIn(n) \cup Tr!FailedActions
  PROVE  \E span \in ReadSpans(n) \cup Tr!AuditSpans : span.trace = t /\ span.status = "error"
<1>1. CASE t \in FailedIn(n)
  <2>1. PICK i \in 1..n : rows[i].type = "AdapterSpawnFailed" /\ t = <<rows[i].run, 0>>
    BY <1>1 DEF FailedIn
  <2>2. Tr!ReasoningSpan(rows[i]).trace = t /\ Tr!ReasoningSpan(rows[i]).status = "error"
    BY <2>1 DEF Tr!ReasoningSpan, Tr!ReasoningStatus
  <2> QED
    BY <2>2 DEF ReadSpans
<1>2. CASE t \in Tr!FailedActions
  <2>1. PICK i \in DOMAIN lines : lines[i].decision \in {"denied", "failed"} /\ t = Tr!AuditId(lines[i])
    BY <1>2 DEF Tr!FailedActions
  <2>2. Tr!AuditSpan(lines[i]).trace = t /\ Tr!AuditSpan(lines[i]).status = "error"
    BY <2>1 DEF Tr!AuditSpan, Tr!AuditStatus
  <2>3. i \in Tr!Intact
    BY <2>1 DEF Tr!Intact, Tr!Torn
  <2> QED
    BY <2>2, <2>3 DEF Tr!AuditSpans
<1> QED
  BY <1>1, <1>2

\* The traces of what has been read, listed in the order of time.
LEMMA ListingIs ==
  ASSUME TraceTypes, TraceTimes, NEW n \in 0..Len(rows), NEW list \in Tr!ListTraces(ReadSpans(n) \cup Tr!AuditSpans)
  PROVE  /\ list \in Seq(Tr!Summary) /\ \A i \in DOMAIN list : Dated(list[i])
         /\ \A i, j \in DOMAIN list : i < j => Tr!SortInstant(list[i]) <= Tr!SortInstant(list[j])
         /\ \A t \in FailedIn(n) \cup Tr!FailedActions :
              \E i \in DOMAIN list : list[i].trace = t /\ list[i].status = "error"
<1>1. PICK summaries : summaries = {Tr!Summarize(ReadSpans(n) \cup Tr!AuditSpans, s.trace) : s \in ReadSpans(n) \cup Tr!AuditSpans}
  OBVIOUS
<1>2. /\ list \in [1..Tr!Cardinality(summaries) -> summaries]
      /\ \A summary \in summaries : \E i \in DOMAIN list : list[i] = summary
      /\ \A i, j \in DOMAIN list : i < j => Tr!SortInstant(list[i]) <= Tr!SortInstant(list[j])
  BY <1>1 DEF Tr!ListTraces
<1>3. ASSUME NEW span \in ReadSpans(n) \cup Tr!AuditSpans, NEW summary,
             summary = Tr!Summarize(ReadSpans(n) \cup Tr!AuditSpans, span.trace)
      PROVE  /\ summary \in Tr!Summary /\ summary.trace = span.trace /\ Dated(summary)
             /\ span.status = "error" => summary.status = "error"
  <2>1. CASE span \in Tr!AuditSpans
    BY <1>3, <2>1, AuditSummary
  <2>2. CASE span \in ReadSpans(n)
    BY <1>3, <2>2, RunSummary
  <2> QED
    BY <2>1, <2>2
<1>4. \A summary \in summaries : summary \in Tr!Summary /\ Dated(summary)
  BY <1>1, <1>3
<1>5. Tr!Cardinality(summaries) \in Nat
  <2>1. /\ rows \in Seq(TraceRow) /\ lines \in Seq(TraceLine) /\ Len(rows) \in Nat /\ Len(lines) \in Nat
        /\ n \in Nat /\ DOMAIN lines = 1..Len(lines)
    BY DEF TraceTypes
  <2>2. IsFiniteSet(ReadSpans(n))
    <3>1. IsFiniteSet(1..n)
      BY <2>1, FS_Interval
    <3>2. PICK f : f = [i \in 1..n |-> Tr!ReasoningSpan(rows[i])]
      OBVIOUS
    <3>3. ReadSpans(n) = {f[i] : i \in 1..n}
      BY <3>2 DEF ReadSpans
    <3> QED
      BY <3>1, <3>3, ImageFinite
  <2>3. IsFiniteSet(Tr!AuditSpans)
    <3>1. IsFiniteSet(1..Len(lines)) /\ Tr!Intact \subseteq 1..Len(lines)
      BY <2>1, FS_Interval DEF Tr!Intact
    <3>2. IsFiniteSet(Tr!Intact)
      BY <3>1, FS_Subset
    <3>3. PICK f : f = [i \in Tr!Intact |-> Tr!AuditSpan(lines[i])]
      OBVIOUS
    <3>4. Tr!AuditSpans = {f[i] : i \in Tr!Intact}
      BY <3>3 DEF Tr!AuditSpans
    <3> QED
      BY <3>2, <3>4, ImageFinite
  <2>4. IsFiniteSet(ReadSpans(n) \cup Tr!AuditSpans)
    BY <2>2, <2>3, FS_Union
  <2>5. IsFiniteSet(summaries)
    <3>1. PICK spans : spans = ReadSpans(n) \cup Tr!AuditSpans
      OBVIOUS
    <3>2. PICK f : f = [s \in spans |-> Tr!Summarize(spans, s.trace)]
      OBVIOUS
    <3>3. summaries = {f[s] : s \in spans}
      BY <1>1, <3>1, <3>2
    <3> QED
      BY <2>4, <3>1, <3>3, ImageFinite
  <2> QED
    BY <2>5, FS_CardinalityType, TraceSizes
<1>6. list \in Seq(Tr!Summary) /\ \A i \in DOMAIN list : list[i] \in summaries
  BY <1>2, <1>4, <1>5
<1>7. ASSUME NEW t \in FailedIn(n) \cup Tr!FailedActions
      PROVE  \E i \in DOMAIN list : list[i].trace = t /\ list[i].status = "error"
  <2>1. PICK span \in ReadSpans(n) \cup Tr!AuditSpans : span.trace = t /\ span.status = "error"
    BY <1>7, FailedIsSpan
  <2>2. PICK summary : summary = Tr!Summarize(ReadSpans(n) \cup Tr!AuditSpans, span.trace)
    OBVIOUS
  <2>3. summary \in summaries
    BY <1>1, <2>1, <2>2
  <2>4. summary.trace = t /\ summary.status = "error"
    BY <1>3, <2>1, <2>2
  <2> QED
    BY <1>2, <2>3, <2>4
<1> QED
  BY <1>2, <1>4, <1>6, <1>7

\* A command moves on: the sources stay.
LEMMA ReaderMoves ==
  ASSUME TraceReaders, NEW p \in Procs, NEW r, reader' = [reader EXCEPT ![p] = r],
         UNCHANGED <<rows, lines, open>>, TraceReader(p)'
  PROVE  TraceReaders'
<1>1. ASSUME NEW q \in Procs, q # p PROVE TraceReader(q)'
  <2>1. reader'[q] = reader[q] /\ TraceReader(q)
    BY <1>1 DEF TraceReaders
  <2>2. Tr!FailedActions' = Tr!FailedActions
    BY DEF Tr!FailedActions
  <2>3. FailedIn(reader[q].rows)' = FailedIn(reader[q].rows) /\ ReadSpans(reader[q].rows)' = ReadSpans(reader[q].rows)
    BY <2>1 DEF FailedIn, ReadSpans
  <2>4. Listing(q) => Listing(q)'
    BY <2>1 DEF Listing, Dated
  <2>5. Reading(q) => Reading(q)'
    BY <2>1, <2>2, <2>3 DEF Reading
  <2>6. Emitting(q) => Emitting(q)'
    BY <2>1 DEF Emitting
  <2> QED
    BY <2>1, <2>4, <2>5, <2>6 DEF TraceReader
<1> QED
  BY <1>1 DEF TraceReaders

LEMMA FailuresAreTraces == TraceTypes => Tr!FailedActions \subseteq Tr!Trace
<1> SUFFICES ASSUME TraceTypes, NEW i \in DOMAIN lines PROVE Tr!AuditId(lines[i]) \in Tr!Trace
  BY DEF Tr!FailedActions
<1>1. lines[i] \in TraceLine
  BY DEF TraceTypes
<1> QED
  BY <1>1 DEF TraceLine, Tr!AuditId, Tr!Trace

LEMMA TraceNext == TraceInv /\ (Tr!Next \/ UNCHANGED trVars) => TraceInv'
<1> SUFFICES ASSUME TraceInv, Tr!Next \/ UNCHANGED trVars PROVE TraceInv'
  OBVIOUS
<1> USE DEF TraceInv
<1>0. /\ MaxTime \in Nat /\ MaxListings \in Nat /\ 0 \in 0..MaxTime
      /\ rows \in Seq(TraceRow) /\ Len(rows) \in Nat /\ DOMAIN rows = 1..Len(rows)
  BY TracingAssumption DEF Tr!TracingAssumption, TraceTypes
<1>1. CASE Tr!Tick
  <2> USE <1>1 DEF Tr!Tick
  <2>1. TraceTypes'
    <3>1. now' \in 0..MaxTime
      BY <1>0 DEF TraceTypes
    <3> QED
      BY <3>1 DEF TraceTypes
  <2>2. TraceTimes'
    <3>1. now \in Nat /\ \A i \in DOMAIN rows : rows[i].at \in Nat
      <4>1. now \in 0..MaxTime /\ \A i \in DOMAIN rows : rows[i] \in TraceRow
        BY <1>0 DEF TraceTypes
      <4> QED
        BY <1>0, <4>1 DEF TraceRow
    <3>2. \A i \in DOMAIN rows : rows[i].at <= now'
      BY <3>1 DEF TraceTimes
    <3> QED
      BY <3>2 DEF TraceTimes
  <2>3. TraceLines'
    BY DEF TraceLines, Standing
  <2>4. TraceSink'
    BY DEF TraceSink
  <2>5. TraceReaders'
    BY ReadersStay DEF Tr!FailedActions
  <2> QED
    BY <2>1, <2>2, <2>3, <2>4, <2>5
<1>2. ASSUME NEW decision \in Tr!Decisions, Tr!Log(decision), running' \in BOOLEAN,
             UNCHANGED <<now, rows, reader, sink, shown, trBegun, excused>>
      PROVE  TraceInv'
  <2>1. /\ lines' \in Seq(TraceLine) /\ open' = FALSE /\ logged' \in Nat /\ cuts' \in Nat
        /\ \A i \in DOMAIN lines' : lines'[i].decision = "torn" => lines'[i] = Tr!Torn
        /\ Tr!FailedActions \subseteq Tr!FailedActions' /\ TraceLines'
    BY <1>2, LineLogged
  <2>2. TraceTypes'
    BY <1>2, <2>1 DEF TraceTypes
  <2>3. TraceTimes' /\ TraceSink'
    BY <1>2 DEF TraceTimes, TraceSink
  <2>4. TraceReaders'
    BY <1>2, <2>1, ReadersStay
  <2> QED
    BY <2>1, <2>2, <2>3, <2>4
<1>3. ASSUME NEW decision \in Tr!Decisions, Tr!LogCut(decision) PROVE TraceInv'
  <2>1. /\ lines' \in Seq(TraceLine) /\ lines' # <<>> /\ open' = TRUE /\ cuts' \in Nat
        /\ \A i \in DOMAIN lines' : lines'[i].decision = "torn" => lines'[i] = Tr!Torn
        /\ Tr!FailedActions \subseteq Tr!FailedActions' /\ TraceLines'
    BY <1>3, LineCut
  <2>2. running' \in BOOLEAN /\ UNCHANGED <<now, rows, reader, sink, logged, shown, trBegun, excused>>
    BY <1>3 DEF Tr!LogCut, TraceTypes
  <2>3. TraceTypes'
    BY <2>1, <2>2 DEF TraceTypes
  <2>4. TraceTimes' /\ TraceSink'
    BY <2>2 DEF TraceTimes, TraceSink
  <2>5. TraceReaders'
    BY <2>1, <2>2, ReadersStay
  <2> QED
    BY <2>1, <2>3, <2>4, <2>5
<1>4. ASSUME NEW r \in Spawned, NEW type \in Tr!Types, Tr!Record(r, type) PROVE TraceInv'
  <2>1. PICK row : row = [run |-> r, type |-> type, at |-> now]
    OBVIOUS
  <2>2. row \in TraceRow /\ row.at = now
    BY <2>1 DEF TraceRow, TraceTypes
  <2>3. rows' = Append(rows, row) /\ UNCHANGED <<now, lines, open, running, reader, sink, logged, cuts, shown, trBegun, excused>>
    BY <1>4, <2>1 DEF Tr!Record
  <2>4. /\ rows' \in Seq(TraceRow) /\ Len(rows') = Len(rows) + 1 /\ DOMAIN rows' = 1..(Len(rows) + 1)
        /\ rows'[Len(rows) + 1] = row /\ \A i \in 1..Len(rows) : rows'[i] = rows[i]
    BY <1>0, <2>2, <2>3
  <2>5. TraceTypes'
    BY <2>3, <2>4 DEF TraceTypes
  <2>6. TraceTimes'
    <3>1. \A i \in 1..(Len(rows) + 1) : i \in 1..Len(rows) \/ i = Len(rows) + 1
      BY <1>0
    <3>2. now \in Nat
      BY DEF TraceTypes
    <3>3. \A i \in DOMAIN rows' : rows'[i].at <= now'
      BY <1>0, <2>2, <2>3, <2>4, <3>1, <3>2 DEF TraceTimes
    <3>4. ASSUME NEW i \in DOMAIN rows', NEW j \in DOMAIN rows', i <= j PROVE rows'[i].at <= rows'[j].at
      <4>1. CASE j = Len(rows) + 1
        BY <2>2, <2>3, <2>4, <3>3, <4>1
      <4>2. CASE j # Len(rows) + 1
        <5>1. i \in 1..Len(rows) /\ j \in 1..Len(rows)
          BY <1>0, <2>4, <3>4, <4>2
        <5> QED
          BY <1>0, <2>4, <3>4, <5>1 DEF TraceTimes
      <4> QED
        BY <4>1, <4>2
    <3> QED
      BY <3>3, <3>4 DEF TraceTimes
  <2>7. TraceLines'
    BY <2>3 DEF TraceLines, Standing
  <2>8. TraceSink'
    BY <1>0, <2>3, <2>4 DEF TraceSink, TraceTypes
  <2>9. TraceReaders'
    BY <2>2, <2>3, ReadersStay DEF Tr!FailedActions
  <2> QED
    BY <2>5, <2>6, <2>7, <2>8, <2>9
<1>5. ASSUME NEW p \in Procs, NEW emits \in BOOLEAN, NEW n \in 0..Len(rows), NEW failed,
             failed \subseteq FailedIn(n) \cup Tr!FailedActions \cup Unread(n), failed \subseteq Tr!Trace,
             Tr!Begin(p, emits, n, ReadSpans(n), failed),
             excused' = (excused \/ (emits /\ ((\E q \in Procs : reader[q].emits) \/ n # Len(rows))))
      PROVE  TraceInv'
  <2>0. PICK r : r = [Tr!Idle EXCEPT !.at = "audits", !.emits = emits, !.rows = n, !.spans = ReadSpans(n),
                                     !.failed = IF emits THEN {} ELSE failed]
    OBVIOUS
  <2>1. /\ r.at = "audits" /\ r.emits = emits /\ r.rows = n /\ r.spans = ReadSpans(n) /\ r.traces = <<>>
        /\ (r.failed = {} \/ r.failed = failed) /\ (emits => r.failed = {})
        /\ r = [at |-> r.at, emits |-> r.emits, rows |-> r.rows, spans |-> r.spans, traces |-> r.traces,
                failed |-> r.failed]
    BY <2>0 DEF Tr!Idle
  <2>2. /\ trBegun' = trBegun + 1 /\ trBegun < MaxListings /\ reader' = [reader EXCEPT ![p] = r]
        /\ UNCHANGED <<now, rows, lines, open, running, sink, logged, cuts, shown>>
    BY <1>5, <2>0 DEF Tr!Begin
  <2>3. reader'[p] = r /\ \A q \in Procs : q # p => reader'[q] = reader[q]
    BY <2>2 DEF TraceReaders
  <2>4. TraceTypes'
    <3>1. trBegun \in 0..MaxListings
      BY DEF TraceTypes
    <3>2. trBegun' \in 0..MaxListings
      BY <1>0, <2>2, <3>1
    <3>3. excused' \in BOOLEAN
      BY <1>5
    <3> QED
      BY <2>2, <3>2, <3>3 DEF TraceTypes
  <2>5. TraceTimes' /\ TraceLines'
    BY <2>2 DEF TraceTimes, TraceLines, Standing
  <2>6. TraceSink'
    <3>1. sink' = sink /\ shown' = shown /\ rows' = rows /\ sink <= Len(rows) /\ shown <= Len(rows)
      BY <2>2 DEF TraceSink
    <3>2. \A q \in Procs : reader'[q].emits => reader'[q].at \in {"audits", "write"}
      BY <2>1, <2>3 DEF TraceSink
    <3>5. ~excused' => ~excused /\ ~(emits /\ n # Len(rows)) /\ ~(emits /\ \E q \in Procs : reader[q].emits)
      BY <1>5
    <3>3. ~excused' => sink = shown /\ \A q \in Procs : reader'[q].emits => shown <= reader'[q].rows
      BY <1>0, <2>1, <2>3, <3>1, <3>5 DEF TraceSink
    <3>4. ~excused' => \A q, s \in Procs : reader'[q].emits /\ reader'[s].emits => q = s
      BY <2>1, <2>3, <3>5 DEF TraceSink
    <3> QED
      BY <3>1, <3>2, <3>3, <3>4 DEF TraceSink
  <2>7. TraceReader(p)'
    <3>1. ReadSpans(n)' = ReadSpans(n) /\ FailedIn(n)' = FailedIn(n) /\ Tr!FailedActions' = Tr!FailedActions
      BY <2>2 DEF ReadSpans, FailedIn, Tr!FailedActions
    <3>2. /\ reader'[p].at = "audits" /\ reader'[p].rows = n /\ reader'[p].spans = ReadSpans(n)
          /\ reader'[p].traces = <<>> /\ reader'[p].emits \in BOOLEAN
          /\ reader'[p].failed \subseteq FailedIn(n) \cup Tr!FailedActions \cup Unread(n)
          /\ reader'[p].failed \subseteq Tr!Trace
          /\ reader'[p].emits => reader'[p].failed = {}
      BY <1>5, <2>1, <2>3
    <3>3. Reading(p)'
      BY <2>1, <2>3, <3>1, <3>2 DEF Reading, ReadSpans, FailedIn, Unread
    <3> QED
      BY <1>5, <2>2, <3>2, <3>3 DEF TraceReader
  <2>8. TraceReaders'
    BY <2>2, <2>7, ReaderMoves
  <2> QED
    BY <2>4, <2>5, <2>6, <2>8
<1>6. ASSUME NEW p \in Procs, NEW emits \in BOOLEAN, Tr!ReadRows(p, emits) PROVE TraceInv'
  <2>1. ReadSpans(Len(rows)) = Tr!ReasoningSpans
    BY <1>0 DEF ReadSpans, Tr!ReasoningSpans
  <2>2. Tr!FailedRuns \cup Tr!FailedActions \subseteq FailedIn(Len(rows)) \cup Tr!FailedActions
    BY <1>0 DEF FailedIn, Tr!FailedRuns, Tr!TypesOf
  <2>3. Tr!FailedRuns \cup Tr!FailedActions \subseteq Tr!Trace
    BY FailuresAreTraces DEF Tr!FailedRuns, Tr!Trace
  <2>7. Len(rows) \in 0..Len(rows)
    BY <1>0
  <2>4. PICK n, failed : n \in 0..Len(rows) /\ n = Len(rows) /\ failed = Tr!FailedRuns \cup Tr!FailedActions
    BY <2>7
  <2>5. Tr!Begin(p, emits, n, ReadSpans(n), failed)
    BY <1>6, <2>1, <2>4 DEF Tr!ReadRows
  <2>6. excused' = (excused \/ (emits /\ ((\E q \in Procs : reader[q].emits) \/ n # Len(rows))))
    BY <1>6, <2>4 DEF Tr!ReadRows
  <2> QED
    BY <1>5, <2>2, <2>3, <2>4, <2>5, <2>6
<1>7. ASSUME NEW p \in Procs, NEW emits \in BOOLEAN, Tr!RowsUnreadable(p, emits) PROVE TraceInv'
  <2>1. ReadSpans(0) = {} /\ 0 # Len(rows) /\ 0 \in 0..Len(rows)
    BY <1>0, <1>7 DEF ReadSpans, Tr!RowsUnreadable
  <2>2. Tr!FailedRuns \cup Tr!FailedActions \subseteq Tr!Trace
    BY FailuresAreTraces DEF Tr!FailedRuns, Tr!Trace
  <2>6. Tr!FailedRuns \subseteq Unread(0)
    BY DEF Tr!FailedRuns, Unread
  <2>3. PICK n, failed : n \in 0..Len(rows) /\ n = 0 /\ failed = Tr!FailedRuns \cup Tr!FailedActions
    BY <2>1
  <2>4. Tr!Begin(p, emits, n, ReadSpans(n), failed)
    BY <1>7, <2>1, <2>3 DEF Tr!RowsUnreadable
  <2>5. excused' = (excused \/ (emits /\ ((\E q \in Procs : reader[q].emits) \/ n # Len(rows))))
    BY <1>7, <2>1, <2>3 DEF Tr!RowsUnreadable
  <2> QED
    BY <1>5, <2>2, <2>3, <2>4, <2>5, <2>6
<1>8. ASSUME NEW p \in Procs, Tr!ReadAudits(p) PROVE TraceInv'
  <2>0. TraceReader(p) /\ UNCHANGED <<now, rows, lines, open, running, sink, logged, cuts, shown, trBegun, excused>>
    BY <1>8 DEF Tr!ReadAudits, TraceReaders
  <2>1. Reading(p)
    BY <1>8, <2>0 DEF TraceReader, Tr!ReadAudits, Tr!Idle, Listing, Emitting
  <2>2. PICK n \in 0..Len(rows) : n = reader[p].rows
    BY <2>0 DEF TraceReader
  <2>3. ASSUME NEW r, reader' = [reader EXCEPT ![p] = r], TraceReader(p)',
               r.rows = reader[p].rows, r.emits = reader[p].emits, r.emits => r.at \in {"audits", "write"}
        PROVE  TraceInv'
    <3>1. reader'[p] = r /\ \A q \in Procs : q # p => reader'[q] = reader[q]
      BY <2>3 DEF TraceReaders
    <3>2. \A q \in Procs : reader'[q].rows = reader[q].rows /\ reader'[q].emits = reader[q].emits
      BY <2>3, <3>1
    <3>3. TraceSink'
      BY <2>0, <2>3, <3>1, <3>2 DEF TraceSink
    <3>4. TraceTypes' /\ TraceTimes' /\ TraceLines'
      BY <2>0 DEF TraceTypes, TraceTimes, TraceLines, Standing
    <3>5. TraceReaders'
      BY <2>0, <2>3, ReaderMoves
    <3> QED
      BY <3>3, <3>4, <3>5
  <2>4. reader[p].emits \in BOOLEAN /\ reader[p].traces = <<>>
        /\ reader[p].failed \subseteq FailedIn(n) \cup Tr!FailedActions \cup Unread(n)
    BY <2>1, <2>2 DEF Reading
  <2>5. UNCHANGED <<rows, lines, open>> /\ reader[p].rows \in 0..Len(rows) /\ reader[p].failed \subseteq Tr!Trace
    BY <2>0 DEF TraceReader
  <2>8. /\ reader[p].emits => reader[p].failed = {}
        /\ reader[p] = [at |-> reader[p].at, emits |-> reader[p].emits, rows |-> reader[p].rows,
                        spans |-> reader[p].spans, traces |-> reader[p].traces, failed |-> reader[p].failed]
    BY <2>1 DEF Reading
  <2>7. CASE reader[p].emits /\ reader' = [reader EXCEPT ![p].at = "write", ![p].spans = {}]
    <3>1. PICK r : r = [reader[p] EXCEPT !.at = "write", !.spans = {}]
      OBVIOUS
    <3>2. /\ r.at = "write" /\ r.spans = {} /\ r.rows = reader[p].rows /\ r.emits = reader[p].emits
          /\ r.traces = reader[p].traces /\ r.failed = reader[p].failed
      BY <2>8, <3>1
    <3>3. reader' = [reader EXCEPT ![p] = r]
      BY <2>7, <3>1
    <3>4. reader'[p] = r
      BY <3>3 DEF TraceReaders
    <3>5. Emitting(p)'
      BY <2>4, <2>7, <2>8, <3>2, <3>4 DEF Emitting
    <3>6. TraceReader(p)'
      BY <2>5, <3>2, <3>4, <3>5 DEF TraceReader
    <3> QED
      BY <2>3, <3>2, <3>3, <3>6
  <2>9. ASSUME NEW list \in Tr!ListTraces(reader[p].spans \cup Tr!AuditSpans), ~reader[p].emits,
               reader' = [reader EXCEPT ![p].at = "listed", ![p].spans = {}, ![p].traces = list]
        PROVE  TraceInv'
    <3>1. PICK r : r = [reader[p] EXCEPT !.at = "listed", !.spans = {}, !.traces = list]
      OBVIOUS
    <3>2. /\ r.at = "listed" /\ r.spans = {} /\ r.rows = reader[p].rows /\ r.emits = reader[p].emits
          /\ r.traces = list /\ r.failed = reader[p].failed
      BY <2>8, <3>1
    <3>3. reader' = [reader EXCEPT ![p] = r]
      BY <2>9, <3>1
    <3>4. reader'[p] = r
      BY <3>3 DEF TraceReaders
    <3>5. list \in Tr!ListTraces(ReadSpans(n) \cup Tr!AuditSpans)
      BY <2>1, <2>2, <2>9 DEF Reading
    <3>6. /\ list \in Seq(Tr!Summary) /\ \A i \in DOMAIN list : Dated(list[i])
          /\ \A i, j \in DOMAIN list : i < j => Tr!SortInstant(list[i]) <= Tr!SortInstant(list[j])
          /\ \A t \in FailedIn(n) \cup Tr!FailedActions :
               \E i \in DOMAIN list : list[i].trace = t /\ list[i].status = "error"
      BY <3>5, ListingIs
    <3>7. \A i \in DOMAIN list : Dated(list[i])'
      BY <2>5, <3>6 DEF Dated
    <3>8. Listing(p)'
      <4>1. reader'[p].at = "listed" /\ reader'[p].spans = {} /\ reader'[p].emits = FALSE /\ reader'[p].traces = list
        BY <2>4, <2>9, <3>2, <3>4
      <4>2. \A t \in reader'[p].failed :
              \/ t[1] \in Spawned /\ reader'[p].rows = 0
              \/ \E i \in DOMAIN list : list[i].trace = t /\ list[i].status = "error"
        BY <2>2, <2>4, <3>2, <3>4, <3>6 DEF Unread
      <4>3. (\A i \in DOMAIN reader[p].traces : Dated(reader[p].traces[i]))'
        BY <3>7, <4>1 DEF Dated
      <4> QED
        BY <3>6, <4>1, <4>2, <4>3 DEF Listing
    <3>9. TraceReader(p)'
      BY <2>5, <3>2, <3>4, <3>8 DEF TraceReader
    <3>10. r.emits => r.at \in {"audits", "write"}
      BY <2>9, <3>2
    <3> QED
      BY <2>3, <3>2, <3>3, <3>9, <3>10
  <2> QED
    BY <1>8, <2>7, <2>9 DEF Tr!ReadAudits
<1>9. ASSUME NEW p \in Procs, Tr!Write(p) PROVE TraceInv'
  <2>0. TraceReader(p) /\ UNCHANGED <<now, rows, lines, open, running, logged, cuts, trBegun, excused>>
    BY <1>9 DEF Tr!Write, TraceReaders
  <2>1. Emitting(p)
    BY <1>9, <2>0 DEF TraceReader, Tr!Write, Tr!Idle, Listing, Reading
  <2>2. /\ reader' = [reader EXCEPT ![p] = Tr!Idle] /\ sink' = reader[p].rows
        /\ shown' = Tr!Max({shown, sink'}) /\ reader[p].rows \in 0..Len(rows)
    BY <1>9, <2>0 DEF Tr!Write, TraceReader
  <2>3. reader'[p] = Tr!Idle /\ \A q \in Procs : q # p => reader'[q] = reader[q]
    BY <2>2 DEF TraceReaders
  <2>4. shown \in Nat /\ sink' \in Nat /\ shown <= Len(rows) /\ sink' <= Len(rows)
    BY <1>0, <2>2 DEF TraceTypes, TraceSink
  <2>5. shown' \in Nat /\ shown' <= Len(rows) /\ (shown <= sink' => shown' = sink')
    <3>1. PICK a \in Nat, b \in Nat : a = shown /\ b = sink'
      BY <2>4
    <3>2. shown' = Tr!Max({a, b})
      BY <2>2, <3>1
    <3>3. CASE a <= b
      BY <2>4, <3>1, <3>2, <3>3, MaxIs
    <3>4. CASE b <= a
      <4>1. {a, b} = {b, a}
        OBVIOUS
      <4>2. Tr!Max({b, a}) = a
        BY <3>4, MaxIs
      <4> QED
        BY <2>4, <3>1, <3>2, <3>4, <4>1, <4>2
    <3> QED
      BY <3>3, <3>4
  <2>6. TraceSink'
    <3>1. ~excused => shown <= sink' /\ \A q \in Procs : ~reader'[q].emits
      BY <2>1, <2>2, <2>3 DEF TraceSink, Emitting, Tr!Idle
    <3>2. \A q \in Procs : reader'[q].emits => reader'[q].at \in {"audits", "write"}
      BY <2>3 DEF TraceSink, Tr!Idle
    <3> QED
      BY <2>0, <2>4, <2>5, <3>1, <3>2 DEF TraceSink
  <2>7. TraceTypes' /\ TraceTimes' /\ TraceLines'
    BY <2>0, <2>4, <2>5 DEF TraceTypes, TraceTimes, TraceLines, Standing
  <2>8. TraceReader(p)'
    BY <1>0, <2>0, <2>3 DEF TraceReader, Tr!Idle
  <2>9. TraceReaders'
    BY <2>0, <2>2, <2>8, ReaderMoves
  <2> QED
    BY <2>6, <2>7, <2>9
<1>10. ASSUME NEW p \in Procs, Tr!Leave(p) PROVE TraceInv'
  <2>0. UNCHANGED <<now, rows, lines, open, running, sink, logged, cuts, shown, trBegun, excused>>
    BY <1>10 DEF Tr!Leave
  <2>1. reader' = [reader EXCEPT ![p] = Tr!Idle]
    BY <1>10 DEF Tr!Leave
  <2>2. reader'[p] = Tr!Idle /\ \A q \in Procs : q # p => reader'[q] = reader[q]
    BY <2>1 DEF TraceReaders
  <2>3. TraceSink'
    BY <2>0, <2>2 DEF TraceSink, Tr!Idle
  <2>4. TraceTypes' /\ TraceTimes' /\ TraceLines'
    BY <2>0 DEF TraceTypes, TraceTimes, TraceLines, Standing
  <2>5. TraceReader(p)'
    BY <1>0, <2>0, <2>2 DEF TraceReader, Tr!Idle
  <2>6. TraceReaders'
    BY <2>0, <2>1, <2>5, ReaderMoves
  <2> QED
    BY <2>3, <2>4, <2>6
<1>11. CASE UNCHANGED trVars
  <2> USE <1>11 DEF trVars
  <2>1. TraceTypes' /\ TraceTimes' /\ TraceLines' /\ TraceSink'
    BY DEF TraceTypes, TraceTimes, TraceLines, TraceSink, Standing
  <2>2. TraceReaders'
    BY ReadersStay DEF Tr!FailedActions
  <2> QED
    BY <2>1, <2>2
<1>12. CASE Tr!CommandTimesOut
  <2>1. "failed" \in Tr!Decisions /\ running' \in BOOLEAN
    BY <1>12 DEF Tr!Decisions, Tr!CommandTimesOut
  <2> QED
    BY <1>2, <1>12, <2>1 DEF Tr!CommandTimesOut
<1>13. ASSUME NEW decision \in Tr!Decisions, NEW forCommand \in BOOLEAN, Tr!Validate(decision, forCommand)
       PROVE  TraceInv'
  <2>1. running' \in BOOLEAN
    BY <1>13 DEF Tr!Validate, TraceTypes
  <2> QED
    BY <1>2, <1>13, <2>1 DEF Tr!Validate
<1> QED
  BY <1>1, <1>3, <1>4, <1>6, <1>7, <1>8, <1>9, <1>10, <1>11, <1>12, <1>13 DEF Tr!Next

LEMMA TraceIsTyped == TraceInv => Tr!TypeOK
<1> SUFFICES ASSUME TraceInv PROVE Tr!TypeOK
  OBVIOUS
<1> USE DEF TraceInv
<1>1. /\ now \in 0..MaxTime /\ open \in BOOLEAN /\ running \in BOOLEAN /\ excused \in BOOLEAN
      /\ rows \in Seq([run : Spawned, type : Tr!Types, at : 0..MaxTime])
      /\ lines \in Seq([at : 0..MaxTime, decision : Tr!Decisions \cup {"torn"}])
      /\ {sink, logged, cuts, shown} \subseteq Nat /\ trBegun \in 0..MaxListings
  BY DEF TraceTypes, TraceRow, TraceLine
<1>2. ASSUME NEW p \in Procs
      PROVE  /\ reader[p].at \in {"idle", "audits", "write", "listed"}
             /\ reader[p].rows \in Nat /\ reader[p].spans \subseteq Tr!Span
             /\ reader[p].traces \in Seq(Tr!Summary) /\ reader[p].failed \subseteq Tr!Trace
  <2>1. PICK n \in 0..Len(rows) : n = reader[p].rows
    BY DEF TraceReaders, TraceReader
  <2>2. n \in Nat
    OBVIOUS
  <2>3. ReadSpans(n) \subseteq Tr!Span
    BY SpansAre
  <2>4. TraceReader(p)
    BY DEF TraceReaders
  <2>5. <<>> \in Seq(Tr!Summary)
    OBVIOUS
  <2>6. reader[p].failed \subseteq Tr!Trace
    BY <2>4 DEF TraceReader
  <2>7. CASE reader[p] = Tr!Idle
    BY <2>2, <2>5, <2>7 DEF Tr!Idle
  <2>8. CASE Reading(p)
    BY <2>1, <2>2, <2>3, <2>5, <2>6, <2>8 DEF Reading
  <2>9. CASE Listing(p)
    BY <2>1, <2>2, <2>6, <2>9 DEF Listing
  <2>10. CASE Emitting(p)
    BY <2>1, <2>2, <2>5, <2>6, <2>10 DEF Emitting
  <2> QED
    BY <2>4, <2>7, <2>8, <2>9, <2>10 DEF TraceReader
<1> QED
  BY <1>1, <1>2 DEF Tr!TypeOK

\* What a trace dates from is what it is listed by.
LEMMA TracesTrue == TraceInv => Tr!TracesAreTrue
<1> SUFFICES ASSUME TraceInv PROVE Tr!TracesAreTrue
  OBVIOUS
<1> DEFINE BornAt(t) ==
      IF t[1] \in {"AUD", "AUD-TO"} THEN t[2]
      ELSE Tr!Min({rows[k].at : k \in {j \in DOMAIN rows : rows[j].run = t[1]}})
<1>1. ASSUME NEW summary, Dated(summary) PROVE BornAt(summary.trace) = Tr!SortInstant(summary)
  <2>1. CASE summary.trace \in {"AUD", "AUD-TO"} \X (0..MaxTime) /\ Tr!SortInstant(summary) = summary.trace[2]
    BY <2>1
  <2>2. ASSUME NEW k \in DOMAIN rows, summary.trace = <<rows[k].run, 0>>, Tr!SortInstant(summary) = rows[k].at,
               \A j \in DOMAIN rows : rows[j].run = rows[k].run => rows[k].at <= rows[j].at
        PROVE  BornAt(summary.trace) = Tr!SortInstant(summary)
    <3>1. PICK ats : ats = {rows[i].at : i \in {j \in DOMAIN rows : rows[j].run = rows[k].run}}
      OBVIOUS
    <3>2. \A i \in DOMAIN rows : rows[i] \in TraceRow
      BY DEF TraceInv, TraceTypes
    <3>3. \A i \in DOMAIN rows : rows[i].at \in Int
      <4>1. MaxTime \in Nat
        BY TracingAssumption DEF Tr!TracingAssumption
      <4> QED
        BY <3>2, <4>1 DEF TraceRow
    <3>4. ats \in SUBSET Int /\ rows[k].at \in ats /\ \A x \in ats : rows[k].at <= x
      BY <2>2, <3>1, <3>3
    <3>5. Tr!Min(ats) = rows[k].at
      BY <3>4, MinIs
    <3>6. rows[k].run \in Spawned /\ rows[k].run \notin {"AUD", "AUD-TO"} /\ summary.trace[1] = rows[k].run
      BY <2>2, <3>2, TracingAssumption DEF TraceRow, Tr!TracingAssumption
    <3> QED
      BY <2>2, <3>1, <3>5, <3>6
  <2> QED
    BY <1>1, <2>1, <2>2 DEF Dated
<1>2. ASSUME NEW p \in Procs, reader[p].at = "listed" PROVE Listing(p)
  BY <1>2 DEF TraceInv, TraceReaders, TraceReader, Reading, Emitting, Tr!Idle
<1>3. ASSUME NEW p \in Procs, reader[p].at = "listed",
             NEW i \in DOMAIN reader[p].traces, NEW j \in DOMAIN reader[p].traces, i < j
      PROVE  BornAt(reader[p].traces[i].trace) <= BornAt(reader[p].traces[j].trace)
  <2>1. Dated(reader[p].traces[i]) /\ Dated(reader[p].traces[j])
        /\ Tr!SortInstant(reader[p].traces[i]) <= Tr!SortInstant(reader[p].traces[j])
    BY <1>2, <1>3 DEF Listing
  <2>2. /\ BornAt(reader[p].traces[i].trace) = Tr!SortInstant(reader[p].traces[i])
        /\ BornAt(reader[p].traces[j].trace) = Tr!SortInstant(reader[p].traces[j])
    BY <1>1, <2>1
  <2> HIDE DEF BornAt
  <2> QED
    BY <2>1, <2>2
<1>4. ASSUME NEW p \in Procs, reader[p].at = "listed", NEW t \in reader[p].failed
      PROVE  \/ t[1] \in Spawned /\ reader[p].rows = 0
             \/ \E i \in DOMAIN reader[p].traces :
                  reader[p].traces[i].trace = t /\ reader[p].traces[i].status = "error"
  BY <1>2, <1>4 DEF Listing
<1> QED
  BY <1>3, <1>4 DEF Tr!TracesAreTrue

\* A line that was cut, and the one that is appended to it, count for one each.
LEMMA TornCostOne == TraceInv => Tr!TornLinesCostOne
<1> SUFFICES ASSUME TraceInv PROVE Tr!TornLinesCostOne
  OBVIOUS
<1>1. lines \in Seq(TraceLine) /\ logged \in Nat /\ cuts \in Nat /\ open \in BOOLEAN
  BY DEF TraceInv, TraceTypes
<1>2. IsFiniteSet(Tr!Intact) /\ Standing \subseteq Tr!Intact
  <2>1. DOMAIN lines = 1..Len(lines) /\ 1 \in Int /\ Len(lines) \in Int
    BY <1>1
  <2>2. IsFiniteSet(1..Len(lines)) /\ Tr!Intact \subseteq 1..Len(lines)
    BY <2>1, FS_Interval DEF Tr!Intact
  <2> QED
    BY <2>2, FS_Subset DEF Standing, Tr!Intact
<1>3. Cardinality(Standing) \in Nat /\ Cardinality(Tr!Intact) \in Nat /\ Cardinality(Standing) <= Cardinality(Tr!Intact)
  BY <1>2, FS_Subset, FS_CardinalityType
<1>4. logged - cuts + (IF open THEN 1 ELSE 0) <= Cardinality(Standing)
  BY DEF TraceInv, TraceLines
<1> QED
  BY <1>1, <1>3, <1>4, TraceSizes DEF Tr!TornLinesCostOne

-----------------------------------------------------------------------------
(* An agent's context                                                      *)

LEMMA CtxSizes == \A S : Ctx!Cardinality(S) = Cardinality(S)
BY Zenon DEF Ctx!Cardinality, Cardinality

LEMMA CtxFinite == \A S : Ctx!IsFiniteSet(S) <=> IsFiniteSet(S)
BY Zenon DEF Ctx!IsFiniteSet, IsFiniteSet

LEMMA CtxConstants ==
  /\ Ctx!Nodes \subseteq Nat /\ CtxPaths \subseteq Ctx!Nodes
  /\ IsFiniteSet(Ctx!Nodes) /\ IsFiniteSet(CtxPaths)
  /\ Tokens \in [CtxPaths -> Nat] /\ Budget \in Nat \ {0} /\ WarnPercent \in 1..100
  /\ MenuCosts \in Seq(Nat) /\ Graphs \subseteq [CtxPaths -> SUBSET Ctx!Nodes] /\ Sizes \subseteq Nat
<1>1. CtxPaths \subseteq Ctx!Nodes
  BY DEF Ctx!Nodes
<1>2. IsFiniteSet(Ctx!Nodes)
  BY ContextAssumption, CtxFinite DEF Ctx!ContextAssumption
<1>3. IsFiniteSet(CtxPaths)
  BY <1>1, <1>2, FS_Subset
<1> QED
  BY <1>1, <1>2, <1>3, ContextAssumption DEF Ctx!ContextAssumption

\* One visit for each of the paths.
VisitAll(paths, priority, visits) ==
  /\ visits \in Seq(Ctx!Call)
  /\ \A i \in DOMAIN visits : visits[i].path \in paths /\ visits[i].priority = priority
  /\ \A p \in paths : \E i \in DOMAIN visits : visits[i].path = p

LEMMA VisitsAre ==
  ASSUME NEW paths \in SUBSET Ctx!Nodes, NEW priority \in Nat, NEW visits \in Ctx!Visits(paths, priority)
  PROVE  VisitAll(paths, priority, visits)
<1>1. IsFiniteSet(paths)
  BY CtxConstants, FS_Subset
<1>2. Cardinality(paths) \in Nat
  BY <1>1, FS_CardinalityType
<1>3. PICK s \in Ctx!InOrder(paths, <) :
        visits = [i \in DOMAIN s |-> [path |-> s[i], priority |-> priority]]
  BY DEF Ctx!Visits
<1>4. s \in [1..Cardinality(paths) -> paths] /\ \A x \in paths : \E i \in DOMAIN s : s[i] = x
  BY <1>3, CtxSizes DEF Ctx!InOrder
<1>5. PICK n \in Nat : s \in [1..n -> paths]
  BY <1>2, <1>4
<1>6. visits = [i \in 1..n |-> [path |-> s[i], priority |-> priority]]
  BY <1>3, <1>5
<1>7. \A i \in 1..n : visits[i] \in Ctx!Call /\ visits[i].path = s[i] /\ visits[i].priority = priority
  <2>1. \A i \in 1..n : s[i] \in Ctx!Nodes
    BY <1>5
  <2> QED
    BY <1>6, <2>1 DEF Ctx!Call
<1>8. visits \in Seq(Ctx!Call) /\ DOMAIN visits = 1..n
  <2>1. visits \in [1..n -> Ctx!Call]
    BY <1>6, <1>7
  <2> QED
    BY <2>1, SeqDef
<1> QED
  BY <1>4, <1>5, <1>7, <1>8 DEF VisitAll

\* p is n dependencies away from the stage, one way or another.
WalkTo(p, n) == \E w \in Ctx!Walks(n) : w[n] = p

LEMMA WalkRoot ==
  ASSUME NEW p \in Ctx!Roots, p \in Ctx!Nodes
  PROVE  WalkTo(p, 0)
<1> DEFINE w == [i \in 0..0 |-> p]
<1>1. w \in [0..0 -> Ctx!Nodes] /\ w[0] = p /\ \A i \in 1..0 : FALSE
  OBVIOUS
<1>2. w \in Ctx!Walks(0)
  BY <1>1 DEF Ctx!Walks
<1> QED
  BY <1>1, <1>2 DEF WalkTo

LEMMA WalkOn ==
  ASSUME NEW n \in Nat, NEW p, NEW q \in Ctx!Nodes, WalkTo(p, n), q \in Ctx!DepsOf(p)
  PROVE  WalkTo(q, n + 1)
<1>1. PICK w \in Ctx!Walks(n) : w[n] = p
  BY DEF WalkTo
<1>2. w \in [0..n -> Ctx!Nodes] /\ w[0] \in Ctx!Roots /\ \A i \in 1..n : w[i] \in Ctx!DepsOf(w[i - 1])
  BY <1>1 DEF Ctx!Walks
<1>3. PICK v : v = [i \in 0..(n + 1) |-> IF i = n + 1 THEN q ELSE w[i]]
  OBVIOUS
<1>4. v \in [0..(n + 1) -> Ctx!Nodes] /\ v[0] = w[0] /\ v[n + 1] = q /\ \A i \in 0..n : v[i] = w[i]
  BY <1>2, <1>3
<1>5. ASSUME NEW i \in 1..(n + 1) PROVE v[i] \in Ctx!DepsOf(v[i - 1])
  <2>1. CASE i = n + 1
    <3>1. v[i - 1] = p /\ v[i] = q
      BY <1>1, <1>4, <2>1
    <3> QED
      BY <3>1
  <2>2. CASE i # n + 1
    <3>1. i \in 1..n /\ i - 1 \in 0..n /\ i \in 0..n
      BY <2>2
    <3> QED
      BY <1>2, <1>4, <3>1
  <2> QED
    BY <2>1, <2>2
<1>6. v \in Ctx!Walks(n + 1)
  BY <1>2, <1>4, <1>5 DEF Ctx!Walks
<1> QED
  BY <1>4, <1>6 DEF WalkTo

\* p has a visit of priority n or nearer, made or still to be made.
Due(p, n) ==
  \/ p \in DOMAIN ctxFound /\ ctxFound[p] <= n
  \/ \E i \in DOMAIN ctxCalls : ctxCalls[i].path = p /\ ctxCalls[i].priority <= n

CtxTypes ==
  /\ ctxAt \in {"refreshed", "selecting", "selected", "graded", "failed", "lazy", "built"}
  /\ ctxOwn \subseteq CtxPaths /\ ctxDeps \in [CtxPaths -> SUBSET Ctx!Nodes] /\ ctxFresh \subseteq CtxPaths
  /\ ctxCalls \in Seq(Ctx!Call) /\ DOMAIN ctxFound \subseteq Ctx!Nodes
  /\ ctxFound \in [DOMAIN ctxFound -> Nat]
  /\ ctxDisk \in [CtxPaths -> {"same", "edited", "gone"}]

\* What was found, and what is to be visited, is there; and nothing that is as near
\* has been lost sight of.
CtxWalk ==
  /\ \A p \in DOMAIN ctxFound : WalkTo(p, ctxFound[p])
  /\ \A i \in DOMAIN ctxCalls : WalkTo(ctxCalls[i].path, ctxCalls[i].priority)
  /\ ctxAt = "refreshed" =>
       /\ \A p \in Ctx!Roots : Due(p, 0)
       /\ \A p \in DOMAIN ctxFound : \A q \in Ctx!DepsOf(p) : Due(q, ctxFound[p] + 1)

LEMMA Distances == CtxTypes /\ CtxWalk => Ctx!PrioritiesAreDistances
<1> SUFFICES ASSUME CtxTypes, CtxWalk, ctxAt = "refreshed", ctxCalls = <<>>
             PROVE  /\ \A p \in DOMAIN ctxFound : \E w \in Ctx!Walks(ctxFound[p]) : w[ctxFound[p]] = p
                    /\ \A n \in 0..Ctx!Cardinality(CtxPaths) : \A w \in Ctx!Walks(n) :
                         w[n] \in DOMAIN ctxFound /\ ctxFound[w[n]] <= n
  BY DEF Ctx!PrioritiesAreDistances
<1>1. \A p, n : Due(p, n) => p \in DOMAIN ctxFound /\ ctxFound[p] <= n
  BY DEF Due
<1>2. ASSUME NEW n \in 0..Ctx!Cardinality(CtxPaths), NEW w \in Ctx!Walks(n)
      PROVE  w[n] \in DOMAIN ctxFound /\ ctxFound[w[n]] <= n
  <2>1. n \in Nat
    BY <1>2
  <2>2. /\ w \in [0..n -> Ctx!Nodes] /\ w[0] \in Ctx!Roots
        /\ \A i \in 1..n : w[i] \in Ctx!DepsOf(w[i - 1])
    BY DEF Ctx!Walks
  <2> DEFINE S == {i \in 0..n : w[i] \in DOMAIN ctxFound /\ ctxFound[w[i]] <= i}
  <2>3. 0 \in S
    BY <1>1, <2>1, <2>2 DEF CtxWalk
  <2>4. ASSUME NEW i \in 1..n, i - 1 \in S PROVE i \in S
    <3>1. w[i - 1] \in DOMAIN ctxFound /\ ctxFound[w[i - 1]] <= i - 1 /\ w[i] \in Ctx!DepsOf(w[i - 1])
      BY <2>2, <2>4
    <3>2. Due(w[i], ctxFound[w[i - 1]] + 1)
      BY <3>1 DEF CtxWalk
    <3>3. w[i] \in DOMAIN ctxFound /\ ctxFound[w[i]] <= ctxFound[w[i - 1]] + 1
      BY <1>1, <3>2
    <3>4. ctxFound[w[i]] \in Nat /\ ctxFound[w[i - 1]] \in Nat
      BY <3>1, <3>3 DEF CtxTypes
    <3>5. ctxFound[w[i]] <= i
      BY <3>1, <3>3, <3>4
    <3> QED
      BY <3>3, <3>5
  <2> HIDE DEF S
  <2>5. \A i \in 0..n : i \in S
    BY <2>1, <2>3, <2>4, SetInduction
  <2>6. n \in S
    BY <2>1, <2>5
  <2> QED
    BY <2>6 DEF S
<1> QED
  BY <1>2 DEF CtxWalk, WalkTo

LEMMA WalksStay ==
  ASSUME UNCHANGED <<ctxOwn, ctxDeps>>
  PROVE  /\ \A p, n : WalkTo(p, n)' <=> WalkTo(p, n)
         /\ \A n : Ctx!Walks(n)' = Ctx!Walks(n)
         /\ Ctx!Roots' = Ctx!Roots /\ \A p : Ctx!DepsOf(p)' = Ctx!DepsOf(p)
<1>1. Ctx!Roots' = Ctx!Roots /\ \A p : Ctx!DepsOf(p)' = Ctx!DepsOf(p)
  BY DEF Ctx!Roots, Ctx!DepsOf
<1>2. \A n : Ctx!Walks(n)' = Ctx!Walks(n)
  BY <1>1 DEF Ctx!Walks
<1> QED
  BY <1>1, <1>2 DEF WalkTo

LEMMA VisitWalks ==
  ASSUME CtxTypes, CtxWalk, Ctx!Visit
  PROVE  CtxTypes' /\ CtxWalk'
<1>1. /\ ctxAt = "refreshed" /\ ctxCalls # <<>>
      /\ UNCHANGED <<ctxAt, ctxOwn, ctxDeps, ctxFresh, ctxDisk>>
  BY DEF Ctx!Visit
<1>2. PICK path, priority : path = Head(ctxCalls).path /\ priority = Head(ctxCalls).priority
  OBVIOUS
<1>3. PICK tail : tail = Tail(ctxCalls)
  OBVIOUS
<1>4. /\ path \in Ctx!Nodes /\ priority \in Nat /\ WalkTo(path, priority)
      /\ tail \in Seq(Ctx!Call) /\ Len(ctxCalls) \in Nat /\ Len(tail) = Len(ctxCalls) - 1
      /\ \A i \in DOMAIN tail : i + 1 \in DOMAIN ctxCalls /\ tail[i] = ctxCalls[i + 1]
      /\ \A i \in DOMAIN ctxCalls : i = 1 \/ (i - 1 \in DOMAIN tail /\ ctxCalls[i] = tail[i - 1])
      /\ ctxCalls[1].path = path /\ ctxCalls[1].priority = priority
  <2>0. ctxCalls \in Seq(Ctx!Call) /\ ctxCalls # <<>>
    BY <1>1 DEF CtxTypes
  <2>1. /\ 1 \in DOMAIN ctxCalls /\ ctxCalls[1] = Head(ctxCalls) /\ ctxCalls[1] \in Ctx!Call
        /\ tail \in Seq(Ctx!Call) /\ Len(ctxCalls) \in Nat /\ Len(tail) = Len(ctxCalls) - 1
        /\ \A i \in DOMAIN tail : i + 1 \in DOMAIN ctxCalls /\ tail[i] = ctxCalls[i + 1]
        /\ \A i \in DOMAIN ctxCalls : i = 1 \/ (i - 1 \in DOMAIN tail /\ ctxCalls[i] = tail[i - 1])
    BY <1>3, <2>0
  <2>2. path \in Ctx!Nodes /\ priority \in Nat
    BY <1>2, <2>1 DEF Ctx!Call
  <2>3. ctxCalls[1].path = path /\ ctxCalls[1].priority = priority
    BY <1>2, <2>1
  <2>4. WalkTo(path, priority)
    BY <2>1, <2>3 DEF CtxWalk
  <2> QED
    BY <2>1, <2>2, <2>3, <2>4
<1>5. CASE ~Ctx!Improves(path, priority)
  <2>1. ctxCalls' = tail /\ ctxFound' = ctxFound
    BY <1>2, <1>3, <1>5 DEF Ctx!Visit
  <2>2. path \in DOMAIN ctxFound /\ ctxFound[path] <= priority
    <3>1. path \in DOMAIN ctxFound /\ ~(ctxFound[path] > priority)
      BY <1>5 DEF Ctx!Improves
    <3>2. ctxFound[path] \in Nat
      BY <3>1 DEF CtxTypes
    <3> QED
      BY <1>4, <3>1, <3>2
  <2>3. ASSUME NEW p, NEW n \in Nat, Due(p, n) PROVE Due(p, n)'
    <3>1. CASE p \in DOMAIN ctxFound /\ ctxFound[p] <= n
      BY <2>1, <3>1 DEF Due
    <3>2. ASSUME NEW i \in DOMAIN ctxCalls, ctxCalls[i].path = p, ctxCalls[i].priority <= n
          PROVE  Due(p, n)'
      <4>1. CASE i = 1
        <5>1. p = path /\ priority <= n /\ ctxFound[path] \in Nat
          BY <1>4, <2>2, <3>2, <4>1 DEF CtxTypes
        <5>2. ctxFound[path] <= n
          BY <1>4, <2>2, <5>1
        <5> QED
          BY <2>1, <2>2, <5>1, <5>2 DEF Due
      <4>2. CASE i # 1
        <5>1. i - 1 \in DOMAIN tail /\ ctxCalls[i] = tail[i - 1]
          BY <1>4, <4>2
        <5> QED
          BY <2>1, <3>2, <5>1 DEF Due
      <4> QED
        BY <4>1, <4>2
    <3> QED
      BY <2>3, <3>1, <3>2 DEF Due
  <2>4. CtxTypes'
    BY <1>1, <1>4, <2>1 DEF CtxTypes
  <2>5. CtxWalk'
    <3>1. \A p \in DOMAIN ctxFound' : WalkTo(p, ctxFound'[p])
      BY <1>1, <2>1, WalksStay DEF CtxWalk
    <3>2. \A i \in DOMAIN ctxCalls' : WalkTo(ctxCalls'[i].path, ctxCalls'[i].priority)
      BY <1>1, <1>4, <2>1, WalksStay DEF CtxWalk
    <3>3. \A p \in Ctx!Roots' : Due(p, 0)'
      BY <1>1, <2>3, WalksStay DEF CtxWalk
    <3>4. \A p \in DOMAIN ctxFound' : \A q \in Ctx!DepsOf(p)' : Due(q, ctxFound[p] + 1)'
      BY <1>1, <2>1, <2>3, WalksStay DEF CtxWalk, CtxTypes
    <3>5. (\A p \in DOMAIN ctxFound : WalkTo(p, ctxFound[p]))'
      BY <1>1, <3>1, WalksStay DEF WalkTo
    <3>6. (\A i \in DOMAIN ctxCalls : WalkTo(ctxCalls[i].path, ctxCalls[i].priority))'
      BY <1>1, <3>2, WalksStay DEF WalkTo
    <3>7. (\A p \in DOMAIN ctxFound : \A q \in Ctx!DepsOf(p) : Due(q, ctxFound[p] + 1))'
      BY <2>1, <3>4
    <3> QED
      BY <3>3, <3>5, <3>6, <3>7 DEF CtxWalk
  <2> QED
    BY <2>4, <2>5
<1>6. CASE Ctx!Improves(path, priority)
  <2>1. PICK visits \in Ctx!Visits(Ctx!DepsOf(path), priority + 1) :
          /\ ctxCalls' = visits \o tail
          /\ ctxFound' = [p \in DOMAIN ctxFound \cup {path} |-> IF p = path THEN priority ELSE ctxFound[p]]
    BY <1>2, <1>3, <1>6 DEF Ctx!Visit
  <2>2. Ctx!DepsOf(path) \in SUBSET Ctx!Nodes
    BY DEF Ctx!DepsOf, CtxTypes
  <2>3. VisitAll(Ctx!DepsOf(path), priority + 1, visits)
    BY <1>4, <2>1, <2>2, VisitsAre
  <2>4. /\ DOMAIN ctxFound' = DOMAIN ctxFound \cup {path} /\ ctxFound'[path] = priority
        /\ \A p \in DOMAIN ctxFound \ {path} : ctxFound'[p] = ctxFound[p]
        /\ ctxFound' = [p \in DOMAIN ctxFound' |-> ctxFound'[p]]
    BY <2>1
  <2>5. path \in DOMAIN ctxFound => priority < ctxFound[path]
    <3>1. path \in DOMAIN ctxFound => ctxFound[path] > priority
      BY <1>6 DEF Ctx!Improves
    <3> QED
      BY <1>4, <3>1 DEF CtxTypes
  <2>6. /\ visits \in Seq(Ctx!Call) /\ Len(visits) \in Nat /\ ctxCalls' \in Seq(Ctx!Call)
        /\ \A i \in DOMAIN visits : i \in DOMAIN ctxCalls' /\ ctxCalls'[i] = visits[i]
        /\ \A i \in DOMAIN tail : Len(visits) + i \in DOMAIN ctxCalls' /\ ctxCalls'[Len(visits) + i] = tail[i]
        /\ \A i \in DOMAIN ctxCalls' : \/ i \in DOMAIN visits
                                       \/ i - Len(visits) \in DOMAIN tail /\ ctxCalls'[i] = tail[i - Len(visits)]
    <3>1. visits \in Seq(Ctx!Call)
      BY <2>3 DEF VisitAll
    <3> HIDE DEF Ctx!Call
    <3> QED
      BY <1>4, <2>1, <3>1
  <2>7. ASSUME NEW p, NEW n \in Nat, Due(p, n) PROVE Due(p, n)'
    <3>1. CASE p \in DOMAIN ctxFound /\ ctxFound[p] <= n
      <4>1. ctxFound[p] \in Nat
        BY <3>1 DEF CtxTypes
      <4>2. p \in DOMAIN ctxFound' /\ ctxFound'[p] <= n
        BY <1>4, <2>4, <2>5, <3>1, <4>1
      <4> QED
        BY <4>2 DEF Due
    <3>2. ASSUME NEW i \in DOMAIN ctxCalls, ctxCalls[i].path = p, ctxCalls[i].priority <= n
          PROVE  Due(p, n)'
      <4>1. CASE i = 1
        BY <1>4, <2>4, <3>2, <4>1 DEF Due
      <4>2. CASE i # 1
        <5>1. i - 1 \in DOMAIN tail /\ ctxCalls[i] = tail[i - 1]
          BY <1>4, <4>2
        <5>2. \E j \in DOMAIN ctxCalls' : ctxCalls'[j].path = p /\ ctxCalls'[j].priority <= n
          BY <2>6, <3>2, <5>1
        <5> QED
          BY <5>2 DEF Due
      <4> QED
        BY <4>1, <4>2
    <3> QED
      BY <2>7, <3>1, <3>2 DEF Due
  <2>8. CtxTypes'
    <3>1. ctxFound' \in [DOMAIN ctxFound' -> Nat] /\ DOMAIN ctxFound' \subseteq Ctx!Nodes
      BY <1>4, <2>4 DEF CtxTypes
    <3> QED
      BY <1>1, <2>6, <3>1 DEF CtxTypes
  <2>9. \A p \in DOMAIN ctxFound' : WalkTo(p, ctxFound'[p])
    BY <1>1, <1>4, <2>4, WalksStay DEF CtxWalk
  <2>10. \A i \in DOMAIN ctxCalls' : WalkTo(ctxCalls'[i].path, ctxCalls'[i].priority)
    <3> SUFFICES ASSUME NEW i \in DOMAIN ctxCalls'
                 PROVE  WalkTo(ctxCalls'[i].path, ctxCalls'[i].priority)
      OBVIOUS
    <3>1. CASE i \in DOMAIN visits
      <4>1. visits[i].path \in Ctx!DepsOf(path) /\ visits[i].priority = priority + 1
        BY <2>3, <3>1 DEF VisitAll
      <4>2. WalkTo(visits[i].path, priority + 1)
        BY <1>4, <2>2, <4>1, WalkOn
      <4> QED
        BY <2>6, <3>1, <4>1, <4>2
    <3>2. CASE i - Len(visits) \in DOMAIN tail /\ ctxCalls'[i] = tail[i - Len(visits)]
      BY <1>4, <3>2 DEF CtxWalk
    <3> QED
      BY <2>6, <3>1, <3>2
  <2>11. \A p \in Ctx!Roots' : Due(p, 0)'
    BY <1>1, <2>7, WalksStay DEF CtxWalk
  <2>12. ASSUME NEW p \in DOMAIN ctxFound', NEW q \in Ctx!DepsOf(p) PROVE (\E n \in Nat : n = ctxFound[p] + 1 /\ Due(q, n))'
    <3>1. CASE p = path
      <4>1. PICK i \in DOMAIN visits : visits[i].path = q
        BY <2>3, <2>12, <3>1 DEF VisitAll
      <4>2. visits[i].priority = priority + 1
        BY <2>3 DEF VisitAll
      <4>3. ctxCalls'[i].path = q /\ ctxCalls'[i].priority <= ctxFound'[p] + 1 /\ i \in DOMAIN ctxCalls'
        BY <1>4, <2>4, <2>6, <3>1, <4>1, <4>2
      <4> QED
        BY <1>4, <2>4, <3>1, <4>3 DEF Due
    <3>2. CASE p # path
      <4>1. p \in DOMAIN ctxFound /\ ctxFound'[p] = ctxFound[p] /\ ctxFound[p] + 1 \in Nat
        BY <2>4, <3>2 DEF CtxTypes
      <4>2. Due(q, ctxFound[p] + 1)
        BY <1>1, <2>12, <4>1 DEF CtxWalk
      <4>3. PICK n \in Nat : n = ctxFound[p] + 1
        BY <4>1
      <4>4. Due(q, n)'
        BY <2>7, <4>2, <4>3
      <4> QED
        BY <4>1, <4>3, <4>4
    <3> QED
      BY <3>1, <3>2
  <2>13. CtxWalk'
    <3>1. (\A p \in DOMAIN ctxFound : WalkTo(p, ctxFound[p]))'
      BY <1>1, <2>9, WalksStay DEF WalkTo
    <3>2. (\A i \in DOMAIN ctxCalls : WalkTo(ctxCalls[i].path, ctxCalls[i].priority))'
      BY <1>1, <2>10, WalksStay DEF WalkTo
    <3>3. (\A p \in DOMAIN ctxFound : \A q \in Ctx!DepsOf(p) : Due(q, ctxFound[p] + 1))'
      BY <1>1, <2>12, WalksStay
    <3> QED
      BY <2>11, <3>1, <3>2, <3>3 DEF CtxWalk
  <2> QED
    BY <2>8, <2>13
<1> QED
  BY <1>5, <1>6

\* The call is past the search: it finds and loses no artifact any more.
LEMMA SearchStays ==
  ASSUME CtxTypes, CtxWalk, UNCHANGED <<ctxOwn, ctxDeps, ctxFresh, ctxCalls, ctxFound>>,
         ctxAt' \in {"refreshed", "selecting", "selected", "graded", "failed", "lazy", "built"},
         ctxAt' = "refreshed" => ctxAt = "refreshed",
         (ctxDisk \in [CtxPaths -> {"same", "edited", "gone"}])'
  PROVE  CtxTypes' /\ CtxWalk'
<1>1. CtxTypes'
  BY DEF CtxTypes
<1>2. (\A p \in DOMAIN ctxFound : WalkTo(p, ctxFound[p]))'
  BY WalksStay DEF CtxWalk, WalkTo
<1>3. (\A i \in DOMAIN ctxCalls : WalkTo(ctxCalls[i].path, ctxCalls[i].priority))'
  BY WalksStay DEF CtxWalk, WalkTo
<1>4. \A p, n : Due(p, n)' <=> Due(p, n)
  BY DEF Due
<1>5. (ctxAt = "refreshed" =>
         /\ \A p \in Ctx!Roots : Due(p, 0)
         /\ \A p \in DOMAIN ctxFound : \A q \in Ctx!DepsOf(p) : Due(q, ctxFound[p] + 1))'
  BY <1>4, WalksStay DEF CtxWalk, Due
<1> QED
  BY <1>1, <1>2, <1>3, <1>5 DEF CtxWalk

\* What has been selected comes first, and what is still to be looked at is in order.
CtxOrdered ==
  /\ \A i, j \in DOMAIN ctxTodo : i < j => Ctx!Nearer(ctxTodo[i], ctxTodo[j])
  /\ \A i \in DOMAIN ctxSelected : \A j \in DOMAIN ctxTodo : Ctx!Nearer(ctxSelected[i], ctxTodo[j])
  /\ \A i, j \in DOMAIN ctxSelected : i < j => ctxFound[ctxSelected[i]] <= ctxFound[ctxSelected[j]]

CtxSearching ==
  /\ ctxTodo = <<>> /\ ctxSelected = <<>> /\ ctxOmitted = {} /\ ctxTotal = 0 /\ ctxLevel = "none"
  /\ ctxGiven = 0

CtxSelecting ==
  /\ CtxPaths \cap DOMAIN ctxFound = Elements(ctxSelected) \cup ctxOmitted \cup Elements(ctxTodo)
  /\ Elements(ctxSelected) \subseteq ctxFresh
  /\ ctxTotal = Sum(Tokens, Elements(ctxSelected)) /\ ctxTotal <= Budget
  /\ \A p \in ctxOmitted \cap ctxFresh : ctxTotal + Tokens[p] > Budget
  /\ CtxOrdered
  /\ (\A p \in Elements(ctxSelected) : ctxDisk[p] # "edited") => ctxGiven = ctxTotal

CtxSelect ==
  /\ ctxTodo \in Seq(CtxPaths) /\ ctxSelected \in Seq(CtxPaths) /\ ctxOmitted \subseteq CtxPaths
  /\ ctxTotal \in Nat /\ ctxGiven \in Nat /\ ctxLevel \in {"none", "ok", "warn", "error"}
  /\ IF ctxAt \in {"refreshed", "lazy", "built"} THEN CtxSearching ELSE CtxSelecting
  /\ ctxAt \in {"selected", "graded"} => ctxTodo = <<>>
  /\ ctxAt = "graded" => ctxLevel = Ctx!Level(ctxTotal, Budget)

LEMMA SumsAgree == \A f, S : Ctx!SumFunctionOnSet(f, S) = Sum(f, S)
BY Zenon DEF Sum, Ctx!SumFunctionOnSet, Ctx!FoldFunctionOnSet, Ctx!MapThenFoldSet,
             Cost!SumFunctionOnSet, Cost!FoldFunctionOnSet, Cost!MapThenFoldSet

LEMMA SelectStays ==
  ASSUME CtxSelect,
         UNCHANGED <<ctxAt, ctxFresh, ctxFound, ctxTodo, ctxSelected, ctxOmitted, ctxTotal, ctxGiven,
                     ctxLevel>>,
         UNCHANGED ctxDisk \/ \A p \in CtxPaths : ctxDisk[p] = "same"
  PROVE  CtxSelect'
<1>1. ASSUME CtxSelecting PROVE CtxSelecting'
  <2>1. Elements(ctxSelected) \subseteq CtxPaths /\ Elements(ctxSelected') = Elements(ctxSelected)
    BY <1>1 DEF CtxSelecting
  <2>2. (\A p \in Elements(ctxSelected) : ctxDisk'[p] # "edited") => ctxGiven = ctxTotal
    BY <1>1, <2>1 DEF CtxSelecting
  <2> QED
    BY <1>1, <2>1, <2>2 DEF CtxSelecting, CtxOrdered, Ctx!Nearer
<1> QED
  BY <1>1 DEF CtxSelect, CtxSearching, Ctx!Level

LEMMA SelectStarts ==
  ASSUME CtxTypes, CtxSelect, Ctx!Sort
  PROVE  CtxSelect'
<1> USE DEF Ctx!Sort
<1>1. PICK near : near = CtxPaths \cap DOMAIN ctxFound
  OBVIOUS
<1>2. CtxSearching
  BY DEF CtxSelect
<1>3. /\ ctxAt' = "selecting" /\ ctxTodo' \in Ctx!InOrder(near, Ctx!Nearer)
      /\ UNCHANGED <<ctxFresh, ctxFound, ctxDisk, ctxSelected, ctxOmitted, ctxTotal, ctxGiven, ctxLevel>>
  BY <1>1
<1>4. IsFiniteSet(near) /\ near \subseteq CtxPaths
  BY <1>1, CtxConstants, FS_Subset
<1>5. Cardinality(near) \in Nat
  BY <1>4, FS_CardinalityType
<1>6. /\ ctxTodo' \in [1..Cardinality(near) -> near]
      /\ \A p \in near : \E i \in DOMAIN ctxTodo' : ctxTodo'[i] = p
      /\ \A i, j \in DOMAIN ctxTodo' : i < j => Ctx!Nearer(ctxTodo'[i], ctxTodo'[j])
  BY <1>3, CtxSizes DEF Ctx!InOrder
<1>7. PICK n \in Nat : ctxTodo' \in [1..n -> near]
  BY <1>5, <1>6
<1>8. ctxTodo' \in [1..n -> CtxPaths]
  BY <1>4, <1>7
<1>9. ctxTodo' \in Seq(CtxPaths)
  BY <1>8, SeqDef
<1>10. Elements(ctxTodo') = near
  BY <1>6, <1>7 DEF Elements
<1>11. /\ ctxSelected' = <<>> /\ Elements(ctxSelected') = {} /\ ctxOmitted' = {} /\ ctxTotal' = 0
       /\ ctxLevel' = "none" /\ ctxGiven' = 0 /\ DOMAIN ctxSelected' = {}
  BY <1>2, <1>3 DEF CtxSearching, Elements
<1>12. CtxOrdered'
  BY <1>3, <1>6, <1>11 DEF CtxOrdered, Ctx!Nearer
<1>13. ctxTotal' = Sum(Tokens, Elements(ctxSelected')) /\ ctxTotal' <= Budget
  <2>1. Sum(Tokens, {}) = 0 /\ 0 <= Budget
    BY SumEmpty, CtxConstants
  <2> QED
    BY <1>11, <2>1, Zenon
<1>14. CtxSelecting'
  BY <1>1, <1>3, <1>10, <1>11, <1>12, <1>13 DEF CtxSelecting
<1> QED
  BY <1>3, <1>9, <1>11, <1>14 DEF CtxSelect

\* The next candidate, and those after it.
LEMMA NextCandidate ==
  ASSUME CtxTypes, CtxSelect, CtxSelecting, ctxTodo # <<>>,
         NEW p, p = Head(ctxTodo), NEW tail, tail = Tail(ctxTodo)
  PROVE  /\ p \in CtxPaths \cap DOMAIN ctxFound /\ tail \in Seq(CtxPaths)
         /\ Elements(ctxTodo) = {p} \cup Elements(tail) /\ p \notin Elements(ctxSelected)
         /\ \A i, j \in DOMAIN tail : i < j => Ctx!Nearer(tail[i], tail[j])
         /\ \A i \in DOMAIN ctxSelected : \A j \in DOMAIN tail : Ctx!Nearer(ctxSelected[i], tail[j])
         /\ \A j \in DOMAIN tail : Ctx!Nearer(p, tail[j])
         /\ \A i \in DOMAIN ctxSelected : ctxFound[ctxSelected[i]] <= ctxFound[p]
<1>1. ctxTodo \in Seq(CtxPaths)
  BY DEF CtxSelect
<1>2. /\ tail \in Seq(CtxPaths) /\ 1 \in DOMAIN ctxTodo /\ ctxTodo[1] = p
      /\ \A j \in DOMAIN tail : j \in Nat /\ j + 1 \in DOMAIN ctxTodo /\ tail[j] = ctxTodo[j + 1] /\ 1 < j + 1
      /\ \A j \in DOMAIN ctxTodo : j = 1 \/ (j - 1 \in DOMAIN tail /\ ctxTodo[j] = tail[j - 1])
  BY <1>1
<1>3. Elements(ctxTodo) = {p} \cup Elements(tail)
  <2>1. ASSUME NEW x \in Elements(ctxTodo) PROVE x = p \/ x \in Elements(tail)
    <3>1. PICK j \in DOMAIN ctxTodo : x = ctxTodo[j]
      BY DEF Elements
    <3>2. j = 1 \/ (j - 1 \in DOMAIN tail /\ ctxTodo[j] = tail[j - 1])
      BY <1>2
    <3> QED
      BY <1>2, <3>1, <3>2 DEF Elements
  <2>2. p \in Elements(ctxTodo)
    BY <1>2 DEF Elements
  <2>3. ASSUME NEW x \in Elements(tail) PROVE x \in Elements(ctxTodo)
    BY <1>2 DEF Elements
  <2> QED
    BY <2>1, <2>2, <2>3
<1>4. p \in Elements(ctxTodo) /\ p \in CtxPaths \cap DOMAIN ctxFound
  BY <1>3 DEF CtxSelecting
<1>5. \A q \in DOMAIN ctxFound : ctxFound[q] \in Nat
  BY DEF CtxTypes
<1>6. ASSUME NEW i \in DOMAIN ctxSelected
      PROVE  /\ ctxSelected[i] # p /\ ctxFound[ctxSelected[i]] <= ctxFound[p]
  <2>1. Ctx!Nearer(ctxSelected[i], p)
    BY <1>2 DEF CtxSelecting, CtxOrdered
  <2>2. ctxSelected[i] \in Elements(ctxSelected)
    BY DEF Elements
  <2>3. ctxSelected[i] \in CtxPaths \cap DOMAIN ctxFound
    BY <2>2 DEF CtxSelecting
  <2>4. ctxFound[ctxSelected[i]] \in Nat /\ ctxFound[p] \in Nat /\ p \in Nat /\ ctxSelected[i] \in Nat
    BY <1>4, <1>5, <2>3, CtxConstants
  <2> QED
    BY <2>1, <2>4 DEF Ctx!Nearer
<1>7. \A i, j \in DOMAIN tail : i < j => Ctx!Nearer(tail[i], tail[j])
  <2> SUFFICES ASSUME NEW i \in DOMAIN tail, NEW j \in DOMAIN tail, i < j PROVE Ctx!Nearer(tail[i], tail[j])
    OBVIOUS
  <2>1. i + 1 < j + 1
    BY <1>2
  <2>2. Ctx!Nearer(ctxTodo[i + 1], ctxTodo[j + 1])
    BY <1>2, <2>1 DEF CtxSelecting, CtxOrdered
  <2> QED
    BY <1>2, <2>2
<1>8. \A j \in DOMAIN tail : Ctx!Nearer(p, tail[j])
  BY <1>2 DEF CtxSelecting, CtxOrdered
<1>9. \A i \in DOMAIN ctxSelected : \A j \in DOMAIN tail : Ctx!Nearer(ctxSelected[i], tail[j])
  BY <1>2 DEF CtxSelecting, CtxOrdered
<1> QED
  BY <1>2, <1>3, <1>4, <1>6, <1>7, <1>8, <1>9 DEF Elements

LEMMA SelectTakes ==
  ASSUME CtxTypes, CtxSelect, Ctx!Take
  PROVE  CtxSelect'
<1>1. PICK p, tail : p = Head(ctxTodo) /\ tail = Tail(ctxTodo)
  OBVIOUS
<1>2. /\ ctxAt = "selecting" /\ ctxTodo # <<>> /\ p \in ctxFresh /\ Ctx!Fits(p)
      /\ ctxSelected' = Append(ctxSelected, p) /\ ctxTotal' = ctxTotal + Tokens[p] /\ ctxTodo' = tail
      /\ UNCHANGED <<ctxAt, ctxFresh, ctxFound, ctxDisk, ctxOmitted, ctxLevel>>
  BY <1>1 DEF Ctx!Take
<1>13. PICK size \in IF ctxDisk[p] = "edited" THEN Sizes ELSE {Tokens[p]} : ctxGiven' = ctxGiven + size
  BY <1>1 DEF Ctx!Take
<1>3. CtxSelecting
  BY <1>2 DEF CtxSelect
<1>4. /\ p \in CtxPaths \cap DOMAIN ctxFound /\ tail \in Seq(CtxPaths)
      /\ Elements(ctxTodo) = {p} \cup Elements(tail) /\ p \notin Elements(ctxSelected)
      /\ \A i, j \in DOMAIN tail : i < j => Ctx!Nearer(tail[i], tail[j])
      /\ \A i \in DOMAIN ctxSelected : \A j \in DOMAIN tail : Ctx!Nearer(ctxSelected[i], tail[j])
      /\ \A j \in DOMAIN tail : Ctx!Nearer(p, tail[j])
      /\ \A i \in DOMAIN ctxSelected : ctxFound[ctxSelected[i]] <= ctxFound[p]
  BY <1>1, <1>2, <1>3, NextCandidate
<1>5. PICK n \in Nat : n = Len(ctxSelected)
  BY DEF CtxSelect
<1>6. /\ ctxSelected' \in Seq(CtxPaths) /\ DOMAIN ctxSelected = 1..n /\ DOMAIN ctxSelected' = 1..(n + 1)
      /\ ctxSelected'[n + 1] = p /\ \A i \in 1..n : ctxSelected'[i] = ctxSelected[i]
  BY <1>2, <1>4, <1>5 DEF CtxSelect
<1>7. Elements(ctxSelected') = Elements(ctxSelected) \cup {p}
  <2>1. \A i \in 1..(n + 1) : i \in 1..n \/ i = n + 1
    OBVIOUS
  <2>2. \A i \in 1..n : i \in 1..(n + 1)
    OBVIOUS
  <2>3. n + 1 \in 1..(n + 1)
    OBVIOUS
  <2> QED
    BY <1>6, <2>1, <2>2, <2>3 DEF Elements
<1>8. Tokens[p] \in Nat /\ ctxTotal \in Nat /\ Budget \in Nat /\ \A q \in CtxPaths : Tokens[q] \in Nat
  BY <1>4, CtxConstants DEF CtxSelect
<1>9. ctxTotal' = Sum(Tokens, Elements(ctxSelected')) /\ ctxTotal' \in Nat /\ ctxTotal' <= Budget
  <2>1. Elements(ctxSelected') \subseteq CtxPaths
    BY <1>3, <1>4, <1>7 DEF CtxSelecting
  <2>2. IsFiniteSet(Elements(ctxSelected')) /\ \A q \in Elements(ctxSelected') : Tokens[q] \in Int
    <3>1. IsFiniteSet(Elements(ctxSelected'))
      BY <2>1, CtxConstants, FS_Subset
    <3> QED
      BY <1>8, <2>1, <3>1
  <2>3. Sum(Tokens, Elements(ctxSelected')) = Tokens[p] + Sum(Tokens, Elements(ctxSelected') \ {p})
    BY <1>7, <2>2, SumTakes
  <2>4. Elements(ctxSelected') \ {p} = Elements(ctxSelected)
    BY <1>4, <1>7
  <2>5. Sum(Tokens, Elements(ctxSelected)) = ctxTotal
    BY <1>3 DEF CtxSelecting
  <2>6. Sum(Tokens, Elements(ctxSelected')) = Tokens[p] + ctxTotal
    BY <2>3, <2>4, <2>5
  <2>7. ctxTotal + Tokens[p] <= Budget
    BY <1>2 DEF Ctx!Fits
  <2> QED
    BY <1>2, <1>8, <2>6, <2>7
<1>10. \A q \in ctxOmitted \cap ctxFresh : ctxTotal' + Tokens[q] > Budget
  <2> SUFFICES ASSUME NEW q \in ctxOmitted \cap ctxFresh PROVE ctxTotal' + Tokens[q] > Budget
    OBVIOUS
  <2>1. q \in CtxPaths /\ ctxTotal + Tokens[q] > Budget
    BY <1>3 DEF CtxSelecting, CtxSelect
  <2> QED
    BY <1>2, <1>8, <2>1
<1>11. CtxOrdered'
  <2>1. \A i, j \in DOMAIN ctxSelected' : i < j => ctxFound[ctxSelected'[i]] <= ctxFound[ctxSelected'[j]]
    <3> SUFFICES ASSUME NEW i \in 1..(n + 1), NEW j \in 1..(n + 1), i < j
                 PROVE  ctxFound[ctxSelected'[i]] <= ctxFound[ctxSelected'[j]]
      BY <1>6
    <3>1. i \in 1..n /\ (j \in 1..n \/ j = n + 1)
      OBVIOUS
    <3> QED
      BY <1>3, <1>4, <1>6, <3>1 DEF CtxSelecting, CtxOrdered
  <2>2. \A i \in DOMAIN ctxSelected' : \A j \in DOMAIN tail : Ctx!Nearer(ctxSelected'[i], tail[j])
    <3> SUFFICES ASSUME NEW i \in 1..(n + 1), NEW j \in DOMAIN tail PROVE Ctx!Nearer(ctxSelected'[i], tail[j])
      BY <1>6
    <3>1. i \in 1..n \/ i = n + 1
      OBVIOUS
    <3> QED
      BY <1>4, <1>6, <3>1
  <2> QED
    BY <1>2, <1>4, <2>1, <2>2 DEF CtxOrdered, Ctx!Nearer
<1>14. ctxGiven' \in Nat
  <2>1. size \in Nat /\ ctxGiven \in Nat
    BY <1>8, <1>13, CtxConstants DEF CtxSelect
  <2> QED
    BY <1>13, <2>1
<1>15. (\A q \in Elements(ctxSelected') : ctxDisk'[q] # "edited") => ctxGiven' = ctxTotal'
  <2> SUFFICES ASSUME \A q \in Elements(ctxSelected') : ctxDisk'[q] # "edited" PROVE ctxGiven' = ctxTotal'
    OBVIOUS
  <2>1. ctxDisk[p] # "edited" /\ \A q \in Elements(ctxSelected) : ctxDisk[q] # "edited"
    BY <1>2, <1>7
  <2>2. ctxGiven = ctxTotal /\ size = Tokens[p]
    BY <1>3, <1>13, <2>1 DEF CtxSelecting
  <2> QED
    BY <1>2, <1>13, <2>2
<1>12. CtxSelecting'
  <2>1. Elements(ctxTodo') = Elements(tail)
    BY <1>2
  <2> QED
    BY <1>2, <1>3, <1>4, <1>7, <1>9, <1>10, <1>11, <1>15, <2>1 DEF CtxSelecting
<1> QED
  BY <1>2, <1>4, <1>6, <1>9, <1>12, <1>14 DEF CtxSelect

LEMMA SelectOmits ==
  ASSUME CtxTypes, CtxSelect, Ctx!Omit
  PROVE  CtxSelect'
<1>1. PICK p, tail : p = Head(ctxTodo) /\ tail = Tail(ctxTodo)
  OBVIOUS
<1>2. /\ ctxAt = "selecting" /\ ctxTodo # <<>> /\ (p \notin ctxFresh \/ ~Ctx!Fits(p))
      /\ ctxOmitted' = ctxOmitted \cup {p} /\ ctxTodo' = tail
      /\ UNCHANGED <<ctxAt, ctxFresh, ctxFound, ctxDisk, ctxSelected, ctxTotal, ctxGiven, ctxLevel>>
  BY <1>1 DEF Ctx!Omit
<1>3. CtxSelecting
  BY <1>2 DEF CtxSelect
<1>4. /\ p \in CtxPaths \cap DOMAIN ctxFound /\ tail \in Seq(CtxPaths)
      /\ Elements(ctxTodo) = {p} \cup Elements(tail)
      /\ \A i, j \in DOMAIN tail : i < j => Ctx!Nearer(tail[i], tail[j])
      /\ \A i \in DOMAIN ctxSelected : \A j \in DOMAIN tail : Ctx!Nearer(ctxSelected[i], tail[j])
  BY <1>1, <1>2, <1>3, NextCandidate
<1>5. p \in ctxFresh => ctxTotal + Tokens[p] > Budget
  <2>1. Tokens[p] \in Nat /\ ctxTotal \in Nat /\ Budget \in Nat
    BY <1>4, CtxConstants DEF CtxSelect
  <2> QED
    BY <1>2, <2>1 DEF Ctx!Fits
<1>6. CtxOrdered'
  BY <1>2, <1>3, <1>4 DEF CtxSelecting, CtxOrdered, Ctx!Nearer
<1>7. CtxSelecting'
  <2>1. Elements(ctxTodo') = Elements(tail) /\ Elements(ctxSelected') = Elements(ctxSelected)
    BY <1>2
  <2> QED
    BY <1>2, <1>3, <1>4, <1>5, <1>6, <2>1 DEF CtxSelecting
<1> QED
  BY <1>2, <1>4, <1>7 DEF CtxSelect

LEMMA SelectSteps ==
  ASSUME CtxSelect, ctxAt \in {"selecting", "selected"}, ctxAt' \in {"selected", "graded", "failed"},
         UNCHANGED <<ctxFresh, ctxFound, ctxDisk, ctxTodo, ctxSelected, ctxOmitted, ctxTotal, ctxGiven>>,
         ctxAt' # "failed" => ctxTodo = <<>>,
         ctxLevel' = IF ctxAt' = "graded" THEN Ctx!Level(ctxTotal, Budget) ELSE ctxLevel
  PROVE  CtxSelect'
<1>1. CtxSelecting
  BY DEF CtxSelect
<1>2. CtxSelecting'
  BY <1>1 DEF CtxSelecting, CtxOrdered, Ctx!Nearer
<1>3. (ctxLevel \in {"none", "ok", "warn", "error"})'
  BY DEF Ctx!Level, CtxSelect
<1>4. (ctxAt = "graded" => ctxLevel = Ctx!Level(ctxTotal, Budget))'
  BY DEF Ctx!Level
<1> QED
  BY <1>2, <1>3, <1>4 DEF CtxSelect

LEMMA SelectionFull == CtxTypes /\ CtxSelect => Ctx!SelectionIsFull
<1> SUFFICES ASSUME CtxTypes, CtxSelect, ctxAt = "graded" PROVE Ctx!SelectionIsFull
  BY DEF Ctx!SelectionIsFull
<1>1. CtxSelecting /\ ctxTodo = <<>> /\ ctxLevel = Ctx!Level(ctxTotal, Budget) /\ ctxTotal \in Nat
  BY DEF CtxSelect
<1>2. Ctx!Range(ctxSelected) = Elements(ctxSelected) /\ Elements(ctxTodo) = {}
  BY <1>1 DEF Ctx!Range, Elements
<1>3. ctxLevel = "error" => ctxTotal = Budget
  <2>1. Budget \in Nat /\ ctxTotal <= Budget
    BY <1>1, CtxConstants DEF CtxSelecting
  <2>2. ctxLevel = "error" => ctxTotal >= Budget
    BY <1>1, <2>1 DEF Ctx!Level
  <2> QED
    BY <1>1, <2>1, <2>2
<1>4. ctxTotal = Ctx!SumFunctionOnSet(Tokens, Ctx!Range(ctxSelected))
  BY <1>1, <1>2, SumsAgree DEF CtxSelecting
<1>5. (\A p \in Ctx!Range(ctxSelected) : ctxDisk[p] # "edited") => ctxGiven = ctxTotal
  BY <1>1, <1>2 DEF CtxSelecting
<1> QED
  BY <1>1, <1>2, <1>3, <1>4, <1>5 DEF Ctx!SelectionIsFull, CtxSelecting, CtxOrdered

LEMMA EntriesAre ==
  /\ IsFiniteSet(Ctx!Entries) /\ Ctx!Entries \subseteq Nat /\ \A e \in Ctx!Entries : MenuCosts[e] \in Nat
<1>1. PICK n \in Nat : n = Len(MenuCosts) /\ DOMAIN MenuCosts = 1..n
  BY CtxConstants
<1>2. IsFiniteSet(1..n)
  <2>1. n \in Int /\ 1 \in Int
    OBVIOUS
  <2> QED
    BY <2>1, FS_Interval
<1> QED
  BY <1>1, <1>2, CtxConstants DEF Ctx!Entries

LEMMA CostIs ==
  ASSUME NEW entries \in SUBSET Ctx!Entries
  PROVE  Ctx!Cost(entries) \in Int /\ (entries = {} => Ctx!Cost(entries) = 0)
<1>1. Ctx!Cost(entries) = Sum(MenuCosts, entries)
  BY SumsAgree DEF Ctx!Cost
<1>2. IsFiniteSet(entries) /\ \A e \in entries : MenuCosts[e] \in Int
  <2>1. IsFiniteSet(entries)
    BY EntriesAre, FS_Subset
  <2> QED
    BY <2>1, EntriesAre
<1>3. Sum(MenuCosts, entries) \in Int
  BY <1>2, SumInt
<1> QED
  BY <1>1, <1>3, SumEmpty

LEMMA FirstEntry ==
  ASSUME NEW entries \in SUBSET Ctx!Entries, entries # {}
  PROVE  Ctx!Min(entries) \in entries /\ \A e \in entries : Ctx!Min(entries) <= e
<1>1. entries \in SUBSET Nat
  BY EntriesAre
<1>2. \E m \in entries : \A e \in entries : m <= e
  BY <1>1, LeastOf
<1> QED
  BY <1>2 DEF Ctx!Min

LEMMA LastEntry ==
  ASSUME NEW entries \in SUBSET Ctx!Entries, entries # {}
  PROVE  Ctx!Max(entries) \in entries /\ \A e \in entries : e <= Ctx!Max(entries)
<1>1. PICK n \in Nat : DOMAIN MenuCosts = 1..n
  BY CtxConstants
<1>2. entries \subseteq 1..n
  BY <1>1 DEF Ctx!Entries
<1> DEFINE rest == {n - e : e \in entries}
<1>3. rest \in SUBSET Nat /\ rest # {}
  <2>1. \A e \in entries : n - e \in Nat
    BY <1>2
  <2>2. PICK e \in entries : TRUE
    OBVIOUS
  <2> QED
    BY <2>1, <2>2
<1>4. PICK r \in rest : \A x \in rest : r <= x
  BY <1>3, LeastOf
<1>5. PICK m \in entries : r = n - m
  OBVIOUS
<1>6. ASSUME NEW e \in entries PROVE e <= m
  <2>1. n - m <= n - e
    BY <1>4, <1>5
  <2>2. e \in Int /\ m \in Int
    BY <1>2
  <2> QED
    BY <2>1, <2>2
<1>7. \A e \in entries : m >= e
  BY <1>2, <1>6
<1>8. \E x \in entries : \A e \in entries : x >= e
  BY <1>7
<1>9. Ctx!Max(entries) \in entries /\ \A e \in entries : Ctx!Max(entries) >= e
  BY <1>8 DEF Ctx!Max
<1> QED
  BY <1>2, <1>9

LEMMA LazyBudgetIs == Ctx!LazyBudget \in Nat
<1>1. PICK share \in Nat : share = Budget \div 4
  BY CtxConstants
<1>2. \E x \in {1, share} : \A y \in {1, share} : x >= y
  <2>1. 1 >= share \/ share >= 1
    OBVIOUS
  <2> QED
    BY <2>1
<1>3. Ctx!Max({1, share}) \in {1, share}
  BY <1>2 DEF Ctx!Max
<1> QED
  BY <1>1, <1>3 DEF Ctx!LazyBudget

\* What is lost of a menu is worth less than what is kept.
CtxLazy ==
  /\ ctxLessons \subseteq Ctx!Entries /\ ctxSkills \subseteq Ctx!Entries
  /\ ctxIndex \subseteq ctxLessons /\ ctxMenu \subseteq ctxSkills
  /\ \A e \in ctxLessons \ ctxIndex : \A f \in ctxIndex : e < f
  /\ \A e \in ctxSkills \ ctxMenu : \A f \in ctxMenu : f < e
  /\ ctxMenu # ctxSkills => ctxIndex = {}
  /\ \A e \in ctxLessons \ ctxIndex :
       Ctx!Cost({f \in ctxLessons : f >= e}) + Ctx!Cost(ctxSkills) > Ctx!LazyBudget
  /\ \A e \in ctxSkills \ ctxMenu : Ctx!Cost({f \in ctxSkills : f <= e}) > Ctx!LazyBudget
  /\ ctxAt = "built" => ~(Ctx!OverBudget /\ ctxIndex \cup ctxMenu # {})

LEMMA LazyStays ==
  ASSUME CtxLazy, UNCHANGED <<ctxLessons, ctxSkills, ctxIndex, ctxMenu>>,
         ctxAt' = "built" => ctxAt = "built" \/ ~(Ctx!OverBudget /\ ctxIndex \cup ctxMenu # {})
  PROVE  CtxLazy'
BY DEF CtxLazy, Ctx!OverBudget

LEMMA LessonTrimmed ==
  ASSUME CtxLazy, Ctx!TrimLesson
  PROVE  CtxLazy'
<1>1. PICK m : m = Ctx!Min(ctxIndex)
  OBVIOUS
<1>2. /\ ctxAt = "lazy" /\ Ctx!OverBudget /\ ctxIndex # {} /\ ctxIndex' = ctxIndex \ {m} /\ ctxMenu' = ctxMenu
      /\ UNCHANGED <<ctxAt, ctxLessons, ctxSkills>>
  BY <1>1 DEF Ctx!TrimLesson, Ctx!Trim
<1>3. ctxIndex \in SUBSET Ctx!Entries /\ ctxLessons \subseteq Nat
  BY EntriesAre DEF CtxLazy
<1>4. m \in ctxIndex /\ \A f \in ctxIndex : m <= f
  BY <1>1, <1>2, <1>3, FirstEntry
<1>5. m \in Nat /\ ctxIndex \subseteq Nat
  BY <1>3, <1>4, EntriesAre
<1>6. {f \in ctxLessons : f >= m} = ctxIndex
  <2>1. ASSUME NEW f \in ctxLessons, f >= m, f \notin ctxIndex PROVE FALSE
    <3>1. f < m
      BY <1>4, <2>1 DEF CtxLazy
    <3> QED
      BY <1>3, <1>5, <2>1, <3>1
  <2>2. ASSUME NEW f \in ctxIndex PROVE f \in ctxLessons /\ f >= m
    BY <1>3, <1>4, <1>5 DEF CtxLazy
  <2> QED
    BY <2>1, <2>2
<1>7. ctxMenu = ctxSkills
  BY <1>2 DEF CtxLazy
<1>8. Ctx!Cost({f \in ctxLessons : f >= m}) + Ctx!Cost(ctxSkills) > Ctx!LazyBudget
  <2>1. Ctx!Cost(ctxMenu) \in Int /\ Ctx!Cost(ctxIndex) \in Int
    BY CostIs, EntriesAre DEF CtxLazy
  <2>2. Ctx!Cost(ctxMenu) + Ctx!Cost(ctxIndex) > Ctx!LazyBudget
    BY <1>2 DEF Ctx!OverBudget
  <2>3. Ctx!LazyBudget \in Int /\ Ctx!Cost(ctxIndex) + Ctx!Cost(ctxMenu) > Ctx!LazyBudget
    BY <2>1, <2>2, LazyBudgetIs
  <2> QED
    BY <1>6, <1>7, <2>3
<1>9. \A e \in ctxLessons \ ctxIndex' :
        Ctx!Cost({f \in ctxLessons : f >= e}) + Ctx!Cost(ctxSkills) > Ctx!LazyBudget
  BY <1>2, <1>4, <1>8 DEF CtxLazy
<1>10. \A e \in ctxLessons \ ctxIndex' : \A f \in ctxIndex' : e < f
  <2> SUFFICES ASSUME NEW e \in ctxLessons \ ctxIndex', NEW f \in ctxIndex' PROVE e < f
    OBVIOUS
  <2>1. f \in ctxIndex /\ f # m /\ (e = m \/ e \in ctxLessons \ ctxIndex)
    BY <1>2
  <2>2. f \in Nat /\ m <= f
    BY <1>4, <1>5, <2>1
  <2>3. e \in ctxLessons \ ctxIndex => e < f
    BY <2>1 DEF CtxLazy
  <2> QED
    BY <1>5, <2>1, <2>2, <2>3
<1> QED
  BY <1>2, <1>7, <1>9, <1>10 DEF CtxLazy, Ctx!Cost, Ctx!LazyBudget

LEMMA SkillTrimmed ==
  ASSUME CtxLazy, Ctx!TrimSkill
  PROVE  CtxLazy'
<1>1. PICK m : m = Ctx!Max(ctxMenu)
  OBVIOUS
<1>2. /\ ctxAt = "lazy" /\ Ctx!OverBudget /\ ctxIndex = {} /\ ctxMenu # {}
      /\ ctxIndex' = {} /\ ctxMenu' = ctxMenu \ {m}
      /\ UNCHANGED <<ctxAt, ctxLessons, ctxSkills>>
  BY <1>1 DEF Ctx!TrimSkill, Ctx!Trim
<1>3. ctxMenu \in SUBSET Ctx!Entries /\ ctxSkills \subseteq Nat /\ ctxMenu \subseteq ctxSkills
  BY EntriesAre DEF CtxLazy
<1>4. m \in ctxMenu /\ \A f \in ctxMenu : f <= m
  BY <1>1, <1>2, <1>3, LastEntry
<1>5. m \in Nat /\ ctxMenu \subseteq Nat
  BY <1>3, <1>4
<1>6. {f \in ctxSkills : f <= m} = ctxMenu
  <2>1. ASSUME NEW f \in ctxSkills, f <= m, f \notin ctxMenu PROVE FALSE
    <3>1. m < f
      BY <1>4, <2>1 DEF CtxLazy
    <3> QED
      BY <1>3, <1>5, <2>1, <3>1
  <2>2. ASSUME NEW f \in ctxMenu PROVE f \in ctxSkills /\ f <= m
    BY <1>3, <1>4
  <2> QED
    BY <2>1, <2>2
<1>7. Ctx!Cost({f \in ctxSkills : f <= m}) > Ctx!LazyBudget
  <2>1. Ctx!Cost(ctxMenu) \in Int /\ Ctx!Cost(ctxIndex) = 0
    <3>1. ctxIndex \in SUBSET Ctx!Entries
      BY <1>2
    <3> QED
      BY <1>2, <1>3, <3>1, CostIs
  <2>2. Ctx!Cost(ctxMenu) + Ctx!Cost(ctxIndex) > Ctx!LazyBudget
    BY <1>2 DEF Ctx!OverBudget
  <2> QED
    BY <1>6, <2>1, <2>2
<1>8. \A e \in ctxSkills \ ctxMenu' : Ctx!Cost({f \in ctxSkills : f <= e}) > Ctx!LazyBudget
  BY <1>2, <1>4, <1>7 DEF CtxLazy
<1>9. \A e \in ctxSkills \ ctxMenu' : \A f \in ctxMenu' : f < e
  <2> SUFFICES ASSUME NEW e \in ctxSkills \ ctxMenu', NEW f \in ctxMenu' PROVE f < e
    OBVIOUS
  <2>1. f \in ctxMenu /\ f # m /\ (e = m \/ e \in ctxSkills \ ctxMenu)
    BY <1>2
  <2>2. f \in Nat /\ f <= m
    BY <1>4, <1>5, <2>1
  <2>3. e \in ctxSkills \ ctxMenu => f < e
    BY <2>1 DEF CtxLazy
  <2> QED
    BY <1>5, <2>1, <2>2, <2>3
<1> QED
  BY <1>2, <1>3, <1>8, <1>9 DEF CtxLazy, Ctx!Cost, Ctx!LazyBudget

LEMMA LazyTrimmed == CtxLazy => Ctx!LazyIsTrimmed
<1> SUFFICES ASSUME CtxLazy, ctxAt = "built" PROVE Ctx!LazyIsTrimmed
  BY DEF Ctx!LazyIsTrimmed
<1>1. ctxIndex \in SUBSET Ctx!Entries /\ ctxMenu \in SUBSET Ctx!Entries
  BY DEF CtxLazy
<1>2. Ctx!Cost(ctxIndex) \in Int /\ Ctx!Cost(ctxMenu) \in Int
  BY <1>1, CostIs
<1>3. Ctx!Cost(ctxIndex) + Ctx!Cost(ctxMenu) <= Ctx!LazyBudget
  <2>1. CASE ~Ctx!OverBudget
    BY <1>2, <2>1, LazyBudgetIs DEF Ctx!OverBudget
  <2>2. CASE ctxIndex = {} /\ ctxMenu = {}
    <3>1. Ctx!Cost(ctxIndex) = 0 /\ Ctx!Cost(ctxMenu) = 0
      BY <1>1, <2>2, CostIs
    <3> QED
      BY <3>1, LazyBudgetIs
  <2> QED
    BY <2>1, <2>2 DEF CtxLazy
<1> QED
  BY <1>3 DEF CtxLazy, Ctx!LazyIsTrimmed

-----------------------------------------------------------------------------
CtxInv == CtxTypes /\ CtxWalk /\ CtxSelect /\ CtxLazy

LEMMA CtxFirst == Ctx!Init => CtxInv
<1> SUFFICES ASSUME Ctx!Init PROVE CtxInv
  OBVIOUS
<1>1. /\ ctxFound = <<>> /\ DOMAIN ctxFound = {} /\ ctxDisk = [p \in CtxPaths |-> "same"]
      /\ CtxSearching /\ ctxIndex = ctxLessons /\ ctxMenu = ctxSkills
      /\ ctxAt \in {"refreshed", "lazy"}
  BY DEF Ctx!Init, CtxSearching
<1>2. ctxFound \in [DOMAIN ctxFound -> Nat]
  <2>1. ctxFound = [p \in {} |-> 0]
    BY <1>1
  <2> QED
    BY <2>1
<1>3. ctxOwn \subseteq CtxPaths /\ ctxFresh \subseteq CtxPaths /\ ctxDeps \in [CtxPaths -> SUBSET Ctx!Nodes]
  BY CtxConstants DEF Ctx!Init
<1>4. ctxLessons \subseteq Ctx!Entries /\ ctxSkills \subseteq Ctx!Entries
  BY DEF Ctx!Init
<1>5. CASE ctxAt = "refreshed"
  <2>1. ctxCalls \in Ctx!Visits(Ctx!Roots, 0)
    BY <1>5 DEF Ctx!Init
  <2>2. Ctx!Roots \in SUBSET Ctx!Nodes
    BY <1>3, CtxConstants DEF Ctx!Roots
  <2>3. VisitAll(Ctx!Roots, 0, ctxCalls)
    BY <2>1, <2>2, VisitsAre
  <2>4. ctxCalls \in Seq(Ctx!Call)
    BY <2>3 DEF VisitAll
  <2>5. \A i \in DOMAIN ctxCalls : WalkTo(ctxCalls[i].path, ctxCalls[i].priority)
    BY <2>2, <2>3, WalkRoot DEF VisitAll
  <2>6. \A p \in Ctx!Roots : Due(p, 0)
    BY <2>3 DEF VisitAll, Due
  <2>7. CtxTypes /\ CtxWalk
    BY <1>1, <1>2, <1>3, <2>4, <2>5, <2>6 DEF CtxTypes, CtxWalk
  <2>8. CtxSelect
    BY <1>1 DEF CtxSelect, CtxSearching
  <2>9. CtxLazy
    BY <1>1, <1>4, <1>5 DEF CtxLazy
  <2> QED
    BY <2>7, <2>8, <2>9 DEF CtxInv
<1>6. CASE ctxAt = "lazy"
  <2>1. ctxCalls = <<>>
    BY <1>6 DEF Ctx!Init
  <2>2. CtxTypes /\ CtxWalk
    BY <1>1, <1>2, <1>3, <1>6, <2>1 DEF CtxTypes, CtxWalk
  <2>3. CtxSelect
    BY <1>1 DEF CtxSelect, CtxSearching
  <2>4. CtxLazy
    BY <1>1, <1>4, <1>6 DEF CtxLazy
  <2> QED
    BY <2>2, <2>3, <2>4 DEF CtxInv
<1> QED
  BY <1>1, <1>5, <1>6

LEMMA CtxNext == CtxInv /\ (Ctx!Next \/ UNCHANGED ctxVars) => CtxInv'
<1> SUFFICES ASSUME CtxInv, Ctx!Next \/ UNCHANGED ctxVars PROVE CtxInv'
  OBVIOUS
<1>0. CtxTypes /\ CtxWalk /\ CtxSelect /\ CtxLazy
  BY DEF CtxInv
<1>1. CASE Ctx!Visit
  <2>1. CtxTypes' /\ CtxWalk'
    BY <1>0, <1>1, VisitWalks
  <2>2. CtxSelect'
    <3>1. /\ ctxAt = "refreshed"
          /\ UNCHANGED <<ctxAt, ctxTodo, ctxSelected, ctxOmitted, ctxTotal, ctxGiven, ctxLevel>>
      BY <1>1 DEF Ctx!Visit
    <3> QED
      BY <1>0, <3>1 DEF CtxSelect, CtxSearching
  <2>3. CtxLazy'
    <3>1. UNCHANGED <<ctxAt, ctxLessons, ctxSkills, ctxIndex, ctxMenu>>
      BY <1>1 DEF Ctx!Visit
    <3> QED
      BY <1>0, <3>1, LazyStays
  <2> QED
    BY <2>1, <2>2, <2>3 DEF CtxInv
<1>2. ASSUME UNCHANGED <<ctxOwn, ctxDeps, ctxFresh, ctxCalls, ctxFound, ctxLessons, ctxSkills, ctxIndex, ctxMenu>>,
             ctxAt' \in {"selecting", "selected", "graded", "failed"},
             UNCHANGED ctxDisk \/ (ctxDisk \in [CtxPaths -> {"same", "edited", "gone"}])',
             CtxSelect'
      PROVE  CtxInv'
  <2>1. (ctxDisk \in [CtxPaths -> {"same", "edited", "gone"}])'
    BY <1>0, <1>2 DEF CtxTypes
  <2>2. CtxTypes' /\ CtxWalk'
    BY <1>0, <1>2, <2>1, SearchStays
  <2>3. CtxLazy'
    BY <1>0, <1>2, LazyStays
  <2> QED
    BY <1>2, <2>2, <2>3 DEF CtxInv
<1>3. CASE Ctx!Sort
  <2>1. CtxSelect'
    BY <1>0, <1>3, SelectStarts
  <2> QED
    BY <1>2, <1>3, <2>1 DEF Ctx!Sort
<1>4. CASE Ctx!Take
  <2>1. CtxSelect'
    BY <1>0, <1>4, SelectTakes
  <2> QED
    BY <1>2, <1>4, <2>1 DEF Ctx!Take
<1>5. CASE Ctx!Omit
  <2>1. CtxSelect'
    BY <1>0, <1>5, SelectOmits
  <2> QED
    BY <1>2, <1>5, <2>1 DEF Ctx!Omit
<1>6. CASE Ctx!ReadFails
  <2>1. /\ ctxAt = "selecting" /\ ctxAt' = "failed"
        /\ UNCHANGED <<ctxOwn, ctxDeps, ctxFresh, ctxCalls, ctxFound, ctxDisk, ctxTodo, ctxSelected,
                       ctxOmitted, ctxTotal, ctxGiven, ctxLevel, ctxLessons, ctxSkills, ctxIndex, ctxMenu>>
    BY <1>6 DEF Ctx!ReadFails, Ctx!Step
  <2>2. CtxSelect'
    BY <1>0, <2>1, SelectSteps
  <2> QED
    BY <1>2, <2>1, <2>2
<1>7. CASE Ctx!Audit
  <2>1. /\ ctxAt = "selecting" /\ ctxAt' = "selected" /\ ctxTodo = <<>>
        /\ UNCHANGED <<ctxOwn, ctxDeps, ctxFresh, ctxCalls, ctxFound, ctxDisk, ctxTodo, ctxSelected,
                       ctxOmitted, ctxTotal, ctxGiven, ctxLevel, ctxLessons, ctxSkills, ctxIndex, ctxMenu>>
    BY <1>7 DEF Ctx!Audit, Ctx!Step
  <2>2. CtxSelect'
    BY <1>0, <2>1, SelectSteps
  <2> QED
    BY <1>2, <2>1, <2>2
<1>8. CASE Ctx!Monitor
  <2>1. /\ ctxAt = "selected" /\ ctxAt' = "graded" /\ ctxLevel' = Ctx!Level(ctxTotal, Budget)
        /\ UNCHANGED <<ctxOwn, ctxDeps, ctxFresh, ctxCalls, ctxFound, ctxDisk, ctxTodo, ctxSelected,
                       ctxOmitted, ctxTotal, ctxGiven, ctxLessons, ctxSkills, ctxIndex, ctxMenu>>
    BY <1>8 DEF Ctx!Monitor, Ctx!Step
  <2>2. ctxTodo = <<>>
    BY <1>0, <2>1 DEF CtxSelect
  <2>3. CtxSelect'
    BY <1>0, <2>1, <2>2, SelectSteps
  <2> QED
    BY <1>2, <2>1, <2>3
<1>9. ASSUME NEW p \in CtxPaths, Ctx!Disturb(p) PROVE CtxInv'
  <2>1. /\ ctxAt = "selecting" /\ UNCHANGED ctxAt
        /\ UNCHANGED <<ctxOwn, ctxDeps, ctxFresh, ctxCalls, ctxFound, ctxTodo, ctxSelected,
                       ctxOmitted, ctxTotal, ctxGiven, ctxLevel, ctxLessons, ctxSkills, ctxIndex, ctxMenu>>
    BY <1>9 DEF Ctx!Disturb
  <2>2. PICK how \in {"edited", "gone"} : ctxDisk' = [ctxDisk EXCEPT ![p] = how]
    BY <1>9 DEF Ctx!Disturb
  <2>3. (ctxDisk \in [CtxPaths -> {"same", "edited", "gone"}])'
    BY <1>0, <2>2 DEF CtxTypes
  <2>5. \A q \in CtxPaths : ctxDisk[q] = "same"
    BY <1>9 DEF Ctx!Disturb
  <2>4. CtxSelect'
    BY <1>0, <2>1, <2>5, SelectStays
  <2> QED
    BY <1>2, <2>1, <2>3, <2>4
<1>10. ASSUME UNCHANGED <<ctxOwn, ctxDeps, ctxFresh, ctxCalls, ctxFound, ctxDisk, ctxTodo, ctxSelected,
                          ctxOmitted, ctxTotal, ctxGiven, ctxLevel>>,
              ctxAt = "lazy", ctxAt' \in {"lazy", "built"}, CtxLazy'
       PROVE  CtxInv'
  <2>1. (ctxDisk \in [CtxPaths -> {"same", "edited", "gone"}])'
    BY <1>0, <1>10 DEF CtxTypes
  <2>2. CtxTypes' /\ CtxWalk'
    BY <1>0, <1>10, <2>1, SearchStays
  <2>3. CtxSelect'
    BY <1>0, <1>10 DEF CtxSelect, CtxSearching
  <2> QED
    BY <1>10, <2>2, <2>3 DEF CtxInv
<1>11. CASE Ctx!TrimLesson
  <2>1. CtxLazy'
    BY <1>0, <1>11, LessonTrimmed
  <2> QED
    BY <1>10, <1>11, <2>1 DEF Ctx!TrimLesson, Ctx!Trim
<1>12. CASE Ctx!TrimSkill
  <2>1. CtxLazy'
    BY <1>0, <1>12, SkillTrimmed
  <2> QED
    BY <1>10, <1>12, <2>1 DEF Ctx!TrimSkill, Ctx!Trim
<1>13. CASE Ctx!Build
  <2>1. /\ ctxAt = "lazy" /\ ctxAt' = "built" /\ ~(Ctx!OverBudget /\ ctxIndex \cup ctxMenu # {})
        /\ UNCHANGED <<ctxOwn, ctxDeps, ctxFresh, ctxCalls, ctxFound, ctxDisk, ctxTodo, ctxSelected,
                       ctxOmitted, ctxTotal, ctxGiven, ctxLevel, ctxLessons, ctxSkills, ctxIndex, ctxMenu>>
    BY <1>13 DEF Ctx!Build, Ctx!Step
  <2>2. CtxLazy'
    BY <1>0, <2>1, LazyStays
  <2> QED
    BY <1>10, <2>1, <2>2
<1>14. CASE UNCHANGED ctxVars
  <2> USE <1>14 DEF ctxVars
  <2>1. (ctxDisk \in [CtxPaths -> {"same", "edited", "gone"}])'
        /\ ctxAt' \in {"refreshed", "selecting", "selected", "graded", "failed", "lazy", "built"}
    BY <1>0 DEF CtxTypes
  <2>2. CtxTypes' /\ CtxWalk'
    BY <1>0, <2>1, SearchStays
  <2>3. CtxSelect' /\ CtxLazy'
    BY <1>0, SelectStays, LazyStays
  <2> QED
    BY <2>2, <2>3 DEF CtxInv
<1> QED
  BY <1>1, <1>3, <1>4, <1>5, <1>6, <1>7, <1>8, <1>9, <1>11, <1>12, <1>13, <1>14 DEF Ctx!Next

LEMMA CtxIsTyped == CtxInv => Ctx!TypeOK
BY DEF CtxInv, CtxTypes, CtxSelect, CtxLazy, Ctx!TypeOK

-----------------------------------------------------------------------------
\* What is made for a reader is right: an agent's context is found at its shortest
\* distance and no emptier than it must be, fresh and within the budget by what the
\* refresh had found, and so are the texts that were not edited since; what `forge
\* trace` lists is in the order in which it happened and hides no failure, but for
\* runs where the event log could not be read; lines that were cut cost at most one
\* entry each; the sink does not go back unless emissions overlapped or could not read
\* the event log; and `forge cost` and the cap charge the same spend: for any
\* graph of artifacts, any costs, budget, number of runs, entries, commands and prices.
THEOREM ReportsTrue == FilesSpec => []ReportsAreRight
<1>1. FilesInit => TraceInv /\ CostInv /\ CtxInv
  BY TraceFirst, CostFirst, CtxFirst DEF FilesInit
<1>2. TraceInv /\ CostInv /\ CtxInv /\ [FilesNext]_filesVars => TraceInv' /\ CostInv' /\ CtxInv'
  <2> SUFFICES ASSUME TraceInv, CostInv, CtxInv, [FilesNext]_filesVars PROVE TraceInv' /\ CostInv' /\ CtxInv'
    OBVIOUS
  <2>1. Tr!Next \/ UNCHANGED trVars
    BY DEF FilesNext, filesVars
  <2>2. Cost!Next \/ UNCHANGED costVars
    BY DEF FilesNext, filesVars
  <2>3. Ctx!Next \/ UNCHANGED ctxVars
    BY DEF FilesNext, filesVars
  <2> QED
    BY <2>1, <2>2, <2>3, TraceNext, CostNext, CtxNext
<1>3. TraceInv /\ CostInv /\ CtxInv => ReportsAreRight
  <2> SUFFICES ASSUME TraceInv, CostInv, CtxInv PROVE ReportsAreRight
    OBVIOUS
  <2>1. Tr!SinkGoesForward
    BY DEF TraceInv, TraceSink, Tr!SinkGoesForward
  <2> QED
    BY <2>1, TracesTrue, TornCostOne, SpendWhole, Distances, SelectionFull, LazyTrimmed
    DEF ReportsAreRight, CtxInv
<1> QED
  BY <1>1, <1>2, <1>3, PTL DEF FilesSpec

-----------------------------------------------------------------------------
(* The form of what is stored: lessons                                     *)

LsOperations ==
  [at : {"idle", "scanned", "loaded", "open"}, op : LS!Ops, ids : SUBSET LS!Ids, doc : Seq(LS!Lesson)]

LsForm ==
  /\ lsNow \in 0..MaxDays /\ lsMade \in 0..MaxLessons
  /\ lessons = LS!Garbled \/ \E doc \in Seq(LS!Lesson) : lessons = LS!Text(doc)
  /\ lsProc \in [Procs -> LsOperations]
  /\ wanted \in [LS!Ids -> {"pending", "approved", "deprecated"}]
  /\ vetted \subseteq LS!Ids /\ injected \subseteq LS!Ids /\ lsDisturbed \in BOOLEAN

LEMMA LsConstants ==
  /\ MaxDays \in Nat /\ MaxLessons \in Nat /\ Faint \in Nat /\ PerUnit \in Nat /\ IdleLimit \in Nat
  /\ LS!Never = MaxDays + 1 /\ LS!Ids = 1..MaxLessons
BY LessonsAssumption DEF LS!LessonsAssumption, LS!Never, LS!Ids

LEMMA LsExtremes ==
  /\ \A a \in Nat, b \in Nat : LS!Min({a, b}) \in Nat
  /\ \A a \in Int : LS!Max({0, a}) \in Nat
<1>1. ASSUME NEW a \in Nat, NEW b \in Nat PROVE LS!Min({a, b}) \in Nat
  <2>1. \E x \in {a, b} : \A y \in {a, b} : x <= y
    BY <1>1
  <2>2. LS!Min({a, b}) \in {a, b}
    BY <2>1 DEF LS!Min
  <2> QED
    BY <1>1, <2>2
<1>2. ASSUME NEW a \in Int PROVE LS!Max({0, a}) \in Nat
  <2>1. \E x \in {0, a} : \A y \in {0, a} : x >= y
    BY <1>2
  <2>2. LS!Max({0, a}) \in {0, a} /\ \A y \in {0, a} : LS!Max({0, a}) >= y
    BY <2>1 DEF LS!Max
  <2> QED
    BY <1>2, <2>2
<1> QED
  BY <1>1, <1>2

LEMMA LessonFades ==
  ASSUME lsNow \in 0..MaxDays, NEW l \in LS!Lesson
  PROVE  LS!Faded(l) \in LS!Lesson
<1>1. LS!IdleTime(l) \in Nat
  <2>1. lsNow - (IF l.used # LS!Never THEN l.used ELSE l.approved) \in Int
    BY LsConstants DEF LS!Lesson
  <2> QED
    BY <2>1, LsExtremes DEF LS!IdleTime
<1>2. PerUnit * LS!IdleTime(l) \in Nat
  BY <1>1, LsConstants
<1>3. l.faded + PerUnit * LS!IdleTime(l) \in Nat
  BY <1>2 DEF LS!Lesson
<1>4. PICK f : f = LS!Min({Faint, l.faded + PerUnit * LS!IdleTime(l)})
  OBVIOUS
<1>5. f \in Nat
  BY <1>3, <1>4, LsExtremes, LsConstants
<1>6. PICK d \in BOOLEAN : d = (f = Faint \/ LS!IdleTime(l) > IdleLimit)
  OBVIOUS
<1>7. LS!Faded(l) = [l EXCEPT !.faded = f, !.dormant = d]
  BY <1>4, <1>6 DEF LS!Faded
<1> QED
  BY <1>5, <1>7 DEF LS!Lesson

LEMMA LessonChanges ==
  ASSUME lsNow \in 0..MaxDays, NEW l \in LS!Lesson
  PROVE  /\ [l EXCEPT !.status = "approved", !.approved = lsNow] \in LS!Lesson
         /\ [l EXCEPT !.status = "deprecated"] \in LS!Lesson
         /\ [l EXCEPT !.dormant = FALSE] \in LS!Lesson
         /\ [l EXCEPT !.used = lsNow] \in LS!Lesson
<1>1. lsNow \in 0..LS!Never
  BY LsConstants
<1>2. [l EXCEPT !.status = "approved", !.approved = lsNow] \in LS!Lesson
  BY <1>1 DEF LS!Lesson
<1>3. [l EXCEPT !.status = "deprecated"] \in LS!Lesson
  BY DEF LS!Lesson
<1>4. [l EXCEPT !.dormant = FALSE] \in LS!Lesson
  BY DEF LS!Lesson
<1>5. [l EXCEPT !.used = lsNow] \in LS!Lesson
  BY <1>1 DEF LS!Lesson
<1> QED
  BY <1>2, <1>3, <1>4, <1>5

LEMMA DocumentsChange ==
  ASSUME lsNow \in 0..MaxDays, NEW doc \in Seq(LS!Lesson), NEW id, NEW ids
  PROVE  /\ LS!Approved(doc, id) \in Seq(LS!Lesson) /\ LS!Deprecated(doc, id) \in Seq(LS!Lesson)
         /\ LS!Revived(doc, id) \in Seq(LS!Lesson) /\ LS!Used(doc, ids) \in Seq(LS!Lesson)
         /\ LS!Decayed(doc) \in Seq(LS!Lesson)
<1>1. DOMAIN doc = 1..Len(doc) /\ Len(doc) \in Nat /\ \A i \in DOMAIN doc : doc[i] \in LS!Lesson
  OBVIOUS
<1>2. LS!Approved(doc, id) \in Seq(LS!Lesson)
  <2>1. LS!Approved(doc, id) =
          [i \in 1..Len(doc) |-> IF doc[i].id \in {id}
                            THEN [doc[i] EXCEPT !.status = "approved", !.approved = lsNow] ELSE doc[i]]
    BY <1>1 DEF LS!Approved, LS!Change
  <2>2. LS!Approved(doc, id) \in [1..Len(doc) -> LS!Lesson]
    BY <1>1, <2>1, LessonChanges
  <2> QED
    BY <1>1, <2>2, SeqDef
<1>3. LS!Deprecated(doc, id) \in Seq(LS!Lesson)
  <2>1. LS!Deprecated(doc, id) =
          [i \in 1..Len(doc) |-> IF doc[i].id \in {id} THEN [doc[i] EXCEPT !.status = "deprecated"] ELSE doc[i]]
    BY <1>1 DEF LS!Deprecated, LS!Change
  <2>2. LS!Deprecated(doc, id) \in [1..Len(doc) -> LS!Lesson]
    BY <1>1, <2>1, LessonChanges
  <2> QED
    BY <1>1, <2>2, SeqDef
<1>4. LS!Revived(doc, id) \in Seq(LS!Lesson)
  <2>1. LS!Revived(doc, id) =
          [i \in 1..Len(doc) |-> IF doc[i].id \in {id} THEN [doc[i] EXCEPT !.dormant = FALSE] ELSE doc[i]]
    BY <1>1 DEF LS!Revived, LS!Change
  <2>2. LS!Revived(doc, id) \in [1..Len(doc) -> LS!Lesson]
    BY <1>1, <2>1, LessonChanges
  <2> QED
    BY <1>1, <2>2, SeqDef
<1>5. LS!Used(doc, ids) \in Seq(LS!Lesson)
  <2>1. LS!Used(doc, ids) =
          [i \in 1..Len(doc) |-> IF doc[i].id \in ids THEN [doc[i] EXCEPT !.used = lsNow] ELSE doc[i]]
    BY <1>1 DEF LS!Used, LS!Change
  <2>2. LS!Used(doc, ids) \in [1..Len(doc) -> LS!Lesson]
    BY <1>1, <2>1, LessonChanges
  <2> QED
    BY <1>1, <2>2, SeqDef
<1>6. LS!Decayed(doc) \in Seq(LS!Lesson)
  BY <1>1, LessonFades, SeqDef DEF LS!Decayed
<1> QED
  BY <1>2, <1>3, <1>4, <1>5, <1>6

LEMMA DocumentGrows ==
  ASSUME NEW doc \in Seq(LS!Lesson), NEW topic \in Topics, lsMade \in 0..MaxLessons, lsMade < MaxLessons
  PROVE  LS!Added(doc, topic) \in Seq(LS!Lesson) /\ {lsMade + 1} \subseteq LS!Ids
<1>1. lsMade + 1 \in LS!Ids /\ LS!Never \in 0..LS!Never
  BY LsConstants
<1>2. [id |-> lsMade + 1, topic |-> topic, status |-> "pending", faded |-> 0, used |-> LS!Never,
       approved |-> LS!Never, dormant |-> FALSE] \in LS!Lesson
  BY <1>1 DEF LS!Lesson
<1> QED
  BY <1>1, <1>2 DEF LS!Added

LEMMA LsFormFirst == LS!Init => LsForm
<1> SUFFICES ASSUME LS!Init PROVE LsForm
  OBVIOUS
<1>1. <<>> \in Seq(LS!Lesson)
  OBVIOUS
<1>2. LS!Idle \in LsOperations
  BY <1>1 DEF LS!Idle, LS!Ops, LsOperations
<1>3. lsNow \in 0..MaxDays /\ lsMade \in 0..MaxLessons
  BY LsConstants DEF LS!Init
<1> QED
  BY <1>1, <1>2, <1>3 DEF LS!Init, LS!Undecided, LsForm, LS!Empty

LEMMA LsFormNext == LsForm /\ [LS!Next]_lsVars => LsForm'
<1> SUFFICES ASSUME LsForm, [LS!Next]_lsVars PROVE LsForm'
  OBVIOUS
<1> USE DEF LsForm
<1>0. <<>> \in Seq(LS!Lesson) /\ LS!Idle \in LsOperations
  BY DEF LS!Idle, LS!Ops, LsOperations
<1>1. LS!Readable => lessons.doc \in Seq(LS!Lesson) /\ LS!Selectable(lessons.doc) \subseteq LS!Ids
                     /\ LS!IdsOf(lessons.doc) \subseteq LS!Ids
  <2>1. SUFFICES ASSUME LS!Readable PROVE lessons.doc \in Seq(LS!Lesson)
                     /\ LS!Selectable(lessons.doc) \subseteq LS!Ids /\ LS!IdsOf(lessons.doc) \subseteq LS!Ids
    OBVIOUS
  <2>2. PICK doc \in Seq(LS!Lesson) : lessons = LS!Text(doc)
    BY <2>1 DEF LS!Readable
  <2>3. lessons.doc = doc
    BY <2>2 DEF LS!Text
  <2>4. \A i \in DOMAIN doc : doc[i] \in LS!Lesson
    OBVIOUS
  <2> QED
    BY <2>3, <2>4 DEF LS!Selectable, LS!IdsOf, LS!Lesson
<1>16. ASSUME NEW p \in Procs, LS!Reads(p)
       PROVE  lsDisturbed' \in BOOLEAN /\ wanted' \in [LS!Ids -> {"pending", "approved", "deprecated"}]
  BY <1>16 DEF LS!Reads, LS!Undecided
\* An operation that has read the file.
<1>2. ASSUME NEW p \in Procs, NEW op \in LS!Ops, NEW ids \in SUBSET LS!Ids, NEW doc \in Seq(LS!Lesson),
             LS!Load(p, op, ids, doc), lsMade' \in 0..MaxLessons,
             UNCHANGED <<lessons, lsNow, vetted, injected>>
      PROVE  LsForm'
  <2>1. lsProc' \in [Procs -> LsOperations]
    BY <1>2 DEF LS!Load, LsOperations
  <2>2. LS!Reads(p)
    BY <1>2 DEF LS!Load
  <2> QED
    BY <1>2, <1>16, <2>1, <2>2
<1>3. ASSUME NEW p \in Procs, NEW op \in LS!Ops, NEW ids \in SUBSET LS!Ids, LS!Scan(p, op, ids),
             UNCHANGED <<lessons, lsNow, lsMade, vetted, injected>>
      PROVE  LsForm'
  <2>1. lsProc' \in [Procs -> LsOperations]
    BY <1>0, <1>3 DEF LS!Scan, LsOperations
  <2>2. LS!Reads(p)
    BY <1>3 DEF LS!Scan
  <2> QED
    BY <1>3, <1>16, <2>1, <2>2
<1>4. CASE LS!Tick
  BY <1>4, LsConstants DEF LS!Tick
<1>5. ASSUME NEW p \in Procs, NEW topic \in Topics, LS!LoadToAdd(p, topic) \/ LS!LoadToPropose(p, topic)
      PROVE  LsForm'
  <2>1. lsMade < MaxLessons /\ LS!Readable /\ lsMade' = lsMade + 1
    BY <1>5 DEF LS!LoadToAdd, LS!LoadToPropose
  <2>2. LS!Added(lessons.doc, topic) \in Seq(LS!Lesson) /\ {lsMade + 1} \subseteq LS!Ids
    BY <1>1, <2>1, DocumentGrows
  <2>3. lsMade' \in 0..MaxLessons /\ "add" \in LS!Ops
    BY <2>1, LsConstants DEF LS!Ops
  <2>4. LS!Load(p, "add", {lsMade + 1}, LS!Added(lessons.doc, topic)) /\ UNCHANGED <<lessons, lsNow, vetted, injected>>
    BY <1>5 DEF LS!LoadToAdd, LS!LoadToPropose
  <2> QED
    BY <1>2, <2>2, <2>3, <2>4
<1>6. ASSUME NEW p \in Procs, NEW id \in LS!Ids, LS!LoadToDecide(p, id)
      PROVE  LsForm'
  <2>1. {"approve", "deprecate", "revive"} \subseteq LS!Ops /\ {id} \in SUBSET LS!Ids
    BY DEF LS!Ops
  <2>2. PICK doc \in Seq(LS!Lesson), op \in {"approve", "deprecate", "revive"} : LS!Load(p, op, {id}, doc)
    BY <1>1, <1>6, DocumentsChange DEF LS!LoadToDecide
  <2> QED
    BY <1>2, <1>6, <2>1, <2>2 DEF LS!LoadToDecide
<1>7. ASSUME NEW p \in Procs, LS!LoadToDecay(p) PROVE LsForm'
  <2>1. LS!Decayed(lessons.doc) \in Seq(LS!Lesson) /\ "decay" \in LS!Ops
    BY <1>1, <1>7, DocumentsChange DEF LS!LoadToDecay, LS!Ops
  <2> QED
    BY <1>2, <1>7, <2>1 DEF LS!LoadToDecay
<1>8. ASSUME NEW p \in Procs, LS!Select(p) PROVE LsForm'
  <2>1. "render" \in LS!Ops
    BY DEF LS!Ops
  <2> QED
    BY <1>1, <1>3, <1>8, <2>1 DEF LS!Select
<1>9. ASSUME NEW p \in Procs, LS!LoadToRender(p) PROVE LsForm'
  <2>1. "render" \in LS!Ops /\ lsProc[p].ids \in SUBSET LS!Ids
    BY DEF LS!Ops, LsOperations
  <2>2. LS!Used(lessons.doc, lsProc[p].ids) \in Seq(LS!Lesson)
    BY <1>1, <1>9, DocumentsChange DEF LS!LoadToRender
  <2> QED
    BY <1>2, <1>9, <2>1, <2>2 DEF LS!LoadToRender
<1>10. ASSUME NEW p \in Procs, LS!ScanReflections(p) PROVE LsForm'
  <2>1. "reingest" \in LS!Ops /\ {} \in SUBSET LS!Ids
    BY DEF LS!Ops
  <2> QED
    BY <1>3, <1>10, <2>1 DEF LS!ScanReflections
<1>11. ASSUME NEW p \in Procs, LS!ScanFails(p) \/ LS!Kill(p) PROVE LsForm'
  BY <1>0, <1>11 DEF LS!ScanFails, LS!Kill
<1>12. ASSUME NEW p \in Procs, LS!Open(p) PROVE LsForm'
  <2>1. lsProc' \in [Procs -> LsOperations]
    BY <1>12 DEF LS!Open, LsOperations
  <2> QED
    BY <1>0, <1>12, <2>1 DEF LS!Open, LS!Empty
<1>13. ASSUME NEW p \in Procs, LS!Write(p) PROVE LsForm'
  <2>1. lsProc[p].ids \subseteq LS!Ids /\ lsProc[p].doc \in Seq(LS!Lesson)
    BY DEF LsOperations
  <2>2. wanted' \in [LS!Ids -> {"pending", "approved", "deprecated"}] /\ injected' \subseteq LS!Ids /\ vetted' \subseteq LS!Ids
    BY <1>13, <2>1 DEF LS!Write, LS!Returns
  <2> QED
    BY <1>0, <1>13, <2>1, <2>2 DEF LS!Write
<1>14. ASSUME NEW p \in Procs, LS!WriteIsCut(p) PROVE LsForm'
  BY <1>0, <1>14 DEF LS!WriteIsCut, LS!Undecided
<1>15. CASE UNCHANGED lsVars
  BY <1>15 DEF lsVars
<1> QED
  BY <1>4, <1>5, <1>6, <1>7, <1>8, <1>9, <1>10, <1>11, <1>12, <1>13, <1>14, <1>15 DEF LS!Next

LEMMA LsIsTyped == LsForm => LS!TypeOK
BY DEF LsForm, LS!TypeOK, LsOperations, LS!Text, LS!Garbled

-----------------------------------------------------------------------------
(* The form of what is stored: a user's files                              *)

UsOperationForm(o) ==
  /\ DOMAIN o = {"at", "op", "project", "doc"}
  /\ o.at \in {"idle", "loaded", "open"} /\ o.project \subseteq Projects
  /\ \/ o.op \in US!Statuses \cup {"none"} /\ o.doc = <<>>
     \/ o.op = "profile" /\ US!IsProfiles(o.doc)
     \/ o.op \in Topics /\ US!IsMemory(o.doc)
  /\ o.at # "idle" => o.op # "none"

UsForm ==
  /\ memory = US!Garbled \/ US!IsMemory(memory)
  /\ profiles = US!Garbled \/ US!IsProfiles(profiles)
  /\ skill \in US!Statuses \cup {"absent", "empty"}
  /\ DOMAIN usProc = Procs /\ \A p \in Procs : UsOperationForm(usProc[p])
  /\ promoted \in [Topics -> SUBSET Projects] /\ returned \in [Topics -> SUBSET Projects]
  /\ blessed \in BOOLEAN /\ usDisturbed \in BOOLEAN

LEMMA UsIdleForm == UsOperationForm(US!Idle) /\ US!IsMemory(<<>>) /\ US!IsProfiles(<<>>)
<1>1. /\ DOMAIN US!Idle = {"at", "op", "project", "doc"} /\ US!Idle.at = "idle"
      /\ US!Idle.op = "none" /\ US!Idle.project = {} /\ US!Idle.doc = <<>>
  BY DEF US!Idle
<1>2. DOMAIN <<>> = {}
  OBVIOUS
<1> QED
  BY <1>1, <1>2 DEF UsOperationForm, US!IsMemory, US!IsProfiles

LEMMA UsFormFirst == US!Init => UsForm
BY UsIdleForm DEF US!Init, US!Unasked, UsForm

\* A document of profiles, too, gains a key and a value.
LEMMA WithIsProfiles ==
  ASSUME NEW doc, US!IsProfiles(doc), NEW project \in Projects, NEW pattern \in Patterns
  PROVE  US!IsProfiles(US!With(doc, project, pattern))
<1> DEFINE new == US!With(doc, project, pattern)
<1>1. /\ DOMAIN new = DOMAIN doc \cup {project}
      /\ \A k \in DOMAIN new : new[k] = US!Of(doc, k) \cup (IF k = project THEN {pattern} ELSE {})
  BY DEF US!With
<1> HIDE DEF new
<1>2. US!IsProfiles(new)
  BY <1>1 DEF US!IsProfiles, US!Of
<1> QED
  BY <1>2 DEF new

\* An operation goes on, or ends.
LEMMA UsFormMoves ==
  ASSUME DOMAIN usProc = Procs, \A q \in Procs : UsOperationForm(usProc[q]),
         NEW p \in Procs, NEW o, UsOperationForm(o), usProc' = [usProc EXCEPT ![p] = o]
  PROVE  DOMAIN usProc' = Procs /\ \A q \in Procs : UsOperationForm(usProc'[q])
OBVIOUS

LEMMA UsFormNext == UsForm /\ [US!Next]_usVars => UsForm'
<1> SUFFICES ASSUME UsForm, [US!Next]_usVars PROVE UsForm'
  OBVIOUS
<1>0. /\ DOMAIN usProc = Procs /\ \A q \in Procs : UsOperationForm(usProc[q])
      /\ UsOperationForm(US!Idle) /\ US!IsMemory(<<>>) /\ US!IsProfiles(<<>>)
  BY UsIdleForm DEF UsForm
\* An operation that has read its file.
<1>1. ASSUME NEW p \in Procs, NEW op, NEW project, NEW doc, US!Load(p, op, project, doc), project \subseteq Projects,
             \/ op \in US!Statuses /\ doc = <<>>
             \/ op = "profile" /\ US!IsProfiles(doc)
             \/ op \in Topics /\ US!IsMemory(doc),
             UNCHANGED <<memory, profiles, skill>>,
             promoted' \in [Topics -> SUBSET Projects], blessed' \in BOOLEAN
      PROVE  UsForm'
  <2> DEFINE o == [at |-> "loaded", op |-> op, project |-> project, doc |-> doc]
  <2>1. /\ o.at = "loaded" /\ o.op = op /\ o.project = project /\ o.doc = doc
        /\ DOMAIN o = {"at", "op", "project", "doc"}
    OBVIOUS
  <2>2. usProc' = [usProc EXCEPT ![p] = o]
    BY <1>1 DEF US!Load
  <2> HIDE DEF o
  <2>3. UsOperationForm(o)
    BY <1>1, <2>1, UsWords DEF UsOperationForm, US!Statuses
  <2>4. DOMAIN usProc' = Procs /\ \A q \in Procs : UsOperationForm(usProc'[q])
    BY <1>0, <2>2, <2>3, UsFormMoves
  <2>5. usDisturbed' \in BOOLEAN /\ returned' \in [Topics -> SUBSET Projects]
    BY <1>1 DEF US!Load, US!Unasked, UsForm
  <2> QED
    BY <1>1, <2>4, <2>5 DEF UsForm
<1>2. ASSUME NEW p \in Procs, NEW project \in Projects, NEW text \in Topics, US!LoadToPromote(p, project, text)
      PROVE  UsForm'
  <2>1. US!IsMemory(US!Readable(memory))
    BY <1>0 DEF UsForm, US!Readable
  <2>2. US!IsMemory(US!Recorded(US!Readable(memory), text, project))
    BY <2>1, WithTells DEF US!Recorded
  <2>3. promoted' \in [Topics -> SUBSET Projects]
    BY <1>2 DEF US!LoadToPromote, UsForm
  <2> QED
    BY <1>1, <1>2, <2>2, <2>3 DEF US!LoadToPromote, UsForm
<1>3. ASSUME NEW p \in Procs, NEW project \in Projects, NEW pattern \in Patterns, US!LoadToProfile(p, project, pattern)
      PROVE  UsForm'
  <2>1. US!IsProfiles(US!Readable(profiles))
    BY <1>0 DEF UsForm, US!Readable
  <2>2. US!IsProfiles(US!With(US!Readable(profiles), project, pattern))
    BY <2>1, WithIsProfiles
  <2> QED
    BY <1>1, <1>3, <2>2 DEF US!LoadToProfile, UsForm
<1>4. ASSUME NEW p \in Procs, US!LoadToPropose(p) \/ US!LoadToApprove(p) \/ US!LoadToInstall(p)
      PROVE  UsForm'
  <2>1. PICK op \in US!Statuses : US!Load(p, op, {}, <<>>)
    BY <1>4 DEF US!LoadToPropose, US!LoadToApprove, US!LoadToInstall, US!Statuses
  <2>2. UNCHANGED <<memory, profiles, skill, promoted>> /\ blessed' \in BOOLEAN
    BY <1>4 DEF US!LoadToPropose, US!LoadToApprove, US!LoadToInstall, UsForm
  <2> QED
    BY <1>1, <2>1, <2>2 DEF UsForm
\* What is written, of the operation's own store.
<1>5. ASSUME NEW p \in Procs, usProc[p].at # "idle", NEW doc, NEW text, US!Rewrites(p, doc, text),
             text \in US!Statuses => usProc[p].op = text, text \in US!Statuses \cup {"empty"} \/ usProc[p].op \notin US!Statuses,
             doc = US!Garbled \/ doc = <<>> \/ doc = usProc[p].doc
      PROVE  /\ memory' = US!Garbled \/ US!IsMemory(memory')
             /\ profiles' = US!Garbled \/ US!IsProfiles(profiles')
             /\ skill' \in US!Statuses \cup {"absent", "empty"}
  <2>1. UsOperationForm(usProc[p])
    BY <1>0
  <2>2. CASE usProc[p].op \in US!Statuses
    <3>1. skill' = text /\ UNCHANGED <<memory, profiles>>
      <4>1. usProc[p].op # "profile"
        BY <2>2 DEF US!Statuses
      <4> QED
        BY <1>5, <2>2, <4>1 DEF US!Rewrites
    <3>2. text \in US!Statuses \cup {"empty"}
      BY <1>5, <2>2
    <3> QED
      BY <3>1, <3>2 DEF UsForm
  <2>3. CASE usProc[p].op = "profile"
    BY <1>0, <1>5, <2>1, <2>3, UsWords DEF UsForm, US!Rewrites, US!Statuses, UsOperationForm
  <2>4. CASE usProc[p].op \in Topics
    BY <1>0, <1>5, <2>1, <2>4, UsWords DEF UsForm, US!Rewrites, US!Statuses, UsOperationForm
  <2> QED
    BY <1>5, <2>1, <2>2, <2>3, <2>4 DEF UsOperationForm
<1>6. ASSUME NEW p \in Procs, US!Open(p) PROVE UsForm'
  <2>1. usProc[p].at = "loaded" /\ US!Rewrites(p, <<>>, "empty") /\ UsOperationForm(usProc[p])
    BY <1>0, <1>6 DEF US!Open
  <2>2. "empty" \notin US!Statuses
    BY DEF US!Statuses
  <2>3. /\ memory' = US!Garbled \/ US!IsMemory(memory')
        /\ profiles' = US!Garbled \/ US!IsProfiles(profiles')
        /\ skill' \in US!Statuses \cup {"absent", "empty"}
    BY <1>5, <2>1, <2>2
  <2>4. PICK o : o = [usProc[p] EXCEPT !.at = "open"]
    OBVIOUS
  <2>5. UsOperationForm(o)
    BY <2>1, <2>4 DEF UsOperationForm
  <2>6. usProc' = [usProc EXCEPT ![p] = o]
    BY <1>0, <1>6, <2>4 DEF US!Open
  <2>7. DOMAIN usProc' = Procs /\ \A q \in Procs : UsOperationForm(usProc'[q])
    BY <1>0, <2>5, <2>6, UsFormMoves
  <2> QED
    BY <1>6, <2>3, <2>7 DEF US!Open, UsForm
<1>7. ASSUME NEW p \in Procs, US!Write(p) PROVE UsForm'
  <2>1. usProc[p].at = "open" /\ US!Rewrites(p, usProc[p].doc, usProc[p].op) /\ UsOperationForm(usProc[p])
    BY <1>0, <1>7 DEF US!Write
  <2>2. /\ memory' = US!Garbled \/ US!IsMemory(memory')
        /\ profiles' = US!Garbled \/ US!IsProfiles(profiles')
        /\ skill' \in US!Statuses \cup {"absent", "empty"}
    BY <1>5, <2>1
  <2>3. DOMAIN usProc' = Procs /\ \A q \in Procs : UsOperationForm(usProc'[q])
    BY <1>0, <1>7, UsFormMoves DEF US!Write
  <2>4. returned' \in [Topics -> SUBSET Projects]
    BY <1>7, <2>1 DEF US!Write, UsForm, UsOperationForm
  <2> QED
    BY <1>7, <2>2, <2>3, <2>4 DEF US!Write, UsForm
<1>8. ASSUME NEW p \in Procs, US!WriteIsCut(p) PROVE UsForm'
  <2>1. "empty" \notin US!Statuses
    BY DEF US!Statuses
  <2>2. /\ memory' = US!Garbled \/ US!IsMemory(memory')
        /\ profiles' = US!Garbled \/ US!IsProfiles(profiles')
        /\ skill' \in US!Statuses \cup {"absent", "empty"}
    BY <1>5, <1>8, <2>1 DEF US!WriteIsCut, UsForm
  <2>3. DOMAIN usProc' = Procs /\ \A q \in Procs : UsOperationForm(usProc'[q])
    BY <1>0, <1>8, UsFormMoves DEF US!WriteIsCut
  <2> QED
    BY <1>8, <2>2, <2>3 DEF US!WriteIsCut, US!Unasked, UsForm
<1>9. CASE UNCHANGED usVars
  BY <1>9 DEF usVars, UsForm
<1> QED
  BY <1>2, <1>3, <1>4, <1>6, <1>7, <1>8, <1>9 DEF US!Next

LEMMA UsIsTyped == UsForm => US!TypeOK
<1> SUFFICES ASSUME UsForm PROVE US!TypeOK
  OBVIOUS
<1>1. ASSUME NEW p \in Procs
      PROVE  /\ usProc[p].at \in {"idle", "loaded", "open"} /\ usProc[p].project \subseteq Projects
             /\ CASE usProc[p].op \in US!Statuses \cup {"none"} -> usProc[p].doc = <<>>
                  [] usProc[p].op = "profile" -> US!IsProfiles(usProc[p].doc)
                  [] OTHER -> usProc[p].op \in Topics /\ US!IsMemory(usProc[p].doc)
  <2>1. UsOperationForm(usProc[p])
    BY DEF UsForm
  <2> QED
    BY <2>1, UsWords DEF UsOperationForm, US!Statuses
<1> QED
  BY <1>1 DEF UsForm, US!TypeOK

-----------------------------------------------------------------------------
(* The form of what is stored: extensions                                  *)

ExtOperationForm(o) == o.doc \subseteq Sources /\ o.consent \in BOOLEAN

ExtForm ==
  /\ exAudit \subseteq Ext!Decision \cup Ext!Unsigned /\ exRecorded \subseteq Sources
  /\ \A p \in Procs : ExtOperationForm(exProc[p])

LEMMA ExtFormFirst == Ext!Init => ExtForm
<1>1. ExtOperationForm(Ext!Idle)
  BY DEF ExtOperationForm, Ext!Idle
<1> QED
  BY <1>1 DEF Ext!Init, ExtForm

LEMMA ExtFormNext == ExtInv /\ ExtForm /\ [Ext!Next]_exVars => ExtForm'
<1> SUFFICES ASSUME ExtInv, ExtForm, [Ext!Next]_exVars PROVE ExtForm'
  OBVIOUS
<1>0. \A p \in Procs : ExtOperation(exProc[p]) /\ ExtOperationForm(exProc[p])
  BY DEF ExtInv, ExtForm
<1>00. ExtOperationForm(Ext!Idle) /\ DOMAIN exProc = Procs /\ index \subseteq Sources
  BY DEF ExtOperationForm, Ext!Idle, ExtInv, Lawful
\* The shapes an operation's step can take.
<1>1. ASSUME NEW p \in Procs, NEW o, ExtOperationForm(o), exProc' = [exProc EXCEPT ![p] = o]
      PROVE  \A q \in Procs : ExtOperationForm(exProc'[q])
  BY <1>0, <1>00, <1>1
<1>2. ASSUME NEW p \in Procs, NEW x, Ext!Goto(p, x)
      PROVE  \A q \in Procs : ExtOperationForm(exProc'[q])
  <2>1. PICK o : o = [exProc[p] EXCEPT !.at = x]
    OBVIOUS
  <2>2. ExtOperationForm(o)
    BY <1>0, <2>1 DEF ExtOperation, ExtOperationForm
  <2> QED
    BY <1>1, <1>2, <2>1, <2>2, <1>00 DEF Ext!Goto
<1>3. ASSUME NEW p \in Procs, Ext!Rejected(p)
      PROVE  \A q \in Procs : ExtOperationForm(exProc'[q])
  BY <1>1, <1>00, <1>3 DEF Ext!Rejected
<1>4. ASSUME NEW p \in Procs, NEW doc \in SUBSET Sources, exProc' = [exProc EXCEPT ![p].at = "writing", ![p].doc = doc]
      PROVE  \A q \in Procs : ExtOperationForm(exProc'[q])
  <2>1. PICK o : o = [exProc[p] EXCEPT !.at = "writing", !.doc = doc]
    OBVIOUS
  <2>2. ExtOperationForm(o)
    BY <1>0, <2>1 DEF ExtOperation, ExtOperationForm
  <2>3. exProc' = [exProc EXCEPT ![p] = o]
    BY <1>00, <1>4, <2>1
  <2> QED
    BY <1>1, <2>2, <2>3
<1>5. ASSUME NEW p \in Procs, NEW s \in Sources, NEW consent \in BOOLEAN, Ext!Install(p, s, consent)
      PROVE  ExtForm'
  <2>1. PICK o : o = [Ext!Idle EXCEPT !.at = "checking", !.source = {s}, !.consent = consent, !.todo = Permissions[s]]
    OBVIOUS
  <2>2. ExtOperationForm(o)
    BY <2>1 DEF ExtOperationForm, Ext!Idle
  <2> QED
    BY <1>1, <1>5, <2>1, <2>2 DEF Ext!Install, ExtForm
<1>6. ASSUME NEW p \in Procs, Ext!Check(p) PROVE ExtForm'
  <2>1. /\ exProc[p].at = "checking" /\ exProc[p].todo \in Seq(DOMAIN Policies) /\ exProc[p].todo # <<>>
        /\ exProc[p].source # {}
    BY <1>0, <1>6 DEF Ext!Check, ExtOperation
  <2>2. PICK c \in DOMAIN Policies : c = Head(exProc[p].todo)
    BY <2>1
  <2>3. Ext!Source(p) \in Sources /\ Ext!Decide(c) \in {"allowed", "warned", "denied"}
    BY <2>1, SourceIsOne DEF Ext!Decide
  <2>4. exAudit' = exAudit \cup {[source |-> Ext!Source(p), capability |-> c, decision |-> Ext!Decide(c)]}
    BY <1>6, <2>2 DEF Ext!Check
  <2>5. exAudit' \subseteq Ext!Decision \cup Ext!Unsigned
    BY <2>3, <2>4 DEF ExtForm, Ext!Decision
  <2>6. \A q \in Procs : ExtOperationForm(exProc'[q])
    <3>1. CASE Ext!Rejected(p)
      BY <1>3, <3>1
    <3>2. CASE exProc' = [exProc EXCEPT ![p].todo = Tail(@)]
      <4>1. PICK o : o = [exProc[p] EXCEPT !.todo = Tail(exProc[p].todo)]
        OBVIOUS
      <4>2. ExtOperationForm(o)
        BY <1>0, <4>1 DEF ExtOperation, ExtOperationForm
      <4>3. exProc' = [exProc EXCEPT ![p] = o]
        BY <1>00, <3>2, <4>1
      <4> QED
        BY <1>1, <4>2, <4>3
    <3> QED
      BY <1>6, <3>1, <3>2 DEF Ext!Check
  <2> QED
    BY <1>6, <2>5, <2>6 DEF Ext!Check, ExtForm
<1>7. ASSUME NEW p \in Procs, Ext!Checked(p) \/ Ext!Consent(p) \/ Ext!Kill(p) PROVE ExtForm'
  <2>1. \A q \in Procs : ExtOperationForm(exProc'[q])
    BY <1>2, <1>3, <1>7 DEF Ext!Checked, Ext!Consent, Ext!Kill
  <2> QED
    BY <1>7, <2>1 DEF Ext!Checked, Ext!Consent, Ext!Kill, ExtForm
<1>8. ASSUME NEW p \in Procs, Ext!LoadToRecord(p) PROVE ExtForm'
  <2>1. Ext!Source(p) \in Sources
    BY <1>0, <1>8, SourceIsOne DEF Ext!LoadToRecord, ExtOperation
  <2>2. Ext!With(index, Ext!Source(p)) \in SUBSET Sources
    BY <1>00, <2>1 DEF Ext!With
  <2>3. \A q \in Procs : ExtOperationForm(exProc'[q])
    BY <1>4, <1>8, <2>2 DEF Ext!LoadToRecord
  <2> QED
    BY <1>8, <2>3 DEF Ext!LoadToRecord, ExtForm
<1>9. ASSUME NEW p \in Procs, NEW name \in ExtNames, Ext!LoadToRemove(p, name) PROVE ExtForm'
  <2>1. {s \in index : NameOf[s] # name} \in SUBSET Sources
    BY <1>00
  <2>2. \A q \in Procs : ExtOperationForm(exProc'[q])
    BY <1>4, <1>9, <2>1 DEF Ext!LoadToRemove
  <2> QED
    BY <1>9, <2>2 DEF Ext!LoadToRemove, ExtForm
<1>10. ASSUME NEW p \in Procs, Ext!Write(p) PROVE ExtForm'
  <2>1. \A q \in Procs : ExtOperationForm(exProc'[q])
    BY <1>2, <1>3, <1>10 DEF Ext!Write
  <2>2. exProc[p].source \subseteq Sources
    BY <1>0 DEF ExtOperation
  <2> QED
    BY <1>10, <2>1, <2>2 DEF Ext!Write, ExtForm
<1>11. ASSUME NEW p \in Procs, Ext!Audit(p) PROVE ExtForm'
  <2>1. Ext!Source(p) \in Sources
    BY <1>0, <1>11, SourceIsOne DEF Ext!Audit, ExtOperation
  <2>2. [unsigned |-> Ext!Source(p)] \in Ext!Unsigned
    BY <2>1 DEF Ext!Unsigned
  <2> QED
    BY <1>3, <1>11, <2>2 DEF Ext!Audit, ExtForm
<1>12. CASE UNCHANGED exVars
  BY <1>12 DEF exVars, ExtForm
<1> QED
  BY <1>5, <1>6, <1>7, <1>8, <1>9, <1>10, <1>11, <1>12 DEF Ext!Next

LEMMA ExtIsTyped == ExtInv /\ ExtForm => Ext!TypeOK
<1> SUFFICES ASSUME ExtInv, ExtForm PROVE Ext!TypeOK
  OBVIOUS
<1>1. ASSUME NEW p \in Procs
      PROVE  /\ exProc[p].at \in {"idle", "checking", "signing", "recording", "writing", "auditing"}
             /\ exProc[p].source \subseteq Sources /\ exProc[p].doc \subseteq Sources
             /\ exProc[p].consent \in BOOLEAN
  BY DEF ExtInv, ExtForm, ExtOperation, ExtOperationForm
<1>2. index \subseteq Sources
  BY DEF ExtInv, Lawful
<1> QED
  BY <1>1, <1>2 DEF ExtForm, Ext!TypeOK

-----------------------------------------------------------------------------
(* The form of what is stored: agent runs                                  *)

RunHandles == [status : {"none", "completed", "failed"}, outputs : SUBSET Run!Outputs]

RunForms == [at : RunSteps, handle : RunHandles, left : SUBSET Run!Outputs, passed : BOOLEAN]

RunForm ==
  /\ kernel \in Run!Kernels /\ present \subseteq OutPaths
  /\ run \in [Runs -> RunForms] /\ registered \subseteq Run!Outputs
  /\ exit \in [Runs -> {"none", "ok", "error", "traceback", "killed"}]

LEMMA RunConstants ==
  /\ AsyncRuns \subseteq Runs /\ Required \subseteq OutPaths /\ Default \in OutPaths
  /\ OutPaths \subseteq Run!Outputs /\ Stream \in Run!Outputs
BY RunsAssumption DEF Run!AgentRunAssumption, Run!Outputs

LEMMA RunFormFirst == Run!Init => RunForm
<1>1. Run!Fresh \in RunForms
  BY DEF Run!Fresh, Run!NoHandle, RunForms, RunHandles, RunSteps
<1> QED
  BY <1>1 DEF Run!Init, RunForm

\* The shapes a run's step can take.
LEMMA RunFormGoes ==
  ASSUME run \in [Runs -> RunForms], NEW r \in Runs, NEW x \in RunSteps, Run!Goto(r, x)
  PROVE  run' \in [Runs -> RunForms]
BY DEF Run!Goto, RunForms

LEMMA RunFormFails ==
  ASSUME RunForm, NEW r \in Runs, NEW how \in {"ok", "error", "traceback", "killed"}, Run!End(r, how),
         UNCHANGED <<kernel, present, registered>>
  PROVE  RunForm'
<1>1. run' \in [Runs -> RunForms]
  BY DEF Run!End, RunForm, RunForms, RunSteps
<1>2. exit' \in [Runs -> {"none", "ok", "error", "traceback", "killed"}]
  BY DEF Run!End, RunForm
<1> QED
  BY <1>1, <1>2 DEF RunForm

LEMMA RunFormReturns ==
  ASSUME run \in [Runs -> RunForms], NEW r \in Runs, NEW status \in {"completed", "failed"},
         NEW outputs \in SUBSET Run!Outputs, Run!Returns(r, status, outputs)
  PROVE  run' \in [Runs -> RunForms]
<1>1. PICK h \in RunHandles : h = [status |-> status, outputs |-> outputs]
  BY DEF RunHandles
<1>2. run' = [run EXCEPT ![r].at = "ended", ![r].handle = h]
  BY <1>1 DEF Run!Returns
<1> QED
  BY <1>2 DEF RunForms, RunSteps

LEMMA RunFormNext == RunForm /\ [Run!Next]_runVars => RunForm'
<1> SUFFICES ASSUME RunForm, [Run!Next]_runVars PROVE RunForm'
  OBVIOUS
<1>0. run \in [Runs -> RunForms] /\ {"prepared", "ready", "register", "log", "tell", "done"} \subseteq RunSteps
  BY DEF RunForm, RunSteps
<1>1. ASSUME NEW r \in Runs, Run!Prepare(r) \/ Run!PrepareAsync(r) \/ Run!GatherContext(r) PROVE RunForm'
  <2>1. run' \in [Runs -> RunForms]
    BY <1>0, <1>1, RunFormGoes DEF Run!Prepare, Run!PrepareAsync, Run!GatherContext
  <2> QED
    BY <1>1, <2>1 DEF Run!Prepare, Run!PrepareAsync, Run!GatherContext, RunForm
<1>2. ASSUME NEW r \in Runs,
             \/ Run!PrepareFails(r) \/ Run!LessonsFail(r) \/ Run!PrunerFails(r) \/ Run!SpawnFails(r)
             \/ Run!RegisterFails(r) \/ Run!RecordFails(r) \/ Run!EventFails(r) \/ Run!Kill(r)
      PROVE  RunForm'
  <2>1. PICK how \in {"ok", "error", "traceback", "killed"} : Run!Fails(r, how)
    BY <1>2 DEF Run!PrepareFails, Run!LessonsFail, Run!PrunerFails, Run!SpawnFails, Run!RegisterFails,
                Run!RecordFails, Run!EventFails, Run!Kill
  <2> QED
    BY <2>1, RunFormFails DEF Run!Fails
<1>3. ASSUME NEW r \in Runs, Run!DummySpawns(r) \/ Run!AsyncDummySpawns(r) PROVE RunForm'
  <2>1. Run!WritesDefault(r)
    BY <1>3 DEF Run!DummySpawns, Run!AsyncDummySpawns
  <2>2. run' \in [Runs -> RunForms]
    <3>1. {Default} \in SUBSET Run!Outputs /\ "completed" \in {"completed", "failed"}
      BY RunConstants
    <3> QED
      BY <1>0, <2>1, <3>1, RunFormReturns DEF Run!WritesDefault
  <2> QED
    BY <2>1, <2>2, RunConstants DEF Run!WritesDefault, RunForm
<1>4. ASSUME NEW r \in Runs, Run!KernelSpawns(r) PROVE RunForm'
  <2>1. PICK status \in {"completed", "failed"}, outputs \in SUBSET Run!Outputs :
          Run!Returns(r, status, outputs)
    BY <1>4, RunConstants DEF Run!KernelSpawns
  <2>2. run' \in [Runs -> RunForms]
    BY <1>0, <2>1, RunFormReturns
  <2> QED
    BY <1>4, <2>2 DEF Run!KernelSpawns, RunForm
<1>5. ASSUME NEW r \in Runs, Run!Validate(r) PROVE RunForm'
  <2>1. PICK b \in BOOLEAN : b = Run!Validates(present)
    BY DEF Run!Validates
  <2>2. run' = [run EXCEPT ![r].at = "register", ![r].left = run[r].handle.outputs, ![r].passed = b]
    BY <1>5, <2>1 DEF Run!Validate
  <2>3. run' \in [Runs -> RunForms]
    BY <1>0, <2>2 DEF RunForms, RunHandles
  <2> QED
    BY <1>5, <2>3 DEF Run!Validate, RunForm
<1>6. ASSUME NEW r \in Runs, Run!Register(r) PROVE RunForm'
  <2>1. PICK path \in run[r].left :
          registered' = registered \cup {path} /\ run' = [run EXCEPT ![r].left = @ \ {path}]
    BY <1>6 DEF Run!Register
  <2>2. run' \in [Runs -> RunForms] /\ path \in Run!Outputs
    BY <1>0, <2>1 DEF RunForms
  <2> QED
    BY <1>6, <2>1, <2>2 DEF Run!Register, RunForm
<1>7. ASSUME NEW r \in Runs, Run!AppendRecord(r) \/ Run!AppendEvent(r) PROVE RunForm'
  <2>1. run' \in [Runs -> RunForms]
    BY <1>0, <1>7, RunFormGoes DEF Run!AppendRecord, Run!AppendEvent
  <2> QED
    BY <1>7, <2>1 DEF Run!AppendRecord, Run!AppendEvent, RunForm
<1>8. ASSUME NEW r \in Runs, Run!Tell(r) PROVE RunForm'
  BY <1>8, RunFormFails DEF Run!Tell
<1>9. ASSUME NEW path \in OutPaths, Run!RemoveFile(path) PROVE RunForm'
  BY <1>9 DEF Run!RemoveFile, RunForm
<1>10. CASE UNCHANGED runVars
  BY <1>10 DEF runVars, RunForm
<1> QED
  BY <1>1, <1>2, <1>3, <1>4, <1>5, <1>6, <1>7, <1>8, <1>9, <1>10 DEF Run!Next

LEMMA RunIsTyped == RunInv /\ RunForm => Run!TypeOK
<1> SUFFICES ASSUME RunInv, RunForm PROVE Run!TypeOK
  OBVIOUS
<1>1. \A log1 \in {records, runEvents} : log1 \in Seq([run : Runs, status : {"completed", "contract_failed"}])
  BY DEF RunInv, RunTyped, RunLine
<1>2. \A r \in Runs : run[r] \in RunForms
  BY DEF RunForm
<1> QED
  BY <1>1, <1>2 DEF RunForm, Run!TypeOK, RunForms, RunHandles, RunSteps

-----------------------------------------------------------------------------
(* The form of what is stored: repairs                                     *)

\* The configuration is the last of what is planned.
ConfigIsLast(todo) == \A k \in DOMAIN todo : todo[k] = "config" => k = Len(todo)

DrOperationForm(o) ==
  /\ o.at \in {"idle", "next", "venv", "deps", "config", "move", "write", "audit"} \cup Doc!Inits
  /\ o.mode \in {"none", "asks", "yes"} /\ o.force \in BOOLEAN /\ o.needs \in BOOLEAN
  /\ o.failed \in BOOLEAN /\ o.name \in Backups \cup {0}
  /\ ConfigIsLast(o.todo)

\* The commands that may still rewrite the configuration.
DrPending == {p \in Procs : "config" \in Elements(fix[p].todo)}

\* What is on the disk, and what is told of it.
DrDisk ==
  /\ host \in {"inside", "outside", "old"} /\ pip \in BOOLEAN /\ forge \in BOOLEAN
  /\ config \in Doc!Texts /\ state \in {"absent", "empty", "new", "used"}
  /\ backup \in [Backups -> Doc!Texts]
  /\ begun \in BOOLEAN /\ forced \in BOOLEAN /\ drOverlapped \in BOOLEAN /\ raced \in BOOLEAN
  /\ misled \in BOOLEAN

DrCount ==
  /\ commands \in 0..MaxRepairs /\ audits \in Nat
  /\ IsFiniteSet(DrPending) /\ Cardinality(DrPending) + audits <= commands

DrForm == DrDisk /\ DrCount /\ \A p \in Procs : DrOperationForm(fix[p])

LEMMA DrConstants == Backups \subseteq Nat \ {0} /\ MaxRepairs \in Nat /\ Broken \cap Doc!Words = {}
BY DoctorAssumption DEF Doc!DoctorAssumption

LEMMA PlanEnds == ConfigIsLast(Doc!Plan)
<1>1. PICK u, c \in Seq(Doc!Kinds) : /\ Doc!Plan = u \o c /\ "config" \notin Elements(u)
                                     /\ c = <<"config">> \/ c = <<>>
  BY PlanTells
<1>2. DOMAIN (u \o c) = 1..(Len(u) + Len(c)) /\ Len(u) \in Nat /\ Len(c) \in 0..1 /\ Len(u \o c) = Len(u) + Len(c)
      /\ DOMAIN u = 1..Len(u)
  BY <1>1
<1>3. \A k \in DOMAIN (u \o c) : k <= Len(u) => (u \o c)[k] = u[k] /\ k \in DOMAIN u
  BY <1>2
<1>4. \A k \in DOMAIN (u \o c) : k <= Len(u) => (u \o c)[k] # "config"
  BY <1>1, <1>3 DEF Elements
<1>5. \A k \in DOMAIN (u \o c) : ~(k <= Len(u)) => k = Len(u \o c)
  <2>1. PICK m \in Nat, n \in 0..1 : m = Len(u) /\ n = Len(c)
    BY <1>2
  <2>2. \A k \in 1..(m + n) : ~(k <= m) => k = m + n
    OBVIOUS
  <2> QED
    BY <1>2, <2>1, <2>2
<1> QED
  BY <1>1, <1>4, <1>5 DEF ConfigIsLast

\* What is planned after the next repair, and what was there before it.
LEMMA LastOfTail ==
  ASSUME NEW todo \in Seq(Doc!Kinds), todo # <<>>, ConfigIsLast(todo)
  PROVE  /\ ConfigIsLast(Tail(todo)) /\ Elements(Tail(todo)) \subseteq Elements(todo)
         /\ Head(todo) = "config" => "config" \notin Elements(Tail(todo)) /\ "config" \in Elements(todo)
<1>1. /\ DOMAIN todo = 1..Len(todo) /\ Len(todo) \in Nat /\ Len(Tail(todo)) = Len(todo) - 1
      /\ DOMAIN Tail(todo) = 1..(Len(todo) - 1) /\ Head(todo) = todo[1] /\ 1 \in DOMAIN todo
  OBVIOUS
<1>2. \A k \in DOMAIN Tail(todo) : Tail(todo)[k] = todo[k + 1] /\ k + 1 \in DOMAIN todo
  BY <1>1
<1>3. ConfigIsLast(Tail(todo))
  BY <1>1, <1>2 DEF ConfigIsLast
<1>4. Elements(Tail(todo)) \subseteq Elements(todo)
  BY <1>2 DEF Elements
<1>5. ASSUME Head(todo) = "config" PROVE "config" \notin Elements(Tail(todo)) /\ "config" \in Elements(todo)
  <2>1. Len(todo) = 1
    BY <1>1, <1>5 DEF ConfigIsLast
  <2>2. DOMAIN Tail(todo) = {}
    BY <1>1, <2>1
  <2> QED
    BY <1>1, <1>5, <2>2 DEF Elements
<1> QED
  BY <1>3, <1>4, <1>5

\* A command goes on: with no configuration to rewrite that was not there before.
LEMMA DrCountStays ==
  ASSUME DrTyped, DrCount, DrPending' \subseteq DrPending, UNCHANGED <<commands, audits>>
  PROVE  DrCount'
<1>1. IsFiniteSet(DrPending') /\ Cardinality(DrPending') <= Cardinality(DrPending)
      /\ Cardinality(DrPending') \in Nat /\ Cardinality(DrPending) \in Nat
  BY FS_Subset, FS_CardinalityType DEF DrCount
<1>2. PICK m, n \in Nat : m = Cardinality(DrPending') /\ n = Cardinality(DrPending)
  BY <1>1
<1>3. m <= n /\ n + audits <= commands /\ audits \in Nat /\ commands \in 0..MaxRepairs
  BY <1>1, <1>2 DEF DrCount
<1>4. m + audits <= commands
  BY <1>2, <1>3, DrConstants
<1> QED
  BY <1>1, <1>2, <1>3, <1>4 DEF DrCount

LEMMA DrFormStep ==
  ASSUME DrInv, DrForm, NEW p \in Procs, DrMoves(p), DrOperationForm(fix'[p]),
         Elements(fix'[p].todo) \subseteq Elements(fix[p].todo), DrDisk', UNCHANGED <<commands, audits>>
  PROVE  DrForm'
<1>1. DrPending' \subseteq DrPending
  BY DEF DrMoves, DrPending
<1>2. DrCount'
  BY <1>1, DrCountStays DEF DrInv, DrForm
<1> QED
  BY <1>2 DEF DrForm, DrMoves

LEMMA DrFormGoes ==
  ASSUME DrInv, DrForm, NEW p \in Procs,
         NEW step \in {"next", "venv", "deps", "config", "move", "write", "audit"} \cup Doc!Inits,
         Doc!Goto(p, step), DrDisk', UNCHANGED <<commands, audits>>
  PROVE  DrForm'
<1>1. /\ DrMoves(p) /\ fix'[p].at = step /\ fix'[p].mode = fix[p].mode /\ fix'[p].force = fix[p].force
      /\ fix'[p].todo = fix[p].todo /\ fix'[p].failed = fix[p].failed /\ fix'[p].name = fix[p].name
      /\ fix'[p].needs = fix[p].needs
  <2>1. fix' = [fix EXCEPT ![p].at = step] /\ DOMAIN fix = Procs /\ DOMAIN fix[p] = DrFields
    BY DEF Doc!Goto, DrInv, DrTyped, DrOperation, DrFields
  <2> QED
    BY <2>1, DrGoes DEF DrFields
<1>2. DrOperationForm(fix'[p])
  BY <1>1 DEF DrForm, DrOperationForm
<1> QED
  BY <1>1, <1>2, DrFormStep

LEMMA DrFormEnds ==
  ASSUME DrInv, DrForm, NEW p \in Procs, fix' = [fix EXCEPT ![p] = Doc!Idle],
         DrDisk', UNCHANGED <<commands, audits>>
  PROVE  DrForm'
<1>1. DrMoves(p) /\ fix'[p] = Doc!Idle
  BY DEF DrMoves, DrInv, DrTyped
<1>2. DrOperationForm(Doc!Idle) /\ Elements(Doc!Idle.todo) = {}
  BY DEF DrOperationForm, Doc!Idle, ConfigIsLast, Elements, Doc!Inits
<1> QED
  BY <1>1, <1>2, DrFormStep

\* A repair ended.
LEMMA DrFormDone ==
  ASSUME DrInv, DrForm, NEW p \in Procs, fix[p].todo # <<>>, NEW failed \in BOOLEAN, Doc!Done(p, failed)
  PROVE  /\ DrMoves(p) /\ DrOperationForm(fix'[p])
         /\ fix'[p].todo = Tail(fix[p].todo) /\ Elements(fix'[p].todo) \subseteq Elements(fix[p].todo)
<1>0. DrOperation(fix[p]) /\ DrOperationForm(fix[p]) /\ DOMAIN fix = Procs
  BY DEF DrInv, DrTyped, DrForm
<1>1. PICK told \in BOOLEAN : told = (fix[p].failed \/ failed)
  OBVIOUS
<1>2. PICK o : o = [fix[p] EXCEPT !.at = "next", !.todo = Tail(fix[p].todo), !.failed = told]
  OBVIOUS
<1>3. fix' = [fix EXCEPT ![p] = o]
  BY <1>0, <1>1, <1>2 DEF Doc!Done
<1>4. ConfigIsLast(Tail(fix[p].todo)) /\ Elements(Tail(fix[p].todo)) \subseteq Elements(fix[p].todo)
  BY <1>0, LastOfTail DEF DrOperation, DrOperationForm
<1>5. DrOperationForm(o) /\ o.todo = Tail(fix[p].todo)
  BY <1>0, <1>2, <1>4 DEF DrOperation, DrOperationForm
<1> QED
  BY <1>0, <1>3, <1>4, <1>5 DEF DrMoves

LEMMA DrFormFirst == Doc!Init => DrForm
<1> SUFFICES ASSUME Doc!Init PROVE DrForm
  OBVIOUS
<1>1. DrDisk
  BY DEF Doc!Init, DrDisk, Doc!Texts, Doc!Words
<1>2. DrOperationForm(Doc!Idle) /\ Elements(Doc!Idle.todo) = {}
  BY DEF DrOperationForm, Doc!Idle, ConfigIsLast, Elements, Doc!Inits
<1>3. DrPending = {} /\ \A p \in Procs : DrOperationForm(fix[p])
  BY <1>2 DEF Doc!Init, DrPending
<1>4. DrCount
  BY <1>3, FS_EmptySet, DrConstants DEF Doc!Init, DrCount
<1> QED
  BY <1>1, <1>3, <1>4 DEF DrForm
LEMMA DrFormStarts ==
  ASSUME DrInv, DrForm, NEW p \in Procs, NEW mode \in {"asks", "yes"}, NEW force \in BOOLEAN, Doc!Start(p, mode, force)
  PROVE  DrForm'
<1>1. PICK o : o = [Doc!Idle EXCEPT !.at = "next", !.mode = mode, !.force = force, !.needs = forge, !.todo = Doc!Plan]
  OBVIOUS
<1>2. fix' = [fix EXCEPT ![p] = o] /\ DOMAIN fix = Procs
  BY <1>1 DEF Doc!Start, DrInv, DrTyped
<1>3. DrOperationForm(o)
  BY <1>1, PlanEnds DEF DrOperationForm, Doc!Idle, DrForm, DrDisk
<1>4. DrMoves(p) /\ fix'[p] = o
  BY <1>2 DEF DrMoves
<1>5. DrDisk'
  BY DEF Doc!Start, Doc!project, DrForm, DrDisk
<1>6. commands < MaxRepairs /\ commands' = commands + 1 /\ audits' = audits
  BY DEF Doc!Start, Doc!project
<1>7. DrCount'
  <2>1. DrPending' \subseteq DrPending \cup {p}
    BY <1>4 DEF DrMoves, DrPending
  <2>2. /\ IsFiniteSet(DrPending \cup {p}) /\ Cardinality(DrPending) \in Nat
        /\ Cardinality(DrPending \cup {p}) \in {Cardinality(DrPending), Cardinality(DrPending) + 1}
    <3>1. IsFiniteSet(DrPending)
      BY DEF DrForm, DrCount
    <3>2. p \in DrPending => DrPending \cup {p} = DrPending
      OBVIOUS
    <3> QED
      BY <3>1, <3>2, FS_AddElement, FS_CardinalityType
  <2>3. /\ IsFiniteSet(DrPending') /\ Cardinality(DrPending') \in Nat
        /\ Cardinality(DrPending') <= Cardinality(DrPending \cup {p})
    BY <2>1, <2>2, FS_Subset, FS_CardinalityType
  <2>4. PICK l, m, n \in Nat : l = Cardinality(DrPending') /\ m = Cardinality(DrPending \cup {p}) /\ n = Cardinality(DrPending)
    BY <2>2, <2>3
  <2>5. l <= m /\ m \in {n, n + 1} /\ n + audits <= commands /\ audits \in Nat /\ commands \in 0..MaxRepairs
    BY <2>2, <2>3, <2>4 DEF DrForm, DrCount
  <2>6. l + audits <= commands + 1 /\ commands + 1 \in 0..MaxRepairs
    BY <1>6, <2>4, <2>5, DrConstants
  <2> QED
    BY <1>6, <2>3, <2>4, <2>5, <2>6 DEF DrCount
<1> QED
  BY <1>3, <1>4, <1>5, <1>7 DEF DrForm, DrMoves

\* The audit of a rewrite: the configuration is not rewritten again.
LEMMA DrFormAudits ==
  ASSUME DrInv, DrForm, NEW p \in Procs, Doc!Audit(p)
  PROVE  DrForm'
<1>1. fix[p].at = "audit" /\ DrOperation(fix[p]) /\ DrOperationForm(fix[p])
  BY DEF Doc!Audit, Doc!At, DrInv, DrTyped, DrForm
<1>2. fix[p].todo # <<>> /\ Head(fix[p].todo) = "config" /\ fix[p].todo \in Seq(Doc!Kinds)
  <2>1. fix[p].todo # <<>> /\ "audit" \in Under(Head(fix[p].todo)) /\ fix[p].todo \in Seq(Doc!Kinds)
    BY <1>1 DEF DrOperation
  <2>2. Head(fix[p].todo) \in Doc!Kinds
    BY <2>1
  <2> QED
    BY <2>1, <2>2 DEF Under, Doc!Kinds, Doc!Inits
<1>3. PICK failed \in BOOLEAN : Doc!Done(p, failed)
  BY DEF Doc!Audit
<1>4. DrMoves(p) /\ DrOperationForm(fix'[p]) /\ fix'[p].todo = Tail(fix[p].todo)
  BY <1>2, <1>3, DrFormDone
<1>5. "config" \in Elements(fix[p].todo) /\ "config" \notin Elements(fix'[p].todo)
  BY <1>1, <1>2, <1>4, LastOfTail DEF DrOperationForm
<1>6. DrPending' \subseteq DrPending \ {p} /\ p \in DrPending
  BY <1>4, <1>5 DEF DrMoves, DrPending
<1>7. DrCount'
  <2>1. /\ IsFiniteSet(DrPending \ {p}) /\ Cardinality(DrPending \ {p}) = Cardinality(DrPending) - 1
        /\ Cardinality(DrPending) \in Nat
    BY <1>6, FS_RemoveElement, FS_CardinalityType DEF DrForm, DrCount
  <2>2. /\ IsFiniteSet(DrPending') /\ Cardinality(DrPending') \in Nat
        /\ Cardinality(DrPending') <= Cardinality(DrPending \ {p})
    BY <1>6, <2>1, FS_Subset, FS_CardinalityType
  <2>3. PICK m, n \in Nat : m = Cardinality(DrPending') /\ n = Cardinality(DrPending)
    BY <2>1, <2>2
  <2>4. m <= n - 1 /\ n + audits <= commands /\ audits \in Nat /\ commands \in 0..MaxRepairs
    BY <2>1, <2>2, <2>3 DEF DrForm, DrCount
  <2>5. m + (audits + 1) <= commands /\ audits + 1 \in Nat
    BY <2>3, <2>4, DrConstants
  <2>6. audits' = audits + 1 /\ commands' = commands
    BY DEF Doc!Audit, Doc!operator
  <2> QED
    BY <2>2, <2>3, <2>4, <2>5, <2>6 DEF DrCount
<1>8. DrDisk'
  BY DEF Doc!Audit, Doc!operator, DrForm, DrDisk
<1> QED
  BY <1>4, <1>7, <1>8 DEF DrForm, DrMoves

LEMMA DrFormNext == DrInv /\ DrForm /\ [Doc!Next]_drVars => DrForm'
<1> SUFFICES ASSUME DrInv, DrForm, [Doc!Next]_drVars PROVE DrForm'
  OBVIOUS
<1>0. \A p \in Procs : DrOperation(fix[p]) /\ DrOperationForm(fix[p])
  BY DEF DrInv, DrTyped, DrForm
<1>00. DrDisk /\ {"absent", "empty", "built"} \subseteq Doc!Texts /\ \A p \in Procs : fix[p].force \in BOOLEAN
  BY <1>0 DEF DrForm, Doc!Texts, Doc!Words, DrOperationForm
\* A repair that ends.
<1>1. ASSUME NEW p \in Procs, fix[p].at \notin {"idle", "next"}, NEW failed \in BOOLEAN, Doc!Done(p, failed), DrDisk',
             UNCHANGED <<commands, audits>>
      PROVE  DrForm'
  <2>1. fix[p].todo # <<>>
    BY <1>0, <1>1 DEF DrOperation
  <2> QED
    BY <1>1, <2>1, DrFormDone, DrFormStep
<1>2. ASSUME NEW p \in Procs, NEW mode \in {"asks", "yes"}, NEW force \in BOOLEAN, Doc!Start(p, mode, force)
      PROVE  DrForm'
  BY <1>2, DrFormStarts
<1>3. ASSUME NEW p \in Procs, Doc!Apply(p) PROVE DrForm'
  <2>0. fix[p].todo \in Seq(Doc!Kinds) /\ fix[p].todo # <<>>
    BY <1>0, <1>3 DEF Doc!Apply, DrOperation
  <2>1. Head(fix[p].todo) \in {"venv", "deps", "config"} \cup Doc!Inits
    <3>1. Head(fix[p].todo) \in Doc!Kinds
      BY <2>0
    <3> QED
      BY <3>1 DEF Doc!Kinds, Doc!Inits
  <2>3. raced' \in BOOLEAN
    BY <1>3, <1>00, Zenon DEF Doc!Apply, DrDisk
  <2>2. DrDisk' /\ UNCHANGED <<commands, audits>>
    BY <1>3, <1>00, <2>3 DEF Doc!Apply, Doc!project, DrDisk
  <2> QED
    BY <1>3, <2>1, <2>2, DrFormGoes DEF Doc!Apply
<1>4. ASSUME NEW p \in Procs, Doc!Withhold(p) PROVE DrForm'
  <2>1. PICK o : o = [fix[p] EXCEPT !.todo = Tail(fix[p].todo)]
    OBVIOUS
  <2>2. fix[p].todo # <<>> /\ fix[p].todo \in Seq(Doc!Kinds) /\ fix' = [fix EXCEPT ![p] = o] /\ DOMAIN fix = Procs
    BY <1>0, <1>4, <2>1 DEF Doc!Withhold, DrOperation, DrInv, DrTyped
  <2>3. DrOperationForm(o) /\ Elements(o.todo) \subseteq Elements(fix[p].todo)
    <3>1. DOMAIN fix[p] = DrFields /\ ConfigIsLast(fix[p].todo)
      BY <1>0 DEF DrOperation, DrOperationForm, DrFields
    <3>2. ConfigIsLast(Tail(fix[p].todo)) /\ Elements(Tail(fix[p].todo)) \subseteq Elements(fix[p].todo)
      BY <2>2, <3>1, LastOfTail
    <3>3. o.todo = Tail(fix[p].todo) /\ o.at = fix[p].at /\ o.mode = fix[p].mode /\ o.force = fix[p].force
          /\ o.needs = fix[p].needs /\ o.failed = fix[p].failed /\ o.name = fix[p].name
      BY <2>1, <3>1 DEF DrFields
    <3> QED
      BY <1>0, <3>2, <3>3 DEF DrOperationForm
  <2>4. DrMoves(p) /\ fix'[p] = o
    BY <2>2 DEF DrMoves
  <2>5. DrDisk' /\ UNCHANGED <<commands, audits>>
    BY <1>4, <1>00 DEF Doc!Withhold, Doc!project, Doc!operator, DrDisk
  <2> QED
    BY <2>3, <2>4, <2>5, DrFormStep
<1>5. ASSUME NEW p \in Procs, Doc!Finish(p) PROVE DrForm'
  <2>1. misled' \in BOOLEAN
    BY <1>5, <1>00 DEF Doc!Finish, DrDisk, Doc!Succeeds
  <2>2. DrDisk' /\ UNCHANGED <<commands, audits>>
    BY <1>5, <1>00, <2>1 DEF Doc!Finish, Doc!project, Doc!operator, DrDisk
  <2> QED
    BY <1>5, <2>2, DrFormEnds DEF Doc!Finish
<1>6. ASSUME NEW p \in Procs, Doc!CreateVenv(p) PROVE DrForm'
  <2>1. DrDisk' /\ UNCHANGED <<commands, audits>>
    BY <1>6, <1>00 DEF Doc!CreateVenv, Doc!project, Doc!operator, DrDisk
  <2> QED
    BY <1>1, <1>6, <2>1 DEF Doc!CreateVenv, Doc!At
<1>7. ASSUME NEW p \in Procs, Doc!InstallDeps(p) PROVE DrForm'
  <2>1. DrDisk' /\ UNCHANGED <<commands, audits>>
    BY <1>7, <1>00 DEF Doc!InstallDeps, Doc!operator, DrDisk
  <2>2. PICK failed \in BOOLEAN : Doc!Done(p, failed)
    BY <1>7 DEF Doc!InstallDeps
  <2> QED
    BY <1>1, <1>7, <2>1, <2>2 DEF Doc!InstallDeps, Doc!At
<1>8. ASSUME NEW p \in Procs,
             \/ Doc!InitLooks(p) \/ Doc!InitMakes(p) \/ Doc!LookAtConfig(p) \/ Doc!LookAtState(p)
      PROVE  DrForm'
  <2>1. DrDisk' /\ UNCHANGED <<commands, audits>>
    <3>1. CASE Doc!InitLooks(p)
      BY <3>1, <1>00 DEF Doc!InitLooks, Doc!project, Doc!operator, DrDisk
    <3>2. CASE Doc!InitMakes(p)
      BY <3>2, <1>00 DEF Doc!InitMakes, Doc!operator, DrDisk
    <3>3. CASE Doc!LookAtConfig(p)
      BY <3>3, <1>00 DEF Doc!LookAtConfig, Doc!project, Doc!operator, DrDisk
    <3>4. CASE Doc!LookAtState(p)
      BY <3>4, <1>00 DEF Doc!LookAtState, Doc!project, Doc!operator, DrDisk
    <3> QED
      BY <1>8, <3>1, <3>2, <3>3, <3>4
  <2>2. fix[p].at \notin {"idle", "next"}
    BY <1>8 DEF Doc!InitLooks, Doc!InitMakes, Doc!LookAtConfig, Doc!LookAtState, Doc!At
  <2>3. Doc!Done(p, TRUE) \/ \E step \in Doc!Inits : Doc!Goto(p, step)
    BY <1>8 DEF Doc!InitLooks, Doc!InitMakes, Doc!LookAtConfig, Doc!LookAtState, Doc!Inits
  <2> QED
    BY <1>1, <2>1, <2>2, <2>3, DrFormGoes
<1>9. ASSUME NEW p \in Procs, Doc!InitConfig(p) PROVE DrForm'
  <2>1. config' \in Doc!Texts /\ forced' \in BOOLEAN
    BY <1>9, <1>00 DEF Doc!InitConfig, DrDisk
  <2>2. DrDisk' /\ UNCHANGED <<commands, audits>>
    BY <1>9, <1>00, <2>1 DEF Doc!InitConfig, Doc!operator, DrDisk
  <2>3. Doc!Goto(p, "look state") /\ "look state" \in Doc!Inits
    BY <1>9 DEF Doc!InitConfig, Doc!Inits
  <2> QED
    BY <2>2, <2>3, DrFormGoes
<1>10. ASSUME NEW p \in Procs, Doc!InitState(p) PROVE DrForm'
  <2>1. DrDisk' /\ UNCHANGED <<commands, audits>>
    BY <1>10, <1>00 DEF Doc!InitState, Doc!operator, DrDisk
  <2>2. PICK stopped \in BOOLEAN : Doc!Done(p, stopped \/ config = "absent")
    BY <1>10 DEF Doc!InitState
  <2>3. PICK failed \in BOOLEAN : failed = (stopped \/ config = "absent")
    OBVIOUS
  <2>4. Doc!Done(p, failed)
    BY <2>2, <2>3
  <2> QED
    BY <1>1, <1>10, <2>1, <2>4 DEF Doc!InitState, Doc!At
<1>11. ASSUME NEW p \in Procs, Doc!PickBackup(p) PROVE DrForm'
  <2>1. PICK used : used = {n \in Backups : backup[n] # "absent"}
    OBVIOUS
  <2>2. Backups \ used \subseteq Nat /\ Backups \ used # {}
    BY <1>11, <2>1, DrConstants DEF Doc!PickBackup
  <2>3. Doc!FreeName(used) \in Backups
    BY <2>2, LeastIsThere DEF Doc!FreeName
  <2>4. PICK o : o = [fix[p] EXCEPT !.at = "move", !.name = Doc!FreeName(used)]
    OBVIOUS
  <2>5. DOMAIN fix = Procs /\ fix' = [fix EXCEPT ![p] = o]
    BY <1>11, <2>1, <2>4 DEF Doc!PickBackup, DrInv, DrTyped
  <2>6. DrMoves(p) /\ fix'[p] = o
    BY <2>5 DEF DrMoves
  <2>7. DrOperationForm(o) /\ o.todo = fix[p].todo
    BY <1>0, <2>3, <2>4 DEF DrOperation, DrOperationForm
  <2>8. DrDisk' /\ UNCHANGED <<commands, audits>>
    BY <1>11, <1>00 DEF Doc!PickBackup, Doc!project, Doc!operator, DrDisk
  <2> QED
    BY <2>6, <2>7, <2>8, DrFormStep
<1>12. ASSUME NEW p \in Procs, Doc!MoveAway(p) PROVE DrForm'
  <2>1. config' \in Doc!Texts /\ backup' \in [Backups -> Doc!Texts]
    BY <1>12, <1>00 DEF Doc!MoveAway, DrDisk
  <2>2. DrDisk' /\ UNCHANGED <<commands, audits>>
    BY <1>12, <1>00, <2>1 DEF Doc!MoveAway, Doc!operator, DrDisk
  <2> QED
    BY <1>12, <2>2, DrFormGoes DEF Doc!MoveAway
<1>13. ASSUME NEW p \in Procs, Doc!WriteDefaults(p) PROVE DrForm'
  <2>1. DrDisk' /\ UNCHANGED <<commands, audits>>
    BY <1>13, <1>00 DEF Doc!WriteDefaults, Doc!operator, DrDisk
  <2> QED
    BY <1>13, <2>1, DrFormGoes DEF Doc!WriteDefaults
<1>14. ASSUME NEW p \in Procs, Doc!Audit(p) PROVE DrForm'
  BY <1>14, DrFormAudits
<1>15. ASSUME NEW p \in Procs, Doc!Cut(p) PROVE DrForm'
  <2>1. config' \in Doc!Texts /\ forced' \in BOOLEAN /\ state' \in {"absent", "empty", "new", "used"}
    BY <1>15, <1>00 DEF Doc!Cut, DrDisk
  <2>2. DrDisk' /\ UNCHANGED <<commands, audits>>
    BY <1>15, <1>00, <2>1 DEF Doc!Cut, Doc!operator, DrDisk
  <2> QED
    BY <1>15, <2>2, DrFormEnds DEF Doc!Cut
<1>16. ASSUME NEW text \in Broken \cup {"theirs"}, Doc!Edit(text) PROVE DrForm'
  <2>1. text \in Doc!Texts
    BY DEF Doc!Texts, Doc!Words
  <2>2. DrDisk' /\ UNCHANGED <<commands, audits, fix>>
    BY <1>16, <1>00, <2>1 DEF Doc!Edit, DrDisk
  <2>3. DrPending' = DrPending
    BY <2>2 DEF DrPending
  <2>4. DrCount'
    BY <2>2, <2>3, DrCountStays DEF DrInv, DrForm
  <2> QED
    BY <2>2, <2>4 DEF DrForm
<1>17. CASE Doc!Work
  <2>2. DrDisk' /\ UNCHANGED <<commands, audits, fix>>
    BY <1>17, <1>00 DEF Doc!Work, DrDisk
  <2>3. DrPending' = DrPending
    BY <2>2 DEF DrPending
  <2>4. DrCount'
    BY <2>2, <2>3, DrCountStays DEF DrInv, DrForm
  <2> QED
    BY <2>2, <2>4 DEF DrForm
<1>18. CASE UNCHANGED drVars
  BY <1>18 DEF drVars, DrForm, DrDisk, DrCount, DrPending, DrOperationForm
<1> QED
  BY <1>2, <1>3, <1>4, <1>5, <1>6, <1>7, <1>8, <1>9, <1>10, <1>11, <1>12, <1>13, <1>14, <1>15, <1>16, <1>17, <1>18
     DEF Doc!Next

LEMMA DrIsTyped == DrInv /\ DrForm => Doc!TypeOK
<1> SUFFICES ASSUME DrInv, DrForm PROVE Doc!TypeOK
  OBVIOUS
<1>1. audits \in 0..commands
  <2>1. Cardinality(DrPending) \in Nat
    BY FS_CardinalityType DEF DrForm, DrCount
  <2>2. PICK n \in Nat : n = Cardinality(DrPending)
    BY <2>1
  <2>3. audits \in Nat /\ commands \in 0..MaxRepairs /\ n + audits <= commands
    BY <2>2 DEF DrForm, DrCount
  <2> QED
    BY <2>2, <2>3, DrConstants
<1>2. \A p \in Procs : DrOperationForm(fix[p]) /\ fix[p].todo \in Seq(Doc!Kinds)
  BY DEF DrInv, DrTyped, DrOperation, DrForm
<1>3. mine \subseteq Doc!Texts
  BY DEF DrInv, DrTyped, Doc!Texts, Doc!Words
<1>4. commands \in 0..MaxRepairs /\ DrDisk
  BY DEF DrForm, DrCount
<1>5. ASSUME NEW p \in Procs
      PROVE  /\ fix[p].at \in {"idle", "next", "venv", "deps", "config", "move", "write", "audit"} \cup Doc!Inits
             /\ fix[p].mode \in {"none", "asks", "yes"} /\ fix[p].force \in BOOLEAN
             /\ fix[p].needs \in BOOLEAN /\ fix[p].failed \in BOOLEAN /\ fix[p].name \in Backups \cup {0}
             /\ fix[p].todo \in Seq(Doc!Kinds)
  BY <1>2 DEF DrOperationForm
<1>6. {begun, forced, drOverlapped, raced, misled} \subseteq BOOLEAN
  BY <1>4 DEF DrDisk
<1> QED
  BY <1>1, <1>3, <1>4, <1>5, <1>6 DEF Doc!TypeOK, DrDisk

-----------------------------------------------------------------------------
(* The form of all that is stored                                          *)

LEMMA AcpIsTyped == AcpInv => ACP!TypeOK
BY DEF AcpInv, AcpTyped, AcpOperation, Files, ACP!TypeOK

\* The documents' invariants, and the forms that need them.
Documented == Inv /\ ArtInv /\ CcInv /\ TraceInv /\ CostInv /\ CtxInv
WellFormed ==
  /\ LsForm /\ UsForm /\ AcpInv /\ ExtInv /\ ExtForm /\ RunInv /\ RunForm
  /\ DrInv /\ DrForm

LEMMA DocumentedFirst == FilesInit => Documented
BY InitInv, ArtFirst, CcFirst, TraceFirst, CostFirst, CtxFirst DEF FilesInit, Documented

LEMMA DocumentedNext == Documented /\ [FilesNext]_filesVars => Documented'
<1> SUFFICES ASSUME Documented, [FilesNext]_filesVars PROVE Documented'
  OBVIOUS
<1>1. [Next]_vars /\ [Art!Next]_artVars /\ [CC!Next]_ccVars
  BY EachMoves
<1>2. Tr!Next \/ UNCHANGED trVars
  BY DEF FilesNext, filesVars
<1>3. Cost!Next \/ UNCHANGED costVars
  BY DEF FilesNext, filesVars
<1>4. Ctx!Next \/ UNCHANGED ctxVars
  BY DEF FilesNext, filesVars
<1>5. Inv /\ ArtInv /\ CcInv /\ TraceInv /\ CostInv /\ CtxInv
  BY DEF Documented
<1>6. Inv' /\ ArtInv' /\ CcInv'
  BY <1>1, <1>5, NextInv, ArtNext, CcNext
<1>7. TraceInv' /\ CostInv' /\ CtxInv'
  BY <1>2, <1>3, <1>4, <1>5, TraceNext, CostNext, CtxNext
<1> QED
  BY <1>6, <1>7 DEF Documented

LEMMA WellFormedFirst == FilesInit => WellFormed
<1> SUFFICES ASSUME FilesInit PROVE WellFormed
  OBVIOUS
<1>1. /\ LS!Init /\ US!Init /\ ACP!Init /\ Ext!Init /\ Run!Init /\ Doc!Init
  BY EachStarts
<1> QED
  BY <1>1, LsFormFirst, UsFormFirst, AcpFirst, ExtFirst, ExtFormFirst, RunFirst, RunFormFirst, DrFirst, DrFormFirst
  DEF WellFormed

LEMMA WellFormedNext == WellFormed /\ [FilesNext]_filesVars => WellFormed'
<1> SUFFICES ASSUME WellFormed, [FilesNext]_filesVars PROVE WellFormed'
  OBVIOUS
<1>1. /\ [LS!Next]_lsVars /\ [US!Next]_usVars /\ [ACP!Next]_acpVars /\ [Ext!Next]_exVars
      /\ [Run!Next]_runVars /\ [Doc!Next]_drVars
  BY EachMoves
<1>2. /\ LsForm /\ UsForm /\ AcpInv /\ ExtInv /\ ExtForm /\ RunInv /\ RunForm
      /\ DrInv /\ DrForm
  BY DEF WellFormed
<1>3. LsForm' /\ UsForm'
  BY <1>1, <1>2, LsFormNext, UsFormNext
<1>4. AcpInv' /\ ExtInv' /\ ExtForm'
  BY <1>1, <1>2, AcpNext, ExtNext, ExtFormNext
<1>5. RunInv' /\ RunForm' /\ DrInv' /\ DrForm'
  BY <1>1, <1>2, RunNext, RunFormNext, DrNext, DrFormNext
<1> QED
  BY <1>3, <1>4, <1>5 DEF WellFormed

AllTyped ==
  /\ TypeOK /\ Art!TypeOK /\ CC!TypeOK /\ LS!TypeOK /\ US!TypeOK /\ ACP!TypeOK /\ Ext!TypeOK
  /\ Chan!TypeOK /\ Run!TypeOK /\ Doc!TypeOK /\ Tr!TypeOK /\ Cost!TypeOK /\ Ctx!TypeOK

\* The stores and those who work on them stay well formed, whatever overlaps, is
\* killed or is cut short: for any projects, agents, messages, runs and commands.
\* All of them do, not only the one that is looked at.
THEOREM FilesAreTyped == FilesSpec => [](AllTyped /\ TypesOK)
<1>1. FilesSpec => []Documented
  BY DocumentedFirst, DocumentedNext, PTL DEF FilesSpec
<1>2. FilesSpec => []WellFormed
  BY WellFormedFirst, WellFormedNext, PTL DEF FilesSpec
<1>3. FilesSpec => []Chan!TypeOK
  <2>1. ChanP!ChannelsAssumption
    BY ChannelsAssumption DEF ChanP!ChannelsAssumption, Chan!ChannelsAssumption
  <2>2. ChanP!ChannelsAssumption => (ChanP!Spec => []ChanP!TypeOK)
    BY ChanP!TypeCorrect
  <2>3. ChanP!TypeOK => Chan!TypeOK
    BY DEF ChanP!TypeOK, Chan!TypeOK
  <2> QED
    BY <2>1, <2>2, <2>3, ChanRuns, PTL
<1>4. Documented => TypeOK /\ Art!TypeOK /\ CC!TypeOK /\ Tr!TypeOK /\ Cost!TypeOK /\ Ctx!TypeOK
  BY ArtIsTyped, TraceIsTyped, CtxIsTyped DEF Documented, Inv, CcInv, CostInv
<1>5. WellFormed => LS!TypeOK /\ US!TypeOK /\ ACP!TypeOK /\ Ext!TypeOK /\ Run!TypeOK /\ Doc!TypeOK
  BY LsIsTyped, UsIsTyped, AcpIsTyped, ExtIsTyped, RunIsTyped, DrIsTyped DEF WellFormed
<1>6. Documented /\ WellFormed /\ Chan!TypeOK => AllTyped
  BY <1>4, <1>5 DEF AllTyped
<1>7. AllTyped => TypesOK
  BY DEF AllTyped, TypesOK
<1> QED
  BY <1>1, <1>2, <1>3, <1>6, <1>7, PTL
=============================================================================
