------------------------ MODULE CaddieDispatchProofs ------------------------
(***************************************************************************)
(* Proofs about CaddieDispatch: its types for any requests, and that one   *)
(* request at a time keeps caddies and groups in one place, for any day,   *)
(* roster and number of requests.                                          *)
(***************************************************************************)
EXTENDS CaddieDispatch, FiniteSetTheorems, SequenceTheorems, WellFoundedInduction, TLAPS

-----------------------------------------------------------------------------
(* Numbers in order *)

LEMMA NatMin ==
  ASSUME NEW T, T \subseteq Nat, T # {}
  PROVE  \E m \in T : \A k \in T : m <= k
<1>1. PICK m \in T : \A k \in T : ~(<<k, m>> \in OpToRel(<, Nat))
  BY WFMin, NatLessThanWellFounded
<1>2. ASSUME NEW k \in T PROVE m <= k
  <2>1. ~(k < m)
    <3>1. k < m => <<k, m>> \in OpToRel(<, Nat)
      BY DEF OpToRel
    <3> QED BY <3>1, <1>1
  <2> QED BY <2>1
<1> QED BY <1>2

LEMMA NatSetInduction ==
  ASSUME NEW T, 0 \in T, \A n \in Nat : n \in T => n + 1 \in T
  PROVE  Nat \subseteq T
<1> SUFFICES ASSUME Nat \ T # {} PROVE FALSE
  OBVIOUS
<1>1. PICK m \in Nat \ T : \A k \in Nat \ T : m <= k
  BY NatMin
<1>2. m # 0 /\ m - 1 \in Nat
  BY <1>1
<1>3. m - 1 \in T
  BY <1>1, <1>2
<1> QED  BY <1>1, <1>2, <1>3

LEMMA NatMax ==
  ASSUME NEW N \in Nat, NEW T \in SUBSET (0..N), T # {}
  PROVE  \E m \in T : \A k \in T : k <= m
<1> DEFINE U == {N - k : k \in T}
<1>1. U \subseteq Nat /\ U # {}
  <2>1. ASSUME NEW k \in T PROVE N - k \in Nat
    OBVIOUS
  <2> QED  BY <2>1
<1>2. PICK u \in U : \A v \in U : u <= v
  BY <1>1, NatMin
<1>3. PICK m \in T : u = N - m
  BY <1>2
<1>4. ASSUME NEW k \in T PROVE k <= m
  <2>1. N - k \in U
    OBVIOUS
  <2> QED  BY <1>2, <1>3, <2>1
<1> QED  BY <1>4

\* q lists S, smallest first.
Lists(q, S, n) == /\ \A x \in S : \E i \in 1..n : q[i] = x
                  /\ \A i, j \in 1..n : i < j => q[i] < q[j]

LEMMA ListExists ==
  ASSUME NEW S \in SUBSET Nat, IsFiniteSet(S)
  PROVE  \E q \in [1..Cardinality(S) -> S] : Lists(q, S, Cardinality(S))
<1> DEFINE T == {n \in Nat : \A Z \in SUBSET Nat : IsFiniteSet(Z) /\ Cardinality(Z) = n =>
                               \E q \in [1..n -> Z] : Lists(q, Z, n)}
<1>1. 0 \in T
  <2> SUFFICES ASSUME NEW Z \in SUBSET Nat, IsFiniteSet(Z), Cardinality(Z) = 0
               PROVE  \E q \in [1..0 -> Z] : Lists(q, Z, 0)
    OBVIOUS
  <2>1. Z = {}
    BY FS_EmptySet
  <2>2. [i \in 1..0 |-> i] \in [1..0 -> Z]
    BY <2>1
  <2>3. Lists([i \in 1..0 |-> i], Z, 0)
    BY <2>1 DEF Lists
  <2> QED  BY <2>2, <2>3
<1>2. ASSUME NEW n \in Nat, n \in T PROVE n + 1 \in T
  <2> SUFFICES ASSUME NEW Z \in SUBSET Nat, IsFiniteSet(Z), Cardinality(Z) = n + 1
               PROVE  \E q \in [1..(n + 1) -> Z] : Lists(q, Z, n + 1)
    OBVIOUS
  <2>1. Z # {}
    BY FS_EmptySet
  <2>2. PICK m \in Z : \A k \in Z : m <= k
    BY <2>1, NatMin
  <2>3. IsFiniteSet(Z \ {m}) /\ Cardinality(Z \ {m}) = n
    <3>1. IsFiniteSet(Z \ {m}) /\ Cardinality(Z \ {m}) = Cardinality(Z) - 1
      BY FS_RemoveElement
    <3> QED  BY <3>1
  <2>4. PICK q \in [1..n -> Z \ {m}] : Lists(q, Z \ {m}, n)
    BY <1>2, <2>3
  <2> DEFINE p == [i \in 1..(n + 1) |-> IF i = 1 THEN m ELSE q[i - 1]]
  <2>5. ASSUME NEW i \in 1..(n + 1), i # 1 PROVE i - 1 \in 1..n /\ p[i] = q[i - 1]
    BY <2>5
  <2>6. p[1] = m /\ 1 \in 1..(n + 1)
    OBVIOUS
  <2>7. p \in [1..(n + 1) -> Z]
    BY <2>5
  <2>8. ASSUME NEW x \in Z PROVE \E i \in 1..(n + 1) : p[i] = x
    <3>1. CASE x = m
      BY <2>6, <3>1
    <3>2. CASE x # m
      <4>1. PICK i \in 1..n : q[i] = x
        BY <2>4, <3>2 DEF Lists
      <4>2. i + 1 \in 1..(n + 1) /\ i + 1 # 1 /\ (i + 1) - 1 = i
        OBVIOUS
      <4>3. p[i + 1] = x
        BY <2>5, <4>1, <4>2
      <4> QED  BY <4>2, <4>3
    <3> QED  BY <3>1, <3>2
  <2>9. ASSUME NEW i \in 1..(n + 1), NEW j \in 1..(n + 1), i < j PROVE p[i] < p[j]
    <3>1. j # 1 /\ j - 1 \in 1..n /\ p[j] = q[j - 1] /\ q[j - 1] \in Z \ {m}
      BY <2>5, <2>9
    <3>2. CASE i = 1
      <4>1. PICK x \in Z \ {m} : x = p[j]
        BY <3>1
      <4>2. m < x
        BY <2>2
      <4> QED  BY <2>6, <3>2, <4>1, <4>2
    <3>3. CASE i # 1
      <4>1. i - 1 \in 1..n /\ p[i] = q[i - 1] /\ i - 1 < j - 1
        BY <2>5, <2>9, <3>3
      <4> QED  BY <2>4, <3>1, <4>1 DEF Lists
    <3> QED  BY <3>2, <3>3
  <2> HIDE DEF p
  <2> QED  BY <2>7, <2>8, <2>9 DEF Lists
<1> HIDE DEF T
<1>3. Nat \subseteq T
  BY <1>1, <1>2, NatSetInduction
<1> QED  BY <1>3, FS_CardinalityType DEF T

\* What the model's listing in order is.
LEMMA AscendingIs ==
  ASSUME NEW S \in SUBSET Nat, IsFiniteSet(S)
  PROVE  \E n \in Nat :
           /\ n = Cardinality(S)
           /\ Ascending(S) \in [1..n -> S]
           /\ \A x \in S : \E i \in 1..n : Ascending(S)[i] = x
           /\ \A i, j \in 1..n : i < j => Ascending(S)[i] < Ascending(S)[j]
<1> DEFINE N == 1..Cardinality(S)
           Fits(q) == /\ \A x \in S : \E n \in N : q[n] = x
                      /\ \A m, n \in N : m < n => q[m] < q[n]
<1>1. \E q \in [N -> S] : Fits(q)
  BY ListExists DEF Lists
<1>2. Ascending(S) = CHOOSE q \in [N -> S] : Fits(q)
  BY DEF Ascending
<1> HIDE DEF Fits
<1>3. Ascending(S) \in [N -> S] /\ Fits(Ascending(S))
  BY <1>1, <1>2, Zenon
<1>4. Cardinality(S) \in Nat
  BY FS_CardinalityType
<1> QED  BY <1>3, <1>4 DEF Fits

-----------------------------------------------------------------------------
(* Rows and writes *)

WriteType == [id : Nat, row : RowType]

\* Where a write lands.
Target(w) == IF w.id = 0 THEN Len(rows) + 1 ELSE w.id

\* Field holds the written row and the others as they were.
Landed(w) ==
  /\ rows' \in Seq(RowType)
  /\ Len(rows) <= Len(rows')
  /\ w.id = 0 => Len(rows') = Len(rows) + 1
  /\ w.id # 0 => Len(rows') = Len(rows)
  /\ Target(w) \in 1..Len(rows')
  /\ rows'[Target(w)] = w.row
  /\ \A i \in 1..Len(rows') : i # Target(w) => i \in 1..Len(rows) /\ rows'[i] = rows[i]

\* What the write w of a use case of kind k does to the unchecked rows.
Marked(k, w) ==
  stale' = IF k = "status" /\ Live(w.row)
           THEN stale \cup {i \in DOMAIN rows : i = w.id /\ Upsets(i, w.row)}
           ELSE stale \ {w.id}

LEMMA ApplyLands ==
  ASSUME rows \in Seq(RowType), NEW w \in WriteType, w.id \in 0..Len(rows),
         NEW r \in Requests, Apply(r, w)
  PROVE  Landed(w) /\ Marked(job[r].kind, w)
<1>m. Marked(job[r].kind, w)
  BY DEF Apply, Marked
<1>1. w.row \in RowType /\ w.id \in Nat /\ Len(rows) \in Nat
  BY DEF WriteType
<1>2. CASE w.id = 0
  <2>1. rows' = Append(rows, w.row)
    BY <1>2 DEF Apply
  <2>2. rows' \in Seq(RowType) /\ Len(rows') = Len(rows) + 1
    BY <1>1, <2>1
  <2>3. \A i \in 1..Len(rows') : rows'[i] = IF i <= Len(rows) THEN rows[i] ELSE w.row
    BY <1>1, <2>1
  <2> QED  BY <1>m, <1>1, <1>2, <2>2, <2>3 DEF Landed, Target
<1>3. CASE w.id # 0
  <2>1. rows' = [rows EXCEPT ![w.id] = w.row]
    BY <1>3 DEF Apply
  <2>2. w.id \in 1..Len(rows)
    BY <1>1, <1>3
  <2>3. rows' \in Seq(RowType) /\ Len(rows') = Len(rows)
        /\ \A i \in 1..Len(rows) : rows'[i] = IF i = w.id THEN w.row ELSE rows[i]
    BY <1>1, <2>1, <2>2, ExceptSeq
  <2> QED  BY <1>m, <1>1, <1>3, <2>2, <2>3 DEF Landed, Target
<1> QED  BY <1>2, <1>3

\* The writes that remain when the first is done.
LEMMA RestIs ==
  ASSUME NEW X, NEW t \in Seq(X), t # <<>>
  PROVE  /\ Head(t) = t[1] /\ t[1] \in X /\ 1 \in DOMAIN t /\ Len(t) \in Nat
         /\ Tail(t) \in Seq(X)
         /\ Tail(t) = <<>> <=> Len(t) = 1
         /\ \A n \in DOMAIN Tail(t) : /\ n \in Nat \ {0} /\ n + 1 \in DOMAIN t
                                      /\ Tail(t)[n] = t[n + 1]
         /\ \A n \in DOMAIN t : n # 1 => /\ n - 1 \in DOMAIN Tail(t)
                                         /\ Tail(t)[n - 1] = t[n]
<1>1. Len(t) \in Nat /\ Len(t) # 0 /\ DOMAIN t = 1..Len(t)
  OBVIOUS
<1>2. Tail(t) \in Seq(X) /\ Len(Tail(t)) = Len(t) - 1
  BY <1>1
<1>3. DOMAIN Tail(t) = 1..(Len(t) - 1)
  BY <1>1, <1>2
<1>4. \A n \in 1..(Len(t) - 1) : Tail(t)[n] = t[n + 1]
  BY <1>1
<1>5. Tail(t) = <<>> <=> Len(t) = 1
  <2>1. Tail(t) = <<>> <=> Len(Tail(t)) = 0
    BY <1>2, EmptySeq
  <2> QED  BY <1>1, <1>2, <2>1
<1>6. Head(t) = t[1] /\ 1 \in DOMAIN t /\ t[1] \in X
  BY <1>1
<1>7. ASSUME NEW n \in DOMAIN Tail(t)
      PROVE  n \in Nat \ {0} /\ n + 1 \in DOMAIN t /\ Tail(t)[n] = t[n + 1]
  BY <1>1, <1>3, <1>4
<1>8. ASSUME NEW n \in DOMAIN t, n # 1
      PROVE  n - 1 \in DOMAIN Tail(t) /\ Tail(t)[n - 1] = t[n]
  <2>1. n - 1 \in 1..(Len(t) - 1) /\ (n - 1) + 1 = n
    BY <1>1, <1>8
  <2> QED  BY <1>3, <1>4, <2>1
<1> QED  BY <1>1, <1>2, <1>5, <1>6, <1>7, <1>8

\* What release_assignments and release_caddies are about to write.
LEMMA ReleasesAre ==
  ASSUME rows \in Seq(RowType), NEW I \in SUBSET DOMAIN rows
  PROVE  /\ Releases(I) \in Seq(WriteType)
         /\ \A n \in DOMAIN Releases(I) : /\ Releases(I)[n].id \in I
                                          /\ Releases(I)[n].row.status = "cancelled"
         /\ \A i \in I : \E n \in DOMAIN Releases(I) : Releases(I)[n].id = i
<1>1. IsFiniteSet(I) /\ I \in SUBSET Nat
  <2>1. DOMAIN rows = 1..Len(rows) /\ Len(rows) \in Nat
    OBVIOUS
  <2>2. IsFiniteSet(1..Len(rows))
    BY <2>1, FS_Interval
  <2> QED  BY <2>1, <2>2, FS_Subset
<1>2. PICK n \in Nat : /\ Ascending(I) \in [1..n -> I]
                       /\ \A x \in I : \E i \in 1..n : Ascending(I)[i] = x
  BY <1>1, AscendingIs
<1> DEFINE ids == Ascending(I)
           W(k) == Write(ids[k], Row(rows[ids[k]].caddie, rows[ids[k]].group,
                                     rows[ids[k]].at, "cancelled"))
<1>3. DOMAIN ids = 1..n
  BY <1>2
<1>4. Releases(I) = [k \in 1..n |-> W(k)]
  BY <1>3 DEF Releases
<1>5. ASSUME NEW k \in 1..n
      PROVE  W(k) \in WriteType /\ W(k).id = ids[k] /\ ids[k] \in I /\ W(k).row.status = "cancelled"
  <2>1. ids[k] \in I
    BY <1>2
  <2>2. PICK i \in I : i = ids[k]
    BY <2>1
  <2>3. rows[i] \in RowType /\ i \in Nat
    BY <1>1
  <2>4. Row(rows[i].caddie, rows[i].group, rows[i].at, "cancelled") \in RowType
    BY <2>3 DEF Row, RowType, Statuses
  <2> QED  BY <2>2, <2>3, <2>4 DEF Write, WriteType, Row
<1> HIDE DEF W, ids
<1>6. Releases(I) \in [1..n -> WriteType]
  BY <1>4, <1>5
<1>7. Releases(I) \in Seq(WriteType) /\ DOMAIN Releases(I) = 1..n
  BY <1>6
<1>8. \A k \in 1..n : Releases(I)[k] = W(k)
  BY <1>4
<1>9. ASSUME NEW i \in I PROVE \E k \in DOMAIN Releases(I) : Releases(I)[k].id = i
  <2>1. PICK k \in 1..n : ids[k] = i
    BY <1>2 DEF ids
  <2> QED  BY <1>5, <1>7, <1>8, <2>1
<1> QED  BY <1>5, <1>7, <1>8, <1>9

\* The picks of a plan, in order.
LEMMA PicksAre ==
  ASSUME NEW D \in SUBSET Groups, NEW f \in [D -> Caddies \cup {Nobody}]
  PROVE  \E n \in Nat :
           /\ DOMAIN InOrder(f) = 1..n
           /\ InOrder(f) = <<>> <=> n = 0
           /\ \A k \in 1..n : InOrder(f)[k] \in D /\ f[InOrder(f)[k]] \in Caddies
           /\ \A k, l \in 1..n : k # l => InOrder(f)[k] # InOrder(f)[l]
           /\ \A g \in D : f[g] # Nobody => \E k \in 1..n : InOrder(f)[k] = g
<1> DEFINE S == {g \in DOMAIN f : f[g] # Nobody}
<1>1. S \in SUBSET D /\ \A g \in D : g \in S <=> f[g] # Nobody
  OBVIOUS
<1>2. IsFiniteSet(S) /\ S \in SUBSET Nat
  <2>1. IsFiniteSet(Groups) /\ Groups \subseteq Nat
    BY DayAssumption, FS_Interval DEF Groups
  <2> QED  BY <1>1, <2>1, FS_Subset
<1>3. InOrder(f) = Ascending(S)
  BY DEF InOrder
<1> HIDE DEF S
<1>4. PICK n \in Nat :
        /\ InOrder(f) \in [1..n -> S]
        /\ \A x \in S : \E i \in 1..n : InOrder(f)[i] = x
        /\ \A i, j \in 1..n : i < j => InOrder(f)[i] < InOrder(f)[j]
  BY <1>2, <1>3, AscendingIs
<1>5. ASSUME NEW k \in 1..n PROVE InOrder(f)[k] \in D /\ f[InOrder(f)[k]] \in Caddies
  BY <1>1, <1>4
<1>6. ASSUME NEW k \in 1..n, NEW l \in 1..n, k # l PROVE InOrder(f)[k] # InOrder(f)[l]
  <2>1. InOrder(f)[k] \in Nat /\ InOrder(f)[l] \in Nat
    BY <1>2, <1>4
  <2>2. k < l \/ l < k
    BY <1>6
  <2> QED  BY <1>4, <2>1, <2>2
<1>7. DOMAIN InOrder(f) = 1..n /\ InOrder(f) \in Seq(S)
  BY <1>4
<1>8. InOrder(f) = <<>> <=> n = 0
  BY <1>7
<1> QED  BY <1>1, <1>4, <1>5, <1>6, <1>7, <1>8

-----------------------------------------------------------------------------
(* Types *)

Places == {"idle", "plan", "write", "release", "withdraw", "record", "list", "duty"}

\* Step p suits job j with the writes t left, while Field holds L rows.
Suits(p, j, t, L) ==
  /\ p = "plan" => j.kind = "auto"
  /\ p = "write" => j.kind \in {"name", "move", "status", "auto"}
  /\ p = "release" => j.kind \in {"release", "cancel"}
  /\ p \in {"withdraw", "record", "list"} => j.kind = "cancel"
  /\ p = "duty" => j.kind = "duty" /\ j.caddie \in Caddies /\ j.window \in Windows
  /\ p \in {"write", "release"} <=> t # <<>>
  /\ \A n \in DOMAIN t : t[n].id \in 0..L

LEMMA Suited ==
  ASSUME TypeOK, NEW r \in Requests
  PROVE  /\ Suits(pc[r], job[r], todo[r], Len(rows))
         /\ pc[r] \in Places /\ job[r] \in JobType /\ todo[r] \in Seq(WriteType)
  BY DEF TypeOK, Situated, Writing, Suits, Places, WriteType

\* One request moves on while the day keeps its types and its rows.
LEMMA MoveTyped ==
  ASSUME TypeOK, NEW r \in Requests, NEW p \in Places, NEW j \in JobType,
         NEW t \in Seq(WriteType), NEW L \in Nat,
         pc' = [pc EXCEPT ![r] = p], job' = [job EXCEPT ![r] = j],
         todo' = [todo EXCEPT ![r] = t],
         rows' \in Seq(RowType), L = Len(rows'), Len(rows) <= L, Suits(p, j, t, L),
         seen' = seen, stale' \subseteq DOMAIN rows',
         booked' \in [Groups -> BOOLEAN], duties' \in [Caddies -> SUBSET Windows],
         ledger' \in [Groups -> {"none", "bare", "full"}],
         begun' \in 0..MaxRequests
  PROVE  TypeOK'
<1>1. pc' \in [Requests -> Places] /\ job' \in [Requests -> JobType]
      /\ todo' \in [Requests -> Seq(WriteType)]
  BY DEF TypeOK, Places, WriteType
<1>2. ASSUME NEW q \in Requests
      PROVE  /\ Situated(q)'
             /\ (Writing(q) <=> todo[q] # <<>>)'
             /\ \A n \in DOMAIN todo'[q] : todo'[q][n].id \in 0..Len(rows')
  <2>1. CASE q = r
    <3>1. pc'[q] = p /\ job'[q] = j /\ todo'[q] = t
      BY <2>1 DEF TypeOK
    <3> QED  BY <3>1 DEF Situated, Writing, Suits
  <2>2. CASE q # r
    <3>1. pc'[q] = pc[q] /\ job'[q] = job[q] /\ todo'[q] = todo[q]
      BY <2>2 DEF TypeOK
    <3>2. Suits(pc[q], job[q], todo[q], Len(rows)) /\ Len(rows) \in Nat
      <4>1. Len(rows) \in Nat
        BY DEF TypeOK
      <4> QED  BY Suited, <4>1
    <3>3. \A n \in DOMAIN todo[q] : todo[q][n].id \in 0..L
      BY <3>2 DEF Suits
    <3> QED  BY <3>1, <3>2, <3>3 DEF Situated, Writing, Suits
  <2> QED  BY <2>1, <2>2
<1>3. ASSUME NEW q \in Screens PROVE Len(seen'[q]) <= Len(rows')
  <2>1. Len(rows) \in Nat /\ Len(seen[q]) \in Nat /\ Len(seen[q]) <= Len(rows)
    BY DEF TypeOK
  <2> QED  BY <2>1
<1> QED  BY <1>1, <1>2, <1>3 DEF TypeOK, Places, WriteType

LEMMA JobTyped ==
  ASSUME NEW G \in SUBSET Groups,
         NEW k \in {"none", "name", "move", "status", "auto", "release", "cancel", "duty"}
  PROVE  Job(k, G) \in JobType /\ Job(k, G).kind = k /\ Job(k, G).groups = G
  BY DEF Job, JobType, NoJob

\* A single write makes a list of writes.
LEMMA OneWrite ==
  ASSUME NEW i \in Nat, NEW row \in RowType
  PROVE  /\ <<Write(i, row)>> \in Seq(WriteType)
         /\ <<Write(i, row)>> # <<>>
         /\ \A n \in DOMAIN <<Write(i, row)>> : /\ <<Write(i, row)>>[n].id = i
                                                /\ <<Write(i, row)>>[n].row = row
  BY DEF Write, WriteType

LEMMA RowTyped ==
  ASSUME NEW c \in Caddies, NEW g \in Groups, NEW t \in Int, NEW st \in Statuses
  PROVE  /\ Row(c, g, t, st) \in RowType
         /\ Row(c, g, t, st).caddie = c /\ Row(c, g, t, st).group = g
         /\ Row(c, g, t, st).at = t /\ Row(c, g, t, st).status = st
  BY DEF Row, RowType

\* A request begins: with what it is asked and writes for rows that exist.
LEMMA StartTyped ==
  ASSUME TypeOK, NEW r \in Requests, Begin(r),
         NEW p \in Places, NEW j \in JobType, NEW t \in Seq(WriteType),
         Starts(r, p, j, t), Suits(p, j, t, Len(rows))
  PROVE  TypeOK'
<1>1. begun' \in 0..MaxRequests
  BY BoundAssumption DEF Begin, TypeOK
<1>2. UNCHANGED <<booked, rows, duties, ledger, stale, seen>>
  BY DEF Starts, Begin, day
<1>3. PICK L \in Nat : L = Len(rows)
  BY DEF TypeOK
<1>4. /\ rows' \in Seq(RowType) /\ L = Len(rows') /\ Len(rows) <= L
      /\ booked' \in [Groups -> BOOLEAN] /\ duties' \in [Caddies -> SUBSET Windows]
      /\ ledger' \in [Groups -> {"none", "bare", "full"}]
      /\ seen' = seen /\ stale' \subseteq DOMAIN rows'
  BY <1>2, <1>3 DEF TypeOK
<1>5. /\ pc' = [pc EXCEPT ![r] = p] /\ job' = [job EXCEPT ![r] = j]
      /\ todo' = [todo EXCEPT ![r] = t] /\ Suits(p, j, t, L)
  BY <1>3 DEF Starts
<1> QED  BY <1>1, <1>4, <1>5, MoveTyped

LEMMA NameTyped ==
  ASSUME TypeOK, NEW r \in Requests, NEW c \in Caddies, NEW g \in Groups, Name(r, c, g)
  PROVE  TypeOK'
<1>1. StartOf[g] \in Int /\ "assigned" \in Statuses /\ Len(rows) \in Nat
  BY DayAssumption DEF Statuses, TypeOK
<1>2. PICK row \in RowType : row = Row(c, g, StartOf[g], "assigned")
  BY <1>1, RowTyped
<1>3. Job("name", {g}) \in JobType /\ Job("name", {g}).kind = "name"
  BY JobTyped
<1>4. /\ <<Write(0, row)>> \in Seq(WriteType) /\ <<Write(0, row)>> # <<>>
      /\ \A n \in DOMAIN <<Write(0, row)>> : <<Write(0, row)>>[n].id = 0
  BY OneWrite
<1>5. Suits("write", Job("name", {g}), <<Write(0, row)>>, Len(rows))
  BY <1>1, <1>3, <1>4 DEF Suits
<1>6. Begin(r) /\ Starts(r, "write", Job("name", {g}), <<Write(0, row)>>)
  BY <1>2 DEF Name
<1>7. "write" \in Places
  BY DEF Places
<1> QED  BY <1>3, <1>4, <1>5, <1>6, <1>7, StartTyped

LEMMA ReassignTyped ==
  ASSUME TypeOK, NEW r \in Requests, NEW i \in DOMAIN rows, NEW c \in Caddies,
         NEW g \in Groups, NEW t \in {StartOf[g], rows[i].at}, Reassign(r, i, c, g, t)
  PROVE  TypeOK'
<1>1. rows[i] \in RowType /\ i \in Nat /\ i \in 0..Len(rows)
  BY DEF TypeOK
<1>2. StartOf[g] \in Int /\ rows[i].at \in Int /\ rows[i].status \in Statuses
  BY <1>1, DayAssumption DEF RowType
<1>3. PICK row \in RowType : row = Row(c, g, t, rows[i].status)
  BY <1>2, RowTyped
<1>4. Job("move", {g}) \in JobType /\ Job("move", {g}).kind = "move"
  BY JobTyped
<1>5. /\ <<Write(i, row)>> \in Seq(WriteType) /\ <<Write(i, row)>> # <<>>
      /\ \A n \in DOMAIN <<Write(i, row)>> : <<Write(i, row)>>[n].id = i
  BY <1>1, OneWrite
<1>6. Suits("write", Job("move", {g}), <<Write(i, row)>>, Len(rows))
  BY <1>1, <1>4, <1>5 DEF Suits
<1>7. Begin(r) /\ Starts(r, "write", Job("move", {g}), <<Write(i, row)>>)
  BY <1>3 DEF Reassign
<1>8. "write" \in Places
  BY DEF Places
<1> QED  BY <1>4, <1>5, <1>6, <1>7, <1>8, StartTyped

\* A row as a screen shows it, and where it is kept.
LEMMA SeenRow ==
  ASSUME TypeOK, NEW p \in Screens, NEW i \in DOMAIN seen[p]
  PROVE  seen[p][i] \in RowType /\ i \in Nat /\ i # 0 /\ i \in 0..Len(rows)
<1>1. seen[p] \in Seq(RowType) /\ Len(seen[p]) <= Len(rows) /\ Len(rows) \in Nat
  BY DEF TypeOK
<1>2. DOMAIN seen[p] = 1..Len(seen[p]) /\ Len(seen[p]) \in Nat
  BY <1>1
<1> QED  BY <1>1, <1>2

LEMMA UpdateStatusTyped ==
  ASSUME TypeOK, NEW r \in Requests, NEW p \in Screens, NEW i \in DOMAIN seen[p],
         NEW st \in {"completed", "cancelled"}, UpdateStatus(r, p, i, st)
  PROVE  TypeOK'
<1>1. seen[p][i] \in RowType /\ i \in Nat /\ i \in 0..Len(rows)
  BY SeenRow
<1>2. PICK row \in RowType :
        row = Row(seen[p][i].caddie, seen[p][i].group, seen[p][i].at, st)
  BY <1>1, RowTyped DEF RowType, Statuses
<1>3. Suits("write", Job("status", {}), <<Write(i, row)>>, Len(rows))
  BY <1>1, JobTyped, OneWrite DEF Suits
<1> QED  BY <1>1, <1>2, <1>3, JobTyped, OneWrite, StartTyped DEF UpdateStatus, Places

LEMMA NoWrites == <<>> \in Seq(WriteType) /\ DOMAIN (<<>>) = {}
  OBVIOUS

LEMMA AutoAssignTyped ==
  ASSUME TypeOK, NEW r \in Requests, AutoAssign(r)
  PROVE  TypeOK'
<1>1. PICK G \in SUBSET Groups : G = {g \in NeedsCaddie : booked[g]}
  BY DayAssumption
<1>2. Suits("plan", Job("auto", G), <<>>, Len(rows))
  BY JobTyped, NoWrites DEF Suits
<1> QED  BY <1>1, <1>2, JobTyped, NoWrites, StartTyped DEF AutoAssign, Places

LEMMA ReleaseDayTyped ==
  ASSUME TypeOK, NEW r \in Requests, ReleaseDay(r)
  PROVE  TypeOK'
<1>1. PICK I \in SUBSET DOMAIN rows : I = {i \in DOMAIN rows : Unstarted(rows[i])}
  OBVIOUS
<1>2. PICK t \in Seq(WriteType) : t = Releases(I) /\ \A n \in DOMAIN t : t[n].id \in I
  BY ReleasesAre DEF TypeOK
<1>3. I \subseteq 0..Len(rows)
  BY DEF TypeOK
<1>4. t # <<>> /\ Begin(r) /\ Starts(r, "release", Job("release", {}), t)
  BY <1>1, <1>2 DEF ReleaseDay
<1>5. Suits("release", Job("release", {}), t, Len(rows))
  BY <1>2, <1>3, <1>4, JobTyped DEF Suits
<1> QED  BY <1>4, <1>5, JobTyped, StartTyped DEF Places

LEMMA CancelTyped ==
  ASSUME TypeOK, NEW r \in Requests, NEW g \in Groups, NEW full \in BOOLEAN,
         Cancel(r, g, full)
  PROVE  TypeOK'
<1>1. PICK j \in JobType : j = [Job("cancel", {g}) EXCEPT !.full = full] /\ j.kind = "cancel"
  <2>1. PICK b \in JobType : b = Job("cancel", {g}) /\ b.kind = "cancel"
    BY JobTyped
  <2>2. [b EXCEPT !.full = full] \in JobType /\ [b EXCEPT !.full = full].kind = "cancel"
    BY <2>1 DEF JobType
  <2> QED  BY <2>1, <2>2
<1>2. Suits("withdraw", j, <<>>, Len(rows))
  BY <1>1, NoWrites DEF Suits
<1> QED  BY <1>1, <1>2, NoWrites, StartTyped DEF Cancel, Places

LEMMA AssignDutyTyped ==
  ASSUME TypeOK, NEW r \in Requests, NEW c \in Caddies, NEW w \in Windows,
         AssignDuty(r, c, w)
  PROVE  TypeOK'
<1>1. PICK j \in JobType : /\ j = [Job("duty", {}) EXCEPT !.caddie = c, !.window = w]
                           /\ j.kind = "duty" /\ j.caddie = c /\ j.window = w
  <2>1. PICK b \in JobType : b = Job("duty", {}) /\ b.kind = "duty"
    BY JobTyped
  <2> DEFINE d == [b EXCEPT !.caddie = c, !.window = w]
  <2>2. d \in JobType /\ d.kind = "duty" /\ d.caddie = c /\ d.window = w
    BY <2>1 DEF JobType
  <2> QED  BY <2>1, <2>2
<1>2. Suits("duty", j, <<>>, Len(rows))
  BY <1>1, NoWrites DEF Suits
<1> QED  BY <1>1, <1>2, NoWrites, StartTyped DEF AssignDuty, Places

\* A request goes on, keeping its job, and Field its rows.
LEMMA GoOnTyped ==
  ASSUME TypeOK, NEW r \in Requests, NEW p \in Places, NEW t \in Seq(WriteType),
         pc' = [pc EXCEPT ![r] = p], todo' = [todo EXCEPT ![r] = t],
         UNCHANGED <<rows, job, begun, seen, stale>>, Suits(p, job[r], t, Len(rows)),
         booked' \in [Groups -> BOOLEAN], duties' \in [Caddies -> SUBSET Windows],
         ledger' \in [Groups -> {"none", "bare", "full"}]
  PROVE  TypeOK'
<1>1. PICK L \in Nat : L = Len(rows)
  BY DEF TypeOK
<1>2. rows' \in Seq(RowType) /\ L = Len(rows') /\ Len(rows) <= L /\ begun' \in 0..MaxRequests
      /\ seen' = seen /\ stale' \subseteq DOMAIN rows'
  BY <1>1 DEF TypeOK
<1>3. PICK j \in JobType : j = job[r]
  BY DEF TypeOK
<1>4. job' = [job EXCEPT ![r] = j]
  BY <1>3 DEF TypeOK
<1>5. Suits(p, j, t, L)
  BY <1>1, <1>3
<1> QED  BY <1>1, <1>2, <1>4, <1>5, MoveTyped

\* The writes a plan leads to.
Planned(f) == [n \in DOMAIN InOrder(f) |->
  Write(0, Row(f[InOrder(f)[n]], InOrder(f)[n], StartOf[InOrder(f)[n]], "assigned"))]

LEMMA PlannedAre ==
  ASSUME NEW D \in SUBSET Groups, NEW f \in [D -> Caddies \cup {Nobody}]
  PROVE  /\ Planned(f) \in Seq(WriteType)
         /\ Planned(f) = <<>> <=> InOrder(f) = <<>>
         /\ \A n \in DOMAIN Planned(f) : Planned(f)[n].id = 0
         /\ \A n \in DOMAIN Planned(f) :
              \E g \in D : /\ f[g] \in Caddies
                           /\ Planned(f)[n] = Write(0, Row(f[g], g, StartOf[g], "assigned"))
         /\ \A m, n \in DOMAIN Planned(f) :
              m # n => Planned(f)[m].row.group # Planned(f)[n].row.group
<1>1. PICK n \in Nat :
        /\ DOMAIN InOrder(f) = 1..n
        /\ InOrder(f) = <<>> <=> n = 0
        /\ \A k \in 1..n : InOrder(f)[k] \in D /\ f[InOrder(f)[k]] \in Caddies
        /\ \A k, l \in 1..n : k # l => InOrder(f)[k] # InOrder(f)[l]
  BY PicksAre
<1>2. ASSUME NEW k \in 1..n
      PROVE  \E g \in D : /\ g = InOrder(f)[k] /\ f[g] \in Caddies
                          /\ Planned(f)[k] = Write(0, Row(f[g], g, StartOf[g], "assigned"))
                          /\ Planned(f)[k].row.group = g /\ Planned(f)[k].id = 0
                          /\ Planned(f)[k] \in WriteType
  <2>1. PICK g \in D : g = InOrder(f)[k] /\ f[g] \in Caddies
    BY <1>1
  <2>2. Planned(f)[k] = Write(0, Row(f[g], g, StartOf[g], "assigned"))
    BY <1>1, <2>1 DEF Planned
  <2>3. StartOf[g] \in Int /\ g \in Groups /\ "assigned" \in Statuses
    BY DayAssumption DEF Statuses
  <2>4. /\ Row(f[g], g, StartOf[g], "assigned") \in RowType
        /\ Row(f[g], g, StartOf[g], "assigned").group = g
    BY <2>1, <2>3, RowTyped
  <2> QED  BY <2>1, <2>2, <2>4 DEF Write, WriteType
<1>3. DOMAIN Planned(f) = 1..n /\ Planned(f) \in [1..n -> WriteType]
  <2>1. DOMAIN Planned(f) = 1..n
    BY <1>1 DEF Planned
  <2>2. Planned(f) = [k \in 1..n |-> Planned(f)[k]]
    BY <1>1 DEF Planned
  <2>3. \A k \in 1..n : Planned(f)[k] \in WriteType
    BY <1>2
  <2> QED  BY <2>1, <2>2, <2>3
<1>4. Planned(f) \in Seq(WriteType)
  BY <1>3
<1>5. Planned(f) = <<>> <=> n = 0
  <2>1. Len(Planned(f)) = n
    BY <1>3, <1>4
  <2> QED  BY <1>4, <2>1, EmptySeq
<1>6. ASSUME NEW k \in 1..n, NEW l \in 1..n, k # l
      PROVE  Planned(f)[k].row.group # Planned(f)[l].row.group
  BY <1>1, <1>2, <1>6
<1> QED  BY <1>1, <1>2, <1>3, <1>4, <1>5, <1>6

LEMMA AutoPlanTyped ==
  ASSUME TypeOK, NEW r \in Requests, AutoPlan(r)
  PROVE  TypeOK'
<1>1. PICK f \in [Open(job[r].groups) -> Caddies \cup {Nobody}] :
        /\ todo' = [todo EXCEPT ![r] = Planned(f)]
        /\ pc' = [pc EXCEPT ![r] = IF InOrder(f) = <<>> THEN "idle" ELSE "write"]
  BY DEF AutoPlan, Planned
<1>2. Open(job[r].groups) \in SUBSET Groups
  BY DEF Open, TypeOK, JobType
<1>3. PICK t \in Seq(WriteType) : /\ t = Planned(f) /\ (t = <<>> <=> InOrder(f) = <<>>)
                                  /\ \A n \in DOMAIN t : t[n].id = 0
  <2>1. PICK D \in SUBSET Groups : D = Open(job[r].groups)
    BY <1>2
  <2>2. f \in [D -> Caddies \cup {Nobody}]
    BY <2>1
  <2> QED  BY <2>2, PlannedAre
<1>4. PICK p \in {"idle", "write"} : /\ p = IF InOrder(f) = <<>> THEN "idle" ELSE "write"
                                     /\ p = "write" <=> t # <<>>
  BY <1>3
<1>5. pc[r] = "plan" /\ UNCHANGED <<booked, rows, duties, ledger, job, begun, seen, stale>>
  BY DEF AutoPlan, day
<1>6. Suits(p, job[r], t, Len(rows))
  <2>1. Len(rows) \in Nat
    BY DEF TypeOK
  <2>2. job[r].kind = "auto"
    BY <1>5, Suited DEF Suits
  <2>3. \A n \in DOMAIN t : t[n].id \in 0..Len(rows)
    BY <1>3, <2>1
  <2> QED  BY <1>4, <2>2, <2>3 DEF Suits
<1>7. /\ booked' \in [Groups -> BOOLEAN] /\ duties' \in [Caddies -> SUBSET Windows]
      /\ ledger' \in [Groups -> {"none", "bare", "full"}]
  BY <1>5 DEF TypeOK
<1> QED  BY <1>1, <1>3, <1>4, <1>5, <1>6, <1>7, GoOnTyped DEF Places

\* A step of cancel_reservation up to the list of rows, or of a duty.
LEMMA OnwardTyped ==
  ASSUME TypeOK, NEW r \in Requests, NEW p \in Places, p \notin {"write", "release"},
         ~Writing(r), Suits(p, job[r], <<>>, Len(rows)),
         pc' = [pc EXCEPT ![r] = p], UNCHANGED <<rows, job, todo, begun, seen, stale>>,
         booked' \in [Groups -> BOOLEAN], duties' \in [Caddies -> SUBSET Windows],
         ledger' \in [Groups -> {"none", "bare", "full"}]
  PROVE  TypeOK'
<1>1. todo[r] = <<>> /\ todo' = [todo EXCEPT ![r] = todo[r]]
  BY DEF TypeOK
<1> QED  BY <1>1, NoWrites, GoOnTyped

LEMMA CancelFieldTyped ==
  ASSUME TypeOK, NEW r \in Requests, CancelField(r)
  PROVE  TypeOK'
<1>1. Suits("record", job[r], <<>>, Len(rows)) /\ ~Writing(r)
  BY Suited, NoWrites DEF Suits, CancelField, Writing
<1>2. booked' \in [Groups -> BOOLEAN] /\ UNCHANGED <<duties, ledger>>
  BY DEF CancelField
<1> QED  BY <1>1, <1>2, OnwardTyped DEF CancelField, Places, TypeOK

LEMMA RecordTyped ==
  ASSUME TypeOK, NEW r \in Requests, Record(r) \/ RecordFails(r)
  PROVE  TypeOK'
<1>1. pc[r] = "record" /\ pc' = [pc EXCEPT ![r] = "list"]
      /\ UNCHANGED <<booked, rows, duties, job, todo, begun, seen, stale>>
  BY DEF Record, RecordFails, day
<1>2. Suits("list", job[r], <<>>, Len(rows)) /\ ~Writing(r)
  BY <1>1, Suited, NoWrites DEF Suits, Writing
<1>3. ledger' \in [Groups -> {"none", "bare", "full"}]
  <2>1. CASE Record(r)
    BY <2>1 DEF Record, TypeOK
  <2>2. CASE RecordFails(r)
    BY <2>2 DEF RecordFails, day, TypeOK
  <2> QED  BY <2>1, <2>2
<1>4. booked' \in [Groups -> BOOLEAN] /\ duties' \in [Caddies -> SUBSET Windows]
  BY <1>1 DEF TypeOK
<1> QED  BY <1>1, <1>2, <1>3, <1>4, OnwardTyped DEF Places

LEMMA ListRowsTyped ==
  ASSUME TypeOK, NEW r \in Requests, ListRows(r)
  PROVE  TypeOK'
<1>1. PICK I \in SUBSET DOMAIN rows : I = {i \in DOMAIN rows : HoldsGroup(rows[i], job[r].groups)}
  OBVIOUS
<1>2. PICK t \in Seq(WriteType) : t = Releases(I) /\ \A n \in DOMAIN t : t[n].id \in I
  BY ReleasesAre DEF TypeOK
<1>3. I \subseteq 0..Len(rows)
  BY DEF TypeOK
<1>4. /\ pc[r] = "list" /\ todo' = [todo EXCEPT ![r] = t]
      /\ pc' = [pc EXCEPT ![r] = IF t = <<>> THEN "idle" ELSE "release"]
      /\ UNCHANGED <<booked, rows, duties, ledger, job, begun, seen, stale>>
  BY <1>1, <1>2 DEF ListRows, day
<1>5. PICK p \in {"idle", "release"} : /\ p = IF t = <<>> THEN "idle" ELSE "release"
                                       /\ p = "release" <=> t # <<>>
  OBVIOUS
<1>6. Suits(p, job[r], t, Len(rows))
  BY <1>2, <1>3, <1>4, <1>5, Suited DEF Suits
<1>7. /\ booked' \in [Groups -> BOOLEAN] /\ duties' \in [Caddies -> SUBSET Windows]
      /\ ledger' \in [Groups -> {"none", "bare", "full"}]
  BY <1>4 DEF TypeOK
<1> QED  BY <1>4, <1>5, <1>6, <1>7, GoOnTyped DEF Places

LEMMA SaveDutyTyped ==
  ASSUME TypeOK, NEW r \in Requests, SaveDuty(r)
  PROVE  TypeOK'
<1>1. job[r].caddie \in Caddies /\ job[r].window \in Windows /\ pc[r] = "duty"
  BY Suited DEF Suits, SaveDuty
<1>2. duties' \in [Caddies -> SUBSET Windows]
  BY <1>1 DEF SaveDuty, TypeOK
<1>3. Suits("idle", job[r], <<>>, Len(rows)) /\ ~Writing(r)
  BY <1>1, NoWrites DEF Suits, Writing
<1>4. booked' \in [Groups -> BOOLEAN] /\ ledger' \in [Groups -> {"none", "bare", "full"}]
  BY DEF SaveDuty, TypeOK
<1> QED  BY <1>1, <1>2, <1>3, <1>4, OnwardTyped DEF SaveDuty, Places

LEMMA ClearDutyTyped ==
  ASSUME TypeOK, NEW c \in Caddies, NEW w \in Windows, ClearDuty(c, w)
  PROVE  TypeOK'
  BY DEF ClearDuty, TypeOK, Situated, Writing

\* The request moves past its first write; what Field holds may have grown.
LEMMA PastTyped ==
  ASSUME TypeOK, NEW r \in Requests, Writing(r), NextRow(r), rows' \in Seq(RowType),
         Len(rows) <= Len(rows'), stale' \subseteq DOMAIN rows',
         UNCHANGED <<booked, duties, ledger, begun, seen>>,
         NEW j \in JobType, j.kind = job[r].kind, job' = [job EXCEPT ![r] = j]
  PROVE  TypeOK'
<1>1. PICK s \in Seq(WriteType) : s = todo[r] /\ s # <<>>
  BY Suited DEF TypeOK
<1>2. PICK t \in Seq(WriteType) :
        /\ t = Tail(s) /\ (t = <<>> <=> Len(s) = 1)
        /\ \A n \in DOMAIN t : n + 1 \in DOMAIN s /\ t[n] = s[n + 1]
  <2>1. /\ Tail(s) \in Seq(WriteType) /\ (Tail(s) = <<>> <=> Len(s) = 1)
        /\ \A n \in DOMAIN Tail(s) : n + 1 \in DOMAIN s /\ Tail(s)[n] = s[n + 1]
    BY <1>1, RestIs
  <2> QED  BY <2>1, Zenon
<1>3. PICK p \in Places : p = IF Len(s) = 1 THEN "idle" ELSE pc[r]
  BY Suited DEF Places
<1>4. pc' = [pc EXCEPT ![r] = p] /\ todo' = [todo EXCEPT ![r] = t]
  BY <1>1, <1>2, <1>3 DEF NextRow, TypeOK
<1>5. PICK L \in Nat : L = Len(rows')
  OBVIOUS
<1>6. Suits(p, j, t, L)
  <2>1. Len(rows) \in Nat /\ Suits(pc[r], job[r], s, Len(rows))
    <3>1. Len(rows) \in Nat
      BY DEF TypeOK
    <3> QED  BY <1>1, <3>1, Suited
  <2>2. \A n \in DOMAIN t : t[n].id \in 0..L
    BY <1>2, <1>5, <2>1 DEF Suits
  <2>3. p \in {"write", "release"} <=> t # <<>>
    BY <1>2, <1>3 DEF Writing
  <2> QED  BY <1>3, <2>1, <2>2, <2>3 DEF Suits, Writing
<1>7. /\ booked' \in [Groups -> BOOLEAN] /\ duties' \in [Caddies -> SUBSET Windows]
      /\ ledger' \in [Groups -> {"none", "bare", "full"}] /\ begun' \in 0..MaxRequests
  BY DEF TypeOK
<1> QED  BY <1>4, <1>5, <1>6, <1>7, MoveTyped

\* The first write of a request that writes.
LEMMA FirstWrite ==
  ASSUME TypeOK, NEW r \in Requests, Writing(r), Apply(r, Head(todo[r]))
  PROVE  \E w \in WriteType : /\ w = todo[r][1] /\ w = Head(todo[r]) /\ 1 \in DOMAIN todo[r]
                              /\ w.id \in 0..Len(rows) /\ Landed(w) /\ Marked(job[r].kind, w)
<1>1. PICK s \in Seq(WriteType) : s = todo[r] /\ s # <<>>
  BY Suited DEF TypeOK
<1>2. PICK w \in WriteType : w = s[1] /\ w = Head(s) /\ 1 \in DOMAIN s
  BY <1>1, RestIs
<1>3. w.id \in 0..Len(rows)
  BY <1>1, <1>2, Suited DEF Suits
<1>4. Apply(r, w) /\ rows \in Seq(RowType)
  BY <1>1, <1>2 DEF TypeOK
<1> QED  BY <1>1, <1>2, <1>3, <1>4, ApplyLands

\* The unchecked rows are rows Field holds.
LEMMA MarkedTyped ==
  ASSUME TypeOK, NEW r \in Requests, Writing(r), Apply(r, Head(todo[r]))
  PROVE  rows' \in Seq(RowType) /\ Len(rows) <= Len(rows') /\ stale' \subseteq DOMAIN rows'
<1>1. PICK w \in WriteType : Landed(w) /\ Marked(job[r].kind, w)
  BY FirstWrite
<1>2. rows' \in Seq(RowType) /\ Len(rows) <= Len(rows')
  BY <1>1 DEF Landed
<1>3. /\ DOMAIN rows = 1..Len(rows) /\ Len(rows) \in Nat
      /\ DOMAIN rows' = 1..Len(rows') /\ Len(rows') \in Nat
  BY <1>2 DEF TypeOK
<1>4. stale' \subseteq DOMAIN rows
  BY <1>1 DEF Marked, TypeOK
<1> QED  BY <1>2, <1>3, <1>4

\* The job of a request a fault hit.
LEMMA UncleanJob ==
  ASSUME TypeOK, NEW r \in Requests, Unclean(r)
  PROVE  \E j \in JobType : /\ job' = [job EXCEPT ![r] = j] /\ j.kind = job[r].kind
                            /\ j.clean = FALSE /\ j.groups = job[r].groups
<1>1. PICK b \in JobType : b = job[r]
  BY DEF TypeOK
<1>2. PICK j \in JobType : /\ j = [b EXCEPT !.clean = FALSE] /\ j.kind = b.kind
                           /\ j.clean = FALSE /\ j.groups = b.groups
  <2> DEFINE d == [b EXCEPT !.clean = FALSE]
  <2>1. d \in JobType
    BY DEF JobType
  <2>2. d.kind = b.kind /\ d.clean = FALSE /\ d.groups = b.groups
    BY DEF JobType
  <2> QED  BY <2>1, <2>2
<1>3. job' = [job EXCEPT ![r] = j]
  BY <1>1, <1>2 DEF Unclean
<1> QED  BY <1>1, <1>2, <1>3

LEMMA WriteRowTyped ==
  ASSUME TypeOK, NEW r \in Requests, WriteRow(r)
  PROVE  TypeOK'
<1>1. Writing(r) /\ Apply(r, Head(todo[r])) /\ NextRow(r)
      /\ UNCHANGED <<booked, duties, ledger, job, begun, seen>>
  BY DEF WriteRow
<1>2. rows' \in Seq(RowType) /\ Len(rows) <= Len(rows') /\ stale' \subseteq DOMAIN rows'
  BY <1>1, MarkedTyped
<1>3. PICK j \in JobType : j = job[r]
  BY DEF TypeOK
<1>4. job' = [job EXCEPT ![r] = j]
  BY <1>1, <1>3 DEF TypeOK
<1> QED  BY <1>1, <1>2, <1>3, <1>4, PastTyped

LEMMA ReleaseFailsTyped ==
  ASSUME TypeOK, NEW r \in Requests, ReleaseFails(r)
  PROVE  TypeOK'
<1>1. /\ Writing(r) /\ NextRow(r) /\ Unclean(r)
      /\ UNCHANGED <<booked, rows, duties, ledger, begun, seen, stale>>
  BY DEF ReleaseFails, Writing, day
<1>2. rows' \in Seq(RowType) /\ Len(rows) <= Len(rows') /\ stale' \subseteq DOMAIN rows'
  BY <1>1 DEF TypeOK
<1>3. PICK j \in JobType : job' = [job EXCEPT ![r] = j] /\ j.kind = job[r].kind
  BY <1>1, UncleanJob
<1> QED  BY <1>1, <1>2, <1>3, PastTyped

LEMMA EndsTyped ==
  ASSUME TypeOK, NEW r \in Requests, Abort(r) \/ WriteLost(r)
  PROVE  TypeOK'
<1>1. /\ pc' = [pc EXCEPT ![r] = "idle"] /\ todo' = [todo EXCEPT ![r] = <<>>]
      /\ Unclean(r) /\ UNCHANGED <<booked, duties, ledger, begun, seen>>
  BY DEF Abort, WriteLost, day
<1>2. rows' \in Seq(RowType) /\ Len(rows) <= Len(rows') /\ stale' \subseteq DOMAIN rows'
  <2>1. CASE Abort(r)
    BY <2>1 DEF Abort, day, TypeOK
  <2>2. CASE WriteLost(r)
    BY <2>2, MarkedTyped DEF WriteLost, Writing
  <2> QED  BY <2>1, <2>2
<1>3. PICK j \in JobType : job' = [job EXCEPT ![r] = j]
  BY <1>1, UncleanJob
<1>4. PICK L \in Nat : L = Len(rows')
  BY <1>2
<1>5. Suits("idle", j, <<>>, L)
  BY NoWrites DEF Suits
<1>6. /\ booked' \in [Groups -> BOOLEAN] /\ duties' \in [Caddies -> SUBSET Windows]
      /\ ledger' \in [Groups -> {"none", "bare", "full"}] /\ begun' \in 0..MaxRequests
  BY <1>1 DEF TypeOK
<1> QED  BY <1>1, <1>2, <1>3, <1>4, <1>5, <1>6, NoWrites, MoveTyped DEF Places

LEMMA LoadTyped ==
  ASSUME TypeOK, NEW p \in Screens, Load(p)
  PROVE  TypeOK'
<1>1. seen' = [seen EXCEPT ![p] = rows] /\ UNCHANGED <<booked, rows, duties, ledger, stale>>
      /\ UNCHANGED <<pc, job, todo, begun>>
  BY DEF Load, day
<1>2. rows \in Seq(RowType) /\ Len(rows) \in Nat
  BY DEF TypeOK
<1>3. seen' \in [Screens -> Seq(RowType)] /\ \A q \in Screens : Len(seen'[q]) <= Len(rows')
  BY <1>1, <1>2 DEF TypeOK
<1> QED  BY <1>1, <1>3 DEF TypeOK, Situated, Writing

LEMMA TypeStep ==
  ASSUME TypeOK, [Next]_vars
  PROVE  TypeOK'
<1>1. ASSUME NEW r \in Requests, Start(r) PROVE TypeOK'
  BY <1>1, NameTyped, ReassignTyped, UpdateStatusTyped, AutoAssignTyped, ReleaseDayTyped,
     CancelTyped, AssignDutyTyped DEF Start
<1>2. ASSUME NEW r \in Requests, Proceed(r) PROVE TypeOK'
  BY <1>2, AutoPlanTyped, CancelFieldTyped, RecordTyped, ListRowsTyped, WriteRowTyped,
     ReleaseFailsTyped, EndsTyped, SaveDutyTyped DEF Proceed
<1>3. CASE UNCHANGED vars
  BY <1>3 DEF vars, TypeOK, Situated, Writing
<1> QED  BY <1>1, <1>2, <1>3, ClearDutyTyped, LoadTyped DEF Next

LEMMA TypeInit == Init => TypeOK
<1> SUFFICES ASSUME Init PROVE TypeOK
  OBVIOUS
<1>1. NoJob \in JobType
  BY JobTyped DEF NoJob
<1>2. begun \in 0..MaxRequests
  BY BoundAssumption DEF Init
<1>3. \A r \in Requests : Situated(r) /\ ~Writing(r) /\ todo[r] = <<>>
  BY DEF Init, Situated, Writing
<1>4. seen \in [Screens -> Seq(RowType)] /\ \A p \in Screens : Len(seen[p]) <= Len(rows)
  BY DEF Init
<1> QED  BY <1>1, <1>2, <1>3, <1>4 DEF Init, TypeOK

\* Every variable keeps its type for any number of requests: in particular a
\* pending write always names a row Field holds, and a request is only ever at
\* a step of the use case it runs.
THEOREM TypeCorrect == Spec => []TypeOK
  BY TypeInit, TypeStep, PTL DEF Spec

\* Whoever cancels a booking again and whichever calls fail, the detail once
\* kept of a cancellation stays (record_cancellation).
THEOREM DetailAlwaysKept == Spec => DetailKept
<1> DEFINE Kept == \A g \in Groups : ledger[g] = "full" => ledger'[g] = "full"
<1>1. TypeOK /\ [Next]_vars => [Kept]_vars
  <2> SUFFICES ASSUME TypeOK, Next PROVE Kept
    BY DEF vars
  <2>1. ASSUME NEW r \in Requests, Start(r) PROVE ledger' = ledger
    BY <2>1 DEF Start, Name, Reassign, UpdateStatus, AutoAssign, ReleaseDay, Cancel,
                AssignDuty, Starts, day
  <2>2. ASSUME NEW r \in Requests, Proceed(r) PROVE Record(r) \/ ledger' = ledger
    BY <2>2 DEF Proceed, AutoPlan, CancelField, RecordFails, ListRows, WriteRow, ReleaseFails,
                WriteLost, Abort, SaveDuty, day
  <2>3. ASSUME NEW r \in Requests, Record(r) PROVE Kept
    BY <2>3 DEF Record, TypeOK
  <2>4. ASSUME NEW c \in Caddies, NEW w \in Windows, ClearDuty(c, w) PROVE ledger' = ledger
    BY <2>4 DEF ClearDuty
  <2>5. ASSUME NEW p \in Screens, Load(p) PROVE ledger' = ledger
    BY <2>5 DEF Load, day
  <2> QED  BY <2>1, <2>2, <2>3, <2>4, <2>5 DEF Next
<1> QED  BY <1>1, TypeCorrect, PTL DEF DetailKept, Spec

-----------------------------------------------------------------------------
(* One request at a time *)

\* Two rounds that cannot both be walked, or hold one group.
Clash(x, y) ==
  x.group = y.group \/ (x.caddie = y.caddie /\ Overlaps(x.at, HoursHeld(x), y.at, HoursHeld(y)))
\* No other work stands in the way of the round.
Unblocked(x) == \A w \in duties[x.caddie] : ~Blocks(w, x.at, HoursHeld(x))

\* The checked rows leave each other and the other work alone.
RowsOK ==
  /\ \A i, j \in Checked : i # j /\ Live(rows[i]) /\ Live(rows[j]) => ~Clash(rows[i], rows[j])
  /\ \A i \in Checked : Live(rows[i]) => Unblocked(rows[i])

DutiesOK == \A c \in Caddies : \A v, w \in duties[c] : v # w => ~Meet(v, w)

\* The write w clashes with no row it does not replace.
Fits(w) == /\ \A i \in DOMAIN rows : i # w.id /\ Live(rows[i]) => ~Clash(rows[i], w.row)
           /\ Unblocked(w.row)

\* Everything decided and not yet written still fits, also with the rest.
WritesFit(t) ==
  \A n \in DOMAIN t : Live(t[n].row) =>
    /\ Fits(t[n])
    /\ \A m \in DOMAIN t : m # n /\ Live(t[m].row) => ~Clash(t[m].row, t[n].row)

\* A status update replaces a row; every other write has been checked.
Safe(j, t) == IF j.kind = "status" THEN \A n \in DOMAIN t : t[n].id # 0 ELSE WritesFit(t)

\* The other work of a request at step p and not yet saved still fits.
DutyFits(p, j) ==
  p = "duty" =>
    /\ \A v \in duties[j.caddie] : v.from # j.window.from => ~Meet(v, j.window)
    /\ \A i \in Rounds(j.caddie) : ~Blocks(j.window, rows[i].at, HoursHeld(rows[i]))

\* A release only takes rounds off, and a cancellation no call of which failed
\* has every round of its group still ahead of it.
ReleaseOK(p, j, t) ==
  p = "release" =>
    /\ \A n \in DOMAIN t : t[n].row.status = "cancelled"
    /\ j.kind = "cancel" /\ j.clean =>
         \A i \in DOMAIN rows : HoldsGroup(rows[i], j.groups) => \E n \in DOMAIN t : t[n].id = i

\* The groups c is still to be put on by the writes t.
Pending(t, c) == {g \in Groups : \E n \in DOMAIN t : t[n].row.caddie = c /\ t[n].row.group = g}

\* The plan creates rounds, and with all of them nobody is past the limit.
LimitOK(p, j, t) ==
  p = "write" /\ j.kind = "auto" =>
    /\ \A n \in DOMAIN t : t[n].id = 0 /\ Live(t[n].row)
    /\ \A c \in Caddies : Pending(t, c) # {} =>
         Cardinality(Rounds(c)) + Cardinality(Pending(t, c)) <= MaxRounds[c]

Serial(p, j, t) ==
  RowsOK /\ DutiesOK /\ Safe(j, t) /\ DutyFits(p, j) /\ ReleaseOK(p, j, t) /\ LimitOK(p, j, t)

\* The inductive invariant while r is the only request.
SerialInv(r) == Serial(pc[r], job[r], todo[r])

\* The request goes to step p with job j and the writes t left.
Moves(r, p, j, t) == pc'[r] = p /\ job'[r] = j /\ todo'[r] = t

LEMMA SerialMoves ==
  ASSUME NEW r \in Requests, NEW p, NEW j, NEW t, Moves(r, p, j, t), Serial(p, j, t)'
  PROVE  SerialInv(r)'
  BY DEF SerialInv, Moves, Serial, Safe, WritesFit, Fits, Unblocked, DutyFits, ReleaseOK, LimitOK,
         Rounds

\* As long as Field's rows and the other work stay, so does the invariant.
LEMMA SerialSame ==
  ASSUME NEW p, NEW j, NEW t, UNCHANGED <<rows, duties, stale>>, Serial(p, j, t)
  PROVE  Serial(p, j, t)'
  BY DEF Serial, RowsOK, Checked, DutiesOK, Safe, WritesFit, Fits, Unblocked, DutyFits, ReleaseOK,
         LimitOK, Rounds

LEMMA ClashSym ==
  ASSUME NEW x, NEW y, ~Clash(x, y)
  PROVE  ~Clash(y, x)
  BY DEF Clash, Overlaps

\* Stretches that do not meet do not meet when they are cut short.
LEMMA Shorter ==
  ASSUME NEW t \in Int, NEW u \in Int, NEW d \in Int, NEW e \in Int,
         NEW d2 \in Int, NEW e2 \in Int, d2 <= d, e2 <= e, ~Overlaps(t, d, u, e)
  PROVE  ~Overlaps(t, d2, u, e2)
  BY DEF Overlaps

LEMMA ShorterBlock ==
  ASSUME NEW w \in Windows, NEW t \in Int, NEW d \in Int, NEW d2 \in Int, d2 <= d, ~Blocks(w, t, d)
  PROVE  ~Blocks(w, t, d2)
<1>1. w.from \in Int /\ w.to \in Int
  BY DayAssumption
<1> QED  BY <1>1 DEF Blocks

\* The hours every check keeps free are within the hours it was made for.
LEMMA HeldWithin ==
  ASSUME NEW row, row.group \in Groups
  PROVE  /\ HoursHeld(row) \in Int /\ Length \in Int /\ RoundLength[row.group] \in Int
         /\ HoursHeld(row) <= Length /\ HoursHeld(row) <= RoundLength[row.group]
         /\ \A d \in Stated(row.group) : d \in Int /\ HoursHeld(row) <= d
<1>1. Length \in Nat /\ RoundLength[row.group] \in Nat
  BY DayAssumption
<1> QED  BY <1>1 DEF HoursHeld, Stated

LEMMA NothingLeft ==
  ASSUME NEW p, NEW j, RowsOK, DutiesOK, p \notin {"duty", "release", "write"}
  PROVE  Serial(p, j, <<>>)
  BY NoWrites DEF Serial, Safe, WritesFit, DutyFits, ReleaseOK, LimitOK

\* One request begins.
LEMMA StartSerial ==
  ASSUME TypeOK, NEW r \in Requests, NEW p, NEW j, NEW t, Starts(r, p, j, t), Serial(p, j, t)
  PROVE  SerialInv(r)'
<1>1. Moves(r, p, j, t) /\ UNCHANGED <<rows, duties, stale>>
  BY DEF Starts, Moves, day, TypeOK
<1> QED  BY <1>1, SerialSame, SerialMoves

\* A single write fits when its row does.
LEMMA OneFits ==
  ASSUME NEW i \in Nat, NEW row \in RowType, NEW j, RowsOK, DutiesOK, j.kind # "auto",
         IF j.kind = "status" THEN i # 0 ELSE Live(row) => Fits(Write(i, row))
  PROVE  Serial("write", j, <<Write(i, row)>>)
<1> DEFINE t == <<Write(i, row)>>
<1>1. \A n \in DOMAIN t : n = 1 /\ t[n] = Write(i, row) /\ t[n].row = row /\ t[n].id = i
  BY DEF Write
<1> HIDE DEF t
<1>2. Safe(j, t)
  BY <1>1 DEF Safe, WritesFit
<1>3. DutyFits("write", j) /\ ReleaseOK("write", j, t) /\ LimitOK("write", j, t)
  BY DEF DutyFits, ReleaseOK, LimitOK
<1> QED  BY <1>2, <1>3 DEF Serial, t

\* check_round_can_be_walked lets a round through that fits.
LEMMA WalkFits ==
  ASSUME TypeOK, NEW c \in Caddies, NEW g \in Groups, NEW t \in Int, NEW st \in Statuses,
         NEW i \in 0..Len(rows), NEW moving, moving \subseteq {i},
         NEW d \in Stated(g), CanWalk(c, g, t, d, moving)
  PROVE  Fits(Write(i, Row(c, g, t, st)))
<1> DEFINE w == Write(i, Row(c, g, t, st))
<1>1. w.id = i /\ w.row.caddie = c /\ w.row.group = g /\ w.row.at = t
  BY DEF Write, Row
<1> HIDE DEF w
<1>2. HoursHeld(w.row) \in Int /\ d \in Int /\ HoursHeld(w.row) <= d /\ Length \in Int
  BY <1>1, HeldWithin
<1>3. ASSUME NEW v \in duties[c] PROVE ~Blocks(v, t, HoursHeld(w.row))
  <2>1. v \in Windows /\ ~Blocks(v, t, d)
    BY <1>3 DEF TypeOK, CanWalk
  <2> QED  BY <1>2, <2>1, ShorterBlock
<1>4. ASSUME NEW k \in DOMAIN rows, k # w.id, Live(rows[k]) PROVE ~Clash(rows[k], w.row)
  <2>1. rows[k] \in RowType /\ k \notin moving
    BY <1>1, <1>4 DEF TypeOK
  <2>2. rows[k].at \in Int /\ HoursHeld(rows[k]) \in Int /\ HoursHeld(rows[k]) <= Length
    BY <2>1, HeldWithin DEF RowType
  <2>3. rows[k].group # g
    BY <1>4, <2>1 DEF CanWalk
  <2>4. ASSUME rows[k].caddie = c PROVE ~Overlaps(rows[k].at, HoursHeld(rows[k]), t, HoursHeld(w.row))
    <3>1. ~Overlaps(rows[k].at, Length, t, d)
      BY <1>4, <2>1, <2>4 DEF CanWalk, Clashes
    <3> QED  BY <1>2, <2>2, <3>1, Shorter
  <2> QED  BY <1>1, <2>3, <2>4 DEF Clash
<1> QED  BY <1>1, <1>3, <1>4 DEF Fits, Unblocked, w

LEMMA NameSerial ==
  ASSUME TypeOK, NEW r \in Requests, SerialInv(r), NEW c \in Caddies, NEW g \in Groups,
         Name(r, c, g)
  PROVE  SerialInv(r)'
<1>1. StartOf[g] \in Int /\ "assigned" \in Statuses /\ 0 \in 0..Len(rows)
  BY DayAssumption DEF Statuses, TypeOK
<1>2. PICK row \in RowType : row = Row(c, g, StartOf[g], "assigned")
  BY <1>1, RowTyped
<1>3. Fits(Write(0, row))
  BY <1>1, <1>2, WalkFits DEF Name
<1>4. Serial("write", Job("name", {g}), <<Write(0, row)>>)
  BY <1>3, JobTyped, OneFits DEF SerialInv, Serial
<1> QED  BY <1>2, <1>4, StartSerial DEF Name

LEMMA ReassignSerial ==
  ASSUME TypeOK, NEW r \in Requests, SerialInv(r), NEW i \in DOMAIN rows, NEW c \in Caddies,
         NEW g \in Groups, NEW t \in {StartOf[g], rows[i].at}, Reassign(r, i, c, g, t)
  PROVE  SerialInv(r)'
<1>1. rows[i] \in RowType /\ i \in Nat /\ i \in 0..Len(rows)
  BY DEF TypeOK
<1>2. StartOf[g] \in Int /\ rows[i].at \in Int /\ rows[i].status \in Statuses
  BY <1>1, DayAssumption DEF RowType
<1>3. PICK row \in RowType : row = Row(c, g, t, rows[i].status)
  BY <1>2, RowTyped
<1>4. Fits(Write(i, row))
  BY <1>1, <1>2, <1>3, WalkFits DEF Reassign
<1>5. Serial("write", Job("move", {g}), <<Write(i, row)>>)
  BY <1>1, <1>4, JobTyped, OneFits DEF SerialInv, Serial
<1> QED  BY <1>3, <1>5, StartSerial DEF Reassign

LEMMA UpdateStatusSerial ==
  ASSUME TypeOK, NEW r \in Requests, SerialInv(r), NEW q \in Screens, NEW i \in DOMAIN seen[q],
         NEW st \in {"completed", "cancelled"}, UpdateStatus(r, q, i, st)
  PROVE  SerialInv(r)'
<1>1. seen[q][i] \in RowType /\ i \in Nat /\ i # 0
  BY SeenRow
<1>2. PICK row \in RowType :
        row = Row(seen[q][i].caddie, seen[q][i].group, seen[q][i].at, st)
  BY <1>1, RowTyped DEF RowType, Statuses
<1>3. Serial("write", Job("status", {}), <<Write(i, row)>>)
  BY <1>1, JobTyped, OneFits DEF SerialInv, Serial
<1> QED  BY <1>2, <1>3, StartSerial DEF UpdateStatus

LEMMA AutoAssignSerial ==
  ASSUME TypeOK, NEW r \in Requests, SerialInv(r), AutoAssign(r)
  PROVE  SerialInv(r)'
<1>1. Serial("plan", Job("auto", {g \in NeedsCaddie : booked[g]}), <<>>)
  BY NothingLeft DEF SerialInv, Serial
<1> QED  BY <1>1, StartSerial DEF AutoAssign

\* Writes that take rounds off fit anywhere.
LEMMA ReleasesFit ==
  ASSUME NEW j, NEW t, RowsOK, DutiesOK, j.kind # "status",
         \A n \in DOMAIN t : t[n].row.status = "cancelled",
         j.kind = "cancel" /\ j.clean =>
           \A i \in DOMAIN rows : HoldsGroup(rows[i], j.groups) => \E n \in DOMAIN t : t[n].id = i
  PROVE  Serial("release", j, t)
  BY DEF Serial, Safe, WritesFit, Live, DutyFits, ReleaseOK, LimitOK

LEMMA ReleaseDaySerial ==
  ASSUME TypeOK, NEW r \in Requests, SerialInv(r), ReleaseDay(r)
  PROVE  SerialInv(r)'
<1>1. PICK I \in SUBSET DOMAIN rows : I = {i \in DOMAIN rows : Unstarted(rows[i])}
  OBVIOUS
<1>2. \A n \in DOMAIN Releases(I) : Releases(I)[n].row.status = "cancelled"
  BY ReleasesAre DEF TypeOK
<1>3. Serial("release", Job("release", {}), Releases(I))
  BY <1>2, JobTyped, ReleasesFit DEF SerialInv, Serial
<1> QED  BY <1>1, <1>3, StartSerial DEF ReleaseDay

LEMMA CancelSerial ==
  ASSUME TypeOK, NEW r \in Requests, SerialInv(r), NEW g \in Groups, NEW full \in BOOLEAN,
         Cancel(r, g, full)
  PROVE  SerialInv(r)'
<1>1. Serial("withdraw", [Job("cancel", {g}) EXCEPT !.full = full], <<>>)
  BY NothingLeft DEF SerialInv, Serial
<1> QED  BY <1>1, StartSerial DEF Cancel

LEMMA AssignDutySerial ==
  ASSUME TypeOK, NEW r \in Requests, SerialInv(r), NEW c \in Caddies, NEW w \in Windows,
         AssignDuty(r, c, w)
  PROVE  SerialInv(r)'
<1> DEFINE j == [Job("duty", {}) EXCEPT !.caddie = c, !.window = w]
<1>1. j.caddie = c /\ j.window = w
  BY DEF Job
<1>2. Starts(r, "duty", j, <<>>)
  BY DEF AssignDuty
<1> HIDE DEF j
<1>3. ASSUME NEW i \in Rounds(c) PROVE ~Blocks(w, rows[i].at, HoursHeld(rows[i]))
  <2>1. rows[i] \in RowType /\ ~Blocks(w, rows[i].at, Length)
    BY <1>3 DEF TypeOK, Rounds, AssignDuty
  <2>2. rows[i].at \in Int /\ HoursHeld(rows[i]) \in Int /\ HoursHeld(rows[i]) <= Length
        /\ Length \in Int
    BY <2>1, HeldWithin DEF RowType
  <2> QED  BY <2>1, <2>2, ShorterBlock
<1>4. DutyFits("duty", j)
  BY <1>1, <1>3 DEF DutyFits, AssignDuty
<1>5. Serial("duty", j, <<>>)
  BY <1>4, NoWrites DEF SerialInv, Serial, Safe, WritesFit, ReleaseOK, LimitOK
<1> QED  BY <1>2, <1>5, StartSerial

\* plan_caddie_assignments: what a plan picks fits, one pick with another.
LEMMA PlanFits ==
  ASSUME TypeOK, NEW G \in SUBSET Groups, NEW f \in [Open(G) -> Caddies \cup {Nobody}],
         IsPlan(f), NEW t, t = Planned(f)
  PROVE  WritesFit(t)
<1>1. PICK D \in SUBSET Groups : D = Open(G)
  BY DEF Open
<1>2. f \in [D -> Caddies \cup {Nobody}] /\ DOMAIN f = D
  BY <1>1
<1>3. ASSUME NEW n \in DOMAIN t
      PROVE  \E g \in D : /\ f[g] \in Caddies /\ t[n].id = 0
                          /\ t[n].row.caddie = f[g] /\ t[n].row.group = g
                          /\ t[n].row.at = StartOf[g] /\ Eligible(f[g], g, f)
  <2>1. PICK g \in D : f[g] \in Caddies /\ t[n] = Write(0, Row(f[g], g, StartOf[g], "assigned"))
    BY <1>2, PlannedAre
  <2>2. f[g] # Nobody
    BY <2>1, RosterAssumption
  <2>3. Eligible(f[g], g, f)
    BY <1>2, <2>2 DEF IsPlan
  <2> QED  BY <2>1, <2>3 DEF Write, Row
<1>4. ASSUME NEW n \in DOMAIN t PROVE Fits(t[n])
  <2>1. PICK g \in D : /\ f[g] \in Caddies /\ t[n].id = 0
                       /\ t[n].row.caddie = f[g] /\ t[n].row.group = g
                       /\ t[n].row.at = StartOf[g] /\ Eligible(f[g], g, f)
    BY <1>3
  <2>h. /\ HoursHeld(t[n].row) \in Int /\ RoundLength[g] \in Int /\ Length \in Int
        /\ HoursHeld(t[n].row) <= RoundLength[g] /\ StartOf[g] \in Int
    BY <2>1, HeldWithin, DayAssumption
  <2>2. ASSUME NEW v \in duties[f[g]] PROVE ~Blocks(v, StartOf[g], HoursHeld(t[n].row))
    <3>1. v \in Windows /\ ~Blocks(v, StartOf[g], RoundLength[g])
      BY <2>1, <2>2 DEF TypeOK, Eligible
    <3> QED  BY <2>h, <3>1, ShorterBlock
  <2>3. ASSUME NEW i \in DOMAIN rows, Live(rows[i]) PROVE ~Clash(rows[i], t[n].row)
    <3>1. rows[i].group # g
      BY <1>1, <2>3 DEF Open
    <3>2. rows[i] \in RowType
      BY DEF TypeOK
    <3>3. rows[i].at \in Int /\ HoursHeld(rows[i]) \in Int /\ HoursHeld(rows[i]) <= Length
      BY <3>2, HeldWithin DEF RowType
    <3>4. ASSUME rows[i].caddie = f[g]
          PROVE  ~Overlaps(rows[i].at, HoursHeld(rows[i]), StartOf[g], HoursHeld(t[n].row))
      <4>1. i \in Rounds(f[g])
        BY <2>3, <3>4 DEF Rounds
      <4>2. ~Overlaps(rows[i].at, Length, StartOf[g], RoundLength[g])
        BY <2>1, <4>1 DEF Eligible, Clashes
      <4> QED  BY <2>h, <3>3, <4>2, Shorter
    <3> QED  BY <2>1, <3>1, <3>4 DEF Clash
  <2> QED  BY <2>1, <2>2, <2>3 DEF Fits, Unblocked
<1>5. ASSUME NEW n \in DOMAIN t, NEW m \in DOMAIN t, m # n PROVE ~Clash(t[m].row, t[n].row)
  <2>1. PICK g \in D : /\ t[n].row.caddie = f[g] /\ t[n].row.group = g
                       /\ t[n].row.at = StartOf[g] /\ Eligible(f[g], g, f)
    BY <1>3
  <2>2. PICK h \in D : /\ t[m].row.caddie = f[h] /\ t[m].row.group = h
                       /\ t[m].row.at = StartOf[h] /\ Eligible(f[h], h, f)
    BY <1>3
  <2>3. g # h
    BY <1>2, <1>5, <2>1, <2>2, PlannedAre
  <2>4. g \in Int /\ h \in Int
    BY DayAssumption DEF Groups
  <2>5. ASSUME f[g] = f[h]
        PROVE  ~Overlaps(StartOf[h], RoundLength[h], StartOf[g], RoundLength[g])
    <3>1. CASE h < g
      BY <1>2, <2>1, <2>5, <3>1 DEF Eligible
    <3>2. CASE g < h
      <4>1. ~Overlaps(StartOf[g], RoundLength[g], StartOf[h], RoundLength[h])
        BY <1>2, <2>2, <2>5, <3>2 DEF Eligible
      <4> QED  BY <4>1 DEF Overlaps
    <3> QED  BY <2>3, <2>4, <3>1, <3>2
  <2>6. /\ StartOf[g] \in Int /\ StartOf[h] \in Int
        /\ HoursHeld(t[n].row) \in Int /\ RoundLength[g] \in Int
        /\ HoursHeld(t[n].row) <= RoundLength[g]
        /\ HoursHeld(t[m].row) \in Int /\ RoundLength[h] \in Int
        /\ HoursHeld(t[m].row) <= RoundLength[h]
    BY <2>1, <2>2, HeldWithin, DayAssumption
  <2>7. f[g] = f[h] => ~Overlaps(StartOf[h], HoursHeld(t[m].row), StartOf[g], HoursHeld(t[n].row))
    BY <2>5, <2>6, Shorter
  <2> QED  BY <2>1, <2>2, <2>3, <2>7 DEF Clash
<1> QED  BY <1>4, <1>5 DEF WritesFit

\* Rounds and groups can be counted.
LEMMA Countable ==
  ASSUME TypeOK
  PROVE  /\ \A c \in Caddies : /\ IsFiniteSet(Rounds(c)) /\ Cardinality(Rounds(c)) \in Nat
         /\ \A P \in SUBSET Groups : IsFiniteSet(P) /\ Cardinality(P) \in Nat
<1>1. IsFiniteSet(Groups)
  BY DayAssumption, FS_Interval DEF Groups
<1>2. IsFiniteSet(DOMAIN rows)
  <2>1. DOMAIN rows = 1..Len(rows) /\ Len(rows) \in Nat
    BY DEF TypeOK
  <2> QED  BY <2>1, FS_Interval
<1>3. ASSUME NEW c \in Caddies PROVE IsFiniteSet(Rounds(c)) /\ Cardinality(Rounds(c)) \in Nat
  <2>1. Rounds(c) \subseteq DOMAIN rows
    BY DEF Rounds
  <2> QED  BY <1>2, <2>1, FS_Subset, FS_CardinalityType
<1>4. ASSUME NEW P \in SUBSET Groups PROVE IsFiniteSet(P) /\ Cardinality(P) \in Nat
  BY <1>1, FS_Subset, FS_CardinalityType
<1> QED  BY <1>3, <1>4

\* plan_caddie_assignments: a caddie's last pick was checked against all the
\* others and against the rounds they had.
LEMMA PlanInLimit ==
  ASSUME TypeOK, NEW G \in SUBSET Groups, NEW f \in [Open(G) -> Caddies \cup {Nobody}],
         IsPlan(f), NEW t, t = Planned(f), NEW c \in Caddies, Pending(t, c) # {}
  PROVE  Cardinality(Rounds(c)) + Cardinality(Pending(t, c)) <= MaxRounds[c]
<1>1. PICK D \in SUBSET Groups : D = Open(G)
  BY DEF Open
<1>2. f \in [D -> Caddies \cup {Nobody}] /\ DOMAIN f = D
  BY <1>1
<1>3. PICK P \in SUBSET Groups : P = Pending(t, c)
  BY DEF Pending
<1>4. ASSUME NEW g \in P PROVE g \in D /\ f[g] = c
  <2>1. PICK n \in DOMAIN t : t[n].row.caddie = c /\ t[n].row.group = g
    BY <1>3 DEF Pending
  <2>2. PICK h \in D : f[h] \in Caddies /\ t[n] = Write(0, Row(f[h], h, StartOf[h], "assigned"))
    BY <1>2, PlannedAre
  <2>3. h = g /\ f[h] = c
    BY <2>1, <2>2 DEF Write, Row
  <2> QED  BY <2>3
<1>5. PICK g \in P : \A h \in P : h <= g
  <2>1. P \in SUBSET (0..GroupCount) /\ GroupCount \in Nat
    BY DayAssumption DEF Groups
  <2> QED  BY <1>3, <2>1, NatMax
<1>6. Eligible(c, g, f)
  <2>1. g \in D /\ f[g] = c /\ c # Nobody
    BY <1>4, RosterAssumption
  <2> QED  BY <1>2, <2>1 DEF IsPlan
<1>7. PICK E \in SUBSET Groups : E = {h \in DOMAIN f : h < g /\ f[h] = c}
  BY <1>2
<1>8. P \ {g} \subseteq E
  <2> SUFFICES ASSUME NEW h \in P, h # g PROVE h \in E
    OBVIOUS
  <2>1. h <= g /\ h \in Int /\ g \in Int
    BY <1>5, DayAssumption DEF Groups
  <2> QED  BY <1>2, <1>4, <1>7, <2>1
<1>9. Cardinality(Rounds(c)) + Cardinality(E) < MaxRounds[c]
  BY <1>6, <1>7 DEF Eligible
<1>10. Cardinality(P \ {g}) = Cardinality(P) - 1 /\ Cardinality(P \ {g}) <= Cardinality(E)
  BY <1>8, Countable, FS_RemoveElement, FS_Subset
<1>11. Cardinality(Rounds(c)) \in Nat /\ Cardinality(E) \in Nat /\ Cardinality(P) \in Nat
       /\ MaxRounds[c] \in Nat
  BY Countable, RosterAssumption
<1> QED  BY <1>3, <1>9, <1>10, <1>11

LEMMA AutoPlanSerial ==
  ASSUME TypeOK, NEW r \in Requests, SerialInv(r), AutoPlan(r)
  PROVE  SerialInv(r)'
<1>1. PICK f \in [Open(job[r].groups) -> Caddies \cup {Nobody}] :
        /\ IsPlan(f) /\ todo' = [todo EXCEPT ![r] = Planned(f)]
        /\ pc' = [pc EXCEPT ![r] = IF InOrder(f) = <<>> THEN "idle" ELSE "write"]
  BY DEF AutoPlan, Planned
<1>2. PICK G \in SUBSET Groups : G = job[r].groups
  BY DEF TypeOK, JobType
<1>3. PICK D \in SUBSET Groups : D = Open(G) /\ f \in [D -> Caddies \cup {Nobody}]
  BY <1>1, <1>2 DEF Open
<1>4. PICK t : t = Planned(f)
  OBVIOUS
<1>5. PICK j : j = job[r]
  OBVIOUS
<1>6. PICK p \in {"idle", "write"} : p = IF InOrder(f) = <<>> THEN "idle" ELSE "write"
  OBVIOUS
<1>7. Moves(r, p, j, t) /\ UNCHANGED <<rows, duties, stale>>
  BY <1>1, <1>4, <1>5, <1>6 DEF AutoPlan, Moves, day, TypeOK
<1>a. j.kind = "auto"
  BY <1>5, Suited DEF AutoPlan, Suits
<1>8. WritesFit(t)
  BY <1>1, <1>2, <1>4, PlanFits
<1>9. LimitOK(p, j, t)
  <2>1. ASSUME NEW n \in DOMAIN t PROVE t[n].id = 0 /\ Live(t[n].row)
    <3>1. PICK g \in D : t[n] = Write(0, Row(f[g], g, StartOf[g], "assigned"))
      BY <1>3, <1>4, PlannedAre
    <3> QED  BY <3>1 DEF Write, Row, Live
  <2>2. ASSUME NEW c \in Caddies, Pending(t, c) # {}
        PROVE  Cardinality(Rounds(c)) + Cardinality(Pending(t, c)) <= MaxRounds[c]
    BY <1>1, <1>2, <1>4, <2>2, PlanInLimit
  <2> QED  BY <2>1, <2>2 DEF LimitOK
<1>10. Serial(p, j, t)
  BY <1>8, <1>9, <1>a DEF SerialInv, Serial, Safe, DutyFits, ReleaseOK
<1> QED  BY <1>7, <1>10, SerialSame, SerialMoves

\* Steps of cancel_reservation before the rows are listed.
LEMMA WithdrawSerial ==
  ASSUME TypeOK, NEW r \in Requests, SerialInv(r), CancelField(r) \/ Record(r) \/ RecordFails(r)
  PROVE  SerialInv(r)'
<1>1. PICK p \in {"record", "list"} : pc' = [pc EXCEPT ![r] = p]
  BY DEF CancelField, Record, RecordFails
<1>2. pc[r] \in {"withdraw", "record"} /\ UNCHANGED <<rows, duties, job, todo, stale>>
  BY DEF CancelField, Record, RecordFails, day
<1>3. todo[r] = <<>>
  BY <1>2 DEF TypeOK, Writing
<1>4. PICK j : j = job[r]
  OBVIOUS
<1>5. Moves(r, p, j, <<>>)
  BY <1>1, <1>2, <1>3, <1>4 DEF Moves, TypeOK
<1>6. Serial(p, j, <<>>)
  BY NothingLeft DEF SerialInv, Serial
<1> QED  BY <1>2, <1>5, <1>6, SerialSame, SerialMoves

LEMMA ListRowsSerial ==
  ASSUME TypeOK, NEW r \in Requests, SerialInv(r), ListRows(r)
  PROVE  SerialInv(r)'
<1>1. PICK I \in SUBSET DOMAIN rows : I = {i \in DOMAIN rows : HoldsGroup(rows[i], job[r].groups)}
  OBVIOUS
<1>2. PICK t : /\ t = Releases(I) /\ \A n \in DOMAIN t : t[n].row.status = "cancelled"
               /\ \A i \in I : \E n \in DOMAIN t : t[n].id = i
  <2>1. /\ \A n \in DOMAIN Releases(I) : Releases(I)[n].row.status = "cancelled"
        /\ \A i \in I : \E n \in DOMAIN Releases(I) : Releases(I)[n].id = i
    BY ReleasesAre DEF TypeOK
  <2> QED  BY <2>1, Zenon
<1>3. PICK j : j = job[r]
  OBVIOUS
<1>4. PICK p \in {"idle", "release"} : p = IF t = <<>> THEN "idle" ELSE "release"
  OBVIOUS
<1>5. Moves(r, p, j, t) /\ UNCHANGED <<rows, duties, stale>>
  BY <1>1, <1>2, <1>3, <1>4 DEF ListRows, Moves, day, TypeOK
<1>k. j.kind = "cancel"
  BY <1>3, Suited DEF ListRows, Suits
<1>6. RowsOK /\ DutiesOK
  BY DEF SerialInv, Serial
<1>7. Serial("release", j, t)
  BY <1>1, <1>2, <1>3, <1>6, <1>k, ReleasesFit
<1>8. Serial(p, j, t)
  <2>1. CASE t = <<>>
    BY <1>4, <1>6, <2>1, NothingLeft
  <2>2. CASE t # <<>>
    BY <1>4, <1>7, <2>2
  <2> QED  BY <2>1, <2>2
<1> QED  BY <1>5, <1>8, SerialSame, SerialMoves

\* The write w leaves the checked rows alone.
FitsChecked(w) == /\ \A i \in Checked : i # w.id /\ Live(rows[i]) => ~Clash(rows[i], w.row)
                  /\ Unblocked(w.row)

\* A row that a write leaves checked was checked for that write, or by an
\* earlier one that put it in the same place.
LEMMA MarkedFits ==
  ASSUME TypeOK, RowsOK, NEW w \in WriteType, NEW k, Landed(w), Marked(k, w), Live(w.row),
         Target(w) \notin stale', w.id \in 0..Len(rows),
         IF k = "status" THEN w.id # 0 ELSE Fits(w)
  PROVE  FitsChecked(w)
<1>1. CASE k # "status"
  BY <1>1 DEF Fits, FitsChecked, Checked
<1>2. CASE k = "status"
  <2>1. w.id \in DOMAIN rows /\ Target(w) = w.id
    <3>1. Len(rows) \in Nat /\ DOMAIN rows = 1..Len(rows)
      BY DEF TypeOK
    <3> QED  BY <1>2, <3>1 DEF Target
  <2>2. PICK i \in DOMAIN rows : i = w.id
    BY <2>1
  <2>3. i \notin stale /\ ~Upsets(i, w.row)
    BY <1>2, <2>1, <2>2 DEF Marked
  <2>4. /\ i \in Checked /\ Live(rows[i]) /\ rows[i].caddie = w.row.caddie
        /\ rows[i].group = w.row.group /\ rows[i].at = w.row.at
    BY <2>3 DEF Checked, Upsets, Place
  <2>5. HoursHeld(rows[i]) = HoursHeld(w.row)
    BY <2>4 DEF HoursHeld
  <2>6. Unblocked(w.row)
    BY <2>4, <2>5 DEF RowsOK, Unblocked
  <2>7. ASSUME NEW n \in Checked, n # w.id, Live(rows[n]) PROVE ~Clash(rows[n], w.row)
    <3>1. ~Clash(rows[n], rows[i])
      BY <2>2, <2>4, <2>7 DEF RowsOK
    <3> QED  BY <2>4, <2>5, <3>1 DEF Clash
  <2> QED  BY <2>6, <2>7 DEF FitsChecked
<1> QED  BY <1>1, <1>2

\* A write that fits leaves rows that fit.
LEMMA LandRows ==
  ASSUME TypeOK, RowsOK, NEW w \in WriteType, NEW k, w.id \in 0..Len(rows), Landed(w), Marked(k, w),
         IF k = "status" THEN w.id # 0 ELSE Live(w.row) => Fits(w), UNCHANGED duties
  PROVE  RowsOK'
<1> DEFINE C == DOMAIN rows' \ stale'
<1>1. DOMAIN rows = 1..Len(rows) /\ DOMAIN rows' = 1..Len(rows')
  BY DEF TypeOK, Landed
<1>2. ASSUME NEW i \in C, i # Target(w)
      PROVE  i \in Checked /\ rows'[i] = rows[i] /\ i # w.id
  <2>1. i # w.id
    <3>1. i # 0
      BY <1>1
    <3> QED  BY <1>2, <3>1 DEF Target
  <2>2. i \notin stale
    BY <2>1 DEF Marked
  <2> QED  BY <1>1, <1>2, <2>1, <2>2 DEF Landed, Checked
<1>3. rows'[Target(w)] = w.row
  BY DEF Landed
<1>4. ASSUME Live(w.row), Target(w) \in C PROVE FitsChecked(w)
  BY <1>4, MarkedFits
<1>5. ASSUME NEW i \in C, NEW n \in C, i # n, Live(rows'[i]), Live(rows'[n])
      PROVE  ~Clash(rows'[i], rows'[n])
  <2>1. CASE i = Target(w)
    <3>1. ~Clash(rows[n], w.row)
      BY <1>2, <1>3, <1>4, <1>5, <2>1 DEF FitsChecked
    <3> QED  BY <1>2, <1>3, <1>5, <2>1, <3>1, ClashSym
  <2>2. CASE n = Target(w)
    BY <1>2, <1>3, <1>4, <1>5, <2>2 DEF FitsChecked
  <2>3. CASE i # Target(w) /\ n # Target(w)
    BY <1>2, <1>5, <2>3 DEF RowsOK
  <2> QED  BY <2>1, <2>2, <2>3
<1>6. ASSUME NEW i \in C, Live(rows'[i]) PROVE Unblocked(rows'[i])
  <2>1. CASE i = Target(w)
    BY <1>3, <1>4, <1>6, <2>1 DEF FitsChecked
  <2>2. CASE i # Target(w)
    BY <1>2, <1>6, <2>2 DEF RowsOK
  <2> QED  BY <2>1, <2>2
<1>7. \A i \in C : Live(rows'[i]) =>
        \A v \in duties'[rows'[i].caddie] : ~Blocks(v, rows'[i].at, HoursHeld(rows'[i]))
  BY <1>6 DEF Unblocked
<1> QED  BY <1>5, <1>7 DEF RowsOK, Checked, Live, Unblocked

\* The rounds of a caddie once a created round has landed.
LEMMA LandRounds ==
  ASSUME TypeOK, NEW w \in WriteType, Landed(w), w.id = 0, Live(w.row), NEW c \in Caddies
  PROVE  /\ c = w.row.caddie => Cardinality(Rounds(c)') = Cardinality(Rounds(c)) + 1
         /\ c # w.row.caddie => Cardinality(Rounds(c)') = Cardinality(Rounds(c))
<1>1. /\ DOMAIN rows = 1..Len(rows) /\ DOMAIN rows' = 1..(Len(rows) + 1) /\ Len(rows) \in Nat
      /\ rows'[Len(rows) + 1] = w.row
      /\ \A i \in 1..Len(rows) : rows'[i] = rows[i]
  <2>1. Len(rows) \in Nat /\ DOMAIN rows = 1..Len(rows)
    BY DEF TypeOK
  <2>2. Target(w) = Len(rows) + 1 /\ Len(rows') = Len(rows) + 1
    BY DEF Target, Landed
  <2>3. DOMAIN rows' = 1..(Len(rows) + 1)
    BY <2>2 DEF Landed
  <2>4. ASSUME NEW i \in 1..Len(rows) PROVE rows'[i] = rows[i]
    <3>1. i \in 1..Len(rows') /\ i # Target(w)
      BY <2>1, <2>2
    <3> QED  BY <3>1 DEF Landed
  <2> QED  BY <2>1, <2>2, <2>3, <2>4 DEF Landed
<1>2. Rounds(c)' = {i \in DOMAIN rows' : rows'[i].caddie = c /\ Live(rows'[i])}
  BY DEF Rounds, Live
<1>3. CASE c = w.row.caddie
  <2>1. Rounds(c)' = Rounds(c) \cup {Len(rows) + 1}
    <3>1. ASSUME NEW i \in Rounds(c)' PROVE i \in Rounds(c) \cup {Len(rows) + 1}
      <4>1. i \in 1..Len(rows) \/ i = Len(rows) + 1
        BY <1>1, <1>2
      <4> QED  BY <1>1, <1>2, <4>1 DEF Rounds
    <3>2. ASSUME NEW i \in Rounds(c) PROVE i \in Rounds(c)'
      <4>1. i \in 1..Len(rows) /\ i \in 1..(Len(rows) + 1)
        BY <1>1 DEF Rounds
      <4> QED  BY <1>1, <1>2, <4>1 DEF Rounds
    <3>3. Len(rows) + 1 \in Rounds(c)'
      <4>1. Len(rows) + 1 \in 1..(Len(rows) + 1)
        BY <1>1
      <4> QED  BY <1>1, <1>2, <1>3, <4>1
    <3> QED  BY <3>1, <3>2, <3>3
  <2>2. Len(rows) + 1 \notin Rounds(c)
    BY <1>1 DEF Rounds
  <2>3. Cardinality(Rounds(c) \cup {Len(rows) + 1}) = Cardinality(Rounds(c)) + 1
    BY <2>2, Countable, FS_AddElement
  <2> QED  BY <1>3, <2>1, <2>3
<1>4. CASE c # w.row.caddie
  <2>1. Rounds(c)' = Rounds(c)
    <3>1. ASSUME NEW i \in Rounds(c)' PROVE i \in Rounds(c)
      <4>1. i \in 1..Len(rows) \/ i = Len(rows) + 1
        BY <1>1, <1>2
      <4> QED  BY <1>1, <1>2, <1>4, <4>1 DEF Rounds
    <3>2. ASSUME NEW i \in Rounds(c) PROVE i \in Rounds(c)'
      <4>1. i \in 1..Len(rows) /\ i \in 1..(Len(rows) + 1)
        BY <1>1 DEF Rounds
      <4> QED  BY <1>1, <1>2, <4>1 DEF Rounds
    <3> QED  BY <3>1, <3>2
  <2> QED  BY <1>4, <2>1
<1> QED  BY <1>3, <1>4

\* The first write lands and the rest are left.
Advance(r, w, j, t, p) ==
  /\ w \in WriteType /\ Landed(w) /\ Marked(j.kind, w) /\ UNCHANGED duties
  /\ w.id \in 0..Len(rows) /\ w = todo[r][1] /\ 1 \in DOMAIN todo[r]
  /\ j = job[r] /\ p \in {"idle", pc[r]} /\ Moves(r, p, j, t)
  /\ \A n \in DOMAIN t : /\ n \in Nat \ {0} /\ n + 1 \in DOMAIN todo[r]
                         /\ t[n] = todo[r][n + 1]
  /\ \A n \in DOMAIN todo[r] : n # 1 => n - 1 \in DOMAIN t /\ t[n - 1] = todo[r][n]

LEMMA WriteAdvances ==
  ASSUME TypeOK, NEW r \in Requests, WriteRow(r)
  PROVE  \E w, j, t, p : Advance(r, w, j, t, p)
<1>1. Writing(r) /\ Apply(r, Head(todo[r])) /\ NextRow(r) /\ UNCHANGED <<duties, job>>
  BY DEF WriteRow
<1>2. PICK w \in WriteType : /\ w = todo[r][1] /\ 1 \in DOMAIN todo[r]
                             /\ w.id \in 0..Len(rows) /\ Landed(w) /\ Marked(job[r].kind, w)
  BY <1>1, FirstWrite
<1>3. PICK s \in Seq(WriteType) : s = todo[r] /\ s # <<>>
  BY <1>1, Suited DEF TypeOK
<1>4. PICK t : t = Tail(s)
  OBVIOUS
<1>5. /\ \A n \in DOMAIN t : n \in Nat \ {0} /\ n + 1 \in DOMAIN s /\ t[n] = s[n + 1]
      /\ \A n \in DOMAIN s : n # 1 => n - 1 \in DOMAIN t /\ t[n - 1] = s[n]
  BY <1>3, <1>4, RestIs
<1>6. PICK p \in {"idle", pc[r]} : p = IF Len(s) = 1 THEN "idle" ELSE pc[r]
  OBVIOUS
<1>7. PICK j : j = job[r]
  OBVIOUS
<1>8. Moves(r, p, j, t)
  BY <1>1, <1>3, <1>4, <1>6, <1>7 DEF Moves, NextRow, TypeOK
<1>9. Advance(r, w, j, t, p)
  BY <1>1, <1>2, <1>3, <1>5, <1>6, <1>7, <1>8 DEF Advance
<1> QED  BY <1>9

\* A cancellation no call of which failed still has every round of its group
\* ahead of it after the write.
LEMMA StillAhead ==
  ASSUME TypeOK, NEW r \in Requests, SerialInv(r), NEW w, NEW j, NEW t, NEW p,
         Advance(r, w, j, t, p), pc[r] = "release", j.kind = "cancel", j.clean,
         NEW i \in DOMAIN rows', HoldsGroup(rows'[i], j.groups)
  PROVE  \E n \in DOMAIN t : t[n].id = i
<1>1. ReleaseOK(pc[r], j, todo[r])
  BY DEF SerialInv, Serial, Advance
<1>2. DOMAIN rows = 1..Len(rows) /\ DOMAIN rows' = 1..Len(rows') /\ i # 0
  BY DEF TypeOK, Advance, Landed
<1>3. i # Target(w)
  BY <1>1 DEF ReleaseOK, Advance, Landed, HoldsGroup, Live
<1>4. i \in DOMAIN rows /\ rows'[i] = rows[i]
  BY <1>2, <1>3 DEF Advance, Landed
<1>5. PICK n \in DOMAIN todo[r] : todo[r][n].id = i
  BY <1>1, <1>4 DEF ReleaseOK
<1>6. n # 1
  BY <1>2, <1>3, <1>5 DEF Advance, Target
<1> QED  BY <1>5, <1>6 DEF Advance

\* What is still to be written fits the rows with the first write among them.
LEMMA RestFits ==
  ASSUME TypeOK, NEW r \in Requests, SerialInv(r), NEW w, NEW j, NEW t, NEW p,
         Advance(r, w, j, t, p), j.kind # "status"
  PROVE  WritesFit(t)'
<1>1. WritesFit(todo[r])
  BY DEF SerialInv, Serial, Safe, Advance
<1>2. DOMAIN rows = 1..Len(rows) /\ DOMAIN rows' = 1..Len(rows')
  BY DEF TypeOK, Advance, Landed
<1>3. ASSUME NEW n \in DOMAIN t, Live(t[n].row)
      PROVE  /\ \A i \in DOMAIN rows' : i # t[n].id /\ Live(rows'[i]) => ~Clash(rows'[i], t[n].row)
             /\ \A v \in duties'[t[n].row.caddie] : ~Blocks(v, t[n].row.at, HoursHeld(t[n].row))
             /\ \A m \in DOMAIN t : m # n /\ Live(t[m].row) => ~Clash(t[m].row, t[n].row)
  <2>1. /\ n \in Nat \ {0} /\ n + 1 \in DOMAIN todo[r] /\ t[n] = todo[r][n + 1]
        /\ n + 1 # 1 /\ 1 \in DOMAIN todo[r]
    BY DEF Advance
  <2>2. /\ Fits(t[n])
        /\ \A m \in DOMAIN todo[r] : m # n + 1 /\ Live(todo[r][m].row) =>
             ~Clash(todo[r][m].row, t[n].row)
    BY <1>1, <1>3, <2>1 DEF WritesFit
  <2>3. ASSUME NEW i \in DOMAIN rows', i # t[n].id, Live(rows'[i])
        PROVE  ~Clash(rows'[i], t[n].row)
    <3>1. CASE i = Target(w)
      <4>1. rows'[i] = todo[r][1].row
        BY <3>1 DEF Advance, Landed
      <4> QED  BY <2>1, <2>2, <2>3, <4>1
    <3>2. CASE i # Target(w)
      <4>1. i \in DOMAIN rows /\ rows'[i] = rows[i]
        BY <1>2, <3>2 DEF Advance, Landed
      <4> QED  BY <2>2, <2>3, <4>1 DEF Fits
    <3> QED  BY <3>1, <3>2
  <2>4. \A v \in duties'[t[n].row.caddie] : ~Blocks(v, t[n].row.at, HoursHeld(t[n].row))
    BY <2>2 DEF Fits, Unblocked, Advance
  <2>5. ASSUME NEW m \in DOMAIN t, m # n, Live(t[m].row) PROVE ~Clash(t[m].row, t[n].row)
    <3>1. m \in Nat /\ m + 1 \in DOMAIN todo[r] /\ t[m] = todo[r][m + 1]
      BY DEF Advance
    <3>2. m + 1 # n + 1
      BY <2>1, <2>5, <3>1
    <3> QED  BY <2>2, <2>5, <3>1, <3>2
  <2> QED  BY <2>3, <2>4, <2>5
<1> QED  BY <1>3 DEF WritesFit, Fits, Unblocked, Live

\* Creating the first planned round leaves everyone within the limit.
LEMMA RestInLimit ==
  ASSUME TypeOK, NEW r \in Requests, SerialInv(r), NEW w, NEW j, NEW t, NEW p,
         Advance(r, w, j, t, p), pc[r] = "write", j.kind = "auto"
  PROVE  /\ w.id = 0 /\ Live(w.row)
         /\ \A n \in DOMAIN t : t[n].id = 0 /\ Live(t[n].row)
         /\ \A c \in Caddies : c = w.row.caddie \/ Pending(t, c) # {} =>
              Cardinality(Rounds(c)') + Cardinality(Pending(t, c)) <= MaxRounds[c]
<1>1. LimitOK(pc[r], j, todo[r]) /\ WritesFit(todo[r])
  BY DEF SerialInv, Serial, Safe, Advance
<1>2. w.id = 0 /\ Live(w.row) /\ \A n \in DOMAIN t : t[n].id = 0 /\ Live(t[n].row)
  BY <1>1 DEF LimitOK, Advance
<1>3. w \in WriteType /\ w.row.caddie \in Caddies /\ w.row.group \in Groups
  BY DEF Advance, WriteType, RowType
<1>4. ASSUME NEW c \in Caddies
      PROVE  Pending(t, c) = Pending(todo[r], c) \ (IF c = w.row.caddie THEN {w.row.group} ELSE {})
  <2>1. ASSUME NEW g \in Pending(t, c) PROVE g \in Pending(todo[r], c) /\ g # w.row.group
    <3>1. PICK n \in DOMAIN t : t[n].row.caddie = c /\ t[n].row.group = g
      BY DEF Pending
    <3>2. n \in Nat \ {0} /\ n + 1 \in DOMAIN todo[r] /\ t[n] = todo[r][n + 1] /\ n + 1 # 1
      BY DEF Advance
    <3>3. g \in Pending(todo[r], c)
      BY <3>1, <3>2 DEF Pending
    <3>4. ~Clash(w.row, todo[r][n + 1].row)
      BY <1>1, <1>2, <3>2 DEF WritesFit, Advance
    <3> QED  BY <3>1, <3>2, <3>3, <3>4 DEF Clash
  <2>2. ASSUME NEW g \in Pending(todo[r], c), c # w.row.caddie \/ g # w.row.group
        PROVE  g \in Pending(t, c)
    <3>1. PICK n \in DOMAIN todo[r] : todo[r][n].row.caddie = c /\ todo[r][n].row.group = g
      BY DEF Pending
    <3>2. n # 1
      BY <2>2, <3>1 DEF Advance
    <3>3. n - 1 \in DOMAIN t /\ t[n - 1] = todo[r][n]
      BY <3>2 DEF Advance
    <3> QED  BY <3>1, <3>3 DEF Pending
  <2> QED  BY <2>1, <2>2
<1>5. w.row.group \in Pending(todo[r], w.row.caddie)
  BY <1>3 DEF Pending, Advance
<1>6. ASSUME NEW c \in Caddies, c = w.row.caddie \/ Pending(t, c) # {}
      PROVE  Cardinality(Rounds(c)') + Cardinality(Pending(t, c)) <= MaxRounds[c]
  <2>1. PICK P \in SUBSET Groups : P = Pending(todo[r], c)
    BY DEF Pending
  <2>2. P # {}
    BY <1>4, <1>5, <1>6, <2>1
  <2>3. Cardinality(Rounds(c)) + Cardinality(P) <= MaxRounds[c]
    BY <1>1, <2>1, <2>2 DEF LimitOK
  <2>4. Cardinality(Rounds(c)) \in Nat /\ Cardinality(P) \in Nat /\ IsFiniteSet(P)
        /\ MaxRounds[c] \in Nat
    BY Countable, RosterAssumption
  <2>5. CASE c = w.row.caddie
    <3>1. Cardinality(Pending(t, c)) = Cardinality(P) - 1
      BY <1>4, <1>5, <2>1, <2>4, <2>5, FS_RemoveElement
    <3>2. Cardinality(Rounds(c)') = Cardinality(Rounds(c)) + 1
      BY <1>2, <1>3, <2>5, LandRounds DEF Advance
    <3> QED  BY <2>3, <2>4, <3>1, <3>2
  <2>6. CASE c # w.row.caddie
    <3>1. Pending(t, c) = P
      BY <1>4, <2>1, <2>6
    <3>2. Cardinality(Rounds(c)') = Cardinality(Rounds(c))
      BY <1>2, <1>3, <2>6, LandRounds DEF Advance
    <3> QED  BY <2>3, <3>1, <3>2
  <2> QED  BY <2>5, <2>6
<1> QED  BY <1>2, <1>6

LEMMA WriteRowSerial ==
  ASSUME TypeOK, NEW r \in Requests, SerialInv(r), WriteRow(r)
  PROVE  SerialInv(r)'
<1>1. PICK w, j, t, p : Advance(r, w, j, t, p)
  BY WriteAdvances
<1>2. pc[r] \in {"write", "release"} /\ p \in {"idle", pc[r]} /\ Moves(r, p, j, t)
  BY <1>1 DEF Advance, WriteRow, Writing
<1>3. RowsOK /\ DutiesOK /\ Safe(job[r], todo[r])
      /\ ReleaseOK(pc[r], job[r], todo[r]) /\ LimitOK(pc[r], job[r], todo[r])
  BY DEF SerialInv, Serial
<1>4. RowsOK' /\ DutiesOK'
  <2>1. IF j.kind = "status" THEN w.id # 0 ELSE Live(w.row) => Fits(w)
    BY <1>1, <1>3 DEF Safe, WritesFit, Advance
  <2> QED  BY <1>1, <1>3, <2>1, LandRows DEF Advance, DutiesOK
<1>5. Safe(j, t)'
  <2>1. CASE j.kind = "status"
    BY <1>1, <1>3, <2>1 DEF Safe, Advance
  <2>2. CASE j.kind # "status"
    BY <1>1, <2>2, RestFits DEF Safe
  <2> QED  BY <2>1, <2>2
<1>6. DutyFits(p, j)'
  BY <1>2 DEF DutyFits
<1>7. ReleaseOK(p, j, t)'
  <2> SUFFICES ASSUME p = "release"
               PROVE  /\ \A n \in DOMAIN t : t[n].row.status = "cancelled"
                      /\ j.kind = "cancel" /\ j.clean =>
                           \A i \in DOMAIN rows' : HoldsGroup(rows'[i], j.groups) =>
                             \E n \in DOMAIN t : t[n].id = i
    BY DEF ReleaseOK, HoldsGroup, Live
  <2>1. pc[r] = "release"
    BY <1>2
  <2>2. \A n \in DOMAIN t : t[n].row.status = "cancelled"
    BY <1>1, <1>3, <2>1 DEF ReleaseOK, Advance
  <2> QED  BY <1>1, <2>1, <2>2, StillAhead
<1>8. LimitOK(p, j, t)'
  <2> SUFFICES ASSUME p = "write", j.kind = "auto"
               PROVE  /\ \A n \in DOMAIN t : t[n].id = 0 /\ Live(t[n].row)
                      /\ \A c \in Caddies : Pending(t, c) # {} =>
                           Cardinality(Rounds(c)') + Cardinality(Pending(t, c)) <= MaxRounds[c]
    BY DEF LimitOK, Live, Rounds
  <2>1. pc[r] = "write"
    BY <1>2
  <2> QED  BY <1>1, <2>1, RestInLimit
<1>9. Serial(p, j, t)'
  BY <1>4, <1>5, <1>6, <1>7, <1>8 DEF Serial
<1> QED  BY <1>2, <1>9, SerialMoves

LEMMA EndsSerial ==
  ASSUME TypeOK, NEW r \in Requests, SerialInv(r), Abort(r) \/ WriteLost(r)
  PROVE  SerialInv(r)'
<1>1. RowsOK' /\ DutiesOK'
  <2>1. RowsOK /\ DutiesOK /\ Safe(job[r], todo[r])
    BY DEF SerialInv, Serial
  <2>2. CASE Abort(r)
    BY <2>1, <2>2 DEF Abort, day, RowsOK, Checked, DutiesOK, Unblocked
  <2>3. CASE WriteLost(r)
    <3>1. Writing(r) /\ Apply(r, Head(todo[r])) /\ UNCHANGED duties
      BY <2>3 DEF WriteLost, Writing
    <3>2. PICK w \in WriteType : /\ w = todo[r][1] /\ 1 \in DOMAIN todo[r] /\ Landed(w)
                                 /\ w.id \in 0..Len(rows) /\ Marked(job[r].kind, w)
      BY <3>1, FirstWrite
    <3>3. IF job[r].kind = "status" THEN w.id # 0 ELSE Live(w.row) => Fits(w)
      BY <2>1, <3>2 DEF Safe, WritesFit
    <3> QED  BY <2>1, <3>1, <3>2, <3>3, LandRows DEF DutiesOK
  <2> QED  BY <2>2, <2>3
<1>2. PICK j : j = job'[r]
  OBVIOUS
<1>3. Moves(r, "idle", j, <<>>)
  BY <1>2 DEF Moves, Abort, WriteLost, TypeOK
<1>4. Serial("idle", j, <<>>)'
  BY <1>1, NoWrites DEF Serial, Safe, WritesFit, DutyFits, ReleaseOK, LimitOK
<1> QED  BY <1>3, <1>4, SerialMoves

LEMMA ReleaseFailsSerial ==
  ASSUME TypeOK, NEW r \in Requests, SerialInv(r), ReleaseFails(r)
  PROVE  SerialInv(r)'
<1>1. /\ pc[r] = "release" /\ Writing(r) /\ NextRow(r) /\ Unclean(r)
      /\ UNCHANGED <<rows, duties, stale>>
  BY DEF ReleaseFails, Writing, day
<1>2. PICK j \in JobType : job' = [job EXCEPT ![r] = j] /\ j.clean = FALSE /\ j.kind = job[r].kind
  BY <1>1, UncleanJob
<1>k. j.kind # "status"
  BY <1>1, <1>2, Suited DEF Suits
<1>3. PICK s \in Seq(WriteType) : s = todo[r] /\ s # <<>>
  BY <1>1, Suited DEF TypeOK
<1>4. PICK t : t = Tail(s)
  OBVIOUS
<1>5. \A n \in DOMAIN t : n + 1 \in DOMAIN s /\ t[n] = s[n + 1]
  BY <1>3, <1>4, RestIs
<1>6. PICK p \in {"idle", "release"} : p = IF Len(s) = 1 THEN "idle" ELSE "release"
  OBVIOUS
<1>7. Moves(r, p, j, t)
  BY <1>1, <1>2, <1>3, <1>4, <1>6 DEF Moves, NextRow, TypeOK
<1>8. \A n \in DOMAIN t : t[n].row.status = "cancelled"
  BY <1>1, <1>3, <1>5 DEF SerialInv, Serial, ReleaseOK
<1>9. Serial(p, j, t)
  BY <1>2, <1>8, <1>k DEF SerialInv, Serial, Safe, WritesFit, Live, DutyFits, ReleaseOK, LimitOK
<1> QED  BY <1>1, <1>7, <1>9, SerialSame, SerialMoves

LEMMA CaddieTyped ==
  ASSUME TypeOK, NEW r \in Requests
  PROVE  /\ \A i \in DOMAIN rows : rows[i].caddie \in Caddies
         /\ \A n \in DOMAIN todo[r] : todo[r][n].row.caddie \in Caddies
<1>1. ASSUME NEW i \in DOMAIN rows PROVE rows[i].caddie \in Caddies
  <2>1. rows[i] \in RowType
    BY DEF TypeOK
  <2> QED  BY <2>1 DEF RowType
<1>2. ASSUME NEW n \in DOMAIN todo[r] PROVE todo[r][n].row.caddie \in Caddies
  <2>1. todo[r] \in Seq(WriteType)
    BY Suited
  <2>2. todo[r][n] \in WriteType
    BY <2>1
  <2> QED  BY <2>2 DEF WriteType, RowType
<1> QED  BY <1>1, <1>2

LEMMA SaveDutySerial ==
  ASSUME TypeOK, NEW r \in Requests, SerialInv(r), SaveDuty(r)
  PROVE  SerialInv(r)'
<1>1. PICK c \in Caddies, w \in Windows : c = job[r].caddie /\ w = job[r].window
  BY Suited DEF Suits, SaveDuty
<1>2. /\ duties' = [duties EXCEPT ![c] = {v \in duties[c] : v.from # w.from} \cup {w}]
      /\ pc[r] = "duty" /\ UNCHANGED <<rows, job, todo, stale>> /\ pc' = [pc EXCEPT ![r] = "idle"]
  BY <1>1 DEF SaveDuty
<1>3. /\ duties'[c] = {v \in duties[c] : v.from # w.from} \cup {w}
      /\ \A d \in Caddies : d # c => duties'[d] = duties[d]
  BY <1>2 DEF TypeOK
<1>4. RowsOK /\ DutiesOK /\ DutyFits("duty", job[r])
  BY <1>2 DEF SerialInv, Serial
<1>5. ASSUME NEW i \in Checked, Live(rows[i]), NEW v \in duties'[rows[i].caddie]
      PROVE  ~Blocks(v, rows[i].at, HoursHeld(rows[i]))
  <2>1. rows[i].caddie \in Caddies
    BY CaddieTyped DEF Checked
  <2>2. CASE v \in duties[rows[i].caddie]
    BY <1>4, <1>5, <2>2 DEF RowsOK, Unblocked
  <2>3. CASE v \notin duties[rows[i].caddie]
    <3>1. rows[i].caddie = c /\ v = w
      BY <1>3, <1>5, <2>1, <2>3
    <3>2. i \in Rounds(c)
      BY <1>5, <3>1 DEF Rounds, Checked
    <3> QED  BY <1>1, <1>4, <3>1, <3>2 DEF DutyFits
  <2> QED  BY <2>2, <2>3
<1>6. RowsOK'
  <2>1. \A i \in Checked : Live(rows[i]) =>
          \A v \in duties'[rows[i].caddie] : ~Blocks(v, rows[i].at, HoursHeld(rows[i]))
    BY <1>5
  <2> QED  BY <1>2, <1>4, <2>1 DEF RowsOK, Checked, Unblocked
<1>7. ASSUME NEW d \in Caddies, NEW u \in duties'[d], NEW v \in duties'[d], u # v
      PROVE  ~Meet(u, v)
  <2>1. CASE u \in duties[d] /\ v \in duties[d]
    BY <1>4, <1>7, <2>1 DEF DutiesOK
  <2>2. CASE u \notin duties[d]
    <3>1. d = c /\ u = w /\ v \in duties[c] /\ v.from # w.from
      BY <1>3, <1>7, <2>2
    <3> QED  BY <1>1, <1>4, <3>1 DEF DutyFits, Meet
  <2>3. CASE v \notin duties[d]
    <3>1. d = c /\ v = w /\ u \in duties[c] /\ u.from # w.from
      BY <1>3, <1>7, <2>3
    <3> QED  BY <1>1, <1>4, <3>1 DEF DutyFits, Meet
  <2> QED  BY <2>1, <2>2, <2>3
<1>8. DutiesOK'
  BY <1>7 DEF DutiesOK
<1>9. PICK j : j = job[r]
  OBVIOUS
<1>10. todo[r] = <<>>
  BY <1>2 DEF TypeOK, Writing
<1>11. Moves(r, "idle", j, <<>>)
  BY <1>2, <1>9, <1>10 DEF Moves, TypeOK
<1>12. Serial("idle", j, <<>>)'
  BY <1>6, <1>8, NoWrites DEF Serial, Safe, WritesFit, DutyFits, ReleaseOK, LimitOK
<1> QED  BY <1>11, <1>12, SerialMoves

\* Taking other work away lets everything fit that did.
LEMMA ClearDutySerial ==
  ASSUME TypeOK, NEW r \in Requests, SerialInv(r), NEW c \in Caddies, NEW w \in Windows,
         ClearDuty(c, w)
  PROVE  SerialInv(r)'
<1>1. UNCHANGED <<rows, pc, job, todo, stale>> /\ duties' = [duties EXCEPT ![c] = duties[c] \ {w}]
  BY DEF ClearDuty
<1>2. PICK p, j, t : p = pc[r] /\ j = job[r] /\ t = todo[r]
  OBVIOUS
<1>3. Moves(r, p, j, t)
  BY <1>1, <1>2 DEF Moves
<1>4. \A d \in Caddies : duties'[d] \subseteq duties[d]
  BY <1>1 DEF TypeOK
<1>5. RowsOK /\ DutiesOK /\ Safe(j, t) /\ DutyFits(p, j) /\ ReleaseOK(p, j, t) /\ LimitOK(p, j, t)
  BY <1>2 DEF SerialInv, Serial
<1>6. RowsOK'
  <2>1. \A i \in DOMAIN rows : rows[i].caddie \in Caddies
    BY CaddieTyped
  <2> QED  BY <1>1, <1>4, <1>5, <2>1 DEF RowsOK, Checked, Unblocked
<1>7. DutiesOK'
  BY <1>4, <1>5 DEF DutiesOK
<1>8. Safe(j, t)'
  <2>1. \A n \in DOMAIN t : t[n].row.caddie \in Caddies
    BY <1>2, CaddieTyped
  <2> QED  BY <1>1, <1>4, <1>5, <2>1 DEF Safe, WritesFit, Fits, Unblocked
<1>9. DutyFits(p, j)'
  <2>1. p = "duty" => j.caddie \in Caddies
    BY <1>2, Suited DEF Suits
  <2> QED  BY <1>1, <1>4, <1>5, <2>1 DEF DutyFits, Rounds
<1>10. ReleaseOK(p, j, t)' /\ LimitOK(p, j, t)'
  BY <1>1, <1>5 DEF ReleaseOK, LimitOK, Rounds
<1>11. Serial(p, j, t)'
  BY <1>6, <1>7, <1>8, <1>9, <1>10 DEF Serial
<1> QED  BY <1>3, <1>11, SerialMoves

\* Loading the table changes nothing the requests read.
LEMMA LoadSerial ==
  ASSUME NEW r \in Requests, SerialInv(r), NEW q \in Screens, Load(q)
  PROVE  SerialInv(r)'
<1>1. PICK p, j, t : p = pc[r] /\ j = job[r] /\ t = todo[r]
  OBVIOUS
<1>2. Moves(r, p, j, t) /\ UNCHANGED <<rows, duties, stale>> /\ Serial(p, j, t)
  BY <1>1 DEF Load, day, Moves, SerialInv
<1> QED  BY <1>2, SerialSame, SerialMoves

LEMMA SerialStep ==
  ASSUME NEW R, Requests = {R}, TypeOK, SerialInv(R), [Next]_vars
  PROVE  SerialInv(R)'
<1>r. R \in Requests /\ \A r \in Requests : r = R
  OBVIOUS
<1>1. ASSUME Start(R) PROVE SerialInv(R)'
  BY <1>r, <1>1, NameSerial, ReassignSerial, UpdateStatusSerial, AutoAssignSerial,
     ReleaseDaySerial, CancelSerial, AssignDutySerial DEF Start
<1>2. ASSUME Proceed(R) PROVE SerialInv(R)'
  BY <1>r, <1>2, AutoPlanSerial, WithdrawSerial, ListRowsSerial, WriteRowSerial,
     ReleaseFailsSerial, EndsSerial, SaveDutySerial DEF Proceed
<1>3. CASE UNCHANGED vars
  <2>1. PICK p, j, t : p = pc[R] /\ j = job[R] /\ t = todo[R]
    OBVIOUS
  <2>2. Moves(R, p, j, t) /\ UNCHANGED <<rows, duties, stale>> /\ Serial(p, j, t)
    BY <1>3, <2>1 DEF vars, Moves, SerialInv
  <2> QED  BY <1>r, <2>2, SerialSame, SerialMoves
<1> QED  BY <1>r, <1>1, <1>2, <1>3, ClearDutySerial, LoadSerial DEF Next

LEMMA SerialInductive ==
  ASSUME NEW CONSTANT R, Requests = {R}
  PROVE  Spec => [](TypeOK /\ SerialInv(R))
<1>1. Init => SerialInv(R)
  <2> SUFFICES ASSUME Init PROVE SerialInv(R)
    OBVIOUS
  <2>1. RowsOK /\ DutiesOK
    BY DEF Init, RowsOK, Checked, DutiesOK
  <2>2. pc[R] = "idle" /\ todo[R] = <<>>
    BY DEF Init
  <2> QED  BY <2>1, <2>2, NothingLeft DEF SerialInv
<1>2. TypeOK /\ SerialInv(R) /\ [Next]_vars => (TypeOK /\ SerialInv(R))'
  BY TypeStep, SerialStep
<1> QED  BY <1>1, <1>2, TypeInit, PTL DEF Spec

-----------------------------------------------------------------------------
(* Theorems for one request at a time *)

\* While requests run one at a time, no two live rows hold one group, but for
\* rows a status update moved or revived from an old screen: for any day, roster
\* and screens, whatever calls fail and however often the operator names, moves,
\* plans, closes, releases and cancels (check_round_can_be_walked,
\* plan_caddie_assignments).
THEOREM OneCaddieAlways ==
  ASSUME NEW CONSTANT R, Requests = {R}
  PROVE  Spec => []OneCaddiePerGroup
<1>1. SerialInv(R) => OneCaddiePerGroup
  BY DEF SerialInv, Serial, RowsOK, Clash, OneCaddiePerGroup
<1> QED  BY <1>1, SerialInductive, PTL

\* While requests run one at a time, the hours held by a caddie's checked rounds
\* overlap neither each other nor their other work, and that work does not
\* overlap itself, although the two are kept in different systems and a round is
\* checked for one length and read back with another (check_round_can_be_walked,
\* assign_caddie_duty).
THEOREM NeverInTwoPlaces ==
  ASSUME NEW CONSTANT R, Requests = {R}
  PROVE  Spec => []NobodyInTwoPlaces
<1>1. SerialInv(R) => NobodyInTwoPlaces
  <2> SUFFICES ASSUME RowsOK, DutiesOK, NEW c \in Caddies
               PROVE  /\ \A i, j \in Rounds(c) \cap Checked : i # j =>
                           ~Overlaps(rows[i].at, HoursHeld(rows[i]), rows[j].at, HoursHeld(rows[j]))
                      /\ \A i \in Rounds(c) \cap Checked, w \in duties[c] :
                           ~Blocks(w, rows[i].at, HoursHeld(rows[i]))
                      /\ \A v, w \in duties[c] : v # w => ~Meet(v, w)
    BY DEF SerialInv, Serial, NobodyInTwoPlaces
  <2>1. \A i, j \in Rounds(c) \cap Checked : i # j =>
          ~Overlaps(rows[i].at, HoursHeld(rows[i]), rows[j].at, HoursHeld(rows[j]))
    BY DEF RowsOK, Clash, Rounds
  <2>2. \A i \in Rounds(c) \cap Checked, w \in duties[c] : ~Blocks(w, rows[i].at, HoursHeld(rows[i]))
    BY DEF RowsOK, Unblocked, Rounds
  <2> QED  BY <2>1, <2>2 DEF DutiesOK
<1> QED  BY <1>1, SerialInductive, PTL

\* While requests run one at a time, a round the automatic run creates never
\* takes its caddie past the daily limit: not with the rounds they had when
\* the day was read, nor with the ones the run itself gave them
\* (plan_caddie_assignments).
THEOREM PlanAlwaysKeepsLimit ==
  ASSUME NEW CONSTANT R, Requests = {R}
  PROVE  Spec => PlanKeepsLimit
<1> DEFINE Within ==
      \A r \in Requests : job[r].kind = "auto" /\ Len(rows') > Len(rows) /\ WriteRow(r) =>
        LET c == rows'[Len(rows')].caddie IN
        Cardinality({i \in DOMAIN rows' : rows'[i].caddie = c /\ Live(rows'[i])}) <= MaxRounds[c]
<1>1. TypeOK /\ SerialInv(R) /\ [Next]_vars => [Within]_vars
  <2> SUFFICES ASSUME TypeOK, SerialInv(R), NEW r \in Requests, job[r].kind = "auto",
                      Len(rows') > Len(rows), WriteRow(r)
               PROVE  LET c == rows'[Len(rows')].caddie IN
                      Cardinality({i \in DOMAIN rows' : rows'[i].caddie = c /\ Live(rows'[i])})
                        <= MaxRounds[c]
    OBVIOUS
  <2>1. r = R /\ SerialInv(r)
    OBVIOUS
  <2>2. PICK w, j, t, p : Advance(r, w, j, t, p)
    BY WriteAdvances
  <2>3. pc[r] = "write" /\ j.kind = "auto"
    BY <2>2, Suited DEF WriteRow, Writing, Suits, Advance
  <2>4. PICK c \in Caddies : c = w.row.caddie
    BY <2>2 DEF Advance, WriteType, RowType
  <2>5. w.id = 0 /\ Cardinality(Rounds(c)') + Cardinality(Pending(t, c)) <= MaxRounds[c]
        /\ Live(w.row)
    BY <2>1, <2>2, <2>3, <2>4, RestInLimit
  <2>6. rows'[Len(rows')].caddie = c
    BY <2>2, <2>4, <2>5 DEF Advance, Landed, Target
  <2>7. Rounds(c)' = {i \in DOMAIN rows' : rows'[i].caddie = c /\ Live(rows'[i])}
    BY DEF Rounds, Live
  <2>8. Cardinality(Rounds(c)') \in Nat /\ Cardinality(Pending(t, c)) \in Nat
        /\ MaxRounds[c] \in Nat
    <3>1. Cardinality(Rounds(c)') = Cardinality(Rounds(c)) + 1
      BY <2>2, <2>4, <2>5, LandRounds DEF Advance
    <3>2. Pending(t, c) \in SUBSET Groups
      BY DEF Pending
    <3> QED  BY <3>1, <3>2, Countable, RosterAssumption
  <2>9. Cardinality(Rounds(c)') <= MaxRounds[c]
    BY <2>5, <2>8
  <2> QED  BY <2>6, <2>7, <2>9
<1> QED  BY <1>1, SerialInductive, PTL DEF PlanKeepsLimit, Spec

\* While requests run one at a time, a cancellation none of whose calls failed
\* leaves nobody on the group, whatever was assigned to it before
\* (cancel_reservation, release_caddies).
THEOREM CancelAlwaysReleases ==
  ASSUME NEW CONSTANT R, Requests = {R}
  PROVE  Spec => CancelReleases
<1> DEFINE Cleared ==
      \A r \in Requests : job[r].kind = "cancel" /\ pc[r] # "idle" /\ pc'[r] = "idle"
                          /\ job'[r].clean =>
        \A i \in DOMAIN rows' : rows'[i].group \in job[r].groups => ~Live(rows'[i])
<1>1. TypeOK /\ SerialInv(R) /\ [Next]_vars => [Cleared]_vars
  <2> SUFFICES ASSUME TypeOK, SerialInv(R), Next, job[R].kind = "cancel", pc[R] # "idle",
                      pc'[R] = "idle", job'[R].clean,
                      NEW i \in DOMAIN rows', rows'[i].group \in job[R].groups, Live(rows'[i])
               PROVE  FALSE
    BY DEF vars
  <2>r. R \in Requests /\ \A r \in Requests : r = R
    OBVIOUS
  <2>1. ~Start(R)
    BY DEF Start, Name, Reassign, UpdateStatus, AutoAssign, ReleaseDay, Cancel, AssignDuty, Begin
  <2>2. /\ ~\E c \in Caddies, w \in Windows : ClearDuty(c, w)
        /\ ~\E p \in Screens : Load(p)
    BY DEF ClearDuty, Load
  <2>3. ~Unclean(R)
    BY <2>r, UncleanJob DEF TypeOK
  <2>4. ListRows(R) \/ WriteRow(R)
    <3>1. pc[R] # "plan" /\ pc[R] # "duty"
      BY <2>r, Suited DEF Suits
    <3>2. ~CancelField(R) /\ ~Record(R) /\ ~RecordFails(R)
      BY <2>r DEF CancelField, Record, RecordFails, TypeOK
    <3> QED  BY <2>r, <2>1, <2>2, <2>3, <3>1, <3>2
             DEF Next, Proceed, AutoPlan, ReleaseFails, WriteLost, Abort, SaveDuty
  <2>5. HoldsGroup(rows'[i], job[R].groups)
    BY DEF HoldsGroup
  <2>6. ASSUME ListRows(R) PROVE FALSE
    <3>1. PICK I \in SUBSET DOMAIN rows : I = {k \in DOMAIN rows : HoldsGroup(rows[k], job[R].groups)}
      OBVIOUS
    <3>2. Releases(I) = <<>> /\ rows' = rows
      BY <2>r, <2>6, <3>1 DEF ListRows, day, TypeOK
    <3>3. \A k \in I : \E n \in DOMAIN Releases(I) : Releases(I)[n].id = k
      BY ReleasesAre DEF TypeOK
    <3>4. I = {}
      BY <3>2, <3>3, NoWrites
    <3> QED  BY <2>5, <3>1, <3>2, <3>4
  <2>7. ASSUME WriteRow(R) PROVE FALSE
    <3>1. PICK w, j, t, p : Advance(R, w, j, t, p)
      BY <2>r, <2>7, WriteAdvances
    <3>2. pc[R] = "release"
      BY <2>r, <2>7, Suited DEF WriteRow, Writing, Suits
    <3>3. j = job[R] /\ j.clean
      BY <2>7, <3>1 DEF Advance, Moves
    <3>4. PICK n \in DOMAIN t : t[n].id = i
      BY <2>r, <2>5, <3>1, <3>2, <3>3, StillAhead
    <3>5. todo'[R] = t /\ t # <<>>
      BY <3>1, <3>4, NoWrites DEF Advance, Moves
    <3>6. Writing(R)'
      BY <2>r, <2>7, <3>5, WriteRowTyped DEF TypeOK
    <3> QED  BY <3>6 DEF Writing
  <2> QED  BY <2>4, <2>6, <2>7
<1> QED  BY <1>1, SerialInductive, PTL DEF CancelReleases, Spec
=============================================================================
