--------------------------- MODULE AccessGateProofs ---------------------------
(***************************************************************************)
(* Proofs about the gates, for every number of requests, every table of    *)
(* routes, every feature catalog, and all sizes of the caches.             *)
(***************************************************************************)
EXTENDS AccessGate, FiniteSetTheorems, WellFoundedInduction, TLAPS

-----------------------------------------------------------------------------
(* required_closure.  The rounds are a recursive function; that it exists  *)
(* and reaches its fixed point is by induction over the rounds.            *)

\* Every set of naturals has a least member.
LEMMA NatMin ==
  ASSUME NEW T, T \subseteq Nat, T # {}
  PROVE  \E m \in T : \A k \in T : m <= k
<1>1. PICK m \in T : \A k \in T : ~(<<k, m>> \in OpToRel(<, Nat))
  BY WFMin, NatLessThanWellFounded
<1>2. ASSUME NEW k \in T PROVE m <= k
  <2>1. ~(k < m)
    <3>1. k < m => <<k, m>> \in OpToRel(<, Nat)
      BY DEF OpToRel
    <3> QED BY <3>1, <1>1
  <2> QED BY <2>1
<1> QED BY <1>2

\* Induction over the naturals, for a set of them.
LEMMA NatSetInduction ==
  ASSUME NEW T, 0 \in T, \A n \in Nat : n \in T => n + 1 \in T
  PROVE  Nat \subseteq T
<1> SUFFICES ASSUME Nat \ T # {} PROVE FALSE
  OBVIOUS
<1>1. PICK m \in Nat \ T : \A k \in Nat \ T : m <= k
  BY NatMin
<1>2. m # 0 /\ m - 1 \in Nat
  BY <1>1
<1>3. m - 1 \in T
  BY <1>1, <1>2
<1> QED  BY <1>1, <1>2, <1>3

\* One round of required_closure, and all of them.
Wider(S) == S \cup UNION {Requires[f] : f \in S}
Grown(F) == CHOOSE g : g = [n \in Nat |-> IF n = 0 THEN F ELSE Wider(g[n - 1])]

LEMMA WiderType ==
  ASSUME NEW S \in SUBSET Features
  PROVE  Wider(S) \in SUBSET Features /\ S \subseteq Wider(S)
  BY CatalogAssumption DEF Wider

\* The first n rounds of required_closure.
Approx(F, n, h) ==
  /\ h \in [0..n -> SUBSET Features]
  /\ h[0] = F
  /\ \A k \in 0..n : k # 0 => h[k] = Wider(h[k - 1])

LEMMA ApproxExists ==
  ASSUME NEW F \in SUBSET Features
  PROVE  \A n \in Nat : \E h : Approx(F, n, h)
<1> DEFINE T == {n \in Nat : \E h : Approx(F, n, h)}
<1>1. 0 \in T
  <2>1. Approx(F, 0, [k \in 0..0 |-> F])
    BY DEF Approx
  <2> QED  BY <2>1
<1>2. ASSUME NEW n \in Nat, n \in T PROVE n + 1 \in T
  <2>1. PICK h : Approx(F, n, h)
    BY <1>2
  <2> DEFINE e == [k \in 0..(n + 1) |-> IF k = n + 1 THEN Wider(h[n]) ELSE h[k]]
  <2>2. h[n] \in SUBSET Features /\ \A k \in 0..n : h[k] \in SUBSET Features
    BY <2>1 DEF Approx
  <2>3. Wider(h[n]) \in SUBSET Features
    BY <2>2, WiderType
  <2>4. \A k \in 0..(n + 1) : k = n + 1 \/ k \in 0..n
    OBVIOUS
  <2>5. e \in [0..(n + 1) -> SUBSET Features]
    BY <2>2, <2>3, <2>4
  <2>6. e[0] = F
    BY <2>1 DEF Approx
  <2>7. ASSUME NEW k \in 0..(n + 1), k # 0 PROVE e[k] = Wider(e[k - 1])
    <3>1. CASE k = n + 1
      BY <3>1
    <3>2. CASE k # n + 1
      <4>1. k \in 0..n /\ k - 1 \in 0..n /\ k - 1 # n + 1
        BY <2>7, <3>2
      <4>2. h[k] = Wider(h[k - 1])
        BY <2>1, <2>7, <4>1 DEF Approx
      <4>3. e[k] = h[k] /\ e[k - 1] = h[k - 1]
        BY <3>2, <4>1
      <4> QED  BY <4>2, <4>3
    <3> QED  BY <3>1, <3>2
  <2>8. Approx(F, n + 1, e)
    <3> HIDE DEF e
    <3> QED  BY <2>5, <2>6, <2>7 DEF Approx
  <2> QED  BY <2>8
<1> HIDE DEF T
<1>3. Nat \subseteq T
  BY <1>1, <1>2, NatSetInduction
<1> QED  BY <1>3 DEF T

LEMMA ApproxAgree ==
  ASSUME NEW F \in SUBSET Features, NEW n \in Nat, NEW m \in Nat, n <= m,
         NEW h, Approx(F, n, h), NEW e, Approx(F, m, e)
  PROVE  h[n] = e[n]
<1> DEFINE T == {k \in Nat : k <= n => h[k] = e[k]}
<1>1. 0 \in T
  BY DEF Approx
<1>2. ASSUME NEW k \in Nat, k \in T PROVE k + 1 \in T
  <2> SUFFICES ASSUME k + 1 <= n PROVE h[k + 1] = e[k + 1]
    OBVIOUS
  <2>1. h[k] = e[k]
    BY <1>2
  <2>2. k + 1 \in 0..n /\ k + 1 \in 0..m /\ k + 1 # 0 /\ (k + 1) - 1 = k
    OBVIOUS
  <2> QED  BY <2>1, <2>2 DEF Approx
<1> HIDE DEF T
<1>3. Nat \subseteq T
  BY <1>1, <1>2, NatSetInduction
<1> QED  BY <1>3 DEF T

LEMMA GrownIs ==
  ASSUME NEW F \in SUBSET Features
  PROVE  /\ Grown(F) = [n \in Nat |-> IF n = 0 THEN F ELSE Wider(Grown(F)[n - 1])]
         /\ \A n \in Nat : Grown(F)[n] \in SUBSET Features
<1> DEFINE H(n) == CHOOSE h : Approx(F, n, h)
           g == [n \in Nat |-> H(n)[n]]
<1>1. ASSUME NEW n \in Nat PROVE Approx(F, n, H(n))
  BY ApproxExists, Zenon
<1> HIDE DEF H
<1>2. ASSUME NEW n \in Nat PROVE g[n] = IF n = 0 THEN F ELSE Wider(g[n - 1])
  <2>1. CASE n = 0
    BY <1>1, <2>1 DEF Approx
  <2>2. CASE n # 0
    <3>1. n - 1 \in Nat /\ n - 1 <= n /\ n \in 0..n
      BY <2>2
    <3>2. H(n)[n] = Wider(H(n)[n - 1])
      BY <1>1, <2>2, <3>1 DEF Approx
    <3>3. H(n - 1)[n - 1] = H(n)[n - 1]
      BY <1>1, <3>1, ApproxAgree
    <3> QED  BY <2>2, <3>1, <3>2, <3>3
  <2> QED  BY <2>1, <2>2
<1>3. g = [n \in Nat |-> IF n = 0 THEN F ELSE Wider(g[n - 1])]
  BY <1>2
<1> HIDE DEF g
<1>4. \E f : f = [n \in Nat |-> IF n = 0 THEN F ELSE Wider(f[n - 1])]
  BY <1>3
<1>5. Grown(F) = [n \in Nat |-> IF n = 0 THEN F ELSE Wider(Grown(F)[n - 1])]
  BY <1>4, Zenon DEF Grown
<1> DEFINE T == {n \in Nat : Grown(F)[n] \in SUBSET Features}
<1>6. 0 \in T
  <2>1. Grown(F)[0] = F
    BY <1>5
  <2> QED  BY <2>1
<1>7. ASSUME NEW n \in Nat, n \in T PROVE n + 1 \in T
  <2>1. Grown(F)[n + 1] = Wider(Grown(F)[n])
    <3>1. n + 1 \in Nat /\ n + 1 # 0 /\ (n + 1) - 1 = n
      OBVIOUS
    <3> QED  BY <1>5, <3>1
  <2> QED  BY <1>7, <2>1, WiderType
<1> HIDE DEF T
<1>8. Nat \subseteq T
  BY <1>6, <1>7, NatSetInduction
<1> QED  BY <1>5, <1>8 DEF T

\* As many rounds as there are features reach the fixed point.
LEMMA ClosureIsClosed ==
  ASSUME NEW F \in SUBSET Features
  PROVE  /\ RequiredClosure(F) \in SUBSET Features
         /\ F \subseteq RequiredClosure(F)
         /\ \A f \in RequiredClosure(F) : Requires[f] \subseteq RequiredClosure(F)
<1> DEFINE g == Grown(F)
           N == Cardinality(Features)
<1>1. /\ \A n \in Nat : g[n] \in SUBSET Features
      /\ g[0] = F /\ \A n \in Nat : g[n + 1] = Wider(g[n])
  <2>1. /\ g = [n \in Nat |-> IF n = 0 THEN F ELSE Wider(g[n - 1])]
        /\ \A n \in Nat : g[n] \in SUBSET Features
    BY GrownIs
  <2>2. ASSUME NEW n \in Nat PROVE g[n + 1] = Wider(g[n])
    <3>1. n + 1 \in Nat /\ n + 1 # 0 /\ (n + 1) - 1 = n
      OBVIOUS
    <3> HIDE DEF g
    <3> QED  BY <2>1, <3>1
  <2>3. g[0] = F
    <3> HIDE DEF g
    <3> QED  BY <2>1
  <2> QED  BY <2>1, <2>2, <2>3
<1>2. RequiredClosure(F) = g[N]
  BY DEF RequiredClosure, Grown, Wider
<1> HIDE DEF g
<1>3. N \in Nat
  BY CatalogAssumption, FS_CardinalityType
<1>a. \A S \in SUBSET Features : IsFiniteSet(S) /\ Cardinality(S) \in Nat /\ Cardinality(S) <= N
  BY CatalogAssumption, FS_Subset, FS_CardinalityType
<1> DEFINE T == {n \in Nat : Wider(g[n]) = g[n] \/ n <= Cardinality(g[n])}
           U == {n \in Nat : F \subseteq g[n]}
<1> HIDE DEF N
<1>4. 0 \in T
  BY <1>1, <1>a
<1>5. ASSUME NEW n \in Nat, n \in T PROVE n + 1 \in T
  <2>1. CASE Wider(g[n]) = g[n]
    <3>1. g[n + 1] = g[n]
      BY <1>1, <2>1
    <3> QED  BY <2>1, <3>1
  <2>2. CASE Wider(g[n]) # g[n]
    <3>1. n <= Cardinality(g[n])
      BY <1>5, <2>2
    <3>2. g[n] \subseteq g[n + 1] /\ g[n] # g[n + 1]
      BY <1>1, <2>2, WiderType
    <3>3. n + 1 \in Nat
      OBVIOUS
    <3>4. IsFiniteSet(g[n + 1]) /\ IsFiniteSet(g[n])
      BY <1>1, <1>a, <3>3
    <3>5. Cardinality(g[n]) < Cardinality(g[n + 1])
      <4>1. PICK x \in g[n + 1] : x \notin g[n]
        BY <3>2
      <4>2. /\ Cardinality(g[n + 1] \ {x}) = Cardinality(g[n + 1]) - 1
            /\ IsFiniteSet(g[n + 1] \ {x})
        BY <3>4, <4>1, FS_RemoveElement
      <4>3. g[n] \subseteq g[n + 1] \ {x}
        BY <3>2, <4>1
      <4>4. Cardinality(g[n]) <= Cardinality(g[n + 1] \ {x})
        BY <4>2, <4>3, FS_Subset
      <4>5. Cardinality(g[n]) \in Nat /\ Cardinality(g[n + 1]) \in Nat
        BY <1>1, <1>a, <3>3
      <4> QED  BY <4>2, <4>4, <4>5
    <3>6. Cardinality(g[n]) \in Nat /\ Cardinality(g[n + 1]) \in Nat
      BY <1>1, <1>a, <3>3
    <3>7. n + 1 <= Cardinality(g[n + 1])
      BY <3>1, <3>5, <3>6
    <3> QED  BY <3>3, <3>7
  <2> QED  BY <2>1, <2>2
<1>6. Nat \subseteq T
  <2> HIDE DEF T
  <2> QED  BY <1>4, <1>5, NatSetInduction
<1>7. 0 \in U
  BY <1>1
<1>8. ASSUME NEW n \in Nat, n \in U PROVE n + 1 \in U
  <2>0. g[n] \in SUBSET Features /\ g[n + 1] = Wider(g[n])
    BY <1>1
  <2>1. g[n] \subseteq g[n + 1]
    <3> HIDE DEF U
    <3> QED  BY <2>0, WiderType
  <2> QED  BY <1>8, <2>1
<1>9. Nat \subseteq U
  <2> HIDE DEF U
  <2> QED  BY <1>7, <1>8, NatSetInduction
<1>10. Wider(g[N]) = g[N]
  <2>1. CASE N <= Cardinality(g[N])
    <3>1. g[N] \in SUBSET Features
      BY <1>1, <1>3
    <3>2. g[N] = Features
      <4>1. Cardinality(g[N]) = Cardinality(Features)
        BY <1>3, <1>a, <2>1, <3>1 DEF N
      <4> QED  BY <3>1, <4>1, FS_Subset, CatalogAssumption
    <3>3. Wider(g[N]) \in SUBSET Features /\ g[N] \subseteq Wider(g[N])
      BY <3>1, WiderType
    <3> QED  BY <3>2, <3>3
  <2> QED  BY <1>3, <1>6, <2>1
<1>11. \A f \in g[N] : Requires[f] \subseteq g[N]
  <2>1. \A f \in g[N] : Requires[f] \subseteq Wider(g[N])
    BY DEF Wider
  <2> QED  BY <1>10, <2>1
<1>12. g[N] \in SUBSET Features /\ F \subseteq g[N]
  BY <1>1, <1>3, <1>9
<1> QED  BY <1>2, <1>11, <1>12
\* What a request stands on is among the features it is asked for.
LEMMA LeastIsNeeded ==
  ASSUME NEW rt \in Routes, FeatureOf[rt] \in Features
  PROVE  Least[rt] \subseteq Needed(rt)
<1> DEFINE F == {FeatureOf[rt]} \cup Extra[rt]
<1>1. F \in SUBSET Features
  BY RoutesAssumption
<1>2. /\ Needed(rt) \in SUBSET Features /\ F \subseteq Needed(rt)
      /\ \A f \in Needed(rt) : Requires[f] \subseteq Needed(rt)
  BY <1>1, ClosureIsClosed DEF Needed
<1> QED  BY <1>2 DEF Least

-----------------------------------------------------------------------------
(* Types *)

\* A request under way has a route and a scope, and a check under way asks
\* for an action.
Situated(r) ==
  /\ pc[r] # "idle" => route[r] \in Routes /\ scope[r] \in Scopes
  /\ pc[r] \in {"asked", "back"} => Standing[route[r]] \in Actions
  /\ pc[r] \in {"case_asked", "case_back"} => CaseAction[route[r]] \in Actions

RequestType ==
  /\ pc \in [Requests -> Places]
  /\ route \in [Requests -> Routes \cup {Nothing}]
  /\ scope \in [Requests -> Scopes \cup {Nothing}]
  /\ input \in [Requests -> Inputs \cup {"plain"}]
  /\ answer \in [Requests -> {"none", "allowed", "denied", "failed"}]
  /\ since \in [Requests -> Time]
  /\ covered \in [Requests -> BOOLEAN]

TypeInv == TypeOK /\ \A r \in Requests : Situated(r)

\* The other requests are not touched.
Alone(r) == \A q \in Requests : q # r =>
  /\ pc'[q] = pc[q] /\ route'[q] = route[q] /\ scope'[q] = scope[q]
  /\ input'[q] = input[q] /\ answer'[q] = answer[q] /\ since'[q] = since[q]
  /\ covered'[q] = covered[q]

LEMMA AloneSituated ==
  ASSUME \A q \in Requests : Situated(q), NEW r \in Requests, Alone(r), Situated(r)'
  PROVE  \A q \in Requests : Situated(q)'
  BY DEF Situated, Alone

LEMMA EndedType ==
  ASSUME TypeInv, NEW r \in Requests, Ended(r)
  PROVE  /\ RequestType' /\ Alone(r) /\ Situated(r)'
         /\ pc'[r] = "idle"
<1> USE DEF TypeInv, TypeOK, Ended
<1>1. RequestType'
  BY TimesAssumption DEF RequestType, Places, Time
<1>2. Alone(r)
  BY DEF Alone
<1>3. pc'[r] = "idle"
  OBVIOUS
<1> QED  BY <1>1, <1>2, <1>3 DEF Situated

LEMMA MovesType ==
  ASSUME TypeInv, NEW r \in Requests, NEW to \in Places, Moves(r, to),
         pc[r] # "idle", to \notin {"asked", "back", "case_asked", "case_back"}
  PROVE  /\ RequestType' /\ Alone(r) /\ Situated(r)'
         /\ pc'[r] = to
<1> USE DEF TypeInv, TypeOK, Moves, local
<1>1. RequestType'
  BY DEF RequestType
<1>2. Alone(r)
  BY DEF Alone
<1>3. pc'[r] = to
  OBVIOUS
<1> QED  BY <1>1, <1>2, <1>3 DEF Situated

LEMMA PassedType ==
  ASSUME TypeInv, NEW r \in Requests, Passed(r), pc[r] # "idle"
  PROVE  /\ RequestType' /\ Alone(r) /\ Situated(r)'
         /\ pc'[r] = (IF AtGate(r) THEN "deliver" ELSE "finish")
<1> USE DEF TypeInv, TypeOK, Passed, asked
<1>1. RequestType'
  BY TimesAssumption DEF RequestType, Places, Time
<1>2. Alone(r)
  BY DEF Alone
<1>3. pc'[r] = (IF AtGate(r) THEN "deliver" ELSE "finish")
  OBVIOUS
<1> QED  BY <1>1, <1>2, <1>3 DEF Situated

\* The key a check asks for is a key.
LEMMA KeyType ==
  ASSUME TypeInv, NEW r \in Requests,
         \/ pc[r] \in {"asked", "back", "case_asked", "case_back"}
         \/ pc[r] = "gate" /\ Standing[route[r]] \in Actions
         \/ pc[r] = "handler" /\ CaseAction[route[r]] \in Actions
  PROVE  KeyAt(r) \in Keys
  BY DEF TypeInv, Situated, KeyAt, AtGate, Keys

LEMMA AskAuthType ==
  ASSUME TypeInv, NEW r \in Requests, AskAuth(r),
         \/ pc[r] = "gate" /\ Standing[route[r]] \in Actions
         \/ pc[r] = "handler" /\ CaseAction[route[r]] \in Actions
  PROVE  /\ RequestType' /\ Alone(r) /\ Situated(r)'
         /\ entries' \in [Keys -> Time \cup {Nothing}]
         /\ pc'[r] = (IF AtGate(r) THEN "asked" ELSE "case_asked")
<1> USE DEF TypeInv, TypeOK, AskAuth, asked
<1>1. RequestType'
  BY DEF RequestType, Places
<1>2. Alone(r)
  BY DEF Alone
<1>3. pc'[r] = (IF AtGate(r) THEN "asked" ELSE "case_asked")
  OBVIOUS
<1>4. entries' \in [Keys -> Time \cup {Nothing}]
  <2>1. KeyAt(r) \in Keys
    BY KeyType
  <2> QED  BY <2>1 DEF Pruned
<1>5. Situated(r)'
  BY <1>3 DEF Situated, AtGate
<1> QED  BY <1>1, <1>2, <1>3, <1>4, <1>5

RestType ==
  /\ now \in Time
  /\ enforcement \in [Scopes -> {"off", "shadow", "enforce"}]
  /\ entries \in [Keys -> Time \cup {Nothing}]
  /\ last \in [Pairs -> Time \cup {Nothing}]
  /\ granted \subseteq Keys
  /\ plan \in [Features -> {"on", "off"}]
  /\ changing \in Tenants \cup {Nothing}
  /\ reading \in [Requests -> BOOLEAN]
  /\ arrived \in 0..MaxRequests
  /\ changes \in 0..MaxChanges
  /\ lostAt \in [Keys -> Time]
  /\ settled \subseteq Keys
  /\ readAt \in [Pairs -> Time \cup {Nothing}]

LEMMA TypeParts == TypeOK <=> RequestType /\ RestType
  BY DEF TypeOK, RequestType, RestType

\* One request steps, the rest keeps its types.
LEMMA Assemble ==
  ASSUME TypeInv, NEW r \in Requests, RequestType', RestType', Alone(r), Situated(r)'
  PROVE  TypeInv'
<1>1. TypeOK'
  BY DEF TypeOK, RequestType, RestType
<1>2. \A q \in Requests : Situated(q)'
  BY AloneSituated DEF TypeInv
<1> QED  BY <1>1, <1>2 DEF TypeInv

\* A step that leaves the memory and the world outside alone.
Quiet == UNCHANGED <<base, entries, sampler, outside, reading>>

LEMMA QuietType ==
  ASSUME TypeInv, Quiet
  PROVE  RestType'
  BY DEF TypeInv, TypeOK, RestType, Quiet, base, sampler, outside

\* No request steps.
LEMMA StillType ==
  ASSUME TypeInv, RestType', covered' \in [Requests -> BOOLEAN],
         UNCHANGED <<pc, route, scope, input, answer, since>>
  PROVE  TypeInv'
<1>1. TypeOK'
  BY DEF TypeInv, TypeOK, RestType
<1>2. \A q \in Requests : Situated(q)'
  BY DEF TypeInv, Situated
<1> QED  BY <1>1, <1>2 DEF TypeInv

\* A use case that asks for something asks for an action.
LEMMA CaseIsAction ==
  ASSUME TypeInv, NEW r \in Requests, pc[r] # "idle", CaseAction[route[r]] # "none"
  PROVE  CaseAction[route[r]] \in Actions
  BY RoutesAssumption DEF TypeInv, Situated

LEMMA TypeStep ==
  ASSUME TypeInv, [Next]_vars
  PROVE  TypeInv'
<1>1. ASSUME NEW r \in Requests, NEW rt \in Routes, NEW s \in Scopes, NEW i \in Inputs, Arrive(r, rt, s, i)
      PROVE  TypeInv'
  <2> USE DEF TypeInv, TypeOK, Arrive
  <2>1. RequestType'
    <3>1. covered' \in [Requests -> BOOLEAN]
      BY <1>1
    <3> QED  BY <1>1, <3>1 DEF RequestType, Places
  <2>2. RestType'
    <3>1. arrived' \in 0..MaxRequests
      BY <1>1, BoundsAssumption
    <3> QED  BY <1>1, <3>1 DEF RestType, base, sampler, outside
  <2>3. Alone(r)
    BY <1>1 DEF Alone
  <2>4. Situated(r)'
    BY <1>1 DEF Situated
  <2> HIDE DEF TypeInv, TypeOK, Arrive
  <2> QED  BY <2>1, <2>2, <2>3, <2>4, Assemble
<1>2. ASSUME NEW r \in Requests, GateRefuses(r) PROVE TypeInv'
  <2>1. RequestType' /\ Alone(r) /\ Situated(r)'
    BY <1>2, EndedType DEF GateRefuses
  <2>2. RestType'
    BY <1>2, QuietType DEF GateRefuses, Quiet
  <2> QED  BY <2>1, <2>2, Assemble
<1>3. ASSUME NEW r \in Requests, GateWaves(r) PROVE TypeInv'
  <2>1. RequestType' /\ Alone(r) /\ Situated(r)'
    BY <1>3, MovesType DEF GateWaves, Places
  <2>2. RestType'
    BY <1>3, QuietType DEF GateWaves, Quiet
  <2> QED  BY <2>1, <2>2, Assemble
<1>4. ASSUME NEW r \in Requests, GateChecks(r) PROVE TypeInv'
  <2>1. CASE FromCache(r)
    <3>1. RequestType' /\ Alone(r) /\ Situated(r)'
      BY <1>4, <2>1, PassedType DEF GateChecks, FromCache
    <3>2. RestType'
      BY <2>1, QuietType DEF FromCache, Quiet
    <3> QED  BY <3>1, <3>2, Assemble
  <2>2. CASE AskAuth(r)
    <3>1. /\ RequestType' /\ Alone(r) /\ Situated(r)'
          /\ entries' \in [Keys -> Time \cup {Nothing}]
      BY <1>4, <2>2, AskAuthType DEF GateChecks
    <3>2. RestType'
      BY <2>2, <3>1 DEF AskAuth, TypeInv, TypeOK, RestType, base, sampler, outside
    <3> QED  BY <3>1, <3>2, Assemble
  <2> QED  BY <1>4, <2>1, <2>2 DEF GateChecks
<1>5. ASSUME NEW r \in Requests, NEW a \in {"allowed", "denied", "failed"}, AuthDecides(r, a)
      PROVE  TypeInv'
  <2> USE DEF TypeInv, TypeOK, AuthDecides, asked
  <2>1. RequestType'
    BY <1>5 DEF RequestType, Places
  <2>2. Alone(r)
    BY <1>5 DEF Alone
  <2>3. Situated(r)'
    <3>1. pc'[r] = IF AtGate(r) THEN "back" ELSE "case_back"
      BY <1>5
    <3> QED  BY <1>5, <3>1 DEF Situated, AtGate
  <2> HIDE DEF TypeInv, TypeOK
  <2>4. RestType'
    BY <1>5, QuietType DEF Quiet
  <2> QED  BY <2>1, <2>2, <2>3, <2>4, Assemble
<1>6. ASSUME NEW r \in Requests, AuthAllows(r) PROVE TypeInv'
  <2>1. RequestType' /\ Alone(r) /\ Situated(r)'
    BY <1>6, PassedType DEF AuthAllows
  <2>2. entries' \in [Keys -> Time \cup {Nothing}]
    BY <1>6 DEF AuthAllows, Remember, TypeInv, TypeOK
  <2>3. RestType'
    BY <1>6, <2>2 DEF AuthAllows, TypeInv, TypeOK, RestType, base, sampler, outside
  <2> QED  BY <2>1, <2>3, Assemble
<1>7. ASSUME NEW r \in Requests, ServedStale(r) PROVE TypeInv'
  <2>1. RequestType' /\ Alone(r) /\ Situated(r)'
    BY <1>7, PassedType DEF ServedStale
  <2>2. RestType'
    BY <1>7, QuietType DEF ServedStale, Quiet
  <2> QED  BY <2>1, <2>2, Assemble
<1>8. ASSUME NEW r \in Requests, AuthRefuses(r) PROVE TypeInv'
  <2>1. RequestType' /\ Alone(r) /\ Situated(r)'
    <3>1. CASE AtGate(r)
      BY <1>8, <3>1, EndedType DEF AuthRefuses
    <3>2. CASE ~AtGate(r)
      BY <1>8, <3>2, MovesType DEF AuthRefuses, Places
    <3> QED  BY <3>1, <3>2
  <2>2. entries' \in [Keys -> Time \cup {Nothing}]
    <3>1. KeyAt(r) \in Keys
      BY <1>8, KeyType DEF AuthRefuses
    <3> QED  BY <1>8, <3>1 DEF AuthRefuses, Pruned, TypeInv, TypeOK
  <2>3. RestType'
    BY <1>8, <2>2 DEF AuthRefuses, TypeInv, TypeOK, RestType, base, sampler, outside
  <2> QED  BY <2>1, <2>3, Assemble
<1>9. ASSUME NEW r \in Requests, DeliveryExempt(r) PROVE TypeInv'
  <2>1. RequestType' /\ Alone(r) /\ Situated(r)'
    BY <1>9, MovesType DEF DeliveryExempt, Places
  <2>2. RestType'
    BY <1>9, QuietType DEF DeliveryExempt, Quiet
  <2> QED  BY <2>1, <2>2, Assemble
<1>10. ASSUME NEW r \in Requests, DeliveryRefuses(r) PROVE TypeInv'
  <2>1. RequestType' /\ Alone(r) /\ Situated(r)'
    BY <1>10, EndedType DEF DeliveryRefuses
  <2>2. RestType'
    BY <1>10, QuietType DEF DeliveryRefuses, Quiet
  <2> QED  BY <2>1, <2>2, Assemble
<1>11. ASSUME NEW r \in Requests, ReadCore(r) PROVE TypeInv'
  <2>1. RequestType' /\ Alone(r) /\ Situated(r)'
    BY <1>11, MovesType DEF ReadCore, Places
  <2>2. RestType'
    BY <1>11, QuietType DEF ReadCore, Quiet
  <2> QED  BY <2>1, <2>2, Assemble
<1>12. ASSUME NEW r \in Requests, NEW missing, CoreDecides(r, missing)
      PROVE  TypeInv'
  <2> USE DEF TypeInv, TypeOK, CoreDecides, asked
  <2>1. RequestType'
    BY <1>12 DEF RequestType, Places
  <2>2. Alone(r)
    BY <1>12 DEF Alone
  <2>3. Situated(r)'
    BY <1>12 DEF Situated
  <2> HIDE DEF TypeInv, TypeOK
  <2>4. RestType'
    BY <1>12, QuietType DEF Quiet
  <2> QED  BY <2>1, <2>2, <2>3, <2>4, Assemble
<1>13. ASSUME NEW r \in Requests, CoreFails(r) PROVE TypeInv'
  <2>1. RequestType' /\ Alone(r) /\ Situated(r)'
    BY <1>13, EndedType DEF CoreFails
  <2>2. RestType'
    BY <1>13, QuietType DEF CoreFails, Quiet
  <2> QED  BY <2>1, <2>2, Assemble
<1>14. ASSUME NEW r \in Requests, CoreAnswers(r) PROVE TypeInv'
  <2>1. RequestType' /\ Alone(r) /\ Situated(r)'
    <3>1. CASE answer[r] = "allowed"
      BY <1>14, <3>1, MovesType DEF CoreAnswers, Places
    <3>2. CASE answer[r] # "allowed"
      BY <1>14, <3>2, EndedType DEF CoreAnswers
    <3> QED  BY <3>1, <3>2
  <2>2. RestType'
    BY <1>14, QuietType DEF CoreAnswers, Quiet
  <2> QED  BY <2>1, <2>2, Assemble
<1>15. ASSUME NEW r \in Requests, ShadowSkips(r) PROVE TypeInv'
  <2>1. RequestType' /\ Alone(r) /\ Situated(r)'
    BY <1>15, MovesType DEF ShadowSkips, Places
  <2>2. RestType'
    BY <1>15, QuietType DEF ShadowSkips, Quiet
  <2> QED  BY <2>1, <2>2, Assemble
<1>16. ASSUME NEW r \in Requests, ShadowReads(r) PROVE TypeInv'
  <2>1. RequestType' /\ Alone(r) /\ Situated(r)'
    BY <1>16, MovesType DEF ShadowReads, Places
  <2>2. last' \in [Pairs -> Time \cup {Nothing}]
    BY <1>16 DEF ShadowReads, Recorded, TypeInv, TypeOK
  <2>3. /\ readAt' \in [Pairs -> Time \cup {Nothing}]
        /\ reading' \in [Requests -> BOOLEAN]
    BY <1>16 DEF ShadowReads, TypeInv, TypeOK
  <2>4. RestType'
    BY <1>16, <2>2, <2>3 DEF ShadowReads, TypeInv, TypeOK, RestType, base, outside
  <2> QED  BY <2>1, <2>4, Assemble
<1>17. ASSUME NEW r \in Requests, ShadowAnswers(r) PROVE TypeInv'
  <2>1. RestType'
    BY <1>17 DEF ShadowAnswers, RestType, TypeInv, TypeOK, base, sampler, outside
  <2> QED  BY <1>17, <2>1, StillType DEF ShadowAnswers, TypeInv, TypeOK, local
<1>18. ASSUME NEW r \in Requests, TokenRefused(r) PROVE TypeInv'
  <2>1. RequestType' /\ Alone(r) /\ Situated(r)'
    BY <1>18, MovesType DEF TokenRefused, Places
  <2>2. RestType'
    BY <1>18, QuietType DEF TokenRefused, Quiet
  <2> QED  BY <2>1, <2>2, Assemble
<1>19. ASSUME NEW r \in Requests, Handle(r) PROVE TypeInv'
  <2>1. RequestType' /\ Alone(r) /\ Situated(r)'
    BY <1>19, MovesType DEF Handle, Admitted, Places
  <2>2. RestType'
    BY <1>19, QuietType DEF Handle, Quiet
  <2> QED  BY <2>1, <2>2, Assemble
<1>20. ASSUME NEW r \in Requests, CaseChecks(r) PROVE TypeInv'
  <2>1. CASE FromCache(r)
    <3>1. RequestType' /\ Alone(r) /\ Situated(r)'
      BY <1>20, <2>1, PassedType DEF CaseChecks, FromCache, Admitted
    <3>2. RestType'
      BY <2>1, QuietType DEF FromCache, Quiet
    <3> QED  BY <3>1, <3>2, Assemble
  <2>2. CASE AskAuth(r)
    <3>1. /\ RequestType' /\ Alone(r) /\ Situated(r)'
          /\ entries' \in [Keys -> Time \cup {Nothing}]
      BY <1>20, <2>2, AskAuthType, CaseIsAction DEF CaseChecks, Admitted
    <3>2. RestType'
      BY <2>2, <3>1 DEF AskAuth, TypeInv, TypeOK, RestType, base, sampler, outside
    <3> QED  BY <3>1, <3>2, Assemble
  <2> QED  BY <1>20, <2>1, <2>2 DEF CaseChecks
<1>21. ASSUME NEW r \in Requests, Finish(r) PROVE TypeInv'
  <2>1. RequestType' /\ Alone(r) /\ Situated(r)'
    BY <1>21, EndedType DEF Finish
  <2>2. RestType'
    BY <1>21 DEF Finish, TypeInv, TypeOK, RestType, base, sampler, outside
  <2> QED  BY <2>1, <2>2, Assemble
<1>22. ASSUME NEW k \in Keys, Grant(k) PROVE TypeInv'
  <2>1. changes' \in 0..MaxChanges
    BY <1>22, BoundsAssumption DEF Grant, TypeInv, TypeOK
  <2>2. RestType'
    BY <1>22, <2>1 DEF Grant, RestType, TypeInv, TypeOK, base, sampler, Tenants, Keys
  <2> QED  BY <1>22, <2>2, StillType DEF Grant, TypeInv, TypeOK, local
<1>23. ASSUME NEW k \in Keys, RevokeElsewhere(k) PROVE TypeInv'
  <2>1. changes' \in 0..MaxChanges
    BY <1>23, BoundsAssumption DEF RevokeElsewhere, Lose, TypeInv, TypeOK
  <2>2. RestType'
    BY <1>23, <2>1 DEF RevokeElsewhere, Lose, RestType, TypeInv, TypeOK, base, sampler, Tenants, Keys
  <2> QED  BY <1>23, <2>2, StillType DEF RevokeElsewhere, Lose, TypeInv, TypeOK, local
<1>24. ASSUME NEW k \in Keys, ScreenRevokes(k) PROVE TypeInv'
  <2>1. changes' \in 0..MaxChanges
    BY <1>24, BoundsAssumption DEF ScreenRevokes, Lose, TypeInv, TypeOK
  <2>2. RestType'
    BY <1>24, <2>1 DEF ScreenRevokes, Lose, RestType, TypeInv, TypeOK, base, sampler, Tenants, Keys
  <2> QED  BY <1>24, <2>2, StillType DEF ScreenRevokes, Lose, TypeInv, TypeOK, local
<1>25. CASE ScreenAnswered
  <2>1. entries' \in [Keys -> Time \cup {Nothing}]
    BY <1>25 DEF ScreenAnswered, Forgotten, TypeInv, TypeOK
  <2>2. RestType'
    BY <1>25, <2>1 DEF ScreenAnswered, RestType, TypeInv, TypeOK, base, sampler
  <2> QED  BY <1>25, <2>2, StillType DEF ScreenAnswered, TypeInv, TypeOK, local
<1>26. CASE ScreenLost
  <2>1. RestType'
    BY <1>26 DEF ScreenLost, RestType, TypeInv, TypeOK, base, sampler
  <2> QED  BY <1>26, <2>1, StillType DEF ScreenLost, TypeInv, TypeOK, local
<1>27. ASSUME NEW f \in Features, NEW v \in {"on", "off"}, ChangePlan(f, v)
      PROVE  TypeInv'
  <2>1. changes' \in 0..MaxChanges /\ plan' \in [Features -> {"on", "off"}]
    BY <1>27, BoundsAssumption DEF ChangePlan, TypeInv, TypeOK
  <2>2. RestType'
    BY <1>27, <2>1 DEF ChangePlan, RestType, TypeInv, TypeOK, base, sampler
  <2>3. covered' \in [Requests -> BOOLEAN]
    <3>1. \A q \in Requests : (\/ covered[q]
                               \/ /\ pc[q] # "idle"
                                  /\ FeatureOf[route[q]] \in Features
                                  /\ \A g \in Least[route[q]] : plan'[g] = "on") \in BOOLEAN
      BY DEF TypeInv, TypeOK
    <3> QED  BY <1>27, <3>1 DEF ChangePlan
  <2> QED  BY <1>27, <2>2, <2>3, StillType DEF ChangePlan, asked
<1>28. CASE Tick
  <2>1. now' \in Time
    BY <1>28, TimesAssumption DEF Tick, TypeInv, TypeOK, Time
  <2>2. RestType'
    BY <1>28, <2>1 DEF Tick, RestType, TypeInv, TypeOK, sampler, outside
  <2> QED  BY <1>28, <2>2, StillType DEF Tick, TypeInv, TypeOK, local
<1>29. CASE UNCHANGED vars
  <2>1. RestType'
    BY <1>29 DEF vars, RestType, TypeInv, TypeOK
  <2> QED  BY <1>29, <2>1, StillType DEF vars, TypeInv, TypeOK
<1> QED
  BY <1>1, <1>2, <1>3, <1>4, <1>5, <1>6, <1>7, <1>8, <1>9, <1>10,
     <1>11, <1>12, <1>13, <1>14, <1>15, <1>16, <1>17, <1>18, <1>19, <1>20,
     <1>21, <1>22, <1>23, <1>24, <1>25, <1>26, <1>27, <1>28, <1>29
     DEF Next, Proceed, Others

LEMMA TypeInit == Init => TypeInv
<1> SUFFICES ASSUME Init PROVE TypeInv
  OBVIOUS
<1>1. enforcement \in [Scopes -> {"off", "shadow", "enforce"}]
  BY ModesAssumption DEF Init, EnforcementFor
<1>2. now \in Time /\ since \in [Requests -> Time] /\ lostAt \in [Keys -> Time]
  BY TimesAssumption DEF Init, Time
<1>3. arrived \in 0..MaxRequests /\ changes \in 0..MaxChanges
  BY BoundsAssumption DEF Init
<1>4. TypeOK
  BY <1>1, <1>2, <1>3 DEF Init, TypeOK, Places
<1>5. \A r \in Requests : Situated(r)
  BY DEF Init, Situated
<1> QED  BY <1>4, <1>5 DEF TypeInv

\* Every variable of the gates keeps its type (require_course_authorization,
\* require_feature_delivery and the handlers behind them).
THEOREM TypeCorrect == Spec => []TypeOK
<1>1. Init => TypeInv
  BY TypeInit
<1>2. TypeInv /\ [Next]_vars => TypeInv'
  BY TypeStep
<1>3. TypeInv => TypeOK
  BY DEF TypeInv
<1> QED  BY <1>1, <1>2, <1>3, PTL DEF Spec

-----------------------------------------------------------------------------
(* What a step does to the checks under way and to the cache. *)

Calls == {"asked", "back", "case_asked", "case_back"}

\* Auth's allowance is on its way back.
Held(r) == pc[r] \in {"back", "case_back"} /\ answer[r] = "allowed"

\* One request steps: no call of it is under way afterwards, or one begins, or
\* Auth decides it.
OneSteps ==
  \/ UNCHANGED <<pc, route, scope, input, answer, since>>
  \/ \E r \in Requests : Alone(r) /\ pc'[r] \notin Calls
  \/ \E r \in Requests : /\ Alone(r) /\ pc'[r] \in {"asked", "case_asked"}
                         /\ since'[r] = now /\ now' = now
  \/ \E r \in Requests, a \in {"allowed", "denied", "failed"} : AuthDecides(r, a)

LEMMA RequestStep ==
  ASSUME TypeInv, [Next]_vars
  PROVE  OneSteps
<1>1. ASSUME NEW r \in Requests, NEW rt \in Routes, NEW s \in Scopes, NEW i \in Inputs, Arrive(r, rt, s, i)
      PROVE  OneSteps
  <2>1. Alone(r) /\ pc'[r] \notin Calls
    BY <1>1 DEF Arrive, Calls, Alone, TypeInv, TypeOK
  <2> QED  BY <2>1 DEF OneSteps
<1>2. ASSUME NEW r \in Requests, GateRefuses(r) PROVE OneSteps
  <2>1. Alone(r) /\ pc'[r] \notin Calls
    BY <1>2, EndedType DEF GateRefuses, Calls
  <2> QED  BY <2>1 DEF OneSteps
<1>3. ASSUME NEW r \in Requests, GateWaves(r) PROVE OneSteps
  <2>1. Alone(r) /\ pc'[r] \notin Calls
    BY <1>3, MovesType DEF GateWaves, Calls, Places
  <2> QED  BY <2>1 DEF OneSteps
<1>4. ASSUME NEW r \in Requests, GateChecks(r) PROVE OneSteps
  <2>1. CASE FromCache(r)
    <3>1. Alone(r) /\ pc'[r] \notin Calls
      BY <1>4, <2>1, PassedType DEF GateChecks, FromCache, Calls
    <3> QED  BY <3>1 DEF OneSteps
  <2>2. CASE AskAuth(r)
    <3>1. Alone(r) /\ pc'[r] \in {"asked", "case_asked"}
      BY <1>4, <2>2, AskAuthType DEF GateChecks
    <3>2. since'[r] = now /\ now' = now
      BY <2>2 DEF AskAuth, TypeInv, TypeOK, base
    <3> QED  BY <3>1, <3>2 DEF OneSteps
  <2> QED  BY <1>4, <2>1, <2>2 DEF GateChecks
<1>5. ASSUME NEW r \in Requests, NEW a \in {"allowed", "denied", "failed"}, AuthDecides(r, a)
      PROVE  OneSteps
  BY <1>5 DEF OneSteps
<1>6. ASSUME NEW r \in Requests, AuthAllows(r) PROVE OneSteps
  <2>1. Alone(r) /\ pc'[r] \notin Calls
    BY <1>6, PassedType DEF AuthAllows, Calls
  <2> QED  BY <2>1 DEF OneSteps
<1>7. ASSUME NEW r \in Requests, ServedStale(r) PROVE OneSteps
  <2>1. Alone(r) /\ pc'[r] \notin Calls
    BY <1>7, PassedType DEF ServedStale, Calls
  <2> QED  BY <2>1 DEF OneSteps
<1>8. ASSUME NEW r \in Requests, AuthRefuses(r) PROVE OneSteps
  <2>1. Alone(r) /\ pc'[r] \notin Calls
    <3>1. CASE AtGate(r)
      BY <1>8, <3>1, EndedType DEF AuthRefuses, Calls
    <3>2. CASE ~AtGate(r)
      BY <1>8, <3>2, MovesType DEF AuthRefuses, Places, Calls
    <3> QED  BY <3>1, <3>2
  <2> QED  BY <2>1 DEF OneSteps
<1>9. ASSUME NEW r \in Requests, DeliveryExempt(r) PROVE OneSteps
  <2>1. Alone(r) /\ pc'[r] \notin Calls
    BY <1>9, MovesType DEF DeliveryExempt, Calls, Places
  <2> QED  BY <2>1 DEF OneSteps
<1>10. ASSUME NEW r \in Requests, DeliveryRefuses(r) PROVE OneSteps
  <2>1. Alone(r) /\ pc'[r] \notin Calls
    BY <1>10, EndedType DEF DeliveryRefuses, Calls
  <2> QED  BY <2>1 DEF OneSteps
<1>11. ASSUME NEW r \in Requests, ReadCore(r) PROVE OneSteps
  <2>1. Alone(r) /\ pc'[r] \notin Calls
    BY <1>11, MovesType DEF ReadCore, Calls, Places
  <2> QED  BY <2>1 DEF OneSteps
<1>12. ASSUME NEW r \in Requests, NEW missing, CoreDecides(r, missing)
      PROVE  OneSteps
  <2>1. Alone(r) /\ pc'[r] \notin Calls
    BY <1>12 DEF CoreDecides, Calls, Alone, TypeInv, TypeOK, asked
  <2> QED  BY <2>1 DEF OneSteps
<1>13. ASSUME NEW r \in Requests, CoreFails(r) PROVE OneSteps
  <2>1. Alone(r) /\ pc'[r] \notin Calls
    BY <1>13, EndedType DEF CoreFails, Calls
  <2> QED  BY <2>1 DEF OneSteps
<1>14. ASSUME NEW r \in Requests, CoreAnswers(r) PROVE OneSteps
  <2>1. Alone(r) /\ pc'[r] \notin Calls
    <3>1. CASE answer[r] = "allowed"
      BY <1>14, <3>1, MovesType DEF CoreAnswers, Places, Calls
    <3>2. CASE answer[r] # "allowed"
      BY <1>14, <3>2, EndedType DEF CoreAnswers, Calls
    <3> QED  BY <3>1, <3>2
  <2> QED  BY <2>1 DEF OneSteps
<1>15. ASSUME NEW r \in Requests, ShadowSkips(r) PROVE OneSteps
  <2>1. Alone(r) /\ pc'[r] \notin Calls
    BY <1>15, MovesType DEF ShadowSkips, Calls, Places
  <2> QED  BY <2>1 DEF OneSteps
<1>16. ASSUME NEW r \in Requests, ShadowReads(r) PROVE OneSteps
  <2>1. Alone(r) /\ pc'[r] \notin Calls
    BY <1>16, MovesType DEF ShadowReads, Calls, Places
  <2> QED  BY <2>1 DEF OneSteps
<1>17. ASSUME NEW r \in Requests, ShadowAnswers(r) PROVE OneSteps
  BY <1>17 DEF OneSteps, ShadowAnswers, local
<1>18. ASSUME NEW r \in Requests, TokenRefused(r) PROVE OneSteps
  <2>1. Alone(r) /\ pc'[r] \notin Calls
    BY <1>18, MovesType DEF TokenRefused, Calls, Places
  <2> QED  BY <2>1 DEF OneSteps
<1>19. ASSUME NEW r \in Requests, Handle(r) PROVE OneSteps
  <2>1. Alone(r) /\ pc'[r] \notin Calls
    BY <1>19, MovesType DEF Handle, Calls, Admitted, Places
  <2> QED  BY <2>1 DEF OneSteps
<1>20. ASSUME NEW r \in Requests, CaseChecks(r) PROVE OneSteps
  <2>1. CASE FromCache(r)
    <3>1. Alone(r) /\ pc'[r] \notin Calls
      BY <1>20, <2>1, PassedType DEF CaseChecks, FromCache, Calls, Admitted
    <3> QED  BY <3>1 DEF OneSteps
  <2>2. CASE AskAuth(r)
    <3>1. Alone(r) /\ pc'[r] \in {"asked", "case_asked"}
      BY <1>20, <2>2, AskAuthType, CaseIsAction DEF CaseChecks, Admitted
    <3>2. since'[r] = now /\ now' = now
      BY <2>2 DEF AskAuth, TypeInv, TypeOK, base
    <3> QED  BY <3>1, <3>2 DEF OneSteps
  <2> QED  BY <1>20, <2>1, <2>2 DEF CaseChecks
<1>21. ASSUME NEW r \in Requests, Finish(r) PROVE OneSteps
  <2>1. Alone(r) /\ pc'[r] \notin Calls
    BY <1>21, EndedType DEF Finish, Calls
  <2> QED  BY <2>1 DEF OneSteps
<1>22. ASSUME NEW k \in Keys, Grant(k) PROVE OneSteps
  BY <1>22 DEF OneSteps, Grant, local
<1>23. ASSUME NEW k \in Keys, RevokeElsewhere(k) PROVE OneSteps
  BY <1>23 DEF OneSteps, RevokeElsewhere, Lose, local
<1>24. ASSUME NEW k \in Keys, ScreenRevokes(k) PROVE OneSteps
  BY <1>24 DEF OneSteps, ScreenRevokes, Lose, local
<1>25. CASE ScreenAnswered
  BY <1>25 DEF OneSteps, ScreenAnswered, local
<1>26. CASE ScreenLost
  BY <1>26 DEF OneSteps, ScreenLost, local
<1>27. ASSUME NEW f \in Features, NEW v \in {"on", "off"}, ChangePlan(f, v)
      PROVE  OneSteps
  BY <1>27 DEF OneSteps, ChangePlan, asked
<1>28. CASE Tick
  BY <1>28 DEF OneSteps, Tick, local
<1>29. CASE UNCHANGED vars
  BY <1>29 DEF OneSteps, vars
<1> QED
  BY <1>1, <1>2, <1>3, <1>4, <1>5, <1>6, <1>7, <1>8, <1>9, <1>10,
     <1>11, <1>12, <1>13, <1>14, <1>15, <1>16, <1>17, <1>18, <1>19, <1>20,
     <1>21, <1>22, <1>23, <1>24, <1>25, <1>26, <1>27, <1>28, <1>29
     DEF Next, Proceed, Others

\* An allowance on its way back was on its way before, or Auth just gave it.
LEMMA HeldStep ==
  ASSUME TypeInv, [Next]_vars, NEW q \in Requests, Held(q)'
  PROVE  /\ KeyAt(q)' = KeyAt(q) /\ since'[q] = since[q]
         /\ \/ Held(q)
            \/ /\ KeyAt(q) \in granted /\ pc[q] \in Calls
               /\ UNCHANGED <<now, granted, lostAt, settled, entries>>
<1>1. CASE UNCHANGED <<pc, route, scope, input, answer, since>>
  BY <1>1 DEF Held, KeyAt, AtGate
<1>2. ASSUME NEW r \in Requests, Alone(r), q # r
      PROVE  KeyAt(q)' = KeyAt(q) /\ since'[q] = since[q] /\ Held(q)
  BY <1>2 DEF Held, KeyAt, AtGate, Alone
<1>3. ASSUME NEW r \in Requests, NEW a \in {"allowed", "denied", "failed"}, AuthDecides(r, a)
      PROVE  /\ KeyAt(q)' = KeyAt(q) /\ since'[q] = since[q]
             /\ \/ Held(q)
                \/ /\ KeyAt(q) \in granted /\ pc[q] \in Calls
                   /\ UNCHANGED <<now, granted, lostAt, settled, entries>>
  <2> USE DEF AuthDecides, asked, TypeInv, TypeOK
  <2>1. CASE q # r
    BY <1>3, <2>1 DEF Held, KeyAt, AtGate
  <2>2. CASE q = r
    <3>1. pc'[q] = IF AtGate(q) THEN "back" ELSE "case_back"
      BY <1>3, <2>2
    <3>2. answer'[q] = a /\ a = "allowed"
      BY <1>3, <2>2 DEF Held
    <3>3. KeyAt(q)' = KeyAt(q) /\ since'[q] = since[q]
      BY <1>3, <2>2, <3>1 DEF KeyAt, AtGate
    <3>4. KeyAt(q) \in granted /\ pc[q] \in Calls
      BY <1>3, <2>2, <3>2 DEF Calls
    <3>5. UNCHANGED <<now, granted, lostAt, settled, entries>>
      BY <1>3 DEF base, outside
    <3> QED  BY <3>3, <3>4, <3>5
  <2> QED  BY <2>1, <2>2
<1>4. ASSUME NEW r \in Requests, pc'[r] \notin {"back", "case_back"}
      PROVE  q # r
  BY <1>4 DEF Held
<1> QED  BY RequestStep, <1>1, <1>2, <1>3, <1>4 DEF OneSteps, Calls

\* A call under way was under way before, or begins now.
LEMMA CallStep ==
  ASSUME TypeInv, [Next]_vars, NEW q \in Requests, pc'[q] \in Calls
  PROVE  \/ pc[q] \in Calls /\ since'[q] = since[q]
         \/ since'[q] = now /\ now' = now
<1>1. CASE UNCHANGED <<pc, route, scope, input, answer, since>>
  BY <1>1
<1>2. ASSUME NEW r \in Requests, Alone(r), pc'[r] \notin Calls
      PROVE  pc[q] \in Calls /\ since'[q] = since[q]
  BY <1>2 DEF Alone
<1>3. ASSUME NEW r \in Requests, Alone(r), since'[r] = now /\ now' = now
      PROVE  \/ pc[q] \in Calls /\ since'[q] = since[q]
             \/ since'[q] = now /\ now' = now
  BY <1>3 DEF Alone
<1>4. ASSUME NEW r \in Requests, NEW a \in {"allowed", "denied", "failed"}, AuthDecides(r, a)
      PROVE  pc[q] \in Calls /\ since'[q] = since[q]
  BY <1>4 DEF AuthDecides, asked, TypeInv, TypeOK, Calls
<1> QED  BY RequestStep, <1>1, <1>2, <1>3, <1>4 DEF OneSteps

\* A request only ever drops allowances, or stores the one Auth gave it.
Cached ==
  /\ UNCHANGED <<now, granted, lostAt, settled>>
  /\ \A k \in Keys : \/ entries'[k] \in {entries[k], Nothing}
                     \/ entries'[k] = now /\ \E r \in Requests : Held(r) /\ KeyAt(r) = k

Memory ==
  \/ Cached
  \/ \E k \in Keys : Lose(k) \/ Grant(k)
  \/ ScreenAnswered
  \/ Tick

LEMMA MemoryStep ==
  ASSUME TypeInv, [Next]_vars
  PROVE  Memory
<1>1. ASSUME NEW r \in Requests, NEW rt \in Routes, NEW s \in Scopes, NEW i \in Inputs, Arrive(r, rt, s, i)
      PROVE  Memory
  BY <1>1 DEF Arrive, Memory, Cached, base, outside
<1>2. ASSUME NEW r \in Requests, GateRefuses(r) PROVE Memory
  BY <1>2 DEF GateRefuses, Memory, Cached, base, outside
<1>3. ASSUME NEW r \in Requests, GateWaves(r) PROVE Memory
  BY <1>3 DEF GateWaves, Memory, Cached, base, outside
<1>4. ASSUME NEW r \in Requests, GateChecks(r) PROVE Memory
  <2>1. CASE FromCache(r)
    BY <2>1 DEF FromCache, Memory, Cached, base, outside
  <2>2. CASE AskAuth(r)
    <3>1. \A k \in Keys : entries'[k] \in {entries[k], Nothing}
      BY <2>2 DEF AskAuth, Pruned, TypeInv, TypeOK
    <3> QED  BY <2>2, <3>1 DEF AskAuth, Memory, Cached, base, outside
  <2> QED  BY <1>4, <2>1, <2>2 DEF GateChecks
<1>5. ASSUME NEW r \in Requests, NEW a \in {"allowed", "denied", "failed"}, AuthDecides(r, a)
      PROVE  Memory
  BY <1>5 DEF AuthDecides, Memory, Cached, base, outside
<1>6. ASSUME NEW r \in Requests, AuthAllows(r) PROVE Memory
  <2>1. \A k \in Keys : \/ entries'[k] \in {entries[k], Nothing}
                        \/ entries'[k] = now /\ \E q \in Requests : Held(q) /\ KeyAt(q) = k
    BY <1>6 DEF AuthAllows, Remember, Held
  <2> QED  BY <1>6, <2>1 DEF AuthAllows, Memory, Cached, base, outside
<1>7. ASSUME NEW r \in Requests, ServedStale(r) PROVE Memory
  BY <1>7 DEF ServedStale, Memory, Cached, base, outside
<1>8. ASSUME NEW r \in Requests, AuthRefuses(r) PROVE Memory
  <2>1. \A k \in Keys : entries'[k] \in {entries[k], Nothing}
    BY <1>8 DEF AuthRefuses, Pruned, TypeInv, TypeOK
  <2> QED  BY <1>8, <2>1 DEF AuthRefuses, Memory, Cached, base, outside
<1>9. ASSUME NEW r \in Requests, DeliveryExempt(r) PROVE Memory
  BY <1>9 DEF DeliveryExempt, Memory, Cached, base, outside
<1>10. ASSUME NEW r \in Requests, DeliveryRefuses(r) PROVE Memory
  BY <1>10 DEF DeliveryRefuses, Memory, Cached, base, outside
<1>11. ASSUME NEW r \in Requests, ReadCore(r) PROVE Memory
  BY <1>11 DEF ReadCore, Memory, Cached, base, outside
<1>12. ASSUME NEW r \in Requests, NEW missing, CoreDecides(r, missing)
      PROVE  Memory
  BY <1>12 DEF CoreDecides, Memory, Cached, base, outside
<1>13. ASSUME NEW r \in Requests, CoreFails(r) PROVE Memory
  BY <1>13 DEF CoreFails, Memory, Cached, base, outside
<1>14. ASSUME NEW r \in Requests, CoreAnswers(r) PROVE Memory
  BY <1>14 DEF CoreAnswers, Memory, Cached, base, outside
<1>15. ASSUME NEW r \in Requests, ShadowSkips(r) PROVE Memory
  BY <1>15 DEF ShadowSkips, Memory, Cached, base, outside
<1>16. ASSUME NEW r \in Requests, ShadowReads(r) PROVE Memory
  BY <1>16 DEF ShadowReads, Memory, Cached, base, outside
<1>17. ASSUME NEW r \in Requests, ShadowAnswers(r) PROVE Memory
  BY <1>17 DEF ShadowAnswers, Memory, Cached, base, outside
<1>18. ASSUME NEW r \in Requests, TokenRefused(r) PROVE Memory
  BY <1>18 DEF TokenRefused, Memory, Cached, base, outside
<1>19. ASSUME NEW r \in Requests, Handle(r) PROVE Memory
  BY <1>19 DEF Handle, Memory, Cached, base, outside
<1>20. ASSUME NEW r \in Requests, CaseChecks(r) PROVE Memory
  <2>1. CASE FromCache(r)
    BY <2>1 DEF FromCache, Memory, Cached, base, outside
  <2>2. CASE AskAuth(r)
    <3>1. \A k \in Keys : entries'[k] \in {entries[k], Nothing}
      BY <2>2 DEF AskAuth, Pruned, TypeInv, TypeOK
    <3> QED  BY <2>2, <3>1 DEF AskAuth, Memory, Cached, base, outside
  <2> QED  BY <1>20, <2>1, <2>2 DEF CaseChecks
<1>21. ASSUME NEW r \in Requests, Finish(r) PROVE Memory
  BY <1>21 DEF Finish, Memory, Cached, base, outside
<1>22. ASSUME NEW k \in Keys, Grant(k) PROVE Memory
  BY <1>22 DEF Grant, Memory
<1>23. ASSUME NEW k \in Keys, RevokeElsewhere(k) PROVE Memory
  BY <1>23 DEF RevokeElsewhere, Memory
<1>24. ASSUME NEW k \in Keys, ScreenRevokes(k) PROVE Memory
  BY <1>24 DEF ScreenRevokes, Memory
<1>25. CASE ScreenAnswered
  BY <1>25 DEF ScreenAnswered, Memory
<1>26. CASE ScreenLost
  BY <1>26 DEF ScreenLost, Memory, Cached, base, outside
<1>27. ASSUME NEW f \in Features, NEW v \in {"on", "off"}, ChangePlan(f, v)
      PROVE  Memory
  BY <1>27 DEF ChangePlan, Memory, Cached, base, outside
<1>28. CASE Tick
  BY <1>28 DEF Tick, Memory
<1>29. CASE UNCHANGED vars
  BY <1>29 DEF vars, Memory, Cached
<1> QED
  BY <1>1, <1>2, <1>3, <1>4, <1>5, <1>6, <1>7, <1>8, <1>9, <1>10,
     <1>11, <1>12, <1>13, <1>14, <1>15, <1>16, <1>17, <1>18, <1>19, <1>20,
     <1>21, <1>22, <1>23, <1>24, <1>25, <1>26, <1>27, <1>28, <1>29
     DEF Next, Proceed, Others

-----------------------------------------------------------------------------
(* ForgottenAtOnce *)

\* A settled key is not stored, not granted, and no check of it comes back
\* with an allowance.
ForgetInv == \A k \in settled :
  /\ entries[k] = Nothing
  /\ k \notin granted
  /\ \A r \in Requests : Held(r) => KeyAt(r) # k

LEMMA ForgetStep ==
  ASSUME TypeInv, ForgetInv, [Next]_vars
  PROVE  ForgetInv'
<1> SUFFICES ASSUME NEW k \in settled'
             PROVE  /\ entries'[k] = Nothing
                    /\ k \notin granted'
                    /\ \A q \in Requests : Held(q)' => KeyAt(q)' # k
  BY DEF ForgetInv
<1>k. k \in Keys
  BY TypeStep DEF TypeInv, TypeOK
<1>1. ASSUME k \in settled PROVE \A q \in Requests : Held(q)' => KeyAt(q)' # k
  BY <1>1, HeldStep DEF ForgetInv
<1>2. CASE Cached
  <2>1. k \in settled /\ granted' = granted
    BY <1>2 DEF Cached
  <2>2. entries'[k] = Nothing
    BY <1>k, <1>2, <2>1 DEF Cached, ForgetInv
  <2> QED  BY <1>1, <2>1, <2>2 DEF ForgetInv
<1>3. ASSUME NEW j \in Keys, Lose(j)
      PROVE  k \in settled /\ entries'[k] = Nothing /\ k \notin granted'
  BY <1>3 DEF Lose, ForgetInv
<1>4. ASSUME NEW j \in Keys, Grant(j)
      PROVE  k \in settled /\ entries'[k] = Nothing /\ k \notin granted'
  BY <1>4 DEF Grant, ForgetInv
<1>5. CASE Tick
  <2>1. k \in settled /\ entries'[k] = Nothing /\ k \notin granted'
    BY <1>5 DEF Tick, ForgetInv, outside
  <2> QED  BY <1>1, <2>1
<1>6. CASE ScreenAnswered
  <2>1. CASE k \in settled
    <3>1. entries'[k] = Nothing /\ k \notin granted'
      BY <1>k, <1>6, <2>1 DEF ScreenAnswered, Forgotten, ForgetInv
    <3> QED  BY <1>1, <2>1, <3>1
  <2>2. CASE k \notin settled
    <3>1. k \notin granted /\ k \notin UnderWay /\ TenantOf[k[1]] = changing
      BY <1>6, <2>2 DEF ScreenAnswered
    <3>2. entries'[k] = Nothing /\ k \notin granted'
      BY <1>k, <1>6, <3>1 DEF ScreenAnswered, Forgotten
    <3>3. \A q \in Requests : Held(q) => KeyAt(q) # k
      BY <3>1 DEF UnderWay, Held
    <3>4. \A q \in Requests : Held(q)' => KeyAt(q)' # k
      BY <3>1, <3>3, HeldStep
    <3> QED  BY <3>2, <3>4
  <2> QED  BY <2>1, <2>2
<1> QED  BY MemoryStep, <1>1, <1>2, <1>3, <1>4, <1>5, <1>6 DEF Memory

\* However many requests run, a permission that the members screen took away
\* while no check of it was on its way back is not in the cache again until
\* it is granted (CachingPolicyChecker, forget_tenant_allowances).
THEOREM ForgottenStaysForgotten == Spec => []ForgottenAtOnce
<1>1. Init => TypeInv /\ ForgetInv
  BY TypeInit DEF Init, ForgetInv
<1>2. TypeInv /\ ForgetInv /\ [Next]_vars => TypeInv' /\ ForgetInv'
  BY TypeStep, ForgetStep
<1>3. ForgetInv => ForgottenAtOnce
  BY DEF ForgetInv, ForgottenAtOnce
<1> QED  BY <1>1, <1>2, <1>3, PTL DEF Spec

-----------------------------------------------------------------------------
(* RevocationBites *)

\* How old an allowance can be that outlives its grant.
StoredOK == \A k \in Keys :
  /\ lostAt[k] <= now
  /\ entries[k] # Nothing => entries[k] <= now
  /\ entries[k] # Nothing /\ k \notin granted => entries[k] <= lostAt[k] + Lag

\* A call to Auth is no older than its timeout.
CallOK == \A r \in Requests : pc[r] \in Calls => since[r] <= now /\ now <= since[r] + Lag

\* An allowance of a key that is lost was asked for before the loss.
HeldOK == \A r \in Requests :
  Held(r) /\ KeyAt(r) \notin granted => since[r] <= lostAt[KeyAt(r)]

AgeInv == StoredOK /\ CallOK /\ HeldOK

LEMMA HeldKey ==
  ASSUME TypeInv, NEW r \in Requests, Held(r)
  PROVE  KeyAt(r) \in Keys /\ pc[r] \in Calls
  BY KeyType DEF Held, Calls

LEMMA AgeTypes ==
  ASSUME TypeInv
  PROVE  /\ now \in Nat /\ Lag \in Nat
         /\ \A k \in Keys : lostAt[k] \in Nat /\ (entries[k] \in Nat \/ entries[k] = Nothing)
         /\ \A r \in Requests : since[r] \in Nat
  BY TimesAssumption DEF TypeInv, TypeOK, Time

LEMMA StoredStep ==
  ASSUME TypeInv, AgeInv, [Next]_vars
  PROVE  StoredOK'
<1> SUFFICES ASSUME NEW k \in Keys
             PROVE  /\ lostAt'[k] <= now'
                    /\ entries'[k] # Nothing => entries'[k] <= now'
                    /\ entries'[k] # Nothing /\ k \notin granted' => entries'[k] <= lostAt'[k] + Lag
  BY DEF StoredOK
<1>t. /\ now \in Nat /\ Lag \in Nat /\ lostAt[k] \in Nat
      /\ entries[k] \in Nat \/ entries[k] = Nothing
  BY AgeTypes
<1>i. /\ lostAt[k] <= now
      /\ entries[k] # Nothing => entries[k] <= now
      /\ entries[k] # Nothing /\ k \notin granted => entries[k] <= lostAt[k] + Lag
  BY DEF AgeInv, StoredOK
<1>1. CASE Cached
  <2>u. UNCHANGED <<now, granted, lostAt>>
    BY <1>1 DEF Cached
  <2>1. CASE entries'[k] \in {entries[k], Nothing}
    BY <1>i, <2>u, <2>1
  <2>2. ASSUME entries'[k] = now, NEW r \in Requests, Held(r), KeyAt(r) = k
        PROVE  k \notin granted => entries'[k] <= lostAt[k] + Lag
    <3>1. pc[r] \in Calls /\ since[r] \in Nat
      BY <2>2, HeldKey, AgeTypes
    <3>2. now <= since[r] + Lag
      BY <3>1 DEF AgeInv, CallOK
    <3>3. k \notin granted => since[r] <= lostAt[k]
      BY <2>2 DEF AgeInv, HeldOK
    <3> QED  BY <1>t, <2>2, <3>1, <3>2, <3>3
  <2>3. CASE entries'[k] = now /\ \E r \in Requests : Held(r) /\ KeyAt(r) = k
    BY <1>i, <1>t, <2>u, <2>2, <2>3
  <2> QED  BY <1>1, <2>1, <2>3 DEF Cached
<1>2. ASSUME NEW j \in Keys, Lose(j)
      PROVE  /\ lostAt'[k] <= now'
             /\ entries'[k] # Nothing => entries'[k] <= now'
             /\ entries'[k] # Nothing /\ k \notin granted' => entries'[k] <= lostAt'[k] + Lag
  <2>u. now' = now /\ entries' = entries
    BY <1>2 DEF Lose, base
  <2>1. CASE k = j
    <3>1. lostAt'[k] = now
      BY <1>2, <2>1 DEF Lose, TypeInv, TypeOK
    <3> QED  BY <1>i, <1>t, <2>u, <3>1
  <2>2. CASE k # j
    <3>1. lostAt'[k] = lostAt[k] /\ (k \notin granted' => k \notin granted)
      BY <1>2, <2>2 DEF Lose, TypeInv, TypeOK
    <3> QED  BY <1>i, <2>u, <3>1
  <2> QED  BY <2>1, <2>2
<1>3. ASSUME NEW j \in Keys, Grant(j)
      PROVE  /\ lostAt'[k] <= now'
             /\ entries'[k] # Nothing => entries'[k] <= now'
             /\ entries'[k] # Nothing /\ k \notin granted' => entries'[k] <= lostAt'[k] + Lag
  BY <1>3, <1>i DEF Grant, base
<1>4. CASE ScreenAnswered
  <2>1. UNCHANGED <<now, granted, lostAt>> /\ entries'[k] \in {entries[k], Nothing}
    BY <1>4 DEF ScreenAnswered, Forgotten, base
  <2> QED  BY <1>i, <2>1
<1>5. CASE Tick
  <2>1. now' = now + 1 /\ UNCHANGED <<entries, granted, lostAt>>
    BY <1>5 DEF Tick, outside
  <2> QED  BY <1>i, <1>t, <2>1
<1> QED  BY MemoryStep, <1>1, <1>2, <1>3, <1>4, <1>5 DEF Memory

LEMMA ClockStep ==
  ASSUME TypeInv, [Next]_vars
  PROVE  now' = now \/ Tick
  BY MemoryStep DEF Memory, Cached, Lose, Grant, ScreenAnswered, base

LEMMA CallOKStep ==
  ASSUME TypeInv, AgeInv, [Next]_vars
  PROVE  CallOK'
<1> SUFFICES ASSUME NEW r \in Requests, pc'[r] \in Calls
             PROVE  since'[r] <= now' /\ now' <= since'[r] + Lag
  BY DEF CallOK
<1>t. now \in Nat /\ Lag \in Nat /\ since[r] \in Nat
  BY AgeTypes
<1>1. CASE since'[r] = now /\ now' = now
  BY <1>t, <1>1
<1>2. CASE pc[r] \in Calls /\ since'[r] = since[r]
  <2>1. since[r] <= now /\ now <= since[r] + Lag
    BY <1>2 DEF AgeInv, CallOK
  <2>2. CASE now' = now
    BY <1>2, <2>1, <2>2
  <2>3. CASE Tick
    <3>1. now' = now + 1 /\ now < since[r] + Lag
      BY <1>2, <2>3 DEF Tick, Calls
    <3> QED  BY <1>t, <1>2, <2>1, <3>1
  <2> QED  BY <2>2, <2>3, ClockStep
<1> QED  BY <1>1, <1>2, CallStep

\* A loss is never moved back, and a key not granted that was granted before
\* is lost now.
LEMMA LossStep ==
  ASSUME TypeInv, AgeInv, [Next]_vars, NEW k \in Keys, k \notin granted'
  PROVE  \/ k \notin granted /\ lostAt'[k] = lostAt[k]
         \/ lostAt'[k] = now
<1>1. ASSUME NEW j \in Keys, Lose(j)
      PROVE  \/ k \notin granted /\ lostAt'[k] = lostAt[k]
             \/ lostAt'[k] = now
  BY <1>1 DEF Lose, TypeInv, TypeOK
<1>2. ASSUME NEW j \in Keys, Grant(j)
      PROVE  k \notin granted /\ lostAt'[k] = lostAt[k]
  BY <1>2 DEF Grant
<1> QED  BY MemoryStep, <1>1, <1>2 DEF Memory, Cached, ScreenAnswered, Tick, outside

LEMMA HeldOKStep ==
  ASSUME TypeInv, AgeInv, [Next]_vars
  PROVE  HeldOK'
<1> SUFFICES ASSUME NEW r \in Requests, Held(r)', KeyAt(r)' \notin granted'
             PROVE  since'[r] <= lostAt'[KeyAt(r)']
  BY DEF HeldOK
<1>1. /\ KeyAt(r)' = KeyAt(r) /\ since'[r] = since[r]
      /\ \/ Held(r)
         \/ KeyAt(r) \in granted /\ UNCHANGED granted
  BY HeldStep
<1>2. Held(r)
  BY <1>1
<1>3. KeyAt(r) \in Keys /\ pc[r] \in Calls
  BY <1>2, HeldKey
<1>4. CASE KeyAt(r) \notin granted /\ lostAt'[KeyAt(r)] = lostAt[KeyAt(r)]
  BY <1>1, <1>2, <1>4 DEF AgeInv, HeldOK
<1>5. CASE lostAt'[KeyAt(r)] = now
  BY <1>1, <1>3, <1>5 DEF AgeInv, CallOK
<1> QED  BY <1>1, <1>3, <1>4, <1>5, LossStep

\* What a request is passed on: a young allowance, Auth's own answer, or, with
\* Auth out of reach, an older allowance to read.
Served(w) == \/ Allowance(KeyAt(w), Ttl)
             \/ Held(w)
             \/ answer[w] = "failed" /\ LeansOn(KeyAt(w))

LEMMA PassStep ==
  ASSUME TypeInv, [Next]_vars, NEW w \in Requests,
         Waits(w), pc'[w] \in {"deliver", "finish"}
  PROVE  Served(w)
<1>1. ASSUME NEW r \in Requests, NEW rt \in Routes, NEW s \in Scopes, NEW i \in Inputs, Arrive(r, rt, s, i)
      PROVE  Served(w)
  BY <1>1 DEF Arrive, TypeInv, TypeOK, Waits
<1>2. ASSUME NEW r \in Requests, GateRefuses(r) PROVE Served(w)
  BY <1>2 DEF GateRefuses, Ended, TypeInv, TypeOK, Waits
<1>3. ASSUME NEW r \in Requests, GateWaves(r) PROVE Served(w)
  BY <1>3, ActionsAssumption DEF GateWaves, Moves, TypeInv, TypeOK, Waits
<1>4. ASSUME NEW r \in Requests, GateChecks(r) PROVE Served(w)
  <2>1. CASE w = r
    BY <1>4, <2>1 DEF GateChecks, FromCache, AskAuth, Served, TypeInv, TypeOK, Waits
  <2>2. CASE w # r
    BY <1>4, <2>2 DEF GateChecks, FromCache, AskAuth, Passed, TypeInv, TypeOK, Waits
  <2> QED  BY <2>1, <2>2
<1>5. ASSUME NEW r \in Requests, NEW a \in {"allowed", "denied", "failed"}, AuthDecides(r, a)
      PROVE  Served(w)
  BY <1>5 DEF AuthDecides, TypeInv, TypeOK, Waits
<1>6. ASSUME NEW r \in Requests, AuthAllows(r) PROVE Served(w)
  BY <1>6 DEF AuthAllows, Passed, Served, Held, TypeInv, TypeOK, Waits
<1>7. ASSUME NEW r \in Requests, ServedStale(r) PROVE Served(w)
  BY <1>7 DEF ServedStale, Passed, Served, TypeInv, TypeOK, Waits
<1>8. ASSUME NEW r \in Requests, AuthRefuses(r) PROVE Served(w)
  <2>1. CASE w = r
    BY <1>8, <2>1 DEF AuthRefuses, Ended, Moves, TypeInv, TypeOK, Waits
  <2>2. CASE w # r
    BY <1>8, <2>2 DEF AuthRefuses, Ended, Moves, TypeInv, TypeOK, Waits
  <2> QED  BY <2>1, <2>2
<1>9. ASSUME NEW r \in Requests, DeliveryExempt(r) PROVE Served(w)
  BY <1>9 DEF DeliveryExempt, Moves, TypeInv, TypeOK, Waits
<1>10. ASSUME NEW r \in Requests, DeliveryRefuses(r) PROVE Served(w)
  BY <1>10 DEF DeliveryRefuses, Ended, TypeInv, TypeOK, Waits
<1>11. ASSUME NEW r \in Requests, ReadCore(r) PROVE Served(w)
  BY <1>11 DEF ReadCore, Moves, TypeInv, TypeOK, Waits
<1>12. ASSUME NEW r \in Requests, NEW missing, CoreDecides(r, missing)
      PROVE  Served(w)
  BY <1>12 DEF CoreDecides, TypeInv, TypeOK, Waits
<1>13. ASSUME NEW r \in Requests, CoreFails(r) PROVE Served(w)
  BY <1>13 DEF CoreFails, Ended, TypeInv, TypeOK, Waits
<1>14. ASSUME NEW r \in Requests, CoreAnswers(r) PROVE Served(w)
  BY <1>14 DEF CoreAnswers, Ended, Moves, TypeInv, TypeOK, Waits
<1>15. ASSUME NEW r \in Requests, ShadowSkips(r) PROVE Served(w)
  BY <1>15 DEF ShadowSkips, Moves, TypeInv, TypeOK, Waits
<1>16. ASSUME NEW r \in Requests, ShadowReads(r) PROVE Served(w)
  BY <1>16 DEF ShadowReads, Moves, TypeInv, TypeOK, Waits
<1>17. ASSUME NEW r \in Requests, ShadowAnswers(r) PROVE Served(w)
  BY <1>17 DEF ShadowAnswers, TypeInv, TypeOK, Waits
<1>18. ASSUME NEW r \in Requests, TokenRefused(r) PROVE Served(w)
  BY <1>18 DEF TokenRefused, Moves, TypeInv, TypeOK, Waits
<1>19. ASSUME NEW r \in Requests, Handle(r) PROVE Served(w)
  BY <1>19, ActionsAssumption DEF Handle, Admitted, Moves, TypeInv, TypeOK, Waits
<1>20. ASSUME NEW r \in Requests, CaseChecks(r) PROVE Served(w)
  <2>1. CASE w = r
    BY <1>20, <2>1 DEF CaseChecks, FromCache, AskAuth, Served, TypeInv, TypeOK, Waits
  <2>2. CASE w # r
    BY <1>20, <2>2 DEF CaseChecks, FromCache, AskAuth, Passed, TypeInv, TypeOK, Waits
  <2> QED  BY <2>1, <2>2
<1>21. ASSUME NEW r \in Requests, Finish(r) PROVE Served(w)
  BY <1>21 DEF Finish, Ended, TypeInv, TypeOK, Waits
<1>22. ASSUME NEW k \in Keys, Grant(k) PROVE Served(w)
  BY <1>22 DEF Grant, TypeInv, TypeOK, Waits
<1>23. ASSUME NEW k \in Keys, RevokeElsewhere(k) PROVE Served(w)
  BY <1>23 DEF RevokeElsewhere, Lose, TypeInv, TypeOK, Waits
<1>24. ASSUME NEW k \in Keys, ScreenRevokes(k) PROVE Served(w)
  BY <1>24 DEF ScreenRevokes, Lose, TypeInv, TypeOK, Waits
<1>25. CASE ScreenAnswered
  BY <1>25 DEF ScreenAnswered, TypeInv, TypeOK, Waits
<1>26. CASE ScreenLost
  BY <1>26 DEF ScreenLost, TypeInv, TypeOK, Waits
<1>27. ASSUME NEW f \in Features, NEW v \in {"on", "off"}, ChangePlan(f, v)
      PROVE  Served(w)
  BY <1>27 DEF ChangePlan, TypeInv, TypeOK, Waits
<1>28. CASE Tick
  BY <1>28 DEF Tick, TypeInv, TypeOK, Waits
<1>29. CASE UNCHANGED vars
  BY <1>29 DEF vars, TypeInv, TypeOK, Waits
<1> QED
  BY <1>1, <1>2, <1>3, <1>4, <1>5, <1>6, <1>7, <1>8, <1>9, <1>10,
     <1>11, <1>12, <1>13, <1>14, <1>15, <1>16, <1>17, <1>18, <1>19, <1>20,
     <1>21, <1>22, <1>23, <1>24, <1>25, <1>26, <1>27, <1>28, <1>29
     DEF Next, Proceed, Others

LEMMA Bites ==
  ASSUME TypeInv, AgeInv, [Next]_vars, NEW r \in Requests,
         Waits(r), pc'[r] \in {"deliver", "finish"}
  PROVE  \/ Age(KeyAt(r)) < Ttl + Lag
         \/ /\ answer[r] = "failed"
            /\ KeyAt(r)[2] \in ReadOnly
            /\ Age(KeyAt(r)) < Grace + Lag
<1> DEFINE k == KeyAt(r)
<1>1. k \in Keys
  BY KeyType DEF Waits
<1> HIDE DEF k
<1>t. /\ now \in Nat /\ Lag \in Nat /\ Ttl \in Nat \ {0} /\ Grace \in Nat /\ Ttl <= Grace
      /\ lostAt[k] \in Nat /\ since[r] \in Nat /\ (entries[k] \in Nat \/ entries[k] = Nothing)
  BY <1>1, AgeTypes, TimesAssumption
<1>i. entries[k] # Nothing /\ k \notin granted => entries[k] <= lostAt[k] + Lag
  BY <1>1 DEF AgeInv, StoredOK
<1>2. CASE k \in granted
  <2>1. Age(k) = 0
    BY <1>2 DEF Age
  <2> QED  BY <1>t, <2>1 DEF k
<1>3. CASE k \notin granted
  <2>1. Age(k) = now - lostAt[k]
    BY <1>3 DEF Age
  <2>2. CASE Allowance(k, Ttl)
    <3>1. entries[k] # Nothing /\ now - entries[k] < Ttl
      BY <2>2 DEF Allowance
    <3>2. now - lostAt[k] < Ttl + Lag
      BY <1>t, <1>i, <1>3, <3>1
    <3> QED  BY <2>1, <3>2 DEF k
  <2>3. CASE Held(r)
    <3>1. since[r] <= lostAt[k]
      BY <1>3, <2>3 DEF AgeInv, HeldOK, k
    <3>2. now <= since[r] + Lag
      BY <2>3, HeldKey DEF AgeInv, CallOK
    <3>3. now - lostAt[k] < Ttl + Lag
      BY <1>t, <3>1, <3>2
    <3> QED  BY <2>1, <3>3 DEF k
  <2>4. CASE answer[r] = "failed" /\ LeansOn(k)
    <3>1. entries[k] # Nothing /\ now - entries[k] < Grace /\ k[2] \in ReadOnly
      BY <2>4 DEF LeansOn, Allowance
    <3>2. now - lostAt[k] < Grace + Lag
      BY <1>t, <1>i, <1>3, <3>1
    <3> QED  BY <2>1, <2>4, <3>1, <3>2 DEF k
  <2> QED  BY <2>2, <2>3, <2>4, PassStep DEF Served, k
<1> QED  BY <1>2, <1>3

LEMMA AgeStep ==
  ASSUME TypeInv, AgeInv, [Next]_vars
  PROVE  AgeInv'
<1>1. StoredOK' /\ CallOK' /\ HeldOK'
  BY StoredStep, CallOKStep, HeldOKStep
<1> QED  BY <1>1 DEF AgeInv

LEMMA AgeInit == Init => AgeInv
<1> SUFFICES ASSUME Init PROVE AgeInv
  OBVIOUS
<1>1. StoredOK
  BY DEF Init, StoredOK
<1>2. CallOK /\ HeldOK
  BY DEF Init, CallOK, HeldOK, Held, Calls
<1> QED  BY <1>1, <1>2 DEF AgeInv

\* With every interleaving of requests, losses and grants and of answers that
\* take up to Lag: no check passes on a permission lost CACHE_TTL and one call
\* ago, and only a read of an unreachable Auth passes on an older one, up to
\* CACHE_GRACE and one call.
THEOREM RevocationAlwaysBites == Spec => RevocationBites
<1>1. Init => TypeInv /\ AgeInv
  BY TypeInit, AgeInit
<1>2. TypeInv /\ AgeInv /\ [Next]_vars => TypeInv' /\ AgeInv'
  BY TypeStep, AgeStep
<1> DEFINE Bite == \A r \in Requests : Waits(r) /\ pc'[r] \in {"deliver", "finish"} =>
                     \/ Age(KeyAt(r)) < Ttl + Lag
                     \/ /\ answer[r] = "failed"
                        /\ KeyAt(r)[2] \in ReadOnly
                        /\ Age(KeyAt(r)) < Grace + Lag
<1>3. TypeInv /\ AgeInv /\ [Next]_vars => [Bite]_vars
  <2>1. TypeInv /\ AgeInv /\ [Next]_vars => Bite
    BY Bites
  <2> HIDE DEF Bite
  <2> QED  BY <2>1
<1> QED  BY <1>1, <1>2, <1>3, PTL DEF Spec, RevocationBites

-----------------------------------------------------------------------------
(* SampledOncePerWindow *)

\* A pair whose last read is not past the window is still in the table.
SampleInv == \A p \in Pairs : readAt[p] # Nothing =>
  /\ readAt[p] <= now
  /\ last[p] = readAt[p] \/ now - readAt[p] >= Window

\* Only a shadow read touches the table.
Sampled ==
  \/ UNCHANGED <<last, readAt>> /\ \A q \in Requests : reading'[q] => reading[q]
  \/ \E r \in Requests : ShadowReads(r)

LEMMA SamplerStep ==
  ASSUME TypeInv, [Next]_vars
  PROVE  Sampled
<1>1. ASSUME NEW r \in Requests, NEW rt \in Routes, NEW s \in Scopes, NEW i \in Inputs, Arrive(r, rt, s, i)
      PROVE  Sampled
  BY <1>1 DEF Arrive, sampler, Sampled
<1>2. ASSUME NEW r \in Requests, GateRefuses(r) PROVE Sampled
  BY <1>2 DEF GateRefuses, sampler, Sampled
<1>3. ASSUME NEW r \in Requests, GateWaves(r) PROVE Sampled
  BY <1>3 DEF GateWaves, sampler, Sampled
<1>4. ASSUME NEW r \in Requests, GateChecks(r) PROVE Sampled
  BY <1>4 DEF GateChecks, FromCache, AskAuth, sampler, Sampled
<1>5. ASSUME NEW r \in Requests, NEW a \in {"allowed", "denied", "failed"}, AuthDecides(r, a)
      PROVE  Sampled
  BY <1>5 DEF AuthDecides, sampler, Sampled
<1>6. ASSUME NEW r \in Requests, AuthAllows(r) PROVE Sampled
  BY <1>6 DEF AuthAllows, sampler, Sampled
<1>7. ASSUME NEW r \in Requests, ServedStale(r) PROVE Sampled
  BY <1>7 DEF ServedStale, sampler, Sampled
<1>8. ASSUME NEW r \in Requests, AuthRefuses(r) PROVE Sampled
  BY <1>8 DEF AuthRefuses, sampler, Sampled
<1>9. ASSUME NEW r \in Requests, DeliveryExempt(r) PROVE Sampled
  BY <1>9 DEF DeliveryExempt, sampler, Sampled
<1>10. ASSUME NEW r \in Requests, DeliveryRefuses(r) PROVE Sampled
  BY <1>10 DEF DeliveryRefuses, sampler, Sampled
<1>11. ASSUME NEW r \in Requests, ReadCore(r) PROVE Sampled
  BY <1>11 DEF ReadCore, sampler, Sampled
<1>12. ASSUME NEW r \in Requests, NEW missing, CoreDecides(r, missing)
      PROVE  Sampled
  BY <1>12 DEF CoreDecides, sampler, Sampled
<1>13. ASSUME NEW r \in Requests, CoreFails(r) PROVE Sampled
  BY <1>13 DEF CoreFails, sampler, Sampled
<1>14. ASSUME NEW r \in Requests, CoreAnswers(r) PROVE Sampled
  BY <1>14 DEF CoreAnswers, sampler, Sampled
<1>15. ASSUME NEW r \in Requests, ShadowSkips(r) PROVE Sampled
  BY <1>15 DEF ShadowSkips, sampler, Sampled
<1>16. ASSUME NEW r \in Requests, ShadowReads(r) PROVE Sampled
  BY <1>16 DEF Sampled
<1>17. ASSUME NEW r \in Requests, ShadowAnswers(r) PROVE Sampled
  BY <1>17 DEF ShadowAnswers, Sampled, sampler, TypeInv, TypeOK
<1>18. ASSUME NEW r \in Requests, TokenRefused(r) PROVE Sampled
  BY <1>18 DEF TokenRefused, sampler, Sampled
<1>19. ASSUME NEW r \in Requests, Handle(r) PROVE Sampled
  BY <1>19 DEF Handle, sampler, Sampled
<1>20. ASSUME NEW r \in Requests, CaseChecks(r) PROVE Sampled
  BY <1>20 DEF CaseChecks, FromCache, AskAuth, sampler, Sampled
<1>21. ASSUME NEW r \in Requests, Finish(r) PROVE Sampled
  BY <1>21 DEF Finish, Sampled, sampler, TypeInv, TypeOK
<1>22. ASSUME NEW k \in Keys, Grant(k) PROVE Sampled
  BY <1>22 DEF Grant, sampler, Sampled
<1>23. ASSUME NEW k \in Keys, RevokeElsewhere(k) PROVE Sampled
  BY <1>23 DEF RevokeElsewhere, Lose, sampler, Sampled
<1>24. ASSUME NEW k \in Keys, ScreenRevokes(k) PROVE Sampled
  BY <1>24 DEF ScreenRevokes, Lose, sampler, Sampled
<1>25. CASE ScreenAnswered
  BY <1>25 DEF ScreenAnswered, sampler, Sampled
<1>26. CASE ScreenLost
  BY <1>26 DEF ScreenLost, sampler, Sampled
<1>27. ASSUME NEW f \in Features, NEW v \in {"on", "off"}, ChangePlan(f, v)
      PROVE  Sampled
  BY <1>27 DEF ChangePlan, sampler, Sampled
<1>28. CASE Tick
  BY <1>28 DEF Tick, sampler, Sampled
<1>29. CASE UNCHANGED vars
  BY <1>29 DEF vars, Sampled
<1> QED
  BY <1>1, <1>2, <1>3, <1>4, <1>5, <1>6, <1>7, <1>8, <1>9, <1>10,
     <1>11, <1>12, <1>13, <1>14, <1>15, <1>16, <1>17, <1>18, <1>19, <1>20,
     <1>21, <1>22, <1>23, <1>24, <1>25, <1>26, <1>27, <1>28, <1>29
     DEF Next, Proceed, Others

LEMMA SampleStep ==
  ASSUME TypeInv, SampleInv, [Next]_vars
  PROVE  SampleInv'
<1> SUFFICES ASSUME NEW p \in Pairs, readAt'[p] # Nothing
             PROVE  /\ readAt'[p] <= now'
                    /\ last'[p] = readAt'[p] \/ now' - readAt'[p] >= Window
  BY DEF SampleInv
<1>t. /\ now \in Nat /\ Window \in Nat /\ (readAt[p] \in Nat \/ readAt[p] = Nothing)
      /\ last[p] \in Nat \/ last[p] = Nothing
  BY TimesAssumption DEF TypeInv, TypeOK, Time
<1>i. readAt[p] # Nothing =>
        /\ readAt[p] <= now
        /\ last[p] = readAt[p] \/ now - readAt[p] >= Window
  BY DEF SampleInv
<1>1. CASE UNCHANGED <<last, readAt>>
  <2>1. now' = now \/ now' = now + 1
    BY ClockStep DEF Tick
  <2> QED  BY <1>t, <1>i, <1>1, <2>1
<1>2. ASSUME NEW r \in Requests, ShadowReads(r)
      PROVE  /\ readAt'[p] <= now'
             /\ last'[p] = readAt'[p] \/ now' - readAt'[p] >= Window
  <2> DEFINE o == <<TenantOf[scope[r]], FeatureOf[route[r]]>>
  <2>1. /\ last' = Recorded(o) /\ now' = now
        /\ readAt' = [readAt EXCEPT ![o] = now]
    BY <1>2 DEF ShadowReads, base
  <2> HIDE DEF o
  <2>2. CASE p = o
    <3>1. readAt'[p] = now /\ last'[p] = now
      BY <2>1, <2>2 DEF Recorded, TypeInv, TypeOK
    <3> QED  BY <1>t, <2>1, <3>1
  <2>3. CASE p # o
    <3>1. readAt'[p] = readAt[p]
      BY <2>1, <2>3 DEF TypeInv, TypeOK
    <3>2. last'[p] = last[p] \/ (last'[p] = Nothing /\ ~Fresh(p))
      BY <2>1, <2>3 DEF Recorded
    <3>3. last[p] = readAt[p] /\ ~Fresh(p) => now - readAt[p] >= Window
      BY <1>t, <3>1 DEF Fresh
    <3> QED  BY <1>i, <2>1, <3>1, <3>2, <3>3
  <2> QED  BY <2>2, <2>3
<1> QED  BY SamplerStep, <1>1, <1>2 DEF Sampled

\* Shadow mode reads Core for one tenant and feature at most once per
\* SHADOW_DEDUP_WINDOW, for every size of the table of tracked pairs
\* (DeliverySampler::admit_shadow).
THEOREM SampledOnce == Spec => SampledOncePerWindow
<1>1. Init => TypeInv /\ SampleInv
  BY TypeInit DEF Init, SampleInv
<1>2. TypeInv /\ SampleInv /\ [Next]_vars => TypeInv' /\ SampleInv'
  BY TypeStep, SampleStep
<1> DEFINE At(r) == readAt[<<TenantOf[scope[r]], FeatureOf[route[r]]>>]
           Once == \A r \in Requests : reading'[r] /\ ~reading[r] =>
                     LET at == readAt[<<TenantOf[scope[r]], FeatureOf[route[r]]>>]
                     IN  at = Nothing \/ now - at >= Window
<1>3. TypeInv /\ SampleInv /\ [Next]_vars => [Once]_vars
  <2> SUFFICES ASSUME TypeInv, SampleInv, [Next]_vars,
                      NEW r \in Requests, reading'[r], ~reading[r]
               PROVE  At(r) = Nothing \/ now - At(r) >= Window
    OBVIOUS
  <2>1. PICK q \in Requests : ShadowReads(q)
    BY SamplerStep DEF Sampled
  <2>2. q = r
    BY <2>1 DEF ShadowReads, TypeInv, TypeOK
  <2> DEFINE p == <<TenantOf[scope[r]], FeatureOf[route[r]]>>
  <2>3. p \in Pairs /\ ~Fresh(p)
    <3>1. scope[r] \in Scopes /\ FeatureOf[route[r]] \in Features /\ Admits(p)
      BY <2>1, <2>2 DEF ShadowReads, TypeInv, Situated
    <3> QED  BY <3>1 DEF Pairs, Admits
  <2> HIDE DEF p
  <2>4. /\ now \in Nat /\ Window \in Nat /\ (readAt[p] \in Nat \/ readAt[p] = Nothing)
        /\ readAt[p] # Nothing => last[p] = readAt[p] \/ now - readAt[p] >= Window
    BY <2>3, TimesAssumption DEF TypeInv, TypeOK, Time, SampleInv
  <2>5. readAt[p] = Nothing \/ now - readAt[p] >= Window
    BY <2>3, <2>4 DEF Fresh
  <2> QED  BY <2>5 DEF p
<1> QED  BY <1>1, <1>2, <1>3, PTL DEF Spec, SampledOncePerWindow

-----------------------------------------------------------------------------
(* AdmittedIsProvided *)

\* The plan provides all the route stands on.
Provided(rt) == FeatureOf[rt] \in Features /\ \A g \in Least[rt] : plan[g] = "on"

CoverOK(r) ==
  /\ pc[r] # "idle" /\ Provided(route[r]) => covered[r]
  /\ pc[r] \in {"read", "read_back"} => FeatureOf[route[r]] \in Features /\ input[r] = "plain"
  /\ pc[r] = "read_back" /\ answer[r] = "allowed" => covered[r]
  /\ pc[r] \in Inside /\ enforcement[scope[r]] = "enforce" /\ FeatureOf[route[r]] # "exempt"
       => covered[r] /\ input[r] = "plain"

CoverInv == \A r \in Requests : CoverOK(r)

\* The plan stays and one request steps.
LEMMA AloneCover ==
  ASSUME CoverInv, NEW r \in Requests, Alone(r), UNCHANGED <<plan, enforcement>>, CoverOK(r)'
  PROVE  CoverInv'
<1> SUFFICES ASSUME NEW q \in Requests PROVE CoverOK(q)'
  BY DEF CoverInv
<1>1. CASE q = r
  BY <1>1
<1>2. CASE q # r
  <2>1. CoverOK(q)
    BY DEF CoverInv
  <2>2. /\ pc'[q] = pc[q] /\ route'[q] = route[q] /\ scope'[q] = scope[q]
        /\ input'[q] = input[q] /\ answer'[q] = answer[q] /\ covered'[q] = covered[q]
    BY <1>2 DEF Alone
  <2> QED  BY <2>1, <2>2 DEF CoverOK, Provided
<1> QED  BY <1>1, <1>2

\* The answer to a request closes its case.
LEMMA EndedCover ==
  ASSUME TypeInv, CoverInv, NEW r \in Requests, Ended(r), UNCHANGED <<plan, enforcement>>
  PROVE  CoverInv'
<1>1. Alone(r) /\ pc'[r] = "idle"
  BY EndedType
<1>2. CoverOK(r)'
  BY <1>1 DEF CoverOK, Inside
<1> QED  BY <1>1, <1>2, AloneCover

\* A request that is inside already, or is let in with what it needs, moves on.
LEMMA MovesCover ==
  ASSUME TypeInv, CoverInv, NEW r \in Requests, NEW to \in Inside \cup {"deliver"}, Moves(r, to),
         to \notin Calls, pc[r] # "idle", UNCHANGED <<plan, enforcement>>,
         \/ to = "deliver"
         \/ pc[r] \in Inside
         \/ enforcement[scope[r]] # "enforce"
         \/ FeatureOf[route[r]] = "exempt"
         \/ covered[r] /\ input[r] = "plain"
  PROVE  CoverInv'
<1>1. Alone(r) /\ pc'[r] = to
  BY MovesType DEF Places, Inside, Calls
<1>2. UNCHANGED local
  BY DEF Moves
<1>3. CoverOK(r)
  BY DEF CoverInv
<1>4. CoverOK(r)'
  BY <1>1, <1>2, <1>3 DEF CoverOK, Provided, Inside, local
<1> QED  BY <1>1, <1>4, AloneCover

\* A check that is begun or passed keeps a request where it is, outside or in.
LEMMA CheckCover ==
  ASSUME TypeInv, CoverInv, NEW r \in Requests, Alone(r), pc[r] # "idle",
         pc'[r] \notin {"read", "read_back"}, pc'[r] \in Inside => pc[r] \in Inside,
         UNCHANGED <<plan, enforcement, route, scope, input, covered>>
  PROVE  CoverInv'
<1>1. CoverOK(r)
  BY DEF CoverInv
<1>2. CoverOK(r)'
  BY <1>1 DEF CoverOK, Provided
<1> QED  BY <1>2, AloneCover

\* No request steps and the plan stays.
LEMMA StillCover ==
  ASSUME CoverInv, UNCHANGED <<plan, enforcement, pc, route, scope, input, answer, covered>>
  PROVE  CoverInv'
  BY DEF CoverInv, CoverOK, Provided

LEMMA CoverStep ==
  ASSUME TypeInv, CoverInv, [Next]_vars
  PROVE  CoverInv'
<1>1. ASSUME NEW r \in Requests, NEW rt \in Routes, NEW s \in Scopes, NEW i \in Inputs, Arrive(r, rt, s, i)
      PROVE  CoverInv'
  <2>1. Alone(r)
    BY <1>1 DEF Arrive, Alone, TypeInv, TypeOK
  <2>2. /\ pc'[r] = "gate" /\ route'[r] = rt /\ UNCHANGED <<plan, enforcement>>
        /\ covered'[r] = (FeatureOf[rt] \in Features /\ \A g \in Least[rt] : plan[g] = "on")
    BY <1>1 DEF Arrive, TypeInv, TypeOK, outside
  <2>3. CoverOK(r)'
    BY <2>2 DEF CoverOK, Provided, Inside
  <2> QED  BY <2>1, <2>2, <2>3, AloneCover
<1>2. ASSUME NEW r \in Requests, GateRefuses(r) PROVE CoverInv'
  BY <1>2, EndedCover DEF GateRefuses, base, outside
<1>3. ASSUME NEW r \in Requests, GateWaves(r) PROVE CoverInv'
  BY <1>3, MovesCover DEF GateWaves, Inside, Calls, base, outside
<1>4. ASSUME NEW r \in Requests, GateChecks(r) PROVE CoverInv'
  <2>1. CASE FromCache(r)
    <3>1. Alone(r) /\ pc'[r] = IF AtGate(r) THEN "deliver" ELSE "finish"
      BY <1>4, <2>1, PassedType DEF GateChecks, FromCache
    <3> QED  BY <1>4, <2>1, <3>1, CheckCover
             DEF GateChecks, FromCache, Passed, AtGate, Inside, asked, base, outside
  <2>2. CASE AskAuth(r)
    <3>1. Alone(r) /\ pc'[r] = IF AtGate(r) THEN "asked" ELSE "case_asked"
      BY <1>4, <2>2, AskAuthType DEF GateChecks
    <3> QED  BY <1>4, <2>2, <3>1, CheckCover DEF GateChecks, AskAuth, AtGate, Inside, asked, base, outside
  <2> QED  BY <1>4, <2>1, <2>2 DEF GateChecks
<1>5. ASSUME NEW r \in Requests, NEW a \in {"allowed", "denied", "failed"}, AuthDecides(r, a)
      PROVE  CoverInv'
  <2>1. Alone(r) /\ pc'[r] = IF AtGate(r) THEN "back" ELSE "case_back"
    BY <1>5 DEF AuthDecides, asked, Alone, TypeInv, TypeOK
  <2> QED  BY <1>5, <2>1, CheckCover DEF AuthDecides, AtGate, Inside, asked, base, outside
<1>6. ASSUME NEW r \in Requests, AuthAllows(r) PROVE CoverInv'
  <2>1. Alone(r) /\ pc'[r] = IF AtGate(r) THEN "deliver" ELSE "finish"
    BY <1>6, PassedType DEF AuthAllows
  <2> QED  BY <1>6, <2>1, CheckCover DEF AuthAllows, Passed, AtGate, Inside, asked, base, outside
<1>7. ASSUME NEW r \in Requests, ServedStale(r) PROVE CoverInv'
  <2>1. Alone(r) /\ pc'[r] = IF AtGate(r) THEN "deliver" ELSE "finish"
    BY <1>7, PassedType DEF ServedStale
  <2> QED  BY <1>7, <2>1, CheckCover DEF ServedStale, Passed, AtGate, Inside, asked, base, outside
<1>8. ASSUME NEW r \in Requests, AuthRefuses(r) PROVE CoverInv'
  <2>1. CASE AtGate(r)
    BY <1>8, <2>1, EndedCover DEF AuthRefuses, base, outside
  <2>2. CASE ~AtGate(r)
    BY <1>8, <2>2, MovesCover DEF AuthRefuses, Inside, Calls, AtGate, base, outside
  <2> QED  BY <2>1, <2>2
<1>9. ASSUME NEW r \in Requests, DeliveryExempt(r) PROVE CoverInv'
  BY <1>9, MovesCover DEF DeliveryExempt, Inside, Calls, base, outside
<1>10. ASSUME NEW r \in Requests, DeliveryRefuses(r) PROVE CoverInv'
  BY <1>10, EndedCover DEF DeliveryRefuses, base, outside
<1>11. ASSUME NEW r \in Requests, ReadCore(r) PROVE CoverInv'
  <2>1. Alone(r) /\ pc'[r] = "read"
    BY <1>11, MovesType DEF ReadCore, Places
  <2>2. CoverOK(r) /\ UNCHANGED <<route, scope, input, covered, plan, enforcement>>
    BY <1>11 DEF CoverInv, ReadCore, Moves, local, base, outside
  <2>3. CoverOK(r)'
    BY <1>11, <2>1, <2>2 DEF CoverOK, Provided, Inside, ReadCore
  <2> QED  BY <2>1, <2>2, <2>3, AloneCover
<1>12. ASSUME NEW r \in Requests, NEW missing, CoreDecides(r, missing)
      PROVE  CoverInv'
  <2>1. /\ Alone(r) /\ pc'[r] = "read_back"
        /\ UNCHANGED <<route, scope, input, covered, plan, enforcement>>
    BY <1>12 DEF CoreDecides, asked, Alone, TypeInv, TypeOK, base, outside
  <2>2. CoverOK(r) /\ pc[r] = "read" /\ route[r] \in Routes
    BY <1>12 DEF CoverInv, CoreDecides, TypeInv, Situated
  <2>3. FeatureOf[route[r]] \in Features /\ input[r] = "plain"
    BY <2>2 DEF CoverOK
  <2>4. answer'[r] = "allowed" => covered[r]
    <3> SUFFICES ASSUME answer'[r] = "allowed" PROVE covered[r]
      OBVIOUS
    <3>1. Evaluate(Needed(route[r]), [f \in Features \ missing |-> plan[f]])
      BY <1>12 DEF CoreDecides, TypeInv, TypeOK
    <3>2. \A f \in Needed(route[r]) : plan[f] = "on"
      BY <3>1 DEF Evaluate
    <3>3. Provided(route[r])
      BY <2>2, <2>3, <3>2, LeastIsNeeded DEF Provided
    <3> QED  BY <2>2, <3>3 DEF CoverOK
  <2>5. CoverOK(r)'
    BY <2>1, <2>2, <2>3, <2>4 DEF CoverOK, Provided, Inside
  <2> QED  BY <2>1, <2>5, AloneCover
<1>13. ASSUME NEW r \in Requests, CoreFails(r) PROVE CoverInv'
  BY <1>13, EndedCover DEF CoreFails, base, outside
<1>14. ASSUME NEW r \in Requests, CoreAnswers(r) PROVE CoverInv'
  <2>1. CASE answer[r] = "allowed"
    <3>1. covered[r] /\ input[r] = "plain"
      BY <1>14, <2>1 DEF CoreAnswers, CoverInv, CoverOK
    <3> QED  BY <1>14, <2>1, <3>1, MovesCover DEF CoreAnswers, Inside, Calls, base, outside
  <2>2. CASE answer[r] # "allowed"
    BY <1>14, <2>2, EndedCover DEF CoreAnswers, base, outside
  <2> QED  BY <2>1, <2>2
<1>15. ASSUME NEW r \in Requests, ShadowSkips(r) PROVE CoverInv'
  BY <1>15, MovesCover DEF ShadowSkips, Inside, Calls, base, outside
<1>16. ASSUME NEW r \in Requests, ShadowReads(r) PROVE CoverInv'
  BY <1>16, MovesCover DEF ShadowReads, Inside, Calls, base, outside
<1>17. ASSUME NEW r \in Requests, ShadowAnswers(r) PROVE CoverInv'
  BY <1>17, StillCover DEF ShadowAnswers, base, outside, local
<1>18. ASSUME NEW r \in Requests, TokenRefused(r) PROVE CoverInv'
  BY <1>18, MovesCover DEF TokenRefused, Inside, Calls, base, outside
<1>19. ASSUME NEW r \in Requests, Handle(r) PROVE CoverInv'
  BY <1>19, MovesCover DEF Handle, Admitted, Inside, Calls, base, outside
<1>20. ASSUME NEW r \in Requests, CaseChecks(r) PROVE CoverInv'
  <2>1. CASE FromCache(r)
    <3>1. Alone(r) /\ pc'[r] = IF AtGate(r) THEN "deliver" ELSE "finish"
      BY <1>20, <2>1, PassedType DEF CaseChecks, FromCache, Admitted
    <3> QED  BY <1>20, <2>1, <3>1, CheckCover
             DEF CaseChecks, Admitted, FromCache, Passed, AtGate, Inside, asked, base, outside
  <2>2. CASE AskAuth(r)
    <3>1. Alone(r) /\ pc'[r] = IF AtGate(r) THEN "asked" ELSE "case_asked"
      BY <1>20, <2>2, AskAuthType, CaseIsAction DEF CaseChecks, Admitted
    <3> QED  BY <1>20, <2>2, <3>1, CheckCover DEF CaseChecks, Admitted, AskAuth, AtGate, Inside, asked, base, outside
  <2> QED  BY <1>20, <2>1, <2>2 DEF CaseChecks
<1>21. ASSUME NEW r \in Requests, Finish(r) PROVE CoverInv'
  BY <1>21, EndedCover DEF Finish, base, outside
<1>22. ASSUME NEW k \in Keys, Grant(k) PROVE CoverInv'
  BY <1>22, StillCover DEF Grant, base, outside, local
<1>23. ASSUME NEW k \in Keys, RevokeElsewhere(k) PROVE CoverInv'
  BY <1>23, StillCover DEF RevokeElsewhere, Lose, base, local
<1>24. ASSUME NEW k \in Keys, ScreenRevokes(k) PROVE CoverInv'
  BY <1>24, StillCover DEF ScreenRevokes, Lose, base, local
<1>25. CASE ScreenAnswered
  BY <1>25, StillCover DEF ScreenAnswered, base, outside, local
<1>26. CASE ScreenLost
  BY <1>26, StillCover DEF ScreenLost, base, outside, local
<1>27. ASSUME NEW f \in Features, NEW v \in {"on", "off"}, ChangePlan(f, v)
      PROVE  CoverInv'
  <2> SUFFICES ASSUME NEW q \in Requests PROVE CoverOK(q)'
    BY DEF CoverInv
  <2>1. UNCHANGED <<pc, route, scope, input, answer, enforcement>>
    BY <1>27 DEF ChangePlan, base, asked
  <2>2. covered'[q] = (\/ covered[q]
                       \/ /\ pc[q] # "idle"
                          /\ FeatureOf[route[q]] \in Features
                          /\ \A g \in Least[route[q]] : plan'[g] = "on")
    BY <1>27 DEF ChangePlan
  <2>3. CoverOK(q)
    BY DEF CoverInv
  <2> QED  BY <2>1, <2>2, <2>3 DEF CoverOK, Provided
<1>28. CASE Tick
  BY <1>28, StillCover DEF Tick, base, outside, local
<1>29. CASE UNCHANGED vars
  BY <1>29, StillCover DEF vars
<1> QED
  BY <1>1, <1>2, <1>3, <1>4, <1>5, <1>6, <1>7, <1>8, <1>9, <1>10,
     <1>11, <1>12, <1>13, <1>14, <1>15, <1>16, <1>17, <1>18, <1>19, <1>20,
     <1>21, <1>22, <1>23, <1>24, <1>25, <1>26, <1>27, <1>28, <1>29
     DEF Next, Proceed, Others

\* For every feature catalog, whatever its features require: a request that
\* enforcement lets into its handler had its feature, what its export adds and
\* all they require provided at one moment since it arrived, and a payload that
\* stays inside them (require_feature_delivery, required_closure).
THEOREM AdmittedAlwaysProvided == Spec => []AdmittedIsProvided
<1>1. Init => TypeInv /\ CoverInv
  <2>1. Init => CoverInv
    BY DEF Init, CoverInv, CoverOK, Inside
  <2> QED  BY <2>1, TypeInit
<1>2. TypeInv /\ CoverInv /\ [Next]_vars => TypeInv' /\ CoverInv'
  BY TypeStep, CoverStep
<1>3. CoverInv => AdmittedIsProvided
  BY DEF CoverInv, CoverOK, AdmittedIsProvided
<1> QED  BY <1>1, <1>2, <1>3, PTL DEF Spec

===============================================================================
