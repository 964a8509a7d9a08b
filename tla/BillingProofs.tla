---------------------------- MODULE BillingProofs ----------------------------
(* Proofs about what tenants are charged and allowed: the aggregator of      *)
(* costs and the budgets (CostAllocation), and the quotas (Tenancy), for any *)
(* tenants, budgets, tiers and callers.                                     *)
EXTENDS CostAllocation, Tenancy, FiniteSetTheorems, SequenceTheorems, WellFoundedInduction, TLAPS

-----------------------------------------------------------------------------
(* Sums over finite sets, as FoldSet computes them: it takes the elements   *)
(* away one by one, the one that CHOOSE picks first.                        *)
Chosen(s) == CHOOSE x \in s : TRUE
Summing(it, S, c) ==
    it = [s \in SUBSET S |-> IF s = {} THEN 0 ELSE it[s \ {Chosen(s)}] + c[Chosen(s)]]
Total(S, c) == (CHOOSE it : Summing(it, S, c))[S]

LEMMA SmallestSet ==
    ASSUME NEW S, IsFiniteSet(S), NEW B \in SUBSET (SUBSET S), B # {}
    PROVE  \E s \in B : \A t \in B : t \subseteq s => t = s
<1>1. PICK R : R = StrictSubsetOrdering(S)
  OBVIOUS
<1>2. IsWellFoundedOn(R, FiniteSubsetsOf(S))
  BY <1>1, FS_StrictSubsetOrderingWellFounded
<1>3. B \subseteq FiniteSubsetsOf(S)
  BY FS_Subset DEF FiniteSubsetsOf
<1>4. PICK s \in B : \A t \in B : ~ (<<t, s>> \in R)
  BY <1>2, <1>3, WFMin
<1>5. ASSUME NEW t \in B, t \subseteq s, t # s PROVE FALSE
  BY <1>1, <1>4, <1>5 DEF StrictSubsetOrdering
<1> QED
  BY <1>5

LEMMA ChosenIn == ASSUME NEW s, s # {} PROVE Chosen(s) \in s
  BY DEF Chosen

LEMMA SummingAt ==
    ASSUME NEW S, NEW c, NEW it, Summing(it, S, c), NEW s \in SUBSET S
    PROVE  it[s] = IF s = {} THEN 0 ELSE it[s \ {Chosen(s)}] + c[Chosen(s)]
<1>1. PICK f : f = [t \in SUBSET S |-> IF t = {} THEN 0 ELSE it[t \ {Chosen(t)}] + c[Chosen(t)]]
  OBVIOUS
<1>2. it = f
  BY <1>1 DEF Summing
<1>3. f[s] = IF s = {} THEN 0 ELSE it[s \ {Chosen(s)}] + c[Chosen(s)]
  BY <1>1
<1> QED
  BY <1>2, <1>3

\* Two sums of the same summands are the same.
LEMMA SummingAgree ==
    ASSUME NEW S, IsFiniteSet(S), NEW T, NEW c, NEW d, NEW it, NEW jt,
           Summing(it, S, c), Summing(jt, T, d),
           NEW s \in SUBSET S, s \subseteq T, \A x \in s : c[x] = d[x]
    PROVE  it[s] = jt[s]
<1>1. PICK B : B = {t \in SUBSET S : t \subseteq s /\ it[t] # jt[t]}
  OBVIOUS
<1>2. ASSUME NEW t \in B, \A u \in B : u \subseteq t => u = t PROVE FALSE
  <2>1. t \in SUBSET S /\ t \in SUBSET T /\ t \subseteq s /\ it[t] # jt[t]
    BY <1>1
  <2>2. /\ it[t] = IF t = {} THEN 0 ELSE it[t \ {Chosen(t)}] + c[Chosen(t)]
        /\ jt[t] = IF t = {} THEN 0 ELSE jt[t \ {Chosen(t)}] + d[Chosen(t)]
    BY <2>1, SummingAt
  <2>3. t # {} /\ Chosen(t) \in t
    BY <2>1, <2>2, ChosenIn
  <2>4. it[t \ {Chosen(t)}] = jt[t \ {Chosen(t)}]
    BY <1>1, <1>2, <2>1, <2>3
  <2> QED
    BY <2>1, <2>2, <2>3, <2>4
<1>3. B = {}
  <2>1. B \in SUBSET (SUBSET S)
    BY <1>1
  <2>2. ~ \E u \in B : \A t \in B : t \subseteq u => t = u
    BY <1>2
  <2> QED
    BY <2>1, <2>2, SmallestSet
<1> QED
  BY <1>1, <1>3

LEMMA SummingExists ==
    ASSUME NEW S, IsFiniteSet(S), NEW c
    PROVE  \E it : Summing(it, S, c)
<1>1. PICK B : B = {s \in SUBSET S : \A it : ~ Summing(it, s, c)}
  OBVIOUS
<1>2. ASSUME NEW s \in B, \A t \in B : t \subseteq s => t = s PROVE FALSE
  <2>1. s \in SUBSET S /\ \A it : ~ Summing(it, s, c)
    BY <1>1
  <2>2. ASSUME NEW t \in SUBSET s, t # s PROVE \E k : Summing(k, t, c) /\ Total(t, c) = k[t]
    <3>1. \E k : Summing(k, t, c)
      BY <1>1, <1>2, <2>1, <2>2
    <3> QED
      BY <3>1 DEF Total
  <2>3. PICK it : it = [t \in SUBSET s |->
            IF t # s THEN Total(t, c) ELSE IF s = {} THEN 0 ELSE Total(s \ {Chosen(s)}, c) + c[Chosen(s)]]
    OBVIOUS
  <2>4. ASSUME NEW t \in SUBSET s
        PROVE  it[t] = IF t = {} THEN 0 ELSE it[t \ {Chosen(t)}] + c[Chosen(t)]
    <3>1. CASE t = {}
      <4>1. CASE t = s
        BY <2>3, <3>1, <4>1
      <4>2. CASE t # s
        <5>1. PICK k : Summing(k, t, c) /\ Total(t, c) = k[t]
          BY <2>2, <4>2
        <5>2. k[t] = 0
          BY <3>1, <5>1, SummingAt
        <5> QED
          BY <2>3, <3>1, <4>2, <5>1, <5>2
      <4> QED
        BY <4>1, <4>2
    <3>2. CASE t # {}
      <4>1. PICK u : u = t \ {Chosen(t)}
        OBVIOUS
      <4>2. u \in SUBSET s /\ u # t /\ u \subseteq t /\ u # s
        BY <3>2, <4>1, ChosenIn
      <4>3. it[u] = Total(u, c)
        BY <2>3, <4>2
      <4>4. CASE t = s
        BY <2>3, <3>2, <4>1, <4>3, <4>4
      <4>5. CASE t # s
        <5>1. PICK k : Summing(k, t, c) /\ Total(t, c) = k[t]
          BY <2>2, <4>5
        <5>2. PICK l : Summing(l, u, c) /\ Total(u, c) = l[u]
          BY <2>2, <4>2
        <5>3. k[t] = k[u] + c[Chosen(t)]
          BY <3>2, <4>1, <5>1, SummingAt
        <5>4. IsFiniteSet(u)
          BY <2>1, <4>2, FS_Subset
        <5>5. l[u] = k[u]
          BY <4>2, <5>1, <5>2, <5>4, SummingAgree
        <5>6. it[t] = Total(t, c)
          BY <2>3, <4>5
        <5> QED
          BY <3>2, <4>1, <4>3, <5>1, <5>2, <5>3, <5>5, <5>6
      <4> QED
        BY <4>4, <4>5
    <3> QED
      BY <3>1, <3>2
  <2>5. Summing(it, s, c)
    <3>1. PICK g : g = [t \in SUBSET s |-> IF t = {} THEN 0 ELSE it[t \ {Chosen(t)}] + c[Chosen(t)]]
      OBVIOUS
    <3>2. \A t \in SUBSET s : g[t] = it[t]
      BY <2>4, <3>1
    <3>3. g = it
      <4>1. PICK h : h = [t \in SUBSET s |-> g[t]]
        OBVIOUS
      <4>2. h = g
        BY <3>1, <4>1
      <4>3. h = it
        BY <2>3, <3>2, <4>1
      <4> QED
        BY <4>2, <4>3
    <3> QED
      BY <3>1, <3>3 DEF Summing
  <2> QED
    BY <2>1, <2>5
<1>3. B = {}
  <2>1. B \in SUBSET (SUBSET S)
    BY <1>1
  <2>2. ~ \E s \in B : \A t \in B : t \subseteq s => t = s
    BY <1>2
  <2> QED
    BY <2>1, <2>2, SmallestSet
<1> QED
  BY <1>1, <1>3

\* Whatever adds them up so, makes the total.
LEMMA TotalIs ==
    ASSUME NEW S, IsFiniteSet(S), NEW c, NEW T, NEW d, NEW it, Summing(it, T, d),
           S \subseteq T, \A x \in S : c[x] = d[x]
    PROVE  it[S] = Total(S, c)
<1>1. PICK k : Summing(k, S, c) /\ Total(S, c) = k[S]
  <2>1. \E k : Summing(k, S, c)
    BY SummingExists
  <2> QED
    BY <2>1 DEF Total
<1> QED
  BY <1>1, SummingAgree

LEMMA SameTotal ==
    ASSUME NEW S, IsFiniteSet(S), NEW c, NEW d, \A x \in S : c[x] = d[x]
    PROVE  Total(S, c) = Total(S, d)
<1>1. PICK k : Summing(k, S, d) /\ Total(S, d) = k[S]
  <2>1. \E k : Summing(k, S, d)
    BY SummingExists
  <2> QED
    BY <2>1 DEF Total
<1> QED
  BY <1>1, TotalIs

LEMMA NoTotal == ASSUME NEW c PROVE Total({}, c) = 0
<1>1. IsFiniteSet({})
  BY FS_EmptySet
<1>2. PICK k : Summing(k, {}, c) /\ Total({}, c) = k[{}]
  <2>1. \E k : Summing(k, {}, c)
    BY <1>1, SummingExists
  <2> QED
    BY <2>1 DEF Total
<1> QED
  BY <1>2, SummingAt

\* Every summand counts, whichever is picked first.
LEMMA TotalPicks ==
    ASSUME NEW S, IsFiniteSet(S), S # {}, NEW c
    PROVE  Total(S, c) = Total(S \ {Chosen(S)}, c) + c[Chosen(S)]
<1>1. PICK k : Summing(k, S, c) /\ Total(S, c) = k[S]
  <2>1. \E k : Summing(k, S, c)
    BY SummingExists
  <2> QED
    BY <2>1 DEF Total
<1>2. PICK u : u = S \ {Chosen(S)}
  OBVIOUS
<1>3. k[S] = k[u] + c[Chosen(S)]
  BY <1>1, <1>2, SummingAt
<1>4. u \subseteq S /\ IsFiniteSet(u)
  BY <1>2, FS_Subset
<1>5. k[u] = Total(u, c)
  BY <1>1, <1>4, TotalIs
<1> QED
  BY <1>1, <1>2, <1>3, <1>5

LEMMA TotalIsNat ==
    ASSUME NEW S, IsFiniteSet(S), NEW c, \A x \in S : c[x] \in Nat
    PROVE  Total(S, c) \in Nat
<1>1. PICK B : B = {s \in SUBSET S : Total(s, c) \notin Nat}
  OBVIOUS
<1>2. ASSUME NEW s \in B, \A t \in B : t \subseteq s => t = s PROVE FALSE
  <2>1. s \in SUBSET S /\ IsFiniteSet(s) /\ Total(s, c) \notin Nat
    BY <1>1, FS_Subset
  <2>2. s # {} /\ Chosen(s) \in s
    BY <2>1, NoTotal, ChosenIn
  <2>3. PICK u : u = s \ {Chosen(s)}
    OBVIOUS
  <2>4. Total(u, c) \in Nat
    BY <1>1, <1>2, <2>1, <2>2, <2>3
  <2>5. Total(s, c) = Total(u, c) + c[Chosen(s)]
    BY <2>1, <2>2, <2>3, TotalPicks
  <2>6. c[Chosen(s)] \in Nat
    BY <2>1, <2>2
  <2> QED
    BY <2>1, <2>4, <2>5, <2>6
<1>3. B = {}
  <2>1. B \in SUBSET (SUBSET S)
    BY <1>1
  <2>2. ~ \E s \in B : \A t \in B : t \subseteq s => t = s
    BY <1>2
  <2> QED
    BY <2>1, <2>2, SmallestSet
<1> QED
  BY <1>1, <1>3

LEMMA TotalWithout ==
    ASSUME NEW S, IsFiniteSet(S), NEW c, \A x \in S : c[x] \in Nat, NEW x \in S
    PROVE  Total(S, c) = Total(S \ {x}, c) + c[x]
<1>1. PICK B : B = {s \in SUBSET S : \E z \in s : Total(s, c) # Total(s \ {z}, c) + c[z]}
  OBVIOUS
<1>2. ASSUME NEW s \in B, \A t \in B : t \subseteq s => t = s PROVE FALSE
  <2>1. s \in SUBSET S /\ IsFiniteSet(s)
    BY <1>1, FS_Subset
  <2>2. PICK z \in s : Total(s, c) # Total(s \ {z}, c) + c[z]
    BY <1>1
  <2>3. PICK y : y = Chosen(s)
    OBVIOUS
  <2>4. y \in s /\ Total(s, c) = Total(s \ {y}, c) + c[y]
    BY <2>1, <2>2, <2>3, ChosenIn, TotalPicks
  <2>5. y # z
    BY <2>2, <2>4
  <2>6. PICK a, b, u : a = s \ {y} /\ b = s \ {z} /\ u = s \ {y, z}
    OBVIOUS
  <2>7. /\ a \in SUBSET S /\ b \in SUBSET S /\ a # s /\ b # s /\ z \in a /\ y \in b
        /\ a \subseteq s /\ b \subseteq s /\ a \ {z} = u /\ b \ {y} = u /\ u \in SUBSET S
    BY <2>1, <2>2, <2>4, <2>5, <2>6
  <2>8. a \notin B /\ b \notin B
    BY <1>2, <2>7
  <2>9. Total(a, c) = Total(u, c) + c[z] /\ Total(b, c) = Total(u, c) + c[y]
    BY <1>1, <2>7, <2>8
  <2>10. Total(u, c) \in Nat /\ c[z] \in Nat /\ c[y] \in Nat
    <3>1. IsFiniteSet(u)
      BY <2>7, FS_Subset
    <3> QED
      BY <2>1, <2>2, <2>4, <2>7, <3>1, TotalIsNat
  <2> QED
    BY <2>2, <2>4, <2>6, <2>9, <2>10
<1>3. B = {}
  <2>1. B \in SUBSET (SUBSET S)
    BY <1>1
  <2>2. ~ \E s \in B : \A t \in B : t \subseteq s => t = s
    BY <1>2
  <2> QED
    BY <2>1, <2>2, SmallestSet
<1> QED
  BY <1>1, <1>3

LEMMA TotalGrows ==
    ASSUME NEW S, IsFiniteSet(S), NEW c, \A x \in S : c[x] \in Nat, NEW T \in SUBSET S
    PROVE  Total(T, c) <= Total(S, c)
<1>1. PICK B : B = {s \in SUBSET S : T \subseteq s /\ ~ (Total(T, c) <= Total(s, c))}
  OBVIOUS
<1>2. ASSUME NEW s \in B, \A t \in B : t \subseteq s => t = s PROVE FALSE
  <2>1. s \in SUBSET S /\ T \subseteq s /\ ~ (Total(T, c) <= Total(s, c))
    BY <1>1
  <2>2. Total(T, c) \in Nat /\ Total(s, c) \in Nat /\ IsFiniteSet(s)
    <3>1. IsFiniteSet(T) /\ IsFiniteSet(s)
      BY <2>1, FS_Subset
    <3> QED
      BY <2>1, <3>1, TotalIsNat
  <2>3. s # T
    BY <2>1, <2>2
  <2>4. PICK z : z \in s /\ z \notin T
    BY <2>1, <2>3
  <2>5. PICK u : u = s \ {z}
    OBVIOUS
  <2>6. u \in SUBSET S /\ T \subseteq u /\ u \subseteq s /\ u # s
    BY <2>1, <2>4, <2>5
  <2>7. Total(T, c) <= Total(u, c)
    BY <1>1, <1>2, <2>6
  <2>8. Total(s, c) = Total(u, c) + c[z]
    BY <2>1, <2>2, <2>4, <2>5, TotalWithout
  <2>9. Total(u, c) \in Nat /\ c[z] \in Nat
    <3>1. IsFiniteSet(u)
      BY <2>6, FS_Subset
    <3> QED
      BY <2>1, <2>4, <2>6, <3>1, TotalIsNat
  <2> QED
    BY <2>1, <2>2, <2>7, <2>8, <2>9
<1>3. B = {}
  <2>1. B \in SUBSET (SUBSET S)
    BY <1>1
  <2>2. ~ \E s \in B : \A t \in B : t \subseteq s => t = s
    BY <1>2
  <2> QED
    BY <2>1, <2>2, SmallestSet
<1> QED
  BY <1>1, <1>3
LEMMA TotalRises ==
    ASSUME NEW S, IsFiniteSet(S), NEW c, NEW d, \A x \in S : c[x] \in Nat /\ d[x] \in Nat /\ c[x] <= d[x]
    PROVE  Total(S, c) <= Total(S, d)
<1>1. PICK B : B = {s \in SUBSET S : ~ (Total(s, c) <= Total(s, d))}
  OBVIOUS
<1>2. ASSUME NEW s \in B, \A t \in B : t \subseteq s => t = s PROVE FALSE
  <2>1. s \in SUBSET S /\ IsFiniteSet(s) /\ ~ (Total(s, c) <= Total(s, d))
    BY <1>1, FS_Subset
  <2>2. s # {}
    BY <2>1, NoTotal
  <2>3. PICK z : z \in s
    BY <2>2
  <2>4. PICK u : u = s \ {z}
    OBVIOUS
  <2>5. u \in SUBSET S /\ u \subseteq s /\ u # s /\ IsFiniteSet(u)
    BY <2>1, <2>3, <2>4, FS_Subset
  <2>6. Total(u, c) <= Total(u, d)
    BY <1>1, <1>2, <2>5
  <2>7. Total(s, c) = Total(u, c) + c[z] /\ Total(s, d) = Total(u, d) + d[z]
    <3>1. \A x \in s : c[x] \in Nat /\ d[x] \in Nat
      BY <2>1
    <3> QED
      BY <2>1, <2>3, <2>4, <3>1, TotalWithout
  <2>8. Total(u, c) \in Nat /\ Total(u, d) \in Nat
    BY <2>5, TotalIsNat
  <2>9. c[z] \in Nat /\ d[z] \in Nat /\ c[z] <= d[z]
    BY <2>1, <2>3
  <2> QED
    BY <2>1, <2>6, <2>7, <2>8, <2>9
<1>3. B = {}
  <2>1. B \in SUBSET (SUBSET S)
    BY <1>1
  <2>2. ~ \E s \in B : \A t \in B : t \subseteq s => t = s
    BY <1>2
  <2> QED
    BY <2>1, <2>2, SmallestSet
<1> QED
  BY <1>1, <1>3

LEMMA LeastOf ==
    ASSUME NEW D \in SUBSET Nat, D # {}
    PROVE  \E x \in D : \A y \in D : x <= y
<1>1. PICK R : R = OpToRel(<, Nat)
  OBVIOUS
<1>2. IsWellFoundedOn(R, Nat)
  BY <1>1, NatLessThanWellFounded
<1>3. \E x \in D : \A y \in D : ~ (<<y, x>> \in R)
  <2>1. D \subseteq Nat
    OBVIOUS
  <2> QED
    BY <1>2, <2>1, WFMin
<1>4. PICK x \in D : \A y \in D : <<y, x>> \notin R
  BY <1>3
<1>5. ASSUME NEW y \in D PROVE x <= y
  <2>1. x \in Nat /\ y \in Nat
    OBVIOUS
  <2>2. y < x => <<y, x>> \in R
    BY <1>1, <2>1 DEF OpToRel
  <2> QED
    BY <1>4, <2>1, <2>2
<1> QED
  BY <1>5

Spending == [tenant : Range(Payers), cost : Costs, timestamp : Nat]
Thresholds == [dimension : GroupBy, limit : Limits, window : Windows, since : Nat]
AggregatorTypes ==
    /\ now \in 0 .. MaxNow
    /\ made \subseteq Spending
    /\ events \in Seq(Spending)
    /\ thresholds \subseteq Thresholds

\* What the threshold th adds up when the event i of the log is recorded.
Prior(log, i, th) ==
    {j \in 1 .. i : /\ log[j].timestamp \in log[i].timestamp - th.window .. log[i].timestamp
                    /\ KeyFor(log[j], th.dimension) = KeyFor(log[i], th.dimension)}
Raised(log, th, told) ==
    \A i \in DOMAIN log :
        i > th.since /\ CostOf(log, Prior(log, i, th)) > th.limit =>
          Alert(th.dimension, KeyFor(log[i], th.dimension), th.limit) \in told

AggregatorInv ==
    /\ AggregatorTypes
    /\ \A e \in made : e.timestamp <= now
    /\ \A i \in DOMAIN events : events[i].timestamp <= now
    /\ \A th \in thresholds : th.since <= Len(events) /\ Raised(events, th, alerts)
    /\ \A a \in alerts : a.group_by \in GroupBy /\ a.threshold \in Limits

Spends(log) == [i \in DOMAIN log |-> log[i].cost]

LEMMA CostIs ==
    ASSUME NEW log, NEW S \in SUBSET (DOMAIN log), IsFiniteSet(S)
    PROVE  CostOf(log, S) = Total(S, Spends(log))
<1>1. PICK W : W = CHOOSE it : it = [s \in SUBSET S |-> IF s = {} THEN 0 ELSE it[s \ {Chosen(s)}] + log[Chosen(s)].cost]
  OBVIOUS
<1>2. CostOf(log, S) = W[S]
  BY Zenon, <1>1 DEF Chosen, CostOf, FoldSet, MapThenFoldSet
<1>3. \A s \in SUBSET S : s # {} => log[Chosen(s)].cost = Spends(log)[Chosen(s)]
  <2> SUFFICES ASSUME NEW s \in SUBSET S, s # {} PROVE log[Chosen(s)].cost = Spends(log)[Chosen(s)]
    OBVIOUS
  <2>1. PICK x \in s : x = Chosen(s)
    BY ChosenIn
  <2>2. x \in DOMAIN log
    OBVIOUS
  <2> QED
    BY <2>1, <2>2 DEF Spends
<1>4. PICK k : Summing(k, S, Spends(log))
  BY SummingExists
<1>5. ASSUME NEW it
      PROVE  Summing(it, S, Spends(log)) <=>
               it = [s \in SUBSET S |-> IF s = {} THEN 0 ELSE it[s \ {Chosen(s)}] + log[Chosen(s)].cost]
  <2>1. PICK f : f = [s \in SUBSET S |-> IF s = {} THEN 0 ELSE it[s \ {Chosen(s)}] + Spends(log)[Chosen(s)]]
    OBVIOUS
  <2>2. PICK g : g = [s \in SUBSET S |-> IF s = {} THEN 0 ELSE it[s \ {Chosen(s)}] + log[Chosen(s)].cost]
    OBVIOUS
  <2>3. \A s \in SUBSET S : f[s] = g[s]
    BY <1>3, <2>1, <2>2
  <2>4. f = g
    <3>1. PICK h : h = [s \in SUBSET S |-> f[s]]
      OBVIOUS
    <3>2. h = f
      BY <2>1, <3>1
    <3>3. h = g
      BY <2>2, <2>3, <3>1
    <3> QED
      BY <3>2, <3>3
  <2>5. Summing(it, S, Spends(log)) <=> it = f
    BY Zenon, <2>1 DEF Summing
  <2> QED
    BY Zenon, <2>2, <2>4, <2>5
<1>6. Summing(W, S, Spends(log))
  <2>1. \E it : it = [s \in SUBSET S |-> IF s = {} THEN 0 ELSE it[s \ {Chosen(s)}] + log[Chosen(s)].cost]
    BY Zenon, <1>4, <1>5
  <2>2. W = [s \in SUBSET S |-> IF s = {} THEN 0 ELSE W[s \ {Chosen(s)}] + log[Chosen(s)].cost]
    BY Zenon, <1>1, <2>1
  <2> QED
    BY Zenon, <1>5, <2>2
<1> QED
  BY <1>2, <1>6, TotalIs

LEMMA IndexesFinite == ASSUME NEW n \in Nat, NEW S \in SUBSET (1 .. n) PROVE IsFiniteSet(S)
<1>1. IsFiniteSet(1 .. n)
  BY FS_Interval
<1> QED
  BY <1>1, FS_Subset

\* A longer list costs the same where the shorter one is, and more of it costs more.
LEMMA CostGrows ==
    ASSUME NEW log \in Seq(Spending), AggregatorAssumption, NEW S \in SUBSET (DOMAIN log), NEW T \in SUBSET S
    PROVE  CostOf(log, T) <= CostOf(log, S) /\ CostOf(log, T) \in Nat /\ CostOf(log, S) \in Nat
<1>1. PICK n \in Nat : n = Len(log) /\ DOMAIN log = 1 .. n
  OBVIOUS
<1>2. IsFiniteSet(S) /\ IsFiniteSet(T)
  <2>1. S \in SUBSET (1 .. n) /\ T \in SUBSET (1 .. n)
    BY <1>1
  <2> QED
    BY <2>1, IndexesFinite
<1>3. \A i \in DOMAIN log : Spends(log)[i] \in Nat
  <2> SUFFICES ASSUME NEW i \in DOMAIN log PROVE Spends(log)[i] \in Nat
    OBVIOUS
  <2>1. log[i] \in Spending
    OBVIOUS
  <2> QED
    BY <2>1 DEF Spending, Spends, AggregatorAssumption
<1>4. PICK c : c = Spends(log)
  OBVIOUS
<1>5. Total(T, c) <= Total(S, c) /\ Total(T, c) \in Nat /\ Total(S, c) \in Nat
  <2>1. \A i \in S : c[i] \in Nat
    BY <1>3, <1>4
  <2>2. \A i \in T : c[i] \in Nat
    BY <2>1
  <2>3. Total(T, c) <= Total(S, c)
    BY <1>2, <2>1, TotalGrows
  <2> QED
    BY <1>2, <2>1, <2>2, <2>3, TotalIsNat
<1>6. CostOf(log, T) = Total(T, c) /\ CostOf(log, S) = Total(S, c)
  BY <1>2, <1>4, CostIs
<1> QED
  BY <1>5, <1>6

LEMMA CostKept ==
    ASSUME NEW log \in Seq(Spending), NEW e \in Spending, NEW S \in SUBSET (DOMAIN log)
    PROVE  CostOf(Append(log, e), S) = CostOf(log, S)
<1>1. PICK n \in Nat : n = Len(log) /\ DOMAIN log = 1 .. n
  OBVIOUS
<1>2. PICK longer : longer = Append(log, e)
  OBVIOUS
<1>3. DOMAIN longer = 1 .. n + 1 /\ \A i \in 1 .. n : longer[i] = log[i]
  BY <1>1, <1>2
<1>4. IsFiniteSet(S)
  <2>1. S \in SUBSET (1 .. n)
    BY <1>1
  <2> QED
    BY <2>1, IndexesFinite
<1>5. S \in SUBSET (DOMAIN longer)
  BY <1>1, <1>3
<1>6. \A i \in S : Spends(longer)[i] = Spends(log)[i]
  BY <1>1, <1>3 DEF Spends
<1>7. Total(S, Spends(longer)) = Total(S, Spends(log))
  BY <1>4, <1>6, SameTotal
<1> QED
  BY <1>2, <1>4, <1>5, <1>7, CostIs

LEMMA AggregatorNow ==
    AggregatorInv' <=>
        /\ AggregatorTypes'
        /\ \A e \in made' : e.timestamp <= now'
        /\ \A i \in DOMAIN events' : events'[i].timestamp <= now'
        /\ \A th \in thresholds' : th.since <= Len(events') /\ Raised(events', th, alerts')
        /\ \A a \in alerts' : a.group_by \in GroupBy /\ a.threshold \in Limits
  BY Zenon DEF AggregatorInv, Raised, Prior, CostOf, FoldSet, MapThenFoldSet, Alert, KeyFor, GroupBy

LEMMA AggregatorBegins == AggregatorAssumption /\ AggregatorInit => AggregatorInv
<1> SUFFICES ASSUME AggregatorAssumption, AggregatorInit PROVE AggregatorInv
  OBVIOUS
<1>1. now = 0 /\ made = {} /\ events = <<>> /\ thresholds = {} /\ alerts = {}
  BY DEF AggregatorInit
<1>2. 0 \in 0 .. MaxNow
  BY DEF AggregatorAssumption
<1>3. AggregatorTypes
  BY <1>1, <1>2 DEF AggregatorTypes
<1> QED
  BY <1>1, <1>3 DEF AggregatorInv

\* Nothing is recorded and no threshold is set.
LEMMA AggregatorRests ==
    ASSUME AggregatorInv, now' \in 0 .. MaxNow, now <= now', made' \subseteq Spending,
           \A e \in made' : e.timestamp <= now', UNCHANGED <<events, thresholds, alerts>>
    PROVE  AggregatorInv'
<1>1. AggregatorTypes'
  BY DEF AggregatorInv, AggregatorTypes
<1>2. \A i \in DOMAIN events : events[i].timestamp <= now'
  <2> SUFFICES ASSUME NEW i \in DOMAIN events PROVE events[i].timestamp <= now'
    OBVIOUS
  <2>1. events[i] \in Spending /\ now \in Int /\ now' \in Int
    BY DEF AggregatorInv, AggregatorTypes
  <2>2. events[i].timestamp \in Int /\ events[i].timestamp <= now
    BY <2>1 DEF AggregatorInv, Spending
  <2> QED
    BY <2>1, <2>2
<1>3. /\ \A th \in thresholds' : th.since <= Len(events') /\ Raised(events', th, alerts')
      /\ \A a \in alerts' : a.group_by \in GroupBy /\ a.threshold \in Limits
  BY DEF AggregatorInv
<1> QED
  BY <1>1, <1>2, <1>3, AggregatorNow

LEMMA MakeStep ==
    ASSUME AggregatorAssumption, AggregatorInv, NEW p \in Range(Payers), NEW cost \in Costs, MakeEvent(p, cost)
    PROVE  AggregatorInv'
<1>1. PICK e : e = [tenant |-> p, cost |-> cost, timestamp |-> now]
  OBVIOUS
<1>2. made' = made \cup {e} /\ UNCHANGED <<now, events, thresholds, alerts>>
  BY <1>1 DEF MakeEvent
<1>3. now \in 0 .. MaxNow /\ now \in Nat
  BY DEF AggregatorInv, AggregatorTypes
<1>4. e \in Spending /\ e.timestamp = now
  BY <1>1, <1>3 DEF Spending
<1>5. made' \subseteq Spending /\ \A x \in made' : x.timestamp <= now'
  BY <1>2, <1>3, <1>4 DEF AggregatorInv, AggregatorTypes
<1> QED
  BY <1>2, <1>3, <1>5, AggregatorRests

LEMMA TickKeeps == ASSUME AggregatorAssumption, AggregatorInv, Tick PROVE AggregatorInv'
<1>1. now \in Nat /\ now' = now + 1 /\ now' \in 0 .. MaxNow /\ UNCHANGED <<made, events, thresholds, alerts>>
  BY DEF Tick, AggregatorInv, AggregatorTypes, AggregatorAssumption
<1>2. \A e \in made' : e.timestamp <= now'
  <2> SUFFICES ASSUME NEW e \in made PROVE e.timestamp <= now'
    BY <1>1
  <2>1. e.timestamp \in Nat /\ e.timestamp <= now
    BY DEF AggregatorInv, AggregatorTypes, Spending
  <2> QED
    BY <1>1, <2>1
<1>3. made' \subseteq Spending /\ now <= now'
  BY <1>1 DEF AggregatorInv, AggregatorTypes
<1> QED
  BY <1>1, <1>2, <1>3, AggregatorRests

LEMMA ThresholdStep ==
    ASSUME AggregatorAssumption, AggregatorInv, NEW d \in GroupBy, NEW l \in Limits, NEW w \in Windows,
           SetThreshold(d, l, w)
    PROVE  AggregatorInv'
<1>1. PICK t : t = [dimension |-> d, limit |-> l, window |-> w, since |-> Len(events)]
  OBVIOUS
<1>2. /\ thresholds' = thresholds \cup {t} /\ UNCHANGED <<now, made, events, alerts>>
  BY <1>1 DEF SetThreshold
<1>3. PICK n \in Nat : n = Len(events) /\ DOMAIN events = 1 .. n
  BY DEF AggregatorInv, AggregatorTypes
<1>4. t \in Thresholds /\ t.since = n /\ t.dimension = d
  BY <1>1, <1>3 DEF Thresholds
<1>5. AggregatorTypes'
  BY <1>2, <1>4 DEF AggregatorInv, AggregatorTypes
<1>6. \A th \in thresholds : Raised(events', th, alerts')
  BY <1>2 DEF AggregatorInv
<1>7. Raised(events', t, alerts')
  <2>1. \A i \in DOMAIN events' : ~ (i > t.since)
    BY <1>2, <1>3, <1>4
  <2> QED
    BY <2>1 DEF Raised
<1>8. t.since <= Len(events')
  BY <1>2, <1>3, <1>4
<1>10. \A th \in thresholds' : th.since <= Len(events') /\ Raised(events', th, alerts')
  BY <1>2, <1>6, <1>7, <1>8 DEF AggregatorInv
<1> QED
  <2>1. /\ \A e \in made' : e.timestamp <= now'
        /\ \A i \in DOMAIN events' : events'[i].timestamp <= now'
        /\ \A a \in alerts' : a.group_by \in GroupBy /\ a.threshold \in Limits
    BY <1>2 DEF AggregatorInv
  <2> QED
    BY <1>5, <1>10, <2>1, AggregatorNow

LEMMA RecordStep ==
    ASSUME AggregatorAssumption, AggregatorInv, NEW e \in made, Record(e)
    PROVE  AggregatorInv'
<1>t. AggregatorTypes
  BY DEF AggregatorInv
<1>1. /\ made' = made \ {e} /\ events' = Append(events, e)
      /\ alerts' = alerts \cup UNION {MaybeAlert(events', e, th) : th \in thresholds}
      /\ now' = now /\ thresholds' = thresholds
  BY DEF Record
<1>2. e \in Spending /\ e.timestamp \in Nat /\ e.timestamp <= now
  BY <1>t DEF AggregatorInv, AggregatorTypes, Spending
<1>3. PICK n \in Nat : n = Len(events) /\ DOMAIN events = 1 .. n
  BY <1>t DEF AggregatorTypes
<1>4. /\ events' \in Seq(Spending) /\ Len(events') = n + 1 /\ DOMAIN events' = 1 .. n + 1
      /\ events'[n + 1] = e /\ \A i \in 1 .. n : events'[i] = events[i]
  BY <1>1, <1>2, <1>3, <1>t DEF AggregatorTypes
<1>5. AggregatorTypes'
  BY <1>1, <1>4, <1>t DEF AggregatorTypes
<1>6. \A i \in DOMAIN events' : events'[i].timestamp <= now'
  BY <1>1, <1>2, <1>3, <1>4 DEF AggregatorInv
<1>7. ASSUME NEW th \in thresholds, NEW i \in DOMAIN events', i > th.since, CostOf(events', Prior(events', i, th)) > th.limit
      PROVE  Alert(th.dimension, KeyFor(events'[i], th.dimension), th.limit) \in alerts'
  <2>1. CASE i = n + 1
    <3>1. PICK key : key = KeyFor(e, th.dimension)
      OBVIOUS
    <3>2. PICK S : S = {j \in DOMAIN events' : /\ events'[j].timestamp \in e.timestamp - th.window .. e.timestamp
                                               /\ KeyFor(events'[j], th.dimension) = key}
      OBVIOUS
    <3>3. KeyFor(events'[i], th.dimension) = key /\ events'[i] = e /\ 1 .. i = DOMAIN events'
      BY <1>4, <2>1, <3>1
    <3>5. Prior(events', i, th) = S
      BY <3>2, <3>3 DEF Prior
    <3>6. CostOf(events', S) > th.limit
      BY <1>7, <3>5
    <3>7. MaybeAlert(events', e, th) = {Alert(th.dimension, key, th.limit)}
      BY <3>1, <3>2, <3>6 DEF MaybeAlert
    <3> QED
      BY <1>1, <3>3, <3>7
  <2>2. CASE i # n + 1
    <3>1. i \in 1 .. n /\ i \in DOMAIN events
      BY <1>3, <1>4, <2>2
    <3>3. \A j \in 1 .. i : j \in 1 .. n /\ events'[j] = events[j]
      BY <1>4, <3>1
    <3>4. Prior(events', i, th) = Prior(events, i, th) /\ events'[i] = events[i]
      BY <1>4, <3>1, <3>3 DEF Prior
    <3>5. Prior(events, i, th) \in SUBSET (DOMAIN events)
      BY <1>3, <3>3 DEF Prior
    <3>6. CostOf(events', Prior(events, i, th)) = CostOf(events, Prior(events, i, th))
      BY <1>1, <1>2, <1>t, <3>5, CostKept DEF AggregatorTypes
    <3>7. Raised(events, th, alerts)
      BY DEF AggregatorInv
    <3>8. Alert(th.dimension, KeyFor(events[i], th.dimension), th.limit) \in alerts
      BY <1>7, <3>1, <3>4, <3>6, <3>7 DEF Raised
    <3> QED
      BY <1>1, <3>4, <3>8
  <2> QED
    BY <2>1, <2>2
<1>8. \A th \in thresholds : Raised(events', th, alerts')
  BY <1>7 DEF Raised
<1>9. \A th \in thresholds : th.since <= Len(events')
  BY <1>3, <1>4, <1>t DEF AggregatorInv, AggregatorTypes, Thresholds
<1>10. \A a \in alerts' : a.group_by \in GroupBy /\ a.threshold \in Limits
  <2>1. ASSUME NEW th \in thresholds, NEW a \in MaybeAlert(events', e, th)
        PROVE  a.group_by \in GroupBy /\ a.threshold \in Limits
    <3>1. th.dimension \in GroupBy /\ th.limit \in Limits
      BY <1>t DEF AggregatorTypes, Thresholds
    <3>2. a = Alert(th.dimension, KeyFor(e, th.dimension), th.limit)
      BY DEF MaybeAlert
    <3> QED
      BY <3>1, <3>2 DEF Alert
  <2> QED
    BY <1>1, <2>1 DEF AggregatorInv
<1> QED
  <2>1. \A x \in made' : x.timestamp <= now'
    BY <1>1 DEF AggregatorInv
  <2> QED
    BY <1>1, <1>5, <1>6, <1>8, <1>9, <1>10, <2>1, AggregatorNow

LEMMA GreatestIndex ==
    ASSUME NEW n \in Nat, NEW S \in SUBSET (1 .. n), S # {}
    PROVE  \E m \in S : \A j \in S : m >= j
<1>1. PICK D : D = {n - j : j \in S}
  OBVIOUS
<1>2. D \in SUBSET Nat /\ D # {}
  <2>1. \A j \in S : n - j \in Nat
    OBVIOUS
  <2>2. D \in SUBSET Nat
    BY <1>1, <2>1
  <2>3. PICK j : j \in S
    OBVIOUS
  <2>4. n - j \in D
    BY <1>1, <2>3
  <2> QED
    BY <2>2, <2>4
<1>3. PICK x \in D : \A y \in D : x <= y
  BY <1>2, LeastOf
<1>4. PICK m \in S : x = n - m
  BY <1>1, <1>3
<1>5. ASSUME NEW j \in S PROVE m >= j
  <2>1. n - j \in D
    BY <1>1
  <2>2. n - m <= n - j /\ j \in Int /\ m \in Int
    BY <1>3, <1>4, <2>1
  <2> QED
    BY <2>2
<1> QED
  BY <1>5

LEMMA AggregatorStep == AggregatorAssumption /\ AggregatorInv /\ [AggregatorNext]_(costVars) => AggregatorInv'
<1> SUFFICES ASSUME AggregatorAssumption, AggregatorInv, [AggregatorNext]_(costVars) PROVE AggregatorInv'
  OBVIOUS
<1>1. CASE Tick
  BY <1>1, TickKeeps
<1>2. CASE \E p \in Range(Payers), cost \in Costs : MakeEvent(p, cost)
  BY <1>2, MakeStep
<1>3. CASE \E e \in made : Record(e)
  BY <1>3, RecordStep
<1>4. CASE \E d \in GroupBy, l \in Limits, w \in Windows : SetThreshold(d, l, w)
  BY <1>4, ThresholdStep
<1>5. CASE UNCHANGED costVars
  <2>1. /\ now' \in 0 .. MaxNow /\ now <= now' /\ made' \subseteq Spending
        /\ UNCHANGED <<events, thresholds, alerts>>
        /\ \A e \in made' : e.timestamp <= now'
    BY <1>5 DEF costVars, AggregatorInv, AggregatorTypes
  <2> QED
    BY <2>1, AggregatorRests
<1> QED
  BY <1>1, <1>2, <1>3, <1>4, <1>5 DEF AggregatorNext

\* The window that ends now is within the one that was added up when its last event came.
LEMMA AlertsAreThere == AggregatorAssumption /\ AggregatorInv => AlertsComplete
<1> SUFFICES ASSUME AggregatorAssumption, AggregatorInv, NEW th \in thresholds, NEW i \in DOMAIN events,
                    Alert(th.dimension, KeyFor(events[i], th.dimension), th.limit) \in CheckBudgets(th),
                    Ordered(EventsIn(th.dimension, KeyFor(events[i], th.dimension), now - th.window, now)),
                    Max(EventsIn(th.dimension, KeyFor(events[i], th.dimension), now - th.window, now)) > th.since
             PROVE  Alert(th.dimension, KeyFor(events[i], th.dimension), th.limit) \in alerts
  BY DEF AlertsComplete
<1>t. AggregatorTypes
  BY DEF AggregatorInv
<1>1. PICK key : key = KeyFor(events[i], th.dimension)
  OBVIOUS
<1>2. PICK S : S = EventsIn(th.dimension, key, now - th.window, now)
  OBVIOUS
<1>3. PICK n \in Nat : n = Len(events) /\ DOMAIN events = 1 .. n
  BY <1>t DEF AggregatorTypes
<1>4. \A j \in S : /\ j \in 1 .. n /\ events[j].timestamp \in now - th.window .. now
                   /\ KeyFor(events[j], th.dimension) = key
  BY <1>2, <1>3 DEF EventsIn
<1>5. th.limit \in Nat /\ th.window \in Nat /\ now \in Nat /\ th \in Thresholds
  <2>1. th \in Thresholds
    BY <1>t DEF AggregatorTypes
  <2>2. th.limit \in Limits /\ th.window \in Windows
    BY <2>1 DEF Thresholds
  <2>3. now \in Nat
    BY <1>t DEF AggregatorTypes, AggregatorAssumption
  <2> QED
    BY <2>1, <2>2, <2>3 DEF AggregatorAssumption
<1>6. CostOf(events, S) > th.limit
  <2>1. PICK a : a = Alert(th.dimension, key, th.limit)
    OBVIOUS
  <2>2. PICK j \in DOMAIN events :
          /\ OverBudget(th, KeyFor(events[j], th.dimension))
          /\ a = Alert(th.dimension, KeyFor(events[j], th.dimension), th.limit)
    BY <1>1, <2>1 DEF CheckBudgets
  <2>3. KeyFor(events[j], th.dimension) = key
    BY <2>1, <2>2 DEF Alert
  <2> QED
    BY <1>2, <2>2, <2>3 DEF OverBudget
<1>7. S \in SUBSET (1 .. n)
  BY <1>4
<1>8. S # {}
  <2>1. ASSUME S = {} PROVE FALSE
    <3>1. CostOf(events, {}) = Total({}, Spends(events))
      BY FS_EmptySet, CostIs
    <3> QED
      BY <1>5, <1>6, <2>1, <3>1, NoTotal
  <2> QED
    BY <2>1
<1>9. PICK m \in S : m = Max(S) /\ \A j \in S : j <= m
  <2>1. \E m \in S : \A j \in S : m >= j
    BY <1>7, <1>8, GreatestIndex
  <2>2. Max(S) \in S /\ \A j \in S : Max(S) >= j
    BY Zenon, <2>1 DEF Max
  <2> QED
    BY <1>7, <2>2
<1>10. m \in DOMAIN events /\ m > th.since
  BY <1>1, <1>2, <1>3, <1>4, <1>9
<1>11. S \subseteq Prior(events, m, th)
  <2> SUFFICES ASSUME NEW j \in S PROVE j \in Prior(events, m, th)
    OBVIOUS
  <2>1. j \in 1 .. m
    BY <1>4, <1>9
  <2>2. j < m => events[j].timestamp <= events[m].timestamp
    BY <1>1, <1>2 DEF Ordered
  <2>3. PICK x \in Int, y \in Int, w \in Int, t \in Int :
          x = events[j].timestamp /\ y = events[m].timestamp /\ w = th.window /\ t = now
    <3>1. events[j] \in Spending /\ events[m] \in Spending
      BY <1>3, <1>4, <1>t DEF AggregatorTypes
    <3> QED
      BY <1>5, <3>1 DEF Spending
  <2>4. x \in t - w .. t /\ y \in t - w .. t
    BY <1>4, <2>3
  <2>5. j = m \/ j < m
    BY <2>1
  <2>6. x \in y - w .. y
    BY <2>2, <2>3, <2>4, <2>5, <1>5
  <2>7. KeyFor(events[j], th.dimension) = KeyFor(events[m], th.dimension)
    BY <1>4
  <2> QED
    BY <2>1, <2>3, <2>6, <2>7 DEF Prior
<1>12. Prior(events, m, th) \in SUBSET (DOMAIN events)
  BY <1>3, <1>10 DEF Prior
<1>13. CostOf(events, Prior(events, m, th)) > th.limit
  <2>1. PICK x, y : x = CostOf(events, S) /\ y = CostOf(events, Prior(events, m, th))
    OBVIOUS
  <2>2. x <= y /\ x \in Nat /\ y \in Nat
    BY <1>11, <1>12, <1>t, <2>1, CostGrows DEF AggregatorTypes
  <2> QED
    BY <1>5, <1>6, <2>1, <2>2
<1>14. Raised(events, th, alerts)
  BY DEF AggregatorInv
<1>15. KeyFor(events[m], th.dimension) = key
  BY <1>4
<1> QED
  BY <1>1, <1>10, <1>13, <1>14, <1>15 DEF Raised

\* Whatever events are made and in whatever order they are recorded, a key that
\* check_budgets reports has raised its alert, if its events came in the order of
\* their stamps and the last one after the threshold was set
\* (governance/cost_allocation.py:181, 300-395).
THEOREM OverspendsAreAlerted == AggregatorAssumption /\ AggregatorSpec => [](AlertsComplete /\ AggregatorTypeOK)
<1> SUFFICES ASSUME AggregatorAssumption PROVE AggregatorSpec => [](AlertsComplete /\ AggregatorTypeOK)
  OBVIOUS
<1>1. AggregatorInit => AggregatorInv
  BY AggregatorBegins
<1>2. AggregatorInv /\ [AggregatorNext]_(costVars) => AggregatorInv'
  BY AggregatorStep
<1>3. AggregatorInv => AlertsComplete /\ AggregatorTypeOK
  <2> SUFFICES ASSUME AggregatorInv PROVE AggregatorTypeOK
    BY AlertsAreThere
  <2>1. \A e \in made : e.tenant \in Range(Payers) /\ e.timestamp \in 0 .. now
    <3> SUFFICES ASSUME NEW e \in made PROVE e.tenant \in Range(Payers) /\ e.timestamp \in 0 .. now
      OBVIOUS
    <3>1. e \in Spending /\ e.timestamp <= now /\ now \in Int
      BY DEF AggregatorInv, AggregatorTypes
    <3> QED
      BY <3>1 DEF Spending
  <2>2. \A i \in DOMAIN events : events[i].cost \in Costs /\ events[i].timestamp <= now
    <3> SUFFICES ASSUME NEW i \in DOMAIN events PROVE events[i].cost \in Costs /\ events[i].timestamp <= now
      OBVIOUS
    <3>1. events[i] \in Spending
      BY DEF AggregatorInv, AggregatorTypes
    <3> QED
      BY <3>1 DEF AggregatorInv, Spending
  <2> QED
    BY <2>1, <2>2 DEF AggregatorInv, AggregatorTypes, AggregatorTypeOK
<1> QED
  BY <1>1, <1>2, <1>3, PTL DEF AggregatorSpec

-----------------------------------------------------------------------------
(* Budgets of tenants (CostAllocation): what a budget's window holds only    *)
(* grows, so no level that is logged is above the budget's own, and the      *)
(* charge that sums last sums all; as long as the level has not been told,   *)
(* some charge will still tell it.                                           *)
Levels == {"ok", "warning", "exceeded"}
Spans == [start : Int, end : Int]
BudgetRecords == [limit : Int, window : Spans, charged : BOOLEAN, told : Levels]
AllTerms == [limit : BudgetLimits, window : Spans]
Appending == [at : {"append"}, tenant : Tenants, amount : Amounts, stamp : Halves]
Reading == [at : {"read"}, tenant : Tenants]
Adding == [at : {"sum"}, tenant : Tenants, terms : AllTerms]
Logging == [at : {"log"}, tenant : Tenants, terms : AllTerms, level : Levels]
ChargeRecords == {NoCharge} \cup Appending \cup Reading \cup Adding \cup Logging
BudgetTypes ==
    /\ half \in Halves
    /\ spent \in [Tenants -> [Halves -> Nat]]
    /\ budget \in [Tenants -> BudgetRecords]
    /\ charge \in [Chargers -> ChargeRecords]

AtMost(l, m) == Higher(l, m) = m
Bounded(b) == b = NoBudget \/ b.limit \in BudgetLimits
Logged(m) == m.at = "log" => AtMost(m.level, LevelOf(m.tenant, m.terms))
\* A charge m that will still tell the level l of a tenant with the terms t.
Tells(m, tn, t, l) ==
    \/ m.at = "read" /\ m.tenant = tn
    \/ m.at = "sum" /\ m.tenant = tn /\ m.terms = t
    \/ m.at = "log" /\ m.tenant = tn /\ m.terms = t /\ m.level = l
Heard(tn) ==
    /\ AtMost(budget[tn].told, Level(tn))
    /\ budget[tn].charged => \/ budget[tn].told = Level(tn)
                             \/ \E c \in Chargers : Tells(charge[c], tn, TermsOf(tn), Level(tn))

BudgetInv ==
    /\ BudgetTypes
    /\ \A tn \in Tenants : Bounded(budget[tn]) /\ Heard(tn)
    /\ \A c \in Chargers : Logged(charge[c])

\* The level of a budget with the terms t whose window holds s.
Judged(t, s) ==
    IF s > t.limit THEN "exceeded" ELSE IF 100 * s >= t.limit * WarningPct THEN "warning" ELSE "ok"

LEMMA HigherIs ==
    /\ \A l, m \in Levels : Higher(l, m) \in Levels /\ AtMost(l, l)
    /\ \A l, m, n \in Levels : AtMost(l, m) /\ AtMost(m, n) => AtMost(l, n)
    /\ \A l, m, n \in Levels : AtMost(l, n) /\ AtMost(m, n) => AtMost(Higher(l, m), n)
    /\ \A l, m, n \in Levels : AtMost(l, n) /\ AtMost(m, n) /\ n \in {l, m} => Higher(l, m) = n
  BY DEF Levels, AtMost, Higher

LEMMA HalvesFinite == ASSUME BudgetAssumption, NEW w PROVE IsFiniteSet(HalvesIn(w)) /\ HalvesIn(w) \in SUBSET Halves
<1>1. Halves = 0 .. MaxHalf /\ 0 \in Int /\ MaxHalf \in Int
  BY DEF BudgetAssumption, Halves
<1>2. IsFiniteSet(Halves)
  BY <1>1, FS_Interval
<1>3. HalvesIn(w) \in SUBSET Halves
  BY DEF HalvesIn
<1> QED
  BY <1>2, <1>3, FS_Subset

LEMMA LevelIs ==
    \A tn, t : /\ LevelOf(tn, t) = Judged(t, Total(HalvesIn(t.window), spent[tn]))
               /\ LevelOf(tn, t)' = Judged(t, Total(HalvesIn(t.window), spent'[tn]))
<1>1. \A tn, w : /\ GetTenantCosts(tn, w) = Total(HalvesIn(w), spent[tn])
                 /\ GetTenantCosts(tn, w)' = Total(HalvesIn(w), spent'[tn])
  BY Zenon DEF Total, Summing, Chosen, GetTenantCosts, FoldSet, MapThenFoldSet, HalvesIn, Halves
<1>2. ASSUME NEW tn, NEW t
      PROVE  /\ LevelOf(tn, t) = Judged(t, GetTenantCosts(tn, t.window))
             /\ LevelOf(tn, t)' = Judged(t, GetTenantCosts(tn, t.window)')
  BY DEF LevelOf, CheckBudgetExceeded, Judged
<1> QED
  BY Zenon, <1>1, <1>2

\* The level about a tenant depends on what is spent and, if it has a budget,
\* on the terms of that.
LEMMA SameLevels ==
    ASSUME NEW tn, spent'[tn] = spent[tn]
    PROVE  /\ \A t : LevelOf(tn, t)' = LevelOf(tn, t)
           /\ budget'[tn] = budget[tn] => Level(tn)' = Level(tn) /\ TermsOf(tn)' = TermsOf(tn)
<1>1. \A t : LevelOf(tn, t)' = LevelOf(tn, t)
  BY LevelIs
<1>2. ASSUME budget'[tn] = budget[tn] PROVE Level(tn)' = Level(tn) /\ TermsOf(tn)' = TermsOf(tn)
  <2>1. TermsOf(tn)' = TermsOf(tn)
    BY <1>2 DEF TermsOf, BudgetWindow
  <2>2. PICK t : t = TermsOf(tn)
    OBVIOUS
  <2>3. Level(tn) = (IF budget[tn] = NoBudget THEN "ok" ELSE LevelOf(tn, t))
    BY <2>2 DEF Level
  <2>4. Level(tn)' = (IF budget'[tn] = NoBudget THEN "ok" ELSE LevelOf(tn, t)')
    BY <2>1, <2>2, LevelIs DEF Level
  <2> QED
    BY <1>1, <1>2, <2>1, <2>3, <2>4
<1> QED
  BY <1>1, <1>2

\* What is spent more makes no budget look better.
LEMMA JudgedGrows ==
    ASSUME BudgetAssumption, NEW b \in AllTerms, NEW s \in Nat, NEW t \in Nat, s <= t
    PROVE  /\ Judged(b, s) \in Levels /\ Judged(b, t) \in Levels
           /\ AtMost(Judged(b, s), Judged(b, t))
<1>1. b.limit \in Nat
  BY DEF AllTerms, BudgetAssumption
<1>2. PICK w \in Nat : w = b.limit * WarningPct
  BY <1>1 DEF BudgetAssumption
<1>3. PICK l \in Nat : l = b.limit
  BY <1>1
<1>4. \A z \in Nat : Judged(b, z) = IF z > l THEN "exceeded" ELSE IF 100 * z >= w THEN "warning" ELSE "ok"
  BY <1>2, <1>3 DEF Judged
<1> QED
  BY <1>4 DEF Levels, AtMost, Higher

LEMMA LevelsRise ==
    ASSUME BudgetAssumption, BudgetTypes, NEW tn \in Tenants,
           spent' \in [Tenants -> [Halves -> Nat]],
           \A h \in Halves : spent[tn][h] <= spent'[tn][h]
    PROVE  \A t \in AllTerms : /\ LevelOf(tn, t) \in Levels /\ LevelOf(tn, t)' \in Levels
                               /\ AtMost(LevelOf(tn, t), LevelOf(tn, t)')
<1> SUFFICES ASSUME NEW t \in AllTerms
             PROVE  /\ LevelOf(tn, t) \in Levels /\ LevelOf(tn, t)' \in Levels
                    /\ AtMost(LevelOf(tn, t), LevelOf(tn, t)')
  OBVIOUS
<1>1. PICK S : S = HalvesIn(t.window)
  OBVIOUS
<1>2. IsFiniteSet(S) /\ S \in SUBSET Halves
  BY <1>1, HalvesFinite
<1>3. PICK c, d : c = spent[tn] /\ d = spent'[tn]
  OBVIOUS
<1>4. \A h \in S : c[h] \in Nat /\ d[h] \in Nat /\ c[h] <= d[h]
  BY <1>2, <1>3 DEF BudgetTypes
<1>5. PICK s \in Nat, z \in Nat : s = Total(S, c) /\ z = Total(S, d)
  BY <1>2, <1>4, TotalIsNat
<1>6. s <= z
  BY <1>2, <1>4, <1>5, TotalRises
<1>7. LevelOf(tn, t) = Judged(t, s) /\ LevelOf(tn, t)' = Judged(t, z)
  BY <1>1, <1>3, <1>5, LevelIs
<1> QED
  BY <1>6, <1>7, JudgedGrows

\* What is known of every budget.
LEMMA TermsTyped ==
    ASSUME BudgetAssumption, BudgetInv, NEW tn \in Tenants
    PROVE  /\ budget[tn] \in BudgetRecords
           /\ TermsOf(tn) = [limit |-> budget[tn].limit, window |-> budget[tn].window]
           /\ budget[tn] # NoBudget => TermsOf(tn) \in AllTerms /\ Level(tn) = LevelOf(tn, TermsOf(tn))
           /\ budget[tn] = NoBudget => TermsOf(tn) \notin AllTerms /\ Level(tn) = "ok"
           /\ Level(tn) \in Levels
<1>1. budget[tn] \in BudgetRecords /\ Bounded(budget[tn])
  BY DEF BudgetInv, BudgetTypes
<1>2. TermsOf(tn) = [limit |-> budget[tn].limit, window |-> budget[tn].window]
  BY DEF TermsOf, BudgetWindow
<1>3. ASSUME budget[tn] # NoBudget PROVE TermsOf(tn) \in AllTerms /\ Level(tn) = LevelOf(tn, TermsOf(tn))
  BY <1>1, <1>2, <1>3 DEF Bounded, AllTerms, BudgetRecords, Level
<1>4. ASSUME budget[tn] = NoBudget PROVE TermsOf(tn) \notin AllTerms /\ Level(tn) = "ok"
  <2>1. TermsOf(tn).limit = -1
    BY <1>2, <1>4 DEF NoBudget
  <2>2. -1 \notin BudgetLimits
    BY DEF BudgetAssumption
  <2> QED
    BY <1>4, <2>1, <2>2 DEF AllTerms, Level
<1>5. ASSUME budget[tn] # NoBudget PROVE LevelOf(tn, TermsOf(tn)) \in Levels
  <2>1. PICK t \in AllTerms : t = TermsOf(tn)
    BY <1>3, <1>5
  <2>2. PICK S : S = HalvesIn(t.window)
    OBVIOUS
  <2>3. IsFiniteSet(S) /\ S \in SUBSET Halves
    BY <2>2, HalvesFinite
  <2>4. \A h \in S : spent[tn][h] \in Nat
    BY <2>3 DEF BudgetInv, BudgetTypes
  <2>5. PICK s \in Nat : s = Total(S, spent[tn])
    BY <2>3, <2>4, TotalIsNat
  <2>6. LevelOf(tn, t) = Judged(t, s)
    BY <2>2, <2>5, LevelIs
  <2> QED
    BY <2>1, <2>6, JudgedGrows
<1> QED
  BY <1>1, <1>2, <1>3, <1>4, <1>5 DEF Levels

LEMMA BudgetBegins == BudgetAssumption /\ BudgetInit => BudgetInv
<1> SUFFICES ASSUME BudgetAssumption, BudgetInit PROVE BudgetInv
  OBVIOUS
<1>1. BudgetTypes
  <2>1. 0 \in Halves
    BY DEF BudgetAssumption, Halves
  <2>2. NoBudget \in BudgetRecords
    BY DEF NoBudget, NoWindow, Span, BudgetRecords, Spans, Levels
  <2> QED
    BY <2>1, <2>2 DEF BudgetInit, BudgetTypes, ChargeRecords
<1>2. ASSUME NEW tn \in Tenants PROVE Bounded(budget[tn]) /\ Heard(tn)
  <2>1. budget[tn] = NoBudget
    BY DEF BudgetInit
  <2>2. Level(tn) = "ok"
    BY <2>1 DEF Level
  <2>3. NoBudget.told = "ok" /\ NoBudget.charged = FALSE
    BY DEF NoBudget
  <2> QED
    BY <2>1, <2>2, <2>3 DEF Bounded, Heard, AtMost, Higher
<1>3. ASSUME NEW c \in Chargers PROVE Logged(charge[c])
  BY DEF BudgetInit, Logged, NoCharge
<1> QED
  BY <1>1, <1>2, <1>3 DEF BudgetInv

\* A tenant whom a step leaves alone.
About(m, tn) == m.at \in {"read", "sum", "log"} /\ m.tenant = tn
LEMMA HeardRests ==
    ASSUME NEW v \in Tenants, Bounded(budget[v]), Heard(v), budget'[v] = budget[v], spent'[v] = spent[v],
           \A c \in Chargers : charge'[c] = charge[c] \/ ~ About(charge[c], v)
    PROVE  (Bounded(budget[v]) /\ Heard(v))'
<1>1. Level(v)' = Level(v) /\ TermsOf(v)' = TermsOf(v)
  BY SameLevels
<1>2. PICK l, t : l = Level(v) /\ t = TermsOf(v)
  OBVIOUS
<1>3. \A c \in Chargers : Tells(charge[c], v, t, l) => Tells(charge'[c], v, t, l)
  BY DEF Tells, About
<1>4. AtMost(budget'[v].told, l)
  BY <1>2 DEF Heard
<1>5. budget'[v].charged => budget'[v].told = l \/ \E c \in Chargers : Tells(charge'[c], v, t, l)
  BY <1>2, <1>3 DEF Heard
<1> QED
  BY <1>1, <1>2, <1>4, <1>5 DEF Bounded, Heard

LEMMA LoggedRests ==
    ASSUME NEW c, charge'[c] = charge[c], spent' = spent, Logged(charge[c])
    PROVE  Logged(charge[c])'
<1>1. PICK m : m = charge[c]
  OBVIOUS
<1>2. LevelOf(m.tenant, m.terms)' = LevelOf(m.tenant, m.terms)
  BY LevelIs
<1> QED
  BY <1>1, <1>2 DEF Logged

LEMMA SetLimitStep ==
    ASSUME BudgetAssumption, BudgetInv, NEW tn \in Tenants, NEW limit \in BudgetLimits, SetBudgetLimit(tn, limit)
    PROVE  BudgetInv'
<1>1. /\ budget' = [budget EXCEPT ![tn] = [limit |-> limit, window |-> MonthBounds(half), charged |-> FALSE, told |-> "ok"]]
      /\ half' = half /\ spent' = spent /\ charge' = charge
  BY DEF SetBudgetLimit
<1>t. BudgetTypes
  BY DEF BudgetInv
<1>2. MonthBounds(half) \in Spans
  <2>1. half \in Int /\ MonthLength \in Nat \ {0}
    BY <1>t DEF BudgetTypes, BudgetAssumption, Halves
  <2>2. PICK d \in Int : d = DayOf(half)
    BY <2>1 DEF DayOf
  <2>3. PICK m \in Int : m = DayOf(half) \div MonthLength
    BY <2>1, <2>2
  <2>4. MonthBounds(half) = [start |-> 2 * MonthLength * m, end |-> 2 * MonthLength * (m + 1)]
    BY <2>3 DEF MonthBounds, Span
  <2>5. 2 * MonthLength * m \in Int /\ 2 * MonthLength * (m + 1) \in Int
    BY <2>1, <2>3
  <2> QED
    BY <2>4, <2>5 DEF Spans
<1>3. PICK r : r = [limit |-> limit, window |-> MonthBounds(half), charged |-> FALSE, told |-> "ok"]
  OBVIOUS
<1>4. r \in BudgetRecords /\ r.limit = limit /\ r.window = MonthBounds(half) /\ r.charged = FALSE /\ r.told = "ok"
  BY <1>2, <1>3 DEF BudgetRecords, Levels, BudgetAssumption
<1>5. budget' \in [Tenants -> BudgetRecords] /\ budget'[tn] = r /\ \A v \in Tenants : v # tn => budget'[v] = budget[v]
  BY <1>1, <1>3, <1>4, <1>t DEF BudgetTypes
<1>6. BudgetTypes'
  BY <1>1, <1>5, <1>t DEF BudgetTypes
<1>7. ASSUME NEW v \in Tenants PROVE (Bounded(budget[v]) /\ Heard(v))'
  <2>1. CASE v = tn
    <3>1. PICK t : t = TermsOf(tn)'
      OBVIOUS
    <3>2. t = [limit |-> limit, window |-> MonthBounds(half)]
      BY <1>4, <1>5, <3>1 DEF TermsOf, BudgetWindow
    <3>3. t \in AllTerms
      BY <1>2, <3>2 DEF AllTerms
    <3>4. LevelOf(tn, t)' \in Levels
      <4>1. spent' \in [Tenants -> [Halves -> Nat]] /\ \A h \in Halves : spent[tn][h] <= spent'[tn][h]
        BY <1>1, <1>t DEF BudgetTypes
      <4> QED
        BY <1>t, <3>3, <4>1, LevelsRise
    <3>5. Level(tn)' = "ok" \/ Level(tn)' = LevelOf(tn, t)'
      BY <3>1, LevelIs DEF Level
    <3>6. AtMost("ok", Level(tn)')
      BY <3>4, <3>5 DEF Levels, AtMost, Higher
    <3>7. limit \in BudgetLimits
      OBVIOUS
    <3> QED
      BY <1>4, <1>5, <2>1, <3>6, <3>7 DEF Bounded, Heard
  <2>2. CASE v # tn
    BY <1>1, <1>5, <2>2, HeardRests DEF BudgetInv
  <2> QED
    BY <2>1, <2>2
<1>8. ASSUME NEW c \in Chargers PROVE Logged(charge[c])'
  BY <1>1, LoggedRests DEF BudgetInv
<1> QED
  BY <1>6, <1>7, <1>8 DEF BudgetInv

LEMMA ChargeMoves ==
    ASSUME BudgetTypes, NEW c \in Chargers, NEW m \in ChargeRecords, charge' = [charge EXCEPT ![c] = m]
    PROVE  /\ charge' \in [Chargers -> ChargeRecords]
           /\ charge'[c] = m /\ \A e \in Chargers : e # c => charge'[e] = charge[e]
  BY DEF BudgetTypes

\* Which record a charge under way is.
LEMMA ChargeFields ==
    ASSUME BudgetTypes, NEW c \in Chargers
    PROVE  /\ charge[c].at = "append" => charge[c] \in Appending
           /\ charge[c].at = "read" => charge[c] \in Reading
           /\ charge[c].at = "sum" => charge[c] \in Adding
           /\ charge[c].at = "log" => charge[c] \in Logging
<1>1. charge[c] \in ChargeRecords
  BY DEF BudgetTypes
<1> QED
  BY <1>1 DEF ChargeRecords, NoCharge, Appending, Reading, Adding, Logging

LEMMA StampStep ==
    ASSUME BudgetInv, NEW c \in Chargers, NEW tn \in Tenants, NEW a \in Amounts, StampCharge(c, tn, a)
    PROVE  BudgetInv'
<1>t. BudgetTypes
  BY DEF BudgetInv
<1>1. PICK m : m = [at |-> "append", tenant |-> tn, amount |-> a, stamp |-> half]
  OBVIOUS
<1>2. m \in ChargeRecords /\ m.at = "append"
  BY <1>1, <1>t DEF Appending, ChargeRecords, BudgetTypes
<1>3. /\ charge[c] = NoCharge /\ charge' = [charge EXCEPT ![c] = m]
      /\ half' = half /\ spent' = spent /\ budget' = budget
  BY <1>1 DEF StampCharge
<1>4. /\ charge' \in [Chargers -> ChargeRecords]
      /\ charge'[c] = m /\ \A e \in Chargers : e # c => charge'[e] = charge[e]
  BY <1>2, <1>3, <1>t, ChargeMoves
<1>5. ASSUME NEW v \in Tenants PROVE (Bounded(budget[v]) /\ Heard(v))'
  <2>1. \A e \in Chargers : charge'[e] = charge[e] \/ ~ About(charge[e], v)
    BY <1>3, <1>4 DEF About, NoCharge
  <2> QED
    BY <1>3, <2>1, HeardRests DEF BudgetInv
<1>6. ASSUME NEW e \in Chargers PROVE Logged(charge[e])'
  <2>1. CASE e = c
    BY <1>2, <1>4, <2>1 DEF Logged
  <2>2. CASE e # c
    BY <1>3, <1>4, <2>2, LoggedRests DEF BudgetInv
  <2> QED
    BY <2>1, <2>2
<1> QED
  BY <1>3, <1>4, <1>5, <1>6, <1>t DEF BudgetInv, BudgetTypes

LEMMA AppendStep ==
    ASSUME BudgetAssumption, BudgetInv, NEW c \in Chargers, AppendCharge(c)
    PROVE  BudgetInv'
<1>t. BudgetTypes
  BY DEF BudgetInv
<1>1. charge[c] \in Appending /\ charge[c].at = "append"
  BY <1>t, ChargeFields DEF AppendCharge
<1>2. PICK tn \in Tenants, h \in Halves, a \in Nat :
        tn = charge[c].tenant /\ h = charge[c].stamp /\ a = charge[c].amount
  BY <1>1 DEF Appending, BudgetAssumption
<1>4. PICK m : m = [at |-> "read", tenant |-> tn]
  OBVIOUS
<1>3. /\ spent' = [spent EXCEPT ![tn][h] = @ + a]
      /\ budget' = [budget EXCEPT ![tn].charged = @ \/ h \in HalvesIn(budget[tn].window)]
      /\ charge' = [charge EXCEPT ![c] = m]
      /\ half' = half
  BY <1>2, <1>4 DEF AppendCharge
<1>5. m \in ChargeRecords /\ m.at = "read" /\ m.tenant = tn
  BY <1>4 DEF Reading, ChargeRecords
<1>6. /\ charge' \in [Chargers -> ChargeRecords]
      /\ charge'[c] = m /\ \A e \in Chargers : e # c => charge'[e] = charge[e]
  BY <1>3, <1>5, <1>t, ChargeMoves
<1>7. /\ spent' \in [Tenants -> [Halves -> Nat]]
      /\ \A v \in Tenants, k \in Halves : spent[v][k] <= spent'[v][k]
      /\ \A v \in Tenants : v # tn => spent'[v] = spent[v]
  <2>1. PICK f : f = [spent[tn] EXCEPT ![h] = @ + a]
    OBVIOUS
  <2>2. spent[tn] \in [Halves -> Nat] /\ spent[tn][h] \in Nat /\ spent[tn][h] + a \in Nat
    BY <1>t DEF BudgetTypes
  <2>3. f \in [Halves -> Nat] /\ \A k \in Halves : spent[tn][k] <= f[k]
    BY <2>1, <2>2
  <2>4. spent' = [spent EXCEPT ![tn] = f]
    BY <1>3, <2>1
  <2>5. \A v \in Tenants, k \in Halves : spent[v][k] \in Nat /\ spent[v][k] <= spent[v][k]
    BY <1>t DEF BudgetTypes
  <2> QED
    BY <1>t, <2>3, <2>4, <2>5 DEF BudgetTypes
<1>8. PICK b : b = [budget[tn] EXCEPT !.charged = @ \/ h \in HalvesIn(budget[tn].window)]
  OBVIOUS
<1>9. b \in BudgetRecords /\ b.limit = budget[tn].limit /\ b.window = budget[tn].window /\ b.told = budget[tn].told
  <2>1. budget[tn] \in BudgetRecords
    BY <1>t DEF BudgetTypes
  <2>2. (budget[tn].charged \/ h \in HalvesIn(budget[tn].window)) \in BOOLEAN
    OBVIOUS
  <2> QED
    BY <1>8, <2>1, <2>2 DEF BudgetRecords
<1>10. budget' \in [Tenants -> BudgetRecords] /\ budget'[tn] = b /\ \A v \in Tenants : v # tn => budget'[v] = budget[v]
  <2>1. budget' = [budget EXCEPT ![tn] = b]
    BY <1>3, <1>8
  <2> QED
    BY <1>9, <1>t, <2>1 DEF BudgetTypes
<1>11. Bounded(budget[tn]) /\ Heard(tn)
  BY DEF BudgetInv
<1>12. b = NoBudget <=> budget[tn] = NoBudget
  <2>1. CASE budget[tn] = NoBudget
    <3>1. budget[tn].window = NoWindow /\ budget[tn].charged = FALSE
      BY <2>1 DEF NoBudget
    <3>2. ~ (h \in HalvesIn(NoWindow))
      BY DEF HalvesIn, NoWindow, Span, Halves
    <3>3. (budget[tn].charged \/ h \in HalvesIn(budget[tn].window)) = FALSE
      BY <3>1, <3>2
    <3>4. b = [NoBudget EXCEPT !.charged = FALSE]
      BY <1>8, <2>1, <3>3
    <3>5. b = NoBudget
      BY <3>4 DEF NoBudget
    <3> QED
      BY <2>1, <3>5
  <2>2. CASE budget[tn] # NoBudget
    <3>1. b.limit \in Nat
      BY <1>9, <1>11, <2>2 DEF Bounded, BudgetAssumption
    <3> QED
      BY <2>2, <3>1 DEF NoBudget
  <2> QED
    BY <2>1, <2>2
<1>13. \A v \in Tenants, t \in AllTerms : /\ LevelOf(v, t) \in Levels /\ LevelOf(v, t)' \in Levels
                                         /\ AtMost(LevelOf(v, t), LevelOf(v, t)')
  BY <1>t, <1>7, LevelsRise
<1>14. ASSUME NEW v \in Tenants PROVE (Bounded(budget[v]) /\ Heard(v))'
  <2>1. CASE v = tn
    <3>1. TermsOf(tn)' = TermsOf(tn)
      BY <1>9, <1>10 DEF TermsOf, BudgetWindow
    <3>2. AtMost(Level(tn), Level(tn)') /\ Level(tn)' \in Levels
      <4>1. CASE budget[tn] = NoBudget
        <5>1. Level(tn) = "ok" /\ Level(tn)' = "ok"
          BY <1>10, <1>12, <4>1 DEF Level
        <5> QED
          BY <5>1, HigherIs DEF Levels
      <4>2. CASE budget[tn] # NoBudget
        <5>1. PICK t \in AllTerms : t = TermsOf(tn) /\ Level(tn) = LevelOf(tn, t)
          BY <4>2, TermsTyped
        <5>2. Level(tn)' = LevelOf(tn, t)'
          BY <1>10, <1>12, <3>1, <4>2, <5>1, LevelIs DEF Level
        <5> QED
          BY <1>13, <5>1, <5>2
      <4> QED
        BY <4>1, <4>2
    <3>3. AtMost(budget'[tn].told, Level(tn)')
      <4>1. budget[tn].told \in Levels /\ Level(tn) \in Levels /\ AtMost(budget[tn].told, Level(tn))
        BY <1>11, TermsTyped DEF Heard, BudgetRecords
      <4>2. PICK l \in Levels, n \in Levels, z \in Levels : l = budget[tn].told /\ n = Level(tn) /\ z = Level(tn)'
        BY <3>2, <4>1
      <4>3. AtMost(l, z)
        BY <3>2, <4>1, <4>2, HigherIs
      <4> QED
        BY <1>9, <1>10, <4>2, <4>3
    <3>4. \E e \in Chargers : Tells(charge[e], tn, TermsOf(tn), Level(tn))'
      BY <1>5, <1>6 DEF Tells
    <3>5. Bounded(budget'[tn])
      BY <1>9, <1>10, <1>11, <1>12 DEF Bounded
    <3> QED
      BY <2>1, <3>3, <3>4, <3>5 DEF Bounded, Heard
  <2>2. CASE v # tn
    <3>1. budget'[v] = budget[v] /\ spent'[v] = spent[v]
      BY <1>7, <1>10, <2>2
    <3>2. \A e \in Chargers : charge'[e] = charge[e] \/ ~ About(charge[e], v)
      BY <1>1, <1>6 DEF About
    <3> QED
      BY <3>1, <3>2, HeardRests DEF BudgetInv
  <2> QED
    BY <2>1, <2>2
<1>15. ASSUME NEW e \in Chargers, charge'[e].at = "log" PROVE Logged(charge[e])'
  <2>1. e # c
    BY <1>5, <1>6, <1>15
  <2>2. charge'[e] = charge[e] /\ charge[e] \in Logging
    BY <1>6, <1>15, <1>t, <2>1, ChargeFields
  <2>3. PICK v \in Tenants, t \in AllTerms, l \in Levels : v = charge[e].tenant /\ t = charge[e].terms /\ l = charge[e].level
    BY <2>2 DEF Logging
  <2>4. AtMost(l, LevelOf(v, t))
    BY <1>15, <2>2, <2>3 DEF BudgetInv, Logged
  <2>5. AtMost(l, LevelOf(v, t)')
    BY <1>13, <2>4, HigherIs
  <2> QED
    BY <2>2, <2>3, <2>5 DEF Logged
<1>16. ASSUME NEW e \in Chargers PROVE Logged(charge[e])'
  BY <1>15 DEF Logged
<1> QED
  BY <1>3, <1>6, <1>7, <1>10, <1>14, <1>16, <1>t DEF BudgetInv, BudgetTypes

\* A charge c that goes on while nothing is spent and no budget changes.
LEMMA GoesOn ==
    ASSUME BudgetAssumption, BudgetInv, NEW c \in Chargers, NEW m \in ChargeRecords,
           charge' = [charge EXCEPT ![c] = m], half' = half, spent' = spent, budget' = budget,
           Logged(m),
           \A tn \in Tenants : budget[tn] # NoBudget /\ Tells(charge[c], tn, TermsOf(tn), Level(tn))
                              => Tells(m, tn, TermsOf(tn), Level(tn))
    PROVE  BudgetInv'
<1>t. BudgetTypes
  BY DEF BudgetInv
<1>1. /\ charge' \in [Chargers -> ChargeRecords]
      /\ charge'[c] = m /\ \A e \in Chargers : e # c => charge'[e] = charge[e]
  BY <1>t, ChargeMoves
<1>2. ASSUME NEW v \in Tenants PROVE (Bounded(budget[v]) /\ Heard(v))'
  <2>1. Level(v)' = Level(v) /\ TermsOf(v)' = TermsOf(v)
    BY SameLevels
  <2>2. PICK l, t : l = Level(v) /\ t = TermsOf(v)
    OBVIOUS
  <2>3. AtMost(budget'[v].told, l) /\ Bounded(budget'[v])
    BY <2>2 DEF BudgetInv, Heard
  <2>4. ASSUME budget[v].charged, budget[v].told # l
        PROVE  \E e \in Chargers : Tells(charge'[e], v, t, l)
    <3>1. budget[v] # NoBudget
      BY <2>4 DEF NoBudget
    <3>2. PICK e \in Chargers : Tells(charge[e], v, t, l)
      BY <2>2, <2>4 DEF BudgetInv, Heard
    <3> QED
      BY <1>1, <2>2, <3>1, <3>2
  <2> QED
    BY <2>1, <2>2, <2>3, <2>4 DEF Bounded, Heard
<1>3. ASSUME NEW e \in Chargers PROVE Logged(charge[e])'
  <2>1. CASE e = c
    <3>1. LevelOf(m.tenant, m.terms)' = LevelOf(m.tenant, m.terms)
      BY LevelIs
    <3> QED
      BY <1>1, <2>1, <3>1 DEF Logged
  <2>2. CASE e # c
    BY <1>1, <2>2, LoggedRests DEF BudgetInv
  <2> QED
    BY <2>1, <2>2
<1> QED
  BY <1>1, <1>2, <1>3, <1>t DEF BudgetInv, BudgetTypes

LEMMA ReadStep ==
    ASSUME BudgetAssumption, BudgetInv, NEW c \in Chargers, ReadBudget(c)
    PROVE  BudgetInv'
<1>1. charge[c] \in Reading /\ charge[c].at = "read"
  BY ChargeFields DEF ReadBudget, BudgetInv
<1>2. PICK tn \in Tenants : tn = charge[c].tenant
  BY <1>1 DEF Reading
<1>3. PICK t : t = TermsOf(tn)
  OBVIOUS
<1>4. PICK m : m = IF budget[tn] = NoBudget THEN NoCharge ELSE [at |-> "sum", tenant |-> tn, terms |-> t]
  OBVIOUS
<1>5. charge' = [charge EXCEPT ![c] = m] /\ half' = half /\ spent' = spent /\ budget' = budget
  BY <1>2, <1>3, <1>4 DEF ReadBudget
<1>6. m \in ChargeRecords /\ m.at # "log"
  <2>1. budget[tn] # NoBudget => t \in AllTerms
    BY <1>3, TermsTyped
  <2> QED
    BY <1>4, <2>1 DEF ChargeRecords, Adding, NoCharge
<1>7. ASSUME NEW v \in Tenants, budget[v] # NoBudget, Tells(charge[c], v, TermsOf(v), Level(v))
      PROVE  Tells(m, v, TermsOf(v), Level(v))
  <2>1. v = tn
    BY <1>1, <1>2, <1>7 DEF Tells
  <2>2. m.at = "sum" /\ m.tenant = v /\ m.terms = TermsOf(v)
    BY <1>3, <1>4, <1>7, <2>1
  <2> QED
    BY <2>2 DEF Tells
<1>8. Logged(m)
  BY <1>6 DEF Logged
<1> QED
  BY <1>5, <1>6, <1>7, <1>8, GoesOn

LEMMA SumStep ==
    ASSUME BudgetAssumption, BudgetInv, NEW c \in Chargers, SumCosts(c)
    PROVE  BudgetInv'
<1>t. BudgetTypes
  BY DEF BudgetInv
<1>1. charge[c] \in Adding /\ charge[c].at = "sum"
  BY <1>t, ChargeFields DEF SumCosts
<1>2. PICK tn \in Tenants, t \in AllTerms : tn = charge[c].tenant /\ t = charge[c].terms
  BY <1>1 DEF Adding
<1>3. PICK l : l = LevelOf(tn, t)
  OBVIOUS
<1>4. PICK m : m = [at |-> "log", tenant |-> tn, terms |-> t, level |-> l]
  OBVIOUS
<1>5. charge' = [charge EXCEPT ![c] = m] /\ half' = half /\ spent' = spent /\ budget' = budget
  BY <1>2, <1>3, <1>4 DEF SumCosts
<1>6. l \in Levels
  <2>1. spent' \in [Tenants -> [Halves -> Nat]] /\ \A h \in Halves : spent[tn][h] <= spent'[tn][h]
    BY <1>5, <1>t DEF BudgetTypes
  <2> QED
    BY <1>3, <1>t, <2>1, LevelsRise
<1>7. m \in ChargeRecords
  BY <1>4, <1>6 DEF ChargeRecords, Logging
<1>8. ASSUME NEW v \in Tenants, budget[v] # NoBudget, Tells(charge[c], v, TermsOf(v), Level(v))
      PROVE  Tells(m, v, TermsOf(v), Level(v))
  <2>1. v = tn /\ t = TermsOf(v)
    BY <1>1, <1>2, <1>8 DEF Tells
  <2>2. Level(v) = l
    BY <1>3, <1>8, <2>1, TermsTyped
  <2>3. m.at = "log" /\ m.tenant = v /\ m.terms = TermsOf(v) /\ m.level = Level(v)
    BY <1>4, <2>1, <2>2
  <2> QED
    BY <2>3 DEF Tells
<1>9. Logged(m)
  BY <1>3, <1>4, <1>6, HigherIs DEF Logged
<1> QED
  BY <1>5, <1>7, <1>8, <1>9, GoesOn

LEMMA LogStep ==
    ASSUME BudgetAssumption, BudgetInv, NEW c \in Chargers, LogCharge(c)
    PROVE  BudgetInv'
<1>t. BudgetTypes
  BY DEF BudgetInv
<1>1. charge[c] \in Logging /\ charge[c].at = "log"
  BY <1>t, ChargeFields DEF LogCharge
<1>2. PICK tn \in Tenants, t \in AllTerms, l \in Levels :
        tn = charge[c].tenant /\ t = charge[c].terms /\ l = charge[c].level
  BY <1>1 DEF Logging
<1>3. PICK o, n, k : o = budget[tn].told /\ n = Level(tn) /\ k = IF t = TermsOf(tn) THEN Higher(o, l) ELSE o
  OBVIOUS
<1>4. /\ budget' = [budget EXCEPT ![tn].told = k]
      /\ charge' = [charge EXCEPT ![c] = NoCharge]
      /\ half' = half /\ spent' = spent
  BY <1>2, <1>3 DEF LogCharge
<1>5. /\ charge' \in [Chargers -> ChargeRecords]
      /\ charge'[c] = NoCharge /\ \A e \in Chargers : e # c => charge'[e] = charge[e]
  <2>1. NoCharge \in ChargeRecords
    BY DEF ChargeRecords
  <2> QED
    BY <1>4, <1>t, <2>1, ChargeMoves
<1>6. o \in Levels /\ n \in Levels /\ AtMost(o, n) /\ Bounded(budget[tn])
  BY <1>3, TermsTyped DEF BudgetInv, Heard, BudgetRecords
<1>7. AtMost(l, LevelOf(tn, t))
  BY <1>1, <1>2 DEF BudgetInv, Logged
<1>8. t = TermsOf(tn) => budget[tn] # NoBudget /\ AtMost(l, n)
  BY <1>2, <1>3, <1>7, TermsTyped
<1>9. k \in Levels /\ AtMost(k, n) /\ (o = n => k = n) /\ (t = TermsOf(tn) /\ l = n => k = n)
  <2>1. CASE t = TermsOf(tn)
    <3>1. k = Higher(o, l) /\ AtMost(l, n)
      BY <1>3, <1>8, <2>1
    <3> QED
      BY <1>6, <3>1, HigherIs
  <2>2. CASE t # TermsOf(tn)
    BY <1>3, <1>6, <2>2
  <2> QED
    BY <2>1, <2>2
<1>10. PICK b : b = [budget[tn] EXCEPT !.told = k]
  OBVIOUS
<1>11. /\ b \in BudgetRecords /\ b.limit = budget[tn].limit /\ b.window = budget[tn].window
       /\ b.charged = budget[tn].charged /\ b.told = k
  <2>1. budget[tn] \in BudgetRecords
    BY <1>t DEF BudgetTypes
  <2> QED
    BY <1>9, <1>10, <2>1 DEF BudgetRecords
<1>12. budget' \in [Tenants -> BudgetRecords] /\ budget'[tn] = b /\ \A v \in Tenants : v # tn => budget'[v] = budget[v]
  <2>1. budget' = [budget EXCEPT ![tn] = b]
    BY <1>4, <1>10
  <2> QED
    BY <1>11, <1>t, <2>1 DEF BudgetTypes
<1>13. b = NoBudget <=> budget[tn] = NoBudget
  <2>1. CASE budget[tn] = NoBudget
    <3>1. k = o /\ budget[tn] \in BudgetRecords
      BY <1>3, <1>8, <2>1, TermsTyped
    <3>2. b = [budget[tn] EXCEPT !.told = budget[tn].told]
      BY <1>3, <1>10, <3>1
    <3>3. b = budget[tn]
      BY <3>1, <3>2 DEF BudgetRecords
    <3> QED
      BY <2>1, <3>3
  <2>2. CASE budget[tn] # NoBudget
    <3>1. b.limit \in Nat
      BY <1>6, <1>11, <2>2 DEF Bounded, BudgetAssumption
    <3> QED
      BY <2>2, <3>1 DEF NoBudget
  <2> QED
    BY <2>1, <2>2
<1>14. ASSUME NEW v \in Tenants PROVE (Bounded(budget[v]) /\ Heard(v))'
  <2>1. CASE v = tn
    <3>1. TermsOf(tn)' = TermsOf(tn)
      BY <1>11, <1>12 DEF TermsOf, BudgetWindow
    <3>2. Level(tn)' = n
      <4>1. PICK s : s = TermsOf(tn)
        OBVIOUS
      <4>2. Level(tn)' = IF b = NoBudget THEN "ok" ELSE LevelOf(tn, s)'
        BY <1>12, <3>1, <4>1, LevelIs DEF Level
      <4>3. n = IF budget[tn] = NoBudget THEN "ok" ELSE LevelOf(tn, s)
        BY <1>3, <4>1 DEF Level
      <4> QED
        BY <1>4, <1>13, <4>2, <4>3, SameLevels
    <3>3. ASSUME b.charged, b.told # n
          PROVE  \E e \in Chargers : Tells(charge'[e], tn, TermsOf(tn), n)
      <4>1. budget[tn].told # n /\ budget[tn].charged
        BY <1>3, <1>9, <1>11, <3>3
      <4>2. PICK e \in Chargers : Tells(charge[e], tn, TermsOf(tn), n)
        BY <1>3, <4>1 DEF BudgetInv, Heard
      <4>3. e # c
        BY <1>1, <1>2, <1>9, <1>11, <3>3, <4>2 DEF Tells
      <4> QED
        BY <1>5, <4>2, <4>3
    <3>4. Bounded(budget'[tn])
      BY <1>6, <1>11, <1>12, <1>13 DEF Bounded
    <3> QED
      BY <1>9, <1>11, <1>12, <2>1, <3>1, <3>2, <3>3, <3>4 DEF Bounded, Heard
  <2>2. CASE v # tn
    <3>1. budget'[v] = budget[v] /\ spent'[v] = spent[v]
      BY <1>4, <1>12, <2>2
    <3>2. \A e \in Chargers : charge'[e] = charge[e] \/ ~ About(charge[e], v)
      BY <1>2, <1>5, <2>2 DEF About
    <3> QED
      BY <3>1, <3>2, HeardRests DEF BudgetInv
  <2> QED
    BY <2>1, <2>2
<1>15. ASSUME NEW e \in Chargers PROVE Logged(charge[e])'
  <2>1. CASE e = c
    BY <1>5, <2>1 DEF Logged, NoCharge
  <2>2. CASE e # c
    BY <1>4, <1>5, <2>2, LoggedRests DEF BudgetInv
  <2> QED
    BY <2>1, <2>2
<1> QED
  BY <1>4, <1>5, <1>12, <1>14, <1>15, <1>t DEF BudgetInv, BudgetTypes

LEMMA BudgetRest ==
    ASSUME BudgetAssumption, BudgetInv, half' \in Halves, UNCHANGED <<spent, budget, charge>>
    PROVE  BudgetInv'
<1>1. ASSUME NEW v \in Tenants PROVE (Bounded(budget[v]) /\ Heard(v))'
  BY HeardRests DEF BudgetInv
<1>2. ASSUME NEW c \in Chargers PROVE Logged(charge[c])'
  BY LoggedRests DEF BudgetInv
<1> QED
  BY <1>1, <1>2 DEF BudgetInv, BudgetTypes

LEMMA BudgetStep == BudgetAssumption /\ BudgetInv /\ [BudgetNext]_(budgetVars) => BudgetInv'
<1> SUFFICES ASSUME BudgetAssumption, BudgetInv, [BudgetNext]_(budgetVars) PROVE BudgetInv'
  OBVIOUS
<1>1. CASE HalfDay
  <2>1. half' \in Halves /\ UNCHANGED <<spent, budget, charge>>
    BY <1>1 DEF HalfDay, BudgetInv, BudgetTypes, Halves, BudgetAssumption
  <2> QED
    BY <2>1, BudgetRest
<1>2. CASE \E tn \in Tenants, limit \in BudgetLimits : SetBudgetLimit(tn, limit)
  BY <1>2, SetLimitStep
<1>3. CASE \E c \in Chargers : \E tn \in Tenants, a \in Amounts : StampCharge(c, tn, a)
  BY <1>3, StampStep
<1>4. CASE \E c \in Chargers : AppendCharge(c)
  BY <1>4, AppendStep
<1>5. CASE \E c \in Chargers : ReadBudget(c)
  BY <1>5, ReadStep
<1>6. CASE \E c \in Chargers : SumCosts(c)
  BY <1>6, SumStep
<1>7. CASE \E c \in Chargers : LogCharge(c)
  BY <1>7, LogStep
<1>8. CASE UNCHANGED budgetVars
  <2>1. half' \in Halves /\ UNCHANGED <<spent, budget, charge>>
    BY <1>8 DEF budgetVars, BudgetInv, BudgetTypes
  <2> QED
    BY <2>1, BudgetRest
<1> QED
  BY <1>1, <1>2, <1>3, <1>4, <1>5, <1>6, <1>7, <1>8 DEF BudgetNext

\* However charges overlap, budgets are replaced and months end: what is logged of
\* a budget is never above the level it is at, and once the checks of its charges
\* are over that level has been logged (billing/cost_allocation.py:269-330).
THEOREM OverspendsAreTold == BudgetAssumption /\ BudgetSpec => [](OverspendTold /\ BudgetTypeOK)
<1> SUFFICES ASSUME BudgetAssumption PROVE BudgetSpec => [](OverspendTold /\ BudgetTypeOK)
  OBVIOUS
<1>1. BudgetInit => BudgetInv
  BY BudgetBegins
<1>2. BudgetInv /\ [BudgetNext]_(budgetVars) => BudgetInv'
  BY BudgetStep
<1>3. BudgetInv => OverspendTold /\ BudgetTypeOK
  <2> SUFFICES ASSUME BudgetInv PROVE OverspendTold /\ BudgetTypeOK
    OBVIOUS
  <2>1. OverspendTold
    BY DEF BudgetInv, Heard, Tells, AtMost, Checking, OverspendTold
  <2>2. \A c \in Chargers : charge[c].at \in {"none", "append", "read", "sum", "log"}
    BY DEF BudgetInv, BudgetTypes, ChargeRecords, Appending, Reading, Adding, Logging, NoCharge
  <2> QED
    BY <2>1, <2>2 DEF BudgetInv, BudgetTypes, Bounded, BudgetTypeOK
<1> QED
  BY <1>1, <1>2, <1>3, PTL DEF BudgetSpec

-----------------------------------------------------------------------------
(* Quotas of a tenant (Tenancy): each operation holds, or is promised, what *)
(* it asked for dimension by dimension; the sums over the operations are    *)
(* what is used and what may still be used.                                 *)
TierNames == Tiers \cup {"none"}
Uses == [Dims -> Nat]
Stages == {"idle", "creating", "applying", "admitted", "consuming", "holding", "releasing"}
HoldRecords == [at : Stages, want : Uses, tier : TierNames, left : 0 .. Len(Dimensions)]
Tenancies == [status : {"none", "active", "suspended", "deprovisioning"}, tier : TierNames,
              limit : Uses, used : Uses, reserved : Uses]
Namespaces == [ns : Tenancies, disturbed : BOOLEAN, applied : TierNames, updated : SUBSET Dims, torn : BOOLEAN]
TenancyTypes ==
    /\ namespace \in Namespaces
    /\ holds \in [Operations -> HoldRecords]

\* How far an operation h has come, and what of the dimension d it holds or is promised.
Along(h) ==
    /\ h.at \in {"admitted", "holding"} => h.left = Len(Dimensions)
    /\ h.at \in {"consuming", "releasing"} => h.left \in 1 .. Len(Dimensions) - 1
    /\ h.at = "applying" => h.left \in 1 .. Len(Dimensions) /\ h.tier \in Tiers
Place(d) == CHOOSE i \in DOMAIN Dimensions : Dimensions[i] = d
Past(h, d) == Len(Dimensions) - h.left >= Place(d)
Holding(h, d) ==
    \/ h.at = "holding"
    \/ h.at = "consuming" /\ Past(h, d)
    \/ h.at = "releasing" /\ ~ Past(h, d)
HeldBy(h, d) == IF Holding(h, d) THEN h.want[d] ELSE 0
PromisedTo(h, d) == IF h.at \in {"admitted", "consuming"} /\ ~ Holding(h, d) THEN h.want[d] ELSE 0
Held(hs, d) == Total(Operations, [o \in Operations |-> HeldBy(hs[o], d)])
Promised(hs, d) == Total(Operations, [o \in Operations |-> PromisedTo(hs[o], d)])

Fits(ns, hs) ==
    \A d \in Dims : /\ ns.used[d] = Held(hs, d)
                        /\ ns.used[d] + ns.reserved[d] + Promised(hs, d) <= ns.limit[d]
\* As far as a tier is written, its limits are the tenant's.
Writing(hs) == {o \in Operations : hs[o].at = "applying"}
Applied(n, hs) ==
    /\ \A o \in Writing(hs) : hs[o].tier = n.applied /\ \A p \in Writing(hs) : p = o
    /\ \A d \in Dims \ n.updated :
         n.ns.limit[d] # LimitsOf[n.applied][d] => \E o \in Writing(hs) : ~ Past(hs[o], d)
Early(n, hs) == n.ns = NoNamespace /\ \A o \in Operations : hs[o].at \in {"idle", "creating"}

Kept(n, hs) ==
    /\ \A o \in Operations : Along(hs[o])
    /\ n.ns.status = "none" => Early(n, hs)
    /\ ~ n.disturbed => Fits(n.ns, hs)
    /\ n.ns.status # "none" /\ ~ n.torn => Applied(n, hs)
TenancyInv == TenancyTypes /\ Kept(namespace, holds)

-----------------------------------------------------------------------------
LEMMA DimensionsKnown ==
    ASSUME TenancyAssumption
    PROVE  /\ \A i \in DOMAIN Dimensions : Dimensions[i] \in Dims /\ Place(Dimensions[i]) = i
           /\ \A d \in Dims : Place(d) \in DOMAIN Dimensions /\ Dimensions[Place(d)] = d
           /\ Len(Dimensions) \in Nat \ {0} /\ DOMAIN Dimensions = 1 .. Len(Dimensions)
<1>1. \A i \in DOMAIN Dimensions : Dimensions[i] \in Dims
  BY DEF Dims, Range
<1>2. \A d \in Dims : \E i \in DOMAIN Dimensions : Dimensions[i] = d
  BY DEF Dims, Range
<1>3. \A d \in Dims : Place(d) \in DOMAIN Dimensions /\ Dimensions[Place(d)] = d
  BY Zenon, <1>2 DEF Place
<1>4. \A i, j \in DOMAIN Dimensions : Dimensions[i] = Dimensions[j] => i = j
  BY DEF TenancyAssumption, IsInjective
<1>5. \A i \in DOMAIN Dimensions : Place(Dimensions[i]) = i
  BY <1>1, <1>3, <1>4
<1>6. Dimensions \in Seq(Dims) /\ Dimensions # <<>>
  BY DEF TenancyAssumption
<1> QED
  BY <1>1, <1>3, <1>5, <1>6

LEMMA ClampIs == ASSUME NEW x \in Int PROVE Max({0, x}) = IF x >= 0 THEN x ELSE 0
<1>1. \E z \in {0, x} : \A y \in {0, x} : z >= y
  OBVIOUS
<1>2. Max({0, x}) \in {0, x} /\ \A y \in {0, x} : Max({0, x}) >= y
  BY <1>1 DEF Max
<1> QED
  BY <1>2

\* The sum over those that are in T is that over all, the others counting nothing.
LEMMA MaskedTotal ==
    ASSUME NEW S, IsFiniteSet(S), NEW c, NEW d, NEW T \in SUBSET S,
           \A x \in S : d[x] \in Nat /\ d[x] = IF x \in T THEN c[x] ELSE 0
    PROVE  Total(T, c) = Total(S, d)
<1>1. PICK B : B = {s \in SUBSET S : Total(T \cap s, c) # Total(s, d)}
  OBVIOUS
<1>2. ASSUME NEW s \in B, \A t \in B : t \subseteq s => t = s PROVE FALSE
  <2>1. s \in SUBSET S /\ Total(T \cap s, c) # Total(s, d) /\ IsFiniteSet(s)
    BY <1>1, FS_Subset
  <2>2. s # {}
    <3>1. s = {} => T \cap s = {}
      OBVIOUS
    <3> QED
      BY <2>1, <3>1, NoTotal
  <2>3. PICK z : z \in s
    BY <2>2
  <2>4. PICK u : u = s \ {z}
    OBVIOUS
  <2>5. u \in SUBSET S /\ u \subseteq s /\ u # s
    BY <2>1, <2>3, <2>4
  <2>6. Total(T \cap u, c) = Total(u, d)
    BY <1>1, <1>2, <2>5
  <2>7. Total(s, d) = Total(u, d) + d[z]
    <3>1. \A x \in s : d[x] \in Nat
      BY <2>1
    <3> QED
      BY <2>1, <2>3, <2>4, <3>1, TotalWithout
  <2>8. CASE z \in T
    <3>1. PICK a : a = T \cap s
      OBVIOUS
    <3>2. T \cap u = a \ {z} /\ z \in a /\ a \subseteq s
      BY <2>3, <2>4, <2>8, <3>1
    <3>3. \A x \in a : c[x] \in Nat
      BY <2>1, <3>1
    <3>4. IsFiniteSet(a)
      BY <2>1, <3>2, FS_Subset
    <3>5. Total(a, c) = Total(a \ {z}, c) + c[z]
      BY <3>2, <3>3, <3>4, TotalWithout
    <3>6. d[z] = c[z]
      BY <2>1, <2>3, <2>8
    <3> QED
      BY <2>1, <2>6, <2>7, <3>1, <3>2, <3>5, <3>6
  <2>9. CASE z \notin T
    <3>1. T \cap u = T \cap s
      BY <2>4, <2>9
    <3>2. d[z] = 0
      BY <2>1, <2>3, <2>9
    <3>3. Total(u, d) \in Nat
      <4>1. IsFiniteSet(u) /\ \A x \in u : d[x] \in Nat
        BY <2>5, FS_Subset
      <4> QED
        BY <4>1, TotalIsNat
    <3> QED
      BY <2>1, <2>6, <2>7, <3>1, <3>2, <3>3
  <2> QED
    BY <2>8, <2>9
<1>3. B = {}
  <2>1. B \in SUBSET (SUBSET S)
    BY <1>1
  <2>2. ~ \E s \in B : \A t \in B : t \subseteq s => t = s
    BY <1>2
  <2> QED
    BY <2>1, <2>2, SmallestSet
<1>4. Total(T \cap S, c) = Total(S, d)
  BY <1>1, <1>3
<1>5. T \cap S = T
  OBVIOUS
<1> QED
  BY <1>4, <1>5

\* One summand changes.
OneMoves(S, x, c, d) ==
    \A y \in S : c[y] \in Nat /\ d[y] \in Nat /\ (y # x => c[y] = d[y])
LEMMA TotalMoves ==
    ASSUME NEW S, IsFiniteSet(S), NEW c, NEW d, NEW x \in S, OneMoves(S, x, c, d)
    PROVE  /\ Total(S, d) + c[x] = Total(S, c) + d[x]
           /\ Total(S, c) \in Nat /\ Total(S, d) \in Nat
           /\ c[x] <= Total(S, c)
<1>1. PICK u : u = S \ {x}
  OBVIOUS
<1>2. IsFiniteSet(u) /\ u \in SUBSET S
  BY <1>1, FS_Subset
<1>a. /\ \A y \in S : c[y] \in Nat
      /\ \A y \in S : d[y] \in Nat
  BY DEF OneMoves
<1>3. Total(S, c) = Total(u, c) + c[x] /\ Total(S, d) = Total(u, d) + d[x]
  BY <1>1, <1>a, TotalWithout
<1>4. Total(u, c) = Total(u, d)
  <2>1. \A y \in u : c[y] = d[y]
    BY <1>1 DEF OneMoves
  <2> QED
    BY <1>2, <2>1, SameTotal
<1>5. Total(u, c) \in Nat
  <2>1. \A y \in u : c[y] \in Nat
    BY <1>1, <1>a
  <2> QED
    BY <1>2, <2>1, TotalIsNat
<1>6. c[x] \in Nat /\ d[x] \in Nat
  BY <1>a
<1> QED
  BY <1>3, <1>4, <1>5, <1>6

LEMMA TakenTyped ==
    ASSUME NEW h \in HoldRecords, NEW d \in Dims
    PROVE  HeldBy(h, d) \in Nat /\ PromisedTo(h, d) \in Nat
<1>1. h.want[d] \in Nat
  BY DEF HoldRecords, Uses
<1> QED
  BY <1>1 DEF HeldBy, PromisedTo

LEMMA HoldMoves ==
    ASSUME TenancyAssumption, NEW hs \in [Operations -> HoldRecords], NEW o \in Operations, NEW h \in HoldRecords,
           NEW ht, ht = [hs EXCEPT ![o] = h], NEW d \in Dims
    PROVE  /\ Held(ht, d) + HeldBy(hs[o], d) = Held(hs, d) + HeldBy(h, d)
           /\ Promised(ht, d) + PromisedTo(hs[o], d) = Promised(hs, d) + PromisedTo(h, d)
           /\ Held(hs, d) \in Nat /\ Held(ht, d) \in Nat /\ Promised(hs, d) \in Nat /\ Promised(ht, d) \in Nat
           /\ HeldBy(hs[o], d) <= Held(hs, d)
<1>1. IsFiniteSet(Operations)
  <2>1. IsFiniteSet(Operations)
    BY DEF TenancyAssumption
  <2> QED
    BY <2>1 DEF IsFiniteSet, IsFiniteSet
<1>2. ht \in [Operations -> HoldRecords] /\ ht[o] = h /\ \A p \in Operations : p # o => ht[p] = hs[p]
  OBVIOUS
<1>3. PICK a, b : a = [p \in Operations |-> HeldBy(hs[p], d)] /\ b = [p \in Operations |-> HeldBy(ht[p], d)]
  OBVIOUS
<1>4. /\ Total(Operations, b) + a[o] = Total(Operations, a) + b[o]
      /\ Total(Operations, a) \in Nat /\ Total(Operations, b) \in Nat /\ a[o] <= Total(Operations, a)
  <2>1. \A p \in Operations : a[p] \in Nat /\ b[p] \in Nat
    BY <1>2, <1>3, TakenTyped
  <2>2. \A p \in Operations : p # o => a[p] = b[p]
    BY <1>2, <1>3
  <2>3. OneMoves(Operations, o, a, b)
    BY <2>1, <2>2 DEF OneMoves
  <2> QED
    BY <1>1, <2>3, TotalMoves
<1>5. PICK q, r : q = [p \in Operations |-> PromisedTo(hs[p], d)] /\ r = [p \in Operations |-> PromisedTo(ht[p], d)]
  OBVIOUS
<1>6. /\ Total(Operations, r) + q[o] = Total(Operations, q) + r[o]
      /\ Total(Operations, q) \in Nat /\ Total(Operations, r) \in Nat
  <2>1. \A p \in Operations : q[p] \in Nat /\ r[p] \in Nat
    BY <1>2, <1>5, TakenTyped
  <2>2. \A p \in Operations : p # o => q[p] = r[p]
    BY <1>2, <1>5
  <2>3. OneMoves(Operations, o, q, r)
    BY <2>1, <2>2 DEF OneMoves
  <2> QED
    BY <1>1, <2>3, TotalMoves
<1>7. a[o] = HeldBy(hs[o], d) /\ b[o] = HeldBy(h, d) /\ q[o] = PromisedTo(hs[o], d) /\ r[o] = PromisedTo(h, d)
  BY <1>2, <1>3, <1>5
<1>8. /\ Held(hs, d) = Total(Operations, a) /\ Held(ht, d) = Total(Operations, b)
      /\ Promised(hs, d) = Total(Operations, q) /\ Promised(ht, d) = Total(Operations, r)
  BY <1>3, <1>5 DEF Held, Promised
<1> QED
  BY <1>4, <1>6, <1>7, <1>8

LEMMA TenancyNow == TenancyInv' <=> namespace' \in Namespaces /\ holds' \in [Operations -> HoldRecords] /\ Kept(namespace', holds')
  BY DEF TenancyInv, TenancyTypes

LEMMA FitsStep ==
    ASSUME TenancyAssumption, NEW hs \in [Operations -> HoldRecords], NEW o \in Operations, NEW h \in HoldRecords,
           NEW ht, ht = [hs EXCEPT ![o] = h], NEW ns \in Tenancies, NEW nt \in Tenancies, Fits(ns, hs),
           \A d \in Dims :
             /\ nt.used[d] + HeldBy(hs[o], d) = ns.used[d] + HeldBy(h, d)
             /\ nt.used[d] + nt.reserved[d] + PromisedTo(h, d) + ns.limit[d]
                  <= ns.used[d] + ns.reserved[d] + PromisedTo(hs[o], d) + nt.limit[d]
    PROVE  Fits(nt, ht)
<1> SUFFICES ASSUME NEW d \in Dims
             PROVE  nt.used[d] = Held(ht, d) /\ nt.used[d] + nt.reserved[d] + Promised(ht, d) <= nt.limit[d]
  BY DEF Fits
<1>1. PICK u \in Nat, v \in Nat, r \in Nat, q \in Nat, l \in Nat, m \in Nat :
        /\ u = ns.used[d] /\ v = nt.used[d] /\ r = ns.reserved[d] /\ q = nt.reserved[d]
        /\ l = ns.limit[d] /\ m = nt.limit[d]
  BY DEF Tenancies, Uses
<1>2. PICK a \in Nat, b \in Nat, x \in Nat, y \in Nat :
        a = HeldBy(hs[o], d) /\ b = HeldBy(h, d) /\ x = PromisedTo(hs[o], d) /\ y = PromisedTo(h, d)
  BY TakenTyped
<1>3. PICK s \in Nat, t \in Nat, e \in Nat, f \in Nat :
        s = Held(hs, d) /\ t = Held(ht, d) /\ e = Promised(hs, d) /\ f = Promised(ht, d)
  BY HoldMoves
<1>4. t + a = s + b /\ f + x = e + y
  BY <1>2, <1>3, HoldMoves
<1>5. u = s /\ u + r + e <= l
  BY <1>1, <1>3 DEF Fits
<1>6. v + a = u + b /\ v + q + y + l <= u + r + x + m
  BY <1>1, <1>2
<1>7. v = t /\ v + q + f <= m
  BY <1>4, <1>5, <1>6
<1> QED
  BY <1>1, <1>3, <1>7

\* An operation that neither holds nor is promised anything, before and after.
LEMMA FitsRest ==
    ASSUME TenancyAssumption, NEW hs \in [Operations -> HoldRecords], NEW o \in Operations, NEW h \in HoldRecords,
           NEW ht, ht = [hs EXCEPT ![o] = h], NEW ns \in Tenancies, NEW nt \in Tenancies, Fits(ns, hs),
           hs[o].at \in {"idle", "creating", "applying", "admitted"}, h.at \in {"idle", "creating", "applying"},
           nt.used = ns.used, nt.reserved = ns.reserved, \A d \in Dims : nt.limit[d] >= ns.limit[d]
    PROVE  Fits(nt, ht)
<1>1. ASSUME NEW d \in Dims
      PROVE  /\ nt.used[d] + HeldBy(hs[o], d) = ns.used[d] + HeldBy(h, d)
             /\ nt.used[d] + nt.reserved[d] + PromisedTo(h, d) + ns.limit[d]
                  <= ns.used[d] + ns.reserved[d] + PromisedTo(hs[o], d) + nt.limit[d]
  <2>1. HeldBy(hs[o], d) = 0 /\ HeldBy(h, d) = 0 /\ PromisedTo(h, d) = 0
    BY DEF HeldBy, PromisedTo, Holding
  <2>2. PICK x \in Nat : x = PromisedTo(hs[o], d)
    BY TakenTyped
  <2>3. PICK u \in Nat, r \in Nat, l \in Nat, m \in Nat :
          u = ns.used[d] /\ r = ns.reserved[d] /\ l = ns.limit[d] /\ m = nt.limit[d]
    BY DEF Tenancies, Uses
  <2>4. nt.used[d] = u /\ nt.reserved[d] = r /\ m >= l
    BY <2>3
  <2> QED
    BY <2>1, <2>2, <2>3, <2>4
<1> QED
  BY <1>1, FitsStep

LEMMA NothingIs ==
    ASSUME TenancyAssumption
    PROVE  /\ Nothing \in HoldRecords /\ Nothing.at = "idle" /\ Along(Nothing)
           /\ NoNamespace \in Tenancies /\ NoNamespace.status = "none"
           /\ \A d \in Dims : NoNamespace.used[d] = 0 /\ NoNamespace.reserved[d] = 0 /\ NoNamespace.limit[d] = 0
<1>1. Zero \in Uses /\ \A d \in Dims : Zero[d] = 0
  BY DEF Zero, Uses
<1>2. Len(Dimensions) \in Nat
  BY DimensionsKnown
<1>3. 0 \in 0 .. Len(Dimensions)
  BY <1>2
<1>4. Nothing \in HoldRecords /\ Nothing.at = "idle"
  BY <1>1, <1>3 DEF Nothing, HoldRecords, Stages, TierNames
<1>5. /\ NoNamespace \in Tenancies /\ NoNamespace.status = "none"
      /\ NoNamespace.used = Zero /\ NoNamespace.reserved = Zero /\ NoNamespace.limit = Zero
  BY <1>1 DEF NoNamespace, Tenancies, TierNames
<1> QED
  BY <1>1, <1>4, <1>5 DEF Along

LEMMA TenancyInit == TenancyAssumption /\ TenantInit => TenancyInv
<1> SUFFICES ASSUME TenancyAssumption, TenantInit PROVE TenancyInv
  OBVIOUS
<1>1. /\ namespace = [ns |-> NoNamespace, disturbed |-> FALSE, applied |-> "none", updated |-> {}, torn |-> FALSE]
      /\ holds = [o \in Operations |-> Nothing]
  BY DEF TenantInit
<1>2. namespace \in Namespaces /\ namespace.ns = NoNamespace
  BY <1>1, NothingIs DEF Namespaces, TierNames
<1>3. holds \in [Operations -> HoldRecords] /\ \A o \in Operations : holds[o] = Nothing
  BY <1>1, NothingIs
<1>4. ASSUME NEW d \in Dims PROVE Held(holds, d) = 0 /\ Promised(holds, d) = 0
  <2>1. PICK z : z = [o \in Operations |-> 0]
    OBVIOUS
  <2>2. Total(Operations, z) = 0
    <3>1. IsFiniteSet(Operations)
      <4>1. IsFiniteSet(Operations)
        BY DEF TenancyAssumption
      <4> QED
        BY <4>1 DEF IsFiniteSet, IsFiniteSet
    <3>2. Total({}, z) = Total(Operations, z)
      <4>1. \A x \in Operations : z[x] \in Nat /\ z[x] = IF x \in {} THEN z[x] ELSE 0
        BY <2>1
      <4>2. {} \in SUBSET Operations
        OBVIOUS
      <4> QED
        BY <3>1, <4>1, <4>2, MaskedTotal
    <3> QED
      BY <3>2, NoTotal
  <2>3. \A o \in Operations : HeldBy(holds[o], d) = 0 /\ PromisedTo(holds[o], d) = 0
    BY <1>3, NothingIs DEF HeldBy, PromisedTo, Holding
  <2>4. [o \in Operations |-> HeldBy(holds[o], d)] = z /\ [o \in Operations |-> PromisedTo(holds[o], d)] = z
    BY <2>1, <2>3
  <2> QED
    BY <2>2, <2>4 DEF Held, Promised
<1>5. Fits(namespace.ns, holds)
  BY <1>2, <1>4, NothingIs DEF Fits
<1>6. Kept(namespace, holds)
  BY <1>2, <1>3, <1>5, NothingIs DEF Kept, Early
<1> QED
  BY <1>2, <1>3, <1>6 DEF TenancyInv, TenancyTypes

\* Where one operation moves that is not writing a tier, a tier applied stays so.
LEMMA AppliedRest ==
    ASSUME NEW hs \in [Operations -> HoldRecords], NEW o \in Operations, NEW h \in HoldRecords,
           NEW ht, ht = [hs EXCEPT ![o] = h], NEW n, NEW m, Applied(n, hs),
           hs[o].at # "applying", h.at # "applying",
           m.applied = n.applied, m.updated = n.updated, m.ns.limit = n.ns.limit
    PROVE  Applied(m, ht)
<1>1. ht[o] = h /\ \A p \in Operations : p # o => ht[p] = hs[p]
  OBVIOUS
<1>2. Writing(ht) = Writing(hs) /\ \A p \in Writing(hs) : p \in Operations /\ ht[p] = hs[p]
  BY <1>1 DEF Writing
<1> QED
  BY <1>2 DEF Applied

\* What is kept when the operation o becomes h and the namespace m.
LEMMA KeptStep ==
    ASSUME NEW hs \in [Operations -> HoldRecords], NEW o \in Operations, NEW h \in HoldRecords,
           NEW ht, ht = [hs EXCEPT ![o] = h], NEW n, NEW m, Kept(n, hs), Along(h),
           m.ns.status = "none" => Early(m, ht),
           ~ m.disturbed => Fits(m.ns, ht),
           m.ns.status # "none" /\ ~ m.torn => Applied(m, ht)
    PROVE  Kept(m, ht)
<1>1. \A p \in Operations : Along(ht[p])
  BY DEF Kept
<1> QED
  BY <1>1 DEF Kept

\* A limit is set.
LEMMA LimitSetIs ==
    ASSUME namespace \in Namespaces, NEW d \in Dims, NEW limit \in Nat,
           NEW m, m = LimitSet(d, limit)
    PROVE  /\ m \in Namespaces
           /\ m.ns.limit[d] = limit /\ \A e \in Dims : e # d => m.ns.limit[e] = namespace.ns.limit[e]
           /\ m.ns.used = namespace.ns.used /\ m.ns.reserved = namespace.ns.reserved /\ m.ns.status = namespace.ns.status
           /\ m.disturbed <=> namespace.disturbed \/ limit < namespace.ns.limit[d]
           /\ m.applied = namespace.applied /\ m.updated = namespace.updated /\ m.torn = namespace.torn
<1>1. PICK l : l = [namespace.ns.limit EXCEPT ![d] = limit]
  OBVIOUS
<1>2. PICK w : w = [namespace.ns EXCEPT !.limit = l]
  OBVIOUS
<1>3. m = [namespace EXCEPT !.ns = w, !.disturbed = @ \/ limit < namespace.ns.limit[d]]
  BY <1>1, <1>2 DEF LimitSet, Namespaces, Tenancies
<1>4. namespace.ns.limit \in [Dims -> Nat]
  BY DEF Namespaces, Tenancies, Uses
<1>5. l \in [Dims -> Nat] /\ l[d] = limit /\ \A e \in Dims : e # d => l[e] = namespace.ns.limit[e]
  BY <1>1, <1>4
<1>6. w \in Tenancies /\ w.limit = l /\ w.used = namespace.ns.used /\ w.reserved = namespace.ns.reserved /\ w.status = namespace.ns.status
  BY <1>2, <1>5 DEF Namespaces, Tenancies, Uses
<1>7. (namespace.disturbed \/ limit < namespace.ns.limit[d]) \in BOOLEAN
  OBVIOUS
<1> QED
  BY <1>3, <1>5, <1>6, <1>7 DEF Namespaces

LEMMA ConfiguredIs ==
    ASSUME TenancyAssumption
    PROVE  /\ \A t \in Tiers : LimitsOf[t] \in Uses
           /\ \A w \in Wants : w \in Uses
           /\ \A l \in QuotaLimits : l \in Nat
           /\ \A u \in Observations : u \in Nat
  BY DEF TenancyAssumption, Uses

LEMMA TenancyFind ==
    ASSUME TenancyAssumption, TenancyInv, NEW o \in Operations, FindNamespace(o) PROVE TenancyInv'
<1>1. /\ holds[o] = Nothing /\ namespace.ns.status = "none" /\ namespace' = namespace
      /\ holds' = [holds EXCEPT ![o].at = "creating"]
  BY DEF FindNamespace, Found
<1>2. namespace \in Namespaces /\ holds \in [Operations -> HoldRecords] /\ Kept(namespace, holds)
  BY DEF TenancyInv, TenancyTypes
<1>3. PICK h : h = [Nothing EXCEPT !.at = "creating"]
  OBVIOUS
<1>4. h \in HoldRecords /\ h.at = "creating" /\ Along(h)
  BY <1>3, NothingIs DEF HoldRecords, Stages, Along
<1>5. holds' = [holds EXCEPT ![o] = h]
  BY <1>1, <1>2, <1>3
<1>6. holds' \in [Operations -> HoldRecords] /\ holds'[o] = h /\ \A p \in Operations : p # o => holds'[p] = holds[p]
  BY <1>2, <1>4, <1>5
<1>7. Early(namespace, holds')
  BY <1>1, <1>2, <1>4, <1>6 DEF Kept, Early
<1>8. ~ namespace.disturbed => Fits(namespace.ns, holds')
  <2>1. namespace.ns \in Tenancies
    BY <1>2 DEF Namespaces
  <2>2. \A d \in Dims : namespace.ns.limit[d] >= namespace.ns.limit[d]
    BY <2>1 DEF Tenancies, Uses
  <2>3. holds[o].at = "idle"
    BY <1>1, NothingIs
  <2> QED
    BY <1>2, <1>4, <1>5, <2>1, <2>2, <2>3, FitsRest DEF Kept
<1>9. Kept(namespace, holds')
  BY <1>1, <1>2, <1>4, <1>5, <1>7, <1>8, KeptStep
<1> QED
  BY <1>1, <1>2, <1>6, <1>9, TenancyNow

LEMMA TenancyCreate ==
    ASSUME TenancyAssumption, TenancyInv, NEW o \in Operations, NEW tier \in Tiers, CreateNamespace(o, tier)
    PROVE  TenancyInv'
<1>1. /\ holds[o].at = "creating" /\ holds' = [holds EXCEPT ![o] = Nothing]
      /\ namespace' = IF namespace.ns.status # "none" THEN namespace
                      ELSE [namespace EXCEPT !.ns = [NoNamespace EXCEPT !.status = "active", !.tier = tier,
                                                                            !.limit = LimitsOf[tier]],
                                             !.applied = tier]
  BY DEF CreateNamespace, Found
<1>2. namespace \in Namespaces /\ holds \in [Operations -> HoldRecords] /\ Kept(namespace, holds)
  BY DEF TenancyInv, TenancyTypes
<1>3. PICK h : h = Nothing
  OBVIOUS
<1>4. h \in HoldRecords /\ h.at = "idle" /\ Along(h)
  BY <1>3, NothingIs
<1>5. holds' = [holds EXCEPT ![o] = h]
  BY <1>1, <1>3
<1>6. holds' \in [Operations -> HoldRecords] /\ holds'[o] = h /\ \A p \in Operations : p # o => holds'[p] = holds[p]
  BY <1>2, <1>4, <1>5
<1>7. namespace.ns \in Tenancies
  BY <1>2 DEF Namespaces
<1>8. CASE namespace.ns.status # "none"
  <2>1. namespace' = namespace
    BY <1>1, <1>8
  <2>2. ~ namespace.disturbed => Fits(namespace.ns, holds')
    <3>1. \A d \in Dims : namespace.ns.limit[d] >= namespace.ns.limit[d]
      BY <1>7 DEF Tenancies, Uses
    <3> QED
      BY <1>1, <1>2, <1>4, <1>5, <1>7, <3>1, FitsRest DEF Kept
  <2>3. ~ namespace.torn => Applied(namespace, holds')
    <3>1. ~ namespace.torn => Applied(namespace, holds)
      BY <1>2, <1>8 DEF Kept
    <3> QED
      BY <1>1, <1>2, <1>4, <1>5, <3>1, AppliedRest
  <2>4. Kept(namespace, holds')
    BY <1>2, <1>4, <1>5, <1>8, <2>2, <2>3, KeptStep
  <2> QED
    BY <1>2, <1>6, <2>1, <2>4, TenancyNow
<1>9. CASE namespace.ns.status = "none"
  <2>1. PICK w : w = [NoNamespace EXCEPT !.status = "active", !.tier = tier, !.limit = LimitsOf[tier]]
    OBVIOUS
  <2>2. /\ w \in Tenancies /\ w.status = "active" /\ w.limit = LimitsOf[tier]
        /\ w.used = NoNamespace.used /\ w.reserved = NoNamespace.reserved
    BY <2>1, NothingIs, ConfiguredIs DEF Tenancies, TierNames
  <2>3. namespace' = [namespace EXCEPT !.ns = w, !.applied = tier]
    BY <1>1, <1>9, <2>1
  <2>4. /\ namespace' \in Namespaces /\ namespace'.ns = w /\ namespace'.applied = tier
        /\ namespace'.disturbed = namespace.disturbed
    BY <1>2, <2>2, <2>3 DEF Namespaces, TierNames
  <2>5. namespace.ns = NoNamespace /\ \A p \in Operations : holds[p].at \in {"idle", "creating"}
    BY <1>2, <1>9 DEF Kept, Early
  <2>6. ~ namespace.disturbed => Fits(w, holds')
    <3>1. \A d \in Dims : w.limit[d] >= namespace.ns.limit[d]
      BY <2>2, <2>5, NothingIs, ConfiguredIs DEF Uses
    <3> QED
      BY <1>1, <1>2, <1>4, <1>5, <1>7, <2>2, <2>5, <3>1, FitsRest DEF Kept
  <2>7. Applied(namespace', holds')
    <3>1. Writing(holds') = {}
      BY <1>4, <1>6, <2>5 DEF Writing
    <3> QED
      BY <2>2, <2>4, <3>1 DEF Applied
  <2>8. Kept(namespace', holds')
    BY <1>2, <1>4, <1>5, <2>2, <2>4, <2>6, <2>7, KeptStep
  <2> QED
    BY <1>6, <2>4, <2>8, TenancyNow
<1> QED
  BY <1>8, <1>9

\* Nothing an operation holds changes.
LEMMA TenancyStill ==
    ASSUME TenancyAssumption, TenancyInv, holds' = holds, namespace' \in Namespaces,
           namespace.ns.status # "none", namespace'.ns.status # "none",
           ~ namespace'.disturbed => /\ ~ namespace.disturbed
                                     /\ namespace'.ns.used = namespace.ns.used /\ namespace'.ns.reserved = namespace.ns.reserved
                                     /\ \A d \in Dims : namespace'.ns.limit[d] >= namespace.ns.limit[d],
           ~ namespace'.torn /\ (~ namespace.torn => Applied(namespace, holds)) => Applied(namespace', holds)
    PROVE  TenancyInv'
<1>1. namespace \in Namespaces /\ holds \in [Operations -> HoldRecords] /\ Kept(namespace, holds)
  BY DEF TenancyInv, TenancyTypes
<1>2. ~ namespace'.disturbed => Fits(namespace'.ns, holds)
  <2>1. SUFFICES ASSUME ~ namespace'.disturbed, NEW d \in Dims
                 PROVE  /\ namespace'.ns.used[d] = Held(holds, d)
                        /\ namespace'.ns.used[d] + namespace'.ns.reserved[d] + Promised(holds, d) <= namespace'.ns.limit[d]
    BY DEF Fits
  <2>2. /\ namespace.ns.used[d] = Held(holds, d)
        /\ namespace.ns.used[d] + namespace.ns.reserved[d] + Promised(holds, d) <= namespace.ns.limit[d]
    BY <1>1, <2>1 DEF Kept, Fits
  <2>3. PICK u \in Nat, r \in Nat, l \in Nat, m \in Nat :
          /\ u = namespace.ns.used[d] /\ r = namespace.ns.reserved[d] /\ l = namespace.ns.limit[d]
          /\ m = namespace'.ns.limit[d]
    BY <1>1 DEF Namespaces, Tenancies, Uses
  <2>4. PICK a \in Nat : a = Promised(holds, d)
    <3>1. CASE Operations = {}
      <4>1. Total({}, [o \in Operations |-> PromisedTo(holds[o], d)]) = 0
        BY NoTotal
      <4>2. Promised(holds, d) = 0
        BY <3>1, <4>1 DEF Promised
      <4> QED
        BY <4>2
    <3>2. ASSUME NEW o \in Operations PROVE Promised(holds, d) \in Nat
      <4>1. holds[o] \in HoldRecords
        BY <1>1
      <4>2. PICK ht : ht = [holds EXCEPT ![o] = holds[o]]
        OBVIOUS
      <4> QED
        BY <1>1, <4>1, <4>2, HoldMoves
    <3> QED
      BY <3>1, <3>2
  <2>5. u + r + a <= l /\ l <= m
    BY <2>1, <2>2, <2>3, <2>4
  <2> QED
    BY <2>1, <2>2, <2>3, <2>4, <2>5
<1>3. ~ namespace'.torn => Applied(namespace', holds)
  BY <1>1 DEF Kept
<1>4. Kept(namespace', holds)
  BY <1>1, <1>2, <1>3 DEF Kept
<1> QED
  BY <1>1, <1>4, TenancyNow

LEMMA TenancyStatus ==
    ASSUME TenancyAssumption, TenancyInv, NEW s \in {"active", "suspended", "deprovisioning"}, SetStatus(s)
    PROVE  TenancyInv'
<1>1. namespace.ns.status # "none" /\ holds' = holds /\ namespace' = [namespace EXCEPT !.ns.status = s]
  BY DEF SetStatus, Change, Found
<1>2. namespace \in Namespaces
  BY DEF TenancyInv, TenancyTypes
<1>3. PICK w : w = [namespace.ns EXCEPT !.status = s]
  OBVIOUS
<1>4. /\ w \in Tenancies /\ w.status # "none" /\ w.used = namespace.ns.used
      /\ w.reserved = namespace.ns.reserved /\ w.limit = namespace.ns.limit
  BY <1>2, <1>3 DEF Namespaces, Tenancies
<1>5. namespace' = [namespace EXCEPT !.ns = w]
  BY <1>1, <1>2, <1>3 DEF Namespaces
<1>6. /\ namespace' \in Namespaces /\ namespace'.ns = w /\ namespace'.disturbed = namespace.disturbed
      /\ namespace'.applied = namespace.applied /\ namespace'.updated = namespace.updated
      /\ namespace'.torn = namespace.torn
  BY <1>2, <1>4, <1>5 DEF Namespaces
<1>7. \A d \in Dims : namespace'.ns.limit[d] >= namespace.ns.limit[d]
  BY <1>2, <1>4, <1>6 DEF Namespaces, Tenancies, Uses
<1>8. Applied(namespace, holds) => Applied(namespace', holds)
  BY <1>4, <1>6 DEF Applied
<1> QED
  BY <1>1, <1>4, <1>6, <1>7, <1>8, TenancyStill

LEMMA TenancyUpdate ==
    ASSUME TenancyAssumption, TenancyInv, NEW d \in Dims, NEW limit \in QuotaLimits, UpdateQuota(d, limit)
    PROVE  TenancyInv'
<1>1. PICK m : m = LimitSet(d, limit)
  OBVIOUS
<1>2. /\ namespace.ns.status # "none" /\ holds' = holds
      /\ namespace' = [m EXCEPT !.updated = @ \cup {d}, !.torn = @ \/ Writing(holds) # {}]
  BY <1>1 DEF UpdateQuota, Change, Found, Applying, Writing
<1>3. namespace \in Namespaces /\ limit \in Nat
  BY ConfiguredIs DEF TenancyInv, TenancyTypes
<1>4. /\ m \in Namespaces
      /\ m.ns.limit[d] = limit /\ \A e \in Dims : e # d => m.ns.limit[e] = namespace.ns.limit[e]
      /\ m.ns.used = namespace.ns.used /\ m.ns.reserved = namespace.ns.reserved /\ m.ns.status = namespace.ns.status
      /\ m.disturbed <=> namespace.disturbed \/ limit < namespace.ns.limit[d]
      /\ m.applied = namespace.applied /\ m.updated = namespace.updated /\ m.torn = namespace.torn
  BY <1>1, <1>3, LimitSetIs
<1>5. /\ namespace' \in Namespaces /\ namespace'.ns = m.ns /\ namespace'.disturbed = m.disturbed
      /\ namespace'.applied = m.applied /\ namespace'.updated = m.updated \cup {d}
      /\ namespace'.torn <=> m.torn \/ Writing(holds) # {}
  <2>1. (m.torn \/ Writing(holds) # {}) \in BOOLEAN
    OBVIOUS
  <2> QED
    BY <1>2, <1>4, <2>1 DEF Namespaces
<1>6. ~ namespace'.disturbed => ~ namespace.disturbed /\ \A e \in Dims : namespace'.ns.limit[e] >= namespace.ns.limit[e]
  <2>1. \A e \in Dims : namespace.ns.limit[e] \in Nat
    BY <1>3 DEF Namespaces, Tenancies, Uses
  <2> QED
    BY <1>3, <1>4, <1>5, <2>1
<1>7. ASSUME ~ namespace'.torn, ~ namespace.torn => Applied(namespace, holds) PROVE Applied(namespace', holds)
  <2>1. Writing(holds) = {} /\ Applied(namespace, holds)
    BY <1>4, <1>5, <1>7
  <2>2. \A e \in Dims \ namespace.updated : namespace.ns.limit[e] = LimitsOf[namespace.applied][e]
    BY <2>1 DEF Applied
  <2> QED
    BY <1>4, <1>5, <2>1, <2>2 DEF Applied
<1> QED
  BY <1>2, <1>4, <1>5, <1>6, <1>7, TenancyStill

LEMMA TenancyObserve ==
    ASSUME TenancyAssumption, TenancyInv, NEW d \in Dims, NEW used \in Observations, NEW reserved \in Observations,
           RecordUsage(d, used, reserved)
    PROVE  TenancyInv'
<1>1. /\ namespace.ns.status # "none" /\ holds' = holds
      /\ namespace' = [namespace EXCEPT !.ns.used[d] = used, !.ns.reserved[d] = reserved, !.disturbed = TRUE]
  BY DEF RecordUsage, Change, Found
<1>2. namespace \in Namespaces /\ used \in Nat /\ reserved \in Nat
  BY ConfiguredIs DEF TenancyInv, TenancyTypes
<1>3. PICK u, r : u = [namespace.ns.used EXCEPT ![d] = used] /\ r = [namespace.ns.reserved EXCEPT ![d] = reserved]
  OBVIOUS
<1>4. u \in Uses /\ r \in Uses
  BY <1>2, <1>3 DEF Namespaces, Tenancies, Uses
<1>5. PICK w : w = [namespace.ns EXCEPT !.used = u, !.reserved = r]
  OBVIOUS
<1>6. w \in Tenancies /\ w.status = namespace.ns.status /\ w.limit = namespace.ns.limit
  BY <1>2, <1>4, <1>5 DEF Namespaces, Tenancies
<1>7. namespace' = [namespace EXCEPT !.ns = w, !.disturbed = TRUE]
  BY <1>1, <1>2, <1>3, <1>5 DEF Namespaces, Tenancies
<1>8. /\ namespace' \in Namespaces /\ namespace'.ns = w /\ namespace'.disturbed
      /\ namespace'.applied = namespace.applied /\ namespace'.updated = namespace.updated
      /\ namespace'.torn = namespace.torn
  BY <1>2, <1>6, <1>7 DEF Namespaces
<1>9. Applied(namespace, holds) => Applied(namespace', holds)
  BY <1>6, <1>8 DEF Applied
<1> QED
  BY <1>1, <1>6, <1>8, <1>9, TenancyStill

LEMMA TenancyApply ==
    ASSUME TenancyAssumption, TenancyInv, NEW o \in Operations, NEW tier \in Tiers, ApplyTier(o, tier)
    PROVE  TenancyInv'
<1>1. PICK h : h = [Nothing EXCEPT !.at = "applying", !.tier = tier, !.left = Len(Dimensions)]
  OBVIOUS
<1>2. /\ namespace.ns.status # "none" /\ holds[o] = Nothing /\ holds' = [holds EXCEPT ![o] = h]
      /\ namespace' = [namespace EXCEPT !.applied = tier, !.updated = {}, !.torn = Writing(holds) # {}]
  BY <1>1 DEF ApplyTier, Change, Found, Applying, Writing
<1>3. namespace \in Namespaces /\ holds \in [Operations -> HoldRecords] /\ Kept(namespace, holds)
  BY DEF TenancyInv, TenancyTypes
<1>4. Len(Dimensions) \in 0 .. Len(Dimensions) /\ Len(Dimensions) \in 1 .. Len(Dimensions)
  BY DimensionsKnown
<1>5. h \in HoldRecords /\ h.at = "applying" /\ h.left = Len(Dimensions) /\ h.tier = tier
  BY <1>1, <1>4, NothingIs DEF HoldRecords, Stages, TierNames
<1>6. Along(h)
  BY <1>4, <1>5 DEF Along
<1>7. holds' \in [Operations -> HoldRecords] /\ holds'[o] = h /\ \A p \in Operations : p # o => holds'[p] = holds[p]
  BY <1>2, <1>3, <1>5
<1>8. /\ namespace' \in Namespaces /\ namespace'.ns = namespace.ns /\ namespace'.disturbed = namespace.disturbed
      /\ namespace'.applied = tier /\ (namespace'.torn <=> Writing(holds) # {})
  <2>1. (Writing(holds) # {}) \in BOOLEAN
    OBVIOUS
  <2> QED
    BY <1>2, <1>3, <2>1 DEF Namespaces, TierNames
<1>9. ~ namespace'.disturbed => Fits(namespace'.ns, holds')
  <2>1. namespace.ns \in Tenancies /\ holds[o].at = "idle"
    BY <1>2, <1>3, NothingIs DEF Namespaces
  <2>2. \A d \in Dims : namespace.ns.limit[d] >= namespace.ns.limit[d]
    BY <2>1 DEF Tenancies, Uses
  <2>3. ~ namespace.disturbed => Fits(namespace.ns, holds)
    BY <1>3 DEF Kept
  <2> QED
    <3>1. ~ namespace.disturbed => Fits(namespace.ns, holds')
      BY <1>2, <1>3, <1>5, <2>1, <2>2, <2>3, FitsRest
    <3> QED
      BY <1>8, <3>1
<1>10. ~ namespace'.torn => Applied(namespace', holds')
  <2>1. SUFFICES ASSUME Writing(holds) = {} PROVE Applied(namespace', holds')
    BY <1>8
  <2>2. \A p \in Writing(holds') : p = o /\ holds'[p].tier = tier
    BY <1>5, <1>7, <2>1 DEF Writing
  <2>3. o \in Writing(holds') /\ \A d \in Dims : ~ Past(holds'[o], d)
    <3>1. \A d \in Dims : Place(d) \in Nat \ {0}
      BY DimensionsKnown
    <3>2. \A d \in Dims : ~ (Len(Dimensions) - Len(Dimensions) >= Place(d))
      BY <1>4, <3>1
    <3> QED
      BY <1>5, <1>7, <3>2 DEF Writing, Past
  <2> QED
    <3>1. namespace'.applied = tier
      BY <1>8
    <3>2. \A d \in Dims : \E p \in Writing(holds') : ~ Past(holds'[p], d)
      BY <2>3
    <3>3. \A p \in Writing(holds') : holds'[p].tier = namespace'.applied /\ \A q \in Writing(holds') : q = p
      BY <2>2, <3>1
    <3> QED
      BY Zenon, <3>2, <3>3 DEF Applied
<1>11. Kept(namespace', holds')
  <2>1. namespace'.ns.status # "none"
    BY <1>2, <1>8
  <2>2. holds' = [holds EXCEPT ![o] = h] /\ h \in HoldRecords
    BY <1>2, <1>5
  <2>3. holds \in [Operations -> HoldRecords] /\ Kept(namespace, holds)
    BY <1>3
  <2> QED
    BY <1>6, <2>1, <2>2, <2>3, <1>9, <1>10, KeptStep
<1> QED
  BY <1>7, <1>8, <1>11, TenancyNow

LEMMA TenancySetQuota ==
    ASSUME TenancyAssumption, TenancyInv, NEW o \in Operations, SetQuota(o) PROVE TenancyInv'
<1>1. PICK d : d = Dimensions[Len(Dimensions) - holds[o].left + 1]
  OBVIOUS
<1>2. PICK limit : limit = LimitsOf[holds[o].tier][d]
  OBVIOUS
<1>3. PICK h : h = Written(holds[o])
  OBVIOUS
<1>4. namespace \in Namespaces /\ holds \in [Operations -> HoldRecords] /\ Kept(namespace, holds)
  BY DEF TenancyInv, TenancyTypes
<1>5. holds[o].at = "applying" /\ namespace' = LimitSet(d, limit) /\ holds' = [holds EXCEPT ![o] = h]
  BY <1>1, <1>2, <1>3, <1>4 DEF SetQuota
<1>6. PICK l, n \in Nat \ {0} : l = holds[o].left /\ n = Len(Dimensions) /\ l <= n /\ holds[o].tier \in Tiers
  <2>1. Along(holds[o])
    BY <1>4 DEF Kept
  <2>2. holds[o].left \in 1 .. Len(Dimensions) /\ holds[o].tier \in Tiers
    BY <1>5, <2>1 DEF Along
  <2>3. Len(Dimensions) \in Nat \ {0}
    BY DimensionsKnown
  <2>4. holds[o].left \in Nat \ {0} /\ holds[o].left <= Len(Dimensions)
    BY <2>2, <2>3
  <2> QED
    BY <2>2, <2>3, <2>4
<1>7. d \in Dims /\ Place(d) = n - l + 1
  <2>1. n - l + 1 \in 1 .. n
    BY <1>6
  <2> QED
    BY <1>1, <1>6, <2>1, DimensionsKnown
<1>8. limit \in Nat
  BY <1>2, <1>6, <1>7, ConfiguredIs DEF Uses
<1>9. h \in HoldRecords /\ Along(h) /\ (l = 1 => h.at = "idle") /\ (l # 1 => h.at = "applying" /\ h.left = l - 1 /\ h.tier = holds[o].tier)
  <2>1. CASE l = 1
    BY <1>3, <1>6, <2>1, NothingIs DEF Written
  <2>2. CASE l # 1
    <3>1. l - 1 \in 0 .. n /\ l - 1 \in 1 .. n
      BY <1>6, <2>2
    <3>2. h = [holds[o] EXCEPT !.left = l - 1] /\ holds[o] \in HoldRecords
      BY <1>3, <1>4, <1>6, <2>2 DEF Written
    <3>3. h \in HoldRecords /\ h.at = "applying" /\ h.left = l - 1 /\ h.tier = holds[o].tier
      BY <1>5, <1>6, <3>1, <3>2 DEF HoldRecords
    <3> QED
      BY <1>6, <2>2, <3>1, <3>3 DEF Along
  <2> QED
    BY <2>1, <2>2
<1>10. holds' \in [Operations -> HoldRecords] /\ holds'[o] = h /\ \A p \in Operations : p # o => holds'[p] = holds[p]
  BY <1>4, <1>5, <1>9
<1>11. /\ namespace' \in Namespaces
       /\ namespace'.ns.limit[d] = limit /\ \A e \in Dims : e # d => namespace'.ns.limit[e] = namespace.ns.limit[e]
       /\ namespace'.ns.used = namespace.ns.used /\ namespace'.ns.reserved = namespace.ns.reserved
       /\ namespace'.ns.status = namespace.ns.status
       /\ namespace'.disturbed <=> namespace.disturbed \/ limit < namespace.ns.limit[d]
       /\ namespace'.applied = namespace.applied /\ namespace'.updated = namespace.updated /\ namespace'.torn = namespace.torn
  BY <1>4, <1>5, <1>7, <1>8, LimitSetIs
<1>12. ~ namespace'.disturbed => Fits(namespace'.ns, holds')
  <2>1. SUFFICES ASSUME ~ namespace'.disturbed PROVE Fits(namespace'.ns, holds')
    OBVIOUS
  <2>2. namespace.ns \in Tenancies /\ namespace'.ns \in Tenancies
    BY <1>4, <1>11 DEF Namespaces
  <2>3. \A e \in Dims : namespace'.ns.limit[e] >= namespace.ns.limit[e]
    <3>1. \A e \in Dims : namespace.ns.limit[e] \in Nat
      BY <2>2 DEF Tenancies, Uses
    <3> QED
      BY <1>8, <1>11, <2>1, <3>1
  <2>4. Fits(namespace.ns, holds)
    BY <1>4, <1>11, <2>1 DEF Kept
  <2>5. h.at \in {"idle", "creating", "applying"}
    BY <1>9
  <2> QED
    BY <1>4, <1>5, <1>9, <1>11, <2>2, <2>3, <2>4, <2>5, FitsRest
<1>13. holds[o].at \notin {"idle", "creating"} /\ namespace.ns.status # "none"
  BY <1>4, <1>5 DEF Kept, Early
<1>14. ~ namespace'.torn => Applied(namespace', holds')
  <2>1. SUFFICES ASSUME Applied(namespace, holds) PROVE Applied(namespace', holds')
    BY <1>4, <1>11, <1>13 DEF Kept
  <2>2. o \in Writing(holds)
    BY <1>5 DEF Writing
  <2>3. holds[o].tier = namespace.applied /\ \A p \in Writing(holds) : p = o
    BY <2>1, <2>2 DEF Applied
  <2>4. \A p \in Writing(holds') : p = o /\ l # 1
    BY <1>9, <1>10, <2>3 DEF Writing
  <2>5. \A p \in Writing(holds') : holds'[p].tier = namespace.applied
    BY <1>9, <1>10, <2>3, <2>4
  <2>6. l # 1 => o \in Writing(holds')
    BY <1>9, <1>10 DEF Writing
  <2>7. ASSUME NEW e \in Dims \ namespace'.updated, namespace'.ns.limit[e] # LimitsOf[namespace'.applied][e]
        PROVE  l # 1 /\ ~ Past(holds'[o], e)
    <3>1. e # d
      BY <1>2, <1>11, <2>3, <2>7
    <3>2. ~ Past(holds[o], e)
      BY <1>11, <2>1, <2>3, <2>7, <3>1 DEF Applied
    <3>3. PICK i \in Nat : i = Place(e) /\ i \in 1 .. n /\ Dimensions[i] = e
      BY <1>6, <2>7, DimensionsKnown
    <3>4. ~ (n - l >= i)
      BY <1>6, <3>2, <3>3 DEF Past
    <3>5. i # n - l + 1
      BY <1>1, <1>6, <3>1, <3>3
    <3>6. l # 1 /\ ~ (n - (l - 1) >= i)
      BY <3>3, <3>4, <3>5
    <3> QED
      BY <1>6, <1>9, <1>10, <3>3, <3>6 DEF Past
  <2> QED
    BY <1>11, <2>4, <2>5, <2>6, <2>7 DEF Applied
<1>15. Kept(namespace', holds')
  BY <1>4, <1>5, <1>9, <1>11, <1>12, <1>13, <1>14, KeptStep
<1> QED
  BY <1>10, <1>11, <1>15, TenancyNow

LEMMA TenancyTears ==
    ASSUME TenancyAssumption, TenancyInv, NEW o \in Operations, StatementFails(o) PROVE TenancyInv'
<1>1. PICK h : h = Nothing
  OBVIOUS
<1>2. holds[o].at = "applying" /\ holds' = [holds EXCEPT ![o] = h] /\ namespace' = [namespace EXCEPT !.torn = TRUE]
  BY <1>1 DEF StatementFails
<1>3. namespace \in Namespaces /\ holds \in [Operations -> HoldRecords] /\ Kept(namespace, holds)
  BY DEF TenancyInv, TenancyTypes
<1>4. h \in HoldRecords /\ h.at = "idle" /\ Along(h)
  BY <1>1, NothingIs
<1>5. holds' \in [Operations -> HoldRecords]
  BY <1>2, <1>3, <1>4
<1>6. /\ namespace' \in Namespaces /\ namespace'.ns = namespace.ns /\ namespace'.disturbed = namespace.disturbed
      /\ namespace'.torn
  BY <1>2, <1>3 DEF Namespaces
<1>7. ~ namespace'.disturbed => Fits(namespace'.ns, holds')
  <2>1. namespace.ns \in Tenancies
    BY <1>3 DEF Namespaces
  <2>2. \A d \in Dims : namespace.ns.limit[d] >= namespace.ns.limit[d]
    BY <2>1 DEF Tenancies, Uses
  <2>3. ~ namespace.disturbed => Fits(namespace.ns, holds)
    BY <1>3 DEF Kept
  <2> QED
    <3>0. holds[o].at \in {"idle", "creating", "applying", "admitted"} /\ h.at \in {"idle", "creating", "applying"}
      BY <1>2, <1>4
    <3>1. ~ namespace.disturbed => Fits(namespace.ns, holds')
      BY <1>2, <1>3, <1>4, <2>1, <2>2, <2>3, <3>0, FitsRest
    <3> QED
      BY <1>6, <3>1
<1>8. namespace.ns.status # "none"
  BY <1>2, <1>3 DEF Kept, Early
<1>9. Kept(namespace', holds')
  BY <1>2, <1>3, <1>4, <1>6, <1>7, <1>8, KeptStep
<1> QED
  BY <1>5, <1>6, <1>9, TenancyNow

\* Where nobody is between admission and consumption, nothing is promised.
LEMMA NothingPromised ==
    ASSUME TenancyAssumption, NEW hs \in [Operations -> HoldRecords], NEW d \in Dims,
           \A o \in Operations : hs[o].at \notin {"admitted", "consuming"}
    PROVE  Promised(hs, d) = 0
<1>1. PICK z : z = [o \in Operations |-> PromisedTo(hs[o], d)]
  OBVIOUS
<1>2. \A o \in Operations : z[o] = 0
  BY <1>1 DEF PromisedTo
<1>3. IsFiniteSet(Operations)
  <2>1. IsFiniteSet(Operations)
    BY DEF TenancyAssumption
  <2> QED
    BY <2>1 DEF IsFiniteSet, IsFiniteSet
<1>4. Total({}, z) = Total(Operations, z)
  <2>1. \A x \in Operations : z[x] \in Nat /\ z[x] = IF x \in {} THEN z[x] ELSE 0
    BY <1>2
  <2>2. {} \in SUBSET Operations
    OBVIOUS
  <2> QED
    BY <1>3, <2>1, <2>2, MaskedTotal
<1>5. Promised(hs, d) = Total(Operations, z)
  BY <1>1 DEF Promised
<1> QED
  BY <1>4, <1>5, NoTotal

LEMMA TenancyAdmit ==
    ASSUME TenancyAssumption, TenancyInv, NEW o \in Operations, NEW want \in Wants, CheckAdmission(o, want)
    PROVE  TenancyInv'
<1>1. PICK h : h = [Nothing EXCEPT !.at = "admitted", !.want = want, !.left = Len(Dimensions)]
  OBVIOUS
<1>2. /\ namespace.ns.status = "active" /\ holds[o] = Nothing /\ holds' = [holds EXCEPT ![o] = h]
      /\ namespace' = [namespace EXCEPT !.disturbed = @ \/ Between # {}]
  BY <1>1 DEF CheckAdmission
<1>3. namespace \in Namespaces /\ holds \in [Operations -> HoldRecords] /\ Kept(namespace, holds)
  BY DEF TenancyInv, TenancyTypes
<1>4. h \in HoldRecords /\ h.at = "admitted" /\ h.left = Len(Dimensions) /\ h.want = want
  <2>1. Len(Dimensions) \in 0 .. Len(Dimensions) /\ want \in Uses
    BY DimensionsKnown, ConfiguredIs
  <2> QED
    BY <1>1, <2>1, NothingIs DEF HoldRecords, Stages
<1>5. Along(h)
  BY <1>4 DEF Along
<1>6. holds' \in [Operations -> HoldRecords] /\ holds[o].at = "idle"
  BY <1>2, <1>3, <1>4, NothingIs
<1>7. /\ namespace' \in Namespaces /\ namespace'.ns = namespace.ns
      /\ namespace'.applied = namespace.applied /\ namespace'.updated = namespace.updated
      /\ namespace'.torn = namespace.torn
      /\ ~ namespace'.disturbed => ~ namespace.disturbed /\ Between = {}
  <2>1. PICK b \in BOOLEAN : b = (Between # {})
    OBVIOUS
  <2>2. namespace' = [namespace EXCEPT !.disturbed = namespace.disturbed \/ b]
    BY <1>2, <2>1
  <2>3. (namespace.disturbed \/ b) \in BOOLEAN
    OBVIOUS
  <2> QED
    BY <1>3, <2>1, <2>2, <2>3 DEF Namespaces
<1>8. ~ namespace'.disturbed => Fits(namespace.ns, holds')
  <2>1. SUFFICES ASSUME ~ namespace'.disturbed, NEW d \in Dims
                 PROVE  /\ namespace.ns.used[d] = Held(holds', d)
                        /\ namespace.ns.used[d] + namespace.ns.reserved[d] + Promised(holds', d) <= namespace.ns.limit[d]
    BY DEF Fits
  <2>2. Fits(namespace.ns, holds)
    BY <1>3, <1>7, <2>1 DEF Kept
  <2>3. PICK u \in Nat, r \in Nat, l \in Nat, w \in Nat :
          u = namespace.ns.used[d] /\ r = namespace.ns.reserved[d] /\ l = namespace.ns.limit[d] /\ w = want[d]
    <3>1. want \in Uses
      BY ConfiguredIs
    <3> QED
      BY <1>3, <3>1 DEF Namespaces, Tenancies, Uses
  <2>4. \A p \in Operations : holds[p].at \notin {"admitted", "consuming"}
    BY <1>7, <2>1 DEF Between
  <2>5. Promised(holds, d) = 0
    BY <1>3, <2>4, NothingPromised
  <2>6. u = Held(holds, d) /\ u + r <= l
    BY <2>2, <2>3, <2>5 DEF Fits
  <2>7. w <= Available(namespace.ns, d)
    BY <2>3 DEF CheckAdmission
  <2>8. u + r + w <= l
    <3>1. l - u - r \in Int /\ l - u - r >= 0
      BY <2>6
    <3>2. Max({0, l - u - r}) = l - u - r
      BY <3>1, ClampIs
    <3>3. Available(namespace.ns, d) = l - u - r
      BY <2>3, <3>2 DEF Available
    <3> QED
      BY <2>7, <3>3
  <2>9. HeldBy(holds[o], d) = 0 /\ HeldBy(h, d) = 0 /\ PromisedTo(holds[o], d) = 0 /\ PromisedTo(h, d) = w
    BY <1>4, <1>6, <2>3 DEF HeldBy, PromisedTo, Holding
  <2>10. Held(holds', d) = u /\ Promised(holds', d) = w
    <3>1. PICK ht : ht = holds'
      OBVIOUS
    <3>2. /\ Held(ht, d) + HeldBy(holds[o], d) = Held(holds, d) + HeldBy(h, d)
          /\ Promised(ht, d) + PromisedTo(holds[o], d) = Promised(holds, d) + PromisedTo(h, d)
          /\ Held(ht, d) \in Nat /\ Promised(ht, d) \in Nat
      BY <1>2, <1>3, <1>4, <3>1, HoldMoves
    <3>3. Held(ht, d) = u /\ Promised(ht, d) = w
      BY <2>5, <2>6, <2>9, <3>2
    <3> QED
      BY <3>1, <3>3
  <2> QED
    BY <2>3, <2>8, <2>10
<1>9. namespace.ns.status # "none" /\ ~ namespace'.torn => Applied(namespace', holds')
  <2>1. ~ namespace.torn => Applied(namespace, holds)
    BY <1>2, <1>3 DEF Kept
  <2>2. holds' = [holds EXCEPT ![o] = h] /\ holds[o].at # "applying" /\ h.at # "applying" /\ namespace'.ns.limit = namespace.ns.limit
    BY <1>2, <1>4, <1>6, <1>7
  <2> QED
    BY <1>3, <1>4, <1>7, <2>1, <2>2, AppliedRest
<1>10. Kept(namespace', holds')
  <2>1. namespace'.ns.status # "none" /\ (~ namespace'.disturbed => Fits(namespace'.ns, holds'))
    BY <1>2, <1>7, <1>8
  <2>2. holds' = [holds EXCEPT ![o] = h]
    BY <1>2
  <2>3. ~ namespace'.torn => Applied(namespace', holds')
    BY <1>2, <1>9
  <2> QED
    BY <1>3, <1>4, <1>5, <2>1, <2>2, <2>3, KeptStep
<1> QED
  BY <1>6, <1>7, <1>10, TenancyNow

LEMMA TenancyGivesUp ==
    ASSUME TenancyAssumption, TenancyInv, NEW o \in Operations, AllocationFails(o) PROVE TenancyInv'
<1>1. PICK h : h = Nothing
  OBVIOUS
<1>2. holds[o].at = "admitted" /\ holds' = [holds EXCEPT ![o] = h] /\ namespace' = namespace
  BY <1>1 DEF AllocationFails
<1>3. namespace \in Namespaces /\ holds \in [Operations -> HoldRecords] /\ Kept(namespace, holds)
  BY DEF TenancyInv, TenancyTypes
<1>4. h \in HoldRecords /\ h.at = "idle" /\ Along(h)
  BY <1>1, NothingIs
<1>5. holds' \in [Operations -> HoldRecords]
  BY <1>2, <1>3, <1>4
<1>6. ~ namespace.disturbed => Fits(namespace.ns, holds')
  <2>1. namespace.ns \in Tenancies
    BY <1>3 DEF Namespaces
  <2>2. \A d \in Dims : namespace.ns.limit[d] >= namespace.ns.limit[d]
    BY <2>1 DEF Tenancies, Uses
  <2>3. ~ namespace.disturbed => Fits(namespace.ns, holds)
    BY <1>3 DEF Kept
  <2>4. holds[o].at \in {"idle", "creating", "applying", "admitted"} /\ h.at \in {"idle", "creating", "applying"}
    BY <1>2, <1>4
  <2> QED
    BY <1>2, <1>3, <1>4, <2>1, <2>2, <2>3, <2>4, FitsRest
<1>7. namespace.ns.status # "none"
  BY <1>2, <1>3 DEF Kept, Early
<1>8. ~ namespace.torn => Applied(namespace, holds')
  <2>1. ~ namespace.torn => Applied(namespace, holds)
    BY <1>3, <1>7 DEF Kept
  <2> QED
    BY <1>2, <1>3, <1>4, <2>1, AppliedRest
<1>9. Kept(namespace, holds')
  BY <1>2, <1>3, <1>4, <1>6, <1>7, <1>8, KeptStep
<1> QED
  BY <1>2, <1>3, <1>5, <1>9, TenancyNow

\* What is used of a dimension moves, and never falls below zero.
UsageMoved(c, delta) == [namespace EXCEPT !.ns = Incremented(namespace.ns, c, delta)]
LEMMA IncrementedIs ==
    ASSUME namespace \in Namespaces, NEW c \in Dims, NEW delta \in Int,
           NEW m, m = UsageMoved(c, delta)
    PROVE  /\ m \in Namespaces
           /\ m.ns.used[c] = IF namespace.ns.used[c] + delta >= 0 THEN namespace.ns.used[c] + delta ELSE 0
           /\ \A e \in Dims : e # c => m.ns.used[e] = namespace.ns.used[e]
           /\ m.ns.reserved = namespace.ns.reserved /\ m.ns.limit = namespace.ns.limit
           /\ m.ns.status = namespace.ns.status /\ m.disturbed = namespace.disturbed
           /\ m.applied = namespace.applied /\ m.updated = namespace.updated /\ m.torn = namespace.torn
<1>1. namespace.ns \in Tenancies /\ namespace.ns.used \in [Dims -> Nat]
  BY DEF Namespaces, Tenancies, Uses
<1>2. PICK x \in Int : x = namespace.ns.used[c] + delta
  BY <1>1
<1>3. PICK y \in Nat : y = (IF x >= 0 THEN x ELSE 0) /\ y = Max({0, x})
  <2>1. (IF x >= 0 THEN x ELSE 0) \in Nat
    OBVIOUS
  <2> QED
    BY <2>1, ClampIs
<1>4. PICK u : u = [namespace.ns.used EXCEPT ![c] = y]
  OBVIOUS
<1>5. u \in [Dims -> Nat] /\ u[c] = y /\ \A e \in Dims : e # c => u[e] = namespace.ns.used[e]
  BY <1>1, <1>4
<1>6. PICK w : w = [namespace.ns EXCEPT !.used = u]
  OBVIOUS
<1>7. /\ w \in Tenancies /\ w.used = u /\ w.reserved = namespace.ns.reserved
      /\ w.limit = namespace.ns.limit /\ w.status = namespace.ns.status
  BY <1>1, <1>5, <1>6 DEF Tenancies, Uses
<1>8. Incremented(namespace.ns, c, delta) = w
  BY <1>1, <1>2, <1>3, <1>4, <1>6 DEF Incremented, Tenancies
<1>9. m = [namespace EXCEPT !.ns = w]
  BY <1>8 DEF UsageMoved
<1>10. /\ m \in Namespaces /\ m.ns = w /\ m.disturbed = namespace.disturbed
       /\ m.applied = namespace.applied /\ m.updated = namespace.updated /\ m.torn = namespace.torn
  BY <1>7, <1>9 DEF Namespaces
<1> QED
  BY <1>2, <1>3, <1>5, <1>7, <1>10

\* A dimension further.
LEMMA SteppedIs ==
    ASSUME TenancyAssumption, NEW g \in HoldRecords, Along(g), g.at \in {"admitted", "consuming", "holding", "releasing"},
           NEW from \in {"consuming", "releasing"}, NEW over \in {"holding", "idle"},
           NEW h, h = Stepped(g, from, over)
    PROVE  /\ g.left \in 1 .. Len(Dimensions) /\ h \in HoldRecords /\ Along(h) /\ h.at \notin {"applying", "creating", "admitted"}
           /\ g.left # 1 => h.at = from /\ h.left = g.left - 1 /\ h.want = g.want
           /\ g.left = 1 => h.at = over /\ (over # "idle" => h.want = g.want)
<1>1. Len(Dimensions) \in Nat \ {0}
  BY DimensionsKnown
<1>2. g.left \in 1 .. Len(Dimensions)
  BY <1>1 DEF Along
<1>3. CASE g.left # 1
  <2>1. g.left > 1 /\ g.left - 1 \in 0 .. Len(Dimensions) /\ g.left - 1 \in 1 .. Len(Dimensions) - 1
    BY <1>1, <1>2, <1>3
  <2>2. h = [g EXCEPT !.at = from, !.left = g.left - 1]
    BY <2>1 DEF Stepped
  <2>3. h \in HoldRecords /\ h.at = from /\ h.left = g.left - 1 /\ h.want = g.want
    BY <2>1, <2>2 DEF HoldRecords, Stages
  <2> QED
    BY <1>2, <1>3, <2>1, <2>3 DEF Along
<1>4. CASE g.left = 1 /\ over = "idle"
  <2>1. h = Nothing
    BY <1>4 DEF Stepped
  <2> QED
    BY <1>2, <1>4, <2>1, NothingIs
<1>5. CASE g.left = 1 /\ over = "holding"
  <2>1. h = [g EXCEPT !.at = over, !.left = Len(Dimensions)]
    BY <1>5 DEF Stepped
  <2>2. Len(Dimensions) \in 0 .. Len(Dimensions)
    BY <1>1
  <2>3. h \in HoldRecords /\ h.at = over /\ h.left = Len(Dimensions) /\ h.want = g.want
    BY <1>5, <2>1, <2>2 DEF HoldRecords, Stages
  <2> QED
    BY <1>2, <1>5, <2>3 DEF Along
<1> QED
  BY <1>3, <1>4, <1>5

LEMMA TenancyConsume ==
    ASSUME TenancyAssumption, TenancyInv, NEW o \in Operations, Consume(o) PROVE TenancyInv'
<1>1. PICK c, g, h : c = DimensionOf(o) /\ g = holds[o] /\ h = Stepped(g, "consuming", "holding")
  OBVIOUS
<1>2. /\ g.at \in {"admitted", "consuming"} /\ holds' = [holds EXCEPT ![o] = h]
      /\ namespace' = [namespace EXCEPT !.ns = Incremented(@, c, g.want[c])]
  BY <1>1 DEF Consume
<1>3. namespace \in Namespaces /\ holds \in [Operations -> HoldRecords] /\ Kept(namespace, holds)
  BY DEF TenancyInv, TenancyTypes
<1>4. g \in HoldRecords /\ Along(g)
  BY <1>1, <1>3 DEF Kept
<1>5. /\ g.left \in 1 .. Len(Dimensions) /\ h \in HoldRecords /\ Along(h) /\ h.at \notin {"applying", "creating", "admitted"}
      /\ g.left # 1 => h.at = "consuming" /\ h.left = g.left - 1
      /\ g.left = 1 => h.at = "holding"
      /\ h.want = g.want
  BY <1>1, <1>2, <1>4, SteppedIs
<1>6. PICK n, l \in Nat \ {0} : n = Len(Dimensions) /\ l = g.left /\ l <= n
  <2>1. Len(Dimensions) \in Nat \ {0}
    BY DimensionsKnown
  <2> QED
    BY <1>5, <2>1
<1>7. c \in Dims /\ Place(c) = n - l + 1 /\ c = Dimensions[n - l + 1]
  <2>1. n - l + 1 \in 1 .. n
    BY <1>6
  <2>2. c = Dimensions[n - l + 1]
    BY <1>1, <1>6 DEF DimensionOf
  <2> QED
    BY <1>6, <2>1, <2>2, DimensionsKnown
<1>8. g.want \in [Dims -> Nat] /\ g.want[c] \in Nat
  BY <1>4, <1>7 DEF HoldRecords, Uses
<1>9. /\ namespace' \in Namespaces
      /\ namespace'.ns.used[c] = namespace.ns.used[c] + g.want[c]
      /\ \A e \in Dims : e # c => namespace'.ns.used[e] = namespace.ns.used[e]
      /\ namespace'.ns.reserved = namespace.ns.reserved /\ namespace'.ns.limit = namespace.ns.limit
      /\ namespace'.ns.status = namespace.ns.status /\ namespace'.disturbed = namespace.disturbed
      /\ namespace'.applied = namespace.applied /\ namespace'.updated = namespace.updated /\ namespace'.torn = namespace.torn
  <2>1. PICK m : m = namespace'
    OBVIOUS
  <2>0. PICK delta \in Nat : delta = g.want[c]
    BY <1>8
  <2>2. m = UsageMoved(c, delta) /\ delta \in Int
    BY <1>2, <2>0, <2>1 DEF UsageMoved
  <2>3. namespace.ns.used[c] \in Nat
    BY <1>3, <1>7 DEF Namespaces, Tenancies, Uses
  <2>4. namespace.ns.used[c] + delta >= 0
    BY <2>0, <2>3
  <2>5. /\ m \in Namespaces
        /\ m.ns.used[c] = IF namespace.ns.used[c] + delta >= 0 THEN namespace.ns.used[c] + delta ELSE 0
        /\ \A e \in Dims : e # c => m.ns.used[e] = namespace.ns.used[e]
        /\ m.ns.reserved = namespace.ns.reserved /\ m.ns.limit = namespace.ns.limit
        /\ m.ns.status = namespace.ns.status /\ m.disturbed = namespace.disturbed
        /\ m.applied = namespace.applied /\ m.updated = namespace.updated /\ m.torn = namespace.torn
    BY <1>3, <1>7, <2>2, IncrementedIs
  <2> QED
    BY <2>0, <2>1, <2>4, <2>5
<1>10. /\ ~ Holding(g, c) /\ Holding(h, c)
       /\ \A e \in Dims : e # c => (Holding(h, e) <=> Holding(g, e))
  <2>1. ASSUME NEW e \in Dims
        PROVE  /\ e # c => Place(e) # n - l + 1
               /\ Place(e) \in 1 .. n
    BY <1>6, <1>7, DimensionsKnown
  <2>2. ASSUME NEW e \in Dims PROVE Holding(g, e) <=> n - l >= Place(e)
    <3>1. CASE g.at = "admitted"
      <4>1. l = n
        BY <1>4, <1>6, <3>1 DEF Along
      <4>2. ~ (n - l >= Place(e))
        BY <2>1, <4>1
      <4> QED
        BY <3>1, <4>2 DEF Holding
    <3>2. CASE g.at = "consuming"
      BY <1>6, <3>2 DEF Holding, Past
    <3> QED
      BY <1>2, <3>1, <3>2
  <2>3. ASSUME NEW e \in Dims PROVE Holding(h, e) <=> n - (l - 1) >= Place(e)
    <3>1. CASE l = 1
      <4>1. n - (l - 1) >= Place(e)
        BY <2>1, <3>1
      <4> QED
        BY <1>5, <1>6, <3>1, <4>1 DEF Holding
    <3>2. CASE l # 1
      BY <1>5, <1>6, <3>2 DEF Holding, Past
    <3> QED
      BY <3>1, <3>2
  <2>4. ASSUME NEW e \in Dims, e # c PROVE Holding(h, e) <=> Holding(g, e)
    <3>1. PICK i \in 1 .. n : i = Place(e) /\ i # n - l + 1
      BY <2>1, <2>4
    <3>2. n - (l - 1) >= i <=> n - l >= i
      BY <1>6, <3>1
    <3> QED
      BY <2>2, <2>3, <3>1, <3>2
  <2>5. ~ Holding(g, c) /\ Holding(h, c)
    BY <1>6, <1>7, <2>2, <2>3
  <2> QED
    BY <2>4, <2>5
<1>11. ~ namespace'.disturbed => Fits(namespace'.ns, holds')
  <2>1. ASSUME NEW d \in Dims
        PROVE  /\ namespace'.ns.used[d] + HeldBy(holds[o], d) = namespace.ns.used[d] + HeldBy(h, d)
               /\ namespace'.ns.used[d] + namespace'.ns.reserved[d] + PromisedTo(h, d) + namespace.ns.limit[d]
                    <= namespace.ns.used[d] + namespace.ns.reserved[d] + PromisedTo(holds[o], d) + namespace'.ns.limit[d]
    <3>1. PICK u \in Nat, r \in Nat, q \in Nat, w \in Nat :
            u = namespace.ns.used[d] /\ r = namespace.ns.reserved[d] /\ q = namespace.ns.limit[d] /\ w = g.want[d]
      BY <1>3, <1>8 DEF Namespaces, Tenancies, Uses
    <3>2. namespace'.ns.reserved[d] = r /\ namespace'.ns.limit[d] = q
      BY <1>9, <3>1
    <3>3. CASE d = c
      <4>1. HeldBy(g, d) = 0 /\ HeldBy(h, d) = w
        BY <1>5, <1>10, <3>1, <3>3 DEF HeldBy
      <4>2. PromisedTo(g, d) = w /\ PromisedTo(h, d) = 0
        BY <1>2, <1>10, <3>1, <3>3 DEF PromisedTo
      <4>3. namespace'.ns.used[d] = u + w
        BY <1>9, <3>1, <3>3
      <4> QED
        BY <1>1, <3>1, <3>2, <4>1, <4>2, <4>3
    <3>4. CASE d # c
      <4>1. HeldBy(g, d) = HeldBy(h, d) /\ HeldBy(h, d) \in Nat
        BY <1>5, <1>10, <3>4, TakenTyped DEF HeldBy
      <4>2. PromisedTo(g, d) = PromisedTo(h, d) /\ PromisedTo(h, d) \in Nat
        <5>1. Holding(h, d) <=> Holding(g, d)
          BY <1>10, <3>4
        <5>2. h.at \in {"consuming", "holding"} /\ (h.at = "holding" => Holding(h, d))
          BY <1>5 DEF Holding
        <5> QED
          BY <1>2, <1>5, <5>1, <5>2, TakenTyped DEF PromisedTo
      <4>3. namespace'.ns.used[d] = u
        BY <1>9, <3>1, <3>4
      <4> QED
        BY <1>1, <3>1, <3>2, <4>1, <4>2, <4>3
    <3> QED
      BY <3>3, <3>4
  <2>2. namespace.ns \in Tenancies /\ namespace'.ns \in Tenancies
    BY <1>3, <1>9 DEF Namespaces
  <2>3. ~ namespace.disturbed => Fits(namespace.ns, holds)
    BY <1>3 DEF Kept
  <2>4. holds' = [holds EXCEPT ![o] = h] /\ h \in HoldRecords
    BY <1>2, <1>5
  <2>5. holds \in [Operations -> HoldRecords] /\ namespace'.disturbed = namespace.disturbed
    BY <1>3, <1>9
  <2> QED
    BY <2>1, <2>2, <2>3, <2>4, <2>5, FitsStep
<1>12. namespace.ns.status # "none"
  BY <1>1, <1>2, <1>3 DEF Kept, Early
<1>13. ~ namespace'.torn => Applied(namespace', holds')
  <2>1. ~ namespace.torn => Applied(namespace, holds)
    BY <1>3, <1>12 DEF Kept
  <2>2. holds[o].at # "applying" /\ h.at # "applying"
    BY <1>1, <1>2, <1>5
  <2>3. holds' = [holds EXCEPT ![o] = h] /\ h \in HoldRecords
    BY <1>2, <1>5
  <2>4. /\ namespace'.applied = namespace.applied /\ namespace'.updated = namespace.updated
        /\ namespace'.ns.limit = namespace.ns.limit /\ namespace'.torn = namespace.torn
    BY <1>9
  <2> QED
    BY <1>3, <2>1, <2>2, <2>3, <2>4, AppliedRest
<1>14. Kept(namespace', holds')
  <2>1. namespace'.ns.status # "none"
    BY <1>9, <1>12
  <2>2. h \in HoldRecords /\ Along(h) /\ holds' = [holds EXCEPT ![o] = h]
    BY <1>2, <1>5
  <2> QED
    BY <1>3, <1>11, <1>13, <2>1, <2>2, KeptStep
<1>15. holds' \in [Operations -> HoldRecords]
  BY <1>2, <1>3, <1>5
<1> QED
  BY <1>9, <1>14, <1>15, TenancyNow

LEMMA TenancyRelease ==
    ASSUME TenancyAssumption, TenancyInv, NEW o \in Operations, Release(o) PROVE TenancyInv'
<1>1. PICK c, g, h : c = DimensionOf(o) /\ g = holds[o] /\ h = Stepped(g, "releasing", "idle")
  OBVIOUS
<1>2. /\ g.at \in {"holding", "releasing"} /\ holds' = [holds EXCEPT ![o] = h]
      /\ namespace' = UsageMoved(c, 0 - g.want[c])
  BY <1>1 DEF Release, UsageMoved
<1>3. namespace \in Namespaces /\ holds \in [Operations -> HoldRecords] /\ Kept(namespace, holds)
  BY DEF TenancyInv, TenancyTypes
<1>4. g \in HoldRecords /\ Along(g)
  BY <1>1, <1>3 DEF Kept
<1>5. /\ g.left \in 1 .. Len(Dimensions) /\ h \in HoldRecords /\ Along(h) /\ h.at \notin {"applying", "creating", "admitted"}
      /\ g.left # 1 => h.at = "releasing" /\ h.left = g.left - 1 /\ h.want = g.want
      /\ g.left = 1 => h.at = "idle"
  BY <1>1, <1>2, <1>4, SteppedIs
<1>6. PICK n, l \in Nat \ {0} : n = Len(Dimensions) /\ l = g.left /\ l <= n
  <2>1. Len(Dimensions) \in Nat \ {0}
    BY DimensionsKnown
  <2> QED
    BY <1>5, <2>1
<1>7. c \in Dims /\ Place(c) = n - l + 1 /\ c = Dimensions[n - l + 1]
  <2>1. n - l + 1 \in 1 .. n
    BY <1>6
  <2>2. c = Dimensions[n - l + 1]
    BY <1>1, <1>6 DEF DimensionOf
  <2> QED
    BY <1>6, <2>1, <2>2, DimensionsKnown
<1>8. g.want \in [Dims -> Nat] /\ g.want[c] \in Nat
  BY <1>4, <1>7 DEF HoldRecords, Uses
<1>9. PICK x : x = IF namespace.ns.used[c] - g.want[c] >= 0 THEN namespace.ns.used[c] - g.want[c] ELSE 0
  OBVIOUS
<1>10. /\ namespace' \in Namespaces /\ namespace'.ns.used[c] = x
       /\ \A e \in Dims : e # c => namespace'.ns.used[e] = namespace.ns.used[e]
       /\ namespace'.ns.reserved = namespace.ns.reserved /\ namespace'.ns.limit = namespace.ns.limit
       /\ namespace'.ns.status = namespace.ns.status /\ namespace'.disturbed = namespace.disturbed
       /\ namespace'.applied = namespace.applied /\ namespace'.updated = namespace.updated /\ namespace'.torn = namespace.torn
  <2>1. PICK m : m = namespace'
    OBVIOUS
  <2>2. PICK delta \in Int : delta = 0 - g.want[c]
    BY <1>8
  <2>3. m = UsageMoved(c, delta)
    BY <1>2, <2>1, <2>2
  <2>4. /\ m \in Namespaces
        /\ m.ns.used[c] = IF namespace.ns.used[c] + delta >= 0 THEN namespace.ns.used[c] + delta ELSE 0
        /\ \A e \in Dims : e # c => m.ns.used[e] = namespace.ns.used[e]
        /\ m.ns.reserved = namespace.ns.reserved /\ m.ns.limit = namespace.ns.limit
        /\ m.ns.status = namespace.ns.status /\ m.disturbed = namespace.disturbed
        /\ m.applied = namespace.applied /\ m.updated = namespace.updated /\ m.torn = namespace.torn
    BY <1>3, <1>7, <2>3, IncrementedIs
  <2>5. namespace.ns.used[c] \in Nat
    BY <1>3, <1>7 DEF Namespaces, Tenancies, Uses
  <2>6. m.ns.used[c] = x
    BY <1>8, <1>9, <2>2, <2>4, <2>5
  <2> QED
    BY <2>1, <2>4, <2>6
<1>11. \A e \in Dims : Place(e) \in 1 .. n /\ (e # c => Place(e) # n - l + 1)
  BY <1>6, <1>7, DimensionsKnown
<1>12. ASSUME NEW e \in Dims
       PROVE  /\ HeldBy(g, e) = (IF n - l >= Place(e) THEN 0 ELSE g.want[e]) /\ PromisedTo(g, e) = 0
              /\ HeldBy(h, e) = (IF n - (l - 1) >= Place(e) THEN 0 ELSE g.want[e]) /\ PromisedTo(h, e) = 0
  <2>1. PromisedTo(g, e) = 0 /\ PromisedTo(h, e) = 0
    BY <1>2, <1>5 DEF PromisedTo
  <2>2. Holding(g, e) <=> ~ (n - l >= Place(e))
    <3>1. CASE g.at = "holding"
      <4>1. l = n
        BY <1>4, <1>6, <3>1 DEF Along
      <4>2. ~ (n - l >= Place(e))
        BY <1>11, <4>1
      <4> QED
        BY <3>1, <4>2 DEF Holding
    <3>2. CASE g.at = "releasing"
      BY <1>6, <3>2 DEF Holding, Past
    <3> QED
      BY <1>2, <3>1, <3>2
  <2>3. Holding(h, e) <=> ~ (n - (l - 1) >= Place(e))
    <3>1. CASE l = 1
      <4>1. n - (l - 1) >= Place(e)
        BY <1>11, <3>1
      <4> QED
        BY <1>5, <1>6, <3>1, <4>1 DEF Holding
    <3>2. CASE l # 1
      BY <1>5, <1>6, <3>2 DEF Holding, Past
    <3> QED
      BY <3>1, <3>2
  <2>4. ~ (n - (l - 1) >= Place(e)) => h.want = g.want
    BY <1>5, <1>6, <1>11
  <2> QED
    BY <2>1, <2>2, <2>3, <2>4 DEF HeldBy
<1>13. ~ namespace'.disturbed => Fits(namespace'.ns, holds')
  <2>0. SUFFICES ASSUME ~ namespace.disturbed PROVE Fits(namespace'.ns, holds')
    BY <1>10
  <2>1. ASSUME NEW d \in Dims
        PROVE  /\ namespace'.ns.used[d] + HeldBy(holds[o], d) = namespace.ns.used[d] + HeldBy(h, d)
               /\ namespace'.ns.used[d] + namespace'.ns.reserved[d] + PromisedTo(h, d) + namespace.ns.limit[d]
                    <= namespace.ns.used[d] + namespace.ns.reserved[d] + PromisedTo(holds[o], d) + namespace'.ns.limit[d]
    <3>1. PICK u \in Nat, r \in Nat, q \in Nat, w \in Nat :
            u = namespace.ns.used[d] /\ r = namespace.ns.reserved[d] /\ q = namespace.ns.limit[d] /\ w = g.want[d]
      BY <1>3, <1>8 DEF Namespaces, Tenancies, Uses
    <3>2. namespace'.ns.reserved[d] = r /\ namespace'.ns.limit[d] = q
      BY <1>10, <3>1
    <3>3. PICK i \in 1 .. n : i = Place(d) /\ (d # c => i # n - l + 1) /\ (d = c => i = n - l + 1)
      BY <1>7, <1>11
    <3>4. /\ HeldBy(g, d) = (IF n - l >= i THEN 0 ELSE w) /\ PromisedTo(g, d) = 0
          /\ HeldBy(h, d) = (IF n - (l - 1) >= i THEN 0 ELSE w) /\ PromisedTo(h, d) = 0
      BY <1>12, <3>1, <3>3
    <3>5. CASE d = c
      <4>1. HeldBy(g, d) = w /\ HeldBy(h, d) = 0
        BY <1>6, <3>3, <3>4, <3>5
      <4>2. w <= u
        <5>1. HeldBy(holds[o], d) <= Held(holds, d)
          <6>1. PICK ht : ht = [holds EXCEPT ![o] = h]
            OBVIOUS
          <6> QED
            BY <1>3, <1>5, <6>1, HoldMoves
        <5>2. u = Held(holds, d)
          BY <1>3, <2>0, <3>1 DEF Kept, Fits
        <5> QED
          BY <1>1, <4>1, <5>1, <5>2
      <4>3. namespace'.ns.used[d] = u - w
        <5>1. x = u - w
          BY <1>9, <3>1, <3>5, <4>2
        <5> QED
          BY <1>10, <3>5, <5>1
      <4> QED
        BY <1>1, <3>1, <3>2, <3>4, <4>1, <4>2, <4>3
    <3>6. CASE d # c
      <4>1. n - (l - 1) >= i <=> n - l >= i
        BY <1>6, <3>3, <3>6
      <4>2. namespace'.ns.used[d] = u
        BY <1>10, <3>1, <3>6
      <4>3. HeldBy(g, d) = HeldBy(h, d) /\ HeldBy(h, d) \in Nat
        BY <3>1, <3>4, <4>1
      <4> QED
        BY <1>1, <3>1, <3>2, <3>4, <4>2, <4>3
    <3> QED
      BY <3>5, <3>6
  <2>2. namespace.ns \in Tenancies /\ namespace'.ns \in Tenancies
    BY <1>3, <1>10 DEF Namespaces
  <2>3. Fits(namespace.ns, holds)
    BY <1>3, <2>0 DEF Kept
  <2>4. holds' = [holds EXCEPT ![o] = h] /\ h \in HoldRecords
    BY <1>2, <1>5
  <2>5. holds \in [Operations -> HoldRecords]
    BY <1>3
  <2> QED
    BY <2>1, <2>2, <2>3, <2>4, <2>5, FitsStep
<1>14. namespace.ns.status # "none"
  BY <1>1, <1>2, <1>3 DEF Kept, Early
<1>15. ~ namespace'.torn => Applied(namespace', holds')
  <2>1. ~ namespace.torn => Applied(namespace, holds)
    BY <1>3, <1>14 DEF Kept
  <2>2. holds[o].at # "applying" /\ h.at # "applying"
    BY <1>1, <1>2, <1>5
  <2>3. holds' = [holds EXCEPT ![o] = h] /\ h \in HoldRecords
    BY <1>2, <1>5
  <2>4. /\ namespace'.applied = namespace.applied /\ namespace'.updated = namespace.updated
        /\ namespace'.ns.limit = namespace.ns.limit /\ namespace'.torn = namespace.torn
    BY <1>10
  <2> QED
    BY <1>3, <2>1, <2>2, <2>3, <2>4, AppliedRest
<1>16. Kept(namespace', holds')
  <2>1. namespace'.ns.status # "none"
    BY <1>10, <1>14
  <2>2. h \in HoldRecords /\ Along(h) /\ holds' = [holds EXCEPT ![o] = h]
    BY <1>2, <1>5
  <2> QED
    BY <1>3, <1>13, <1>15, <2>1, <2>2, KeptStep
<1>17. holds' \in [Operations -> HoldRecords]
  BY <1>2, <1>3, <1>5
<1> QED
  BY <1>10, <1>16, <1>17, TenancyNow

LEMMA TenancyStep == TenancyAssumption /\ TenancyInv /\ [TenantNext]_tenantVars => TenancyInv'
<1> SUFFICES ASSUME TenancyAssumption, TenancyInv, [TenantNext]_tenantVars PROVE TenancyInv'
  OBVIOUS
<1>1. CASE UNCHANGED tenantVars
  <2>1. namespace' = namespace /\ holds' = holds
    BY <1>1 DEF tenantVars
  <2> QED
    BY <2>1, TenancyNow DEF TenancyInv, TenancyTypes
<1>2. ASSUME NEW s \in {"active", "suspended", "deprovisioning"}, SetStatus(s) PROVE TenancyInv'
  BY <1>2, TenancyStatus
<1>3. ASSUME NEW d \in Dims, NEW limit \in QuotaLimits, UpdateQuota(d, limit) PROVE TenancyInv'
  BY <1>3, TenancyUpdate
<1>4. ASSUME NEW d \in Dims, NEW used \in Observations, NEW reserved \in Observations, RecordUsage(d, used, reserved)
      PROVE  TenancyInv'
  BY <1>4, TenancyObserve
<1>5. ASSUME NEW o \in Operations, FindNamespace(o) \/ SetQuota(o) \/ StatementFails(o) PROVE TenancyInv'
  BY <1>5, TenancyFind, TenancySetQuota, TenancyTears
<1>6. ASSUME NEW o \in Operations, NEW tier \in Tiers, CreateNamespace(o, tier) \/ ApplyTier(o, tier) PROVE TenancyInv'
  BY <1>6, TenancyCreate, TenancyApply
<1>7. ASSUME NEW o \in Operations, NEW want \in Wants, CheckAdmission(o, want) PROVE TenancyInv'
  BY <1>7, TenancyAdmit
<1>8. ASSUME NEW o \in Operations, Consume(o) \/ AllocationFails(o) \/ Release(o) PROVE TenancyInv'
  BY <1>8, TenancyConsume, TenancyGivesUp, TenancyRelease
<1> QED
  BY <1>1, <1>2, <1>3, <1>4, <1>5, <1>6, <1>7, <1>8 DEF TenantNext

\* The sums of the property are these totals.
LEMMA SumIs ==
    ASSUME holds \in [Operations -> HoldRecords], NEW S \in SUBSET Operations, IsFiniteSet(S), NEW d, NEW c,
           c = [o \in Operations |-> holds[o].want[d]]
    PROVE  Sum(S, d) = Total(S, c)
<1>1. PICK W : W = CHOOSE it : it = [s \in SUBSET S |-> IF s = {} THEN 0 ELSE it[s \ {Chosen(s)}] + holds[Chosen(s)].want[d]]
  OBVIOUS
<1>2. Sum(S, d) = W[S]
  BY Zenon, <1>1 DEF Chosen, Sum, FoldSet, MapThenFoldSet
<1>3. \A s \in SUBSET S : s # {} => holds[Chosen(s)].want[d] = c[Chosen(s)]
  <2> SUFFICES ASSUME NEW s \in SUBSET S, s # {} PROVE holds[Chosen(s)].want[d] = c[Chosen(s)]
    OBVIOUS
  <2>1. PICK x \in s : x = Chosen(s)
    BY ChosenIn
  <2> QED
    BY <2>1
<1>4. PICK k : Summing(k, S, c)
  BY SummingExists
<1>5. ASSUME NEW it
      PROVE  Summing(it, S, c) <=>
               it = [s \in SUBSET S |-> IF s = {} THEN 0 ELSE it[s \ {Chosen(s)}] + holds[Chosen(s)].want[d]]
  <2>1. PICK f : f = [s \in SUBSET S |-> IF s = {} THEN 0 ELSE it[s \ {Chosen(s)}] + c[Chosen(s)]]
    OBVIOUS
  <2>2. PICK g : g = [s \in SUBSET S |-> IF s = {} THEN 0 ELSE it[s \ {Chosen(s)}] + holds[Chosen(s)].want[d]]
    OBVIOUS
  <2>3. \A s \in SUBSET S : f[s] = g[s]
    BY <1>3, <2>1, <2>2
  <2>4. f = g
    <3>1. PICK h : h = [s \in SUBSET S |-> f[s]]
      OBVIOUS
    <3>2. h = f
      BY <2>1, <3>1
    <3>3. h = g
      BY <2>2, <2>3, <3>1
    <3> QED
      BY <3>2, <3>3
  <2>5. Summing(it, S, c) <=> it = f
    BY Zenon, <2>1 DEF Summing
  <2> QED
    BY Zenon, <2>2, <2>4, <2>5
<1>6. Summing(W, S, c)
  <2>1. \E it : it = [s \in SUBSET S |-> IF s = {} THEN 0 ELSE it[s \ {Chosen(s)}] + holds[Chosen(s)].want[d]]
    BY Zenon, <1>4, <1>5
  <2>2. W = [s \in SUBSET S |-> IF s = {} THEN 0 ELSE W[s \ {Chosen(s)}] + holds[Chosen(s)].want[d]]
    BY Zenon, <1>1, <2>1
  <2> QED
    BY Zenon, <1>5, <2>2
<1> QED
  BY <1>2, <1>6, TotalIs

LEMMA QuotaKept == TenancyAssumption /\ TenancyInv => QuotaHolds
<1> SUFFICES ASSUME TenancyAssumption, TenancyInv, ~ namespace.disturbed, NEW d \in Dims
             PROVE  LET expected == {o \in Operations : Expects(o, d)}
                        holding == {o \in Operations : Holds(o, d)}
                    IN  /\ namespace.ns.used[d] = Sum(holding, d)
                        /\ namespace.ns.used[d] + namespace.ns.reserved[d] + Sum(expected, d) <= namespace.ns.limit[d]
  BY DEF QuotaHolds
<1>1. holds \in [Operations -> HoldRecords] /\ Fits(namespace.ns, holds)
  BY DEF TenancyInv, TenancyTypes, Kept
<1>2. PICK A, B : A = {o \in Operations : Holds(o, d)} /\ B = {o \in Operations : Expects(o, d)}
  OBVIOUS
<1>3. IsFiniteSet(Operations)
  <2>1. IsFiniteSet(Operations)
    BY DEF TenancyAssumption
  <2> QED
    BY <2>1 DEF IsFiniteSet, IsFiniteSet
<1>4. A \in SUBSET Operations /\ B \in SUBSET Operations /\ IsFiniteSet(A) /\ IsFiniteSet(B)
  BY <1>2, <1>3, FS_Subset
<1>5. PICK c : c = [o \in Operations |-> holds[o].want[d]]
  OBVIOUS
<1>6. \A o \in Operations : c[o] \in Nat
  BY <1>1, <1>5 DEF HoldRecords, Uses
<1>7. \A o \in Operations : (o \in A <=> Holding(holds[o], d))
                         /\ (o \in B <=> holds[o].at \in {"admitted", "consuming"} /\ ~ Holding(holds[o], d))
  BY Zenon, <1>2 DEF Holds, Expects, Done, Holding, Past, Place
<1>8. Sum(A, d) = Held(holds, d)
  <2>1. PICK e : e = [o \in Operations |-> HeldBy(holds[o], d)]
    OBVIOUS
  <2>2. \A o \in Operations : e[o] \in Nat /\ e[o] = IF o \in A THEN c[o] ELSE 0
    BY <1>5, <1>6, <1>7, <2>1 DEF HeldBy
  <2>3. Total(A, c) = Total(Operations, e)
    BY <1>3, <1>4, <2>2, MaskedTotal
  <2> QED
    BY <1>1, <1>4, <1>5, <2>1, <2>3, SumIs DEF Held
<1>9. Sum(B, d) = Promised(holds, d)
  <2>1. PICK e : e = [o \in Operations |-> PromisedTo(holds[o], d)]
    OBVIOUS
  <2>2. \A o \in Operations : e[o] \in Nat /\ e[o] = IF o \in B THEN c[o] ELSE 0
    BY <1>5, <1>6, <1>7, <2>1 DEF PromisedTo
  <2>3. Total(B, c) = Total(Operations, e)
    BY <1>3, <1>4, <2>2, MaskedTotal
  <2> QED
    BY <1>1, <1>4, <1>5, <2>1, <2>3, SumIs DEF Promised
<1>10. namespace.ns.used[d] = Sum(A, d)
  BY <1>1, <1>8 DEF Fits
<1>11. namespace.ns.used[d] + namespace.ns.reserved[d] + Sum(B, d) <= namespace.ns.limit[d]
  BY <1>1, <1>9 DEF Fits
<1> QED
  BY Zenon, <1>2, <1>10, <1>11

LEMMA TierKept == TenancyAssumption /\ TenancyInv => TierHolds
<1> SUFFICES ASSUME TenancyAssumption, TenancyInv, Found, ~ namespace.torn, Applying = {},
                    NEW d \in Dims \ namespace.updated
             PROVE  namespace.ns.limit[d] = LimitsOf[namespace.applied][d]
  BY DEF TierHolds
<1>1. Applied(namespace, holds)
  BY DEF TenancyInv, Kept, Found
<1>2. Writing(holds) = {}
  BY DEF Writing, Applying
<1> QED
  BY <1>1, <1>2 DEF Applied

LEMMA TenancyTyped == TenancyInv => TenantTypeOK
<1> SUFFICES ASSUME TenancyInv PROVE TenantTypeOK
  OBVIOUS
<1>1. namespace \in Namespaces /\ holds \in [Operations -> HoldRecords]
  BY DEF TenancyInv, TenancyTypes
<1>2. namespace.ns.status \in {"none", "active", "suspended", "deprovisioning"}
  BY <1>1 DEF Namespaces, Tenancies
<1>3. \A d \in Dims : namespace.ns.used[d] \in Nat /\ namespace.ns.limit[d] \in Nat
  BY <1>1 DEF Namespaces, Tenancies, Uses
<1>4. \A o \in Operations : holds[o].at \in Stages /\ holds[o].left \in 0 .. Len(Dimensions)
  BY <1>1 DEF HoldRecords
<1> QED
  BY <1>2, <1>3, <1>4 DEF TenantTypeOK, Stages

\* Unless admissions overlap, a limit is cut or usage is overwritten, what a tenant
\* uses is what its operations hold, and with what is reserved and admitted it fits
\* its limits, for any operations, dimensions and tiers; and a tier applied alone
\* and to its end sets every limit (tenants/service.py:145-240).
THEOREM QuotasHold ==
    TenancyAssumption /\ TenantSpec => [](QuotaHolds /\ TierHolds /\ TenantTypeOK)
<1> SUFFICES ASSUME TenancyAssumption PROVE TenantSpec => [](QuotaHolds /\ TierHolds /\ TenantTypeOK)
  OBVIOUS
<1>1. TenantInit => TenancyInv
  BY TenancyInit
<1>2. TenancyInv /\ [TenantNext]_tenantVars => TenancyInv'
  BY TenancyStep
<1>3. TenancyInv => QuotaHolds /\ TierHolds /\ TenantTypeOK
  BY QuotaKept, TierKept, TenancyTyped
<1> QED
  BY <1>1, <1>2, <1>3, PTL DEF TenantSpec
=============================================================================
