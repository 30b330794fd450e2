------------------------- MODULE NodeTraffic_proofs -------------------------
(* Usage of a client is never counted twice and, while counters do not go back, *)
(* never lost: the inductive invariant of NodeTraffic and its proof, for every  *)
(* number of nodes, inbounds, events and bytes.                                 *)
EXTENDS NodeTraffic, FiniteSetTheorems, NaturalsInduction, WellFoundedInduction, TLAPS

(* Without a row there is no baseline and nothing to count.                     *)
RowInv == row = None => \A n \in Nodes : base[n] = None /\ credit[n] = 0 /\ owed[n] = 0

(* Per node: what the row holds and what the next merge adds are at most what   *)
(* was used, and exactly that while the counter did not go back.                *)
BalanceInv ==
    \A n \in Nodes :
      /\ credit[n] <= owed[n]
      /\ base[n] = None /\ steady[n] => credit[n] = owed[n]
      /\ base[n] # None => credit[n] + cnt[n] <= owed[n] + base[n]
      /\ base[n] # None /\ steady[n] => /\ credit[n] + cnt[n] = owed[n] + base[n]
                                        /\ base[n] <= cnt[n]

(* Per node: how the snapshot relates to the counter and to the baseline.       *)
SnapInv ==
    \A n \in Nodes :
      /\ at[n] # "pulled" => since[n] = 0
      /\ base[n] # None => credit[n] + since[n] <= owed[n]
      /\ at[n] = "pulled" /\ snap[n].from # {} =>
           /\ cnt[n] <= snap[n].canon + since[n]
           /\ steady[n] => cnt[n] = snap[n].canon + since[n]
           /\ base[n] # None => credit[n] + snap[n].canon <= owed[n] + base[n]
           /\ base[n] # None /\ steady[n] => base[n] <= snap[n].canon

(* The open transaction: what it has added for its node and the baseline it is  *)
(* about to store.                                                              *)
TxnInv ==
    busy # None =>
      /\ at[busy] = "pulled"
      /\ txn.todo \subseteq snap[busy].from
      /\ txn.seeded =>
           /\ row = None /\ txn.row # None /\ snap[busy].from # {}
           /\ txn.base = snap[busy].canon /\ txn.added <= snap[busy].canon
      /\ ~txn.seeded =>
           /\ txn.row = None <=> row = None
           /\ row = None => txn.base = None /\ txn.added = 0
           /\ txn.base = base[busy] => txn.added = 0
           /\ txn.base # base[busy] =>
                /\ snap[busy].from # {} /\ txn.base = snap[busy].canon
                /\ txn.added = Delta(base[busy], snap[busy].canon)

TrafficIInv == TrafficTypeOK /\ RowInv /\ BalanceInv /\ SnapInv /\ TxnInv

-----------------------------------------------------------------------------
(* Sums over a finite set, such as the sum of RowIsTheSum over the nodes: what   *)
(* MapThenSumSet computes and how it changes with one summand.                   *)

(* The element MapThenSumSet takes out of a set next.                          *)
Any(s) == CHOOSE x \in s : TRUE

(* One step of the sum of f over s, given the sums g over smaller sets.         *)
Unfold(f, g, s) == IF s = {} THEN 0 ELSE f[Any(s)] + g[s \ {Any(s)}]

(* The sums of f over the subsets of S, and over all of S: MapThenSumSet       *)
(* without its operator arguments.                                              *)
Sums(f, S) == CHOOSE g : g = [s \in SUBSET S |-> Unfold(f, g, s)]

Total(f, S) == Sums(f, S)[S]

(* Every set of numbers has a least one; the lemmas below take the least size   *)
(* of a set that would violate them.                                            *)
LEMMA Least == ASSUME NEW K, K \subseteq Nat, K # {} PROVE \E x \in K : \A y \in K : x <= y
  <1>1. \E x \in K : \A y \in K : ~(<<y, x>> \in OpToRel(<, Nat))
    BY NatLessThanWellFounded, WFMin
  <1>2. \A x, y \in Nat : y < x => <<y, x>> \in OpToRel(<, Nat)
    BY DEF OpToRel
  <1>3. \A x, y \in Nat : ~(y < x) => x <= y OBVIOUS
  <1> QED BY <1>1, <1>2, <1>3

LEMMA OneOut ==
  ASSUME NEW S, IsFiniteSet(S), NEW s \in SUBSET S, s # {}
  PROVE  /\ Any(s) \in s /\ s \ {Any(s)} \in SUBSET S
         /\ Cardinality(s) \in Nat /\ Cardinality(s \ {Any(s)}) \in Nat
         /\ Cardinality(s \ {Any(s)}) + 1 = Cardinality(s)
  <1>1. Any(s) \in s BY DEF Any
  <1>2. IsFiniteSet(s) BY FS_Subset
  <1>3. IsFiniteSet(s \ {Any(s)}) /\ Cardinality(s \ {Any(s)}) = Cardinality(s) - 1
    BY <1>1, <1>2, FS_RemoveElement
  <1>4. Cardinality(s) \in Nat /\ Cardinality(s \ {Any(s)}) \in Nat BY <1>2, <1>3, FS_CardinalityType
  <1> QED BY <1>1, <1>3, <1>4

(* The recursive definition of the sums has a solution.                         *)
LEMMA SumsExist ==
  ASSUME NEW S, IsFiniteSet(S), NEW f \in [S -> Nat]
  PROVE  /\ Sums(f, S) \in [SUBSET S -> Nat]
         /\ \A s \in SUBSET S : Sums(f, S)[s] = Unfold(f, Sums(f, S), s)
  <1> DEFINE Good(g, k) == /\ g \in [SUBSET S -> Nat]
                           /\ \A s \in SUBSET S : Cardinality(s) <= k => g[s] = Unfold(f, g, s)
             Bad == {k \in Nat : ~ \E g : Good(g, k)}
  <1>1. ASSUME NEW g \in [SUBSET S -> Nat]
        PROVE  [s \in SUBSET S |-> Unfold(f, g, s)] \in [SUBSET S -> Nat]
    <2>1. ASSUME NEW s \in SUBSET S PROVE Unfold(f, g, s) \in Nat
      <3>1. CASE s = {} BY <3>1 DEF Unfold
      <3>2. CASE s # {}
        <4>1. Any(s) \in S /\ s \ {Any(s)} \in SUBSET S BY <3>2, OneOut
        <4>2. f[Any(s)] \in Nat /\ g[s \ {Any(s)}] \in Nat BY <4>1, <1>1
        <4> QED BY <3>2, <4>2 DEF Unfold
      <3> QED BY <3>1, <3>2
    <2> QED BY <2>1
  <1>2. Good([s \in SUBSET S |-> 0], 0)
    <2>1. ASSUME NEW s \in SUBSET S, Cardinality(s) <= 0 PROVE s = {}
      <3>1. SUFFICES ASSUME s # {} PROVE FALSE OBVIOUS
      <3>2. /\ Cardinality(s) \in Nat /\ Cardinality(s \ {Any(s)}) \in Nat
            /\ Cardinality(s \ {Any(s)}) + 1 = Cardinality(s)
        BY <3>1, OneOut
      <3> QED BY <2>1, <3>2
    <2> DEFINE z == [s \in SUBSET S |-> 0]
    <2>2. z \in [SUBSET S -> Nat] /\ \A s \in SUBSET S : z[s] = 0 OBVIOUS
    <2> HIDE DEF z
    <2>3. \A s \in SUBSET S : Cardinality(s) <= 0 => z[s] = Unfold(f, z, s)
      BY <2>1, <2>2 DEF Unfold
    <2>4. Good(z, 0) BY <2>2, <2>3
    <2> QED BY <2>4 DEF z
  <1>3. ASSUME NEW k \in Nat, NEW g, Good(g, k)
        PROVE  Good([s \in SUBSET S |-> Unfold(f, g, s)], k + 1)
    <2> DEFINE h == [s \in SUBSET S |-> Unfold(f, g, s)]
    <2>1. ASSUME NEW s \in SUBSET S, Cardinality(s) <= k + 1 PROVE Unfold(f, g, s) = Unfold(f, h, s)
      <3>1. CASE s = {} BY <3>1 DEF Unfold
      <3>2. CASE s # {}
        <4>1. s \ {Any(s)} \in SUBSET S /\ Cardinality(s \ {Any(s)}) <= k
          BY <2>1, <3>2, OneOut
        <4>2. g[s \ {Any(s)}] = h[s \ {Any(s)}] BY <1>3, <4>1
        <4> HIDE DEF h
        <4> QED BY <3>2, <4>2 DEF Unfold
      <3> QED BY <3>1, <3>2
    <2>2. \A s \in SUBSET S : h[s] = Unfold(f, g, s) OBVIOUS
    <2>3. h \in [SUBSET S -> Nat] BY <1>1, <1>3
    <2> HIDE DEF h
    <2>4. Good(h, k + 1) BY <2>1, <2>2, <2>3
    <2> QED BY <2>4 DEF h
  <1>4. Bad = {}
    <2> SUFFICES ASSUME Bad # {} PROVE FALSE OBVIOUS
    <2>0. Bad \subseteq Nat OBVIOUS
    <2> HIDE DEF Bad
    <2>1. PICK m \in Bad : \A y \in Bad : m <= y BY <2>0, Least
    <2> HIDE DEF Good
    <2>2. m \in Nat /\ ~ \E g : Good(g, m) BY <2>1 DEF Bad
    <2>3. m # 0 BY <1>2, <2>2
    <2>4. m - 1 \in Nat /\ m - 1 \notin Bad BY <2>0, <2>1, <2>3
    <2>5. PICK g : Good(g, m - 1) BY <2>4 DEF Bad
    <2>6. Good([s \in SUBSET S |-> Unfold(f, g, s)], (m - 1) + 1) BY <1>3, <2>4, <2>5
    <2>7. (m - 1) + 1 = m BY <2>2
    <2> QED BY <2>2, <2>6, <2>7
  <1>5. Cardinality(S) \in Nat BY FS_CardinalityType
  <1>6. PICK g : Good(g, Cardinality(S)) BY <1>4, <1>5
  <1>7. \A s \in SUBSET S : Cardinality(s) <= Cardinality(S) BY FS_Subset
  <1>8. g = [s \in SUBSET S |-> Unfold(f, g, s)] BY <1>6, <1>7
  <1>9. Sums(f, S) = [s \in SUBSET S |-> Unfold(f, Sums(f, S), s)] BY <1>8 DEF Sums
  <1>10. DOMAIN g = SUBSET S /\ g \in [SUBSET S -> Nat] BY <1>6
  <1> HIDE DEF Good, Bad
  <1> DEFINE G == Sums(f, S)
  <1>11. G = [s \in SUBSET S |-> Unfold(f, G, s)] BY <1>9
  <1>12. \A s \in SUBSET S : G[s] = Unfold(f, G, s) BY <1>11
  <1>13. \A s \in SUBSET S : G[s] \in Nat
    <2> DEFINE Odd == {k \in Nat : \E s \in SUBSET S : Cardinality(s) = k /\ G[s] \notin Nat}
    <2>1. SUFFICES Odd = {}
      BY FS_Subset, FS_CardinalityType
    <2>2. SUFFICES ASSUME Odd # {} PROVE FALSE OBVIOUS
    <2>3. PICK m \in Odd : \A y \in Odd : m <= y
      <3>1. Odd \subseteq Nat OBVIOUS
      <3> HIDE DEF Odd
      <3> QED BY <2>2, <3>1, Least
    <2>4. PICK s \in SUBSET S : Cardinality(s) = m /\ G[s] \notin Nat BY <2>3
    <2> HIDE DEF G, Odd
    <2>5. s # {}
      <3>1. G[{}] = 0 BY <1>12 DEF Unfold
      <3> QED BY <2>4, <3>1
    <2>6. /\ Any(s) \in S /\ s \ {Any(s)} \in SUBSET S
          /\ Cardinality(s \ {Any(s)}) \in Nat /\ Cardinality(s \ {Any(s)}) < m
      BY <2>4, <2>5, OneOut
    <2>7. G[s \ {Any(s)}] \in Nat BY <2>3, <2>6 DEF Odd
    <2>8. f[Any(s)] \in Nat BY <2>6
    <2> QED BY <1>12, <2>4, <2>5, <2>7, <2>8 DEF Unfold
  <1>14. G \in [SUBSET S -> Nat]
    <2> DEFINE F == [s \in SUBSET S |-> Unfold(f, G, s)]
    <2>1. \A s \in SUBSET S : Unfold(f, G, s) \in Nat BY <1>12, <1>13
    <2> HIDE DEF G
    <2>2. F \in [SUBSET S -> Nat] BY <2>1
    <2> QED BY <1>11, <2>2
  <1> QED BY <1>12, <1>14

(* Nothing adds up to nothing.                                                  *)
LEMMA TotalZero ==
  ASSUME NEW S, IsFiniteSet(S), NEW f \in [S -> Nat], \A n \in S : f[n] = 0
  PROVE  Total(f, S) = 0
  <1> DEFINE F == Sums(f, S)
             Odd == {k \in Nat : \E s \in SUBSET S : Cardinality(s) = k /\ F[s] # 0}
  <1>1. F \in [SUBSET S -> Nat] /\ \A s \in SUBSET S : F[s] = Unfold(f, F, s) BY SumsExist
  <1> HIDE DEF F
  <1>2. ASSUME Odd # {} PROVE FALSE
    <2>1. PICK m \in Odd : \A y \in Odd : m <= y
      <3>1. Odd \subseteq Nat OBVIOUS
      <3> HIDE DEF Odd
      <3> QED BY <1>2, <3>1, Least
    <2>2. PICK s \in SUBSET S : Cardinality(s) = m /\ F[s] # 0 BY <2>1
    <2>3. s # {} BY <1>1, <2>2 DEF Unfold
    <2>4. /\ Any(s) \in S /\ s \ {Any(s)} \in SUBSET S
          /\ Cardinality(s \ {Any(s)}) \in Nat /\ Cardinality(s \ {Any(s)}) < m
      BY <2>2, <2>3, OneOut
    <2>5. F[s \ {Any(s)}] = 0 BY <2>1, <2>4
    <2> QED BY <1>1, <2>2, <2>3, <2>4, <2>5 DEF Unfold
  <1>3. F[S] = 0
    <2>1. Cardinality(S) \in Nat BY FS_CardinalityType
    <2> QED BY <1>2, <2>1
  <1> QED BY <1>3 DEF Total, F

(* When one summand changes the total changes by as much.                       *)
LEMMA TotalMoves ==
  ASSUME NEW S, IsFiniteSet(S), NEW f \in [S -> Nat], NEW h \in [S -> Nat],
         NEW n \in S, \A m \in S : m # n => h[m] = f[m]
  PROVE  Total(h, S) + f[n] = Total(f, S) + h[n] /\ Total(f, S) \in Nat /\ Total(h, S) \in Nat
  <1> DEFINE F == Sums(f, S)
             H == Sums(h, S)
  <1>1. F \in [SUBSET S -> Nat] /\ \A s \in SUBSET S : F[s] = Unfold(f, F, s) BY SumsExist
  <1>2. H \in [SUBSET S -> Nat] /\ \A s \in SUBSET S : H[s] = Unfold(h, H, s) BY SumsExist
  <1> DEFINE Fits(s) == /\ n \in s => H[s] + f[n] = F[s] + h[n]
                        /\ n \notin s => H[s] = F[s]
             Odd == {k \in Nat : \E s \in SUBSET S : Cardinality(s) = k /\ ~Fits(s)}
  <1> HIDE DEF F, H
  <1>3. ASSUME NEW s \in SUBSET S, s # {}, Fits(s \ {Any(s)}) PROVE Fits(s)
    <2>1. Any(s) \in s /\ Any(s) \in S /\ s \ {Any(s)} \in SUBSET S BY <1>3, OneOut
    <2>2. /\ F[s] = f[Any(s)] + F[s \ {Any(s)}] /\ H[s] = h[Any(s)] + H[s \ {Any(s)}]
      BY <1>1, <1>2, <1>3 DEF Unfold
    <2>3. /\ f[Any(s)] \in Nat /\ F[s \ {Any(s)}] \in Nat /\ f[n] \in Nat
          /\ h[Any(s)] \in Nat /\ H[s \ {Any(s)}] \in Nat /\ h[n] \in Nat
      BY <1>1, <1>2, <2>1
    <2>4. CASE Any(s) = n
      <3>1. H[s \ {Any(s)}] = F[s \ {Any(s)}] BY <1>3, <2>4
      <3> QED BY <2>1, <2>2, <2>3, <2>4, <3>1
    <2>5. CASE Any(s) # n
      <3>1. h[Any(s)] = f[Any(s)] BY <2>1, <2>5
      <3>2. n \in s <=> n \in s \ {Any(s)} BY <2>5
      <3> QED BY <1>3, <2>2, <2>3, <3>1, <3>2
    <2> QED BY <2>4, <2>5
  <1>4. Fits({})
    <2>1. F[{}] = 0 /\ H[{}] = 0 BY <1>1, <1>2 DEF Unfold
    <2> QED BY <2>1
  <1> HIDE DEF Fits
  <1>5. ASSUME Odd # {} PROVE FALSE
    <2>1. PICK m \in Odd : \A y \in Odd : m <= y
      <3>1. Odd \subseteq Nat OBVIOUS
      <3> HIDE DEF Odd
      <3> QED BY <1>5, <3>1, Least
    <2>2. PICK s \in SUBSET S : Cardinality(s) = m /\ ~Fits(s) BY <2>1
    <2>3. s # {} BY <1>4, <2>2
    <2>4. /\ s \ {Any(s)} \in SUBSET S
          /\ Cardinality(s \ {Any(s)}) \in Nat /\ Cardinality(s \ {Any(s)}) < m
      BY <2>2, <2>3, OneOut
    <2>5. Fits(s \ {Any(s)}) BY <2>1, <2>4
    <2> QED BY <1>3, <2>2, <2>3, <2>5
  <1>6. Fits(S)
    <2>1. Cardinality(S) \in Nat BY FS_CardinalityType
    <2> QED BY <1>5, <2>1
  <1>7. F[S] \in Nat /\ H[S] \in Nat BY <1>1, <1>2
  <1> QED BY <1>6, <1>7 DEF Fits, Total, F, H

(* The sum RowIsTheSum speaks of.                                               *)
LEMMA SumIs ==
  ASSUME NEW S, NEW f
  PROVE MapThenSumSet(LAMBDA n : f[n], S) = Total(f, S)
BY Zenon DEF MapThenSumSet, MapThenFoldSet, Total, Sums, Unfold, Any

-----------------------------------------------------------------------------
USE NodeOfAssumption, TrafficMaxAssumption, NoneIsNoCounter

(* What a counter that goes back does to the two functions it changes.          *)
LEMMA GoesBackTo ==
  ASSUME TrafficTypeOK, NEW n \in Nodes, NEW v \in Nat, v <= cnt[n], GoesBack(n, v)
  PROVE  /\ cnt' \in [Nodes -> Nat]
         /\ steady' \in [Nodes -> BOOLEAN]
         /\ \A m \in Nodes :
              /\ cnt'[m] <= cnt[m]
              /\ m # n => cnt'[m] = cnt[m]
              /\ steady'[m] => steady[m]
              /\ m = n /\ steady'[m] => base[n] = None /\ at[n] # "pulled"
<1>1. cnt \in [Nodes -> Nat] /\ steady \in [Nodes -> BOOLEAN]
  BY DEF TrafficTypeOK
<1>2. /\ cnt' \in [Nodes -> Nat]
      /\ \A m \in Nodes : cnt'[m] <= cnt[m] /\ (m # n => cnt'[m] = cnt[m])
  BY <1>1 DEF GoesBack
<1> DEFINE b == steady[n] /\ base[n] = None /\ at[n] # "pulled"
<1>3. steady' = [steady EXCEPT ![n] = b]
  BY DEF GoesBack
<1>4. b \in BOOLEAN /\ (b => steady[n] /\ base[n] = None /\ at[n] # "pulled")
  BY <1>1
<1> HIDE DEF b
<1>5. steady' \in [Nodes -> BOOLEAN]
  BY <1>1, <1>3, <1>4
<1>6. steady'[n] = b /\ \A m \in Nodes : m # n => steady'[m] = steady[m]
  BY <1>1, <1>3
<1>7. ASSUME NEW m \in Nodes, steady'[m]
      PROVE  steady[m] /\ (m = n => base[n] = None /\ at[n] # "pulled")
  BY <1>4, <1>6, <1>7, Zenon
<1> QED BY <1>2, <1>5, <1>7

LEMMA TypeUse ==
  ASSUME TrafficTypeOK, NEW n \in Nodes, Use(n)
  PROVE  TrafficTypeOK'
BY DEF TrafficTypeOK, Snapshots, Transactions, NoSnapshot, NoTransaction, Use, trafficVars, masterVars, syncVars, nodeVars, ghostVars

LEMMA TypeNodeSetsBack ==
  ASSUME TrafficTypeOK, NEW n \in Nodes, NEW v \in 0 .. cnt[n], NodeSetsBack(n, v)
  PROVE  TrafficTypeOK'
BY DEF TrafficTypeOK, Snapshots, Transactions, NoSnapshot, NoTransaction, NodeSetsBack, GoesBack, Event, trafficVars, masterVars, syncVars, nodeVars, ghostVars

LEMMA TypeNodeAttaches ==
  ASSUME TrafficTypeOK, NEW c \in Inbs, NodeAttaches(c)
  PROVE  TrafficTypeOK'
BY DEF TrafficTypeOK, Snapshots, Transactions, NoSnapshot, NoTransaction, NodeAttaches, Event, trafficVars, masterVars, syncVars, nodeVars, ghostVars

LEMMA TypeNodeDetaches ==
  ASSUME TrafficTypeOK, NEW c \in Inbs, NodeDetaches(c)
  PROVE  TrafficTypeOK'
<1>1. NodeOf[c] \in Nodes
  OBVIOUS
<1>2. cnt' \in [Nodes -> Nat] /\ steady' \in [Nodes -> BOOLEAN]
  <2>1. CASE GoesBack(NodeOf[c], 0)
    BY <1>1, <2>1, GoesBackTo DEF TrafficTypeOK
  <2>2. CASE UNCHANGED <<cnt, steady>>
    BY <2>2 DEF TrafficTypeOK
  <2> QED BY <2>1, <2>2 DEF NodeDetaches
<1>3. /\ carries' \subseteq Inbs /\ events' \in Nat
      /\ UNCHANGED <<masterVars, syncVars, spent, local, credit, owed, since>>
  BY DEF TrafficTypeOK, NodeDetaches, Event
<1> QED BY <1>2, <1>3 DEF TrafficTypeOK, masterVars, syncVars

LEMMA TypeReconciled ==
  ASSUME TrafficTypeOK, NEW n \in Nodes, Reconciled(n)
  PROVE  TrafficTypeOK'
BY DEF TrafficTypeOK, Snapshots, Transactions, NoSnapshot, NoTransaction, Reconciled, trafficVars, masterVars, syncVars, nodeVars, ghostVars

LEMMA TypeFetch ==
  ASSUME TrafficTypeOK, NEW n \in Nodes, Fetch(n)
  PROVE  TrafficTypeOK'
<1>1. PICK canon \in 0 .. Report(n) :
        snap' = [snap EXCEPT ![n] = [from |-> carries \cap On(n), canon |-> canon,
                                     just |-> at[n] = "pushed"]]
  BY Zenon DEF Fetch
<1>0. canon \in Nat
  BY DEF Report, TrafficTypeOK
<1> DEFINE pushed == at[n] = "pushed"
           new == [from |-> carries \cap On(n), canon |-> canon, just |-> pushed]
<1>2. snap' \in [Nodes -> Snapshots]
  <2>1. new \in Snapshots
    <3>1. pushed \in BOOLEAN /\ carries \cap On(n) \subseteq Inbs
      BY DEF TrafficTypeOK
    <3> HIDE DEF pushed
    <3> QED BY <1>0, <3>1 DEF Snapshots
  <2>2. snap \in [Nodes -> Snapshots] /\ snap' = [snap EXCEPT ![n] = new]
    BY <1>1 DEF TrafficTypeOK
  <2> HIDE DEF new
  <2> QED BY <2>1, <2>2
<1>3. /\ at' = [at EXCEPT ![n] = "pulled"]
      /\ UNCHANGED <<events, masterVars, busy, txn, nodeVars, spent, ghostVars>>
  BY DEF Fetch
<1> QED BY <1>2, <1>3 DEF TrafficTypeOK, masterVars, nodeVars, ghostVars

LEMMA TypeFetchFails ==
  ASSUME TrafficTypeOK, NEW n \in Nodes, FetchFails(n)
  PROVE  TrafficTypeOK'
BY DEF TrafficTypeOK, Snapshots, Transactions, NoSnapshot, NoTransaction, FetchFails, trafficVars, masterVars, syncVars, nodeVars, ghostVars

LEMMA TypeMergeBegin ==
  ASSUME TrafficTypeOK, NEW n \in Nodes, MergeBegin(n)
  PROVE  TrafficTypeOK'
BY DEF TrafficTypeOK, Snapshots, Transactions, NoSnapshot, NoTransaction, MergeBegin, trafficVars, masterVars, syncVars, nodeVars, ghostVars

(* What one inbound of the merge leaves in the transaction.                     *)
LEMMA InboundOutcome ==
  ASSUME TrafficTypeOK, NEW c \in Inbs, MergeInbound(c)
  PROVE  LET canon == snap[busy].canon
         IN  /\ txn' \in Transactions
             /\ txn'.todo = txn.todo \ {c}
             /\ \/ /\ txn.row = None /\ txn'.row # None /\ txn'.base = canon
                   /\ txn'.added <= canon /\ txn'.seeded /\ txn'.row = txn'.added
                \/ /\ txn.row = None /\ txn'.row = None /\ txn'.base = txn.base
                   /\ txn'.added = txn.added /\ txn'.seeded = txn.seeded
                \/ /\ txn.row # None /\ txn'.row # None
                   /\ txn'.row = ClampedAdd(txn.row, Delta(txn.base, canon))
                   /\ txn'.base = NextBase(txn, canon)
                   /\ txn'.added = txn.added + Delta(txn.base, canon)
                   /\ txn'.seeded = txn.seeded
<1> DEFINE canon == snap[busy].canon
<1>1. busy \in Nodes /\ canon \in Nat /\ txn \in Transactions
  BY DEF MergeInbound, TrafficTypeOK, Snapshots
<1>2. CASE SeedRow(c, canon)
  <2> DEFINE seed == IF c \in txn.new /\ ~buried THEN canon ELSE 0
  <2>1. txn.row = None /\ txn' = WithRow(txn, c, seed, canon, seed, TRUE)
    BY <1>2 DEF SeedRow
  <2>2. seed \in Nat /\ seed <= canon
    BY <1>1
  <2>3. seed \in Nat \cup {None} /\ canon \in Nat \cup {None} /\ TRUE \in BOOLEAN /\ seed # None
    BY <1>1, <2>2
  <2> HIDE DEF seed, canon
  <2>4. /\ txn' \in Transactions /\ txn'.todo = txn.todo \ {c} /\ txn'.row = seed
        /\ txn'.base = canon /\ txn'.added = seed /\ txn'.seeded = TRUE
    <3> DEFINE u == WithRow(txn, c, seed, canon, seed, TRUE)
    <3>1. /\ u \in Transactions /\ u.todo = txn.todo \ {c}
        /\ u.row = seed /\ u.base = canon
        /\ u.added = seed /\ u.seeded = TRUE
      BY <1>1, <2>2, <2>3 DEF WithRow, Transactions
    <3> QED BY <2>1, <3>1, Zenon
  <2> QED BY <2>1, <2>2, <2>3, <2>4 DEF canon
<1>3. CASE SkipRow(c)
  <2>1. txn.row = None /\ txn' = WithRow(txn, c, None, txn.base, txn.added, txn.seeded)
    BY <1>3 DEF SkipRow
  <2>2. txn.base \in Nat \cup {None} /\ txn.added \in Nat /\ txn.seeded \in BOOLEAN
    BY <1>1 DEF Transactions
  <2>3. None \in Nat \cup {None}
    OBVIOUS
  <2>4. /\ txn' \in Transactions /\ txn'.todo = txn.todo \ {c} /\ txn'.row = None
        /\ txn'.base = txn.base /\ txn'.added = txn.added /\ txn'.seeded = txn.seeded
    <3> DEFINE u == WithRow(txn, c, None, txn.base, txn.added, txn.seeded)
    <3>1. /\ u \in Transactions /\ u.todo = txn.todo \ {c}
        /\ u.row = None /\ u.base = txn.base
        /\ u.added = txn.added /\ u.seeded = txn.seeded
      BY <1>1, <2>2, <2>3 DEF WithRow, Transactions
    <3> QED BY <2>1, <3>1, Zenon
  <2> QED BY <2>1, <2>4
<1>4. CASE AddToRow(c, canon)
  <2> DEFINE d == Delta(txn.base, canon)
             r == ClampedAdd(txn.row, d)
             sum == txn.added + d
             nb == NextBase(txn, canon)
  <2>1. /\ txn.row \in Nat /\ txn.added \in Nat /\ txn.base \in Nat \cup {None}
        /\ txn.seeded \in BOOLEAN
    BY <1>1, <1>4 DEF AddToRow, Transactions
  <2>2. d \in Nat /\ nb \in Nat
    BY <1>1, <2>1 DEF Delta, NextBase
  <2>3. /\ r \in Nat \cup {None} /\ r # None /\ nb \in Nat \cup {None} /\ sum \in Nat
    BY <2>1, <2>2 DEF ClampedAdd
  <2>4. txn.row # None /\ txn' = WithRow(txn, c, r, nb, sum, txn.seeded)
    BY <1>4 DEF AddToRow
  <2> HIDE DEF d, r, sum, nb, canon
  <2>5. /\ txn' \in Transactions /\ txn'.todo = txn.todo \ {c} /\ txn'.row = r
        /\ txn'.base = nb /\ txn'.added = sum /\ txn'.seeded = txn.seeded
    <3> DEFINE u == WithRow(txn, c, r, nb, sum, txn.seeded)
    <3>1. /\ u \in Transactions /\ u.todo = txn.todo \ {c}
        /\ u.row = r /\ u.base = nb
        /\ u.added = sum /\ u.seeded = txn.seeded
      BY <1>1, <2>1, <2>3 DEF WithRow, Transactions
    <3> QED BY <2>4, <3>1, Zenon
  <2> QED BY <2>1, <2>2, <2>3, <2>4, <2>5 DEF d, r, sum, nb, canon
<1> QED BY <1>2, <1>3, <1>4 DEF MergeInbound

LEMMA TypeMergeInbound ==
  ASSUME TrafficTypeOK, NEW c \in Inbs, MergeInbound(c)
  PROVE  TrafficTypeOK'
<1>1. txn' \in Transactions
  BY InboundOutcome, Zenon
<1>2. UNCHANGED <<events, masterVars, at, snap, busy, nodeVars, spent, ghostVars>>
  BY Zenon DEF MergeInbound
<1> QED BY <1>1, <1>2 DEF TrafficTypeOK, masterVars, nodeVars, ghostVars

LEMMA TypeMergeCommit ==
  ASSUME TrafficTypeOK, NEW swept \in BOOLEAN, MergeCommit(swept)
  PROVE  TrafficTypeOK'
BY DEF TrafficTypeOK, Snapshots, Transactions, NoSnapshot, NoTransaction, MergeCommit, SyncEnds, MaySweep, trafficVars, masterVars, syncVars, nodeVars, ghostVars

LEMMA TypeMergeFails ==
  ASSUME TrafficTypeOK, MergeFails
  PROVE  TrafficTypeOK'
BY DEF TrafficTypeOK, Snapshots, Transactions, NoSnapshot, NoTransaction, MergeFails, SyncEnds, Event, trafficVars, masterVars, syncVars, nodeVars, ghostVars

LEMMA TypeAddClientTraffic ==
  ASSUME TrafficTypeOK, NEW k \in 1 .. TrafficMax, AddClientTraffic(k)
  PROVE  TrafficTypeOK'
BY DEF TrafficTypeOK, Snapshots, Transactions, NoSnapshot, NoTransaction, AddClientTraffic, ClampedAdd, trafficVars, masterVars, syncVars, nodeVars, ghostVars

LEMMA TypeResetClientTraffic ==
  ASSUME TrafficTypeOK, NEW c \in Inbs, ResetClientTraffic(c)
  PROVE  TrafficTypeOK'
BY DEF TrafficTypeOK, Snapshots, Transactions, NoSnapshot, NoTransaction, ResetClientTraffic, DropBaselines, FromZero, AllNone, AllZero, Event, trafficVars, masterVars, syncVars, nodeVars, ghostVars

LEMMA TypeRemoteReset ==
  ASSUME TrafficTypeOK, NEW n \in Nodes, RemoteReset(n)
  PROVE  TrafficTypeOK'
BY DEF TrafficTypeOK, Snapshots, Transactions, NoSnapshot, NoTransaction, RemoteReset, GoesBack, trafficVars, masterVars, syncVars, nodeVars, ghostVars

LEMMA TypeRemoteResetLost ==
  ASSUME TrafficTypeOK, NEW n \in Nodes, RemoteResetLost(n)
  PROVE  TrafficTypeOK'
BY DEF TrafficTypeOK, Snapshots, Transactions, NoSnapshot, NoTransaction, RemoteResetLost, trafficVars, masterVars, syncVars, nodeVars, ghostVars

LEMMA TypeBulkResetTraffic ==
  ASSUME TrafficTypeOK, BulkResetTraffic
  PROVE  TrafficTypeOK'
BY DEF TrafficTypeOK, Snapshots, Transactions, NoSnapshot, NoTransaction, BulkResetTraffic, DropBaselines, FromZero, AllNone, AllZero, Event, trafficVars, masterVars, syncVars, nodeVars, ghostVars

LEMMA TypeDelClientStat ==
  ASSUME TrafficTypeOK, DelClientStat
  PROVE  TrafficTypeOK'
BY DEF TrafficTypeOK, Snapshots, Transactions, NoSnapshot, NoTransaction, DelClientStat, DropBaselines, FromZero, AllNone, AllZero, Event, trafficVars, masterVars, syncVars, nodeVars, ghostVars

LEMMA TypeAddClientStat ==
  ASSUME TrafficTypeOK, AddClientStat
  PROVE  TrafficTypeOK'
<1>1. row' \in Nat \cup {None}
  BY DEF TrafficTypeOK, AddClientStat
<1>2. /\ events' \in Nat /\ buried' = FALSE
      /\ UNCHANGED <<base, known, pending, resets, syncVars, nodeVars, spent, ghostVars>>
  BY DEF TrafficTypeOK, AddClientStat, Event
<1> QED BY <1>1, <1>2 DEF TrafficTypeOK, syncVars, nodeVars, ghostVars

LEMMA TypeBurialExpires ==
  ASSUME TrafficTypeOK, BurialExpires
  PROVE  TrafficTypeOK'
BY DEF TrafficTypeOK, Snapshots, Transactions, NoSnapshot, NoTransaction, BurialExpires, trafficVars, masterVars, syncVars, nodeVars, ghostVars

LEMMA TypeMarkNodeDirty ==
  ASSUME TrafficTypeOK, NEW n \in Nodes, MarkNodeDirty(n)
  PROVE  TrafficTypeOK'
BY DEF TrafficTypeOK, Snapshots, Transactions, NoSnapshot, NoTransaction, MarkNodeDirty, Event, trafficVars, masterVars, syncVars, nodeVars, ghostVars


(* A counter that goes back, for whatever reason, ends the exact balance where *)
(* a baseline or a snapshot refers to it and keeps the inequalities.            *)
LEMMA KeepsGoesBack ==
  ASSUME TrafficIInv, NEW n \in Nodes, NEW v \in Nat, v <= cnt[n], GoesBack(n, v),
         UNCHANGED <<row, base, at, snap, busy, txn, credit, owed, since>>
  PROVE  RowInv' /\ BalanceInv' /\ SnapInv' /\ TxnInv'
<1>1. /\ cnt' \in [Nodes -> Nat]
      /\ \A m \in Nodes :
           /\ cnt'[m] <= cnt[m]
           /\ m # n => cnt'[m] = cnt[m]
           /\ steady'[m] => steady[m]
           /\ m = n /\ steady'[m] => base[n] = None /\ at[n] # "pulled"
  BY GoesBackTo DEF TrafficIInv
<1>2. RowInv' /\ TxnInv'
  BY DEF TrafficIInv, RowInv, TxnInv
<1>3. BalanceInv'
  BY <1>1 DEF TrafficIInv, TrafficTypeOK, BalanceInv
<1>4. SnapInv'
  BY <1>1 DEF TrafficIInv, TrafficTypeOK, SnapInv, Snapshots
<1> QED BY <1>2, <1>3, <1>4

LEMMA KeepsUse ==
  ASSUME TrafficIInv, NEW n \in Nodes, Use(n)
  PROVE  RowInv' /\ BalanceInv' /\ SnapInv' /\ TxnInv'
<1> USE DEF TrafficIInv, TrafficTypeOK, Use, masterVars, syncVars, nodeVars, ghostVars
<1>1. RowInv'
  BY DEF RowInv
<1>2. BalanceInv'
  BY DEF BalanceInv
<1>3. SnapInv'
  BY DEF SnapInv, BalanceInv, Snapshots
<1>4. TxnInv'
  BY DEF TxnInv, Transactions
<1> QED BY <1>1, <1>2, <1>3, <1>4

LEMMA KeepsNodeSetsBack ==
  ASSUME TrafficIInv, NEW n \in Nodes, NEW v \in 0 .. cnt[n], NodeSetsBack(n, v)
  PROVE  RowInv' /\ BalanceInv' /\ SnapInv' /\ TxnInv'
<1>1. GoesBack(n, v) /\ UNCHANGED <<row, base, at, snap, busy, txn, credit, owed, since>>
  BY DEF NodeSetsBack, masterVars, syncVars
<1> QED BY <1>1, KeepsGoesBack DEF TrafficIInv, TrafficTypeOK

LEMMA KeepsNodeAttaches ==
  ASSUME TrafficIInv, NEW c \in Inbs, NodeAttaches(c)
  PROVE  RowInv' /\ BalanceInv' /\ SnapInv' /\ TxnInv'
<1> USE DEF TrafficIInv, TrafficTypeOK, NodeAttaches, masterVars, syncVars, nodeVars, ghostVars
<1>1. RowInv'
  BY DEF RowInv
<1>2. BalanceInv'
  BY DEF BalanceInv
<1>3. SnapInv'
  BY DEF SnapInv, BalanceInv, Snapshots
<1>4. TxnInv'
  BY DEF TxnInv, Transactions
<1> QED BY <1>1, <1>2, <1>3, <1>4

LEMMA KeepsNodeDetaches ==
  ASSUME TrafficIInv, NEW c \in Inbs, NodeDetaches(c)
  PROVE  RowInv' /\ BalanceInv' /\ SnapInv' /\ TxnInv'
<1>1. UNCHANGED <<row, base, at, snap, busy, txn, credit, owed, since>>
  BY DEF NodeDetaches, masterVars, syncVars
<1>2. CASE GoesBack(NodeOf[c], 0)
  BY <1>1, <1>2, KeepsGoesBack DEF TrafficIInv, TrafficTypeOK
<1>3. CASE UNCHANGED <<cnt, steady>>
  BY <1>1, <1>3 DEF TrafficIInv, RowInv, BalanceInv, SnapInv, TxnInv
<1> QED BY <1>2, <1>3 DEF NodeDetaches

LEMMA KeepsReconciled ==
  ASSUME TrafficIInv, NEW n \in Nodes, Reconciled(n)
  PROVE  RowInv' /\ BalanceInv' /\ SnapInv' /\ TxnInv'
<1> USE DEF TrafficIInv, TrafficTypeOK, Reconciled, masterVars, syncVars, nodeVars, ghostVars
<1>1. RowInv'
  BY DEF RowInv
<1>2. BalanceInv'
  BY DEF BalanceInv
<1>3. SnapInv'
  BY DEF SnapInv, BalanceInv, Snapshots
<1>4. TxnInv'
  BY DEF TxnInv, Transactions
<1> QED BY <1>1, <1>2, <1>3, <1>4

LEMMA KeepsFetchFails ==
  ASSUME TrafficIInv, NEW n \in Nodes, FetchFails(n)
  PROVE  RowInv' /\ BalanceInv' /\ SnapInv' /\ TxnInv'
<1> USE DEF TrafficIInv, TrafficTypeOK, FetchFails, masterVars, syncVars, nodeVars, ghostVars
<1>1. RowInv'
  BY DEF RowInv
<1>2. BalanceInv'
  BY DEF BalanceInv
<1>3. SnapInv'
  BY DEF SnapInv, BalanceInv, Snapshots
<1>4. TxnInv'
  BY DEF TxnInv, Transactions
<1> QED BY <1>1, <1>2, <1>3, <1>4

LEMMA KeepsMergeFails ==
  ASSUME TrafficIInv, MergeFails
  PROVE  RowInv' /\ BalanceInv' /\ SnapInv' /\ TxnInv'
<1> USE DEF TrafficIInv, TrafficTypeOK, MergeFails, SyncEnds, NoSnapshot, masterVars, syncVars, nodeVars, ghostVars
<1>1. RowInv'
  BY DEF RowInv
<1>2. BalanceInv'
  BY DEF BalanceInv
<1>3. SnapInv'
  BY DEF SnapInv, BalanceInv, Snapshots
<1>4. TxnInv'
  BY DEF TxnInv, Transactions
<1> QED BY <1>1, <1>2, <1>3, <1>4

LEMMA KeepsAddClientTraffic ==
  ASSUME TrafficIInv, NEW k \in 1 .. TrafficMax, AddClientTraffic(k)
  PROVE  RowInv' /\ BalanceInv' /\ SnapInv' /\ TxnInv'
<1> USE DEF TrafficIInv, TrafficTypeOK, AddClientTraffic, ClampedAdd, masterVars, syncVars, nodeVars, ghostVars
<1>1. RowInv'
  BY DEF RowInv
<1>2. BalanceInv'
  BY DEF BalanceInv
<1>3. SnapInv'
  BY DEF SnapInv, BalanceInv, Snapshots
<1>4. TxnInv'
  BY DEF TxnInv, Transactions
<1> QED BY <1>1, <1>2, <1>3, <1>4

LEMMA KeepsResetClientTraffic ==
  ASSUME TrafficIInv, NEW c \in Inbs, ResetClientTraffic(c)
  PROVE  RowInv' /\ BalanceInv' /\ SnapInv' /\ TxnInv'
<1> USE DEF TrafficIInv, TrafficTypeOK, ResetClientTraffic, DropBaselines, FromZero, AllNone, AllZero, masterVars, syncVars, nodeVars, ghostVars
<1>1. RowInv'
  BY DEF RowInv
<1>2. BalanceInv'
  BY DEF BalanceInv
<1>3. SnapInv'
  BY DEF SnapInv, BalanceInv, Snapshots
<1>4. TxnInv'
  BY DEF TxnInv, Transactions
<1> QED BY <1>1, <1>2, <1>3, <1>4

LEMMA KeepsRemoteReset ==
  ASSUME TrafficIInv, NEW n \in Nodes, RemoteReset(n)
  PROVE  RowInv' /\ BalanceInv' /\ SnapInv' /\ TxnInv'
<1>1. GoesBack(n, 0) /\ UNCHANGED <<row, base, at, snap, busy, txn, credit, owed, since>>
  BY DEF RemoteReset, masterVars, syncVars
<1> QED BY <1>1, KeepsGoesBack DEF TrafficIInv, TrafficTypeOK

LEMMA KeepsRemoteResetLost ==
  ASSUME TrafficIInv, NEW n \in Nodes, RemoteResetLost(n)
  PROVE  RowInv' /\ BalanceInv' /\ SnapInv' /\ TxnInv'
<1> USE DEF TrafficIInv, TrafficTypeOK, RemoteResetLost, masterVars, syncVars, nodeVars, ghostVars
<1>1. RowInv'
  BY DEF RowInv
<1>2. BalanceInv'
  BY DEF BalanceInv
<1>3. SnapInv'
  BY DEF SnapInv, BalanceInv, Snapshots
<1>4. TxnInv'
  BY DEF TxnInv, Transactions
<1> QED BY <1>1, <1>2, <1>3, <1>4

LEMMA KeepsBulkResetTraffic ==
  ASSUME TrafficIInv, BulkResetTraffic
  PROVE  RowInv' /\ BalanceInv' /\ SnapInv' /\ TxnInv'
<1> USE DEF TrafficIInv, TrafficTypeOK, BulkResetTraffic, DropBaselines, FromZero, AllNone, AllZero, masterVars, syncVars, nodeVars, ghostVars
<1>1. RowInv'
  BY DEF RowInv
<1>2. BalanceInv'
  BY DEF BalanceInv
<1>3. SnapInv'
  BY DEF SnapInv, BalanceInv, Snapshots
<1>4. TxnInv'
  BY DEF TxnInv, Transactions
<1> QED BY <1>1, <1>2, <1>3, <1>4

LEMMA KeepsDelClientStat ==
  ASSUME TrafficIInv, DelClientStat
  PROVE  RowInv' /\ BalanceInv' /\ SnapInv' /\ TxnInv'
<1> USE DEF TrafficIInv, TrafficTypeOK, DelClientStat, DropBaselines, FromZero, AllNone, AllZero, masterVars, syncVars, nodeVars, ghostVars
<1>1. RowInv'
  BY DEF RowInv
<1>2. BalanceInv'
  BY DEF BalanceInv
<1>3. SnapInv'
  BY DEF SnapInv, BalanceInv, Snapshots
<1>4. TxnInv'
  BY DEF TxnInv, Transactions
<1> QED BY <1>1, <1>2, <1>3, <1>4

LEMMA KeepsAddClientStat ==
  ASSUME TrafficIInv, AddClientStat
  PROVE  RowInv' /\ BalanceInv' /\ SnapInv' /\ TxnInv'
<1> USE DEF TrafficIInv, TrafficTypeOK, AddClientStat, masterVars, syncVars, nodeVars, ghostVars
<1>1. RowInv'
  BY DEF RowInv
<1>2. BalanceInv'
  BY DEF BalanceInv
<1>3. SnapInv'
  BY DEF SnapInv, BalanceInv, Snapshots
<1>4. TxnInv'
  BY DEF TxnInv, Transactions
<1> QED BY <1>1, <1>2, <1>3, <1>4

LEMMA KeepsBurialExpires ==
  ASSUME TrafficIInv, BurialExpires
  PROVE  RowInv' /\ BalanceInv' /\ SnapInv' /\ TxnInv'
<1> USE DEF TrafficIInv, TrafficTypeOK, BurialExpires, masterVars, syncVars, nodeVars, ghostVars
<1>1. RowInv'
  BY DEF RowInv
<1>2. BalanceInv'
  BY DEF BalanceInv
<1>3. SnapInv'
  BY DEF SnapInv, BalanceInv, Snapshots
<1>4. TxnInv'
  BY DEF TxnInv, Transactions
<1> QED BY <1>1, <1>2, <1>3, <1>4

LEMMA KeepsMarkNodeDirty ==
  ASSUME TrafficIInv, NEW n \in Nodes, MarkNodeDirty(n)
  PROVE  RowInv' /\ BalanceInv' /\ SnapInv' /\ TxnInv'
<1> USE DEF TrafficIInv, TrafficTypeOK, MarkNodeDirty, masterVars, syncVars, nodeVars, ghostVars
<1>1. RowInv'
  BY DEF RowInv
<1>2. BalanceInv'
  BY DEF BalanceInv
<1>3. SnapInv'
  BY DEF SnapInv, BalanceInv, Snapshots
<1>4. TxnInv'
  BY DEF TxnInv, Transactions
<1> QED BY <1>1, <1>2, <1>3, <1>4

LEMMA KeepsMergeBegin ==
  ASSUME TrafficIInv, NEW n \in Nodes, MergeBegin(n)
  PROVE  RowInv' /\ BalanceInv' /\ SnapInv' /\ TxnInv'
<1>1. /\ busy' = n /\ at[n] = "pulled"
      /\ UNCHANGED <<masterVars, at, snap, nodeVars, ghostVars>>
  BY DEF MergeBegin
<1>2. /\ txn'.todo \subseteq snap[n].from /\ txn'.row = row /\ txn'.base = base[n]
      /\ txn'.added = 0 /\ txn'.seeded = FALSE
  BY DEF MergeBegin
<1>3. RowInv' /\ BalanceInv' /\ SnapInv'
  BY <1>1 DEF TrafficIInv, RowInv, BalanceInv, SnapInv, masterVars, nodeVars, ghostVars
<1>4. TxnInv'
  BY <1>1, <1>2 DEF TrafficIInv, TrafficTypeOK, RowInv, TxnInv, masterVars
<1> QED BY <1>3, <1>4

(* The folded value of copies of a counter is the counter.                      *)
LEMMA KeepsFetch ==
  ASSUME TrafficIInv, NEW n \in Nodes, Fetch(n)
  PROVE  RowInv' /\ BalanceInv' /\ SnapInv' /\ TxnInv'
<1>1. PICK copies \in [carries \cap On(n) -> 0 .. Report(n)], canon \in 0 .. Report(n) :
        /\ carries \cap On(n) # {} => \E c \in DOMAIN copies : copies[c] = Report(n)
        /\ FoldedTo(copies, canon)
        /\ snap' = [snap EXCEPT ![n] = [from |-> carries \cap On(n), canon |-> canon,
                                        just |-> at[n] = "pushed"]]
  BY Zenon DEF Fetch
<1>2. /\ at[n] # "pulled" /\ at' = [at EXCEPT ![n] = "pulled"]
      /\ UNCHANGED <<masterVars, busy, txn, nodeVars, ghostVars>>
  BY DEF Fetch
<1>3. cnt[n] \in Nat /\ canon \in Nat /\ canon <= cnt[n] /\ Report(n) = cnt[n]
  BY <1>1 DEF Report, TrafficIInv, TrafficTypeOK
<1>4. carries \cap On(n) # {} => canon = cnt[n]
  <2>1. ASSUME NEW c \in DOMAIN copies, copies[c] = Report(n) PROVE Report(n) <= canon
    BY <1>1, <2>1 DEF FoldedTo
  <2> QED BY <1>1, <1>3, <2>1
<1>5. /\ snap'[n].from = carries \cap On(n) /\ snap'[n].canon = canon
      /\ \A m \in Nodes : m # n => snap'[m] = snap[m]
  BY <1>1 DEF TrafficIInv, TrafficTypeOK
<1>6. at'[n] = "pulled" /\ \A m \in Nodes : m # n => at'[m] = at[m]
  BY <1>2 DEF TrafficIInv, TrafficTypeOK
<1>7. RowInv' /\ BalanceInv'
  BY <1>2 DEF TrafficIInv, RowInv, BalanceInv, masterVars, nodeVars, ghostVars
<1>8. SnapInv'
  <2>1. ASSUME NEW m \in Nodes, m # n
        PROVE  UNCHANGED <<at[m], snap[m], since[m], cnt[m], steady[m], base[m], credit[m], owed[m]>>
    BY <1>2, <1>5, <1>6, <2>1 DEF masterVars, nodeVars, ghostVars
  <2>2. /\ since'[n] = 0 /\ cnt'[n] = cnt[n] /\ steady'[n] = steady[n] /\ base'[n] = base[n]
        /\ credit'[n] = credit[n] /\ owed'[n] = owed[n]
    BY <1>2 DEF TrafficIInv, SnapInv, masterVars, nodeVars, ghostVars
  <2>3. snap'[n].from # {} => snap'[n].canon = cnt[n]
    BY <1>4, <1>5
  <2>4. /\ base[n] # None => credit[n] + cnt[n] <= owed[n] + base[n]
        /\ base[n] # None /\ steady[n] => base[n] <= cnt[n]
        /\ credit[n] + 0 <= owed[n]
    BY DEF TrafficIInv, TrafficTypeOK, BalanceInv
  <2> QED BY <1>3, <1>6, <2>1, <2>2, <2>3, <2>4 DEF TrafficIInv, SnapInv
<1>9. TxnInv'
  <2>1. busy # None => busy # n /\ busy \in Nodes
    BY <1>2 DEF TrafficIInv, TrafficTypeOK, TxnInv
  <2> QED BY <1>2, <1>5, <1>6, <2>1 DEF TrafficIInv, TxnInv, masterVars
<1> QED BY <1>7, <1>8, <1>9

(* One inbound adds nothing that its predecessors in the loop already added:    *)
(* the baseline moves with the first.                                           *)
LEMMA KeepsMergeInbound ==
  ASSUME TrafficIInv, NEW c \in Inbs, MergeInbound(c)
  PROVE  RowInv' /\ BalanceInv' /\ SnapInv' /\ TxnInv'
<1> DEFINE canon == snap[busy].canon
<1>1. UNCHANGED <<events, masterVars, at, snap, busy, nodeVars, spent, ghostVars>>
  BY Zenon DEF MergeInbound
<1>2. RowInv' /\ BalanceInv' /\ SnapInv'
  BY <1>1 DEF TrafficIInv, RowInv, BalanceInv, SnapInv, masterVars, nodeVars, ghostVars
<1>3. TxnInv'
  <2>1. /\ busy # None /\ busy \in Nodes /\ canon \in Nat /\ c \in txn.todo
        /\ base[busy] \in Nat \cup {None} /\ txn.base \in Nat \cup {None} /\ txn.added \in Nat
    BY DEF MergeInbound, TrafficIInv, TrafficTypeOK, Snapshots, Transactions
  <2>2. at[busy] = "pulled" /\ txn.todo \subseteq snap[busy].from /\ snap[busy].from # {}
    BY <2>1 DEF TrafficIInv, TxnInv
  <2>3. /\ txn.seeded => /\ row = None /\ txn.row # None
                         /\ txn.base = canon /\ txn.added <= canon
        /\ ~txn.seeded =>
             /\ txn.row = None <=> row = None
             /\ row = None => txn.base = None /\ txn.added = 0
             /\ txn.base = base[busy] => txn.added = 0
             /\ txn.base # base[busy] => /\ txn.base = canon
                                         /\ txn.added = Delta(base[busy], canon)
    BY <2>1 DEF TrafficIInv, TxnInv
  <2>4. row = None => base[busy] = None
    BY <2>1 DEF TrafficIInv, RowInv
  <2>5. /\ txn'.todo = txn.todo \ {c}
        /\ \/ /\ txn.row = None /\ txn'.row # None /\ txn'.base = canon
              /\ txn'.added <= canon /\ txn'.seeded
           \/ /\ txn.row = None /\ txn'.row = None /\ txn'.base = txn.base
              /\ txn'.added = txn.added /\ txn'.seeded = txn.seeded
           \/ /\ txn.row # None /\ txn'.row # None
              /\ txn'.base = NextBase(txn, canon)
              /\ txn'.added = txn.added + Delta(txn.base, canon)
              /\ txn'.seeded = txn.seeded
    BY InboundOutcome DEF TrafficIInv
  <2>6. UNCHANGED <<at, snap, busy, row, base>>
    BY <1>1 DEF masterVars
  <2> HIDE DEF canon
  <2>7. /\ txn'.seeded =>
             /\ row = None /\ txn'.row # None
             /\ txn'.base = canon /\ txn'.added <= canon
        /\ ~txn'.seeded =>
             /\ txn'.row = None <=> row = None
             /\ row = None => txn'.base = None /\ txn'.added = 0
             /\ txn'.base = base[busy] => txn'.added = 0
             /\ txn'.base # base[busy] => /\ txn'.base = canon
                                          /\ txn'.added = Delta(base[busy], canon)
    <3>1. CASE txn.row = None /\ txn'.row # None
      BY <2>1, <2>3, <2>5, <3>1
    <3>2. CASE txn.row = None /\ txn'.row = None
      BY <2>1, <2>3, <2>5, <3>2
    <3>3. CASE txn.row # None
      <4>1. /\ txn'.row # None /\ txn'.base = NextBase(txn, canon)
            /\ txn'.added = txn.added + Delta(txn.base, canon) /\ txn'.seeded = txn.seeded
        BY <2>5, <3>3
      <4>2. CASE txn.base = canon
        <5>1. Delta(txn.base, canon) = 0 /\ NextBase(txn, canon) = canon
          BY <2>1, <4>2 DEF Delta, NextBase
        <5> QED BY <2>1, <2>3, <3>3, <4>1, <4>2, <5>1 DEF Delta
      <4>3. CASE txn.base # canon
        <5>1. ~txn.seeded /\ txn.base = base[busy] /\ txn.added = 0 /\ row # None
          BY <2>3, <3>3, <4>3
        <5>2. txn'.added = Delta(base[busy], canon)
          BY <2>1, <4>1, <5>1 DEF Delta
        <5>3. \/ NextBase(txn, canon) = canon
              \/ NextBase(txn, canon) = base[busy] /\ Delta(base[busy], canon) = 0
          BY <5>1 DEF NextBase, Delta
        <5> QED BY <3>3, <4>1, <4>3, <5>1, <5>2, <5>3
      <4> QED BY <4>2, <4>3
    <3> QED BY <3>1, <3>2, <3>3
  <2> QED BY <2>1, <2>2, <2>5, <2>6, <2>7 DEF TxnInv, canon
<1> QED BY <1>2, <1>3

(* The end of a sync: the counters, snapshots and ghosts of the other nodes     *)
(* are not touched.                                                             *)
LEMMA SyncEndsFor ==
  ASSUME TrafficIInv, busy # None, SyncEnds
  PROVE  /\ busy \in Nodes /\ busy' = None
         /\ at'[busy] = "idle" /\ since'[busy] = 0
         /\ \A m \in Nodes : m # busy => UNCHANGED <<at[m], snap[m], since[m]>>
BY DEF SyncEnds, TrafficIInv, TrafficTypeOK

(* A commit moves what it adds to the row from the difference of counter and    *)
(* baseline; a node seen for the first time owes what it used since the         *)
(* snapshot.                                                                    *)
LEMMA KeepsMergeCommit ==
  ASSUME TrafficIInv, NEW swept \in BOOLEAN, MergeCommit(swept)
  PROVE  RowInv' /\ BalanceInv' /\ SnapInv' /\ TxnInv'
<1> DEFINE n == busy
           canon == snap[n].canon
           nb == IF swept THEN None ELSE txn.base
           nc == txn.added + (IF txn.seeded THEN 0 ELSE credit[n])
           no == IF txn.seeded THEN txn.added + since[n]
                 ELSE IF base[n] = None /\ txn.base # None THEN owed[n] + since[n] ELSE owed[n]
           ns == steady[n] /\ ~(swept /\ txn.base # None)
<1>1. /\ n # None /\ SyncEnds /\ row' = txn.row
      /\ base' = [base EXCEPT ![n] = nb] /\ credit' = [credit EXCEPT ![n] = nc]
      /\ owed' = [owed EXCEPT ![n] = no] /\ steady' = [steady EXCEPT ![n] = ns]
      /\ cnt' = cnt
  BY DEF MergeCommit, nodeVars
<1>2. /\ n \in Nodes /\ n' = None /\ at'[n] = "idle" /\ since'[n] = 0
      /\ \A m \in Nodes : m # n => UNCHANGED <<at[m], snap[m], since[m]>>
  BY <1>1, SyncEndsFor
<1>3. /\ base'[n] = nb /\ credit'[n] = nc /\ owed'[n] = no /\ steady'[n] = ns
      /\ \A m \in Nodes : m # n => UNCHANGED <<base[m], credit[m], owed[m], steady[m]>>
  BY <1>1, <1>2 DEF TrafficIInv, TrafficTypeOK
<1>4. /\ canon \in Nat /\ txn.added \in Nat /\ txn.base \in Nat \cup {None}
      /\ base[n] \in Nat \cup {None} /\ credit[n] \in Nat /\ owed[n] \in Nat
      /\ since[n] \in Nat /\ cnt[n] \in Nat
      /\ steady[n] \in BOOLEAN /\ txn.seeded \in BOOLEAN
  BY <1>2 DEF TrafficIInv, TrafficTypeOK, Snapshots, Transactions
<1>5. /\ credit[n] <= owed[n]
      /\ base[n] = None /\ steady[n] => credit[n] = owed[n]
      /\ base[n] # None => credit[n] + cnt[n] <= owed[n] + base[n]
      /\ base[n] # None /\ steady[n] => /\ credit[n] + cnt[n] = owed[n] + base[n]
                                        /\ base[n] <= cnt[n]
  BY <1>2 DEF TrafficIInv, BalanceInv
<1>6. /\ base[n] # None => credit[n] + since[n] <= owed[n]
      /\ snap[n].from # {} =>
           /\ cnt[n] <= canon + since[n]
           /\ steady[n] => cnt[n] = canon + since[n]
           /\ base[n] # None => credit[n] + canon <= owed[n] + base[n]
           /\ base[n] # None /\ steady[n] => base[n] <= canon
  BY <1>1, <1>2 DEF TrafficIInv, SnapInv, TxnInv
<1>7. /\ txn.seeded =>
           /\ row = None /\ txn.row # None /\ snap[n].from # {}
           /\ txn.base = canon /\ txn.added <= canon
      /\ ~txn.seeded =>
           /\ txn.row = None <=> row = None
           /\ row = None => txn.base = None /\ txn.added = 0
           /\ txn.base = base[n] => txn.added = 0
           /\ txn.base # base[n] =>
                /\ snap[n].from # {} /\ txn.base = canon
                /\ txn.added = Delta(base[n], canon)
  BY <1>1 DEF TrafficIInv, TxnInv
<1>8. swept => snap[n].from = {} /\ txn.row # None
  BY DEF MergeCommit, MaySweep
<1>9. row = None => \A m \in Nodes : base[m] = None /\ credit[m] = 0 /\ owed[m] = 0
  BY DEF TrafficIInv, RowInv
<1>10. RowInv'
  <2>1. ASSUME txn.row = None PROVE row = None /\ ~txn.seeded /\ nb = None /\ nc = 0 /\ no = 0
    BY <1>2, <1>4, <1>7, <1>9, <2>1
  <2> QED BY <1>1, <1>3, <1>9, <2>1 DEF RowInv
<1>11. /\ nc <= no
       /\ nb = None /\ ns => nc = no
       /\ nb # None => nc + cnt[n] <= no + nb
       /\ nb # None /\ ns => nc + cnt[n] = no + nb /\ nb <= cnt[n]
  <2>1. CASE txn.seeded
    BY <1>4, <1>6, <1>7, <1>8, <2>1
  <2>2. CASE ~txn.seeded /\ txn.base = base[n]
    BY <1>4, <1>5, <1>7, <1>8, <2>2
  <2>3. CASE ~txn.seeded /\ txn.base # base[n]
    <3>1. /\ ~swept /\ snap[n].from # {} /\ txn.base = canon
          /\ txn.added = Delta(base[n], canon)
      BY <1>7, <1>8, <2>3
    <3>2. CASE base[n] = None
      BY <1>4, <1>5, <1>6, <2>3, <3>1, <3>2 DEF Delta
    <3>3. CASE base[n] # None
      <4>1. base[n] \in Nat
        BY <1>4, <3>3
      <4>2. /\ nb = canon /\ nb \in Nat /\ nb # None /\ no = owed[n]
            /\ nc = Delta(base[n], canon) + credit[n]
        BY <1>4, <2>3, <3>1, <3>3
      <4>3. CASE canon < base[n]
        <5>1. nc = credit[n] /\ ~steady[n]
          BY <1>4, <1>6, <3>1, <3>3, <4>1, <4>2, <4>3 DEF Delta
        <5>2. ~ns
          BY <5>1
        <5>3. credit[n] + cnt[n] <= owed[n] + canon
          <6>1. cnt[n] <= canon + since[n] /\ credit[n] + since[n] <= owed[n]
            BY <1>6, <3>1, <3>3
          <6> HIDE DEF n, canon
          <6> QED BY <1>4, <6>1
        <5> HIDE DEF nc, nb, no, ns
        <5> QED BY <1>5, <4>2, <5>1, <5>2, <5>3
      <4>4. CASE base[n] <= canon
        <5>1. nc + base[n] = credit[n] + canon /\ nc \in Nat
          BY <1>4, <4>1, <4>2, <4>4 DEF Delta
        <5>2. /\ nc + base[n] <= owed[n] + base[n]
              /\ credit[n] + cnt[n] <= owed[n] + base[n]
              /\ steady[n] => credit[n] + cnt[n] = owed[n] + base[n] /\ cnt[n] = canon + since[n]
          BY <1>5, <1>6, <3>1, <3>3, <5>1
        <5>3. ns => steady[n]
          BY <1>4
        <5> HIDE DEF nc, nb, no, ns
        <5>4. nc <= owed[n] /\ nc + cnt[n] <= owed[n] + canon
          BY <1>4, <4>1, <5>1, <5>2
        <5>5. ASSUME steady[n] PROVE nc + cnt[n] = owed[n] + canon /\ canon <= cnt[n]
          <6>1. credit[n] + cnt[n] = owed[n] + base[n] /\ cnt[n] = canon + since[n]
            BY <5>2, <5>5
          <6> HIDE DEF n, canon
          <6> QED BY <1>4, <4>1, <5>1, <6>1
        <5> QED BY <4>2, <5>3, <5>4, <5>5
      <4> QED BY <1>4, <4>1, <4>3, <4>4
    <3> QED BY <3>2, <3>3
  <2> QED BY <1>4, <2>1, <2>2, <2>3
<1> HIDE DEF nb, nc, no, ns
<1>12. BalanceInv'
  BY <1>1, <1>2, <1>3, <1>11 DEF TrafficIInv, BalanceInv
<1>13. SnapInv'
  <2>1. credit'[n] + since'[n] <= owed'[n]
    <3>1. nc \in Nat
      BY <1>4 DEF nc
    <3> QED BY <1>2, <1>3, <1>11, <3>1
  <2> QED BY <1>1, <1>2, <1>3, <2>1 DEF TrafficIInv, SnapInv
<1>14. TxnInv'
  BY <1>2 DEF TxnInv
<1> QED BY <1>10, <1>12, <1>13, <1>14

LEMMA TrafficInitEstablishes ==
  TrafficInit => TrafficIInv
<1> SUFFICES ASSUME TrafficInit PROVE TrafficIInv
  OBVIOUS
<1>1. TrafficTypeOK
  BY DEF TrafficInit, TrafficTypeOK, AllNone, AllZero, NoSnapshot, NoTransaction, Snapshots, Transactions
<1>2. RowInv /\ BalanceInv /\ SnapInv /\ TxnInv
  BY <1>1 DEF TrafficInit, RowInv, BalanceInv, SnapInv, TxnInv, TrafficTypeOK, AllNone, AllZero
<1> QED BY <1>1, <1>2 DEF TrafficIInv

LEMMA TrafficStepPreserves ==
  TrafficIInv /\ [TrafficNext]_trafficVars => TrafficIInv'
<1> SUFFICES ASSUME TrafficIInv, [TrafficNext]_trafficVars PROVE TrafficIInv'
  OBVIOUS
<1> USE DEF TrafficIInv
<1>1. ASSUME NEW n \in Nodes, Use(n) PROVE TrafficIInv'
  BY <1>1, TypeUse, KeepsUse
<1>2. ASSUME NEW n \in Nodes, NEW v \in 0 .. cnt[n], NodeSetsBack(n, v) PROVE TrafficIInv'
  BY <1>2, TypeNodeSetsBack, KeepsNodeSetsBack
<1>3. ASSUME NEW c \in Inbs, NodeAttaches(c) PROVE TrafficIInv'
  BY <1>3, TypeNodeAttaches, KeepsNodeAttaches
<1>4. ASSUME NEW c \in Inbs, NodeDetaches(c) PROVE TrafficIInv'
  BY <1>4, TypeNodeDetaches, KeepsNodeDetaches
<1>5. ASSUME NEW n \in Nodes, Reconciled(n) PROVE TrafficIInv'
  BY <1>5, TypeReconciled, KeepsReconciled
<1>6. ASSUME NEW n \in Nodes, Fetch(n) PROVE TrafficIInv'
  BY <1>6, TypeFetch, KeepsFetch
<1>7. ASSUME NEW n \in Nodes, FetchFails(n) PROVE TrafficIInv'
  BY <1>7, TypeFetchFails, KeepsFetchFails
<1>8. ASSUME NEW n \in Nodes, MergeBegin(n) PROVE TrafficIInv'
  BY <1>8, TypeMergeBegin, KeepsMergeBegin
<1>9. ASSUME NEW c \in Inbs, MergeInbound(c) PROVE TrafficIInv'
  BY <1>9, TypeMergeInbound, KeepsMergeInbound
<1>10. ASSUME NEW swept \in BOOLEAN, MergeCommit(swept) PROVE TrafficIInv'
  BY <1>10, TypeMergeCommit, KeepsMergeCommit
<1>11. CASE MergeFails
  BY <1>11, TypeMergeFails, KeepsMergeFails
<1>12. ASSUME NEW k \in 1 .. TrafficMax, AddClientTraffic(k) PROVE TrafficIInv'
  BY <1>12, TypeAddClientTraffic, KeepsAddClientTraffic
<1>13. ASSUME NEW c \in Inbs, ResetClientTraffic(c) PROVE TrafficIInv'
  BY <1>13, TypeResetClientTraffic, KeepsResetClientTraffic
<1>14. ASSUME NEW n \in Nodes, RemoteReset(n) PROVE TrafficIInv'
  BY <1>14, TypeRemoteReset, KeepsRemoteReset
<1>15. ASSUME NEW n \in Nodes, RemoteResetLost(n) PROVE TrafficIInv'
  BY <1>15, TypeRemoteResetLost, KeepsRemoteResetLost
<1>16. CASE BulkResetTraffic
  BY <1>16, TypeBulkResetTraffic, KeepsBulkResetTraffic
<1>17. CASE DelClientStat
  BY <1>17, TypeDelClientStat, KeepsDelClientStat
<1>18. CASE AddClientStat
  BY <1>18, TypeAddClientStat, KeepsAddClientStat
<1>19. CASE BurialExpires
  BY <1>19, TypeBurialExpires, KeepsBurialExpires
<1>20. ASSUME NEW n \in Nodes, MarkNodeDirty(n) PROVE TrafficIInv'
  BY <1>20, TypeMarkNodeDirty, KeepsMarkNodeDirty
<1>21. CASE UNCHANGED trafficVars
  BY <1>21 DEF TrafficTypeOK, RowInv, BalanceInv, SnapInv, TxnInv, trafficVars, masterVars, syncVars,
              nodeVars, ghostVars
<1> QED
  BY <1>1, <1>2, <1>3, <1>4, <1>5, <1>6, <1>7, <1>8, <1>9, <1>10,
     <1>11, <1>12, <1>13, <1>14, <1>15, <1>16, <1>17, <1>18, <1>19, <1>20, <1>21
     DEF TrafficNext, NodeSteps, SyncSteps, MergeSteps, RowSteps, On

(* The inductive invariant of the traffic accounting holds throughout.          *)
THEOREM TrafficInvariant == TrafficSpec => []TrafficIInv
BY TrafficInitEstablishes, TrafficStepPreserves, PTL DEF TrafficSpec

(* The accounting state keeps its types: no merge, reset or deletion leaves a   *)
(* half-built transaction or a counter that is not one.                         *)
THEOREM TrafficTypes == TrafficSpec => []TrafficTypeOK
<1>1. TrafficIInv => TrafficTypeOK
  BY DEF TrafficIInv
<1> QED BY <1>1, TrafficInvariant, PTL

(* setRemoteTrafficLocked never counts usage twice, whatever the nodes' counters *)
(* and the resets do, for every number of nodes and inbounds.                   *)
THEOREM TrafficNeverOvercounts == TrafficSpec => []NeverOvercounts
<1>1. TrafficIInv => NeverOvercounts
  BY DEF TrafficIInv, BalanceInv, NeverOvercounts
<1> QED BY <1>1, TrafficInvariant, PTL

(* Nor does it lose usage of a node whose counter did not go back.              *)
THEOREM TrafficCountedExactly == TrafficSpec => []CountedExactly
<1>1. TrafficIInv => CountedExactly
  BY DEF TrafficIInv, BalanceInv, CountedExactly
<1> QED BY <1>1, TrafficInvariant, PTL

-----------------------------------------------------------------------------
(* The row is the sum of its sources.                                           *)
Capped(x) == IF x > TrafficMax THEN TrafficMax ELSE x

(* No node counts further than a counter goes, and no snapshot shows more.      *)
CounterInv == \A n \in Nodes : cnt[n] <= TrafficMax /\ snap[n].canon <= TrafficMax

(* The committed row.                                                           *)
SumInv ==
    /\ row = None => local = 0
    /\ row # None => row = Capped(local + Total(credit, Nodes))

(* The row an open transaction is about to commit.                              *)
OpenInv ==
    busy # None /\ txn.row # None =>
        txn.row = Capped((IF txn.seeded THEN 0 ELSE row) + txn.added)

RowSumIInv == CounterInv /\ SumInv /\ OpenInv

(* Clamping twice is clamping once.                                             *)
LEMMA CappedTwice ==
  ASSUME NEW x \in Nat, NEW d \in Nat
  PROVE  ClampedAdd(Capped(x), d) = Capped(x + d)
BY DEF ClampedAdd, Capped

LEMMA TotalType ==
  ASSUME TrafficTypeOK
  PROVE  Total(credit, Nodes) \in Nat
<1>1. credit \in [Nodes -> Nat]
  BY DEF TrafficTypeOK
<1>2. Sums(credit, Nodes) \in [SUBSET Nodes -> Nat]
  BY <1>1, SumsExist, NodesAssumption
<1> QED BY <1>2 DEF Total

(* A step that leaves the row, its sources and the transaction alone.           *)
LEMMA RowUntouched ==
  ASSUME RowSumIInv, UNCHANGED <<row, local, credit, busy, txn>>, CounterInv'
  PROVE  RowSumIInv'
BY DEF RowSumIInv, SumInv, OpenInv

(* The nodes' own steps and the first half of a sync.                           *)
LEMMA NodeStepsSum ==
  ASSUME TrafficTypeOK, RowSumIInv, NEW n \in Nodes,
         Use(n) \/ Reconciled(n) \/ FetchFails(n) \/ RemoteReset(n) \/ RemoteResetLost(n) \/ MarkNodeDirty(n)
  PROVE  RowSumIInv'
<1>1. UNCHANGED <<row, local, credit, busy, txn, snap>>
  BY DEF Use, Reconciled, FetchFails, RemoteReset, RemoteResetLost, MarkNodeDirty,
         masterVars, syncVars, ghostVars
<1>2. \A m \in Nodes : cnt'[m] <= TrafficMax
  BY DEF Use, Reconciled, FetchFails, RemoteReset, RemoteResetLost, MarkNodeDirty, GoesBack,
         nodeVars, RowSumIInv, CounterInv, TrafficTypeOK
<1>3. CounterInv'
  BY <1>1, <1>2 DEF RowSumIInv, CounterInv
<1> QED BY <1>1, <1>3, RowUntouched

LEMMA NodeSetsBackSum ==
  ASSUME TrafficTypeOK, RowSumIInv, NEW n \in Nodes, NEW v \in 0 .. cnt[n], NodeSetsBack(n, v)
  PROVE  RowSumIInv'
<1>1. UNCHANGED <<row, local, credit, busy, txn, snap>>
  BY DEF NodeSetsBack, masterVars, syncVars
<1>2. \A m \in Nodes : cnt'[m] <= TrafficMax
  BY DEF NodeSetsBack, GoesBack, RowSumIInv, CounterInv, TrafficTypeOK
<1>3. CounterInv'
  BY <1>1, <1>2 DEF RowSumIInv, CounterInv
<1> QED BY <1>1, <1>3, RowUntouched

LEMMA NodeInboundsSum ==
  ASSUME TrafficTypeOK, RowSumIInv, NEW c \in Inbs, NodeAttaches(c) \/ NodeDetaches(c)
  PROVE  RowSumIInv'
<1>1. UNCHANGED <<row, local, credit, busy, txn, snap>>
  BY DEF NodeAttaches, NodeDetaches, masterVars, syncVars, ghostVars
<1>2. \A m \in Nodes : cnt'[m] <= TrafficMax
  <2>1. NodeOf[c] \in Nodes
    OBVIOUS
  <2>2. cnt' = cnt \/ GoesBack(NodeOf[c], 0)
    BY DEF NodeAttaches, NodeDetaches
  <2>3. CASE cnt' = cnt
    BY <2>3 DEF RowSumIInv, CounterInv
  <2>4. CASE GoesBack(NodeOf[c], 0)
    BY <2>1, <2>4 DEF GoesBack, RowSumIInv, CounterInv, TrafficTypeOK
  <2> QED BY <2>2, <2>3, <2>4
<1>3. CounterInv'
  BY <1>1, <1>2 DEF RowSumIInv, CounterInv
<1> QED BY <1>1, <1>3, RowUntouched

(* A snapshot shows at most what the node counts.                               *)
LEMMA FetchSum ==
  ASSUME TrafficTypeOK, RowSumIInv, NEW n \in Nodes, Fetch(n)
  PROVE  RowSumIInv'
<1>1. PICK canon \in 0 .. Report(n) :
        snap' = [snap EXCEPT ![n] = [from |-> carries \cap On(n), canon |-> canon,
                                     just |-> at[n] = "pushed"]]
  BY Zenon DEF Fetch
<1>2. UNCHANGED <<row, local, credit, busy, txn, cnt>>
  BY DEF Fetch, masterVars, nodeVars, ghostVars
<1>3. canon \in Nat /\ canon <= TrafficMax
  BY DEF Report, TrafficTypeOK, RowSumIInv, CounterInv
<1> DEFINE pushed == at[n] = "pushed"
           new == [from |-> carries \cap On(n), canon |-> canon, just |-> pushed]
<1>4. new.canon = canon
  OBVIOUS
<1>5. snap' = [snap EXCEPT ![n] = new] /\ snap \in [Nodes -> Snapshots]
  BY <1>1 DEF TrafficTypeOK
<1> HIDE DEF new
<1>6. \A m \in Nodes : snap'[m].canon <= TrafficMax
  BY <1>3, <1>4, <1>5 DEF RowSumIInv, CounterInv
<1>7. CounterInv'
  BY <1>2, <1>6 DEF RowSumIInv, CounterInv
<1> QED BY <1>2, <1>7, RowUntouched

LEMMA BurialExpiresSum ==
  ASSUME RowSumIInv, BurialExpires
  PROVE  RowSumIInv'
<1>1. UNCHANGED <<row, local, credit, busy, txn, cnt, snap>>
  BY DEF BurialExpires, syncVars, nodeVars, ghostVars
<1> QED BY <1>1, RowUntouched DEF RowSumIInv, CounterInv

(* A transaction starts from the row as it is.                                  *)
LEMMA MergeBeginSum ==
  ASSUME TrafficTypeOK, RowSumIInv, NEW n \in Nodes, MergeBegin(n)
  PROVE  RowSumIInv'
<1>1. UNCHANGED <<row, local, credit, cnt, snap>>
  BY DEF MergeBegin, masterVars, nodeVars, ghostVars
<1>2. txn'.row = row /\ txn'.added = 0 /\ txn'.seeded = FALSE
  BY DEF MergeBegin
<1>3. CounterInv' /\ SumInv'
  BY <1>1 DEF RowSumIInv, CounterInv, SumInv
<1>4. OpenInv'
  <2>1. ASSUME row # None PROVE row \in Nat /\ row <= TrafficMax
    BY <2>1, TotalType DEF RowSumIInv, SumInv, Capped, TrafficTypeOK
  <2>2. row # None => row = Capped(row + 0)
    BY <2>1 DEF Capped
  <2> QED BY <1>1, <1>2, <2>2 DEF OpenInv
<1> QED BY <1>3, <1>4 DEF RowSumIInv

(* An inbound adds to the row what it adds to the count of the transaction.     *)
LEMMA MergeInboundSum ==
  ASSUME TrafficIInv, RowSumIInv, NEW c \in Inbs, MergeInbound(c)
  PROVE  RowSumIInv'
<1> DEFINE canon == snap[busy].canon
           from == IF txn.seeded THEN 0 ELSE row
<1>1. UNCHANGED <<row, local, credit, cnt, snap, busy>>
  BY Zenon DEF MergeInbound, masterVars, nodeVars, ghostVars
<1>2. CounterInv' /\ SumInv'
  BY <1>1 DEF RowSumIInv, CounterInv, SumInv
<1>3. /\ busy # None /\ busy \in Nodes /\ canon \in Nat /\ canon <= TrafficMax
      /\ txn.added \in Nat /\ txn.base \in Nat \cup {None} /\ row \in Nat \cup {None}
      /\ txn.seeded \in BOOLEAN
  BY DEF MergeInbound, TrafficIInv, TrafficTypeOK, Snapshots, Transactions, RowSumIInv, CounterInv
<1>4. \/ /\ txn.row = None /\ txn'.row # None
         /\ txn'.added <= canon /\ txn'.seeded /\ txn'.row = txn'.added
      \/ txn.row = None /\ txn'.row = None
      \/ /\ txn.row # None /\ txn'.row = ClampedAdd(txn.row, Delta(txn.base, canon))
         /\ txn'.added = txn.added + Delta(txn.base, canon) /\ txn'.seeded = txn.seeded
  BY InboundOutcome, Zenon DEF TrafficIInv
<1>5. txn' \in Transactions
  BY InboundOutcome, Zenon DEF TrafficIInv
<1>6. txn'.added \in Nat /\ txn'.seeded \in BOOLEAN
  BY <1>5 DEF Transactions
<1> HIDE DEF canon
<1>7. OpenInv'
  <2>1. CASE txn.row = None /\ txn'.row # None
    <3>1. txn'.added <= TrafficMax /\ txn'.seeded /\ txn'.row = txn'.added
      BY <1>3, <1>4, <1>6, <2>1
    <3>2. Capped(0 + txn'.added) = txn'.added
      BY <1>6, <3>1 DEF Capped
    <3> QED BY <3>1, <3>2 DEF OpenInv
  <2>2. CASE txn.row = None /\ txn'.row = None
    BY <2>2 DEF OpenInv
  <2>3. CASE txn.row # None
    <3> DEFINE d == Delta(txn.base, canon)
    <3>1. from \in Nat
      BY <1>3, <2>3 DEF TrafficIInv, TxnInv
    <3>2. txn.row = Capped(from + txn.added)
      BY <1>3, <2>3 DEF RowSumIInv, OpenInv
    <3>3. d \in Nat
      BY <1>3 DEF Delta
    <3>4. /\ txn'.row = ClampedAdd(txn.row, d) /\ txn'.added = txn.added + d
          /\ txn'.seeded = txn.seeded
      BY <1>4, <2>3
    <3>5. (IF txn'.seeded THEN 0 ELSE row') = from
      BY <1>1, <3>4
    <3> HIDE DEF from, d
    <3>6. from + txn.added \in Nat /\ (from + txn.added) + d = from + (txn.added + d)
      BY <1>3, <3>1, <3>3
    <3>7. ClampedAdd(Capped(from + txn.added), d) = Capped((from + txn.added) + d)
      BY <3>3, <3>6, CappedTwice
    <3>8. txn'.row = Capped(from + txn'.added)
      BY <3>2, <3>4, <3>6, <3>7
    <3> QED BY <3>5, <3>8 DEF OpenInv
  <2> QED BY <1>4, <2>1, <2>2, <2>3
<1> QED BY <1>2, <1>7 DEF RowSumIInv

(* A commit adds to the row what it credits to its node, and to no other.       *)
LEMMA MergeCommitSum ==
  ASSUME TrafficIInv, RowSumIInv, NEW swept \in BOOLEAN, MergeCommit(swept)
  PROVE  RowSumIInv'
<1> DEFINE n == busy
           old == credit[n]
           new == txn.added + (IF txn.seeded THEN 0 ELSE old)
           t == Total(credit, Nodes)
<1>1. /\ n # None /\ row' = txn.row /\ busy' = None /\ local' = local /\ cnt' = cnt
      /\ credit' = [credit EXCEPT ![n] = new]
      /\ snap' = [snap EXCEPT ![n] = NoSnapshot]
  BY DEF MergeCommit, SyncEnds, nodeVars
<1>2. /\ n \in Nodes /\ old \in Nat /\ txn.added \in Nat /\ new \in Nat /\ local \in Nat
      /\ credit \in [Nodes -> Nat] /\ row \in Nat \cup {None} /\ txn.row \in Nat \cup {None}
      /\ txn.seeded \in BOOLEAN
  BY <1>1 DEF TrafficIInv, TrafficTypeOK, Transactions
<1>3. CounterInv'
  BY <1>1, <1>2 DEF RowSumIInv, CounterInv, TrafficIInv, TrafficTypeOK, NoSnapshot
<1>4. OpenInv'
  BY <1>1 DEF OpenInv
<1>5. /\ credit' \in [Nodes -> Nat] /\ credit'[n] = new
      /\ \A m \in Nodes : m # n => credit'[m] = credit[m]
  BY <1>1, <1>2
<1> HIDE DEF new, n
<1>6. Total(credit', Nodes) + old = t + new /\ t \in Nat /\ Total(credit', Nodes) \in Nat
  BY <1>2, <1>5, TotalMoves, NodesAssumption
<1>7. SumInv'
  <2>1. ASSUME txn.row = None PROVE local' = 0
    <3>1. row = None
      BY <1>1, <2>1 DEF TrafficIInv, TxnInv, n
    <3> QED BY <1>1, <3>1 DEF RowSumIInv, SumInv
  <2>2. ASSUME txn.row # None PROVE txn.row = Capped(local + Total(credit', Nodes))
    <3>1. CASE txn.seeded
      <4>1. row = None
        BY <1>1, <3>1 DEF TrafficIInv, TxnInv, n
      <4>2. local = 0 /\ \A m \in Nodes : credit[m] = 0
        BY <4>1 DEF RowSumIInv, SumInv, TrafficIInv, RowInv
      <4>3. t = 0 /\ old = 0
        BY <1>2, <4>2, TotalZero, NodesAssumption
      <4>4. new = txn.added
        BY <1>2, <3>1 DEF new
      <4>5. Total(credit', Nodes) = txn.added
        BY <1>2, <1>6, <4>3, <4>4
      <4>6. txn.row = Capped(0 + txn.added)
        BY <1>1, <2>2, <3>1 DEF RowSumIInv, OpenInv, n
      <4> QED BY <4>2, <4>5, <4>6
    <3>2. CASE ~txn.seeded
      <4>1. row # None /\ row \in Nat
        BY <1>1, <1>2, <2>2, <3>2 DEF TrafficIInv, TxnInv, n
      <4>2. row = Capped(local + t)
        BY <4>1 DEF RowSumIInv, SumInv
      <4>3. txn.row = Capped(row + txn.added)
        BY <1>1, <2>2, <3>2 DEF RowSumIInv, OpenInv, n
      <4>4. new = txn.added + old
        BY <3>2 DEF new
      <4>5. Total(credit', Nodes) = t + txn.added
        BY <1>2, <1>6, <4>4
      <4> HIDE DEF t
      <4>6. txn.row = Capped((local + t) + txn.added)
        BY <1>2, <1>6, <4>2, <4>3 DEF Capped
      <4>7. (local + t) + txn.added = local + (t + txn.added)
        BY <1>2, <1>6
      <4> QED BY <4>5, <4>6, <4>7
    <3> QED BY <3>1, <3>2
  <2> QED BY <1>1, <2>1, <2>2 DEF SumInv
<1> QED BY <1>3, <1>4, <1>7 DEF RowSumIInv

LEMMA MergeFailsSum ==
  ASSUME TrafficTypeOK, RowSumIInv, MergeFails
  PROVE  RowSumIInv'
<1>1. UNCHANGED <<row, local, credit, cnt>> /\ busy' = None /\ busy # None
  BY DEF MergeFails, SyncEnds, masterVars, nodeVars
<1>2. CounterInv'
  BY <1>1 DEF MergeFails, SyncEnds, RowSumIInv, CounterInv, TrafficTypeOK, NoSnapshot
<1>3. SumInv' /\ OpenInv'
  BY <1>1 DEF RowSumIInv, SumInv, OpenInv
<1> QED BY <1>2, <1>3 DEF RowSumIInv

(* The master's own usage is one more summand.                                  *)
LEMMA AddClientTrafficSum ==
  ASSUME TrafficTypeOK, RowSumIInv, NEW k \in 1 .. TrafficMax, AddClientTraffic(k)
  PROVE  RowSumIInv'
<1>1. /\ row # None /\ row' = ClampedAdd(row, k) /\ local' = local + k
      /\ busy = None /\ UNCHANGED <<busy, credit, cnt, snap>>
  BY DEF AddClientTraffic, syncVars, nodeVars
<1>2. CounterInv' /\ OpenInv'
  BY <1>1 DEF RowSumIInv, CounterInv, OpenInv
<1>3. SumInv'
  <2> DEFINE t == Total(credit, Nodes)
  <2>1. t \in Nat /\ local \in Nat /\ row \in Nat /\ k \in Nat
    BY <1>1, TotalType DEF TrafficTypeOK
  <2>2. row = Capped(local + t)
    BY <1>1 DEF RowSumIInv, SumInv
  <2> HIDE DEF t
  <2>3. row' = Capped(local + t + k) /\ row' \in Nat
    BY <1>1, <2>1, <2>2 DEF ClampedAdd, Capped
  <2>4. local + t + k = local' + t
    BY <1>1, <2>1
  <2>5. row' = Capped(local' + t)
    BY <2>3, <2>4
  <2> QED BY <1>1, <2>3, <2>5 DEF SumInv, t
<1> QED BY <1>2, <1>3 DEF RowSumIInv

(* Every reset and deletion starts all the summands anew with the row.          *)
LEMMA FromZeroSum ==
  ASSUME RowSumIInv, FromZero, busy = None, row' \in {0, None},
         UNCHANGED <<busy, cnt, snap>>
  PROVE  RowSumIInv'
<1>1. local' = 0 /\ credit' = AllZero
  BY DEF FromZero
<1>2. credit' \in [Nodes -> Nat] /\ \A n \in Nodes : credit'[n] = 0
  BY <1>1 DEF AllZero
<1>3. Total(credit', Nodes) = 0
  BY <1>2, TotalZero, NodesAssumption
<1>4. SumInv'
  BY <1>1, <1>3 DEF SumInv, Capped
<1>5. CounterInv' /\ OpenInv'
  BY DEF RowSumIInv, CounterInv, OpenInv
<1> QED BY <1>4, <1>5 DEF RowSumIInv

LEMMA ResetsSum ==
  ASSUME RowSumIInv,
         BulkResetTraffic \/ DelClientStat \/ \E c \in Inbs : ResetClientTraffic(c)
  PROVE  RowSumIInv'
<1>1. FromZero /\ busy = None /\ row' \in {0, None} /\ UNCHANGED <<busy, cnt, snap>>
  BY DEF BulkResetTraffic, DelClientStat, ResetClientTraffic, syncVars, nodeVars
<1> QED BY <1>1, FromZeroSum

(* A row created anew finds no summand left.                                    *)
LEMMA AddClientStatSum ==
  ASSUME TrafficIInv, RowSumIInv, AddClientStat
  PROVE  RowSumIInv'
<1>1. /\ busy = None /\ row' = (IF row = None THEN 0 ELSE row)
      /\ UNCHANGED <<busy, local, credit, cnt, snap>>
  BY DEF AddClientStat, syncVars, nodeVars, ghostVars
<1>2. CounterInv' /\ OpenInv'
  BY <1>1 DEF RowSumIInv, CounterInv, OpenInv
<1>3. CASE row = None
  <2>1. local = 0 /\ \A n \in Nodes : credit[n] = 0
    BY <1>3 DEF RowSumIInv, SumInv, TrafficIInv, RowInv
  <2>2. Total(credit, Nodes) = 0
    BY <2>1, TotalZero, NodesAssumption DEF TrafficIInv, TrafficTypeOK
  <2>3. SumInv'
    BY <1>1, <1>3, <2>1, <2>2 DEF SumInv, Capped
  <2> QED BY <1>2, <2>3 DEF RowSumIInv
<1>4. CASE row # None
  BY <1>1, <1>2, <1>4 DEF RowSumIInv, SumInv
<1> QED BY <1>3, <1>4

LEMMA RowSumStep ==
  ASSUME TrafficIInv, RowSumIInv, [TrafficNext]_trafficVars
  PROVE  RowSumIInv'
<1> USE DEF TrafficIInv
<1>1. ASSUME NEW n \in Nodes, NodeSteps(n) \/ SyncSteps(n) PROVE RowSumIInv'
  <2>1. CASE Use(n) \/ Reconciled(n) \/ FetchFails(n)
    BY <2>1, NodeStepsSum
  <2>2. ASSUME NEW v \in 0 .. cnt[n], NodeSetsBack(n, v) PROVE RowSumIInv'
    BY <2>2, NodeSetsBackSum
  <2>3. ASSUME NEW c \in On(n), NodeAttaches(c) \/ NodeDetaches(c) PROVE RowSumIInv'
    BY <2>3, NodeInboundsSum DEF On
  <2>4. CASE Fetch(n)
    BY <2>4, FetchSum
  <2>5. CASE MergeBegin(n)
    BY <2>5, MergeBeginSum
  <2> QED BY <1>1, <2>1, <2>2, <2>3, <2>4, <2>5 DEF NodeSteps, SyncSteps
<1>2. CASE MergeSteps
  BY <1>2, MergeInboundSum, MergeCommitSum, MergeFailsSum DEF MergeSteps
<1>3. CASE RowSteps
  <2>1. ASSUME NEW k \in 1 .. TrafficMax, AddClientTraffic(k) PROVE RowSumIInv'
    BY <2>1, AddClientTrafficSum
  <2>2. CASE BulkResetTraffic \/ DelClientStat \/ \E c \in Inbs : ResetClientTraffic(c)
    BY <2>2, ResetsSum
  <2>3. CASE AddClientStat
    BY <2>3, AddClientStatSum
  <2>4. CASE BurialExpires
    BY <2>4, BurialExpiresSum
  <2>5. ASSUME NEW n \in Nodes, RemoteReset(n) \/ RemoteResetLost(n) \/ MarkNodeDirty(n)
        PROVE  RowSumIInv'
    BY <2>5, NodeStepsSum
  <2> QED BY <1>3, <2>1, <2>2, <2>3, <2>4, <2>5 DEF RowSteps
<1>4. CASE UNCHANGED trafficVars
  <2>1. UNCHANGED <<row, local, credit, busy, txn, cnt, snap>>
    BY <1>4 DEF trafficVars, masterVars, syncVars, nodeVars, ghostVars
  <2> QED BY <2>1, RowUntouched DEF RowSumIInv, CounterInv
<1> QED BY <1>1, <1>2, <1>3, <1>4 DEF TrafficNext

(* The sums of the row, committed and in the open transaction, hold throughout. *)
THEOREM RowSumInvariant == TrafficSpec => []RowSumIInv
<1>1. TrafficInit => RowSumIInv
  <2> SUFFICES ASSUME TrafficInit PROVE RowSumIInv
    OBVIOUS
  <2>1. credit \in [Nodes -> Nat] /\ \A n \in Nodes : credit[n] = 0
    BY DEF TrafficInit, AllZero
  <2>2. Total(credit, Nodes) = 0
    BY <2>1, TotalZero, NodesAssumption
  <2>3. CounterInv /\ OpenInv
    BY DEF TrafficInit, CounterInv, OpenInv, AllZero, NoSnapshot
  <2>4. SumInv
    BY <2>2 DEF TrafficInit, SumInv, Capped
  <2> QED BY <2>3, <2>4 DEF RowSumIInv
<1>2. TrafficIInv /\ RowSumIInv /\ [TrafficNext]_trafficVars => RowSumIInv'
  BY RowSumStep
<1> QED BY <1>1, <1>2, TrafficInvariant, PTL DEF TrafficSpec

(* The row every node's merge and the master's own poll share is the clamped    *)
(* sum of what each of them added, for every number of nodes: no merge          *)
(* overwrites what another writer put there.                                    *)
THEOREM TrafficRowIsTheSum == TrafficSpec => []RowIsTheSum
<1>1. TrafficIInv /\ RowSumIInv => RowIsTheSum
  <2> SUFFICES ASSUME TrafficIInv, RowSumIInv PROVE RowIsTheSum
    OBVIOUS
  <2> DEFINE t == Total(credit, Nodes)
  <2>1. t \in Nat /\ local \in Nat
    BY TotalType DEF TrafficIInv, TrafficTypeOK
  <2>2. MapThenSumSet(LAMBDA n : credit[n], Nodes) = t
    BY Zenon, SumIs
  <2> HIDE DEF t
  <2>3. ASSUME NEW x \in Nat PROVE Min({TrafficMax, x}) = Capped(x)
    <3>1. Capped(x) \in {TrafficMax, x} /\ \A y \in {TrafficMax, x} : Capped(x) <= y
      BY DEF Capped
    <3>2. ASSUME NEW z \in {TrafficMax, x}, \A y \in {TrafficMax, x} : z <= y PROVE z = Capped(x)
      BY <3>2 DEF Capped
    <3> QED BY <3>1, <3>2 DEF Min
  <2>4. Min({TrafficMax, local + t}) = Capped(local + t)
    BY <2>1, <2>3
  <2>5. row # None => row = Min({TrafficMax, local + t})
    BY <2>4 DEF RowSumIInv, SumInv, t
  <2> QED BY <2>2, <2>5, Zenon DEF RowIsTheSum
<1> QED BY <1>1, TrafficInvariant, RowSumInvariant, PTL

=============================================================================
