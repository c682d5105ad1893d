--------------------------- MODULE TrafficProofs ---------------------------
(* TLAPS proofs about Traffic: the totals, the buckets and the readings    *)
(* stay natural numbers, and no row is charged for more than its keys have *)
(* carried, whatever comes between two statements of a pass.               *)
EXTENDS Traffic, FiniteSetTheorems, WellFoundedInduction, TLAPS

Pass == [at : {"off", "rest", "stats", "record"}, stats : [Keys -> Nat \union {Absent}],
         ids : [Keys -> Ids \union {None}], now : Hours]

LEMMA Idle == Off \in Pass /\ Rest \in Pass
<1>1. 1 \in Hours
  BY TrafficAssumption DEF Hours
<1> QED
  BY <1>1 DEF Off, Rest, Pass, Absent

LEMMA TypeInit == Init => TypeOK
<1> SUFFICES ASSUME Init PROVE TypeOK
  OBVIOUS
<1>1. 1 \in Hours /\ 0 \in 0 .. MaxBytes /\ 0 \in 0 .. MaxEvents
  BY TrafficAssumption DEF Hours
<1>2. pass \in [Samplers -> Pass]
  BY Idle DEF Init
<1> QED
  BY <1>1, <1>2 DEF Init, TypeOK, Pass, Absent

(* Delta is never negative: a counter below the last reading has started   *)
(* again, and what it shows is what was carried since.                     *)
LEMMA RecordTypes ==
  ASSUME TypeOK, NEW i \in Ids, NEW raw \in Nat, NEW h \in Hours, Record(i, raw, h)
  PROVE  /\ traffic' \in [Ids -> [total : Nat, last : Nat] \union {None}]
         /\ samples' \in [Ids -> [Hours -> Nat]]
<1>1. Last(i) \in Nat /\ Total(i) \in Nat
  BY DEF TypeOK, Last, Total
<1>2. Delta(i, raw) \in Nat
  BY <1>1 DEF Delta
<1>3. samples' \in [Ids -> [Hours -> Nat]]
  BY <1>2 DEF TypeOK, Record
<1>4. traffic' \in [Ids -> [total : Nat, last : Nat] \union {None}]
  BY <1>1, <1>2 DEF TypeOK, Record
<1> QED
  BY <1>3, <1>4

LEMMA SampleTypes ==
  ASSUME TypeOK, NEW s \in Samplers, Sample(s), UNCHANGED scope
  PROVE  TypeOK'
<1> USE DEF Pass
<1>1. pass[s] \in Pass /\ pass \in [Samplers -> Pass] /\ hour \in Hours
  BY DEF TypeOK
<1>2. CASE ListStats(s)
  <2>1. Readings \in [Keys -> Nat \union {Absent}]
    BY DEF TypeOK, Readings
  <2>2. [Rest EXCEPT !.at = "stats", !.stats = Readings] \in Pass
    BY <2>1, Idle
  <2>3. pass' \in [Samplers -> Pass]
    BY <1>1, <1>2, <2>2 DEF ListStats
  <2> QED
    BY <1>2, <2>3 DEF ListStats, TypeOK, table, wire, driver
<1>3. CASE ListRows(s)
  <2> DEFINE found == [k \in Keys |-> IF Has(k) THEN CHOOSE i \in Ids : rows[i] = k ELSE None]
  <2>1. ASSUME NEW k \in Keys, Has(k) PROVE (CHOOSE i \in Ids : rows[i] = k) \in Ids
    BY <2>1 DEF Has
  <2>2. found \in [Keys -> Ids \union {None}]
    BY <2>1
  <2>3. pass' = [pass EXCEPT ![s] = [@ EXCEPT !.at = "record", !.now = hour, !.ids = found]]
    BY <1>1, <1>3 DEF ListRows
  <2> HIDE DEF found
  <2>4. pass' \in [Samplers -> Pass]
    BY <1>1, <2>2, <2>3
  <2> QED
    BY <1>3, <2>4 DEF ListRows, TypeOK, table, wire, driver
<1>4. CASE RecordOne(s)
  <2>1. PICK k \in Due(s) :
          LET i == pass[s].ids[k]
              known == i # None /\ rows[i] # None
          IN /\ IF known THEN Record(i, pass[s].stats[k], pass[s].now) ELSE UNCHANGED <<traffic, samples>>
             /\ pass' = [pass EXCEPT ![s] = IF Due(s) = {k} THEN Rest ELSE [@ EXCEPT !.stats[k] = Absent]]
    BY <1>4 DEF RecordOne
  <2> DEFINE i == pass[s].ids[k]
  <2>2. k \in Keys /\ pass[s].stats[k] \in Nat /\ pass[s].now \in Hours /\ i \in Ids \union {None}
    BY <1>1 DEF Due
  <2>3. /\ traffic' \in [Ids -> [total : Nat, last : Nat] \union {None}]
        /\ samples' \in [Ids -> [Hours -> Nat]]
    <3>1. CASE i # None /\ rows[i] # None
      BY <2>1, <2>2, <3>1, RecordTypes
    <3>2. CASE ~(i # None /\ rows[i] # None)
      BY <2>1, <3>2 DEF TypeOK
    <3> QED
      BY <3>1, <3>2
  <2>4. [pass[s] EXCEPT !.stats[k] = Absent] \in Pass
    BY <1>1, <2>2 DEF Absent
  <2>5. pass' \in [Samplers -> Pass]
    BY <1>1, <2>1, <2>4, Idle
  <2> QED
    BY <1>4, <2>3, <2>5 DEF RecordOne, TypeOK, wire, driver
<1>5. CASE LoopEnds(s)
  <2>1. pass' \in [Samplers -> Pass]
    BY <1>1, <1>5, Idle DEF LoopEnds
  <2> QED
    BY <1>5, <2>1 DEF LoopEnds, TypeOK, table, wire, driver
<1> QED
  BY <1>2, <1>3, <1>4, <1>5 DEF Sample

LEMMA TypeStep == TypeOK /\ [Next /\ UNCHANGED scope]_vars => TypeOK'
<1> SUFFICES ASSUME TypeOK, [Next /\ UNCHANGED scope]_vars PROVE TypeOK'
  OBVIOUS
<1> USE TrafficAssumption DEF TypeOK, table, wire, driver
<1>e. ASSUME Event PROVE events' \in 0 .. MaxEvents
  BY <1>e DEF Event
<1>1. ASSUME NEW k \in Keys, Carry(k), UNCHANGED scope PROVE TypeOK'
  BY <1>1 DEF Carry, Absent
<1>2. ASSUME NEW k \in Keys, Install(k), UNCHANGED scope PROVE TypeOK'
  BY <1>2 DEF Install
<1>3. ASSUME NEW k \in Keys, Remove(k), UNCHANGED scope PROVE TypeOK'
  BY <1>3, <1>e DEF Remove
<1>4. ASSUME NextHour, UNCHANGED scope PROVE TypeOK'
  BY <1>4 DEF NextHour, Hours
<1>5. ASSUME NEW i \in Ids, NEW k \in Keys, Create(i, k), UNCHANGED scope PROVE TypeOK'
  BY <1>5 DEF Create
<1>6. ASSUME NEW i \in Ids, NEW k \in Keys, Rekey(i, k), UNCHANGED scope PROVE TypeOK'
  BY <1>6, <1>e DEF Rekey
<1>7. ASSUME NEW i \in Ids, Delete(i), UNCHANGED scope PROVE TypeOK'
  BY <1>7, <1>e DEF Delete
<1>8. ASSUME NEW s \in Samplers, Sample(s), UNCHANGED scope PROVE TypeOK'
  BY <1>8, SampleTypes
<1>9. ASSUME Start, UNCHANGED scope PROVE TypeOK'
  <2>1. PICK s \in Samplers : slot' = s /\ pass' = [pass EXCEPT ![s] = Rest]
    BY <1>9 DEF Start
  <2>2. pass' \in [Samplers -> Pass]
    BY <2>1, Idle DEF Pass
  <2> QED
    BY <1>9, <2>1, <2>2 DEF Start, Pass
<1>10. ASSUME StopBegin, UNCHANGED scope PROVE TypeOK'
  BY <1>10, <1>e DEF StopBegin
<1>11. ASSUME Down, UNCHANGED scope PROVE TypeOK'
  BY <1>11 DEF Down
<1>12. ASSUME Crash, UNCHANGED scope PROVE TypeOK'
  <2>1. pass' \in [Samplers -> Pass]
    BY <1>12, Idle DEF Crash
  <2> QED
    BY <1>12, <1>e, <2>1 DEF Crash, Pass
<1>13. CASE UNCHANGED vars
  BY <1>13 DEF vars
<1> QED
  BY <1>1, <1>2, <1>3, <1>4, <1>5, <1>6, <1>7, <1>8, <1>9, <1>10, <1>11, <1>12, <1>13 DEF Next, Rows

(* Every variable of Traffic keeps its type; in particular no total, no    *)
(* bucket and no reading ever falls below zero, although a recorded        *)
(* counter may be the one of an earlier device.                            *)
THEOREM TrafficTypes == Spec => []TypeOK
<1> QED
  BY TypeInit, TypeStep, PTL DEF Spec

----------------------------------------------------------------------------
(* A sum over a finite set.  The fold recurs over the sets that are left,  *)
(* each without the member chosen from it; a smallest set for which that   *)
(* were not defined, or two ways of it differed, cannot be.                *)
Chosen(S) == CHOOSE x \in S : TRUE
Unfolds(f, S, it) ==
  it = [s \in SUBSET S |-> IF s = {} THEN 0 ELSE f[Chosen(s)] + it[s \ {Chosen(s)}]]
Folded(f, S) == CHOOSE it : Unfolds(f, S, it)

LEMMA SumIsFolded ==
  ASSUME NEW f, NEW S
  PROVE  Sum(f, S) = Folded(f, S)[S]
BY DEF Sum, FoldFunctionOnSet, MapThenFoldSet, Folded, Unfolds, Chosen

(* A family of subsets of a finite set has a smallest member.              *)
LEMMA Smallest ==
  ASSUME NEW S, IsFiniteSet(S), NEW Fam \in SUBSET SUBSET S, Fam # {}
  PROVE  \E T \in Fam : \A U \in SUBSET T : U # T => U \notin Fam
<1>1. Fam \subseteq FiniteSubsetsOf(S)
  BY FS_Subset DEF FiniteSubsetsOf
<1>2. PICK T \in Fam : \A U \in Fam : <<U, T>> \notin StrictSubsetOrdering(S)
  BY <1>1, FS_StrictSubsetOrderingWellFounded, WFMin
<1>3. ASSUME NEW U \in SUBSET T, U # T, U \in Fam PROVE FALSE
  BY <1>2, <1>3 DEF StrictSubsetOrdering
<1> QED
  BY <1>2, <1>3

(* There is at most one way to fold ...                                    *)
LEMMA UnfoldsOnce ==
  ASSUME NEW f, NEW S, IsFiniteSet(S), NEW g, NEW h, Unfolds(f, S, g), Unfolds(f, S, h)
  PROVE  g = h
<1> DEFINE Fam == {T \in SUBSET S : g[T] # h[T]}
<1>1. SUFFICES ASSUME Fam # {} PROVE FALSE
  BY DEF Unfolds
<1>2. Fam \in SUBSET SUBSET S
  OBVIOUS
<1> HIDE DEF Fam
<1>3. PICK T \in Fam : \A U \in SUBSET T : U # T => U \notin Fam
  BY <1>2, <1>1, Smallest
<1> USE DEF Fam
<1>4. CASE T = {}
  BY <1>4 DEF Unfolds
<1>5. CASE T # {}
  <2>1. Chosen(T) \in T
    BY <1>5 DEF Chosen
  <2>2. g[T \ {Chosen(T)}] = h[T \ {Chosen(T)}]
    BY <1>3, <2>1
  <2>3. T \in SUBSET S /\ g[T] # h[T]
    BY <1>3
  <2>4. g[T] = f[Chosen(T)] + g[T \ {Chosen(T)}]
    BY <1>5, <2>3 DEF Unfolds
  <2>5. h[T] = f[Chosen(T)] + h[T \ {Chosen(T)}]
    BY <1>5, <2>3 DEF Unfolds
  <2> QED
    BY <2>2, <2>3, <2>4, <2>5
<1> QED
  BY <1>4, <1>5

Within(g, T) == [U \in SUBSET T |-> g[U]]
LEMMA UnfoldsBelow ==
  ASSUME NEW f, NEW S, NEW T \in SUBSET S, NEW g, Unfolds(f, S, g)
  PROVE  Unfolds(f, T, Within(g, T))
<1>1. \A U \in SUBSET T : U # {} => Chosen(U) \in U
  BY DEF Chosen
<1>2. \A U \in SUBSET T : U \ {Chosen(U)} \in SUBSET T
  OBVIOUS
<1> QED
  BY <1>1, <1>2 DEF Unfolds, Within

(* ... and there is one.                                                   *)
LEMMA UnfoldsFolded ==
  ASSUME NEW f, NEW S, IsFiniteSet(S)
  PROVE  Unfolds(f, S, Folded(f, S))
<1> DEFINE Fam == {T \in SUBSET S : ~Unfolds(f, T, Folded(f, T))}
<1>1. SUFFICES ASSUME Fam # {} PROVE FALSE
  OBVIOUS
<1>2. Fam \in SUBSET SUBSET S
  OBVIOUS
<1> HIDE DEF Fam
<1>3. PICK T \in Fam : \A U \in SUBSET T : U # T => U \notin Fam
  BY <1>2, <1>1, Smallest
<1> USE DEF Fam
<1> DEFINE below(U) == U \ {Chosen(U)}
           top == IF T = {} THEN 0 ELSE f[Chosen(T)] + Folded(f, below(T))[below(T)]
           it == [U \in SUBSET T |-> IF U = T THEN top ELSE Folded(f, U)[U]]
<1>4. ASSUME NEW U \in SUBSET T, U # T, U # {}
      PROVE  Folded(f, U)[U] = f[Chosen(U)] + Folded(f, below(U))[below(U)]
  <2>1. Chosen(U) \in U
    BY <1>4 DEF Chosen
  <2>2. below(U) \in SUBSET T /\ below(U) # T /\ below(U) \in SUBSET U
    BY <1>4, <2>1
  <2>3. Unfolds(f, U, Folded(f, U)) /\ Unfolds(f, below(U), Folded(f, below(U)))
    BY <1>3, <1>4, <2>2
  <2>4. IsFiniteSet(below(U))
    BY <2>2, FS_Subset
  <2>5. Unfolds(f, below(U), Within(Folded(f, U), below(U)))
    BY <2>2, <2>3, UnfoldsBelow
  <2>6. Folded(f, below(U)) = Within(Folded(f, U), below(U))
    BY <2>3, <2>4, <2>5, UnfoldsOnce
  <2>7. Folded(f, U)[below(U)] = Folded(f, below(U))[below(U)]
    BY <2>6 DEF Within
  <2> QED
    BY <1>4, <2>3, <2>7 DEF Unfolds
<1>5. ASSUME NEW U \in SUBSET T, U # T, U = {} PROVE Folded(f, U)[U] = 0
  BY <1>3, <1>5 DEF Unfolds
<1>6. ASSUME NEW U \in SUBSET T, U # {} PROVE below(U) # T /\ below(U) \in SUBSET T
  BY <1>6 DEF Chosen
<1>7. ASSUME NEW U \in SUBSET T
      PROVE  it[U] = IF U = {} THEN 0 ELSE f[Chosen(U)] + it[below(U)]
  <2>1. CASE U = {} /\ U = T
    BY <2>1
  <2>2. CASE U = {} /\ U # T
    BY <1>5, <2>2
  <2>3. CASE U # {} /\ U = T
    BY <1>6, <2>3
  <2>4. CASE U # {} /\ U # T
    BY <1>4, <1>6, <2>4
  <2> QED
    BY <2>1, <2>2, <2>3, <2>4
<1>8. Unfolds(f, T, it)
  BY <1>7 DEF Unfolds
<1>9. Unfolds(f, T, Folded(f, T))
  BY <1>8 DEF Folded
<1> QED
  BY <1>3, <1>9

(* How a sum takes its first term, ...                                     *)
LEMMA SumFirst ==
  ASSUME NEW f, NEW S, IsFiniteSet(S), S # {}
  PROVE  /\ Chosen(S) \in S /\ IsFiniteSet(S \ {Chosen(S)})
         /\ Sum(f, S) = f[Chosen(S)] + Sum(f, S \ {Chosen(S)})
<1> DEFINE T == S \ {Chosen(S)}
<1>1. Chosen(S) \in S
  BY DEF Chosen
<1>2. IsFiniteSet(T) /\ T \in SUBSET S
  BY FS_Subset
<1>3. Unfolds(f, S, Folded(f, S)) /\ Unfolds(f, T, Folded(f, T))
  BY <1>2, UnfoldsFolded
<1>4. Unfolds(f, T, Within(Folded(f, S), T))
  BY <1>2, <1>3, UnfoldsBelow
<1>5. Folded(f, T) = Within(Folded(f, S), T)
  BY <1>2, <1>3, <1>4, UnfoldsOnce
<1>6. Folded(f, S)[T] = Folded(f, T)[T]
  BY <1>5 DEF Within
<1>7. Folded(f, S)[S] = f[Chosen(S)] + Folded(f, S)[T]
  BY <1>3 DEF Unfolds
<1> QED
  BY <1>1, <1>2, <1>6, <1>7, SumIsFolded

LEMMA SumEmpty == ASSUME NEW f PROVE Sum(f, {}) = 0
<1>1. Unfolds(f, {}, Folded(f, {}))
  BY FS_EmptySet, UnfoldsFolded
<1>2. Folded(f, {})[{}] = 0
  BY <1>1 DEF Unfolds
<1> QED
  BY <1>2, SumIsFolded

LEMMA SumNat ==
  ASSUME NEW S, IsFiniteSet(S), NEW f, \A x \in S : f[x] \in Nat
  PROVE  Sum(f, S) \in Nat
<1> DEFINE Fam == {T \in SUBSET S : Sum(f, T) \notin Nat}
<1>1. SUFFICES ASSUME Fam # {} PROVE FALSE
  OBVIOUS
<1>2. Fam \in SUBSET SUBSET S
  OBVIOUS
<1> HIDE DEF Fam
<1>3. PICK T \in Fam : \A U \in SUBSET T : U # T => U \notin Fam
  BY <1>1, <1>2, Smallest
<1> USE DEF Fam
<1>4. T # {}
  BY SumEmpty
<1>5. IsFiniteSet(T)
  BY FS_Subset
<1>6. Chosen(T) \in T /\ Sum(f, T) = f[Chosen(T)] + Sum(f, T \ {Chosen(T)})
  BY <1>4, <1>5, SumFirst
<1>7. Sum(f, T \ {Chosen(T)}) \in Nat
  BY <1>3, <1>6
<1> QED
  BY <1>6, <1>7

(* ... that any term may be the first, ...                                 *)
LEMMA SumWithout ==
  ASSUME NEW S, IsFiniteSet(S), NEW f, \A x \in S : f[x] \in Nat, NEW y \in S
  PROVE  Sum(f, S) = f[y] + Sum(f, S \ {y})
<1> DEFINE Fam == {T \in SUBSET S : \E x \in T : Sum(f, T) # f[x] + Sum(f, T \ {x})}
<1>1. SUFFICES ASSUME Fam # {} PROVE FALSE
  OBVIOUS
<1>2. Fam \in SUBSET SUBSET S
  OBVIOUS
<1> HIDE DEF Fam
<1>3. PICK T \in Fam : \A U \in SUBSET T : U # T => U \notin Fam
  BY <1>1, <1>2, Smallest
<1>4. PICK x \in T : Sum(f, T) # f[x] + Sum(f, T \ {x})
  BY DEF Fam
<1>5. T \in SUBSET S /\ IsFiniteSet(T)
  BY FS_Subset DEF Fam
<1> DEFINE z == Chosen(T)
<1>6. z \in T /\ Sum(f, T) = f[z] + Sum(f, T \ {z})
  BY <1>5, SumFirst
<1> HIDE DEF z
<1>7. x # z
  BY <1>4, <1>6
<1>8. Sum(f, T \ {z}) = f[x] + Sum(f, (T \ {z}) \ {x})
  BY <1>3, <1>5, <1>6, <1>7 DEF Fam
<1>9. Sum(f, T \ {x}) = f[z] + Sum(f, (T \ {x}) \ {z})
  BY <1>3, <1>5, <1>6, <1>7 DEF Fam
<1>10. (T \ {x}) \ {z} = (T \ {z}) \ {x}
  OBVIOUS
<1>11. Sum(f, (T \ {z}) \ {x}) \in Nat
  <2>1. IsFiniteSet((T \ {z}) \ {x})
    BY <1>5, FS_Subset
  <2> QED
    BY <1>5, <2>1, SumNat
<1>12. f[x] \in Nat /\ f[z] \in Nat
  BY <1>5, <1>6
<1> QED
  BY <1>4, <1>6, <1>8, <1>9, <1>10, <1>11, <1>12

(* ... and that it knows its terms only.                                   *)
LEMMA SumSame ==
  ASSUME NEW S, IsFiniteSet(S), NEW f, NEW g, \A x \in S : f[x] = g[x]
  PROVE  Sum(f, S) = Sum(g, S)
<1> DEFINE Fam == {T \in SUBSET S : Sum(f, T) # Sum(g, T)}
<1>1. SUFFICES ASSUME Fam # {} PROVE FALSE
  OBVIOUS
<1>2. Fam \in SUBSET SUBSET S
  OBVIOUS
<1> HIDE DEF Fam
<1>3. PICK T \in Fam : \A U \in SUBSET T : U # T => U \notin Fam
  BY <1>1, <1>2, Smallest
<1> USE DEF Fam
<1>4. T # {}
  BY SumEmpty
<1>5. IsFiniteSet(T)
  BY FS_Subset
<1>6. /\ Chosen(T) \in T
      /\ Sum(f, T) = f[Chosen(T)] + Sum(f, T \ {Chosen(T)})
      /\ Sum(g, T) = g[Chosen(T)] + Sum(g, T \ {Chosen(T)})
  BY <1>4, <1>5, SumFirst
<1>7. Sum(f, T \ {Chosen(T)}) = Sum(g, T \ {Chosen(T)})
  BY <1>3, <1>6
<1> QED
  BY <1>6, <1>7

(* One term changes, or joins.                                             *)
LEMMA SumChanges ==
  ASSUME NEW S, IsFiniteSet(S), NEW f, NEW g, NEW y \in S,
         \A x \in S : f[x] \in Nat /\ g[x] \in Nat, \A x \in S : x # y => f[x] = g[x]
  PROVE  Sum(g, S) = Sum(f, S) + (g[y] - f[y])
<1>1. IsFiniteSet(S \ {y})
  BY FS_Subset
<1>2. Sum(f, S) = f[y] + Sum(f, S \ {y}) /\ Sum(g, S) = g[y] + Sum(g, S \ {y})
  BY SumWithout
<1>3. Sum(f, S \ {y}) = Sum(g, S \ {y})
  BY <1>1, SumSame
<1>4. Sum(f, S \ {y}) \in Nat
  BY <1>1, SumNat
<1> QED
  BY <1>2, <1>3, <1>4

LEMMA SumJoins ==
  ASSUME NEW S, IsFiniteSet(S), NEW T, NEW f, \A x \in T : f[x] \in Nat,
         NEW y, y \notin S, T = S \union {y}
  PROVE  Sum(f, T) = Sum(f, S) + f[y]
<1>1. IsFiniteSet(T) /\ T \ {y} = S /\ y \in T
  BY FS_AddElement
<1>2. Sum(f, T) = f[y] + Sum(f, S)
  BY <1>1, SumWithout
<1>3. Sum(f, S) \in Nat
  BY SumNat
<1> QED
  BY <1>2, <1>3

LEMMA SumOfZeros ==
  ASSUME NEW S, IsFiniteSet(S), NEW f, \A x \in S : f[x] = 0
  PROVE  Sum(f, S) = 0
<1> DEFINE Fam == {T \in SUBSET S : Sum(f, T) # 0}
<1>1. SUFFICES ASSUME Fam # {} PROVE FALSE
  OBVIOUS
<1>2. Fam \in SUBSET SUBSET S
  OBVIOUS
<1> HIDE DEF Fam
<1>3. PICK T \in Fam : \A U \in SUBSET T : U # T => U \notin Fam
  BY <1>1, <1>2, Smallest
<1> USE DEF Fam
<1>4. T # {}
  BY SumEmpty
<1>5. IsFiniteSet(T)
  BY FS_Subset
<1>6. Chosen(T) \in T /\ Sum(f, T) = f[Chosen(T)] + Sum(f, T \ {Chosen(T)})
  BY <1>4, <1>5, SumFirst
<1>7. Sum(f, T \ {Chosen(T)}) = 0
  BY <1>3, <1>6
<1> QED
  BY <1>6, <1>7

----------------------------------------------------------------------------
(* No key is used again once it was a row's, and a start waits for the     *)
(* stop.                                                                   *)
Separate == "reuse" \notin scope /\ "overlap" \notin scope

(* What a key will have to be charged for beyond a reading, and a row.     *)
Since(k, raw) ==
  IF counter[k] = Absent THEN 0 ELSE IF counter[k] < raw THEN counter[k] ELSE counter[k] - raw
Ahead(i, raw) == IF rows[i] = None THEN 0 ELSE Since(rows[i], raw)
Ceiling(i)    == Sum(carried, owned[i])

(* One sampler at a time is at work.                                       *)
Alone ==
  /\ slot = None \/ stopping = None
  /\ \A s \in Samplers : pass[s].at # "off" => s = slot \/ s = stopping

(* No counter, and no reading with what came after it, is more than the    *)
(* key has carried.                                                        *)
Metered ==
  /\ \A k \in Keys : counter[k] <= carried[k]
  /\ \A s \in Samplers : pass[s].at \in {"stats", "record"} =>
       \A k \in Due(s) : pass[s].stats[k] + Since(k, pass[s].stats[k]) <= carried[k]

(* A row has had the key it has; a pass has one reading for a row.         *)
Traced ==
  /\ \A i \in Ids : rows[i] # None => rows[i] \in owned[i]
  /\ \A s \in Samplers : pass[s].at = "record" =>
       \A k \in Keys : pass[s].ids[k] # None =>
         /\ owned[pass[s].ids[k]] # {}
         /\ \A l \in Keys : pass[s].ids[k] = pass[s].ids[l] => k = l

(* A row has been charged for no more than its keys have carried, and      *)
(* will not be by the next reading, nor by one that a pass holds and the   *)
(* next one after it.                                                      *)
Bills(s, k, i) ==
  /\ rows[i] # None
  /\ \/ pass[s].at = "stats" /\ rows[i] = k
     \/ pass[s].at = "record" /\ pass[s].ids[k] = i
Bill(i, raw) == Total(i) + Delta(i, raw) + Ahead(i, raw)
Billed ==
  \A i \in Ids :
    /\ Total(i) + Ahead(i, Last(i)) <= Ceiling(i)
    /\ \A s \in Samplers : \A k \in Due(s) : Bills(s, k, i) => Bill(i, pass[s].stats[k]) <= Ceiling(i)
Bucketed == \A i \in Ids : Total(i) = Sum(samples[i], Hours)

Charges == Metered /\ Traced /\ Billed /\ Bucketed

LEMMA Finite == IsFiniteSet(Hours) /\ \A S \in SUBSET Keys : IsFiniteSet(S)
<1>1. IsFiniteSet(Hours)
  BY TrafficAssumption, FS_Interval DEF Hours
<1>2. \A S \in SUBSET Keys : IsFiniteSet(S)
  <2>1. IsFiniteSet(Keys)
    BY TrafficAssumption
  <2> QED
    BY <2>1, FS_Subset
<1> QED
  BY <1>1, <1>2

(* What all these are: natural numbers, in this state and in the next.     *)
Amounts ==
  /\ \A i \in Ids : /\ Total(i) \in Nat /\ Last(i) \in Nat /\ Ceiling(i) \in Nat
                    /\ \A raw \in Nat : Delta(i, raw) \in 0 .. raw /\ Ahead(i, raw) \in Nat
  /\ \A k \in Keys : /\ carried[k] \in Nat /\ counter[k] \in Nat \union {Absent}
                     /\ \A raw \in Nat : Since(k, raw) \in Nat
LEMMA Measured == (TypeOK => Amounts) /\ (TypeOK' => Amounts')
<1>1. TypeOK => Amounts
  <2> SUFFICES ASSUME TypeOK PROVE Amounts
    OBVIOUS
  <2>1. ASSUME NEW k \in Keys
        PROVE  /\ carried[k] \in Nat /\ counter[k] \in Nat \union {Absent}
               /\ \A raw \in Nat : Since(k, raw) \in Nat
    BY TrafficAssumption DEF TypeOK, Since, Absent
  <2>2. ASSUME NEW i \in Ids
        PROVE  /\ Total(i) \in Nat /\ Last(i) \in Nat /\ Ceiling(i) \in Nat
               /\ \A raw \in Nat : Delta(i, raw) \in 0 .. raw /\ Ahead(i, raw) \in Nat
    <3>1. Total(i) \in Nat /\ Last(i) \in Nat
      BY DEF TypeOK, Total, Last
    <3>2. \A raw \in Nat : Delta(i, raw) \in 0 .. raw
      BY <3>1 DEF Delta
    <3>3. \A raw \in Nat : Ahead(i, raw) \in Nat
      BY <2>1 DEF TypeOK, Ahead
    <3>4. IsFiniteSet(owned[i]) /\ \A k \in owned[i] : carried[k] \in Nat
      BY <2>1, Finite DEF TypeOK
    <3> QED
      BY <3>1, <3>2, <3>3, <3>4, SumNat DEF Ceiling
  <2> QED
    BY <2>1, <2>2 DEF Amounts
<1> QED
  BY <1>1, PTL

LEMMA Held ==
  ASSUME TypeOK, NEW s \in Samplers, NEW k \in Due(s)
  PROVE  k \in Keys /\ pass[s].stats[k] \in Nat
BY DEF TypeOK, Due, Absent

(* A pass goes on with some of its readings, or is over.                   *)
Narrows(s) ==
  \/ pass'[s].at \in {"off", "rest"}
  \/ /\ pass'[s].at = pass[s].at /\ pass'[s].ids = pass[s].ids
     /\ \A k \in Keys : pass'[s].stats[k] \in {pass[s].stats[k], Absent}

(* Nothing is carried and no row changes: counters only start again.       *)
LEMMA Calm ==
  ASSUME TypeOK, TypeOK', Charges, UNCHANGED <<rows, traffic, samples, owned, carried>>,
         \A k \in Keys : counter'[k] = counter[k] \/ counter'[k] = Absent
                        \/ (counter[k] = Absent /\ counter'[k] = 0),
         \A s \in Samplers : Narrows(s)
  PROVE  Charges'
<1>1. Amounts /\ Amounts'
  BY Measured
<1>2. ASSUME NEW k \in Keys
      PROVE  /\ counter'[k] <= carried'[k]
             /\ \A raw \in Nat : Since(k, raw)' <= Since(k, raw)
  BY <1>1 DEF Charges, Metered, Since, Absent, Amounts
<1>3. ASSUME NEW s \in Samplers, pass'[s].at \in {"stats", "record"}
      PROVE  /\ pass'[s].at = pass[s].at /\ pass'[s].ids = pass[s].ids
             /\ \A k \in Due(s)' : k \in Due(s) /\ pass'[s].stats[k] = pass[s].stats[k]
  BY <1>3 DEF Due, Narrows
<1>4. Metered'
  <2>1. ASSUME NEW s \in Samplers, pass'[s].at \in {"stats", "record"}, NEW k \in Due(s)'
        PROVE  (pass[s].stats[k] + Since(k, pass[s].stats[k]) <= carried[k])'
    <3> DEFINE raw == pass[s].stats[k]
    <3>1. raw' = raw /\ k \in Keys /\ raw \in Nat /\ raw + Since(k, raw) <= carried[k]
      BY <1>3, <2>1, Held DEF Charges, Metered
    <3>2. Since(k, raw)' <= Since(k, raw) /\ Since(k, raw) \in Nat /\ Since(k, raw)' \in Nat
      BY <1>1, <1>2, <3>1 DEF Amounts
    <3> QED
      BY <1>1, <3>1, <3>2 DEF Amounts
  <2> QED
    BY <1>2, <2>1 DEF Metered
<1>5. Traced'
  BY <1>3 DEF Charges, Traced
<1>6. Bucketed'
  BY DEF Charges, Bucketed, Total
<1>7. ASSUME NEW i \in Ids
      PROVE  /\ Total(i)' = Total(i) /\ Last(i)' = Last(i) /\ Ceiling(i)' = Ceiling(i)
             /\ \A raw \in Nat : Ahead(i, raw)' <= Ahead(i, raw) /\ Delta(i, raw)' = Delta(i, raw)
  BY <1>2, TrafficAssumption DEF TypeOK, Total, Last, Ceiling, Ahead, Delta
<1>8. Billed'
  <2>1. ASSUME NEW i \in Ids PROVE (Total(i) + Ahead(i, Last(i)) <= Ceiling(i))'
    BY <1>1, <1>7 DEF Charges, Billed, Amounts
  <2>2. ASSUME NEW i \in Ids, NEW s \in Samplers, NEW k \in Due(s)', Bills(s, k, i)'
        PROVE  (Bill(i, pass[s].stats[k]) <= Ceiling(i))'
    <3> DEFINE raw == pass[s].stats[k]
    <3>1. pass'[s].at \in {"stats", "record"}
      BY <2>2 DEF Bills
    <3>2. raw' = raw /\ raw \in Nat /\ k \in Due(s) /\ Bills(s, k, i)
      BY <1>3, <2>2, <3>1, Held DEF Bills
    <3>3. Bill(i, raw) <= Ceiling(i)
      BY <3>2 DEF Charges, Billed
    <3> HIDE DEF raw
    <3>4. Bill(i, raw)' <= Bill(i, raw) /\ Bill(i, raw)' \in Nat /\ Bill(i, raw) \in Nat
      BY <1>1, <1>7, <3>2 DEF Bill, Amounts
    <3> QED
      BY <1>1, <1>7, <3>2, <3>3, <3>4 DEF raw, Amounts
  <2> QED
    BY <2>1, <2>2 DEF Billed
<1> QED
  BY <1>4, <1>5, <1>6, <1>8 DEF Charges

(* A byte more, of a key that a row has or has had.                        *)
LEMMA CarryCharges ==
  ASSUME TypeOK, TypeOK', Charges, NEW k \in Keys, Carry(k)
  PROVE  Charges'
<1> USE DEF table
<1>1. Amounts /\ Amounts'
  BY Measured
<1>2. /\ UNCHANGED <<table, pass>> /\ counter[k] # Absent
      /\ counter' = [counter EXCEPT ![k] = @ + 1] /\ carried' = [carried EXCEPT ![k] = @ + 1]
  BY DEF Carry
<1>3. /\ counter'[k] = counter[k] + 1 /\ carried'[k] = carried[k] + 1 /\ counter[k] \in Nat
      /\ \A l \in Keys : l # k => counter'[l] = counter[l] /\ carried'[l] = carried[l]
  BY <1>1, <1>2 DEF TypeOK, Amounts
<1>4. ASSUME NEW raw \in Nat
      PROVE  /\ Since(k, raw)' <= Since(k, raw) + 1
             /\ \A l \in Keys : l # k => Since(l, raw)' = Since(l, raw)
  BY <1>3 DEF Since, Absent
<1>5. \A s \in Samplers : Due(s)' = Due(s)
  BY <1>2 DEF Due
<1>6. Metered'
  <2>1. ASSUME NEW s \in Samplers, pass[s].at \in {"stats", "record"}, NEW l \in Due(s)
        PROVE  (pass[s].stats[l] + Since(l, pass[s].stats[l]) <= carried[l])'
    <3>1. PICK raw \in Nat : raw = pass[s].stats[l] /\ l \in Keys /\ raw + Since(l, raw) <= carried[l]
      BY <2>1, Held DEF Charges, Metered
    <3>2. raw = pass'[s].stats[l]
      BY <1>2, <3>1
    <3>3. raw + Since(l, raw)' <= carried'[l]
      BY <1>1, <1>3, <1>4, <3>1 DEF Amounts
    <3> QED
      BY <3>2, <3>3
  <2>2. \A l \in Keys : counter'[l] <= carried'[l]
    BY <1>1, <1>3 DEF Charges, Metered, Amounts
  <2> QED
    BY <1>2, <1>5, <2>1, <2>2 DEF Metered
<1>7. Traced'
  BY <1>2 DEF Charges, Traced
<1>8. Bucketed'
  BY <1>2 DEF Charges, Bucketed, Total
<1>9. ASSUME NEW i \in Ids
      PROVE  /\ Ceiling(i)' = IF k \in owned[i] THEN Ceiling(i) + 1 ELSE Ceiling(i)
             /\ \A raw \in Nat : Ahead(i, raw)' <= Ahead(i, raw) + (IF k \in owned[i] THEN 1 ELSE 0)
  <2>1. owned[i] \in SUBSET Keys /\ IsFiniteSet(owned[i]) /\ owned'[i] = owned[i]
    BY <1>2, Finite DEF TypeOK
  <2>2. \A l \in owned[i] : carried[l] \in Nat /\ carried'[l] \in Nat
    BY <1>1, <2>1 DEF Amounts
  <2>3. CASE k \in owned[i]
    <3>1. \A l \in owned[i] : l # k => carried[l] = carried'[l]
      BY <1>3, <2>1
    <3>2. Sum(carried', owned[i]) = Sum(carried, owned[i]) + (carried'[k] - carried[k])
      BY <2>1, <2>2, <2>3, <3>1, SumChanges
    <3>3. Ceiling(i)' = Ceiling(i) + 1
      BY <1>1, <1>3, <2>1, <3>2 DEF Ceiling, Amounts
    <3>4. ASSUME NEW raw \in Nat PROVE Ahead(i, raw)' <= Ahead(i, raw) + 1
      <4>1. rows'[i] = rows[i] /\ rows[i] \in Keys \union {None}
        BY <1>2 DEF TypeOK
      <4>2. ASSUME NEW l \in Keys PROVE Since(l, raw)' <= Since(l, raw) + 1
        <5>1. Since(l, raw) \in Nat
          BY <1>1 DEF Amounts
        <5>2. Since(k, raw)' <= Since(k, raw) + 1 /\ (l # k => Since(l, raw)' = Since(l, raw))
          BY <1>4
        <5> QED
          BY <5>1, <5>2
      <4> QED
        BY <4>1, <4>2 DEF Ahead
    <3>5. (IF k \in owned[i] THEN 1 ELSE 0) = 1
      BY <2>3
    <3> QED
      BY <2>3, <3>3, <3>4, <3>5
  <2>4. CASE k \notin owned[i]
    <3>1. Sum(carried', owned[i]) = Sum(carried, owned[i])
      BY <1>3, <2>1, <2>4, SumSame
    <3>2. Ceiling(i)' = Ceiling(i)
      BY <2>1, <3>1 DEF Ceiling
    <3>3. rows[i] # k /\ rows[i] \in Keys \union {None} /\ rows' = rows
      BY <1>2, <2>4, TrafficAssumption DEF Charges, Traced, TypeOK
    <3>4. ASSUME NEW raw \in Nat PROVE Ahead(i, raw)' <= Ahead(i, raw) + 0
      <4>1. \A l \in Keys : l # k => Since(l, raw)' = Since(l, raw)
        BY <1>4
      <4>2. Ahead(i, raw)' = Ahead(i, raw)
        BY <3>3, <4>1 DEF Ahead
      <4>3. Ahead(i, raw) \in Nat
        BY <1>1 DEF Amounts
      <4> QED
        BY <4>2, <4>3
    <3> QED
      BY <2>4, <3>2, <3>4
  <2> QED
    BY <2>3, <2>4
<1>10. \A i \in Ids : /\ Total(i)' = Total(i) /\ Last(i)' = Last(i)
                     /\ \A raw : Delta(i, raw)' = Delta(i, raw)
  BY <1>2 DEF Total, Last, Delta
<1>11. Billed'
  <2>1. ASSUME NEW i \in Ids PROVE (Total(i) + Ahead(i, Last(i)) <= Ceiling(i))'
    <3>1. Total(i) + Ahead(i, Last(i)) <= Ceiling(i)
      BY DEF Charges, Billed
    <3>2. PICK raw \in Nat : raw = Last(i) /\ raw = Last(i)'
      BY <1>1, <1>10 DEF Amounts
    <3>3. Ahead(i, raw)' <= Ahead(i, raw) + (IF k \in owned[i] THEN 1 ELSE 0)
      BY <1>9
    <3>4. /\ Total(i) \in Nat /\ Ceiling(i) \in Nat
          /\ Ahead(i, raw) \in Nat /\ Ahead(i, raw)' \in Nat
      BY <1>1 DEF Amounts
    <3>5. Total(i) + Ahead(i, raw)' <= Ceiling(i)'
      BY <1>9, <3>1, <3>2, <3>3, <3>4
    <3> QED
      BY <1>10, <3>2, <3>5
  <2>2. ASSUME NEW i \in Ids, NEW s \in Samplers, NEW l \in Due(s), Bills(s, l, i)
        PROVE  (Bill(i, pass[s].stats[l]) <= Ceiling(i))'
    <3>1. PICK raw \in Nat : /\ raw = pass[s].stats[l] /\ raw = pass'[s].stats[l]
                             /\ Bill(i, raw) <= Ceiling(i)
      BY <1>2, <2>2, Held DEF Charges, Billed
    <3>2. Bill(i, raw)' <= Bill(i, raw) + (IF k \in owned[i] THEN 1 ELSE 0)
      <4>1. Total(i)' = Total(i) /\ Delta(i, raw)' = Delta(i, raw)
        BY <1>10
      <4>2. Ahead(i, raw)' <= Ahead(i, raw) + (IF k \in owned[i] THEN 1 ELSE 0)
        BY <1>9, <3>1
      <4>3. /\ Total(i) \in Nat /\ Delta(i, raw) \in Nat
            /\ Ahead(i, raw) \in Nat /\ Ahead(i, raw)' \in Nat
        BY <1>1, <3>1 DEF Amounts
      <4> QED
        BY <4>1, <4>2, <4>3 DEF Bill
    <3>3. Bill(i, raw)' \in Nat /\ Bill(i, raw) \in Nat
      <4>1. Total(i) \in Nat /\ Delta(i, raw) \in Nat /\ Ahead(i, raw) \in Nat
        BY <1>1 DEF Amounts
      <4>2. Total(i)' \in Nat /\ Delta(i, raw)' \in Nat /\ Ahead(i, raw)' \in Nat
        BY <1>1 DEF Amounts
      <4> QED
        BY <4>1, <4>2 DEF Bill
    <3>4. Ceiling(i) \in Nat
      BY <1>1 DEF Amounts
    <3>5. Bill(i, raw)' <= Ceiling(i)'
      BY <1>9, <3>1, <3>2, <3>3, <3>4
    <3> QED
      BY <3>1, <3>5
  <2>3. \A i \in Ids, s \in Samplers, l \in Keys : Bills(s, l, i)' <=> Bills(s, l, i)
    BY <1>2 DEF Bills
  <2> QED
    BY <1>5, <2>1, <2>2, <2>3, Held DEF Billed
<1> QED
  BY <1>6, <1>7, <1>8, <1>11 DEF Charges

(* A row gets a key that it has not had.                                   *)
LEMMA GrowCharges ==
  ASSUME TypeOK, TypeOK', Charges, NEW i \in Ids, NEW k \in Keys \ owned[i],
         rows' = [rows EXCEPT ![i] = k], owned' = [owned EXCEPT ![i] = @ \union {k}],
         rows[i] = None => owned[i] = {}, UNCHANGED <<traffic, samples, counter, carried, pass>>
  PROVE  Charges'
<1>1. Amounts /\ Amounts'
  BY Measured
<1>2. \A l, raw : Since(l, raw)' = Since(l, raw)
  BY DEF Since
<1>3. \A s \in Samplers : Due(s)' = Due(s)
  BY DEF Due
<1>4. Metered'
  BY <1>2, <1>3 DEF Charges, Metered
<1>5. /\ rows'[i] = k /\ owned'[i] = owned[i] \union {k}
      /\ \A j \in Ids \ {i} : rows'[j] = rows[j] /\ owned'[j] = owned[j]
  BY DEF TypeOK
<1>6. Traced'
  <2>1. \A j \in Ids : rows'[j] # None => rows'[j] \in owned'[j]
    BY <1>5 DEF Charges, Traced
  <2>2. \A s \in Samplers, l \in Keys : pass[s].ids[l] \in Ids \union {None}
    BY DEF TypeOK
  <2> QED
    BY <1>5, <2>1, <2>2 DEF Charges, Traced
<1>7. Bucketed'
  BY DEF Charges, Bucketed, Total
<1>8. Ceiling(i)' = Ceiling(i) + carried[k] /\ \A j \in Ids \ {i} : Ceiling(j)' = Ceiling(j)
  <2>1. IsFiniteSet(owned[i]) /\ \A l \in owned[i] \union {k} : carried[l] \in Nat
    BY <1>1, Finite DEF TypeOK, Amounts
  <2>2. Sum(carried, owned'[i]) = Sum(carried, owned[i]) + carried[k]
    BY <1>5, <2>1, SumJoins
  <2> QED
    BY <1>5, <2>2 DEF Ceiling
<1>9. \A j \in Ids : /\ Total(j)' = Total(j) /\ Last(j)' = Last(j)
                     /\ \A raw \in Nat : Delta(j, raw)' = Delta(j, raw)
  BY DEF Total, Last, Delta
<1>10. /\ \A raw \in Nat : Ahead(i, raw)' = Since(k, raw)
      /\ \A j \in Ids \ {i}, raw \in Nat : Ahead(j, raw)' = Ahead(j, raw)
  BY <1>2, <1>5, TrafficAssumption DEF Ahead
<1>11. \A raw \in Nat : Since(k, raw) <= carried[k]
  BY <1>1 DEF Charges, Metered, Since, Amounts, Absent
<1>12. Billed'
  <2>1. ASSUME NEW j \in Ids PROVE (Total(j) + Ahead(j, Last(j)) <= Ceiling(j))'
    <3>1. Total(j) + Ahead(j, Last(j)) <= Ceiling(j)
      BY DEF Charges, Billed
    <3>2. CASE j = i
      BY <1>1, <1>8, <1>9, <1>10, <1>11, <3>1, <3>2 DEF Amounts
    <3>3. CASE j # i
      BY <1>1, <1>8, <1>9, <1>10, <3>1, <3>3 DEF Amounts
    <3> QED
      BY <3>2, <3>3
  <2>2. ASSUME NEW j \in Ids, NEW s \in Samplers, NEW l \in Due(s), Bills(s, l, j)'
        PROVE  (Bill(j, pass[s].stats[l]) <= Ceiling(j))'
    <3>1. PICK raw \in Nat : raw = pass[s].stats[l] /\ raw = pass'[s].stats[l] /\ l \in Keys
      BY <2>2, Held
    <3>n. /\ Total(i) \in Nat /\ Delta(i, raw) \in 0 .. raw /\ Ahead(i, raw) \in Nat
          /\ Ceiling(i) \in Nat /\ carried[k] \in Nat /\ Since(k, raw) \in Nat
          /\ Last(i) \in Nat /\ Ahead(i, Last(i)) \in Nat
      BY <1>1, <3>1 DEF Amounts
    <3>2. CASE j # i
      <4>1. Bill(j, raw) <= Ceiling(j)
        BY <1>5, <2>2, <3>1, <3>2 DEF Charges, Billed, Bills
      <4> QED
        BY <1>8, <1>9, <1>10, <3>1, <3>2, <4>1 DEF Bill
    <3>3. CASE j = i /\ pass[s].at = "stats"
      <4>1. l = k
        BY <1>5, <2>2, <3>3 DEF Bills
      <4>2. raw + Since(k, raw) <= carried[k]
        BY <3>1, <3>3, <4>1 DEF Charges, Metered
      <4>3. Total(i) + Ahead(i, Last(i)) <= Ceiling(i)
        BY DEF Charges, Billed
      <4>4. Total(i) <= Ceiling(i) /\ Delta(i, raw) <= raw
        BY <3>n, <4>3
      <4>5. Total(i)' = Total(i) /\ Delta(i, raw)' = Delta(i, raw) /\ Ahead(i, raw)' = Since(k, raw)
        BY <1>9, <1>10, <3>1
      <4>6. Bill(i, raw)' = Total(i) + Delta(i, raw) + Since(k, raw)
        BY <4>5 DEF Bill
      <4>7. Bill(i, raw)' <= Ceiling(i)'
        BY <1>8, <3>n, <4>2, <4>4, <4>6
      <4> QED
        BY <3>1, <3>3, <4>7
    <3>4. CASE j = i /\ pass[s].at = "record"
      <4>1. pass[s].ids[l] = i
        BY <2>2, <3>4 DEF Bills
      <4>2. rows[i] # None
        BY <3>1, <3>4, <4>1, TrafficAssumption DEF Charges, Traced
      <4>3. Bill(i, raw) <= Ceiling(i)
        BY <3>1, <3>4, <4>1, <4>2 DEF Charges, Billed, Bills
      <4>4. Total(i)' = Total(i) /\ Delta(i, raw)' = Delta(i, raw) /\ Ahead(i, raw)' = Since(k, raw)
        BY <1>9, <1>10, <3>1
      <4>5. Bill(i, raw)' = Total(i) + Delta(i, raw) + Since(k, raw)
        BY <4>4 DEF Bill
      <4>6. Bill(i, raw)' <= Ceiling(i)'
        BY <1>8, <1>11, <3>n, <4>3, <4>5 DEF Bill
      <4> QED
        BY <3>1, <3>4, <4>6
    <3> QED
      BY <2>2, <3>2, <3>3, <3>4 DEF Bills
  <2> QED
    BY <1>3, <2>1, <2>2 DEF Billed
<1> QED
  BY <1>4, <1>6, <1>7, <1>12 DEF Charges

(* A row goes, with what it was charged for.                               *)
LEMMA DeleteCharges ==
  ASSUME TypeOK, TypeOK', Charges, NEW i \in Ids, Delete(i)
  PROVE  Charges'
<1> USE DEF wire
<1>1. Amounts /\ Amounts'
  BY Measured
<1>2. /\ UNCHANGED <<owned, counter, carried, pass>>
      /\ rows' = [rows EXCEPT ![i] = None] /\ traffic' = [traffic EXCEPT ![i] = None]
      /\ samples' = [samples EXCEPT ![i] = [h \in Hours |-> 0]]
  BY DEF Delete
<1>3. \A l, raw : Since(l, raw)' = Since(l, raw)
  BY <1>2 DEF Since
<1>4. \A s \in Samplers : Due(s)' = Due(s)
  BY <1>2 DEF Due
<1>5. Metered'
  BY <1>2, <1>3, <1>4 DEF Charges, Metered
<1>6. rows'[i] = None /\ \A j \in Ids \ {i} : rows'[j] = rows[j]
  BY <1>2 DEF TypeOK
<1>7. Traced'
  BY <1>2, <1>6 DEF Charges, Traced
<1>8. Total(i)' = 0 /\ \A j \in Ids \ {i} : Total(j)' = Total(j) /\ Last(j)' = Last(j)
  <2>1. \A j \in Ids : traffic'[j] = IF j = i THEN None ELSE traffic[j]
    BY <1>2 DEF TypeOK
  <2> QED
    BY <2>1 DEF Total, Last
<1>9. Bucketed'
  <2>1. samples'[i] = [h \in Hours |-> 0] /\ \A j \in Ids \ {i} : samples'[j] = samples[j]
    BY <1>2 DEF TypeOK
  <2>2. Sum([h \in Hours |-> 0], Hours) = 0
    BY Finite, SumOfZeros
  <2> QED
    BY <1>8, <2>1, <2>2 DEF Charges, Bucketed
<1>10. Billed'
  <2>1. \A j \in Ids : Ceiling(j)' = Ceiling(j)
    BY <1>2 DEF Ceiling
  <2>2. \A raw : Ahead(i, raw)' = 0
    BY <1>6 DEF Ahead
  <2>3. 0 <= Ceiling(i)
    BY <1>1 DEF Amounts
  <2>4. (Total(i) + Ahead(i, Last(i)) <= Ceiling(i))'
    <3>1. Ahead(i, Last(i))' = 0
      BY <1>6 DEF Ahead
    <3> QED
      BY <1>8, <2>1, <2>3, <3>1
  <2>5. \A s \in Samplers, k \in Keys : ~ Bills(s, k, i)'
    BY <1>6 DEF Bills
  <2>6. ASSUME NEW j \in Ids \ {i}, NEW raw
        PROVE  Ahead(j, raw)' = Ahead(j, raw) /\ Bill(j, raw)' = Bill(j, raw)
    BY <1>3, <1>6, <1>8 DEF Ahead, Bill, Delta
  <2>7. ASSUME NEW j \in Ids \ {i} PROVE (Total(j) + Ahead(j, Last(j)) <= Ceiling(j))'
    <3>1. PICK raw : raw = Last(j) /\ raw = Last(j)'
      BY <1>8
    <3>2. Total(j) + Ahead(j, raw) <= Ceiling(j)
      BY <3>1 DEF Charges, Billed
    <3>3. Ahead(j, raw)' = Ahead(j, raw)
      BY <2>6
    <3> QED
      BY <1>8, <2>1, <3>1, <3>2, <3>3
  <2>8. ASSUME NEW j \in Ids \ {i}, NEW s \in Samplers, NEW k \in Due(s), Bills(s, k, j)'
        PROVE  (Bill(j, pass[s].stats[k]) <= Ceiling(j))'
    <3>1. PICK raw : raw = pass[s].stats[k] /\ raw = pass'[s].stats[k]
      BY <1>2
    <3>2. Bill(j, raw) <= Ceiling(j)
      BY <1>2, <1>6, <2>8, <3>1 DEF Charges, Billed, Bills
    <3> QED
      BY <2>1, <2>6, <3>1, <3>2
  <2>9. \A s \in Samplers : \A k \in Due(s)' : k \in Keys /\ k \in Due(s)
    BY <1>4, Held
  <2> QED
    BY <2>4, <2>5, <2>7, <2>8, <2>9 DEF Billed
<1> QED
  BY <1>5, <1>7, <1>9, <1>10 DEF Charges

(* A pass reads the counters: what they show is what is to come, once more. *)
LEMMA StatsCharges ==
  ASSUME TypeOK, TypeOK', Charges, NEW s \in Samplers, ListStats(s)
  PROVE  Charges'
<1> USE DEF table, wire
<1>1. Amounts /\ Amounts'
  BY Measured
<1>2. /\ UNCHANGED <<rows, traffic, samples, owned, counter, carried>>
      /\ pass' = [pass EXCEPT ![s] = [Rest EXCEPT !.at = "stats", !.stats = Readings]]
  BY DEF ListStats
<1>3. /\ pass'[s].at = "stats" /\ pass'[s].stats = Readings
      /\ \A r \in Samplers \ {s} : pass'[r] = pass[r] /\ Due(r)' = Due(r)
  BY <1>2 DEF TypeOK, Rest, Off, Due
<1>4. ASSUME NEW k \in Due(s)'
      PROVE  /\ k \in Keys /\ counter[k] \in Nat /\ pass'[s].stats[k] = counter[k]
             /\ Since(k, counter[k]) = 0
  <2>1. k \in Keys /\ counter[k] # Absent /\ pass'[s].stats[k] = counter[k]
    BY <1>3 DEF Due, Readings
  <2> QED
    BY <1>1, <2>1 DEF Amounts, Since, Absent
<1>5. /\ \A l, raw : Since(l, raw)' = Since(l, raw)
      /\ \A i, raw : Bill(i, raw)' = Bill(i, raw)
      /\ \A i : /\ Ceiling(i)' = Ceiling(i)
                /\ (Total(i) + Ahead(i, Last(i)))' = Total(i) + Ahead(i, Last(i))
  BY <1>2 DEF Since, Bill, Total, Delta, Last, Ahead, Ceiling
<1>6. Metered'
  <2>1. ASSUME NEW k \in Due(s)' PROVE (pass[s].stats[k] + Since(k, pass[s].stats[k]) <= carried[k])'
    <3>1. PICK raw \in Nat : raw = pass'[s].stats[k] /\ raw = counter[k] /\ k \in Keys
      BY <1>4
    <3>2. Since(k, raw) = 0 /\ raw <= carried[k]
      BY <1>4, <3>1 DEF Charges, Metered
    <3> QED
      BY <1>2, <1>5, <3>1, <3>2
  <2>2. ASSUME NEW r \in Samplers \ {s}, pass[r].at \in {"stats", "record"}, NEW k \in Due(r)
        PROVE (pass[r].stats[k] + Since(k, pass[r].stats[k]) <= carried[k])'
    <3>1. PICK raw : raw = pass'[r].stats[k] /\ raw = pass[r].stats[k]
      BY <1>3
    <3>2. raw + Since(k, raw) <= carried[k]
      BY <2>2, <3>1 DEF Charges, Metered
    <3> QED
      BY <1>2, <1>5, <3>1, <3>2
  <2>3. \A k \in Keys : counter'[k] <= carried'[k]
    BY <1>2 DEF Charges, Metered
  <2> QED
    BY <1>3, <2>1, <2>2, <2>3 DEF Metered
<1>7. Traced'
  BY <1>2, <1>3 DEF Charges, Traced
<1>8. Bucketed'
  BY <1>2 DEF Charges, Bucketed, Total
<1>9. Billed'
  <2>1. \A i \in Ids : (Total(i) + Ahead(i, Last(i)) <= Ceiling(i))'
    BY <1>5 DEF Charges, Billed
  <2>2. ASSUME NEW i \in Ids, NEW k \in Due(s)', Bills(s, k, i)'
        PROVE  (Bill(i, pass[s].stats[k]) <= Ceiling(i))'
    <3>1. PICK raw \in Nat : raw = pass'[s].stats[k] /\ raw = counter[k] /\ k \in Keys
      BY <1>4
    <3>2. rows[i] = k /\ rows[i] # None
      BY <1>2, <1>3, <2>2 DEF Bills
    <3>3. Ahead(i, raw) = 0 /\ Ahead(i, Last(i)) = Delta(i, raw)
      <4>1. Ahead(i, raw) = 0
        BY <1>4, <3>1, <3>2 DEF Ahead
      <4>2. counter[k] # Absent
        BY <3>1 DEF Absent
      <4> QED
        BY <3>1, <3>2, <4>1, <4>2 DEF Ahead, Since, Delta
    <3>4. Bill(i, raw) = Total(i) + Ahead(i, Last(i))
      BY <1>1, <3>1, <3>3 DEF Bill, Amounts
    <3> QED
      BY <1>5, <3>1, <3>4 DEF Charges, Billed
  <2>3. ASSUME NEW i \in Ids, NEW r \in Samplers \ {s}, NEW k \in Due(r), Bills(r, k, i)'
        PROVE  (Bill(i, pass[r].stats[k]) <= Ceiling(i))'
    <3>1. PICK raw : raw = pass'[r].stats[k] /\ raw = pass[r].stats[k]
      BY <1>3
    <3>2. Bill(i, raw) <= Ceiling(i)
      BY <1>2, <1>3, <2>3, <3>1 DEF Charges, Billed, Bills
    <3> QED
      BY <1>5, <3>1, <3>2
  <2> QED
    BY <1>3, <2>1, <2>2, <2>3 DEF Billed
<1> QED
  BY <1>6, <1>7, <1>8, <1>9 DEF Charges

(* A pass reads the rows: each of its keys is the one of at most one row.  *)
LEMMA RowsCharges ==
  ASSUME TypeOK, TypeOK', Charges, NEW s \in Samplers, ListRows(s)
  PROVE  Charges'
<1> USE DEF table, wire
<1> DEFINE found == [k \in Keys |-> IF Has(k) THEN CHOOSE i \in Ids : rows[i] = k ELSE None]
<1>1. /\ UNCHANGED <<rows, traffic, samples, owned, counter, carried>> /\ pass[s].at = "stats"
      /\ pass' = [pass EXCEPT ![s].at = "record", ![s].now = hour, ![s].ids = found]
  BY DEF ListRows
<1> HIDE DEF found
<1>2. /\ pass'[s].at = "record" /\ pass'[s].ids = found
      /\ \A r \in Samplers : pass'[r].stats = pass[r].stats /\ Due(r)' = Due(r)
      /\ \A r \in Samplers \ {s} : pass'[r] = pass[r]
  BY <1>1 DEF TypeOK, Due
<1>3. ASSUME NEW k \in Keys, found[k] # None
      PROVE  found[k] \in Ids /\ rows[found[k]] = k
  BY <1>3 DEF found, Has
<1>4. /\ \A l, raw : Since(l, raw)' = Since(l, raw)
      /\ \A i, raw : Bill(i, raw)' = Bill(i, raw)
      /\ \A i : /\ Ceiling(i)' = Ceiling(i)
                /\ (Total(i) + Ahead(i, Last(i)))' = Total(i) + Ahead(i, Last(i))
  BY <1>1 DEF Since, Bill, Total, Delta, Last, Ahead, Ceiling
<1>5. \A r \in Samplers : pass'[r].at \in {"stats", "record"} => pass[r].at \in {"stats", "record"}
  BY <1>1, <1>2
<1>6. Metered'
  <2>1. ASSUME NEW r \in Samplers, pass[r].at \in {"stats", "record"}, NEW k \in Due(r)
        PROVE (pass[r].stats[k] + Since(k, pass[r].stats[k]) <= carried[k])'
    <3>1. PICK raw : raw = pass'[r].stats[k] /\ raw = pass[r].stats[k]
      BY <1>2
    <3>2. raw + Since(k, raw) <= carried[k]
      BY <2>1, <3>1 DEF Charges, Metered
    <3> QED
      BY <1>1, <1>4, <3>1, <3>2
  <2> QED
    BY <1>1, <1>2, <1>5, <2>1 DEF Charges, Metered
<1>7. Traced'
  <2>1. ASSUME NEW k \in Keys, found[k] # None
        PROVE  owned[found[k]] # {} /\ \A l \in Keys : found[k] = found[l] => k = l
    <3>1. rows[found[k]] = k /\ found[k] \in Ids /\ k # None
      BY <1>3, <2>1, TrafficAssumption
    <3>2. k \in owned[found[k]]
      BY <3>1 DEF Charges, Traced
    <3>3. ASSUME NEW l \in Keys, found[k] = found[l] PROVE k = l
      BY <1>3, <2>1, <3>1, <3>3
    <3> QED
      BY <3>2, <3>3
  <2>2. \A i \in Ids : rows'[i] # None => rows'[i] \in owned'[i]
    BY <1>1 DEF Charges, Traced
  <2>3. ASSUME NEW r \in Samplers \ {s}, pass'[r].at = "record", NEW k \in Keys, pass'[r].ids[k] # None
        PROVE  /\ owned'[pass'[r].ids[k]] # {}
               /\ \A l \in Keys : pass'[r].ids[k] = pass'[r].ids[l] => k = l
    <3>1. pass'[r] = pass[r] /\ owned' = owned
      BY <1>1, <1>2
    <3>2. pass[r].at = "record" /\ pass[r].ids[k] # None
      BY <2>3, <3>1
    <3>3. /\ owned[pass[r].ids[k]] # {}
          /\ \A l \in Keys : pass[r].ids[k] = pass[r].ids[l] => k = l
      BY <3>2 DEF Charges, Traced
    <3> QED
      BY <3>1, <3>3
  <2>4. ASSUME NEW k \in Keys, pass'[s].ids[k] # None
        PROVE  /\ owned'[pass'[s].ids[k]] # {}
               /\ \A l \in Keys : pass'[s].ids[k] = pass'[s].ids[l] => k = l
    BY <1>1, <1>2, <2>1, <2>4
  <2> QED
    BY <2>2, <2>3, <2>4 DEF Traced
<1>8. Bucketed'
  BY <1>1 DEF Charges, Bucketed, Total
<1>9. Billed'
  <2>1. \A i \in Ids : (Total(i) + Ahead(i, Last(i)) <= Ceiling(i))'
    BY <1>4 DEF Charges, Billed
  <2>2. ASSUME NEW i \in Ids, NEW r \in Samplers, NEW k \in Due(r), Bills(r, k, i)'
        PROVE  (Bill(i, pass[r].stats[k]) <= Ceiling(i))'
    <3>1. PICK raw : raw = pass'[r].stats[k] /\ raw = pass[r].stats[k]
      BY <1>2
    <3>2. Bills(r, k, i)
      <4>1. CASE r = s
        <5>1. k \in Keys /\ found[k] = i /\ i # None /\ rows[i] # None
          BY <1>1, <1>2, <2>2, <4>1, TrafficAssumption DEF Bills, Due
        <5> QED
          BY <1>1, <1>3, <4>1, <5>1 DEF Bills
      <4>2. CASE r # s
        BY <1>1, <1>2, <2>2, <4>2 DEF Bills
      <4> QED
        BY <4>1, <4>2
    <3>3. Bill(i, raw) <= Ceiling(i)
      BY <3>1, <3>2 DEF Charges, Billed
    <3> QED
      BY <1>4, <3>1, <3>3
  <2> QED
    BY <1>2, <2>1, <2>2 DEF Billed
<1> QED
  BY <1>6, <1>7, <1>8, <1>9 DEF Charges

----------------------------------------------------------------------------
(* A key without a row is passed over; one with a row is charged to it.  No *)
(* other pass can hold a reading for it, and this one has no second.       *)
LEMMA RecordCharges ==
  ASSUME TypeOK, TypeOK', Alone, Charges, NEW s \in Samplers, RecordOne(s)
  PROVE  Charges'
<1> USE DEF wire
<1>1. Amounts /\ Amounts'
  BY Measured
<1>2. PICK k \in Due(s) :
        LET i == pass[s].ids[k]
            known == i # None /\ rows[i] # None
        IN /\ IF known THEN Record(i, pass[s].stats[k], pass[s].now) ELSE UNCHANGED <<traffic, samples>>
           /\ pass' = [pass EXCEPT ![s] = IF Due(s) = {k} THEN Rest ELSE [@ EXCEPT !.stats[k] = Absent]]
  BY DEF RecordOne
<1>3. UNCHANGED <<rows, owned, counter, carried>> /\ pass[s].at = "record"
  BY DEF RecordOne
<1>4. k \in Keys /\ pass[s].stats[k] \in Nat
  BY Held
<1>5. /\ \A r \in Samplers \ {s} : pass'[r] = pass[r]
      /\ pass'[s].at # "rest" => /\ pass'[s].at = pass[s].at /\ pass'[s].ids = pass[s].ids
                                /\ \A l \in Keys : pass'[s].stats[l] = IF l = k THEN Absent ELSE pass[s].stats[l]
  BY <1>2, <1>4 DEF TypeOK, Rest, Off
<1>6. \A r \in Samplers : Narrows(r)
  BY <1>5 DEF Narrows
<1>7. CASE pass[s].ids[k] = None \/ rows[pass[s].ids[k]] = None
  <2>1. UNCHANGED <<traffic, samples>>
    BY <1>2, <1>7
  <2>2. UNCHANGED <<rows, traffic, samples, owned, carried>>
    BY <1>3, <2>1
  <2>3. \A l \in Keys : counter'[l] = counter[l] \/ counter'[l] = Absent
                        \/ (counter[l] = Absent /\ counter'[l] = 0)
    BY <1>3
  <2> QED
    BY <1>6, <2>2, <2>3, Calm
<1>8. CASE pass[s].ids[k] # None /\ rows[pass[s].ids[k]] # None
  <2>1. PICK i \in Ids : i = pass[s].ids[k] /\ rows[i] # None
    BY <1>4, <1>8 DEF TypeOK
  <2>2. PICK raw \in Nat : raw = pass[s].stats[k]
    BY <1>4
  <2>3. PICK h \in Hours : h = pass[s].now
    BY DEF TypeOK
  <2>4. /\ traffic' = [traffic EXCEPT ![i] = [total |-> Total(i) + Delta(i, raw), last |-> raw]]
        /\ samples' = [samples EXCEPT ![i][h] = @ + Delta(i, raw)]
    BY <1>2, <1>8, <2>1, <2>2, <2>3 DEF Record
  <2>5. /\ Total(i)' = Total(i) + Delta(i, raw) /\ Last(i)' = raw
        /\ \A j \in Ids \ {i} : Total(j)' = Total(j) /\ Last(j)' = Last(j)
    <3>1. traffic'[i] = [total |-> Total(i) + Delta(i, raw), last |-> raw]
      BY <2>4 DEF TypeOK
    <3>2. traffic'[i] # None
      <4>1. Total(i) + Delta(i, raw) \in Nat
        BY <1>1 DEF Amounts
      <4> QED
        BY <3>1, <4>1, TrafficAssumption
    <3>3. \A j \in Ids \ {i} : traffic'[j] = traffic[j]
      BY <2>4 DEF TypeOK
    <3> QED
      BY <3>1, <3>2, <3>3 DEF Total, Last
  <2>6. /\ \A l, c : Since(l, c)' = Since(l, c)
        /\ \A j, c : Ahead(j, c)' = Ahead(j, c)
        /\ \A j : Ceiling(j)' = Ceiling(j)
    BY <1>3 DEF Since, Ahead, Ceiling
  <2>7. Metered'
    <3>1. ASSUME NEW r \in Samplers, pass'[r].at \in {"stats", "record"}, NEW l \in Due(r)'
          PROVE  (pass[r].stats[l] + Since(l, pass[r].stats[l]) <= carried[l])'
      <4>1. l \in Due(r) /\ pass[r].at = pass'[r].at /\ pass'[r].stats[l] = pass[r].stats[l]
        BY <1>6, <3>1 DEF Narrows, Due
      <4>2. PICK c : c = pass'[r].stats[l] /\ c = pass[r].stats[l]
        BY <4>1
      <4>3. c + Since(l, c) <= carried[l]
        BY <3>1, <4>1, <4>2 DEF Charges, Metered
      <4> QED
        BY <1>3, <2>6, <4>2, <4>3
    <3> QED
      BY <1>3, <3>1 DEF Charges, Metered
  <2>8. Traced'
    <3>1. \A r \in Samplers : pass'[r].at = "record" => pass[r].at = "record" /\ pass'[r].ids = pass[r].ids
      BY <1>6 DEF Narrows
    <3> QED
      BY <1>3, <3>1 DEF Charges, Traced
  <2>9. Bucketed'
    <3>1. \A j \in Ids \ {i} : samples'[j] = samples[j]
      BY <2>4 DEF TypeOK
    <3>2. /\ samples[i] \in [Hours -> Nat] /\ samples'[i] \in [Hours -> Nat]
          /\ samples'[i][h] = samples[i][h] + Delta(i, raw)
          /\ \A g \in Hours : g # h => samples[i][g] = samples'[i][g]
      BY <2>4 DEF TypeOK
    <3>3. Sum(samples'[i], Hours) = Sum(samples[i], Hours) + (samples'[i][h] - samples[i][h])
      BY <3>2, Finite, SumChanges
    <3>4. Total(i) = Sum(samples[i], Hours) /\ Total(i) \in Nat /\ Delta(i, raw) \in Nat
      BY <1>1 DEF Charges, Bucketed, Amounts
    <3>5. Total(i)' = Sum(samples'[i], Hours)
      BY <2>5, <3>2, <3>3, <3>4
    <3> QED
      BY <2>5, <3>1, <3>5 DEF Charges, Bucketed
  <2>10. Billed'
    <3>1. (Total(i) + Ahead(i, Last(i)) <= Ceiling(i))'
      <4>1. Bills(s, k, i)
        BY <1>3, <2>1 DEF Bills
      <4>2. Bill(i, raw) <= Ceiling(i)
        BY <2>2, <4>1 DEF Charges, Billed
      <4>3. Ahead(i, Last(i))' = Ahead(i, raw)
        BY <1>3, <2>5 DEF Ahead, Since
      <4> QED
        BY <2>5, <2>6, <4>2, <4>3 DEF Bill
    <3>2. ASSUME NEW j \in Ids \ {i} PROVE (Total(j) + Ahead(j, Last(j)) <= Ceiling(j))'
      <4>1. Total(j) + Ahead(j, Last(j)) <= Ceiling(j)
        BY DEF Charges, Billed
      <4>2. Ahead(j, Last(j))' = Ahead(j, Last(j))
        BY <1>3, <2>5 DEF Ahead, Since
      <4> QED
        BY <2>5, <2>6, <4>1, <4>2
    <3>3. ASSUME NEW j \in Ids, NEW r \in Samplers, NEW l \in Due(r)', Bills(r, l, j)'
          PROVE  (Bill(j, pass[r].stats[l]) <= Ceiling(j))'
      <4>1. /\ l \in Due(r) /\ pass[r].at = pass'[r].at /\ pass'[r].ids = pass[r].ids
            /\ pass'[r].stats[l] = pass[r].stats[l]
        BY <1>6, <3>3 DEF Narrows, Due, Bills
      <4>2. r = s
        BY <1>3, <3>3, <4>1, TrafficAssumption DEF Alone, Bills
      <4>3. l # k /\ l \in Keys
        BY <1>5, <3>3, <4>1, <4>2 DEF Due, Bills
      <4>4. pass[s].ids[l] = j /\ j # i
        <5>1. pass[s].ids[l] = j
          BY <1>3, <3>3, <4>1, <4>2 DEF Bills
        <5>2. \A m \in Keys : pass[s].ids[k] = pass[s].ids[m] => k = m
          BY <1>3, <1>4, <1>8 DEF Charges, Traced
        <5> QED
          BY <2>1, <4>3, <5>1, <5>2
      <4>5. PICK c : c = pass'[r].stats[l] /\ c = pass[r].stats[l]
        BY <4>1
      <4>6. Bill(j, c) <= Ceiling(j)
        BY <1>3, <3>3, <4>1, <4>2, <4>5 DEF Bills, Charges, Billed
      <4>7. Total(j)' = Total(j) /\ Last(j)' = Last(j)
        BY <2>5, <4>4
      <4>8. Bill(j, c)' = Bill(j, c)
        BY <2>6, <4>7 DEF Bill, Delta
      <4> QED
        BY <2>6, <4>5, <4>6, <4>8
    <3> QED
      BY <3>1, <3>2, <3>3 DEF Billed
  <2> QED
    BY <2>7, <2>8, <2>9, <2>10 DEF Charges
<1> QED
  BY <1>7, <1>8

----------------------------------------------------------------------------
LEMMA ChargesInit == Init => Alone /\ Charges
<1> SUFFICES ASSUME Init PROVE Alone /\ Charges
  OBVIOUS
<1>1. /\ \A s \in Samplers : pass[s].at = "off"
      /\ \A i \in Ids : /\ rows[i] = None /\ owned[i] = {} /\ Total(i) = 0
                        /\ samples[i] = [h \in Hours |-> 0]
      /\ \A k \in Keys : counter[k] = Absent /\ carried[k] = 0
  BY DEF Init, Off, Total
<1>2. Alone
  BY <1>1 DEF Init, Alone
<1>3. Metered /\ Traced
  BY <1>1 DEF Metered, Traced, Absent
<1>4. Bucketed
  <2>1. Sum([h \in Hours |-> 0], Hours) = 0
    BY Finite, SumOfZeros
  <2> QED
    BY <1>1, <2>1 DEF Bucketed
<1>5. Billed
  <2>1. ASSUME NEW i \in Ids PROVE Total(i) + Ahead(i, Last(i)) <= Ceiling(i)
    <3>1. Ceiling(i) = 0
      BY <1>1, SumEmpty DEF Ceiling
    <3>2. Ahead(i, Last(i)) = 0
      BY <1>1 DEF Ahead
    <3> QED
      BY <1>1, <3>1, <3>2
  <2>2. \A i \in Ids, s \in Samplers, k \in Keys : ~ Bills(s, k, i)
    BY <1>1 DEF Bills
  <2> QED
    BY <2>1, <2>2 DEF Billed, Due
<1> QED
  BY <1>2, <1>3, <1>4, <1>5 DEF Charges

LEMMA AloneStep ==
  ASSUME Separate, TypeOK, Alone, [Next /\ UNCHANGED scope]_vars
  PROVE  Alone'
<1> USE DEF driver
<1>1. ASSUME UNCHANGED <<slot, stopping, pass>> PROVE Alone'
  BY <1>1 DEF Alone
<1>2. ASSUME NEW s \in Samplers, Sample(s) PROVE Alone'
  <2>1. UNCHANGED <<slot, stopping>>
    BY <1>2 DEF Sample, ListStats, ListRows, RecordOne, LoopEnds
  <2>2. \A r \in Samplers : pass'[r].at # "off" => pass[r].at # "off"
    <3>1. \A r \in Samplers \ {s} : pass'[r] = pass[r]
      BY <1>2 DEF TypeOK, Sample, ListStats, ListRows, RecordOne, LoopEnds
    <3>2. pass'[s].at # "off" => pass[s].at # "off"
      BY <1>2 DEF TypeOK, Sample, ListStats, ListRows, RecordOne, LoopEnds, Off
    <3> QED
      BY <3>1, <3>2
  <2> QED
    BY <2>1, <2>2 DEF Alone
<1>3. ASSUME Start PROVE Alone'
  <2>1. slot = None /\ stopping = None /\ stopping' = None
    BY <1>3 DEF Start, Separate, TypeOK
  <2>2. PICK s \in Samplers : slot' = s /\ pass' = [pass EXCEPT ![s] = Rest]
    BY <1>3 DEF Start
  <2>3. \A r \in Samplers \ {s} : pass'[r] = pass[r]
    BY <2>2 DEF TypeOK
  <2>4. \A r \in Samplers : pass[r].at = "off"
    BY <2>1, TrafficAssumption DEF Alone
  <2> QED
    BY <2>1, <2>2, <2>3, <2>4 DEF Alone
<1>4. ASSUME StopBegin PROVE Alone'
  BY <1>4 DEF StopBegin, Alone
<1>5. ASSUME Down PROVE Alone'
  BY <1>5 DEF Down, Alone
<1>6. ASSUME Crash PROVE Alone'
  BY <1>6 DEF Crash, Alone, Off
<1>7. ASSUME NEW k \in Keys, Carry(k) \/ Install(k) \/ Remove(k) PROVE Alone'
  BY <1>1, <1>7 DEF Carry, Install, Remove
<1>8. ASSUME NextHour \/ Rows PROVE Alone'
  BY <1>1, <1>8 DEF NextHour, Rows, Delete, Create, Rekey
<1>9. CASE UNCHANGED vars
  BY <1>1, <1>9 DEF vars
<1> QED
  BY <1>2, <1>3, <1>4, <1>5, <1>6, <1>7, <1>8, <1>9 DEF Next

LEMMA ChargesStep ==
  ASSUME Separate, TypeOK, TypeOK', Alone, Charges, [Next /\ UNCHANGED scope]_vars
  PROVE  Charges'
<1> USE DEF table, wire, driver
<1>t. "reuse" \notin scope /\ counter \in [Keys -> Nat \union {Absent}] /\ pass \in [Samplers -> Pass]
  BY DEF Separate, TypeOK, Pass
<1>1. ASSUME UNCHANGED <<rows, traffic, samples, owned, carried, pass>>,
             \A k \in Keys : counter'[k] = counter[k] \/ counter'[k] = Absent
                            \/ (counter[k] = Absent /\ counter'[k] = 0)
      PROVE  Charges'
  <2>1. \A s \in Samplers : Narrows(s)
    BY <1>1 DEF Narrows
  <2> QED
    BY <1>1, <2>1, Calm
<1>2. ASSUME NEW k \in Keys, Carry(k) PROVE Charges'
  BY <1>2, CarryCharges
<1>3. ASSUME NEW k \in Keys, Install(k) PROVE Charges'
  BY <1>t, <1>1, <1>3 DEF Install
<1>4. ASSUME NEW k \in Keys, Remove(k) PROVE Charges'
  BY <1>t, <1>1, <1>4 DEF Remove
<1>5. ASSUME NextHour PROVE Charges'
  BY <1>1, <1>5 DEF NextHour
<1>6. ASSUME NEW i \in Ids, NEW k \in Keys, Create(i, k) PROVE Charges'
  <2>1. /\ k \in Keys \ owned[i] /\ owned[i] = {}
        /\ rows' = [rows EXCEPT ![i] = k] /\ owned' = [owned EXCEPT ![i] = @ \union {k}]
        /\ UNCHANGED <<traffic, samples, counter, carried, pass>>
    BY <1>6 DEF Create, TypeOK
  <2> QED
    BY <2>1, GrowCharges
<1>7. ASSUME NEW i \in Ids, NEW k \in Keys, Rekey(i, k) PROVE Charges'
  <2>1. /\ k \in Keys \ owned[i] /\ rows[i] # None
        /\ rows' = [rows EXCEPT ![i] = k] /\ owned' = [owned EXCEPT ![i] = @ \union {k}]
        /\ UNCHANGED <<traffic, samples, counter, carried, pass>>
    BY <1>t, <1>7 DEF Rekey, Fresh
  <2> QED
    BY <2>1, GrowCharges
<1>8. ASSUME NEW i \in Ids, Delete(i) PROVE Charges'
  BY <1>8, DeleteCharges
<1>9. ASSUME NEW s \in Samplers, Sample(s) PROVE Charges'
  <2>1. ASSUME LoopEnds(s) PROVE Charges'
    <3>1. /\ UNCHANGED <<rows, traffic, samples, owned, carried, counter>>
          /\ pass' = [pass EXCEPT ![s] = Off]
      BY <2>1 DEF LoopEnds
    <3>2. \A r \in Samplers : pass'[r] = IF r = s THEN Off ELSE pass[r]
      BY <1>t, <3>1
    <3>3. \A r \in Samplers : Narrows(r)
      BY <3>2 DEF Narrows, Off
    <3> QED
      BY <3>1, <3>3, Calm
  <2> QED
    BY <1>9, <2>1, StatsCharges, RowsCharges, RecordCharges DEF Sample
<1>10. ASSUME Start PROVE Charges'
  <2>1. PICK s \in Samplers : pass' = [pass EXCEPT ![s] = Rest]
    BY <1>10 DEF Start
  <2>2. UNCHANGED <<rows, traffic, samples, owned, carried, counter>>
    BY <1>10 DEF Start
  <2>3. \A r \in Samplers : pass'[r] = IF r = s THEN Rest ELSE pass[r]
    BY <1>t, <2>1
  <2>4. \A r \in Samplers : Narrows(r)
    BY <2>3 DEF Narrows, Rest, Off
  <2> QED
    BY <2>2, <2>4, Calm
<1>11. ASSUME StopBegin PROVE Charges'
  BY <1>1, <1>11 DEF StopBegin
<1>12. ASSUME Down PROVE Charges'
  BY <1>1, <1>12 DEF Down
<1>13. ASSUME Crash PROVE Charges'
  <2>1. /\ UNCHANGED <<rows, traffic, samples, owned, carried>>
        /\ pass' = [s \in Samplers |-> Off] /\ counter' = [k \in Keys |-> Absent]
    BY <1>13 DEF Crash
  <2>2. \A r \in Samplers : Narrows(r)
    BY <2>1 DEF Narrows, Off
  <2> QED
    BY <2>1, <2>2, Calm
<1>14. CASE UNCHANGED vars
  BY <1>1, <1>14 DEF vars
<1> QED
  BY <1>2, <1>3, <1>4, <1>5, <1>6, <1>7, <1>8, <1>9, <1>10, <1>11, <1>12, <1>13, <1>14 DEF Next, Rows

LEMMA ChargesAreSound == TypeOK /\ Charges => NeverOvercharged
<1> SUFFICES ASSUME TypeOK, Charges, NEW i \in Ids
             PROVE  Total(i) = Sum(samples[i], Hours) /\ Total(i) <= Sum(carried, owned[i])
  BY DEF NeverOvercharged
<1>1. Total(i) \in Nat /\ Last(i) \in Nat /\ Ceiling(i) \in Nat /\ Ahead(i, Last(i)) \in Nat
  BY Measured DEF Amounts
<1>2. Total(i) = Sum(samples[i], Hours) /\ Total(i) + Ahead(i, Last(i)) <= Ceiling(i)
  BY DEF Charges, Bucketed, Billed
<1>3. Ceiling(i) = Sum(carried, owned[i])
  BY DEF Ceiling
<1> QED
  BY <1>1, <1>2, <1>3

(* When keys are not used again and no start overlaps a stop, no row is    *)
(* ever charged for more than its keys have carried, and its buckets add   *)
(* up to its total: whatever number of rows, keys and samplers there is,   *)
(* and whatever comes between two statements of a pass.                    *)
THEOREM NobodyIsOvercharged == Spec /\ Separate => []NeverOvercharged
<1>1. Init => TypeOK /\ Alone /\ Charges
  BY TypeInit, ChargesInit
<1>2. ASSUME Separate, TypeOK, Alone, Charges, [Next /\ UNCHANGED scope]_vars
      PROVE  (Separate /\ TypeOK /\ Alone /\ Charges)'
  <2>1. TypeOK' /\ Alone'
    BY <1>2, TypeStep, AloneStep
  <2>2. Charges'
    BY <1>2, <2>1, ChargesStep
  <2>3. Separate'
    BY <1>2 DEF Separate, vars
  <2> QED
    BY <2>1, <2>2, <2>3
<1>3. TypeOK /\ Alone /\ Charges => NeverOvercharged
  BY ChargesAreSound
<1> QED
  BY <1>1, <1>2, <1>3, PTL DEF Spec

=============================================================================
