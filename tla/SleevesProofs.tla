---------------------------- MODULE SleevesProofs ----------------------------
(* Proofs about Sleeves: the log explains every balance, the source is not   *)
(* overdrawn and lanes stay within their means, up to the races the          *)
(* properties name; and a distribution is fair, for any pot and any lanes.   *)
EXTENDS Sleeves, Totals

-----------------------------------------------------------------------------
(* Operators.                                                                *)

LEMMA SumIsTotal == ASSUME NEW f, NEW S PROVE Sum(f, S) = Total(f, S)
  BY DEF Sum, Total

LEMMA MaxZero == ASSUME NEW a \in Int PROVE Max({0, a}) = IF a > 0 THEN a ELSE 0
<1>1. PICK m \in {0, a} : \A y \in {0, a} : m >= y
  OBVIOUS
<1>2. Max({0, a}) \in {0, a} /\ \A y \in {0, a} : Max({0, a}) >= y
  BY <1>1 DEF Max
<1> QED
  BY <1>2

\* A book as load_book returns it.
IsBook(b) == b.actual \in [Sleeve -> Int] /\ b.target \in [Lane -> Nat]

\* What a lane has too much and what it has room for are never both positive.
LEMMA ExcessOrRoom ==
    ASSUME NEW b, IsBook(b), NEW l \in Lane
    PROVE  /\ MustReduce(b, l) \in Nat /\ Headroom(b, l) \in Nat
           /\ MustReduce(b, l) > 0 => Headroom(b, l) = 0
           /\ MustReduce(b, l) > 0 => MustReduce(b, l) <= b.actual[l]
<1>1. b.actual[l] \in Int /\ b.target[l] \in Nat /\ Target(b, l) = b.target[l]
  BY DEF IsBook, Sleeve, Target
<1>2. MustReduce(b, l) = IF b.actual[l] - b.target[l] > 0 THEN b.actual[l] - b.target[l] ELSE 0
  BY <1>1, MaxZero DEF MustReduce
<1>3. Headroom(b, l) = IF b.target[l] - b.actual[l] > 0 THEN b.target[l] - b.actual[l] ELSE 0
  BY <1>1, MaxZero DEF Headroom
<1> QED
  BY <1>1, <1>2, <1>3

\* Amounts of rows, or of sales.
LEMMA AmountEmpty == Amount({}) = 0
  BY SumIsTotal, TotalEmpty DEF Amount

LEMMA AmountNat ==
    ASSUME NEW R, IsFiniteSet(R), \A r \in R : r.amount \in Nat
    PROVE  Amount(R) \in Nat
<1> DEFINE f == [r \in R |-> r.amount]
           z == [r \in R |-> 0]
<1>1. Amount(R) = Total(f, R)
  BY SumIsTotal DEF Amount
<1>2. Total(z, R) = 0
  BY TotalZeros
<1>3. \A r \in R : z[r] \in Int /\ f[r] \in Int /\ z[r] <= f[r]
  OBVIOUS
<1> HIDE DEF f, z
<1>4. Total(z, R) <= Total(f, R) /\ Total(f, R) \in Int
  BY <1>3, TotalMonotonic, TotalInt
<1> QED
  BY <1>1, <1>2, <1>4

LEMMA AmountUnion ==
    ASSUME NEW R, NEW Q, IsFiniteSet(R), IsFiniteSet(Q), R \cap Q = {},
           \A r \in R \cup Q : r.amount \in Nat
    PROVE  Amount(R \cup Q) = Amount(R) + Amount(Q)
<1> DEFINE f == [r \in R \cup Q |-> r.amount]
           g == [r \in R |-> r.amount]
           h == [r \in Q |-> r.amount]
<1>1. Amount(R \cup Q) = Total(f, R \cup Q) /\ Amount(R) = Total(g, R) /\ Amount(Q) = Total(h, Q)
  BY SumIsTotal DEF Amount
<1>2. /\ \A r \in R \cup Q : f[r] \in Int
      /\ \A r \in R : f[r] = g[r]
      /\ \A r \in Q : f[r] = h[r]
  OBVIOUS
<1> HIDE DEF f, g, h
<1>3. Total(f, R \cup Q) = Total(f, R) + Total(f, Q)
  BY <1>2, TotalUnion
<1>4. Total(f, R) = Total(g, R) /\ Total(f, Q) = Total(h, Q)
  BY <1>2, TotalSame
<1> QED
  BY <1>1, <1>3, <1>4

LEMMA AmountOne == ASSUME NEW r, r.amount \in Nat PROVE Amount({r}) = r.amount
<1> DEFINE f == [q \in {r} |-> q.amount]
<1>1. Amount({r}) = Total(f, {r})
  BY SumIsTotal DEF Amount
<1>2. f[r] = r.amount /\ f[r] \in Int
  OBVIOUS
<1> HIDE DEF f
<1> QED
  BY <1>1, <1>2, TotalOne

LEMMA AmountWithout ==
    ASSUME NEW R, IsFiniteSet(R), \A r \in R : r.amount \in Nat, NEW q \in R
    PROVE  Amount(R) = Amount(R \ {q}) + q.amount
<1>1. R = (R \ {q}) \cup {q} /\ (R \ {q}) \cap {q} = {}
  OBVIOUS
<1>2. IsFiniteSet(R \ {q}) /\ IsFiniteSet({q})
  BY FS_RemoveElement, FS_Singleton
<1>3. Amount((R \ {q}) \cup {q}) = Amount(R \ {q}) + Amount({q})
  BY <1>1, <1>2, AmountUnion
<1>4. Amount({q}) = q.amount /\ q.amount \in Nat
  BY AmountOne
<1> QED
  BY <1>1, <1>3, <1>4

-----------------------------------------------------------------------------
(* plan_distribution.                                                        *)

\* Division of naturals.
LEMMA Division ==
    ASSUME NEW a \in Nat, NEW b \in Nat, b > 0
    PROVE  a \div b \in Nat /\ a % b \in Nat /\ a % b < b /\ a = b * (a \div b) + (a % b)
  OBVIOUS

\* The whole shares, what each leaves over, and one unit for the lucky.
Whole(short, given, all) == [s \in Lane |-> (given * short[s]) \div all]
Left(short, given, all) == [s \in Lane |-> (given * short[s]) % all]
Bonus(L) == [s \in Lane |-> IF s \in L THEN 1 ELSE 0]

LEMMA LanesFinite == IsFiniteSet(Lane)
  BY SleevesAssumption

LEMMA ShortTotal ==
    ASSUME NEW short \in [Lane -> Nat]
    PROVE  Total(short, Lane) \in Nat
<1> DEFINE z == [l \in Lane |-> 0]
<1>1. \A l \in Lane : short[l] \in Int /\ z[l] \in Int /\ z[l] <= short[l] /\ z[l] = 0
  OBVIOUS
<1> HIDE DEF z
<1>2. Total(short, Lane) \in Int /\ Total(z, Lane) <= Total(short, Lane) /\ Total(z, Lane) = 0
  BY <1>1, LanesFinite, TotalInt, TotalMonotonic, TotalZeros
<1> QED
  BY <1>2

\* What dividing the gift leaves, share by share and in total.
Divided(short, given, all, floor, rest) ==
    /\ floor \in [Lane -> Nat] /\ rest \in [Lane -> Nat]
    /\ \A l \in Lane : rest[l] < all /\ all * floor[l] + rest[l] = given * short[l]
    /\ Total(floor, Lane) \in Nat /\ Total(rest, Lane) \in Nat
    /\ all * Total(floor, Lane) + Total(rest, Lane) = given * all

LEMMA WholeAndLeft ==
    ASSUME NEW short \in [Lane -> Nat], NEW given \in Nat, NEW all \in Nat,
           all = Total(short, Lane), all > 0
    PROVE  Divided(short, given, all, Whole(short, given, all), Left(short, given, all))
<1> DEFINE floor == Whole(short, given, all)
           rest == Left(short, given, all)
           big == [l \in Lane |-> all * floor[l]]
           due == [l \in Lane |-> given * short[l]]
<1>1. \A l \in Lane : /\ floor[l] = (given * short[l]) \div all
                      /\ rest[l] = (given * short[l]) % all
  BY DEF Whole, Left
<1>2. \A l \in Lane : given * short[l] \in Nat
  OBVIOUS
<1>3. \A l \in Lane : /\ floor[l] \in Nat /\ rest[l] \in Nat /\ rest[l] < all
                      /\ given * short[l] = all * floor[l] + rest[l]
  <2> SUFFICES ASSUME NEW l \in Lane
               PROVE  /\ floor[l] \in Nat /\ rest[l] \in Nat /\ rest[l] < all
                      /\ given * short[l] = all * floor[l] + rest[l]
    OBVIOUS
  <2> DEFINE a == given * short[l]
  <2>1. a \in Nat /\ floor[l] = a \div all /\ rest[l] = a % all
    BY <1>1, <1>2
  <2> HIDE DEF a, floor, rest
  <2>2. a \div all \in Nat /\ a % all \in Nat /\ a % all < all /\ a = all * (a \div all) + (a % all)
    BY <2>1, Division, Zenon
  <2>3. a = all * floor[l] + rest[l] /\ floor[l] \in Nat /\ rest[l] \in Nat /\ rest[l] < all
    BY <2>1, <2>2, Zenon
  <2> QED
    BY <2>3 DEF a
<1>4. floor \in [Lane -> Nat] /\ rest \in [Lane -> Nat]
  BY <1>3 DEF Whole, Left
<1>5. \A l \in Lane : /\ big[l] = all * floor[l] /\ big[l] \in Int
                      /\ due[l] = given * short[l] /\ due[l] \in Int
                      /\ due[l] = big[l] + rest[l]
  <2> HIDE DEF floor, rest
  <2> QED
    BY <1>2, <1>3
<1> HIDE DEF floor, rest, big, due
<1>6. Total(floor, Lane) \in Nat /\ Total(rest, Lane) \in Nat
  BY <1>4, ShortTotal
<1>7. Total(big, Lane) = all * Total(floor, Lane)
  <2>1. \A l \in Lane : floor[l] \in Int /\ big[l] = all * floor[l]
    BY <1>3, <1>5
  <2> QED
    BY <2>1, LanesFinite, TotalScale
<1>8. Total(due, Lane) = given * all
  <2>1. \A l \in Lane : short[l] \in Int /\ due[l] = given * short[l]
    BY <1>5
  <2> QED
    BY <2>1, LanesFinite, TotalScale
<1>9. Total(due, Lane) = Total(big, Lane) + Total(rest, Lane)
  <2>1. \A l \in Lane : big[l] \in Int /\ rest[l] \in Int /\ due[l] = big[l] + rest[l]
    BY <1>3, <1>5
  <2> QED
    BY <2>1, LanesFinite, TotalPlus
<1>10. all * Total(floor, Lane) + Total(rest, Lane) = given * all
  BY <1>7, <1>8, <1>9
<1> QED
  BY <1>3, <1>4, <1>6, <1>10 DEF floor, rest, Divided

\* What a distribution is when there is something to give and somebody to take it.
LEMMA DistributionChooses ==
    ASSUME NEW short \in [Lane -> Nat], NEW pot \in Nat, pot > 0,
           NEW all \in Nat, all = Total(short, Lane), all > 0,
           NEW given \in Nat, given = Least(pot, all),
           NEW alloc \in Distribution(short, pot)
    PROVE  \E L \in SUBSET Lane :
              /\ Cardinality(L) = given - Total(Whole(short, given, all), Lane)
              /\ \A s \in L, r \in Lane :
                    Left(short, given, all)[r] > Left(short, given, all)[s] => r \in L
              /\ alloc = [s \in Lane |-> Whole(short, given, all)[s] + Bonus(L)[s]]
<1>1. DOMAIN short = Lane /\ Sum(short, Lane) = all
  BY SumIsTotal
<1> DEFINE al == Sum(short, DOMAIN short)
           gv == Least(pot, al)
           floor == [s \in DOMAIN short |-> (gv * short[s]) \div al]
           rest == [s \in DOMAIN short |-> (gv * short[s]) % al]
           left == gv - Sum(floor, DOMAIN short)
           ahead(s) == {r \in DOMAIN short : rest[r] > rest[s]}
<1>2. alloc \in {[s \in DOMAIN short |-> floor[s] + IF s \in lucky THEN 1 ELSE 0] :
                  lucky \in {L \in kSubset(left, DOMAIN short) :
                                \A s \in L : ahead(s) \subseteq L}}
  <2>1. ~ (al = 0 \/ pot <= 0)
    BY <1>1
  <2> QED
    BY <2>1, Zenon DEF Distribution
<1>3. al = all /\ gv = given
  BY <1>1
<1>33. floor = Whole(short, given, all) /\ rest = Left(short, given, all)
  <2> HIDE DEF al, gv
  <2> QED
    BY <1>1, <1>3 DEF Whole, Left
<1>34. left = given - Sum(floor, Lane)
  BY <1>1, <1>3
<1> HIDE DEF floor, rest, left, al, gv
<1>4. PICK L \in kSubset(given - Sum(floor, Lane), Lane) :
         /\ \A s \in L : ahead(s) \subseteq L
         /\ alloc = [s \in Lane |-> floor[s] + IF s \in L THEN 1 ELSE 0]
  BY <1>1, <1>2, <1>34
<1>5. L \in SUBSET Lane /\ Cardinality(L) = given - Total(floor, Lane)
  BY <1>4, SumIsTotal DEF kSubset
<1>6. \A s \in L, r \in Lane : rest[r] > rest[s] => r \in L
  BY <1>1, <1>4
<1>7. alloc = [s \in Lane |-> floor[s] + Bonus(L)[s]]
  BY <1>4 DEF Bonus
<1> QED
  BY <1>33, <1>5, <1>6, <1>7

LEMMA DistributionNothing ==
    ASSUME NEW short \in [Lane -> Nat], NEW pot \in Int, NEW alloc \in Distribution(short, pot),
           Total(short, Lane) = 0 \/ pot <= 0
    PROVE  alloc = [l \in Lane |-> 0]
<1>1. DOMAIN short = Lane
  OBVIOUS
<1>2. Sum(short, DOMAIN short) = 0 \/ pot <= 0
  BY <1>1, SumIsTotal
<1>3. alloc \in {[s \in DOMAIN short |-> 0]}
  BY <1>2, Zenon DEF Distribution
<1> QED
  BY <1>1, <1>3

LEMMA LeastFacts ==
    ASSUME NEW a \in Nat, NEW b \in Nat
    PROVE  Least(a, b) \in Nat /\ Least(a, b) <= a /\ Least(a, b) <= b
  BY DEF Least

\* All that can be given is given.
LEMMA DistributionGives ==
    ASSUME NEW short \in [Lane -> Nat], NEW pot \in Nat, NEW alloc \in Distribution(short, pot)
    PROVE  /\ alloc \in [Lane -> Nat]
           /\ Total(alloc, Lane) = Least(pot, Total(short, Lane))
<1>1. PICK all \in Nat : all = Total(short, Lane)
  BY ShortTotal
<1>2. CASE all = 0 \/ pot = 0
  <2>1. alloc = [l \in Lane |-> 0]
    BY <1>1, <1>2, DistributionNothing
  <2>2. \A l \in Lane : alloc[l] = 0
    BY <2>1
  <2>3. Total(alloc, Lane) = 0
    BY <2>2, LanesFinite, TotalZeros
  <2>4. Least(pot, all) = 0
    BY <1>2 DEF Least
  <2> QED
    BY <1>1, <2>1, <2>3, <2>4
<1>3. CASE all > 0 /\ pot > 0
  <2>1. PICK given \in Nat : given = Least(pot, all)
    BY DEF Least
  <2> DEFINE floor == Whole(short, given, all)
  <2>2. PICK L \in SUBSET Lane :
           /\ Cardinality(L) = given - Total(floor, Lane)
           /\ alloc = [s \in Lane |-> floor[s] + Bonus(L)[s]]
    BY <1>1, <1>3, <2>1, DistributionChooses
  <2>3. floor \in [Lane -> Nat] /\ Total(floor, Lane) \in Nat
    BY <1>1, <1>3, <2>1, WholeAndLeft DEF Divided
  <2> DEFINE one == Bonus(L)
  <2>4. \A l \in Lane : one[l] = (IF l \in L THEN 1 ELSE 0) /\ one[l] \in Nat
    BY DEF Bonus
  <2> HIDE DEF floor, one
  <2>5. Total(one, Lane) = Cardinality(L)
    BY <2>4, LanesFinite, TotalCounts
  <2>6. \A l \in Lane : floor[l] \in Int /\ one[l] \in Int /\ alloc[l] = floor[l] + one[l] /\ alloc[l] \in Nat
    BY <2>2, <2>3, <2>4 DEF one
  <2>7. Total(alloc, Lane) = Total(floor, Lane) + Total(one, Lane)
    BY <2>6, LanesFinite, TotalPlus
  <2>8. Total(alloc, Lane) = given
    BY <2>2, <2>3, <2>5, <2>7
  <2>9. alloc \in [Lane -> Nat]
    BY <2>2, <2>6 DEF one
  <2> QED
    BY <1>1, <2>1, <2>8, <2>9
<1> QED
  BY <1>2, <1>3

\* Nobody gets more than it is short of, and the shares are as near to
\* proportional as whole units can be.
LEMMA DistributionProportional ==
    ASSUME NEW short \in [Lane -> Nat], NEW pot \in Nat, NEW alloc \in Distribution(short, pot),
           NEW all \in Nat, all = Total(short, Lane),
           NEW given \in Nat, given = Least(pot, all)
    PROVE  /\ \A l \in Lane : alloc[l] <= short[l]
           /\ \A l, k \in Lane :
                 (alloc[l] * all - given * short[l]) - (alloc[k] * all - given * short[k]) <= all
<1>1. CASE all = 0 \/ pot = 0
  <2>1. \A l \in Lane : alloc[l] = 0
    BY <1>1, DistributionNothing
  <2>2. given = 0
    BY <1>1 DEF Least
  <2> QED
    BY <2>1, <2>2
<1>2. CASE all > 0 /\ pot > 0
  <2> DEFINE floor == Whole(short, given, all)
             rest == Left(short, given, all)
  <2>1. PICK L \in SUBSET Lane :
           /\ Cardinality(L) = given - Total(floor, Lane)
           /\ \A s \in L, r \in Lane : rest[r] > rest[s] => r \in L
           /\ alloc = [s \in Lane |-> floor[s] + Bonus(L)[s]]
    BY <1>2, DistributionChooses
  <2>2. /\ floor \in [Lane -> Nat] /\ rest \in [Lane -> Nat]
        /\ \A l \in Lane : rest[l] < all /\ all * floor[l] + rest[l] = given * short[l]
        /\ Total(floor, Lane) \in Nat /\ Total(rest, Lane) \in Nat
        /\ all * Total(floor, Lane) + Total(rest, Lane) = given * all
    <3>1. Divided(short, given, all, floor, rest)
      BY <1>2, WholeAndLeft, Zenon
    <3> HIDE DEF floor, rest
    <3> QED
      BY <3>1 DEF Divided
  <2> HIDE DEF floor, rest
  <2>3. \A l \in Lane : alloc[l] = floor[l] + (IF l \in L THEN 1 ELSE 0)
    BY <2>1 DEF Bonus
  <2>4. given <= all
    BY LeastFacts
  <2>5. ASSUME NEW l \in Lane PROVE floor[l] <= short[l] /\ (floor[l] = short[l] => rest[l] = 0)
    <3>1. floor[l] \in Nat /\ short[l] \in Nat /\ rest[l] \in Nat
      BY <2>2
    <3>2. all * floor[l] + rest[l] = given * short[l]
      BY <2>2
    <3>3. given * short[l] <= all * short[l]
      BY <2>4, <3>1
    <3>4. all * floor[l] + rest[l] <= all * short[l]
      BY <3>1, <3>2, <3>3
    <3>5. ASSUME floor[l] >= short[l] + 1 PROVE FALSE
      <4>1. all * floor[l] >= all * (short[l] + 1)
        BY <3>1, <3>5
      <4>2. all * (short[l] + 1) = all * short[l] + all
        BY <3>1
      <4>3. all * floor[l] \in Nat /\ all * short[l] \in Nat /\ all * (short[l] + 1) \in Nat
        BY <3>1
      <4> QED
        BY <1>2, <3>1, <3>4, <4>1, <4>2, <4>3
    <3>6. floor[l] = short[l] => rest[l] = 0
      BY <3>1, <3>4
    <3> QED
      BY <3>1, <3>5, <3>6
  <2>6. ASSUME NEW l \in L, floor[l] = short[l] PROVE FALSE
    <3>1. rest[l] = 0 /\ l \in Lane
      BY <2>5, <2>6
    <3> DEFINE Z == {r \in Lane : rest[r] > 0}
               one == [r \in Lane |-> IF r \in Z THEN 1 ELSE 0]
               most == [r \in Lane |-> all * one[r]]
    <3>2. Z \subseteq L /\ l \notin Z /\ Z \in SUBSET Lane
      BY <2>1, <3>1
    <3>3. IsFiniteSet(L) /\ Z \in SUBSET L /\ Z # L
      BY <3>2, LanesFinite, FS_Subset
    <3>4. Cardinality(Z) <= Cardinality(L) /\ Cardinality(Z) # Cardinality(L) /\ IsFiniteSet(Z)
      <4> HIDE DEF Z
      <4> QED
        BY <3>3, FS_Subset
    <3>5. Cardinality(Z) \in Nat /\ Cardinality(L) \in Nat
      BY <3>3, <3>4, FS_CardinalityType
    <3>6. Cardinality(Z) + 1 <= Cardinality(L)
      BY <3>4, <3>5
    <3>7. \A r \in Lane : /\ one[r] = (IF r \in Z THEN 1 ELSE 0) /\ one[r] \in Int
                          /\ most[r] = all * one[r] /\ most[r] \in Int
                          /\ rest[r] \in Int /\ rest[r] <= most[r]
      BY <2>2
    <3> HIDE DEF Z, one, most
    <3>8. Total(one, Lane) = Cardinality(Z)
      BY <3>2, <3>7, LanesFinite, TotalCounts
    <3>9. Total(most, Lane) = all * Total(one, Lane)
      <4>1. \A r \in Lane : one[r] \in Int /\ most[r] = all * one[r]
        BY <3>7
      <4>2. all \in Int
        OBVIOUS
      <4> QED
        BY <4>1, <4>2, LanesFinite, TotalScale, SMT
    <3>10. Total(rest, Lane) <= Total(most, Lane)
      BY <3>7, LanesFinite, TotalMonotonic
    <3>11. all * Total(floor, Lane) + Total(rest, Lane) <= all * Total(floor, Lane) + all * Cardinality(Z)
      BY <2>2, <3>5, <3>8, <3>9, <3>10
    <3>12. PICK F \in Nat : F = Total(floor, Lane)
      BY <2>2
    <3>13. PICK c \in Nat : c = Cardinality(Z)
      BY <3>5
    <3>14. given * all <= all * F + all * c
      BY <2>2, <3>11, <3>12, <3>13
    <3>15. c + 1 <= given - F
      BY <2>1, <3>6, <3>12, <3>13
    <3>16. all * (F + c + 1) <= all * given
      BY <3>15
    <3>17. all * (F + c + 1) = all * F + all * c + all
      OBVIOUS
    <3> QED
      BY <1>2, <3>14, <3>16, <3>17
  <2>7. ASSUME NEW l \in Lane PROVE alloc[l] <= short[l]
    <3>1. floor[l] \in Nat /\ short[l] \in Nat /\ floor[l] <= short[l]
      BY <2>2, <2>5
    <3>2. l \in L => floor[l] # short[l]
      BY <2>6
    <3> QED
      BY <2>3, <3>1, <3>2
  <2>8. ASSUME NEW l \in Lane
        PROVE  alloc[l] * all - given * short[l] = (IF l \in L THEN all ELSE 0) - rest[l]
    <3>1. floor[l] \in Nat /\ rest[l] \in Nat /\ all * floor[l] + rest[l] = given * short[l]
      BY <2>2
    <3>2. (floor[l] + 1) * all = all * floor[l] + all /\ floor[l] * all = all * floor[l]
      BY <3>1
    <3>3. all * floor[l] \in Nat
      BY <3>1
    <3>4. CASE l \in L
      <4>1. alloc[l] * all = all * floor[l] + all
        BY <2>3, <3>2, <3>4
      <4> QED
        BY <3>1, <3>3, <3>4, <4>1
    <3>5. CASE l \notin L
      <4>1. alloc[l] * all = all * floor[l]
        BY <2>3, <3>1, <3>2, <3>5
      <4> QED
        BY <3>1, <3>3, <3>5, <4>1
    <3> QED
      BY <3>4, <3>5
  <2>9. ASSUME NEW l \in Lane, NEW k \in Lane
        PROVE  (alloc[l] * all - given * short[l]) - (alloc[k] * all - given * short[k]) <= all
    <3>1. rest[l] \in Nat /\ rest[k] \in Nat /\ rest[l] < all /\ rest[k] < all
      BY <2>2
    <3>2. l \in L /\ k \notin L => rest[k] <= rest[l]
      BY <2>1, <3>1
    <3>3. ((IF l \in L THEN all ELSE 0) - rest[l]) - ((IF k \in L THEN all ELSE 0) - rest[k]) <= all
      BY <3>1, <3>2
    <3> QED
      BY <2>8, <3>3
  <2> QED
    BY <2>7, <2>9
<1> QED
  BY <1>1, <1>2

(* plan_distribution shares any pot fairly among any lanes, whatever each is *)
(* short of: all of it goes out or every lane is full, no lane gets more     *)
(* than it is short of, and no unit could be moved to bring the shares       *)
(* nearer to proportional.                                                   *)
THEOREM AnyDistributionIsFair ==
    ASSUME NEW short \in [Lane -> Nat], NEW pot \in Nat, NEW alloc \in Distribution(short, pot)
    PROVE  LET all == Sum(short, Lane)
               off(l) == alloc[l] * all - Least(pot, all) * short[l]
           IN  /\ Sum(alloc, Lane) = Least(pot, all)
               /\ \A l \in Lane : alloc[l] \in 0..short[l]
               /\ \A l, k \in Lane : l # k => off(l) - off(k) <= all
<1>1. PICK all \in Nat : all = Total(short, Lane)
  BY ShortTotal
<1>2. PICK given \in Nat : given = Least(pot, all)
  BY DEF Least
<1>3. Sum(short, Lane) = all /\ Sum(alloc, Lane) = Total(alloc, Lane)
  BY <1>1, SumIsTotal
<1>4. alloc \in [Lane -> Nat] /\ Total(alloc, Lane) = given
  BY <1>1, <1>2, DistributionGives
<1>5. /\ \A l \in Lane : alloc[l] <= short[l]
      /\ \A l, k \in Lane :
            (alloc[l] * all - given * short[l]) - (alloc[k] * all - given * short[k]) <= all
  BY <1>1, <1>2, DistributionProportional
<1>6. \A l \in Lane : alloc[l] \in 0..short[l]
  BY <1>4, <1>5
<1> QED
  BY <1>2, <1>3, <1>4, <1>5, <1>6

-----------------------------------------------------------------------------
(* Types.                                                                    *)

\* Rows of the log, and sales: who, how much, and no id twice.
IsLog(R) ==
    /\ IsFiniteSet(R)
    /\ \A r \in R : r.from \in Sleeve /\ r.to \in Sleeve \ {r.from} /\ r.amount \in Nat \ {0}
    /\ \A r, q \in R : r.id = q.id => r = q

IsSales(S) ==
    /\ IsFiniteSet(S)
    /\ \A x \in S : x.fill \in Fill /\ x.lane \in Lane /\ x.amount \in Nat \ {0}
    /\ \A x, y \in S : x.fill = y.fill => x = y

\* A transaction knows its sale, and the book it has read is one.
IsTx(x) ==
    /\ x.job \in Job \cup {"none"}
    /\ x.job # "none" => IsBook(x.book)
    /\ x.job \in Fill => \E y \in sold : y.fill = x.job

Typed ==
    /\ actual \in [Sleeve -> Int] /\ target \in [Lane -> Nat]
    /\ IsLog(ledger) /\ IsSales(sold)
    /\ tx = [t \in Tx |-> tx[t]] /\ \A t \in Tx : IsTx(tx[t])
    /\ book # NoBook => IsBook(book)
    /\ deployed \in [Lane -> Nat] /\ working \in [Lane -> Nat]

LEMMA TypedIsTypeOK == Typed => TypeOK
  BY DEF Typed, TypeOK, IsLog, IsTx

LEMMA CurrentBook == Typed => IsBook(Book)
  BY DEF Typed, IsBook, Book

-----------------------------------------------------------------------------
(* What a transaction commits.                                               *)

\* A sale moves some of what it freed, once: at most its own amount, at most
\* the excess in the book it read.
SaleMoves(t, r, had) ==
    LET x == tx[t]
    IN  /\ \E y \in sold : /\ y.fill = x.job /\ r.id = <<y.fill, y.lane>> /\ r.from = y.lane
                          /\ r.amount <= y.amount
        /\ r.from \in Lane /\ r.to \in Sleeve \ {r.from} /\ r.amount \in Nat \ {0}
        /\ r.amount <= x.book.actual[r.from]
        /\ \A q \in ledger : q.id # r.id
        /\ had \in {x.book.actual, actual}
        /\ ledger' = ledger \cup {r}
        /\ actual' = [actual EXCEPT ![r.from] = had[r.from] - r.amount,
                                    ![r.to] = had[r.to] + r.amount]
        /\ raced' = raced
              \cup {w \in {"overwrite"} : \E s \in {r.from, r.to} : had[s] # actual[s]}
              \cup {w \in {"stale"} : \E s \in {r.from, r.to} : x.book.actual[s] # actual[s]}

LEMMA SaleRow ==
    ASSUME Typed, NEW b, IsBook(b), NEW y \in sold, NEW r \in SaleRows(y, b)
    PROVE  /\ SaleRows(y, b) = {r}
           /\ r.id = <<y.fill, y.lane>> /\ r.from = y.lane /\ r.to \in Sleeve \ {y.lane}
           /\ r.amount \in Nat \ {0} /\ r.amount <= y.amount /\ r.amount <= b.actual[y.lane]
<1> DEFINE freed == Least(y.amount, MustReduce(b, y.lane))
           room == IF Recipient \in Lane THEN Headroom(b, Recipient) ELSE 0
           to == IF room > 0 THEN Recipient ELSE Unallocated
           amount == IF room > 0 THEN Least(freed, room) ELSE freed
<1>1. y.lane \in Lane /\ y.amount \in Nat \ {0}
  BY DEF Typed, IsSales
<1>2. MustReduce(b, y.lane) \in Nat /\ (MustReduce(b, y.lane) > 0 => MustReduce(b, y.lane) <= b.actual[y.lane])
  BY <1>1, ExcessOrRoom
<1>3. /\ freed \in Nat /\ freed <= y.amount /\ freed <= MustReduce(b, y.lane)
  BY <1>1, <1>2 DEF Least
<1>4. room \in Nat /\ (room > 0 => Recipient \in Lane /\ room = Headroom(b, Recipient))
  BY ExcessOrRoom
<1>5. amount \in Nat /\ amount <= freed
  <2> HIDE DEF freed, room
  <2> QED
    BY <1>3, <1>4 DEF Least
<1>6. to \in Sleeve
  BY SleevesAssumption DEF Sleeve
<1>7. SaleRows(y, b) = IF amount = 0 THEN {} ELSE {Row(<<y.fill, y.lane>>, y.lane, to, amount)}
  BY DEF SaleRows
<1> HIDE DEF amount, to, freed
<1>8. amount # 0 /\ r = Row(<<y.fill, y.lane>>, y.lane, to, amount)
  BY <1>7
<1>9. to # y.lane
  <2>1. MustReduce(b, y.lane) > 0 /\ Headroom(b, y.lane) = 0
    BY <1>1, <1>2, <1>3, <1>5, <1>8, ExcessOrRoom
  <2>2. Unallocated # y.lane
    BY <1>1, SleevesAssumption
  <2>3. CASE room > 0
    BY <1>4, <2>1, <2>3 DEF to
  <2>4. CASE ~ (room > 0)
    BY <2>2, <2>4 DEF to
  <2> QED
    BY <2>3, <2>4
<1>10. amount <= b.actual[y.lane]
  <2>1. b.actual[y.lane] \in Int
    BY <1>1 DEF IsBook, Sleeve
  <2> QED
    BY <1>2, <1>3, <1>5, <1>8, <2>1
<1> QED
  BY <1>1, <1>3, <1>5, <1>6, <1>7, <1>8, <1>9, <1>10 DEF Row

LEMMA SaleStep ==
    ASSUME Typed, NEW t \in Tx, CommitSale(t)
    PROVE  \/ UNCHANGED <<actual, ledger, raced>>
           \/ \E r, had : SaleMoves(t, r, had)
<1>1. IsTx(tx[t]) /\ tx[t].job \in Fill /\ tx[t].job # "none"
  BY SleevesAssumption DEF Typed, CommitSale, Job
<1> DEFINE y == SaleOf(tx[t].job)
           b == tx[t].book
<1>2. y \in sold /\ y.fill = tx[t].job
  BY <1>1 DEF IsTx, SaleOf
<1>3. IsBook(b)
  BY <1>1 DEF IsTx
<1> HIDE DEF y, b
<1>4. \E rows \in {SaleRows(y, b)} :
      \E had \in {b.actual, actual} :
          IF rows = {} \/ Duplicate(rows)
          THEN UNCHANGED <<actual, ledger, raced>>
          ELSE \E r \in rows :
                 /\ ledger' = ledger \cup {r}
                 /\ actual' = [actual EXCEPT ![r.from] = had[r.from] - r.amount,
                                             ![r.to] = had[r.to] + r.amount]
                 /\ raced' = raced
                       \cup {x \in {"overwrite"} : \E s \in {r.from, r.to} : had[s] # actual[s]}
                       \cup {x \in {"stale"} : \E s \in {r.from, r.to} : tx[t].book.actual[s] # actual[s]}
  BY DEF CommitSale, y, b
<1>5. PICK had \in {b.actual, actual} :
          IF SaleRows(y, b) = {} \/ Duplicate(SaleRows(y, b))
          THEN UNCHANGED <<actual, ledger, raced>>
          ELSE \E r \in SaleRows(y, b) :
                 /\ ledger' = ledger \cup {r}
                 /\ actual' = [actual EXCEPT ![r.from] = had[r.from] - r.amount,
                                             ![r.to] = had[r.to] + r.amount]
                 /\ raced' = raced
                       \cup {x \in {"overwrite"} : \E s \in {r.from, r.to} : had[s] # actual[s]}
                       \cup {x \in {"stale"} : \E s \in {r.from, r.to} : tx[t].book.actual[s] # actual[s]}
  BY <1>4
<1>6. CASE SaleRows(y, b) = {} \/ Duplicate(SaleRows(y, b))
  BY <1>5, <1>6
<1>7. CASE SaleRows(y, b) # {} /\ ~ Duplicate(SaleRows(y, b))
  <2>1. PICK r \in SaleRows(y, b) :
                 /\ ledger' = ledger \cup {r}
                 /\ actual' = [actual EXCEPT ![r.from] = had[r.from] - r.amount,
                                             ![r.to] = had[r.to] + r.amount]
                 /\ raced' = raced
                       \cup {x \in {"overwrite"} : \E s \in {r.from, r.to} : had[s] # actual[s]}
                       \cup {x \in {"stale"} : \E s \in {r.from, r.to} : tx[t].book.actual[s] # actual[s]}
    BY <1>5, <1>7
  <2>2. /\ r.id = <<y.fill, y.lane>> /\ r.from = y.lane /\ r.to \in Sleeve \ {y.lane}
        /\ r.amount \in Nat \ {0} /\ r.amount <= y.amount /\ r.amount <= b.actual[y.lane]
    BY <1>2, <1>3, SaleRow
  <2>3. \A q \in ledger : q.id # r.id
    BY <1>7 DEF Duplicate
  <2>4. y.lane \in Lane
    BY <1>2 DEF Typed, IsSales
  <2>5. SaleMoves(t, r, had)
    BY <1>2, <2>1, <2>2, <2>3, <2>4 DEF SaleMoves, b
  <2> QED
    BY <2>5
<1> QED
  BY <1>6, <1>7

\* The rows a run writes for an allocation.
RowsOf(r, alloc) == {Row(<<r, l>>, Unallocated, l, alloc[l]) : l \in {k \in Lane : alloc[k] > 0}}

LEMMA RowsOfRun ==
    ASSUME NEW r, NEW alloc \in [Lane -> Nat]
    PROVE  /\ IsLog(RowsOf(r, alloc))
           /\ \A q \in RowsOf(r, alloc) : q.from = Unallocated /\ q.to \in Lane /\ q.id = <<r, q.to>>
           /\ Amount(RowsOf(r, alloc)) = Total(alloc, Lane)
           /\ \A l \in Lane : Amount({q \in RowsOf(r, alloc) : q.to = l}) = alloc[l]
<1> DEFINE K == {k \in Lane : alloc[k] > 0}
           row == [l \in K |-> Row(<<r, l>>, Unallocated, l, alloc[l])]
           rows == {row[l] : l \in K}
           f == [q \in rows |-> q.amount]
<1>1. RowsOf(r, alloc) = rows
  BY DEF RowsOf
<1>2. \A l \in K : /\ row[l].id = <<r, l>> /\ row[l].from = Unallocated
                   /\ row[l].to = l /\ row[l].amount = alloc[l] /\ l \in Lane /\ alloc[l] \in Nat \ {0}
  BY DEF Row
<1>3. IsFiniteSet(K) /\ K \in SUBSET Lane
  BY LanesFinite, FS_Subset
<1>4. \A l, k \in K : row[l] = row[k] => l = k
  <2> SUFFICES ASSUME NEW l \in K, NEW k \in K, row[l] = row[k] PROVE l = k
    OBVIOUS
  <2>1. row[l].to = l /\ row[k].to = k
    BY <1>2
  <2> QED
    BY <2>1
<1>5. \A l \in K : alloc[l] \in Int /\ f[row[l]] = alloc[l]
  BY <1>2
<1>6. \A q \in rows : \E l \in K : q = row[l]
  OBVIOUS
<1>66. Amount(rows) = Total(f, rows)
  BY SumIsTotal DEF Amount
<1>67. \A l \in K : row[l] \in rows
  OBVIOUS
<1>7. IsFiniteSet(rows) /\ Total(f, rows) = Total(alloc, K)
  <2> HIDE DEF f, row, K, rows
  <2> QED
    BY <1>3, <1>4, <1>5, <1>6, <1>67, TotalOfImages
<1>8. Total(alloc, K) = Total(alloc, Lane)
  <2>1. \A x \in Lane : alloc[x] \in Int
    OBVIOUS
  <2>2. \A x \in Lane \ K : alloc[x] = 0
    OBVIOUS
  <2> HIDE DEF K
  <2> QED
    BY <1>3, <2>1, <2>2, LanesFinite, TotalSupport
<1> HIDE DEF K, row, rows, f
<1>9. IsLog(rows)
  BY <1>2, <1>6, <1>7, SleevesAssumption DEF IsLog, Sleeve
<1>10. \A q \in rows : q.from = Unallocated /\ q.to \in Lane /\ q.id = <<r, q.to>>
  BY <1>2, <1>6
<1>11. ASSUME NEW l \in Lane PROVE Amount({q \in rows : q.to = l}) = alloc[l]
  <2>1. CASE l \in K
    <3>1. {q \in rows : q.to = l} = {row[l]}
      BY <1>2, <1>6, <1>67, <2>1
    <3> QED
      BY <1>2, <2>1, <3>1, AmountOne
  <2>2. CASE l \notin K
    <3>1. {q \in rows : q.to = l} = {}
      BY <1>2, <1>6, <2>2
    <3>2. alloc[l] = 0
      BY <2>2 DEF K
    <3> QED
      BY <3>1, <3>2, AmountEmpty
  <2> QED
    BY <2>1, <2>2
<1> QED
  BY <1>1, <1>66, <1>7, <1>8, <1>9, <1>10, <1>11

\* A run moves what its plan allots, adding to and taking from what is there.
RunMoves(t, r, alloc) ==
    LET pot == tx[t].book.actual[Unallocated]
    IN  /\ r \in Run /\ alloc \in [Lane -> Nat]
        /\ pot \in Int
        /\ Total(alloc, Lane) \in Nat /\ (Total(alloc, Lane) > 0 => Total(alloc, Lane) <= pot)
        /\ \A q \in RowsOf(r, alloc), k \in ledger : q.id # k.id
        /\ ledger' = ledger \cup RowsOf(r, alloc)
        /\ actual' = [s \in Sleeve |->
              IF s \in Lane THEN actual[s] + alloc[s] ELSE actual[s] - Total(alloc, Lane)]
        /\ raced' = IF RowsOf(r, alloc) = {} \/ actual[Unallocated] >= pot
                    THEN raced ELSE raced \cup {"spent"}

LEMMA RunStep ==
    ASSUME Typed, NEW t \in Tx, CommitRun(t)
    PROVE  \/ UNCHANGED <<actual, ledger, raced>>
           \/ \E r, alloc : RunMoves(t, r, alloc)
<1> DEFINE r == tx[t].job
           b == tx[t].book
           pot == b.actual[Unallocated]
<1>1. r \in Run /\ IsBook(b)
  BY SleevesAssumption DEF Typed, CommitRun, Job, IsTx
<1>2. pot \in Int
  BY <1>1 DEF IsBook, Sleeve
<1>3. Short(b) \in [Lane -> Nat]
  BY <1>1, ExcessOrRoom DEF Short
<1>4. PICK rows \in RunRows(r, b) :
          IF Duplicate(rows)
             THEN UNCHANGED <<actual, ledger, raced>>
             ELSE /\ ledger' = ledger \cup rows
                  /\ actual' = [s \in Sleeve |->
                        actual[s] + Amount({q \in rows : q.to = s})
                                  - Amount({q \in rows : q.from = s})]
                  /\ raced' = IF rows = {} \/ actual[Unallocated] >= pot
                              THEN raced ELSE raced \cup {"spent"}
  BY DEF CommitRun
<1>5. PICK alloc \in Distribution(Short(b), pot) : rows = RowsOf(r, alloc)
  BY <1>4 DEF RunRows, RowsOf
<1>6. alloc \in [Lane -> Nat] /\ Total(alloc, Lane) \in Nat
      /\ (Total(alloc, Lane) > 0 => Total(alloc, Lane) <= pot)
  <2>1. CASE pot <= 0
    <3>1. alloc = [l \in Lane |-> 0]
      BY <1>2, <1>3, <2>1, DistributionNothing
    <3>2. \A l \in Lane : alloc[l] = 0
      BY <3>1
    <3>3. Total(alloc, Lane) = 0
      BY <3>2, LanesFinite, TotalZeros
    <3> QED
      BY <3>1, <3>3
  <2>2. CASE pot \in Nat
    <3>1. PICK all \in Nat : all = Total(Short(b), Lane)
      BY <1>3, ShortTotal
    <3>2. alloc \in [Lane -> Nat] /\ Total(alloc, Lane) = Least(pot, all)
      BY <1>3, <2>2, <3>1, DistributionGives
    <3>3. Least(pot, all) \in Nat /\ Least(pot, all) <= pot
      BY <2>2 DEF Least
    <3> QED
      BY <3>2, <3>3
  <2> QED
    BY <1>2, <2>1, <2>2
<1>7. CASE Duplicate(rows)
  BY <1>4, <1>7
<1>8. CASE ~ Duplicate(rows)
  <2>1. \A q \in rows, k \in ledger : q.id # k.id
    BY <1>8 DEF Duplicate
  <2>2. /\ \A q \in rows : q.from = Unallocated /\ q.to \in Lane
        /\ Amount(rows) = Total(alloc, Lane)
        /\ \A l \in Lane : Amount({q \in rows : q.to = l}) = alloc[l]
    BY <1>5, <1>6, RowsOfRun
  <2>3. ASSUME NEW s \in Sleeve
        PROVE  /\ Amount({q \in rows : q.to = s}) = IF s \in Lane THEN alloc[s] ELSE 0
               /\ Amount({q \in rows : q.from = s}) = IF s \in Lane THEN 0 ELSE Total(alloc, Lane)
    <3>1. CASE s \in Lane
      <4>1. {q \in rows : q.from = s} = {}
        BY <2>2, <3>1, SleevesAssumption
      <4> QED
        BY <2>2, <3>1, <4>1, AmountEmpty
    <3>2. CASE s \notin Lane
      <4>1. s = Unallocated
        BY <3>2 DEF Sleeve
      <4>2. {q \in rows : q.from = s} = rows /\ {q \in rows : q.to = s} = {}
        BY <2>2, <3>2, <4>1
      <4> QED
        BY <2>2, <3>2, <4>2, AmountEmpty
    <3> QED
      BY <3>1, <3>2
  <2>4. \A s \in Sleeve : actual[s] \in Int
    BY DEF Typed
  <2>5. actual' = [s \in Sleeve |->
              IF s \in Lane THEN actual[s] + alloc[s] ELSE actual[s] - Total(alloc, Lane)]
    <3>1. \A s \in Sleeve :
             actual[s] + Amount({q \in rows : q.to = s}) - Amount({q \in rows : q.from = s})
               = IF s \in Lane THEN actual[s] + alloc[s] ELSE actual[s] - Total(alloc, Lane)
      BY <1>6, <2>3, <2>4
    <3> QED
      BY <1>4, <1>8, <3>1
  <2>6. RunMoves(t, r, alloc)
    BY <1>1, <1>2, <1>4, <1>5, <1>6, <1>8, <2>1, <2>5 DEF RunMoves
  <2> QED
    BY <2>6
<1> QED
  BY <1>7, <1>8

-----------------------------------------------------------------------------
(* Type correctness.                                                         *)

LEMMA TypedInit == Init => Typed
<1> SUFFICES ASSUME Init PROVE Typed
  OBVIOUS
<1>1. actual \in [Sleeve -> Int] /\ target \in [Lane -> Nat]
  BY SleevesAssumption DEF Init
<1>2. IsLog(ledger) /\ IsSales(sold)
  BY FS_EmptySet DEF Init, IsLog, IsSales
<1>3. tx = [t \in Tx |-> tx[t]] /\ \A t \in Tx : IsTx(tx[t])
  BY SleevesAssumption DEF Init, IsTx, Idle, Job
<1> QED
  BY <1>1, <1>2, <1>3 DEF Init, Typed

\* Ending a transaction leaves the others what they were.
LEMMA TxEnds ==
    ASSUME Typed, NEW t \in Tx, tx' = [tx EXCEPT ![t] = Idle], sold' = sold
    PROVE  tx' = [q \in Tx |-> tx'[q]] /\ \A q \in Tx : IsTx(tx[q])'
<1>1. \A q \in Tx : tx'[q] = IF q = t THEN Idle ELSE tx[q]
  BY DEF Typed
<1>2. ASSUME NEW q \in Tx PROVE IsTx(tx[q])'
  <2>1. CASE q = t
    BY <1>1, <2>1, SleevesAssumption DEF IsTx, Idle, Job
  <2>2. CASE q # t
    BY <1>1, <2>2 DEF IsTx, Typed, IsBook
  <2> QED
    BY <2>1, <2>2
<1> QED
  BY <1>2 DEF Typed

\* A log stays one when rows with new ids are added.
LEMMA LogGrows ==
    ASSUME NEW R, NEW Q, IsLog(R), IsLog(Q), \A r \in R, q \in Q : q.id # r.id
    PROVE  IsLog(R \cup Q)
  BY FS_Union DEF IsLog

LEMMA CommittedTyped ==
    ASSUME Typed, NEW t \in Tx, CommitSale(t) \/ CommitRun(t)
    PROVE  actual' \in [Sleeve -> Int] /\ IsLog(ledger')
<1>1. CASE UNCHANGED <<actual, ledger, raced>>
  BY <1>1 DEF Typed
<1>2. ASSUME NEW r, NEW had, SaleMoves(t, r, had), CommitSale(t)
      PROVE  actual' \in [Sleeve -> Int] /\ IsLog(ledger')
  <2>1. tx[t].book.actual \in [Sleeve -> Int]
    BY <1>2, SleevesAssumption DEF CommitSale, Typed, IsTx, IsBook, Job
  <2>2. had \in [Sleeve -> Int] /\ r.from \in Sleeve /\ r.to \in Sleeve /\ r.amount \in Nat
    BY <1>2, <2>1 DEF SaleMoves, Typed, Sleeve
  <2>3. had[r.from] - r.amount \in Int /\ had[r.to] + r.amount \in Int
    BY <2>2
  <2>4. actual' \in [Sleeve -> Int]
    BY <1>2, <2>2, <2>3 DEF SaleMoves, Typed
  <2>5. IsLog({r})
    BY <1>2, <2>2, FS_Singleton DEF SaleMoves, IsLog
  <2>6. IsLog(ledger')
    BY <1>2, <2>5, LogGrows DEF SaleMoves, Typed
  <2> QED
    BY <2>4, <2>6
<1>3. ASSUME NEW r, NEW alloc, RunMoves(t, r, alloc)
      PROVE  actual' \in [Sleeve -> Int] /\ IsLog(ledger')
  <2>1. alloc \in [Lane -> Nat] /\ Total(alloc, Lane) \in Nat
    BY <1>3 DEF RunMoves
  <2>2. \A s \in Sleeve : actual[s] \in Int
    BY DEF Typed
  <2>3. actual' \in [Sleeve -> Int]
    BY <1>3, <2>1, <2>2 DEF RunMoves
  <2>4. IsLog(RowsOf(r, alloc))
    BY <2>1, RowsOfRun
  <2>5. IsLog(ledger')
    BY <1>3, <2>4, LogGrows DEF RunMoves, Typed
  <2> QED
    BY <2>3, <2>5
<1> QED
  BY <1>1, <1>2, <1>3, SaleStep, RunStep

LEMMA TypedStep == ASSUME Typed, [Next]_vars PROVE Typed'
<1>1. ASSUME NEW t \in Tx, NEW job \in Job, Begin(t, job) PROVE Typed'
  <2>1. tx' = [tx EXCEPT ![t] = [job |-> job, book |-> Book]] /\ sold' = sold
        /\ (job \in Run \/ \E x \in sold : x.fill = job)
    BY <1>1 DEF Begin, market
  <2>2. \A q \in Tx : tx'[q] = IF q = t THEN [job |-> job, book |-> Book] ELSE tx[q]
    BY <2>1 DEF Typed
  <2>3. ASSUME NEW q \in Tx PROVE IsTx(tx[q])'
    <3>1. CASE q = t
      <4>1. IsBook(Book)
        BY CurrentBook
      <4>2. tx'[q].job = job /\ tx'[q].book = Book
        BY <2>2, <3>1
      <4>3. tx'[q].job \in Fill => \E x \in sold' : x.fill = tx'[q].job
        BY <2>1, <4>2, SleevesAssumption
      <4> QED
        BY <4>1, <4>2, <4>3 DEF IsTx, IsBook
    <3>2. CASE q # t
      BY <2>1, <2>2, <3>2 DEF IsTx, Typed, IsBook
    <3> QED
      BY <3>1, <3>2
  <2>4. tx' = [q \in Tx |-> tx'[q]]
    BY <2>1 DEF Typed
  <2> QED
    BY <1>1, <2>3, <2>4 DEF Begin, market, Typed, IsBook, IsSales, IsLog
<1>2. ASSUME NEW t \in Tx, CommitSale(t) \/ CommitRun(t) PROVE Typed'
  <2>1. tx' = [tx EXCEPT ![t] = Idle] /\ UNCHANGED <<target, market>>
    BY <1>2 DEF CommitSale, CommitRun
  <2>2. tx' = [q \in Tx |-> tx'[q]] /\ \A q \in Tx : IsTx(tx[q])'
    BY <2>1, TxEnds DEF market
  <2>3. actual' \in [Sleeve -> Int] /\ IsLog(ledger')
    BY <1>2, CommittedTyped
  <2> QED
    BY <2>1, <2>2, <2>3 DEF market, Typed, IsBook, IsSales
<1>3. ASSUME NEW t \in Tx, Fails(t) PROVE Typed'
  <2>1. tx' = [tx EXCEPT ![t] = Idle] /\ UNCHANGED <<actual, target, ledger, market>>
    BY <1>3 DEF Fails
  <2>2. tx' = [q \in Tx |-> tx'[q]] /\ \A q \in Tx : IsTx(tx[q])'
    BY <2>1, TxEnds DEF market
  <2> QED
    BY <2>1, <2>2 DEF market, Typed, IsBook, IsSales, IsLog
<1>4. ASSUME NEW l \in Lane, NEW n \in 0..MaxUnits, Retarget(l, n) PROVE Typed'
  <2>1. n \in Nat
    BY SleevesAssumption
  <2> QED
    BY <1>4, <2>1 DEF Retarget, market, Typed, IsBook, IsSales, IsLog, IsTx
<1>5. ASSUME NEW l \in Lane, NEW n \in 1..MaxOrder, SubmitEntry(l, n) \/ SubmitUnchecked(l, n) PROVE Typed'
  <2>1. n \in Nat /\ working' = [working EXCEPT ![l] = @ + n] /\ UNCHANGED <<capital, sold, deployed>>
    BY <1>5, SleevesAssumption DEF SubmitEntry, SubmitUnchecked
  <2>2. book' # NoBook => IsBook(book')
    <3>1. book' = book \/ book' = Book
      BY <1>5 DEF SubmitEntry, SubmitUnchecked
    <3> QED
      BY <3>1, CurrentBook DEF Typed
  <2> QED
    BY <2>1, <2>2 DEF capital, Typed, IsBook, IsSales, IsLog, IsTx
<1>6. ASSUME NEW l \in Lane, NEW n \in 1..MaxOrder, NEW f \in Fill, Sell(l, f, n) PROVE Typed'
  <2> DEFINE y == [fill |-> f, lane |-> l, amount |-> n]
  <2>1. /\ f \notin {x.fill : x \in sold} /\ n \in 1..deployed[l]
        /\ sold' = sold \cup {y}
        /\ deployed' = [deployed EXCEPT ![l] = @ - n]
        /\ UNCHANGED <<capital, working, book>>
    BY <1>6 DEF Sell
  <2>2. y.fill = f /\ y.lane = l /\ y.amount = n /\ n \in Nat \ {0}
    BY <2>1
  <2> HIDE DEF y
  <2>3. IsSales(sold')
    <3>1. IsFiniteSet(sold')
      BY <2>1, FS_AddElement DEF Typed, IsSales
    <3> QED
      BY <2>1, <2>2, <3>1 DEF Typed, IsSales
  <2>4. deployed[l] \in Nat /\ deployed[l] - n \in Nat
    BY <2>1, <2>2 DEF Typed
  <2>5. deployed' \in [Lane -> Nat]
    BY <2>1, <2>4 DEF Typed
  <2>6. \A q \in Tx : IsTx(tx[q])'
    BY <2>1 DEF capital, Typed, IsTx, IsBook
  <2> QED
    BY <2>1, <2>3, <2>5, <2>6 DEF capital, Typed, IsBook, IsLog
<1>7. ASSUME NEW l \in Lane, EntryFills(l) \/ EntryRejected(l) PROVE Typed'
  <2>1. working[l] \in Nat /\ deployed[l] \in Nat
    BY DEF Typed
  <2>2. /\ deployed' \in [Lane -> Nat] /\ working' \in [Lane -> Nat]
        /\ UNCHANGED <<capital, sold, book>>
    BY <1>7, <2>1 DEF EntryFills, EntryRejected, Typed
  <2> QED
    BY <2>2 DEF capital, Typed, IsBook, IsSales, IsLog, IsTx
<1>8. CASE BookExpires
  BY <1>8 DEF BookExpires, capital, Typed, IsBook, IsSales, IsLog, IsTx
<1>9. CASE UNCHANGED vars
  BY <1>9 DEF vars, Typed, IsBook, IsSales, IsLog, IsTx
<1> QED
  BY <1>1, <1>2, <1>3, <1>4, <1>5, <1>6, <1>7, <1>8, <1>9 DEF Next

\* Balances, targets, the log and what lanes hold keep their types; no two
\* rows of the log have one id.
THEOREM TypeCorrect == Spec => []TypeOK
<1>1. Init => Typed
  BY TypedInit
<1>2. Typed /\ [Next]_vars => Typed'
  BY TypedStep
<1>3. Typed => TypeOK
  BY TypedIsTypeOK
<1> QED
  BY <1>1, <1>2, <1>3, PTL DEF Spec

-----------------------------------------------------------------------------
(* The log explains the balances.                                            *)

\* Rows with new ids add their amounts to what has moved to and from a sleeve.
LEMMA MovedGrows ==
    ASSUME Typed, NEW Q, IsLog(Q), \A r \in ledger, q \in Q : q.id # r.id,
           ledger' = ledger \cup Q, NEW s
    PROVE  Moved(s)' = Moved(s) + Amount({q \in Q : q.to = s}) - Amount({q \in Q : q.from = s})
<1> DEFINE to == {r \in ledger : r.to = s}
           from == {r \in ledger : r.from = s}
           qto == {q \in Q : q.to = s}
           qfrom == {q \in Q : q.from = s}
<1>1. /\ IsFiniteSet(to) /\ IsFiniteSet(from) /\ IsFiniteSet(qto) /\ IsFiniteSet(qfrom)
  <2>1. to \in SUBSET ledger /\ from \in SUBSET ledger /\ qto \in SUBSET Q /\ qfrom \in SUBSET Q
    OBVIOUS
  <2> HIDE DEF to, from, qto, qfrom
  <2> QED
    BY <2>1, FS_Subset DEF Typed, IsLog
<1>2. /\ to \cap qto = {} /\ from \cap qfrom = {}
  OBVIOUS
<1>3. /\ {r \in ledger' : r.to = s} = to \cup qto
      /\ {r \in ledger' : r.from = s} = from \cup qfrom
  OBVIOUS
<1>4. /\ \A r \in to \cup qto : r.amount \in Nat
      /\ \A r \in from \cup qfrom : r.amount \in Nat
  BY DEF Typed, IsLog
<1>5. Moved(s) = Amount(to) - Amount(from)
  BY DEF Moved
<1>6. Moved(s)' = Amount(to \cup qto) - Amount(from \cup qfrom)
  BY <1>3 DEF Moved
<1> HIDE DEF to, from, qto, qfrom
<1>7. /\ Amount(to \cup qto) = Amount(to) + Amount(qto)
      /\ Amount(from \cup qfrom) = Amount(from) + Amount(qfrom)
  BY <1>1, <1>2, <1>4, AmountUnion
<1>8. Amount(to) \in Nat /\ Amount(from) \in Nat /\ Amount(qto) \in Nat /\ Amount(qfrom) \in Nat
  BY <1>1, <1>4, AmountNat
<1>9. Moved(s)' = Moved(s) + Amount(qto) - Amount(qfrom)
  BY <1>5, <1>6, <1>7, <1>8
<1> QED
  BY <1>9 DEF qto, qfrom

LEMMA MovedInt == ASSUME Typed, NEW s PROVE Moved(s) \in Int
<1> DEFINE to == {r \in ledger : r.to = s}
           from == {r \in ledger : r.from = s}
<1>1. to \in SUBSET ledger /\ from \in SUBSET ledger
  OBVIOUS
<1>2. Moved(s) = Amount(to) - Amount(from)
  BY DEF Moved
<1> HIDE DEF to, from
<1>3. IsFiniteSet(to) /\ IsFiniteSet(from) /\ \A r \in to \cup from : r.amount \in Nat
  BY <1>1, FS_Subset DEF Typed, IsLog
<1>4. Amount(to) \in Nat /\ Amount(from) \in Nat
  BY <1>3, AmountNat
<1> QED
  BY <1>2, <1>4

LEMMA ExplainedAfterSale ==
    ASSUME Typed, LogExplainsBalances, NEW t \in Tx, NEW r, NEW had, SaleMoves(t, r, had)
    PROVE  LogExplainsBalances'
<1> SUFFICES ASSUME "overwrite" \notin raced', NEW s \in Sleeve
             PROVE  actual'[s] = InitActual[s] + Moved(s)'
  BY DEF LogExplainsBalances
<1>1. /\ r.from \in Lane /\ r.to \in Sleeve \ {r.from} /\ r.amount \in Nat \ {0} /\ r.from \in Sleeve
      /\ \A q \in ledger : q.id # r.id
      /\ ledger' = ledger \cup {r}
      /\ actual' = [actual EXCEPT ![r.from] = had[r.from] - r.amount, ![r.to] = had[r.to] + r.amount]
  BY DEF SaleMoves, Sleeve
<1>2. "overwrite" \notin raced /\ had[r.from] = actual[r.from] /\ had[r.to] = actual[r.to]
  BY DEF SaleMoves
<1>3. actual[s] = InitActual[s] + Moved(s)
  BY <1>2 DEF LogExplainsBalances
<1>4. IsLog({r})
  BY <1>1, FS_Singleton DEF IsLog
<1>5. Moved(s)' = Moved(s) + Amount({q \in {r} : q.to = s}) - Amount({q \in {r} : q.from = s})
  BY <1>1, <1>4, MovedGrows
<1>6. Amount({r}) = r.amount /\ Amount({}) = 0
  BY <1>1, AmountOne, AmountEmpty
<1>7. actual \in [Sleeve -> Int] /\ InitActual[s] \in Int /\ Moved(s) \in Int
  BY MovedInt, SleevesAssumption DEF Typed
<1>8. CASE s = r.to
  <2>1. {q \in {r} : q.to = s} = {r} /\ {q \in {r} : q.from = s} = {}
    BY <1>1, <1>8
  <2>2. actual'[s] = actual[s] + r.amount
    BY <1>1, <1>2, <1>7, <1>8
  <2>3. Moved(s)' = Moved(s) + r.amount - 0
    BY <1>5, <1>6, <2>1
  <2> QED
    BY <1>1, <1>3, <1>7, <2>2, <2>3
<1>9. CASE s = r.from
  <2>1. {q \in {r} : q.to = s} = {} /\ {q \in {r} : q.from = s} = {r}
    BY <1>1, <1>9
  <2>2. actual'[s] = actual[s] - r.amount
    BY <1>1, <1>2, <1>7, <1>9
  <2>3. Moved(s)' = Moved(s) + 0 - r.amount
    BY <1>5, <1>6, <2>1
  <2> QED
    BY <1>1, <1>3, <1>7, <2>2, <2>3
<1>10. CASE s \notin {r.from, r.to}
  <2>1. {q \in {r} : q.to = s} = {} /\ {q \in {r} : q.from = s} = {}
    BY <1>10
  <2>2. actual'[s] = actual[s]
    BY <1>1, <1>7, <1>10
  <2>3. Moved(s)' = Moved(s) + 0 - 0
    BY <1>5, <1>6, <2>1
  <2> QED
    BY <1>3, <1>7, <2>2, <2>3
<1> QED
  BY <1>8, <1>9, <1>10

LEMMA ExplainedAfterRun ==
    ASSUME Typed, LogExplainsBalances, NEW t \in Tx, NEW r, NEW alloc, RunMoves(t, r, alloc)
    PROVE  LogExplainsBalances'
<1> SUFFICES ASSUME "overwrite" \notin raced', NEW s \in Sleeve
             PROVE  actual'[s] = InitActual[s] + Moved(s)'
  BY DEF LogExplainsBalances
<1> DEFINE rows == RowsOf(r, alloc)
<1>1. /\ alloc \in [Lane -> Nat] /\ Total(alloc, Lane) \in Nat
      /\ \A q \in rows, k \in ledger : q.id # k.id
      /\ ledger' = ledger \cup rows
      /\ actual' = [z \in Sleeve |->
              IF z \in Lane THEN actual[z] + alloc[z] ELSE actual[z] - Total(alloc, Lane)]
      /\ "overwrite" \notin raced
  BY DEF RunMoves
<1>2. /\ IsLog(rows) /\ Amount(rows) = Total(alloc, Lane)
      /\ \A q \in rows : q.from = Unallocated /\ q.to \in Lane
      /\ \A l \in Lane : Amount({q \in rows : q.to = l}) = alloc[l]
  BY <1>1, RowsOfRun
<1> HIDE DEF rows
<1>3. Moved(s)' = Moved(s) + Amount({q \in rows : q.to = s}) - Amount({q \in rows : q.from = s})
  BY <1>1, <1>2, MovedGrows
<1>4. actual[s] = InitActual[s] + Moved(s)
  BY <1>1 DEF LogExplainsBalances
<1>5. actual \in [Sleeve -> Int] /\ InitActual[s] \in Int /\ Moved(s) \in Int
  BY MovedInt, SleevesAssumption DEF Typed
<1>6. CASE s \in Lane
  <2>1. {q \in rows : q.from = s} = {}
    BY <1>2, <1>6, SleevesAssumption
  <2>2. actual'[s] = actual[s] + alloc[s] /\ alloc[s] \in Nat
    BY <1>1, <1>6
  <2>3. Moved(s)' = Moved(s) + alloc[s] - 0
    BY <1>2, <1>3, <1>6, <2>1, AmountEmpty
  <2> QED
    BY <1>4, <1>5, <2>2, <2>3
<1>7. CASE s \notin Lane
  <2>1. s = Unallocated
    BY <1>7 DEF Sleeve
  <2>2. {q \in rows : q.from = s} = rows /\ {q \in rows : q.to = s} = {}
    BY <1>2, <1>7, <2>1
  <2>3. actual'[s] = actual[s] - Total(alloc, Lane)
    BY <1>1, <1>7
  <2>4. Moved(s)' = Moved(s) + 0 - Total(alloc, Lane)
    BY <1>2, <1>3, <2>2, AmountEmpty
  <2> QED
    BY <1>1, <1>4, <1>5, <2>3, <2>4
<1> QED
  BY <1>6, <1>7

\* "overwrite" and the like, once they have happened, have happened.
LEMMA RacesStay == ASSUME Typed, [Next]_vars PROVE raced \subseteq raced'
<1>1. ASSUME NEW t \in Tx, CommitSale(t) PROVE raced \subseteq raced'
  BY <1>1, SaleStep DEF SaleMoves
<1>2. ASSUME NEW t \in Tx, CommitRun(t) PROVE raced \subseteq raced'
  BY <1>2, RunStep DEF RunMoves
<1> QED
  BY <1>1, <1>2 DEF Next, Begin, Fails, Retarget, SubmitEntry, SubmitUnchecked, Sell,
        EntryFills, EntryRejected, BookExpires, vars

\* Only commits change a balance or the log.
LEMMA OthersKeepBooks ==
    ASSUME [Next]_vars, ~ \E t \in Tx : CommitSale(t) \/ CommitRun(t)
    PROVE  actual' = actual /\ ledger' = ledger
  BY DEF Next, Begin, Fails, Retarget, SubmitEntry, SubmitUnchecked, Sell,
        EntryFills, EntryRejected, BookExpires, vars, capital

LEMMA ExplainedStep ==
    ASSUME Typed, LogExplainsBalances, [Next]_vars
    PROVE  LogExplainsBalances'
<1>0. ASSUME actual' = actual, ledger' = ledger PROVE LogExplainsBalances'
  <2>1. \A s : Moved(s)' = Moved(s)
    BY <1>0 DEF Moved
  <2> QED
    BY <1>0, <2>1, RacesStay DEF LogExplainsBalances
<1>1. ASSUME NEW t \in Tx, CommitSale(t) PROVE LogExplainsBalances'
  BY <1>0, <1>1, SaleStep, ExplainedAfterSale
<1>2. ASSUME NEW t \in Tx, CommitRun(t) PROVE LogExplainsBalances'
  BY <1>0, <1>2, RunStep, ExplainedAfterRun
<1> QED
  BY <1>0, <1>1, <1>2, OthersKeepBooks

LEMMA ExplainedInit == Init => LogExplainsBalances
<1> SUFFICES ASSUME Init, NEW s \in Sleeve PROVE actual[s] = InitActual[s] + Moved(s)
  BY DEF LogExplainsBalances
<1>1. Moved(s) = Amount({}) - Amount({})
  <2>1. {r \in ledger : r.to = s} = {} /\ {r \in ledger : r.from = s} = {}
    BY DEF Init
  <2> QED
    BY <2>1 DEF Moved
<1>2. Moved(s) = 0 /\ actual[s] = InitActual[s] /\ InitActual[s] \in Int
  BY <1>1, AmountEmpty, SleevesAssumption DEF Init
<1> QED
  BY <1>2

(* "comparing the log against the balances" (budget_store.py:16): whatever   *)
(* was delivered twice, retried, aborted or overlapped, every balance is     *)
(* what the sleeve began with and what the log says moved, unless a sale     *)
(* overwrote a row that had changed since it was read.                       *)
THEOREM BalancesAreExplained == Spec => []LogExplainsBalances
<1>1. Init => Typed /\ LogExplainsBalances
  BY TypedInit, ExplainedInit
<1>2. Typed /\ LogExplainsBalances /\ [Next]_vars => Typed' /\ LogExplainsBalances'
  BY TypedStep, ExplainedStep
<1> QED
  BY <1>1, <1>2, PTL DEF Spec

-----------------------------------------------------------------------------
(* The source is not overdrawn.                                              *)

LEMMA NotOverdrawnStep ==
    ASSUME Typed, SourceNotOverdrawn, [Next]_vars
    PROVE  SourceNotOverdrawn'
<1> SUFFICES ASSUME raced' \cap {"overwrite", "stale", "spent"} = {}, NEW s \in Sleeve
             PROVE  actual'[s] >= 0
  BY DEF SourceNotOverdrawn
<1>0. raced \cap {"overwrite", "stale", "spent"} = {}
  BY RacesStay
<1>1. actual[s] \in Int /\ actual[s] >= 0 /\ \A q \in Sleeve : actual[q] \in Int /\ actual[q] >= 0
  BY <1>0 DEF SourceNotOverdrawn, Typed
<1>2. ASSUME NEW t \in Tx, NEW r, NEW had, SaleMoves(t, r, had) PROVE actual'[s] >= 0
  <2>1. /\ r.from \in Sleeve /\ r.to \in Sleeve \ {r.from} /\ r.amount \in Nat
        /\ r.amount <= tx[t].book.actual[r.from]
        /\ actual' = [actual EXCEPT ![r.from] = had[r.from] - r.amount, ![r.to] = had[r.to] + r.amount]
    BY <1>2 DEF SaleMoves, Sleeve
  <2>2. /\ had[r.from] = actual[r.from] /\ had[r.to] = actual[r.to]
        /\ tx[t].book.actual[r.from] = actual[r.from]
    BY <1>2 DEF SaleMoves
  <2>3. actual'[s] = IF s = r.from THEN actual[s] - r.amount
                     ELSE IF s = r.to THEN actual[s] + r.amount ELSE actual[s]
    BY <2>1, <2>2 DEF Typed
  <2> QED
    BY <1>1, <2>1, <2>2, <2>3
<1>3. ASSUME NEW t \in Tx, NEW r, NEW alloc, RunMoves(t, r, alloc) PROVE actual'[s] >= 0
  <2> DEFINE pot == tx[t].book.actual[Unallocated]
             given == Total(alloc, Lane)
  <2>1. /\ alloc \in [Lane -> Nat] /\ given \in Nat /\ pot \in Int /\ (given > 0 => given <= pot)
        /\ actual' = [z \in Sleeve |-> IF z \in Lane THEN actual[z] + alloc[z] ELSE actual[z] - given]
        /\ RowsOf(r, alloc) = {} \/ actual[Unallocated] >= pot
    BY <1>3 DEF RunMoves
  <2>2. given = 0 \/ actual[Unallocated] >= given
    <3>1. CASE RowsOf(r, alloc) = {}
      <4>1. Amount(RowsOf(r, alloc)) = given
        BY <2>1, RowsOfRun
      <4> QED
        BY <3>1, <4>1, AmountEmpty
    <3>2. CASE actual[Unallocated] >= pot /\ given > 0
      <4>1. given <= pot /\ Unallocated \in Sleeve
        BY <2>1, <3>2 DEF Sleeve
      <4> QED
        BY <1>1, <2>1, <3>2, <4>1
    <3> QED
      BY <2>1, <3>1, <3>2
  <2>3. CASE s \in Lane
    BY <1>1, <2>1, <2>3
  <2>4. CASE s \notin Lane
    <3>1. s = Unallocated
      BY <2>4 DEF Sleeve
    <3> HIDE DEF given
    <3>2. actual'[s] = actual[s] - given
      BY <2>1, <2>4
    <3> QED
      BY <1>1, <2>1, <2>2, <3>1, <3>2
  <2> QED
    BY <2>3, <2>4
<1>4. CASE actual' = actual
  BY <1>1, <1>4
<1>5. ASSUME NEW t \in Tx, CommitSale(t) PROVE actual'[s] >= 0
  BY <1>2, <1>4, <1>5, SaleStep
<1>6. ASSUME NEW t \in Tx, CommitRun(t) PROVE actual'[s] >= 0
  BY <1>3, <1>4, <1>6, RunStep
<1> QED
  BY <1>4, <1>5, <1>6, OthersKeepBooks

(* "NEVER DISTRIBUTE MORE THAN THE SOURCE HOLDS" (budget_store.py:229): no   *)
(* balance goes negative, unless transactions acted on a balance another of  *)
(* them had changed since.                                                   *)
THEOREM SourceHolds == Spec => []SourceNotOverdrawn
<1>1. Init => Typed /\ SourceNotOverdrawn
  BY TypedInit, SleevesAssumption DEF Init, SourceNotOverdrawn
<1>2. Typed /\ SourceNotOverdrawn /\ [Next]_vars => Typed' /\ SourceNotOverdrawn'
  BY TypedStep, NotOverdrawnStep
<1> QED
  BY <1>1, <1>2, PTL DEF Spec

-----------------------------------------------------------------------------
(* A lane stays within its means.                                            *)

(* What makes it inductive: what the lane has sold and has not handed over   *)
(* is still in its sleeve.                                                   *)
Covered ==
    raced \subseteq {"spent"} =>
        \A l \in Lane : deployed[l] + working[l] + Amount(Unsettled(l)) <= actual[l]

LEMMA UnsettledTyped ==
    ASSUME Typed, NEW l
    PROVE  /\ IsFiniteSet(Unsettled(l)) /\ \A x \in Unsettled(l) : x.amount \in Nat
           /\ Amount(Unsettled(l)) \in Nat
<1>1. Unsettled(l) \in SUBSET sold
  BY DEF Unsettled
<1>2. IsFiniteSet(Unsettled(l)) /\ \A x \in Unsettled(l) : x.amount \in Nat
  BY <1>1, FS_Subset DEF Typed, IsSales
<1> QED
  BY <1>2, AmountNat

LEMMA CoveredAfterSale ==
    ASSUME Typed, Covered, NEW t \in Tx, NEW r, NEW had, SaleMoves(t, r, had),
           UNCHANGED <<sold, deployed, working>>
    PROVE  Covered'
<1> SUFFICES ASSUME raced' \subseteq {"spent"}, NEW l \in Lane
             PROVE  deployed[l] + working[l] + Amount(Unsettled(l)') <= actual'[l]
  BY DEF Covered
<1>1. PICK y \in sold : y.fill = tx[t].job /\ r.id = <<y.fill, y.lane>> /\ r.from = y.lane /\ r.amount <= y.amount
  BY DEF SaleMoves
<1>2. /\ r.from \in Sleeve /\ r.to \in Sleeve \ {r.from} /\ r.amount \in Nat
      /\ \A q \in ledger : q.id # r.id
      /\ ledger' = ledger \cup {r}
      /\ actual' = [actual EXCEPT ![r.from] = had[r.from] - r.amount, ![r.to] = had[r.to] + r.amount]
  BY DEF SaleMoves, Sleeve
<1>3. raced \subseteq {"spent"} /\ had[r.from] = actual[r.from] /\ had[r.to] = actual[r.to]
  BY DEF SaleMoves
<1>4. /\ actual[l] \in Int /\ deployed[l] \in Nat /\ working[l] \in Nat
      /\ deployed[l] + working[l] + Amount(Unsettled(l)) <= actual[l]
  BY <1>3 DEF Covered, Typed, Sleeve
<1>5. actual'[l] = IF l = r.from THEN actual[l] - r.amount
                   ELSE IF l = r.to THEN actual[l] + r.amount ELSE actual[l]
  BY <1>2, <1>3 DEF Typed, Sleeve
<1>6. Unsettled(l)' = {x \in sold : x.lane = l /\ <<x.fill, l>> \notin {q.id : q \in ledger} \cup {r.id}}
  BY <1>2 DEF Unsettled
<1>7. CASE l = y.lane
  <2>1. y \in Unsettled(l) /\ y.amount \in Nat
    BY <1>1, <1>2, <1>7 DEF Unsettled, Typed, IsSales
  <2>2. Unsettled(l)' = Unsettled(l) \ {y}
    <3>1. \A x \in sold : x.lane = l => (<<x.fill, l>> = r.id <=> x = y)
      <4> SUFFICES ASSUME NEW x \in sold, x.lane = l
                   PROVE  <<x.fill, l>> = r.id <=> x = y
        OBVIOUS
      <4>1. <<x.fill, l>> = <<y.fill, y.lane>> <=> x.fill = y.fill
        BY <1>7
      <4>2. x.fill = y.fill => x = y
        BY <1>1 DEF Typed, IsSales
      <4> QED
        BY <1>1, <4>1, <4>2
    <3> QED
      BY <1>6, <3>1 DEF Unsettled
  <2>3. Amount(Unsettled(l)) = Amount(Unsettled(l) \ {y}) + y.amount
    BY <2>1, UnsettledTyped, AmountWithout
  <2>4. Amount(Unsettled(l) \ {y}) \in Nat
    <3>1. IsFiniteSet(Unsettled(l) \ {y}) /\ \A x \in Unsettled(l) \ {y} : x.amount \in Nat
      BY UnsettledTyped, FS_RemoveElement
    <3> QED
      BY <3>1, AmountNat
  <2>5. Amount(Unsettled(l)') = Amount(Unsettled(l) \ {y})
    BY <2>2
  <2>6. actual'[l] = actual[l] - r.amount
    BY <1>1, <1>5, <1>7
  <2> QED
    BY <1>1, <1>2, <1>4, <2>1, <2>3, <2>4, <2>5, <2>6
<1>8. CASE l # y.lane
  <2>1. Unsettled(l)' = Unsettled(l)
    <3>1. \A x \in sold : <<x.fill, l>> # r.id
      BY <1>1, <1>8
    <3> QED
      BY <1>6, <3>1 DEF Unsettled
  <2>2. actual'[l] >= actual[l]
    BY <1>1, <1>2, <1>4, <1>5, <1>8
  <2>3. Amount(Unsettled(l)) \in Nat /\ actual'[l] \in Int
    BY <1>2, <1>4, <1>5, UnsettledTyped
  <2> QED
    BY <1>4, <2>1, <2>2, <2>3
<1> QED
  BY <1>7, <1>8

LEMMA CoveredAfterRun ==
    ASSUME Typed, Covered, NEW t \in Tx, NEW r, NEW alloc, RunMoves(t, r, alloc),
           UNCHANGED <<sold, deployed, working>>
    PROVE  Covered'
<1> SUFFICES ASSUME raced' \subseteq {"spent"}, NEW l \in Lane
             PROVE  deployed[l] + working[l] + Amount(Unsettled(l)') <= actual'[l]
  BY DEF Covered
<1>1. /\ r \in Run /\ alloc \in [Lane -> Nat]
      /\ ledger' = ledger \cup RowsOf(r, alloc)
      /\ actual'[l] = actual[l] + alloc[l]
      /\ raced \subseteq {"spent"}
  BY DEF RunMoves, Sleeve
<1>2. \A q \in RowsOf(r, alloc) : q.id = <<r, q.to>>
  BY <1>1, RowsOfRun
<1>3. \A x \in sold : x.fill # r
  BY <1>1, SleevesAssumption DEF Typed, IsSales
<1>4. Unsettled(l)' = Unsettled(l)
  BY <1>1, <1>2, <1>3 DEF Unsettled
<1>5. /\ actual[l] \in Int /\ deployed[l] \in Nat /\ working[l] \in Nat /\ alloc[l] \in Nat
      /\ deployed[l] + working[l] + Amount(Unsettled(l)) <= actual[l]
      /\ Amount(Unsettled(l)) \in Nat
  BY <1>1, UnsettledTyped DEF Covered, Typed, Sleeve
<1> QED
  BY <1>1, <1>4, <1>5

\* An entry that passes the gate on a fresh book, alone and with every sale
\* settled, fits into what the sleeve has left.
LEMMA GateHolds ==
    ASSUME Typed, NEW l \in Lane, NEW n \in Nat, n > 0, MaySubmit(Book, l, n)
    PROVE  deployed[l] + n <= actual[l]
<1>1. actual[l] \in Int /\ target[l] \in Nat /\ deployed[l] \in Nat /\ Target(Book, l) = target[l]
  BY DEF Typed, Sleeve, Target, Book
<1> DEFINE room == Least(actual[l], target[l]) - deployed[l]
<1>2. room \in Int /\ room <= actual[l] - deployed[l]
  BY <1>1 DEF Least
<1>3. n <= Max({0, room})
  BY <1>1 DEF MaySubmit, Deployable, Book
<1>4. Max({0, room}) = IF room > 0 THEN room ELSE 0
  BY <1>2, MaxZero
<1> HIDE DEF room
<1> QED
  BY <1>1, <1>2, <1>3, <1>4

LEMMA CoveredStep == ASSUME Typed, Covered, [Next]_vars PROVE Covered'
<1>0. ASSUME UNCHANGED <<actual, ledger, sold, deployed, working>> PROVE Covered'
  <2>1. \A l : Unsettled(l)' = Unsettled(l)
    BY <1>0 DEF Unsettled
  <2> QED
    BY <1>0, <2>1, RacesStay DEF Covered
<1>1. ASSUME NEW t \in Tx, CommitSale(t) PROVE Covered'
  <2>1. UNCHANGED <<sold, deployed, working>>
    BY <1>1 DEF CommitSale, market
  <2> QED
    BY <1>0, <1>1, <2>1, SaleStep, CoveredAfterSale
<1>2. ASSUME NEW t \in Tx, CommitRun(t) PROVE Covered'
  <2>1. UNCHANGED <<sold, deployed, working>>
    BY <1>2 DEF CommitRun, market
  <2> QED
    BY <1>0, <1>2, <2>1, RunStep, CoveredAfterRun
<1>3. ASSUME NEW l \in Lane, NEW n \in 1..MaxOrder, SubmitEntry(l, n) PROVE Covered'
  <2> SUFFICES ASSUME raced' \subseteq {"spent"}, NEW k \in Lane
               PROVE  deployed'[k] + working'[k] + Amount(Unsettled(k)') <= actual'[k]
    BY DEF Covered
  <2>1. /\ UNCHANGED <<actual, ledger, sold, deployed>>
        /\ working' = [working EXCEPT ![l] = @ + n] /\ n \in Nat /\ n > 0
    BY <1>3 DEF SubmitEntry, capital
  <2>2. PICK bk \in {IF book = NoBook THEN Book ELSE book} :
           /\ MaySubmit(bk, l, n)
           /\ raced' = IF bk = Book /\ working[l] = 0 /\ Unsettled(l) = {}
                       THEN raced ELSE raced \cup {"gate"}
    BY <1>3 DEF SubmitEntry
  <2>3. MaySubmit(Book, l, n) /\ working[l] = 0 /\ Unsettled(l) = {} /\ raced' = raced
    BY <2>2
  <2>4. Unsettled(k)' = Unsettled(k)
    BY <2>1 DEF Unsettled
  <2>5. deployed[l] + n <= actual[l] /\ Amount({}) = 0
    BY <2>1, <2>3, GateHolds, AmountEmpty
  <2>6. /\ deployed[k] \in Nat /\ working[k] \in Nat /\ actual[k] \in Int
        /\ deployed[k] + working[k] + Amount(Unsettled(k)) <= actual[k]
    BY <2>3 DEF Covered, Typed, Sleeve
  <2>7. CASE k = l
    <3>1. working'[k] = n
      <4>1. working'[l] = working[l] + n
        BY <2>1 DEF Typed
      <4> QED
        BY <2>1, <2>3, <2>7, <4>1
    <3>2. Amount(Unsettled(k)') = 0
      BY <2>3, <2>4, <2>5, <2>7, Zenon
    <3> QED
      BY <2>1, <2>5, <2>6, <2>7, <3>1, <3>2
  <2>8. CASE k # l
    <3>1. working'[k] = working[k]
      BY <2>1, <2>8 DEF Typed
    <3> QED
      BY <2>1, <2>4, <2>6, <3>1
  <2> QED
    BY <2>7, <2>8
<1>4. ASSUME NEW l \in Lane, NEW n \in 1..MaxOrder, SubmitUnchecked(l, n) PROVE Covered'
  BY <1>4 DEF SubmitUnchecked, Covered
<1>5. ASSUME NEW l \in Lane, NEW n \in 1..MaxOrder, NEW f \in Fill, Sell(l, f, n) PROVE Covered'
  <2> DEFINE y == [fill |-> f, lane |-> l, amount |-> n]
  <2> SUFFICES ASSUME raced' \subseteq {"spent"}, NEW k \in Lane
               PROVE  deployed'[k] + working'[k] + Amount(Unsettled(k)') <= actual'[k]
    BY DEF Covered
  <2>1. /\ f \notin {x.fill : x \in sold} /\ n \in 1..deployed[l]
        /\ sold' = sold \cup {y}
        /\ deployed' = [deployed EXCEPT ![l] = @ - n]
        /\ UNCHANGED <<actual, ledger, working, raced>>
    BY <1>5 DEF Sell, capital
  <2>2. y.fill = f /\ y.lane = l /\ y.amount = n /\ n \in Nat /\ y \notin sold
    BY <2>1
  <2> HIDE DEF y
  <2>3. /\ deployed[k] \in Nat /\ working[k] \in Nat /\ actual[k] \in Int
        /\ deployed[k] + working[k] + Amount(Unsettled(k)) <= actual[k]
        /\ Amount(Unsettled(k)) \in Nat
    BY <2>1, UnsettledTyped DEF Covered, Typed, Sleeve
  <2>4. deployed'[k] = IF k = l THEN deployed[k] - n ELSE deployed[k]
    BY <2>1 DEF Typed
  <2>5. CASE Unsettled(k)' = Unsettled(k)
    BY <2>1, <2>2, <2>3, <2>4, <2>5
  <2>6. CASE k = l /\ Unsettled(k)' = Unsettled(k) \cup {y}
    <3>1. Amount(Unsettled(k) \cup {y}) = Amount(Unsettled(k)) + Amount({y})
      <4>1. IsFiniteSet({y}) /\ Unsettled(k) \cap {y} = {}
        BY <2>2, FS_Singleton DEF Unsettled
      <4>2. \A x \in Unsettled(k) \cup {y} : x.amount \in Nat
        BY <2>2, UnsettledTyped
      <4> QED
        BY <4>1, <4>2, UnsettledTyped, AmountUnion
    <3>2. Amount({y}) = n
      BY <2>2, AmountOne
    <3>3. Amount(Unsettled(k)') = Amount(Unsettled(k)) + n
      BY <2>6, <3>1, <3>2
    <3> QED
      BY <2>1, <2>2, <2>3, <2>4, <2>6, <3>3
  <2>7. Unsettled(k)' = Unsettled(k) \/ (k = l /\ Unsettled(k)' = Unsettled(k) \cup {y})
    BY <2>1, <2>2 DEF Unsettled
  <2> QED
    BY <2>5, <2>6, <2>7
<1>6. ASSUME NEW l \in Lane, EntryFills(l) \/ EntryRejected(l) PROVE Covered'
  <2> SUFFICES ASSUME raced' \subseteq {"spent"}, NEW k \in Lane
               PROVE  deployed'[k] + working'[k] + Amount(Unsettled(k)') <= actual'[k]
    BY DEF Covered
  <2>1. UNCHANGED <<actual, ledger, sold, raced>>
    BY <1>6 DEF EntryFills, EntryRejected, capital
  <2>2. Unsettled(k)' = Unsettled(k)
    BY <2>1 DEF Unsettled
  <2>3. /\ deployed[k] \in Nat /\ working[k] \in Nat /\ actual[k] \in Int
        /\ deployed[k] + working[k] + Amount(Unsettled(k)) <= actual[k]
        /\ Amount(Unsettled(k)) \in Nat
    BY <2>1, UnsettledTyped DEF Covered, Typed, Sleeve
  <2>4. deployed'[k] \in Nat /\ working'[k] \in Nat /\ deployed'[k] + working'[k] <= deployed[k] + working[k]
    BY <1>6, <2>3 DEF EntryFills, EntryRejected, Typed
  <2> QED
    BY <2>1, <2>2, <2>3, <2>4
<1>7. ASSUME \/ \E t \in Tx : (\E job \in Job : Begin(t, job)) \/ Fails(t)
             \/ \E l \in Lane : \E n \in 0..MaxUnits : Retarget(l, n)
             \/ BookExpires \/ UNCHANGED vars
      PROVE  Covered'
  BY <1>0, <1>7 DEF Begin, Fails, Retarget, BookExpires, vars, market, capital
<1> QED
  BY <1>1, <1>2, <1>3, <1>4, <1>5, <1>6, <1>7 DEF Next

LEMMA CoveredInit == Init => Covered
<1> SUFFICES ASSUME Init, NEW l \in Lane
             PROVE  deployed[l] + working[l] + Amount(Unsettled(l)) <= actual[l]
  BY DEF Covered
<1>1. Unsettled(l) = {}
  BY DEF Init, Unsettled
<1>2. deployed[l] = 0 /\ working[l] = 0 /\ actual[l] \in Nat
  BY SleevesAssumption DEF Init, Sleeve
<1> QED
  BY <1>1, <1>2, AmountEmpty

LEMMA CoveredIsWithinMeans == ASSUME Typed, Covered PROVE WithinMeans
<1> SUFFICES ASSUME raced \subseteq {"spent"}, NEW l \in Lane
             PROVE  deployed[l] + working[l] <= actual[l]
  BY DEF WithinMeans
<1>1. /\ deployed[l] \in Nat /\ working[l] \in Nat /\ actual[l] \in Int
      /\ deployed[l] + working[l] + Amount(Unsettled(l)) <= actual[l]
      /\ Amount(Unsettled(l)) \in Nat
  BY UnsettledTyped DEF Covered, Typed, Sleeve
<1> QED
  BY <1>1

(* "the recipient can only ever deploy capital the donor has ACTUALLY freed" *)
(* (budget.py:9): what a lane holds and has on the way is covered by its     *)
(* sleeve, unless an entry passed the gate on a cached or unread book,       *)
(* beside another entry, or before a sale was settled, or a sale was         *)
(* committed on balances that had changed.                                   *)
THEOREM MeansSuffice == Spec => []WithinMeans
<1>1. Init => Typed /\ Covered
  BY TypedInit, CoveredInit
<1>2. Typed /\ Covered /\ [Next]_vars => Typed' /\ Covered'
  BY TypedStep, CoveredStep
<1>3. Typed /\ Covered => WithinMeans
  BY CoveredIsWithinMeans
<1> QED
  BY <1>1, <1>2, <1>3, PTL DEF Spec

(* What plan_distribution promises of any book holds of those the run        *)
(* enumerates, in every state.                                               *)
THEOREM DistributionsAreFair == Spec => []DistributionFair
<1>1. DistributionFair
  <2> SUFFICES ASSUME NEW short \in [Lane -> 0..4], NEW pot \in 0..5,
                      NEW alloc \in Distribution(short, pot)
               PROVE  LET all == Sum(short, Lane)
                          off(l) == alloc[l] * all - Least(pot, all) * short[l]
                      IN  /\ Sum(alloc, Lane) = Least(pot, all)
                          /\ \A l \in Lane : alloc[l] \in 0..short[l]
                          /\ \A l, k \in Lane : l # k => off(l) - off(k) <= all
    BY DEF DistributionFair
  <2>1. short \in [Lane -> Nat] /\ pot \in Nat
    OBVIOUS
  <2> QED
    BY <2>1, AnyDistributionIsFair
<1> QED
  BY <1>1, PTL
=============================================================================
