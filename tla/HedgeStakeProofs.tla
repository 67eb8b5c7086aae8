---------------------------- MODULE HedgeStakeProofs ---------------------------
(* For all tickets, limits and quotes: what EvaluateExposureHedge leaves in  *)
(* the exposure is a stake the bookmaker and the account allow, and one that *)
(* is profitable whoever wins.  And the four candidates that                 *)
(* CalculateProfitableHedge tries are enough: below the stake that pays the  *)
(* same whoever wins, the hedge's win is the worse outcome and improves with *)
(* the stake; above it, Jun88's win is the worse one and a smaller stake is  *)
(* better.  So the allowed stakes next to the equal payout, or the limit     *)
(* when none is on that side, leave the most in the worse case.              *)
EXTENDS HedgeStake, TLAPS

USE HedgeStakeAssumption

(* The amounts of an exposure.                                               *)
LEMMA TermsType ==
  ASSUME NEW t \in Terms
  PROVE  /\ t.jun \in 1..MaxInt /\ t.odds \in MalayOdds
         /\ t.minimum \in 0..MaxInt /\ t.maximum \in 0..MaxInt
         /\ t.increment \in 1..MaxInt /\ t.total \in 1..MaxInt /\ t.total > t.jun
  BY DEF Terms

(* malayDecimalOdds gives a fraction above 1.                                *)
LEMMA DecimalType ==
  ASSUME NEW o \in MalayOdds
  PROVE  Decimal(o).num \in Nat \ {0} /\ Decimal(o).den \in Nat \ {0}
  BY DEF MalayOdds, Decimal

(* Rounding gives an integer.                                                *)
LEMMA RoundedType ==
  ASSUME NEW a \in Int, NEW b \in Nat \ {0}
  PROVE  Rounded(a, b) \in Int
  BY DEF Rounded

(* Profits are whole.                                                        *)
LEMMA ProfitsType ==
  ASSUME NEW t \in Terms, NEW o \in MalayOdds, NEW s \in Nat
  PROVE  JunProfit(t, s) \in Int /\ HedgeProfit(t, o, s) \in Int /\ LeastProfit(t, o, s) \in Int
<1>1. t.jun \in Nat /\ t.odds \in MalayOdds
  BY TermsType
<1>2. ASSUME NEW x \in Nat, NEW p \in MalayOdds, NEW total \in Nat
      PROVE  Profit(x, p, total) \in Int
  BY DecimalType, RoundedType DEF Profit
<1>3. JunProfit(t, s) \in Int
  BY <1>1, <1>2 DEF JunProfit
<1>4. HedgeProfit(t, o, s) \in Int
  BY <1>1, <1>2 DEF HedgeProfit
<1> QED BY <1>3, <1>4 DEF LeastProfit

-----------------------------------------------------------------------------
(* The steps of the bookmaker.                                               *)

(* alignDown gives a multiple and never more than it was given.              *)
LEMMA AlignDownIsMultiple ==
  ASSUME NEW v \in Int, NEW i \in Nat \ {0}
  PROVE  /\ AlignDown(v, i) \in Nat /\ AlignDown(v, i) % i = 0
         /\ AlignDown(v, i) > 0 => AlignDown(v, i) <= v
<1>1. CASE v <= 0
  BY <1>1 DEF AlignDown
<1>2. CASE v > 0
  <2>1. v % i \in 0..(i - 1) /\ v = i * (v \div i) + (v % i) /\ v \div i \in Nat
    BY <1>2
  <2>2. AlignDown(v, i) = i * (v \div i)
    BY <1>2, <2>1 DEF AlignDown
  <2>3. (i * (v \div i)) % i = 0
    BY <2>1
  <2>4. i * (v \div i) \in Nat /\ i * (v \div i) <= v
    BY <2>1
  <2> QED BY <2>2, <2>3, <2>4
<1> QED BY <1>1, <1>2

(* alignUp gives a multiple that is no less, or 0 when that is not an        *)
(* integer of the machine.                                                   *)
LEMMA AlignUpIsMultiple ==
  ASSUME NEW v \in Int, NEW i \in Nat \ {0}
  PROVE  /\ AlignUp(v, i) \in Nat /\ AlignUp(v, i) % i = 0
         /\ AlignUp(v, i) > 0 => v <= AlignUp(v, i)
<1>1. CASE v <= 0
  BY <1>1 DEF AlignUp
<1>2. CASE v > 0
  <2>1. v % i \in 0..(i - 1) /\ v = i * (v \div i) + (v % i) /\ v \div i \in Nat
    BY <1>2
  <2>2. CASE v % i = 0
    BY <1>2, <2>2 DEF AlignUp
  <2>3. CASE v % i # 0 /\ v > MaxInt - (i - (v % i))
    BY <1>2, <2>3 DEF AlignUp
  <2>4. CASE v % i # 0 /\ ~(v > MaxInt - (i - (v % i)))
    <3>1. AlignUp(v, i) = v + i - (v % i)
      BY <1>2, <2>4 DEF AlignUp
    <3>2. v + i - (v % i) = i * ((v \div i) + 1)
      BY <2>1
    <3>3. (v \div i) + 1 \in Nat
      BY <2>1
    <3>4. (i * ((v \div i) + 1)) % i = 0
      BY <3>3
    <3> QED BY <2>1, <3>1, <3>2, <3>4
  <2> QED BY <2>2, <2>3, <2>4
<1> QED BY <1>1, <1>2

(* The least of the three limits exists.                                     *)
LEMMA LeastLimit ==
  ASSUME NEW t \in Terms, NEW b \in Nat
  PROVE  LET m == CHOOSE m \in Limits(t, b) : \A n \in Limits(t, b) : m <= n
         IN m \in Limits(t, b) /\ m \in Int /\ m <= t.maximum /\ m <= b /\ m <= t.total - t.jun
<1>1. t.maximum \in Int /\ t.total - t.jun \in Int
  BY TermsType
<1>2. \E m \in Limits(t, b) : \A n \in Limits(t, b) : m <= n
  <2>1. CASE t.maximum <= b /\ t.maximum <= t.total - t.jun
    BY <1>1, <2>1 DEF Limits
  <2>2. CASE b <= t.maximum /\ b <= t.total - t.jun
    BY <1>1, <2>2 DEF Limits
  <2>3. CASE t.total - t.jun <= t.maximum /\ t.total - t.jun <= b
    BY <1>1, <2>3 DEF Limits
  <2> QED BY <1>1, <2>1, <2>2, <2>3
<1>3. PICK least : least = CHOOSE m \in Limits(t, b) : \A n \in Limits(t, b) : m <= n
  OBVIOUS
<1>4. least \in Limits(t, b) /\ \A n \in Limits(t, b) : least <= n
  BY <1>2, <1>3
<1> QED BY <1>1, <1>3, <1>4 DEF Limits

(* The largest hedge stake is a multiple of the increment within every       *)
(* limit.                                                                    *)
LEMMA MaximumType ==
  ASSUME NEW t \in Terms, NEW b \in Nat
  PROVE  /\ Maximum(t, b) \in Nat /\ Maximum(t, b) % t.increment = 0
         /\ Maximum(t, b) > 0 =>
              Maximum(t, b) <= t.maximum /\ Maximum(t, b) <= b /\ t.jun + Maximum(t, b) <= t.total
<1> DEFINE m == CHOOSE m \in Limits(t, b) : \A n \in Limits(t, b) : m <= n
<1>1. m \in Limits(t, b) /\ m \in Int /\ m <= t.maximum /\ m <= b /\ m <= t.total - t.jun
  BY LeastLimit
<1>2. t.increment \in Nat \ {0} /\ t.maximum \in Nat /\ t.total \in Nat /\ t.jun \in Nat
  BY TermsType
<1>3. Maximum(t, b) = AlignDown(m, t.increment)
  BY DEF Maximum
<1> HIDE DEF m
<1>4. /\ AlignDown(m, t.increment) \in Nat /\ AlignDown(m, t.increment) % t.increment = 0
      /\ AlignDown(m, t.increment) > 0 => AlignDown(m, t.increment) <= m
  BY <1>1, <1>2, AlignDownIsMultiple
<1> QED BY <1>1, <1>2, <1>3, <1>4

(* The smallest is a multiple of the increment and no less than the          *)
(* bookmaker's minimum.                                                      *)
LEMMA MinimumType ==
  ASSUME NEW t \in Terms
  PROVE  /\ Minimum(t) \in Nat /\ Minimum(t) % t.increment = 0
         /\ Minimum(t) > 0 => t.minimum <= Minimum(t)
<1> DEFINE v == IF t.minimum = 0 THEN t.increment ELSE t.minimum
<1>1. v \in Int /\ t.minimum <= v /\ t.increment \in Nat \ {0}
  BY TermsType
<1>2. Minimum(t) = AlignUp(v, t.increment)
  BY DEF Minimum
<1>3. t.minimum \in Int
  BY TermsType
<1> HIDE DEF v
<1>4. /\ AlignUp(v, t.increment) \in Nat /\ AlignUp(v, t.increment) % t.increment = 0
      /\ AlignUp(v, t.increment) > 0 => v <= AlignUp(v, t.increment)
  BY <1>1, AlignUpIsMultiple
<1> QED BY <1>1, <1>2, <1>3, <1>4

-----------------------------------------------------------------------------
(* The candidates.                                                           *)

(* Every candidate is a multiple of the bookmaker's increment.               *)
LEMMA CandidatesAreMultiples ==
  ASSUME NEW t \in Terms, NEW o \in MalayOdds, NEW b \in Nat
  PROVE  \E c1, c2, c3, c4 \in Nat :
           /\ Candidates(t, o, b) = {c1, c2, c3, c4}
           /\ \A c \in {c1, c2, c3, c4} : c % t.increment = 0
<1> DEFINE e == Equalized(t, o)
           floor == e.num \div e.den
           ceil == -((-e.num) \div e.den)
<1>1. t.increment \in Nat \ {0}
  BY TermsType
<1>2. e.num \in Nat /\ e.den \in Nat \ {0}
  <2>1. t.jun \in Nat /\ t.odds \in MalayOdds
    BY TermsType
  <2>2. /\ Decimal(t.odds).num \in Nat \ {0} /\ Decimal(t.odds).den \in Nat \ {0}
        /\ Decimal(o).num \in Nat \ {0} /\ Decimal(o).den \in Nat \ {0}
    BY <2>1, DecimalType
  <2>3. /\ t.jun * Decimal(t.odds).num * Decimal(o).den \in Nat
        /\ Decimal(t.odds).den * Decimal(o).num \in Nat \ {0}
    BY <2>1, <2>2
  <2> QED BY <2>3 DEF Equalized
<1>3. floor \in Int /\ ceil \in Int
  BY <1>2
<1>4. ASSUME NEW s \in Int PROVE Clamped(t, b, s) \in Int
  BY MaximumType, MinimumType DEF Clamped
<1>5. /\ Clamped(t, b, floor) \in Int /\ Clamped(t, b, ceil) \in Int
  BY <1>3, <1>4
<1> DEFINE c1 == AlignDown(Clamped(t, b, floor), t.increment)
           c2 == AlignUp(Clamped(t, b, ceil), t.increment)
<1>6. Candidates(t, o, b) = {c1, c2, Minimum(t), Maximum(t, b)}
  BY DEF Candidates
<1>7. c1 \in Nat /\ c1 % t.increment = 0
  BY <1>1, <1>5, AlignDownIsMultiple
<1>8. c2 \in Nat /\ c2 % t.increment = 0
  BY <1>1, <1>5, AlignUpIsMultiple
<1>9. /\ Minimum(t) \in Nat /\ Minimum(t) % t.increment = 0
      /\ Maximum(t, b) \in Nat /\ Maximum(t, b) % t.increment = 0
  BY MinimumType, MaximumType
<1> HIDE DEF c1, c2
<1> QED BY <1>6, <1>7, <1>8, <1>9

(* Of some of four stakes one is the best: the order by profit, and by stake *)
(* among equals, is total.                                                   *)
LEMMA BestExists ==
  ASSUME NEW C \in SUBSET Nat, NEW g \in [C -> Int],
         \E c1, c2, c3, c4 \in Nat : C = {c1, c2, c3, c4},
         NEW P \in SUBSET C, P # {}
  PROVE  \E s \in P : \A x \in P : g[x] < g[s] \/ (g[x] = g[s] /\ s <= x)
<1> DEFINE Best(s, S) == s \in S /\ \A x \in S : g[x] < g[s] \/ (g[x] = g[s] /\ s <= x)
           Top(S) == S = {} \/ \E s \in S : Best(s, S)
<1>1. ASSUME NEW S \in SUBSET C, NEW c \in C, Top(S)
      PROVE  Top(S \cup {c})
  <2>1. g[c] \in Int /\ c \in Nat
    OBVIOUS
  <2>2. CASE S = {}
    BY <2>1, <2>2
  <2>3. ASSUME NEW s \in S, Best(s, S)
        PROVE  Top(S \cup {c})
    <3>1. g[s] \in Int /\ s \in Nat /\ \A x \in S : g[x] \in Int /\ x \in Nat
      OBVIOUS
    <3>2. CASE g[c] < g[s] \/ (g[c] = g[s] /\ s <= c)
      BY <2>1, <2>3, <3>1, <3>2
    <3>3. CASE g[s] < g[c] \/ (g[c] = g[s] /\ c <= s)
      <4>1. Best(c, S \cup {c})
        BY <2>1, <2>3, <3>1, <3>3
      <4> QED BY <4>1
    <3> QED BY <2>1, <3>1, <3>2, <3>3
  <2> QED BY <1>1, <2>2, <2>3
<1>2. ASSUME NEW S \in SUBSET C, NEW c \in C, Top(P \cap S)
      PROVE  Top(P \cap (S \cup {c}))
  <2> HIDE DEF Top
  <2>1. CASE c \in P
    <3>1. P \cap (S \cup {c}) = (P \cap S) \cup {c}
      BY <2>1
    <3>2. P \cap S \in SUBSET C
      OBVIOUS
    <3> QED BY <1>1, <1>2, <3>1, <3>2
  <2>2. CASE c \notin P
    <3>1. P \cap (S \cup {c}) = P \cap S
      BY <2>2
    <3> QED BY <1>2, <3>1
  <2> QED BY <2>1, <2>2
<1> PICK c1 \in Nat, c2 \in Nat, c3 \in Nat, c4 \in Nat : C = {c1, c2, c3, c4}
  OBVIOUS
<1> HIDE DEF Top
<1>3. Top(P \cap {})
  BY DEF Top
<1>4. Top(P \cap ({} \cup {c1}))
  BY <1>2, <1>3
<1>5. Top(P \cap (({} \cup {c1}) \cup {c2}))
  BY <1>2, <1>4
<1>6. Top(P \cap ((({} \cup {c1}) \cup {c2}) \cup {c3}))
  BY <1>2, <1>5
<1>7. Top(P \cap (((({} \cup {c1}) \cup {c2}) \cup {c3}) \cup {c4}))
  BY <1>2, <1>6
<1>8. P \cap (((({} \cup {c1}) \cup {c2}) \cup {c3}) \cup {c4}) = P
  OBVIOUS
<1>9. Top(P)
  BY <1>7, <1>8
<1> QED BY <1>9 DEF Top

(* Of the profitable candidates one is the best.                             *)
LEMMA BestCandidate ==
  ASSUME NEW t \in Terms, NEW o \in MalayOdds, NEW b \in Nat, Profitable(t, o, b) # {}
  PROVE  \E s \in Profitable(t, o, b) : \A x \in Profitable(t, o, b) :
           \/ LeastProfit(t, o, x) < LeastProfit(t, o, s)
           \/ LeastProfit(t, o, x) = LeastProfit(t, o, s) /\ s <= x
<1> DEFINE C == Candidates(t, o, b)
           P == Profitable(t, o, b)
           g == [s \in C |-> LeastProfit(t, o, s)]
<1>1. PICK c1 \in Nat, c2 \in Nat, c3 \in Nat, c4 \in Nat :
        /\ Candidates(t, o, b) = {c1, c2, c3, c4}
        /\ \A c \in {c1, c2, c3, c4} : c % t.increment = 0
  BY CandidatesAreMultiples, Zenon
<1>2. C \subseteq Nat
  BY <1>1
<1>3. g \in [C -> Int]
  BY <1>2, ProfitsType
<1>4. P \in SUBSET C
  BY DEF Profitable
<1>5. \E s \in P : \A x \in P : g[x] < g[s] \/ (g[x] = g[s] /\ s <= x)
  <2>1. \E d1, d2, d3, d4 \in Nat : C = {d1, d2, d3, d4}
    BY <1>1
  <2>2. P # {}
    OBVIOUS
  <2> HIDE DEF C, P, g
  <2> QED BY <2>1, <2>2, <1>2, <1>3, <1>4, BestExists
<1>6. \A x \in P : g[x] = LeastProfit(t, o, x)
  BY <1>4
<1> HIDE DEF g
<1> QED BY <1>5, <1>6

(* A stake that is chosen is one of the profitable candidates.               *)
LEMMA ChosenIsProfitable ==
  ASSUME NEW t \in Terms, NEW o \in MalayOdds, NEW b \in Nat, ChosenStake(t, o, b) # 0
  PROVE  ChosenStake(t, o, b) \in Profitable(t, o, b)
<1> DEFINE P == Profitable(t, o, b)
<1>1. P # {}
  BY DEF ChosenStake
<1>2. \E s \in P : \A x \in P : \/ LeastProfit(t, o, x) < LeastProfit(t, o, s)
                                \/ LeastProfit(t, o, x) = LeastProfit(t, o, s) /\ s <= x
  BY <1>1, BestCandidate
<1>3. ChosenStake(t, o, b) =
        CHOOSE s \in P : \A x \in P : \/ LeastProfit(t, o, x) < LeastProfit(t, o, s)
                                      \/ LeastProfit(t, o, x) = LeastProfit(t, o, s) /\ s <= x
  BY DEF ChosenStake
<1>4. P = Profitable(t, o, b)
  OBVIOUS
<1> HIDE DEF P
<1>5. ChosenStake(t, o, b) \in P
  BY <1>2, <1>3
<1> QED BY <1>4, <1>5

-----------------------------------------------------------------------------
(* The theorems.                                                             *)

Inv == TypeOK /\ PlanIsProfitable

(* An evaluated quote keeps the invariant.                                   *)
LEMMA EvaluateKeepsInv ==
  ASSUME Inv, NEW r \in Revisions, NEW o \in HedgeOdds, NEW b \in Balances, Evaluate(r, o, b)
  PROVE  Inv'
<1> DEFINE s == ChosenStake(terms, o, b)
<1>1. /\ terms \in Terms /\ o \in MalayOdds /\ b \in Nat
      /\ terms' = terms /\ odds' = o /\ balance' = b /\ revision' = r /\ stake' = s
  BY DEF Inv, TypeOK, Evaluate
<1>2. CASE s = 0
  <2>1. stake' = 0 /\ profits' = <<0, 0>>
    BY <1>2 DEF Evaluate
  <2> QED BY <1>1, <2>1 DEF Inv, TypeOK, PlanIsProfitable
<1>3. CASE s # 0
  <2>1. s \in Profitable(terms, o, b)
    BY <1>1, <1>3, ChosenIsProfitable
  <2>2. profits' = <<JunProfit(terms, s), HedgeProfit(terms, o, s)>>
    BY <1>3 DEF Evaluate
  <2>3. /\ s \in Candidates(terms, o, b) /\ s > 0
        /\ Minimum(terms) <= s /\ s <= Maximum(terms, b)
        /\ JunProfit(terms, s) > 0 /\ HedgeProfit(terms, o, s) > 0
    BY <2>1 DEF Profitable
  <2>4. Minimum(terms) > 0
    <3>1. Minimum(terms) \in Nat
      BY <1>1, MinimumType
    <3> QED BY <1>3, <3>1 DEF ChosenStake
  <2>5. s \in Nat /\ s % terms.increment = 0
    <3>1. PICK c1 \in Nat, c2 \in Nat, c3 \in Nat, c4 \in Nat :
            /\ Candidates(terms, o, b) = {c1, c2, c3, c4}
            /\ \A c \in {c1, c2, c3, c4} : c % terms.increment = 0
      BY <1>1, CandidatesAreMultiples, Zenon
    <3> HIDE DEF s
    <3> QED BY <2>3, <3>1
  <2> HIDE DEF s
  <2>6. /\ Minimum(terms) \in Nat /\ terms.minimum <= Minimum(terms)
        /\ Maximum(terms, b) \in Nat
        /\ Maximum(terms, b) > 0 =>
             /\ Maximum(terms, b) <= terms.maximum /\ Maximum(terms, b) <= b
             /\ terms.jun + Maximum(terms, b) <= terms.total
    BY <1>1, <2>4, MinimumType, MaximumType
  <2>7. /\ terms.jun \in Nat /\ terms.minimum \in Nat /\ terms.maximum \in 0..MaxInt
        /\ terms.total \in Nat
    BY <1>1, TermsType
  <2>8. /\ s \in 1..MaxInt /\ terms.minimum <= s /\ s <= terms.maximum
        /\ s <= b /\ terms.jun + s <= terms.total
    BY <1>1, <2>3, <2>5, <2>6, <2>7
  <2>9. JunProfit(terms, s) \in Nat /\ HedgeProfit(terms, o, s) \in Nat
    BY <1>1, <2>3, <2>5, ProfitsType
  <2>10. TypeOK'
    BY <1>1, <2>2, <2>8, <2>9 DEF Inv, TypeOK
  <2>11. Allowed(stake)'
    BY <1>1, <2>5, <2>8 DEF Allowed
  <2>12. PlanIsProfitable'
    <3>1. /\ JunProfit(terms, stake)' = JunProfit(terms, s)
          /\ HedgeProfit(terms, odds, stake)' = HedgeProfit(terms, o, s)
      BY <1>1 DEF JunProfit, HedgeProfit, Profit
    <3> QED BY <1>1, <2>2, <2>3, <2>11, <3>1 DEF PlanIsProfitable
  <2> QED BY <2>10, <2>12 DEF Inv
<1> QED BY <1>2, <1>3

(* The inductive invariant holds.                                            *)
LEMMA InvHolds == Spec => []Inv
<1>1. Init => Inv
  BY DEF Init, Inv, TypeOK, PlanIsProfitable
<1>2. Inv /\ [Next]_vars => Inv'
  <2> SUFFICES ASSUME Inv, [Next]_vars PROVE Inv'
    OBVIOUS
  <2>1. CASE Next
    BY <2>1, EvaluateKeepsInv DEF Next
  <2>2. CASE UNCHANGED vars
    BY <2>2 DEF vars, plan, Inv, TypeOK, PlanIsProfitable, Allowed, JunProfit, HedgeProfit, Profit
  <2> QED BY <2>1, <2>2
<1> QED BY <1>1, <1>2, PTL DEF Spec

(* The projected profits of an exposure are never losses.                    *)
THEOREM StakesAreAmounts == Spec => []TypeOK
  BY InvHolds, PTL DEF Inv

(* For all tickets, limits, odds, balances and increments, the stake that    *)
(* EvaluateExposureHedge leaves in the exposure is a multiple of the         *)
(* increment between all limits, and profitable whoever wins.                *)
THEOREM HedgeIsProfitable == Spec => []PlanIsProfitable
  BY InvHolds, PTL DEF Inv

-----------------------------------------------------------------------------
(* Rounding and the steps of the bookmaker.                                  *)

(* Rounding to at least k, a positive amount, is a matter of the fraction.   *)
LEMMA RoundedAtLeast ==
  ASSUME NEW a \in Int, NEW b \in Nat \ {0}, NEW k \in Nat \ {0}
  PROVE  Rounded(a, b) >= k <=> 2 * a >= 2 * (k * b) - b
<1>1. k * b \in Nat /\ k * b >= b
  OBVIOUS
<1>2. CASE a >= 0
  <2> DEFINE q == (2 * a + b) \div (2 * b)
             r == (2 * a + b) % (2 * b)
  <2>1. q \in Int /\ r \in Int /\ 0 <= r /\ r < 2 * b /\ 2 * a + b = (2 * b) * q + r
    OBVIOUS
  <2>2. Rounded(a, b) = q
    BY <1>2 DEF Rounded
  <2> HIDE DEF q, r
  <2>3. (2 * b) * q = 2 * (q * b) /\ q * b \in Int
    BY <2>1
  <2>4. q >= k => q * b >= k * b
    BY <2>1
  <2>5. ~(q >= k) => q * b + b <= k * b
    <3>1. SUFFICES ASSUME ~(q >= k) PROVE q * b + b <= k * b
      OBVIOUS
    <3>2. (k - q - 1) * b >= 0
      BY <2>1, <3>1
    <3>3. (k - q - 1) * b = k * b - q * b - b
      BY <2>1
    <3> QED BY <1>1, <2>3, <3>2, <3>3
  <2> QED BY <1>1, <2>1, <2>2, <2>3, <2>4, <2>5
<1>3. CASE a < 0
  <2>1. (b - 2 * a) \div (2 * b) >= 0 /\ (b - 2 * a) \div (2 * b) \in Int
    BY <1>3
  <2>2. Rounded(a, b) <= 0 /\ Rounded(a, b) \in Int
    BY <1>3, <2>1 DEF Rounded
  <2> QED BY <1>1, <1>3, <2>2
<1> QED BY <1>2, <1>3

(* No multiple at most the value exceeds alignDown's.                        *)
LEMMA AlignDownIsLargest ==
  ASSUME NEW v \in Int, NEW i \in Nat \ {0}, NEW m \in Nat, m % i = 0, m <= v
  PROVE  m <= AlignDown(v, i)
<1>1. CASE v <= 0
  BY <1>1 DEF AlignDown
<1>2. CASE v > 0
  <2> DEFINE q == v \div i
             p == m \div i
  <2>1. v % i \in 0..(i - 1) /\ v = i * q + (v % i) /\ q \in Nat
    BY <1>2
  <2>2. p \in Nat /\ m = i * p
    OBVIOUS
  <2>3. AlignDown(v, i) = i * q
    BY <1>2, <2>1 DEF AlignDown
  <2> HIDE DEF p, q
  <2>4. p <= q
    <3>1. SUFFICES ASSUME p >= q + 1 PROVE FALSE
      BY <2>1, <2>2
    <3>2. i * (p - q - 1) >= 0
      BY <2>1, <2>2, <3>1
    <3>3. i * (p - q - 1) = i * p - i * q - i
      BY <2>1, <2>2
    <3>4. i * p \in Int /\ i * q \in Int
      BY <2>1, <2>2
    <3> QED BY <2>1, <2>2, <3>2, <3>3, <3>4
  <2>5. i * (q - p) >= 0
    BY <2>1, <2>2, <2>4
  <2>6. i * (q - p) = i * q - i * p /\ i * q \in Int /\ i * p \in Int
    BY <2>1, <2>2
  <2>7. m <= i * q
    BY <2>2, <2>5, <2>6
  <2> QED BY <2>3, <2>7
<1> QED BY <1>1, <1>2

(* A multiple that is no less than the value is no less than alignUp's, and  *)
(* then alignUp's is an integer of the machine.                              *)
LEMMA AlignUpIsSmallest ==
  ASSUME NEW v \in Int, NEW i \in Nat \ {0}, NEW m \in 0..MaxInt, m % i = 0, 0 < v, v <= m
  PROVE  0 < AlignUp(v, i) /\ AlignUp(v, i) <= m
<1> DEFINE q == v \div i
           p == m \div i
           r == v % i
<1>1. r \in 0..(i - 1) /\ v = i * q + r /\ q \in Nat /\ i * q \in Int
  OBVIOUS
<1>2. p \in Nat /\ m = i * p /\ m \in Int /\ MaxInt \in Int
  OBVIOUS
<1>3. CASE r = 0
  BY <1>3 DEF AlignUp
<1>4. CASE r # 0
  <2>1. i * q + i <= m
    <3> HIDE DEF p, q, r
    <3>1. p >= q + 1
      <4>1. SUFFICES ASSUME p <= q PROVE FALSE
        BY <1>1, <1>2
      <4>2. i * (q - p) >= 0
        BY <1>1, <1>2, <4>1
      <4>3. i * (q - p) = i * q - i * p
        BY <1>1, <1>2
      <4> QED BY <1>1, <1>2, <1>4, <4>2, <4>3
    <3>2. i * (p - q - 1) >= 0
      BY <1>1, <1>2, <3>1
    <3>3. i * (p - q - 1) = i * p - i * q - i
      BY <1>1, <1>2
    <3> QED BY <1>1, <1>2, <3>2, <3>3
  <2>2. AlignUp(v, i) = v + i - r
    BY <1>1, <1>2, <1>4, <2>1 DEF AlignUp
  <2> QED BY <1>1, <1>2, <2>1, <2>2
<1> QED BY <1>3, <1>4

-----------------------------------------------------------------------------
(* The profits on either side of the equal payout.                           *)

(* What is left when a stake of the hedge wins grows with the stake, and     *)
(* what is left when Jun88 wins shrinks; the fraction num / den is the       *)
(* decimal odds, and the amounts are those that Profit rounds.               *)
LEMMA LeftGrows ==
  ASSUME NEW jun \in Nat, NEW x \in Nat, NEW y \in Nat, x <= y,
         NEW num \in Nat, NEW den \in Nat, den <= num
  PROVE  x * num - (jun + x) * den <= y * num - (jun + y) * den
<1>1. (y - x) * (num - den) >= 0
  OBVIOUS
<1>2. (y - x) * (num - den) = (y * num - (jun + y) * den) - (x * num - (jun + x) * den)
  OBVIOUS
<1>3. /\ x * num - (jun + x) * den \in Int /\ y * num - (jun + y) * den \in Int
  OBVIOUS
<1> QED BY <1>1, <1>2, <1>3

(* Each unit more of the hedge is lost when Jun88 wins.                      *)
LEMMA LeftShrinks ==
  ASSUME NEW jun \in Nat, NEW x \in Nat, NEW y \in Nat, x <= y,
         NEW num \in Nat, NEW den \in Nat
  PROVE  jun * num - (jun + y) * den <= jun * num - (jun + x) * den
<1>1. (y - x) * den >= 0
  OBVIOUS
<1>2. (y - x) * den = (jun * num - (jun + x) * den) - (jun * num - (jun + y) * den)
  OBVIOUS
<1>3. /\ jun * num - (jun + x) * den \in Int /\ jun * num - (jun + y) * den \in Int
  OBVIOUS
<1> QED BY <1>1, <1>2, <1>3

(* A positive factor of an inequality may be left out.                       *)
LEMMA FactorLeftOut ==
  ASSUME NEW a \in Int, NEW b \in Int, NEW d \in Nat \ {0}, a * d <= b * d
  PROVE  a <= b
<1>1. SUFFICES ASSUME a >= b + 1 PROVE FALSE
  OBVIOUS
<1>2. (a - b - 1) * d >= 0
  BY <1>1
<1>3. (a - b - 1) * d = a * d - b * d - d /\ a * d \in Int /\ b * d \in Int
  OBVIOUS
<1> QED BY <1>2, <1>3

(* Below the equal payout the hedge's win is the worse outcome: what it      *)
(* leaves at least, Jun88's leaves too.                                      *)
LEMMA BelowEqual ==
  ASSUME NEW jun \in Nat, NEW s \in Nat, NEW k \in Int,
         NEW n1 \in Nat \ {0}, NEW d1 \in Nat \ {0}, NEW n2 \in Nat \ {0}, NEW d2 \in Nat \ {0},
         s * (d1 * n2) <= jun * n1 * d2,
         2 * (s * n2 - (jun + s) * d2) >= 2 * (k * d2) - d2
  PROVE  2 * (jun * n1 - (jun + s) * d1) >= 2 * (k * d1) - d1
<1> DEFINE A == jun * n1 - (jun + s) * d1
           H == s * n2 - (jun + s) * d2
<1>1. A \in Int /\ H \in Int /\ k * d1 \in Int /\ k * d2 \in Int
  OBVIOUS
<1>2. A * d2 - H * d1 = jun * n1 * d2 - s * (d1 * n2)
  OBVIOUS
<1>3. A * d2 \in Int /\ H * d1 \in Int /\ s * (d1 * n2) \in Int /\ jun * n1 * d2 \in Int
  OBVIOUS
<1>4. H * d1 <= A * d2
  BY <1>2, <1>3
<1>5. (2 * (k * d2) - d2) * d1 <= (2 * H) * d1
  <2> DEFINE z == 2 * H - (2 * (k * d2) - d2)
  <2>1. z >= 0 /\ z \in Int
    BY <1>1
  <2>2. z * d1 = (2 * H) * d1 - (2 * (k * d2) - d2) * d1
    BY <1>1
  <2> HIDE DEF z
  <2>3. z * d1 >= 0
    BY <2>1
  <2>4. (2 * H) * d1 \in Int /\ (2 * (k * d2) - d2) * d1 \in Int
    BY <1>1
  <2> HIDE DEF H
  <2> QED BY <2>2, <2>3, <2>4
<1>6. (2 * (k * d2) - d2) * d1 = (2 * (k * d1) - d1) * d2
  OBVIOUS
<1>7. (2 * H) * d1 = 2 * (H * d1) /\ (2 * A) * d2 = 2 * (A * d2)
  BY <1>1
<1> HIDE DEF A, H
<1>8. (2 * (k * d1) - d1) * d2 <= (2 * A) * d2
  <2>1. (2 * (k * d1) - d1) * d2 \in Int
    BY <1>1
  <2> QED BY <1>3, <1>4, <1>5, <1>6, <1>7, <2>1
<1>9. 2 * (k * d1) - d1 \in Int /\ 2 * A \in Int
  BY <1>1
<1>10. 2 * (k * d1) - d1 <= 2 * A
  BY <1>8, <1>9, FactorLeftOut
<1> QED BY <1>1, <1>9, <1>10 DEF A

(* Above it Jun88's win is the worse outcome.                                *)
LEMMA AboveEqual ==
  ASSUME NEW jun \in Nat, NEW s \in Nat, NEW k \in Int,
         NEW n1 \in Nat \ {0}, NEW d1 \in Nat \ {0}, NEW n2 \in Nat \ {0}, NEW d2 \in Nat \ {0},
         jun * n1 * d2 <= s * (d1 * n2),
         2 * (jun * n1 - (jun + s) * d1) >= 2 * (k * d1) - d1
  PROVE  2 * (s * n2 - (jun + s) * d2) >= 2 * (k * d2) - d2
<1> DEFINE A == jun * n1 - (jun + s) * d1
           H == s * n2 - (jun + s) * d2
<1>1. A \in Int /\ H \in Int /\ k * d1 \in Int /\ k * d2 \in Int
  OBVIOUS
<1>2. H * d1 - A * d2 = s * (d1 * n2) - jun * n1 * d2
  OBVIOUS
<1>3. A * d2 \in Int /\ H * d1 \in Int /\ s * (d1 * n2) \in Int /\ jun * n1 * d2 \in Int
  OBVIOUS
<1>4. A * d2 <= H * d1
  BY <1>2, <1>3
<1>5. (2 * (k * d1) - d1) * d2 <= (2 * A) * d2
  <2> DEFINE z == 2 * A - (2 * (k * d1) - d1)
  <2>1. z >= 0 /\ z \in Int
    BY <1>1
  <2>2. z * d2 = (2 * A) * d2 - (2 * (k * d1) - d1) * d2
    BY <1>1
  <2> HIDE DEF z
  <2>3. z * d2 >= 0
    BY <2>1
  <2>4. (2 * A) * d2 \in Int /\ (2 * (k * d1) - d1) * d2 \in Int
    BY <1>1
  <2> HIDE DEF A
  <2> QED BY <2>2, <2>3, <2>4
<1>6. (2 * (k * d2) - d2) * d1 = (2 * (k * d1) - d1) * d2
  OBVIOUS
<1>7. (2 * H) * d1 = 2 * (H * d1) /\ (2 * A) * d2 = 2 * (A * d2)
  BY <1>1
<1> HIDE DEF A, H
<1>8. (2 * (k * d2) - d2) * d1 <= (2 * H) * d1
  <2>1. (2 * (k * d1) - d1) * d2 \in Int
    BY <1>1
  <2> QED BY <1>3, <1>4, <1>5, <1>6, <1>7, <2>1
<1>9. 2 * (k * d2) - d2 \in Int /\ 2 * H \in Int
  BY <1>1
<1>10. 2 * (k * d2) - d2 <= 2 * H
  BY <1>8, <1>9, FactorLeftOut
<1> QED BY <1>1, <1>9, <1>10 DEF H

(* The worse outcome leaves at least k when both outcomes do.                *)
LEMMA LeastAtLeast ==
  ASSUME NEW t \in Terms, NEW o \in MalayOdds, NEW s \in Nat, NEW k \in Nat \ {0}
  PROVE  LeastProfit(t, o, s) >= k <=>
           /\ 2 * (t.jun * Decimal(t.odds).num - (t.jun + s) * Decimal(t.odds).den)
                >= 2 * (k * Decimal(t.odds).den) - Decimal(t.odds).den
           /\ 2 * (s * Decimal(o).num - (t.jun + s) * Decimal(o).den)
                >= 2 * (k * Decimal(o).den) - Decimal(o).den
<1> DEFINE n1 == Decimal(t.odds).num
           d1 == Decimal(t.odds).den
           n2 == Decimal(o).num
           d2 == Decimal(o).den
           A == t.jun * n1 - (t.jun + s) * d1
           H == s * n2 - (t.jun + s) * d2
<1>1. /\ t.jun \in Nat /\ n1 \in Nat \ {0} /\ d1 \in Nat \ {0} /\ n2 \in Nat \ {0} /\ d2 \in Nat \ {0}
  BY TermsType, DecimalType
<1>2. JunProfit(t, s) = Rounded(A, d1) /\ HedgeProfit(t, o, s) = Rounded(H, d2)
  BY DEF JunProfit, HedgeProfit, Profit
<1>3. A \in Int /\ H \in Int
  <2> HIDE DEF n1, d1, n2, d2
  <2> QED BY <1>1
<1> HIDE DEF A, H
<1>4. /\ Rounded(A, d1) >= k <=> 2 * A >= 2 * (k * d1) - d1
      /\ Rounded(H, d2) >= k <=> 2 * H >= 2 * (k * d2) - d2
  <2> HIDE DEF n1, d1, n2, d2
  <2> QED BY <1>1, <1>3, RoundedAtLeast
<1>5. JunProfit(t, s) \in Int /\ HedgeProfit(t, o, s) \in Int
  BY ProfitsType
<1>6. LeastProfit(t, o, s) >= k <=> JunProfit(t, s) >= k /\ HedgeProfit(t, o, s) >= k
  BY <1>5 DEF LeastProfit
<1> QED BY <1>2, <1>4, <1>6 DEF A, H

(* A larger stake below the equal payout, or a smaller one above it, is no   *)
(* worse.                                                                    *)
LEMMA CloserIsBetter ==
  ASSUME NEW t \in Terms, NEW o \in MalayOdds, NEW s \in Nat, NEW c \in Nat,
         LeastProfit(t, o, s) > 0,
         \/ s <= c /\ c * Equalized(t, o).den <= Equalized(t, o).num
         \/ c <= s /\ Equalized(t, o).num <= c * Equalized(t, o).den
  PROVE  LeastProfit(t, o, s) <= LeastProfit(t, o, c)
<1> DEFINE n1 == Decimal(t.odds).num
           d1 == Decimal(t.odds).den
           n2 == Decimal(o).num
           d2 == Decimal(o).den
           k == LeastProfit(t, o, s)
           A(x) == t.jun * n1 - (t.jun + x) * d1
           H(x) == x * n2 - (t.jun + x) * d2
<1>1. /\ t.jun \in Nat /\ n1 \in Nat \ {0} /\ d1 \in Nat \ {0} /\ n2 \in Nat \ {0} /\ d2 \in Nat \ {0}
      /\ d2 <= n2
  <2>1. t.jun \in Nat /\ t.odds \in MalayOdds
    BY TermsType
  <2>2. d2 <= n2
    BY DEF Decimal, MalayOdds
  <2> QED BY <2>1, <2>2, DecimalType
<1>2. k \in Nat \ {0}
  BY ProfitsType
<1>3. 2 * A(s) >= 2 * (k * d1) - d1 /\ 2 * H(s) >= 2 * (k * d2) - d2
  BY <1>2, LeastAtLeast
<1>4. 2 * A(c) >= 2 * (k * d1) - d1 /\ 2 * H(c) >= 2 * (k * d2) - d2 => LeastProfit(t, o, c) >= k
  BY <1>2, LeastAtLeast
<1>5. Equalized(t, o).num = t.jun * n1 * d2 /\ Equalized(t, o).den = d1 * n2
  BY DEF Equalized
<1>6. /\ A(s) \in Int /\ H(s) \in Int /\ A(c) \in Int /\ H(c) \in Int
      /\ k * d1 \in Int /\ k * d2 \in Int
  <2> HIDE DEF n1, d1, n2, d2, k
  <2> QED BY <1>1, <1>2
<1>7. LeastProfit(t, o, c) \in Int
  BY ProfitsType
<1>8. CASE s <= c /\ c * (d1 * n2) <= t.jun * n1 * d2
  <2> HIDE DEF n1, d1, n2, d2, k
  <2>1. H(s) <= H(c)
    BY <1>1, <1>8, LeftGrows
  <2>2. 2 * H(c) >= 2 * (k * d2) - d2
    <3> HIDE DEF A, H
    <3> QED BY <1>1, <1>2, <1>3, <1>6, <2>1
  <2>3. 2 * A(c) >= 2 * (k * d1) - d1
    BY <1>1, <1>2, <1>8, <2>2, BelowEqual
  <2> HIDE DEF A, H
  <2> QED BY <1>2, <1>4, <1>7, <2>2, <2>3 DEF k
<1>9. CASE c <= s /\ t.jun * n1 * d2 <= c * (d1 * n2)
  <2> HIDE DEF n1, d1, n2, d2, k
  <2>1. A(s) <= A(c)
    BY <1>1, <1>9, LeftShrinks
  <2>2. 2 * A(c) >= 2 * (k * d1) - d1
    <3> HIDE DEF A, H
    <3> QED BY <1>1, <1>2, <1>3, <1>6, <2>1
  <2>3. 2 * H(c) >= 2 * (k * d2) - d2
    BY <1>1, <1>2, <1>9, <2>2, AboveEqual
  <2> HIDE DEF A, H
  <2> QED BY <1>2, <1>4, <1>7, <2>2, <2>3 DEF k
<1> QED BY <1>5, <1>8, <1>9

(* Every stake between the limits lies between the smallest and the largest  *)
(* that the code computes.                                                   *)
LEMMA AllowedBetween ==
  ASSUME NEW t \in Terms, NEW b \in Nat, NEW s \in 1..MaxInt, s % t.increment = 0,
         t.minimum <= s, s <= t.maximum, s <= b, t.jun + s <= t.total
  PROVE  0 < Minimum(t) /\ Minimum(t) <= s /\ s <= Maximum(t, b)
<1>1. /\ t.increment \in Nat \ {0} /\ t.minimum \in Nat /\ t.maximum \in Nat /\ t.jun \in Nat
      /\ t.total \in Nat /\ s \in Nat
  BY TermsType
<1>2. 0 < Minimum(t) /\ Minimum(t) <= s
  <2> DEFINE v == IF t.minimum = 0 THEN t.increment ELSE t.minimum
  <2>1. s >= t.increment
    BY <1>1
  <2>2. v \in Int /\ 0 < v /\ v <= s
    BY <1>1, <2>1
  <2>3. Minimum(t) = AlignUp(v, t.increment)
    BY DEF Minimum
  <2> HIDE DEF v
  <2> QED BY <1>1, <2>2, <2>3, AlignUpIsSmallest
<1>3. s <= Maximum(t, b)
  <2> DEFINE m == CHOOSE m \in Limits(t, b) : \A n \in Limits(t, b) : m <= n
  <2>1. m \in Limits(t, b) /\ m \in Int
    BY LeastLimit
  <2>2. Maximum(t, b) = AlignDown(m, t.increment)
    BY DEF Maximum
  <2> HIDE DEF m
  <2>3. s <= m
    BY <1>1, <2>1 DEF Limits
  <2> QED BY <1>1, <2>1, <2>2, <2>3, AlignDownIsLargest
<1> QED BY <1>2, <1>3

(* Four candidates are enough: for every stake between the limits that       *)
(* leaves a profit one of them leaves no less.                               *)
LEMMA CandidatesSuffice ==
  ASSUME NEW t \in Terms, NEW o \in MalayOdds, NEW b \in Nat,
         NEW s \in 1..MaxInt, s % t.increment = 0, Minimum(t) <= s, s <= Maximum(t, b),
         0 < Minimum(t), LeastProfit(t, o, s) > 0
  PROVE  \E c \in Profitable(t, o, b) : LeastProfit(t, o, s) <= LeastProfit(t, o, c)
<1> DEFINE e == Equalized(t, o)
           floor == e.num \div e.den
           ceil == -((-e.num) \div e.den)
           c1 == AlignDown(Clamped(t, b, floor), t.increment)
           c2 == AlignUp(Clamped(t, b, ceil), t.increment)
           min == Minimum(t)
           max == Maximum(t, b)
<1>1. /\ t.increment \in Nat \ {0} /\ s \in Nat /\ MaxInt \in Nat /\ t.maximum \in 0..MaxInt
  BY TermsType
<1>2. e.num \in Nat /\ e.den \in Nat \ {0}
  <2>1. t.jun \in Nat /\ t.odds \in MalayOdds
    BY TermsType
  <2>2. /\ Decimal(t.odds).num \in Nat \ {0} /\ Decimal(t.odds).den \in Nat \ {0}
        /\ Decimal(o).num \in Nat \ {0} /\ Decimal(o).den \in Nat \ {0}
    BY <2>1, DecimalType
  <2>3. /\ t.jun * Decimal(t.odds).num * Decimal(o).den \in Nat
        /\ Decimal(t.odds).den * Decimal(o).num \in Nat \ {0}
    BY <2>1, <2>2
  <2> QED BY <2>3 DEF Equalized
<1>3. /\ floor \in Nat /\ floor * e.den <= e.num /\ e.num < (floor + 1) * e.den
      /\ ceil \in Int /\ e.num <= ceil * e.den /\ (ceil - 1) * e.den < e.num
  <2> DEFINE n == e.num
             d == e.den
  <2> n \in Nat /\ d \in Nat \ {0}
    BY <1>2
  <2> HIDE DEF e, n, d
  <2>1. n \div d \in Nat /\ (n \div d) * d <= n /\ n < ((n \div d) + 1) * d
    OBVIOUS
  <2>2. LET f == (-n) \div d IN f \in Int /\ f * d <= -n /\ -n < (f + 1) * d
    OBVIOUS
  <2>3. LET f == (-n) \div d IN (-f) * d = -(f * d) /\ (-f - 1) * d = -((f + 1) * d)
    OBVIOUS
  <2>4. LET f == (-n) \div d IN f * d \in Int /\ (f + 1) * d \in Int
    OBVIOUS
  <2>5. LET f == (-n) \div d IN -f \in Int /\ n <= (-f) * d /\ (-f - 1) * d < n
    BY <2>2, <2>3, <2>4
  <2> QED BY <2>1, <2>5 DEF n, d
<1>4. /\ min \in Nat /\ min % t.increment = 0 /\ max \in Nat /\ max % t.increment = 0
      /\ max <= MaxInt
  <2>1. max > 0 => max <= t.maximum
    BY MaximumType
  <2> QED BY <1>1, <2>1, MinimumType, MaximumType
<1>5. {c1, c2, min, max} = Candidates(t, o, b)
  BY DEF Candidates
<1>6. ASSUME NEW c \in Candidates(t, o, b), c \in Nat, min <= c, c <= max,
             LeastProfit(t, o, s) <= LeastProfit(t, o, c)
      PROVE  \E x \in Profitable(t, o, b) : LeastProfit(t, o, s) <= LeastProfit(t, o, x)
  <2>1. JunProfit(t, c) > 0 /\ HedgeProfit(t, o, c) > 0
    <3>1. /\ JunProfit(t, c) \in Int /\ HedgeProfit(t, o, c) \in Int
          /\ LeastProfit(t, o, s) \in Int /\ LeastProfit(t, o, c) \in Int
      BY <1>6, ProfitsType
    <3>2. LeastProfit(t, o, c) > 0
      BY <1>6, <3>1
    <3> QED BY <3>1, <3>2 DEF LeastProfit
  <2>2. c > 0
    BY <1>4, <1>6
  <2>3. c \in Profitable(t, o, b)
    BY <1>6, <2>1, <2>2 DEF Profitable
  <2> QED BY <1>6, <2>3
<1>7. ASSUME NEW c \in Candidates(t, o, b), c \in Nat, min <= c, c <= max,
             \/ s <= c /\ c * e.den <= e.num
             \/ c <= s /\ e.num <= c * e.den
      PROVE  \E x \in Profitable(t, o, b) : LeastProfit(t, o, s) <= LeastProfit(t, o, x)
  <2>1. LeastProfit(t, o, s) <= LeastProfit(t, o, c)
    BY <1>1, <1>7, CloserIsBetter
  <2> QED BY <1>6, <1>7, <2>1
<1> HIDE DEF e, floor, ceil, min, max
<1>8. ASSUME NEW x \in Int, NEW y \in Int, x <= y PROVE x * e.den <= y * e.den
  <2>1. (y - x) * e.den >= 0
    BY <1>2, <1>8
  <2>2. (y - x) * e.den = y * e.den - x * e.den /\ y * e.den \in Int /\ x * e.den \in Int
    BY <1>2
  <2> QED BY <2>1, <2>2
<1>9. CASE s <= floor
  <2>1. min <= floor
    BY <1>1, <1>3, <1>4, <1>9 DEF min
  <2>2. CASE floor > max
    <3>1. max * e.den <= floor * e.den
      BY <1>3, <1>4, <1>8, <2>2
    <3>2. max * e.den <= e.num
      BY <1>2, <1>3, <1>4, <3>1
    <3>3. s <= max /\ min <= max
      BY <1>1, <1>4 DEF min, max
    <3> QED BY <1>4, <1>5, <1>7, <3>2, <3>3
  <2>3. CASE floor <= max
    <3>1. Clamped(t, b, floor) = floor
      BY <1>3, <1>4, <2>1, <2>3 DEF Clamped, min, max
    <3>2. c1 = AlignDown(floor, t.increment)
      BY <3>1
    <3> HIDE DEF c1
    <3>3. c1 \in Nat /\ (c1 > 0 => c1 <= floor)
      BY <1>1, <1>3, <3>2, AlignDownIsMultiple
    <3>4. s <= c1 /\ min <= c1
      <4>1. s <= c1
        BY <1>1, <1>3, <1>9, <3>2, AlignDownIsLargest
      <4> QED BY <1>1, <1>4, <3>3, <4>1 DEF min
    <3>5. c1 <= floor /\ c1 <= max
      BY <1>1, <1>3, <1>4, <2>3, <3>3, <3>4
    <3>6. c1 * e.den <= e.num
      <4>1. c1 * e.den <= floor * e.den
        BY <1>3, <1>8, <3>3, <3>5
      <4> QED BY <1>2, <1>3, <3>3, <4>1
    <3> QED BY <1>5, <1>7, <3>3, <3>4, <3>5, <3>6
  <2> QED BY <1>3, <1>4, <2>2, <2>3
<1>10. CASE ~(s <= floor)
  <2>1. ceil <= s
    <3>1. SUFFICES ASSUME s <= ceil - 1 PROVE FALSE
      BY <1>1, <1>3
    <3>2. floor + 1 <= ceil - 1
      BY <1>1, <1>3, <1>10, <3>1
    <3>3. (floor + 1) * e.den <= (ceil - 1) * e.den
      BY <1>3, <1>8, <3>2
    <3>4. (floor + 1) * e.den \in Int /\ (ceil - 1) * e.den \in Int
      BY <1>2, <1>3
    <3> QED BY <1>2, <1>3, <3>3, <3>4
  <2>2. ceil <= max
    BY <1>1, <1>3, <1>4, <2>1 DEF max
  <2>3. CASE ceil < min
    <3>1. ceil * e.den <= min * e.den
      BY <1>3, <1>4, <1>8, <2>3
    <3>2. e.num <= min * e.den
      BY <1>2, <1>3, <1>4, <3>1
    <3>3. min <= s /\ min <= max
      BY <1>1, <1>4 DEF min, max
    <3> QED BY <1>4, <1>5, <1>7, <3>2, <3>3
  <2>4. CASE min <= ceil
    <3>1. Clamped(t, b, ceil) = ceil
      BY <1>3, <1>4, <2>2, <2>4 DEF Clamped, min, max
    <3>2. c2 = AlignUp(ceil, t.increment)
      BY <3>1
    <3> HIDE DEF c2
    <3>3. 0 < ceil
      BY <1>3, <1>4, <2>4 DEF min
    <3>4. 0 < c2 /\ c2 <= s
      BY <1>1, <1>3, <2>1, <3>2, <3>3, AlignUpIsSmallest
    <3>5. c2 \in Nat /\ ceil <= c2
      BY <1>1, <1>3, <3>2, <3>4, AlignUpIsMultiple
    <3>6. min <= c2 /\ c2 <= max
      BY <1>1, <1>3, <1>4, <2>4, <3>4, <3>5 DEF max
    <3>7. e.num <= c2 * e.den
      <4>1. ceil * e.den <= c2 * e.den
        BY <1>3, <1>8, <3>5
      <4> QED BY <1>2, <1>3, <3>5, <4>1
    <3> QED BY <1>5, <1>7, <3>4, <3>5, <3>6, <3>7
  <2> QED BY <1>3, <1>4, <2>3, <2>4
<1> QED BY <1>9, <1>10

(* The stake that is chosen is the best candidate, and 0 means that none is  *)
(* profitable.                                                               *)
LEMMA ChosenIsBest ==
  ASSUME NEW t \in Terms, NEW o \in MalayOdds, NEW b \in Nat,
         ValidTerms(t, b), Minimum(t) > 0, NEW c \in Profitable(t, o, b)
  PROVE  ChosenStake(t, o, b) # 0 /\ LeastProfit(t, o, c) <= LeastProfit(t, o, ChosenStake(t, o, b))
<1> DEFINE P == Profitable(t, o, b)
           chosen == ChosenStake(t, o, b)
<1>1. \E s \in P : \A x \in P : \/ LeastProfit(t, o, x) < LeastProfit(t, o, s)
                                \/ LeastProfit(t, o, x) = LeastProfit(t, o, s) /\ s <= x
  BY BestCandidate
<1>2. chosen = CHOOSE s \in P : \A x \in P : \/ LeastProfit(t, o, x) < LeastProfit(t, o, s)
                                             \/ LeastProfit(t, o, x) = LeastProfit(t, o, s) /\ s <= x
  <2>1. Minimum(t) \in Nat
    BY MinimumType
  <2> QED BY <2>1 DEF ChosenStake
<1>3. P \subseteq Nat \ {0}
  <2>1. PICK c1 \in Nat, c2 \in Nat, c3 \in Nat, c4 \in Nat :
          /\ Candidates(t, o, b) = {c1, c2, c3, c4}
          /\ \A x \in {c1, c2, c3, c4} : x % t.increment = 0
    BY CandidatesAreMultiples, Zenon
  <2> QED BY <2>1 DEF Profitable
<1> HIDE DEF P, chosen
<1>4. /\ chosen \in P
      /\ \A x \in P : \/ LeastProfit(t, o, x) < LeastProfit(t, o, chosen)
                      \/ LeastProfit(t, o, x) = LeastProfit(t, o, chosen) /\ chosen <= x
  BY <1>1, <1>2
<1>5. c \in P
  BY DEF P
<1>6. LeastProfit(t, o, c) \in Int /\ LeastProfit(t, o, chosen) \in Int
  BY <1>3, <1>4, <1>5, ProfitsType
<1>7. chosen # 0 /\ LeastProfit(t, o, c) <= LeastProfit(t, o, chosen)
  BY <1>3, <1>4, <1>5, <1>6
<1> QED BY <1>7 DEF chosen

-----------------------------------------------------------------------------
(* The theorem.                                                              *)

(* What holds of the exposure: its stake is the one chosen for the quote     *)
(* that was evaluated last.                                                  *)
StakeIsChosen ==
  revision # NoRevision =>
    \E t \in Terms, o \in MalayOdds, b \in Nat :
      terms = t /\ odds = o /\ balance = b /\ stake = ChosenStake(t, o, b)

(* For all tickets, limits, odds, balances and increments, four candidates   *)
(* are enough: no stake that the bookmaker and the account allow leaves more *)
(* in the worse case, and an exposure is left open only when none leaves a   *)
(* profit.                                                                   *)
THEOREM NoStakeIsBetter == Spec => []NoBetterStake
<1>1. Init => StakeIsChosen
  BY DEF Init, StakeIsChosen
<1>2. TypeOK /\ StakeIsChosen /\ [Next]_vars => StakeIsChosen'
  <2> SUFFICES ASSUME TypeOK, StakeIsChosen, [Next]_vars PROVE StakeIsChosen'
    OBVIOUS
  <2>1. ASSUME NEW r \in Revisions, NEW o \in HedgeOdds, NEW b \in Balances, Evaluate(r, o, b)
        PROVE  StakeIsChosen'
    <3>1. PICK t \in Terms : t = terms
      BY DEF TypeOK
    <3>2. /\ terms' = t /\ odds' = o /\ balance' = b /\ stake' = ChosenStake(t, o, b)
          /\ o \in MalayOdds /\ b \in Nat
      BY <2>1, <3>1 DEF Evaluate
    <3> QED BY <3>2 DEF StakeIsChosen
  <2>2. CASE UNCHANGED vars
    BY <2>2 DEF vars, plan, StakeIsChosen
  <2> QED BY <2>1, <2>2 DEF Next
<1>3. TypeOK /\ StakeIsChosen => NoBetterStake
  <2> SUFFICES ASSUME TypeOK, StakeIsChosen, revision # NoRevision,
                      NEW s \in 1..terms.maximum, Allowed(s), LeastProfit(terms, odds, s) > 0
               PROVE  stake # 0 /\ LeastProfit(terms, odds, s) <= LeastProfit(terms, odds, stake)
    BY DEF NoBetterStake
  <2>1. /\ terms \in Terms /\ odds \in MalayOdds /\ balance \in Nat
        /\ stake = ChosenStake(terms, odds, balance)
    BY DEF TypeOK, StakeIsChosen
  <2>2. /\ s \in 1..MaxInt /\ s % terms.increment = 0 /\ terms.minimum <= s
        /\ s <= terms.maximum /\ s <= balance /\ terms.jun + s <= terms.total
    BY DEF Allowed
  <2>3. 0 < Minimum(terms) /\ Minimum(terms) <= s /\ s <= Maximum(terms, balance)
    BY <2>1, <2>2, AllowedBetween
  <2>4. PICK c \in Profitable(terms, odds, balance) :
               LeastProfit(terms, odds, s) <= LeastProfit(terms, odds, c)
    BY <2>1, <2>2, <2>3, CandidatesSuffice
  <2>5. ValidTerms(terms, balance)
    BY <2>1, <2>2, TermsType DEF ValidTerms
  <2>6. stake # 0 /\ LeastProfit(terms, odds, c) <= LeastProfit(terms, odds, stake)
    BY <2>1, <2>3, <2>5, ChosenIsBest
  <2>7. stake \in Nat /\ c \in Nat /\ s \in Nat
    <3>1. PICK c1 \in Nat, c2 \in Nat, c3 \in Nat, c4 \in Nat :
            /\ Candidates(terms, odds, balance) = {c1, c2, c3, c4}
            /\ \A x \in {c1, c2, c3, c4} : x % terms.increment = 0
      BY <2>1, CandidatesAreMultiples, Zenon
    <3> QED BY <2>2, <3>1 DEF Profitable, TypeOK
  <2>8. /\ LeastProfit(terms, odds, s) \in Int /\ LeastProfit(terms, odds, c) \in Int
        /\ LeastProfit(terms, odds, stake) \in Int
    BY <2>1, <2>7, ProfitsType
  <2> QED BY <2>4, <2>6, <2>8
<1> QED BY <1>1, <1>2, <1>3, StakesAreAmounts, PTL DEF Spec
=============================================================================
