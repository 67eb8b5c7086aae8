------------------------------ MODULE HedgeStake -------------------------------
(* The arithmetic of the hedge: EvaluateExposureHedge looks at each revision *)
(* of the hedge leg's quote once, and CalculateProfitableHedge looks for a   *)
(* stake that the bookmaker takes and that leaves a profit whoever wins.     *)
(*                                                                           *)
(* Odds are Malay odds in hundredths; decimal odds are fractions, so that    *)
(* only the rounding of the code's profits is modelled and not the error of  *)
(* its floating-point numbers.                                               *)
EXTENDS Integers, FiniteSets

CONSTANTS
  JunStakes, JunOdds,                    \* of the tickets that may be open
  Minimums, Maximums, Increments,        \* the bookmaker's limits
  Totals,                                \* limits of both stakes together
  HedgeOdds, Balances, Revisions,        \* of the quotes that may come
  MaxInt,                                \* largest amount of an integer
  NoRevision

MalayOdds == (-100..100) \ {0}

ASSUME HedgeStakeAssumption ==
  /\ MaxInt \in Nat
  /\ JunStakes \subseteq 1..MaxInt /\ JunOdds \subseteq MalayOdds
  /\ Minimums \subseteq 0..MaxInt /\ Maximums \subseteq 0..MaxInt
  /\ Increments \subseteq 1..MaxInt /\ Totals \subseteq 1..MaxInt
  /\ HedgeOdds \subseteq MalayOdds /\ Balances \subseteq 0..MaxInt
  /\ NoRevision \notin Revisions

VARIABLES
  terms,        \* the ticket and the limits of the exposure
  revision,     \* the revision of the quote last evaluated
  odds, balance,   \* ... its odds and the balance that came with it
  stake,        \* RequiredHedgeStakeVND: 0 when there is none
  profits       \* the projected profits, <<Jun88 wins, hedge wins>>

plan == <<stake, profits>>
vars == <<terms, revision, odds, balance, plan>>

-----------------------------------------------------------------------------
(* The helpers.                                                              *)

(* malayDecimalOdds: 1 + odds, or 1 + 1 / -odds.                             *)
Decimal(o) == IF o > 0 THEN [num |-> 100 + o, den |-> 100] ELSE [num |-> 100 - o, den |-> -o]

AlignDown(value, increment) == IF value <= 0 THEN 0 ELSE value - (value % increment)

(* 0 when the next multiple is no longer an integer of the machine.          *)
AlignUp(value, increment) ==
  LET r == value % increment
  IN IF value <= 0 THEN 0
     ELSE IF r = 0 THEN value
     ELSE IF value > MaxInt - (increment - r) THEN 0
     ELSE value + increment - r

(* math.Round of a / b: halves go away from zero.                            *)
Rounded(a, b) == IF a >= 0 THEN (2 * a + b) \div (2 * b) ELSE -((b - 2 * a) \div (2 * b))

(* What is left when a stake at the odds wins and the total is paid.         *)
Profit(s, o, total) == Rounded(s * Decimal(o).num - total * Decimal(o).den, Decimal(o).den)

JunProfit(t, s) == Profit(t.jun, t.odds, t.jun + s)
HedgeProfit(t, o, s) == Profit(s, o, t.jun + s)
LeastProfit(t, o, s) ==
  IF HedgeProfit(t, o, s) < JunProfit(t, s) THEN HedgeProfit(t, o, s) ELSE JunProfit(t, s)

-----------------------------------------------------------------------------
(* CalculateProfitableHedge.                                                 *)

Limits(t, b) == {t.maximum, b, t.total - t.jun}

Maximum(t, b) == AlignDown(CHOOSE m \in Limits(t, b) : \A n \in Limits(t, b) : m <= n, t.increment)

Minimum(t) == AlignUp(IF t.minimum = 0 THEN t.increment ELSE t.minimum, t.increment)

(* The stake that pays the same whoever wins, as a fraction.                 *)
Equalized(t, o) ==
  [num |-> t.jun * Decimal(t.odds).num * Decimal(o).den, den |-> Decimal(t.odds).den * Decimal(o).num]

Clamped(t, b, s) == IF s > Maximum(t, b) THEN Maximum(t, b) ELSE IF s < Minimum(t) THEN Minimum(t) ELSE s

(* Wrong: only the multiple below the equal payout and the limits.           *)
CandidatesBelow(t, o, b) ==
  LET e == Equalized(t, o)
  IN {AlignDown(Clamped(t, b, e.num \div e.den), t.increment), Minimum(t)}

Candidates(t, o, b) ==
  LET e == Equalized(t, o)
      floor == e.num \div e.den
      ceil == -((-e.num) \div e.den)
  IN {AlignDown(Clamped(t, b, floor), t.increment), AlignUp(Clamped(t, b, ceil), t.increment),
      Minimum(t), Maximum(t, b)}

(* The candidates that are allowed and leave a profit whoever wins.          *)
Profitable(t, o, b) ==
  {s \in Candidates(t, o, b) :
     s > 0 /\ Minimum(t) <= s /\ s <= Maximum(t, b) /\ JunProfit(t, s) > 0 /\ HedgeProfit(t, o, s) > 0}

ValidTerms(t, b) == t.maximum > 0 /\ b > 0 /\ t.total > t.jun

(* The best of them, the smaller stake when two are as good; 0 when there is *)
(* none.                                                                     *)
ChosenStake(t, o, b) ==
  LET choice == Profitable(t, o, b)
  IN IF ~ValidTerms(t, b) \/ Minimum(t) <= 0 \/ choice = {} THEN 0
     ELSE CHOOSE s \in choice : \A x \in choice :
            \/ LeastProfit(t, o, x) < LeastProfit(t, o, s)
            \/ LeastProfit(t, o, x) = LeastProfit(t, o, s) /\ s <= x

-----------------------------------------------------------------------------
(* EvaluateExposureHedge.                                                    *)

Terms ==
  {t \in [jun : JunStakes, odds : JunOdds, minimum : Minimums, maximum : Maximums,
          increment : Increments, total : Totals] : t.total > t.jun}

Init ==
  /\ terms \in Terms
  /\ revision = NoRevision /\ odds = 0 /\ balance = 0
  /\ stake = 0 /\ profits = <<0, 0>>

(* Wrong: a quote that allows no hedge leaves what the one before allowed.   *)
EvaluateKeeping(r, o, b) ==
  /\ r # revision
  /\ revision' = r /\ odds' = o /\ balance' = b
  /\ LET s == ChosenStake(terms, o, b)
     IN IF s # 0 THEN stake' = s /\ profits' = <<JunProfit(terms, s), HedgeProfit(terms, o, s)>>
        ELSE UNCHANGED plan
  /\ UNCHANGED terms

(* A revision evaluated last is refused and changes nothing; the projection  *)
(* of the one before is dropped first.                                       *)
Evaluate(r, o, b) ==
  /\ r # revision
  /\ revision' = r /\ odds' = o /\ balance' = b
  /\ LET s == ChosenStake(terms, o, b)
     IN /\ stake' = s
        /\ profits' = IF s = 0 THEN <<0, 0>>
                      ELSE <<JunProfit(terms, s), HedgeProfit(terms, o, s)>>
  /\ UNCHANGED terms

Next == \E r \in Revisions, o \in HedgeOdds, b \in Balances : Evaluate(r, o, b)

Spec == Init /\ [][Next]_vars

-----------------------------------------------------------------------------
(* Properties.                                                               *)

(* The stake is an amount and the projected profits are no losses.           *)
TypeOK ==
  /\ terms \in Terms
  /\ revision \in Revisions \cup {NoRevision}
  /\ odds \in HedgeOdds \cup {0} /\ balance \in Balances \cup {0}
  /\ stake \in 0..MaxInt /\ profits \in Nat \X Nat

(* A stake the bookmaker takes: a multiple of its increment between its      *)
(* limits, that the account and the action can bear.                         *)
Allowed(s) ==
  /\ s \in 1..MaxInt /\ s % terms.increment = 0
  /\ terms.minimum <= s /\ s <= terms.maximum
  /\ s <= balance /\ terms.jun + s <= terms.total

(* "The allowed stake [...] both outcome profits are rounded to whole VND    *)
(* and must remain strictly > 0", at the odds and the balance of the quote   *)
(* that was evaluated last.                                                  *)
PlanIsProfitable ==
  stake # 0 =>
    /\ Allowed(stake)
    /\ JunProfit(terms, stake) > 0 /\ HedgeProfit(terms, odds, stake) > 0
    /\ profits = <<JunProfit(terms, stake), HedgeProfit(terms, odds, stake)>>

(* Four candidates are enough: no other allowed stake has a better outcome   *)
(* in the worse case, and an exposure is left open only when there is none.  *)
NoBetterStake ==
  revision # NoRevision =>
    \A s \in 1..terms.maximum :
      Allowed(s) /\ LeastProfit(terms, odds, s) > 0 =>
        stake # 0 /\ LeastProfit(terms, odds, s) <= LeastProfit(terms, odds, stake)
=============================================================================
