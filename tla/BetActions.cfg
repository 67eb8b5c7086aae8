SPECIFICATION ScenarioSpec
CONSTANTS
  r1 = r1
  r2 = r2
  a1 = a1
  a2 = a2
  NoRevision = NoRevision
  JunStakes <- Tickets
  JunOdds <- TicketOdds
  Minimums <- Floors
  Maximums <- Ceilings
  Increments <- Steps
  Totals <- Budgets
  HedgeOdds <- QuoteOdds
  Balances <- Purses
  Revisions <- TwoRevisions
  MaxInt = 64
SYMMETRY Symmetry
INVARIANTS PlanIsProfitable NoBetterStake VerdictMatchesTickets
PROPERTIES TicketsHonourPreviews
CHECK_DEADLOCK FALSE
