SPECIFICATION Spec
CONSTANTS
  f1 = f1
  f2 = f2
  ah = ah
  ou = ou
  home = home
  away = away
  n1 = n1
  n2 = n2
  Off = Off
  Gone = Gone
  Absent = Absent
  Null = Null
INVARIANTS  RetirementRemovesQuotes 
PROPERTIES VouchedIsCurrent Converges
