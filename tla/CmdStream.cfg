SPECIFICATION Spec
CONSTANTS
  r1 = r1
  r2 = r2
  o1 = o1
  o2 = o2
  Gone = Gone
 
PROPERTIES  Converges VanishedRowsLeave
