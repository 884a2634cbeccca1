SPECIFICATION Spec
CONSTANTS
  Nothing = Nothing
  Unknown = Unknown
  p1 = p1
  p2 = p2
  t1 = t1
  t2 = t2
  t3 = t3
  u1 = u1
  u2 = u2
  u3 = u3
  u4 = u4
  c1 = c1
  c2 = c2
  c3 = c3
  e1 = e1
  e2 = e2
  g1 = g1
  g2 = g2
  l1 = l1
  n1 = n1
  v1 = v1
  v2 = v2
  w1 = w1
  w2 = w2
SYMMETRY Symmetry
INVARIANTS
   OptedOutAreSkipped  ContactsGetTheirMessages
  ScriptsAreConfined MenuMeansWhatItShowed  MetricsAreCollected
 
CHECK_DEADLOCK FALSE
