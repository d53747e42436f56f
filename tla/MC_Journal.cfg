SPECIFICATION Spec
CONSTANTS
  Kids = {k1, k2}
  Turns = {t1, t2}
  Requests = {q1, q2}
  Evidence = {0, 1}
  Budgets <- Mixes
SYMMETRY Symmetry
INVARIANTS RowsAgree EvidenceIsKept ActivityIsCurrent
PROPERTIES DisplayOnlySettles
CHECK_DEADLOCK FALSE
