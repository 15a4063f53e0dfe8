SPECIFICATION Spec
CONSTANTS
  Pages = {p1, p2}
  Generations = {g1, g2}
  Workers = {c1, x1, x2}
  Codex = {x1, x2}
  Enabled = {"extract", "score"}
  DailyLimit = 1
  MaxTrouble = 2
  MaxDays = 1
  MaxBoots = 2
  Nobody = Nobody
INVARIANTS SessionsKeepContainer NoContainerLeft AdmissionGuardsWait CallsWithinBudget
CHECK_DEADLOCK FALSE
SYMMETRY Symmetry
