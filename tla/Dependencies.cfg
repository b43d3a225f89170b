SPECIFICATION SceneSpec
CONSTANTS
  Issue = {m1, p1, s1, s2, s3}
  Phase = {p1}
  Step = {s1, s2, s3}
  NoParent = NoParent
  MaxEvents = 5
  EdgeEvents = 5
  TreeEvents = 4
  PlanEvents = 1
SYMMETRY StepSymmetry
INVARIANTS TypeOK GraphsAcyclic GraphExplained BacklogNeverDeadlocks
CHECK_DEADLOCK FALSE
