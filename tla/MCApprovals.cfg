SPECIFICATION ApprovalsSpec
CONSTANTS
  u1 = u1
  u2 = u2
  o1 = o1
  e1 = e1
  k1 = k1
  k2 = k2
  k3 = k3
  Users <- MCUsers
  Documents <- MCDocuments
  Orders <- MCOrders
  Keys <- MCKeys
  Chains <- MCChains
  Small <- MCSmall
  MaxWorkflows = 2
  MaxRequests = 2
  MaxEdits = 1
SYMMETRY KeySymmetry
INVARIANTS
  ApprovalTables
  EveryStepApproved
PROPERTY
  DecisionsFinal
CHECK_DEADLOCK FALSE
