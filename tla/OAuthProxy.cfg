SPECIFICATION Spec
CONSTANTS
  Clients = {c1, c2}
  Redirects = {r1, r2}
  Flows = {f1, f2}
  Codes = {k1}
  Requests = {q1, q2}
  Backends = {"memory", "firestore"}
SYMMETRY Symmetry
INVARIANTS TypeOK PresentedIsSpent LegsMatch PinHolds RevokedIsInert
PROPERTY ImplementsGrants
CHECK_DEADLOCK FALSE
