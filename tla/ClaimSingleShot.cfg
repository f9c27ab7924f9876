SPECIFICATION Spec
CONSTANTS
  Clients = {c1, c2}
  Redirects = {r1, r2}
  Flows = {f1, f2}
  Codes = {k1}
  Requests = {q1, q2}
  Backends = {"firestore"}
SYMMETRY Symmetry
INVARIANT SingleShot
CHECK_DEADLOCK FALSE
