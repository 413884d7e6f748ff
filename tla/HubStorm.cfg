SPECIFICATION Spec
CONSTANTS
  Conn = {c1, c2, c3}
  Dev = {d1, d2}
  Zero = Zero
  NoConn = NoConn
  Patient = FALSE
  MaxUpset = 2
INVARIANTS HubTypeOK CountExact OpenIsRegistered NoGhost
SYMMETRY Alike
CHECK_DEADLOCK FALSE
