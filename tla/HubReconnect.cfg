SPECIFICATION Spec
CONSTANTS
  Conn = {c1, c2}
  Dev = {d1}
  Zero = Zero
  NoConn = NoConn
  Patient = TRUE
  MaxUpset = 1
PROPERTIES NewestServed
SYMMETRY Alike
CHECK_DEADLOCK FALSE
