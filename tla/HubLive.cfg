SPECIFICATION FairSpec
CONSTANTS
  Conn = {c1, c2}
  Dev = {d1}
  Zero = Zero
  NoConn = NoConn
  Patient = TRUE
  MaxUpset = 3
PROPERTIES DeadLeave Settles
CHECK_DEADLOCK FALSE
