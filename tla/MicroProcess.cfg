CONSTANTS
  Clients = {c1, c2}
  Callers = {g1, g2}
  Envs = {"", "dev", "prod"}
  Tokens = {"", "tok"}
  None = None
SPECIFICATION Spec
INVARIANTS
  TypeOK
  ReleasedInOrder
CHECK_DEADLOCK FALSE
