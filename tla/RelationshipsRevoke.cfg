SPECIFICATION Spec
CONSTANTS
  a = a
  b = b
  c = c
  n1 = n1
  n2 = n2
  friend = friend
  admin = admin
  Agents = {a, b}
  Kinds = {friend, admin}
  Nonces = {n1, n2}
  Proposer <- TwoProposer
  Addressee <- TwoAddressee
  KindOf <- TwoKind
  Revocations = {1, 2}
  MaxStrays = 0
INVARIANTS
  NoRevival
CHECK_DEADLOCK FALSE
