SPECIFICATION Spec
CONSTANTS
  a = a
  b = b
  c = c
  n1 = n1
  n2 = n2
  friend = friend
  admin = admin
  Agents = {a, b, c}
  Kinds = {friend}
  Nonces = {n1, n2}
  Proposer <- CrossProposer
  Addressee <- CrossAddressee
  KindOf <- CrossKind
  Revocations = {1}
  MaxStrays = 1
INVARIANTS
  TypeOK
  BilateralConsent
  OneAnswerPerProposal
  SidesAgree
CHECK_DEADLOCK FALSE
