SPECIFICATION Spec
CONSTANTS
  i1 = i1
  i2 = i2
  q1 = q1
  s1 = s1
  v1 = v1
  v2 = v2
  Intros = {i1, i2}
  Proposals = {q1}
  Searchers = {s1}
  Verifiers = {v1, v2}
  SearcherOf <- Searcher1
  VerifierOf <- Broker
  Channels = {h1, h2}
  h1 = h1
  h2 = h2
  g1 = g1
  g2 = g2
  approve = approve
  deny = deny
  Groups = {g1, g2}
  Answers = {approve, deny}
  MaxContexts = 2
  AllHooksRun = TRUE
  MaxTexts = 2
  MaxShown = 2
  None = None
SYMMETRY Symmetry
INVARIANTS
  VerdictsWereGiven
  RepliesReachLatestGroup
PROPERTIES
  IntroKeptUntilAnswered
  PromptsFromTrusted
CHECK_DEADLOCK FALSE
