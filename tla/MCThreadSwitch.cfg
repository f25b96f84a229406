SPECIFICATION FairSpec
CONSTANTS
  c1 = c1  c2 = c2  i1 = i1  i2 = i2  m1 = m1  m2 = m2  t1 = t1  t2 = t2  t3 = t3
  CPU = {c1, c2}
  Thread = {i1, i2, m1, m2, t1, t2, t3}
  IdleOf <- MCIdleOf
  MainOf <- MCMainOf
  Peer <- MCPeer
  Pinned = {i1, i2, m1, m2}
  Prio <- MCPrio
  Margin = 2
  None = None
INVARIANTS StackExclusive SwitchSound NoUseAfterDestroy
PROPERTIES ReadyRuns
CHECK_DEADLOCK FALSE
