\* Two publishers; one subscriber with room for one event, one with two.
CONSTANTS
  p1 = p1
  p2 = p2
  s1 = s1
  s2 = s2
  Publisher = {p1, p2}
  Sub = {s1, s2}
  BufSize <- SmallBuffers
  MaxEvents <- FewEvents
SPECIFICATION FairSpec
INVARIANTS TypeOK NeverPanics PublisherOrder
PROPERTIES LossMeansLag YieldsToOthers NobodyBlocks
CHECK_DEADLOCK FALSE
