\* Two publishers meet at a full buffer.
CONSTANTS
  p1 = p1
  p2 = p2
  s1 = s1
  s2 = s2
  Publisher = {p1, p2}
  Sub = {s1}
  BufSize <- SmallBuffers
  MaxEvents <- FewEvents
SPECIFICATION Spec
PROPERTY NewEventIsDelivered
CHECK_DEADLOCK FALSE
