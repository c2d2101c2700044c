SPECIFICATION Spec
CONSTANTS
  c1 = c1
  c2 = c2
  c3 = c3
  m1 = m1
  m2 = m2
  o1 = o1
  o2 = o2
  NoOne = NoOne
  Bot = Bot
  None = None
  Ids = {c1, c2, c3}
  Watchers = {c1}
  Echoers = {c1}
  Names = {m1, m2}
  Objects = {o1, o2}
  Kinds = {"human", "bot", "null"}
SYMMETRY Symmetry
INVARIANT TablesAgree
INVARIANT NothingDangles
INVARIANT NoMatchWithoutPlayers
INVARIANT SomebodyToMove
INVARIANT ViewsCurrent
CHECK_DEADLOCK FALSE
