CONSTANTS
  goto = goto  start = start  stop = stop  r1 = r1  r2 = r2
  Commands = {goto, start, stop}
  PoolCommands = {goto}
  Robots = {r1, r2}
  Target <- TargetOf
  InboundSize = 2
  CommandDepth = 2
SPECIFICATION Spec
INVARIANTS NothingForgotten AnsweredIsClosed
