SPECIFICATION Spec
CONSTANTS
  Callers = {u1, u2}
  App = App
  Free = Free
  MaxClients = 2
  MaxItems = 1
  MaxDrops = 1
SYMMETRY Symmetry
INVARIANTS
  TypeOK
  OneConsumer
  ConsumerCanBeEnded
  ShownIsTrue
PROPERTY
  CodesAdvance
