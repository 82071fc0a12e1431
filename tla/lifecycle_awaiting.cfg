SPECIFICATION Spec
CONSTANTS
  Callers = {u1}
  App = App
  Free = Free
  MaxClients = 2
  MaxItems = 1
  MaxDrops = 1
INVARIANT
  AwaitingMeansOffered
