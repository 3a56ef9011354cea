SPECIFICATION Spec
CONSTANTS
  ask = ask  read = read  create = create  update = update
  Requests = {ask, read, create, update}
  AIRequests = {ask}
  Turns <- TurnsOf
  MaxConns = 2
INVARIANTS TypeOK DroppedOnlyAfterTimeout QueueIsTheWaiters
PROPERTIES ExitWaitsForStatements EveryDatabaseRequestEnds SignalEndsTheProcess
