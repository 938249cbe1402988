\* The same session, and what a cancellation promises.
SPECIFICATION Spec
CONSTANTS
  Prompts = 2
  Wake = Wake
  Nobody = Nobody
  Pending = Pending
  MaxArrivals = 2
  MaxOut = 1
PROPERTY CancelStops
CHECK_DEADLOCK FALSE
