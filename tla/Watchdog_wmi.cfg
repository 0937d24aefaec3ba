\* The watchdog and the main loop of one process module, with three restart
\* attempts: checked for a query that connects with a cut moniker.
CONSTANTS
  Retries = 3
  Monitored = "monitored.exe"
SPECIFICATION Spec
INVARIANT MonikerIntact
