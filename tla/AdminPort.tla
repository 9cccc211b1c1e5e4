------------------------------ MODULE AdminPort ------------------------------
(***************************************************************************)
(* What the session store, the limiter and the handlers of the admin port  *)
(* have in common: the goroutines that serve requests, and the clock.      *)
(***************************************************************************)
EXTENDS Integers

CONSTANTS
  Handlers,      \* goroutines serving requests
  MaxTime        \* bound on the clock

VARIABLE clock

None == -1       \* no time, no session
==============================================================================
