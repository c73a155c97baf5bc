------------------------------- MODULE Startup -------------------------------
(***************************************************************************)
(* Runs of tsok serve from the command line to serving: each passes the      *)
(* update middleware (withAutoUpdate in cmd/tsok/main.go), which may replace  *)
(* the executable and start over, before its handler touches the state file.  *)
(* A power loss ends all runs and hits the executable, the stamp and the      *)
(* state file at once.                                                      *)
(***************************************************************************)
EXTENDS Persist, Update

ASSUME StartupAssumption == Runs = Starters

startupVars == <<persistVars, updateVars>>

StartupInit == PersistInit /\ UpdateInit

(* The handler runs when the middleware has called it, and until the process  *)
(* is killed.                                                               *)
Handler(r) == upc[r] = "command" /\ Run(r) /\ UNCHANGED updateVars
Middleware(r) ==
    /\ ppc[r] = "idle" /\ Invocation(r)
    /\ UNCHANGED persistVars

PowerLost == PowerFails /\ UpdatePowerFails

StartupNext ==
    \/ \E r \in Starters : Handler(r) \/ Middleware(r)
    \/ WriteBack /\ UNCHANGED updateVars
    \/ (Publish \/ TimePasses \/ ExeWrittenBack) /\ UNCHANGED persistVars
    \/ PowerLost

StartupSpec == StartupInit /\ [][StartupNext]_startupVars
=============================================================================
