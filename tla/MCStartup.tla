------------------------------ MODULE MCStartup ------------------------------
(***************************************************************************)
(* The startup script for TLC.  Three releases let an update be followed   *)
(* by another one and by a return to the first.                            *)
(***************************************************************************)
EXTENDS Startup

Regime(k, s, p, f) == [kill |-> k, signal |-> s, powerLoss |-> p, faults |-> f]

\* Kills with one failing command, kills with signals, and power losses.
Withstood == {Regime(TRUE, FALSE, FALSE, 1), Regime(TRUE, TRUE, FALSE, 0),
              Regime(FALSE, FALSE, TRUE, 0)}

PowerLossOnly == {Regime(FALSE, FALSE, TRUE, 0)}

\* A TERM during an update and one failing command.
SignalAndFault == {Regime(FALSE, TRUE, FALSE, 1)}
=============================================================================
