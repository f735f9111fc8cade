---------------------------- MODULE MCOutputPair ----------------------------
(***************************************************************************)
(* The installation protocol for TLC.  Three rebuilds let a first          *)
(* installation, a replacement and a replacement of the replacement        *)
(* happen, so that backups of two generations can meet.                    *)
(***************************************************************************)
EXTENDS OutputPair

Builds == 3

Regime(k, p, f, s) == [kill |-> k, powerLoss |-> p, faults |-> f, stats |-> s]

\* The failures the protocol withstands: kills of the process together with one
\* failing call that is not a presence test; power losses of the machine; and, as
\* long as nothing crashes, one failing presence test with one failing call.
Withstood == {Regime(TRUE, FALSE, 1, 0), Regime(FALSE, TRUE, 0, 0), Regime(FALSE, FALSE, 1, 1)}

\* A kill and a power loss in one history.
KillAndPowerLoss == {Regime(TRUE, TRUE, 0, 0)}

\* A kill and a presence test that fails in one history.
KillAndFailingStat == {Regime(TRUE, FALSE, 0, 1)}

\* One failing system call and a power loss in one history.
FaultAndPowerLoss == {Regime(FALSE, TRUE, 1, 0)}
=============================================================================
