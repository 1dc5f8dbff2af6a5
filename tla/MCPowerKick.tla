---------------------------- MODULE MCPowerKick ----------------------------
(* Instances of PowerKick for TLC: one render and the flip it waits for.    *)
EXTENDS PowerKick, TLC

CONSTANTS r1

(* A hang is not combined with a suspend or with a failed start.            *)
OneTrouble == hangs = 0 \/ suspends + initFails = 0

=============================================================================
