-------------------------- MODULE MCFanController ---------------------------
(* Small instances of FanController for TLC. *)
EXTENDS FanController

\* 1950 is above the first target and below the second, 2000 is critical
MCLevels == {1950, 2000}
MCTargetsTwo == {1000, 1999}

\* below the target and critical only, for the runs about delivery
MCLevelsLive == {500, 2000}
MCTargets == {1000}

\* the fan stopped by hand, so that it differs from automatic full speed
MCSpeeds == {0}

MCModes == {0, 1}

\* with a value that a command never means to carry
MCModesWide == {0, 1, 2}

MCCounts == {7}
=============================================================================
