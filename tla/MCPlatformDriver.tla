-------------------------- MODULE MCPlatformDriver ---------------------------
EXTENDS PlatformDriver
CONSTANTS shell, program    \* processes

OneShell    == {shell}
OneProgram  == {program}
First       == {"HSC_1"}
Second      == {"HSC_2"}
\* The pins of user.c and script.sh, and another trigger for the first device.
Triggers    == [HSC_1 |-> {8, 11}, HSC_2 |-> {10}]
Echoes      == [HSC_1 |-> {3}, HSC_2 |-> {2}]
One         == {1}
Succeeds    == {"ok"}
\* Both interfaces set pins of a device at a time, without a lock.
NoTurns     == AllRules \ {"turns"}
=============================================================================
