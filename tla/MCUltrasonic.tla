---------------------------- MODULE MCUltrasonic -----------------------------
EXTENDS Ultrasonic
CONSTANTS u, v    \* processes

OneProcess   == {u}
TwoProcesses == {u, v}
SomePins     == {3, 7}    \* IO pins with four GPIOs and with one
OneOrTwo     == {1, 2}
=============================================================================
