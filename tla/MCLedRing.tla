----------------------------- MODULE MCLedRing ------------------------------
EXTENDS LedRing
CONSTANT u   \* a process

\* A pixel of user.c, one with other bits, and a shorter write.
SomeColours == {<<200, 50, 150>>, <<0, 255, 1>>, <<128>>}
\* RESET as user.c does it, and with another speed and no valid mode.
SomeSetups  == {[speed |-> 6400000, mode |-> 3, bits_word |-> 32],
                [speed |-> 800000, mode |-> 7, bits_word |-> 8]}
=============================================================================
