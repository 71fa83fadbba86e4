----------------------------- MODULE MCClockSync -----------------------------
EXTENDS ClockSync

\* the guest may run ahead of its host, and fall behind
MCOffsets == {-10, 9}
MCDrifts == {0, 1}
=============================================================================
