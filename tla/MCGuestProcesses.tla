--------------------------- MODULE MCGuestProcesses ---------------------------
EXTENDS GuestProcesses

\* two services, and two waits for the first
MCNames == [d |-> "dockerd", e |-> "other", v |-> "dockerd", w |-> "dockerd"]
=============================================================================
