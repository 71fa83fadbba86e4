----------------------------- MODULE MCVMShutdown -----------------------------
EXTENDS VMShutdown

MCNameOf == [dockerd |-> "dockerd", wait |-> "dockerd"]
=============================================================================
