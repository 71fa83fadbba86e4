---------------------------- MODULE MCPortForward ----------------------------
EXTENDS PortForward

\* two containers publish the same port, on two addresses of the host, so that both
\* can run, and one of them another port as well
MCPublished == [a |-> {<<"lo", 80>>, <<"lo", 443>>}, b |-> {<<"lan", 80>>}]
=============================================================================
