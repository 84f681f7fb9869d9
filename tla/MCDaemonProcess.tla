--------------------------- MODULE MCDaemonProcess ---------------------------
EXTENDS DaemonProcess, TLC
CONSTANTS h1, h2, d1, d2, d3

SymHosts == Permutations({h1, h2})
SymPids == Permutations({d1, d2, d3})
=============================================================================
