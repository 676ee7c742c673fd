-------------------------- MODULE MCProcessManager --------------------------
EXTENDS ProcessManager, TLC

SymPorts == Permutations(Ports)
SymTracers == Permutations(Tracers)
Sym == SymTracers \cup SymPorts
=============================================================================
