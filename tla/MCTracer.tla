------------------------------ MODULE MCTracer ------------------------------
\* Instances of Tracer for TLC: kill is a wrapper that branches to __kill,
\* __select has no wrapper, getpid is filtered out, and no name is left in
\* the registry for __mac_syscall once its underscores are stripped.
EXTENDS Tracer, TLC

MCSymbols  == {"kill", "__kill", "__select", "getpid", "__mac_syscall"}
\* A direct call site, one that calls through a pointer, and one whose
\* return address cannot be read.
MCCallee   == [a \in Sites |-> CASE a = "direct"   -> {"__select"}
                                 [] a = "indirect" -> {"kill", "__select", "getpid"}
                                 [] a = "opaque"   -> {"kill", "__mac_syscall"}]
MCBranches == {<<"kill", "__kill">>}
MCNames    == {"kill", "select", "getpid", "mac_syscall"}
MCSyscallName == [f \in Symbols |-> CASE f \in {"kill", "__kill"} -> "kill"
                                      [] f = "__select" -> "select"
                                      [] f = "__mac_syscall" -> "mac_syscall"
                                      [] OTHER -> f]
MCDunder   == {"__kill", "__select", "__mac_syscall"}
MCRegistry == {"kill", "select", "getpid"}
MCFilter   == {"kill", "select"}

CallSymmetry == Permutations(Calls)
Symmetry     == CallSymmetry \cup Permutations(Threads)
=============================================================================
