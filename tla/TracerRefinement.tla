-------------------------- MODULE TracerRefinement --------------------------
(***************************************************************************)
(* Tracer implements CallLog when the target is sequential: one thread,    *)
(* no call inside a call, no call abandoned, every return address legible. *)
(***************************************************************************)
EXTENDS Tracer

ASSUME Sequential ==
    /\ \E t \in Threads : Threads = {t}
    /\ MaxDepth = 1
    /\ ~Abandons
    /\ Legible = Sites

Over     == pc \in {"returned", "finished"}
Filed(c) == \E t \in Threads, a \in Sites : pending[t][a] = c
Promised(c) ==
    /\ calls[c].status = "returned"
    /\ SyscallName[calls[c].symbol] \in Registry \cap Filter
    /\ c \notin missed \/ Filed(c)
    /\ ~Over

StateOf(c) ==
    IF Wrote(c) THEN "logged"
    ELSE CASE calls[c] = Unborn        -> "unborn"
           [] calls[c].status = "live" -> "open"
           [] Promised(c)              -> "due"
           [] OTHER                    -> "closed"

CL == INSTANCE CallLog WITH
        state <- [c \in Calls |-> StateOf(c)],
        log   <- [i \in DOMAIN written |-> written[i].call],
        shut  <- Over

\* The trace of a sequential target shows its calls in order, none of them
\* twice, and before the target begins a call it shows every selected one
\* that returned under trace (tracer.py 386-557).
KeepsCallLog == CL!SafeSpec

\* The trace of a sequential target is complete, in order and without
\* duplicates, and every return is written as long as the loop runs: the loop
\* and the handlers of tracer.py 386-557 against the promise of CallLog.
ImplementsCallLog == CL!Spec
=============================================================================
