------------------------------- MODULE Tracer -------------------------------
(***************************************************************************)
(* The trace loop of tracer.py over the traced process of Debuggee: what   *)
(* Tracer.spawn and Tracer.attach do from the launch or the attach until   *)
(* the loop is left, with the handlers of a stop.                          *)
(*                                                                         *)
(* A written event is [call, thread, site, ret]: the call whose arguments  *)
(* it shows, the thread and the return address it was recorded under, and  *)
(* the call whose return value it shows (NoCall for the "?" of an event    *)
(* without a return).  The entry recorded in pending_syscalls is the call  *)
(* its arguments were read from.                                           *)
(***************************************************************************)
EXTENDS Debuggee, Sequences

CONSTANTS Names,        \* syscall names after lstrip("_")
          SyscallName,  \* the stripped name of each symbol
          Dunder,       \* symbols that start with "__"
          Registry,     \* names SyscallRegistry.lookup_by_name finds
          Filter,       \* names _should_trace_syscall accepts
          Legible,      \* sites whose return address get_return_address reads
          Modes         \* which of Tracer.spawn and Tracer.attach is run

ASSUME TracerAssumption ==
    /\ SyscallName \in [Symbols -> Names]
    /\ \A b \in Branches : b[2] \in Dunder /\ SyscallName[b[1]] = SyscallName[b[2]]
    /\ Dunder \subseteq Symbols
    /\ Registry \subseteq Names
    /\ Filter \subseteq Names
    /\ Legible \subseteq Sites
    /\ Modes \subseteq {"spawn", "attach"}

VARIABLES mode,         \* Tracer.spawn or Tracer.attach
          pc,           \* where the loop stands
          interrupted,  \* Tracer.interrupted
          sigint,       \* a SIGINT that Python has not handled yet
          pending,      \* Tracer.pending_syscalls, NoCall where there is none
          written,      \* the events given to _write_event, in order
          exit,         \* what the loop returns
          beside        \* history: <<c, d>> where d was pending on the thread
                        \* of c when the tracer looked at the first stop of c

tracerVars == <<mode, pc, interrupted, sigint, pending, written, exit, beside>>
vars == <<proc, armed, calls, hit, selected, oneshots, missed,
          mode, pc, interrupted, sigint, pending, written, exit, beside>>

Places == {"start", "blocked", "handled", "returned", "finished"}
Exits  == {"none", "zero", "one", "status"}
Events == [call : Calls, thread : Threads, site : Sites, ret : Calls \cup {NoCall}]

TypeOK ==
    /\ DebuggeeTypeOK
    /\ mode \in Modes
    /\ pc \in Places
    /\ interrupted \in BOOLEAN
    /\ sigint \in BOOLEAN
    /\ pending \in [Threads -> [Sites -> Calls \cup {NoCall}]]
    /\ written \in Seq(Events)
    /\ exit \in Exits
    /\ beside \subseteq Calls \X Calls

-----------------------------------------------------------------------------
\* A definition "mutant: ..." is no part of the model: it is a slip that the
\* code next to it could have, and that a property must notice.

Pending(t, a)       == pending[t][a] # NoCall
ThreadHasPending(t) == \E a \in Sites : Pending(t, a)

\* mutant: the filter is not looked at.
TraceEverything(f) == f \in Symbols
ShouldTrace(f)     == SyscallName[f] \in Filter

\* mutant: pending entries are looked up by address only.
IsReturnOfAny(t) == AtReturn(t) /\ \E u \in Threads : Pending(u, ReturnAddress(t))

\* A return-address stop: (thread_id, pc) is a key of pending_syscalls.
IsReturn(t) == AtReturn(t) /\ Pending(t, ReturnAddress(t))

\* mutants: a call of any thread, or at any symbol, makes a duplicate.
DuplicateOfAny(t)    == FrameSymbol(t) \in Dunder /\ \E u \in Threads : ThreadHasPending(u)
DuplicateIfNested(t) == ThreadHasPending(t)

\* __foo, with some call of this thread pending: taken for the second stop
\* of a call that was recorded at its wrapper foo.
TakenForDuplicate(t) == FrameSymbol(t) \in Dunder /\ ThreadHasPending(t)

IsEntry(t) ==
    /\ ~IsReturn(t)
    /\ InSymbol(t)
    /\ SyscallName[FrameSymbol(t)] \in Registry
    /\ ~TakenForDuplicate(t)
    /\ ShouldTrace(FrameSymbol(t))

WriteEvent(c, t, a, r) ==
    written' = Append(written, [call |-> c, thread |-> t, site |-> a, ret |-> r])

\* mutant: the entry stays pending after its return.
HandleReturnKept(t) ==
    LET a == ReturnAddress(t) IN
    /\ IsReturn(t)
    /\ WriteEvent(pending[t][a], t, a, hit[t].call)
    /\ UNCHANGED <<oneshots, pending>>

\* mutant: keyed by the address alone, one return completes every thread's.
HandleReturnByAddress(t) ==
    LET a == ReturnAddress(t)
        Show(u) == [call |-> pending[u][a], thread |-> u, site |-> a, ret |-> hit[t].call] IN
    /\ IsReturn(t)
    /\ \E u \in {v \in Threads : Pending(v, a)} :
          written' = written \o (IF u = t THEN <<Show(t)>> ELSE <<Show(t), Show(u)>>)
    /\ pending' = [u \in Threads |-> [pending[u] EXCEPT ![a] = NoCall]]
    /\ UNCHANGED oneshots

\* mutant: keyed by the thread alone, one return completes all of its calls.
HandleReturnByThread(t) ==
    LET Show(a) == [call |-> pending[t][a], thread |-> t, site |-> a, ret |-> hit[t].call] IN
    /\ IsReturn(t)
    /\ \E b \in {s \in Sites : Pending(t, s)} :
          written' = written \o (IF b = ReturnAddress(t) THEN <<Show(b)>>
                                 ELSE <<Show(ReturnAddress(t)), Show(b)>>)
    /\ pending' = [pending EXCEPT ![t] = [a \in Sites |-> NoCall]]
    /\ UNCHANGED oneshots

HandleReturn(t) ==
    LET a == ReturnAddress(t) IN
    /\ IsReturn(t)
    /\ WriteEvent(pending[t][a], t, a, hit[t].call)
    /\ pending' = [pending EXCEPT ![t][a] = NoCall]
    /\ UNCHANGED oneshots

\* mutant: a nested call is filed under the address its thread has armed.
HandleEntryAtArmed(t) ==
    /\ IsEntry(t)
    /\ \E a \in Sites :
          /\ IF ThreadHasPending(t) THEN Pending(t, a) ELSE a = ReturnAddress(t)
          /\ oneshots' = oneshots \cup {a}
          /\ pending' = [pending EXCEPT ![t][a] = hit[t].call]
    /\ UNCHANGED written

HandleEntry(t) ==
    LET a == ReturnAddress(t) IN
    /\ IsEntry(t)
    /\ IF a \in Legible
       THEN /\ oneshots' = oneshots \cup {a}
            /\ pending' = [pending EXCEPT ![t][a] = hit[t].call]
            /\ UNCHANGED written
       ELSE /\ WriteEvent(hit[t].call, t, a, NoCall)
            /\ UNCHANGED <<oneshots, pending>>

IgnoreStop(t) ==
    /\ ~IsReturn(t)
    /\ ~IsEntry(t)
    /\ UNCHANGED <<oneshots, pending, written>>

PendingOn(t) == {pending[t][a] : a \in {b \in Sites : Pending(t, b)}}

NoteBeside(t) ==
    beside' = beside \cup (IF AtEntry(t) THEN {hit[t].call} \X PendingOn(t) ELSE {})

\* _handle_stop, which sees the selected thread only.
HandleStop(t) ==
    /\ HandleReturn(t) \/ HandleEntry(t) \/ IgnoreStop(t)
    /\ NoteBeside(t)

-----------------------------------------------------------------------------
Init ==
    /\ DebuggeeInit
    /\ mode \in Modes
    /\ pc = "start"
    /\ interrupted = FALSE
    /\ sigint = FALSE
    /\ pending = [t \in Threads |-> [a \in Sites |-> NoCall]]
    /\ written = <<>>
    /\ exit = "none"
    /\ beside = {}

Leave(code) == pc' = "returned" /\ exit' = code

\* spawn: the breakpoints are set before Launch, and a synchronous Launch
\* waits for the first stop.
Launch ==
    /\ pc = "start"
    /\ mode = "spawn"
    /\ armed' = TRUE
    /\ pc' = "blocked"
    /\ UNCHANGED <<proc, calls, hit, selected, oneshots, missed,
                   mode, interrupted, sigint, pending, written, exit, beside>>

\* attach: the process is stopped, breakpoints and handler are set, and it is
\* continued.  A process that is gone cannot be attached to.
Attach ==
    /\ pc = "start"
    /\ mode = "attach"
    /\ IF proc = "running" THEN armed' = TRUE /\ pc' = "blocked" /\ UNCHANGED exit
                           ELSE Leave("one") /\ UNCHANGED armed
    /\ UNCHANGED <<proc, calls, hit, selected, oneshots, missed,
                   mode, interrupted, sigint, pending, written, beside>>

\* mutant: the handler assigns a local variable.
NoteSigintLocally == sigint' = FALSE /\ UNCHANGED interrupted

\* The SIGINT handler of attach.
NoteSigint == sigint' = FALSE /\ interrupted' = (interrupted \/ sigint)

\* mutant: a crash is not an end.
EndIfExited == proc = "exited" /\ Leave("status")

EndIfOver ==
    \/ proc = "exited" /\ Leave("status")
    \/ proc = "crashed" /\ Leave("one")

\* A synchronous Continue() comes back when the process is not running; only
\* then does Python run the handler of a SIGINT that came meanwhile, and the
\* loop looks at interrupted, at the state of the process, and at the stop.
Wake ==
    /\ pc = "blocked"
    /\ proc # "running"
    /\ NoteSigint
    /\ \/ interrupted' /\ Leave("zero") /\ UNCHANGED <<oneshots, pending, written, beside>>
       \/ /\ ~interrupted'
          /\ EndIfOver
          /\ UNCHANGED <<oneshots, pending, written, beside>>
       \/ /\ ~interrupted'
          /\ proc = "stopped"
          /\ HandleStop(selected)
          /\ pc' = "handled"
          /\ UNCHANGED exit
    /\ UNCHANGED <<proc, armed, calls, hit, selected, missed, mode>>

\* mutant: the process is not continued after a stop.
ContinueForgotten ==
    /\ pc = "handled"
    /\ ~interrupted
    /\ pc' = "blocked"
    /\ UNCHANGED <<debuggeeVars, mode, interrupted, sigint, pending, written, exit, beside>>

\* Continue() unless interrupted.  A SIGINT between the test and the call is
\* one that comes as soon as the tracer is blocked.
Continue ==
    /\ pc = "handled"
    /\ ~interrupted
    /\ Resume
    /\ pc' = "blocked"
    /\ UNCHANGED <<armed, calls, oneshots, missed,
                   mode, interrupted, sigint, pending, written, exit, beside>>

\* Interrupted while the stop was handled: the loop ends at its next turn.
Quit ==
    /\ pc = "handled"
    /\ interrupted
    /\ Leave("zero")
    /\ UNCHANGED <<debuggeeVars, mode, interrupted, sigint, pending, written, beside>>

\* Ctrl+C.  Only attach installs the handler that sets interrupted.
Interrupt ==
    /\ mode = "attach"
    /\ ~interrupted /\ ~sigint
    /\ \/ pc = "blocked" /\ sigint' = TRUE /\ UNCHANGED interrupted
       \/ pc = "handled" /\ interrupted' = TRUE /\ UNCHANGED sigint
    /\ UNCHANGED <<debuggeeVars, mode, pc, pending, written, exit, beside>>

\* attach: Detach() lets a stopped process go; the calls go on untraced.
Finish ==
    /\ pc = "returned"
    /\ pc' = "finished"
    /\ proc' = IF mode = "attach" /\ proc = "stopped" THEN "free" ELSE proc
    /\ UNCHANGED <<armed, calls, hit, selected, oneshots, missed,
                   mode, interrupted, sigint, pending, written, exit, beside>>

\* Threads run, and LLDB halts them, while the tracer waits in Continue().
\* Before an attach they run untraced.
Target ==
    /\ pc = "blocked" \/ (pc = "start" /\ mode = "attach")
    /\ TargetStep \/ \E t \in Threads : Halt(t)
    /\ UNCHANGED tracerVars

Loop == Launch \/ Attach \/ Wake \/ Continue \/ Quit \/ Finish

Next == Loop \/ Interrupt \/ Target

Spec == Init /\ [][Next]_vars

\* The tracer's own steps never wait for anything but a stop, and LLDB halts
\* the process once a thread hit a breakpoint.  The target is not fair: it
\* may compute, or sit in a blocking call, for ever.
Fairness ==
    /\ WF_vars(Loop)
    /\ WF_vars((\E t \in Threads : Halt(t)) /\ UNCHANGED tracerVars)

FairSpec == Spec /\ Fairness

-----------------------------------------------------------------------------
Completed(i) == written[i].ret # NoCall
Wrote(c)     == \E i \in DOMAIN written : written[i].call = c

\* A pending entry is filed under the thread that made the call and the
\* address that call returns to, and is of a call the filter lets through:
\* the key of pending_syscalls (tracer.py 87-89, 527-529).
PendingOwned ==
    \A t \in Threads, a \in Sites : Pending(t, a) =>
        LET r == calls[pending[t][a]] IN
        /\ r # Unborn
        /\ r.thread = t
        /\ r.site = a
        /\ SyscallName[r.symbol] \in Registry \cap Filter

\* A return value in the trace was produced by the thread whose arguments it
\* is shown with, by a call made from the same call site that has really
\* returned, and that the filter lets through (tracer.py 441-446, 542-557).
ReturnsFromOwnThread ==
    \A i \in DOMAIN written :
        LET e == written[i] IN
        /\ calls[e.call] # Unborn
        /\ calls[e.call].thread = e.thread
        /\ SyscallName[calls[e.call].symbol] \in Registry \cap Filter
        /\ Completed(i) => /\ calls[e.ret] # Unborn
                           /\ calls[e.ret].status = "returned"
                           /\ calls[e.ret].thread = e.thread
                           /\ calls[e.ret].site = calls[e.call].site

\* A return is shown once, although the call that returns may be inside
\* another one of its thread, and may have stopped at its wrapper, at its
\* implementation and at every signal before (the pop of tracer.py 543).
OneEventPerReturn ==
    \A i, j \in DOMAIN written :
        i # j /\ Completed(i) /\ Completed(j) => written[i].ret # written[j].ret

\* A call has one event, also when it stops at its wrapper and again at its
\* implementation ("only trace the wrapper", tracer.py 459-460), with one
\* exception: the return address cannot be read, so that the "?" written at
\* the wrapper (496-507) leaves nothing pending for the test of 467, and the
\* implementation writes a second "?".  Threads without signals only: every
\* signal is one more stop.
OneEventPerCall ==
    \A c \in Calls :
        LET events == {i \in DOMAIN written : written[i].call = c} IN
        \/ Cardinality(events) <= 1
        \/ /\ Cardinality(events) = 2
           /\ calls[c].site \notin Legible
           /\ \E b \in Branches : b[1] = calls[c].entry
           /\ \A i \in events : ~Completed(i)

\* Why a call that returned under trace may be absent from it.
Excused(c) ==
    LET r == calls[c] IN
    \/ c \in missed
    \/ \E d \in Calls \ {c} :
          /\ calls[d] # Unborn
          /\ calls[d].site = r.site
          /\ Overlap(c, d)
    \/ /\ r.entry \in Dunder
       /\ \E d \in Calls \ {c} : <<c, d>> \in beside

\* While the loop runs, a call that the filter lets through and that has
\* returned is in the trace once its stop is handled, unless a stop of it was
\* not looked at (LLDB stopped several threads at once), two calls in progress
\* share a return address, or it came in at a __ symbol, without a wrapper,
\* while another call of its thread was pending (tracer.py 461-470).
LostOnlyIfExcused ==
    \A c \in Calls :
        (/\ calls[c] # Unborn
         /\ calls[c].status = "returned"
         /\ SyscallName[calls[c].symbol] \in Registry \cap Filter
         /\ pc \notin {"returned", "finished"}
         /\ \A t \in Threads : hit[t] # [kind |-> "return", call |-> c])
        => Wrote(c) \/ Excused(c)

\* Stops of one thread, or of the same thread elsewhere, leave a pending
\* entry alone: it goes only when its own thread reaches its return address,
\* or enters again from the same call site (tracer.py 442-446, 529, 543).
PendingLeftToItsThread ==
    [][\A t \in Threads, a \in Sites :
          Pending(t, a) /\ pending'[t][a] # pending[t][a] =>
             /\ selected = t
             /\ hit[t].call # NoCall
             /\ calls[hit[t].call].site = a]_vars

\* Comment at tracer.py 461-470: a stop that is skipped as a duplicate is the
\* second stop of a call that is already pending.
DuplicateMeansTraced ==
    pc = "blocked" /\ proc = "stopped" /\ InSymbol(selected) /\ TakenForDuplicate(selected)
        => \E a \in Sites : pending[selected][a] = hit[selected].call

\* Docstrings at tracer.py 487 and 534: the return captured for an event is
\* the return of the call whose arguments the event shows.
ReturnMatchesEntry ==
    \A i \in DOMAIN written : Completed(i) => written[i].ret = written[i].call

\* A thread that hit a breakpoint is let go again, or the process has ended
\* (tracer.py 405-411: every handled stop is followed by Continue, or by the
\* Detach of attach).
HitsAreServed ==
    \A t \in Threads : hit[t] # NoStop ~>
        (hit[t] = NoStop \/ proc \in {"exited", "crashed", "free"})

\* The loop notices that the process has ended (tracer.py 403-404, 412-417).
EndIsNoticed == proc \in {"exited", "crashed"} ~> pc = "finished"

\* If the target never stops stopping, Ctrl+C ends the loop whenever it comes.
InterruptEndsBusyTrace ==
    []<>(proc # "running") => ((interrupted \/ sigint) ~> pc = "finished")

\* Comment at tracer.py 91: signal handling for graceful shutdown.
InterruptEndsTrace == (interrupted \/ sigint) ~> pc = "finished"
=============================================================================
