------------------------------ MODULE Debuggee ------------------------------
(***************************************************************************)
(* The traced process as LLDB shows it to strace-macos: threads that call  *)
(* libsystem functions, breakpoints, stops and the selected thread.  None  *)
(* of it is code under src/: it is modelled from the SB API calls that     *)
(* tracer.py makes (SetAsync(False), Continue, GetState,                   *)
(* GetSelectedThread, one-shot breakpoints by address, Detach).            *)
(*                                                                         *)
(* A call is a member of Calls.  It is entered through a symbol, may       *)
(* branch from a wrapper to its implementation (kill to __kill), and comes *)
(* back to the return address of its call site.  A thread may start a call *)
(* on top of another one: a signal handler that runs inside a blocked      *)
(* system call.  Symbol stubs are leaves, so the return address can be     *)
(* read at any point inside them.                                          *)
(***************************************************************************)
EXTENDS Naturals, FiniteSets

CONSTANTS Threads,    \* threads of the traced process
          Calls,      \* the calls it may ever make (bounds the model)
          Sites,      \* return addresses of its call sites
          Symbols,    \* symbols that carry a breakpoint
          Callee,     \* the symbols each call site may call
          Branches,   \* <<wrapper, implementation>> pairs of symbols
          MaxDepth,   \* calls in progress at once on one thread
          Abandons,   \* whether a call may end without returning (longjmp)
          Signals,    \* whether signals may stop a thread
          Ends,       \* how the process may end: "exited", "crashed"
          NoCall,     \* no call: a stop outside every traced symbol
          NoThread    \* no selected thread

ASSUME DebuggeeAssumption ==
    /\ Callee \in [Sites -> SUBSET Symbols]
    /\ Branches \subseteq Symbols \X Symbols
    /\ MaxDepth \in Nat \ {0}
    /\ Abandons \in BOOLEAN
    /\ Signals \in BOOLEAN
    /\ Ends \subseteq {"exited", "crashed"}
    /\ NoCall \notin Calls
    /\ NoThread \notin Threads

VARIABLES proc,      \* SBProcess.GetState()
          armed,     \* breakpoints have been set on every symbol
          calls,     \* what each call is and how far it got
          hit,       \* why each thread is stopped, if it is
          selected,  \* SBProcess.GetSelectedThread()
          oneshots,  \* addresses that carry a one-shot breakpoint
          missed     \* history: calls with a stop the tracer never looked at

debuggeeVars == <<proc, armed, calls, hit, selected, oneshots, missed>>

ProcStates == {"running", "stopped", "exited", "crashed", "free"}
CallStates == {"live", "returned", "abandoned"}
Stops      == [kind : {"entry", "return"}, call : Calls]
              \cup [kind : {"signal"}, call : Calls \cup {NoCall}]
NoStop     == [kind |-> "none", call |-> NoCall]

Unborn     == [status |-> "unborn"]
\* entry: the symbol the call came in at; symbol: the one it is at now.
\* over: the calls in progress, on any thread, when this one began.
CallRecords == [status : CallStates, thread : Threads, entry : Symbols,
                symbol : Symbols, site : Sites, over : SUBSET Calls]

DebuggeeTypeOK ==
    /\ proc \in ProcStates
    /\ armed \in BOOLEAN
    /\ calls \in [Calls -> CallRecords \cup {Unborn}]
    /\ hit \in [Threads -> Stops \cup {NoStop}]
    /\ selected \in Threads \cup {NoThread}
    /\ oneshots \subseteq Sites
    /\ missed \subseteq Calls

-----------------------------------------------------------------------------
Live         == {c \in Calls : calls[c].status = "live"}
LiveOn(t)    == {c \in Live : calls[c].thread = t}
\* The innermost call of a thread is the one no other live call is over.
Innermost(t) == {c \in LiveOn(t) : \A d \in LiveOn(t) : c \notin calls[d].over}
Overlap(c, d) == c \in calls[d].over \/ d \in calls[c].over

Runs(t) == proc = "running" /\ hit[t] = NoStop

\* The registers and the stack of a stopped thread.
AtReturn(t)      == hit[t].kind = "return"
InSymbol(t)      == hit[t].kind # "return" /\ hit[t].call # NoCall
FrameSymbol(t)   == calls[hit[t].call].symbol
ReturnAddress(t) == calls[hit[t].call].site
\* The first stop of a call, at the symbol it came in at.
AtEntry(t)       == hit[t].kind = "entry" /\ FrameSymbol(t) = calls[hit[t].call].entry

DebuggeeInit ==
    /\ proc = "running"
    /\ armed = FALSE
    /\ calls = [c \in Calls |-> Unborn]
    /\ hit = [t \in Threads |-> NoStop]
    /\ selected = NoThread
    /\ oneshots = {}
    /\ missed = {}

\* A thread calls f from the call site that returns to a; the breakpoint on
\* f stops it, unless the tracer has not set its breakpoints yet.
Call(t, c, f, a) ==
    /\ Runs(t)
    /\ calls[c] = Unborn
    /\ f \in Callee[a]
    /\ Cardinality(LiveOn(t)) < MaxDepth
    /\ calls' = [calls EXCEPT ![c] = [status |-> "live", thread |-> t, entry |-> f,
                                      symbol |-> f, site |-> a, over |-> Live]]
    /\ IF armed
       THEN /\ hit' = [hit EXCEPT ![t] = [kind |-> "entry", call |-> c]]
            /\ UNCHANGED missed
       ELSE /\ missed' = missed \cup {c}
            /\ UNCHANGED hit
    /\ UNCHANGED <<proc, armed, selected, oneshots>>

\* The wrapper a call is in branches to its implementation, whose symbol
\* carries a breakpoint of its own.
Branch(t, c, g) ==
    /\ Runs(t)
    /\ c \in Innermost(t)
    /\ <<calls[c].symbol, g>> \in Branches
    /\ calls' = [calls EXCEPT ![c].symbol = g]
    /\ hit' = IF armed THEN [hit EXCEPT ![t] = [kind |-> "entry", call |-> c]]
                       ELSE hit
    /\ UNCHANGED <<proc, armed, selected, oneshots, missed>>

\* A call returns: its thread stops if its return address carries a
\* breakpoint, whoever that breakpoint was set for.
Return(t, c) ==
    /\ Runs(t)
    /\ c \in Innermost(t)
    /\ calls' = [calls EXCEPT ![c].status = "returned"]
    /\ hit' = IF calls[c].site \in oneshots
              THEN [hit EXCEPT ![t] = [kind |-> "return", call |-> c]]
              ELSE hit
    /\ UNCHANGED <<proc, armed, selected, oneshots, missed>>

\* A call that never returns to its site: longjmp, or a thread that ends.
Abandon(t, c) ==
    /\ Abandons
    /\ Runs(t)
    /\ c \in Innermost(t)
    /\ calls' = [calls EXCEPT ![c].status = "abandoned"]
    /\ UNCHANGED <<proc, armed, hit, selected, oneshots, missed>>

\* A signal stops a thread wherever it is.
Signal(t) ==
    /\ Signals
    /\ Runs(t)
    /\ armed
    /\ \/ /\ LiveOn(t) = {}
          /\ hit' = [hit EXCEPT ![t] = [kind |-> "signal", call |-> NoCall]]
       \/ \E c \in Innermost(t) :
             hit' = [hit EXCEPT ![t] = [kind |-> "signal", call |-> c]]
    /\ UNCHANGED <<proc, armed, calls, selected, oneshots, missed>>

\* All threads halt.  One of those with a reason to stop is selected; the
\* one-shot breakpoints that were hit, by any thread, are gone.
Halt(t) ==
    /\ proc = "running"
    /\ hit[t] # NoStop
    /\ proc' = "stopped"
    /\ selected' = t
    /\ oneshots' = oneshots \ {calls[hit[u].call].site :
                                 u \in {v \in Threads : hit[v].kind = "return"}}
    /\ missed' = missed \cup {hit[u].call : u \in
                    {v \in Threads \ {t} : hit[v].kind \in {"entry", "return"}}}
    /\ UNCHANGED <<armed, calls, hit>>

\* The process ends: exit status, or a state LLDB reports as an end.
Die ==
    /\ proc = "running"
    /\ proc' \in Ends
    /\ UNCHANGED <<armed, calls, hit, selected, oneshots, missed>>

\* Every thread steps over the breakpoint it stopped at and goes on.
Resume ==
    /\ proc' = "running"
    /\ hit' = [t \in Threads |-> NoStop]
    /\ selected' = NoThread

TargetStep ==
    \/ \E t \in Threads, c \in Calls, f \in Symbols, a \in Sites : Call(t, c, f, a)
    \/ \E t \in Threads, c \in Calls, g \in Symbols : Branch(t, c, g)
    \/ \E t \in Threads, c \in Calls : Return(t, c) \/ Abandon(t, c)
    \/ \E t \in Threads : Signal(t)
    \/ Die
=============================================================================
