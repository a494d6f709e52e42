------------------------------- MODULE Session -------------------------------
(***************************************************************************)
(* One run of strace-macos from its command line to its exit code:         *)
(* __main__.py, Tracer.__post_init__, spawn and attach (tracer.py 71-356)  *)
(* with everything they call, over a target that makes one call after the  *)
(* other.  What several threads and nested calls do is the subject of      *)
(* Tracer, and what the memory behind an argument may hold that of Decode. *)
(*                                                                         *)
(* A job is [cmd, machine, calls, end].  cmd is what was typed: [mode,     *)
(* pid, output, json, summary, raw, filter].  machine is what is found     *)
(* there: [lldb, path, csrutil, codesign, output, target, process, triple, *)
(* frame, tty, disk].  calls are the calls the target makes, each    *)
(* [symbol, result, variant, null, memory, raises], and end is how it ends.*)
(***************************************************************************)
EXTENDS Registry, Arguments, Rendering

CONSTANTS Jobs,        \* the runs to look at
          MaxDisplay   \* bytes of a buffer that are shown (32)

\* What the state machine needs to know of a run; memory holds bytes.
ASSUME SessionAssumption ==
    /\ MaxDisplay \in Nat
    /\ \A j \in Jobs :
        /\ j.end \in {"exited", "failed", "crashed"}
        /\ j.cmd.mode \in {"spawn", "attach", "neither", "both"}
        /\ Len(j.calls) \in Nat
        /\ \A i \in 1..Len(j.calls) :
              /\ j.calls[i].result \in Int
              /\ j.calls[i].variant \in {"skip", "variant", "default"}
              /\ j.calls[i].memory.data \in Seq(0..255)

\* The names that each category lists, and the category that lists a name last.
NamesOf == [c \in Categories |-> {Rows(c)[i].name : i \in DOMAIN Rows(c)}]
Section(name) ==
    LET Lists(k) == name \in NamesOf[CategoryOrder[k]]
    IN CategoryOrder[CHOOSE k \in DOMAIN CategoryOrder :
           Lists(k) /\ \A j \in DOMAIN CategoryOrder : Lists(j) => j <= k]

\* A breakpoint stops at every symbol that differs from its name in leading
\* underscores only, as tracer.py 459-463 has it.
ArmedStems == {b.stem : b \in Breakpoints}

\* A value that has names is shown by a class that can show them, and what is
\* shown as a buffer was read from memory; what a parameter is measured with is
\* a number in a register, wherever the variable arguments begin.
Showable(p) ==
    /\ p.label \in {"named", "hexed"} => p.arg \in Named
    /\ p.inner # "none" => /\ p.label = "memory"
                           /\ p.arg \in {"StructArg", "StructArrayArg", "StringArg"}
    /\ p.arg = "BufferArg" => p.label = "memory"
    /\ "BufferArg" \notin {p.null, p.other}
Measuring(d, k) ==
    /\ k \in DOMAIN d.params
    /\ k <= d.variadic /\ k <= FirstVariable(d) /\ k <= 6
    /\ d.params[k].label \in {"plain", "named", "hexed"}
    /\ d.params[k].arg # "PointerArg"

\* Facts about the tables, which are no parameters: at most eight arguments in
\* front of the variable ones, as ARM64 has registers; a breakpoint for every
\* name; and the registry's dictionaries say what the lists say.
ASSUME TableAssumption ==
    /\ \A n \in KnownNames :
          LET d == LookupByName(n) IN
          /\ d.variadic \in 0..8
          /\ Len(d.params) \in Nat /\ DOMAIN d.params = 1..Len(d.params)
          /\ \A i \in DOMAIN d.params :
                LET p == d.params[i] IN
                /\ Showable(p)
                /\ p.label = "variant" =>
                      Showable(p.default) /\ \A q \in p.params : Showable(q)
                /\ p.count > 0 => Measuring(d, p.count)
    /\ \A n \in KnownNames :
          /\ n.stem \in ArmedStems
          /\ \E c \in Categories : n \in NamesOf[c]
          /\ GetCategory(n) = Section(n) /\ Section(n) \in Categories
    /\ \A c \in Categories : NamesOf[c] \subseteq KnownNames /\ Name(c, 0) \notin KnownNames

VARIABLES job,          \* the run
          pc,           \* how far the program is
          filter,       \* filter_category or filtered_syscalls
          arch,         \* Tracer.arch
          file,         \* the output file: "none", "open", "closed"
          handler,      \* who handles SIGINT
          interrupted,  \* Tracer.interrupted
          target,       \* the traced process
          past,         \* calls the target has made
          pending,      \* the event in pending_syscalls, if there is one
          stats,        \* SummaryFormatter.stats
          lines,        \* what was printed
          raised,       \* the exception on its way out
          code          \* what spawn or attach returns, then the exit code

vars == <<job, pc, filter, arch, file, handler, interrupted, target, past,
          pending, stats, lines, raised, code>>

Places     == {"parse", "create", "start", "setup", "loop", "detach", "summary",
               "close", "report", "done"}
Targets    == {"none", "held", "exited", "failed", "crashed", "detached"}
Exceptions == {"none", "strace", "error", "keyboard"}
NoEvent    == [name |-> Name("", 0)]
Summary    == [name |-> Name("", 1)]

TypeOK ==
    /\ pc \in Places
    /\ filter.kind \in {"none", "category", "names"}
    /\ arch \in {"none", "ARM64", "X8664"}
    /\ file \in {"none", "open", "closed"}
    /\ handler \in {"python", "tracer"}
    /\ interrupted \in BOOLEAN
    /\ target \in Targets
    /\ past \in 0..Len(job.calls)
    /\ pending # NoEvent => /\ pending.name \in KnownNames
                            /\ pending.call = past + 1
                            /\ Len(pending.args) = Len(pending.raw)
    /\ \A n \in DOMAIN stats : stats[n].errors <= stats[n].count
    /\ \A i \in DOMAIN lines : lines[i] = Summary \/ lines[i].name \in DOMAIN stats
    /\ raised \in Exceptions
    /\ code \in Nat

cmd     == job.cmd
machine == job.machine

-----------------------------------------------------------------------------
Init ==
    /\ job \in Jobs
    /\ pc = "parse"
    /\ filter = NoFilter
    /\ arch = "none"
    /\ file = "none"
    /\ handler = "python"
    /\ interrupted = FALSE
    /\ target = "none"
    /\ past = 0
    /\ pending = NoEvent
    /\ stats = << >>
    /\ lines = << >>
    /\ raised = "none"
    /\ code = 0

trace  == <<past, pending, stats, lines>>   \* what the target did, what was written
world  == <<file, handler, target>>         \* what the program must give back

\* An exception leaves main; one inside the try block goes through the finally
\* that closes the file, and under attach becomes a return value.
Escape(kind) == pc' = "report" /\ raised' = kind /\ UNCHANGED code

Unwind(kind) ==
    /\ pc' = "close"
    /\ IF cmd.mode = "attach" /\ kind # "keyboard"
       THEN raised' = "none" /\ code' = 1
       ELSE raised' = kind /\ UNCHANGED code

Return(to, value) == pc' = to /\ code' = value /\ UNCHANGED raised

\* main: exactly one of -p and COMMAND; parser.error exits with 2.
Parse ==
    /\ pc = "parse"
    /\ IF cmd.mode \in {"spawn", "attach"}
       THEN pc' = "create" /\ UNCHANGED <<code, raised>>
       ELSE Return("done", 2)
    /\ UNCHANGED <<job, filter, arch, interrupted, trace, world>>

\* load_lldb_module: machine.lldb are the places the module can be imported from,
\* Python's own path among them, and every one is tried.
LldbLoads == machine.lldb # {}

\* Tracer.__post_init__: LLDB, the registry, the filter.
Create ==
    /\ pc = "create"
    /\ IF ~LldbLoads
       THEN Escape("strace") /\ UNCHANGED filter
       ELSE IF ParseFilter(cmd.filter) = BadFilter
       THEN Escape("error") /\ UNCHANGED filter
       ELSE /\ filter' = ParseFilter(cmd.filter)
            /\ pc' = "start"
            /\ UNCHANGED <<code, raised>>
    /\ UNCHANGED <<job, arch, interrupted, trace, world>>

\* resolve_binary_path: an absolute path is taken as it is.
ResolvedBinary == machine.path # "missing"

\* is_sip_protected: if csrutil is not there, SIP is taken to be on; if
\* codesign is not there, the binary is taken to be unprotected.
SipEnabled   == machine.csrutil # "disabled"
SipProtected == SipEnabled /\ machine.codesign = "platform"

\* _open_output, which empties the file; without -o, stderr is never closed.
OpenOutput ==
    IF cmd.output /\ ~machine.output
    THEN Escape("error") /\ UNCHANGED file
    ELSE /\ file' = IF cmd.output THEN "open" ELSE "none"
         /\ pc' = "setup"
         /\ UNCHANGED <<code, raised>>

\* mutant: the output is opened before the binary is looked for.
StartOpening ==
    /\ pc = "start"
    /\ OpenOutput
    /\ UNCHANGED <<job, filter, arch, interrupted, handler, target, trace>>

\* spawn and attach, up to the try block.
Start ==
    /\ pc = "start"
    /\ \/ cmd.mode = "attach" /\ cmd.pid <= 0 /\ Return("report", 1) /\ UNCHANGED file
       \/ cmd.mode = "attach" /\ cmd.pid > 0 /\ OpenOutput
       \/ /\ cmd.mode = "spawn"
          /\ IF ~ResolvedBinary THEN Escape("error") /\ UNCHANGED file
             ELSE IF SipProtected THEN Escape("strace") /\ UNCHANGED file
             ELSE OpenOutput
    /\ UNCHANGED <<job, filter, arch, interrupted, handler, target, trace>>

\* spawn: target, architecture, breakpoints, launch; each failure is a
\* RuntimeError.
Launch ==
    /\ pc = "setup"
    /\ cmd.mode = "spawn"
    /\ LET found == DetectArchitecture(machine.triple) IN
       IF ~machine.target \/ found = "none" \/ ~machine.process
       THEN /\ Unwind("error")
            /\ arch' = IF machine.target THEN found ELSE "none"
            /\ UNCHANGED target
       ELSE /\ arch' = found
            /\ target' = "held"
            /\ pc' = "loop"
            /\ UNCHANGED <<code, raised>>
    /\ UNCHANGED <<job, filter, file, handler, interrupted, trace>>

\* attach: _setup_debugger_and_attach, which gives up without letting go of a
\* process of another architecture; breakpoints, handler, Continue.
Attach ==
    /\ pc = "setup"
    /\ cmd.mode = "attach"
    /\ LET found == DetectArchitecture(machine.triple) IN
       IF ~machine.target \/ ~machine.process
       THEN Return("close", 1) /\ UNCHANGED <<arch, target, handler>>
       ELSE /\ arch' = found
            /\ target' = "held"
            /\ IF found = "none"
               THEN Return("close", 1) /\ UNCHANGED handler
               ELSE /\ handler' = "tracer"
                    /\ pc' = "loop"
                    /\ UNCHANGED <<code, raised>>
    /\ UNCHANGED <<job, filter, file, interrupted, trace>>

-----------------------------------------------------------------------------
\* The trace loop, over the next call the target makes.

Stopped == pc = "loop" /\ target = "held" /\ ~interrupted
Here    == job.calls[past + 1]

\* _handle_stop without duplicates: the symbol has a breakpoint, its stripped
\* name is in the registry, and the filter lets it through.
Traced(symbol) ==
    /\ symbol.stem \in ArmedStems
    /\ Stripped(symbol) \in KnownNames
    /\ ShouldTrace(filter, Stripped(symbol))

\* An exception leaves the loop; attach restores the handler on its way out.
LoopRaiseOnly(kind) == Unwind(kind) /\ UNCHANGED handler   \* mutant: it does not

LoopRaise(kind) == Unwind(kind) /\ handler' = "python"

\* What decodes a VariantParam: nothing, one of its variants, or the default,
\* by a discriminator that may have been misread.
Variants(p, c, raw) ==
    LET Choice(v) == CASE v = "skip" -> {Register("SkipArg", "plain")}
                       [] v = "variant" -> IF p.params = {} THEN {p.default} ELSE p.params
                       [] v = "default" -> {p.default}
    IN IF raw[p.count] = p.count THEN Choice(c.variant)
       ELSE UNION {Choice(v) : v \in {"skip", "variant", "default"}}

\* Its parameters, with the one that may vary resolved.
Resolved(d, c, raw) ==
    LET varying == {i \in DOMAIN d.params : d.params[i].label = "variant"}
    IN IF varying = {} THEN {d.params}
       ELSE LET i == CHOOSE i \in varying : TRUE
            IN {[d.params EXCEPT ![i] = q] : q \in Variants(d.params[i], c, raw)}

\* NULL is what the caller passed or what is read instead of an argument; what
\* was not passed points nowhere.
NullAt(c, raw, i)   == c.null \/ raw[i] = Zero
MemoryAt(c, raw, i) == [c.memory EXCEPT !.readable = @ /\ raw[i] = i]

\* _write_event: the summary first, then the line, which may fail to be
\* printed, and the handler's last step.
WriteEvent(e, ret) ==
    LET f == Formatter(cmd.json, machine.tty /\ ~cmd.output) IN
    /\ stats' = AddEvent(stats, e.name, ret)
    /\ past' = past + 1
    /\ IF cmd.summary
       THEN UNCHANGED <<lines, pc, code, raised, handler>>
       ELSE IF ~machine.disk
       THEN LoopRaise("error") /\ UNCHANGED lines
       ELSE /\ lines' = Append(lines, [name |-> e.name, call |-> e.call, args |-> e.args,
                                       ret |-> ret, shown |-> Positions(f, e.args),
                                       named |-> NamesIn(f, e.args)])
            /\ UNCHANGED <<pc, code, raised, handler>>

\* The target makes a call that is none of the tracer's.
Pass ==
    /\ Stopped
    /\ pending = NoEvent
    /\ past < Len(job.calls)
    /\ ~Traced(Here.symbol)
    /\ past' = past + 1
    /\ UNCHANGED <<job, pc, filter, arch, interrupted, pending, stats, lines,
                   raised, code, world>>

\* _handle_syscall_entry.  Without a return address the event is written now.
Enter ==
    /\ Stopped
    /\ pending = NoEvent
    /\ past < Len(job.calls)
    /\ Traced(Here.symbol)
    /\ LET c   == Here
           d   == LookupByName(Stripped(c.symbol))
           raw == RawArgs(arch, d, machine.frame)
       IN \E ps \in Resolved(d, c, raw) :
          LET e == [name |-> Stripped(c.symbol), call |-> past + 1, raw |-> raw, params |-> ps,
                    args |-> [i \in DOMAIN ps |->
                        AtEntry(ps[i], NullAt(c, raw, i), MemoryAt(c, raw, i), cmd.raw, MaxDisplay)]]
          IN IF c.raises = "entry"
             THEN LoopRaise("error") /\ UNCHANGED trace
             ELSE IF ReturnAddressRead(arch, machine.frame)
             THEN /\ pending' = e
                  /\ UNCHANGED <<past, stats, lines, pc, code, raised, handler>>
             ELSE WriteEvent(e, NoValue) /\ UNCHANGED pending
    /\ UNCHANGED <<job, filter, arch, interrupted, file, target>>

\* mutant: the event stays pending.
CompleteKept(e, ret) == pending' = pending /\ WriteEvent(e, ret)

Complete(e, ret) == pending' = NoEvent /\ WriteEvent(e, ret)

\* _handle_syscall_return: after a success the arguments are decoded again.
Leave ==
    /\ Stopped
    /\ pending # NoEvent
    /\ Here.returns
    /\ LET c == Here
           e == pending
       IN \E ret \in IF machine.frame.registers
                     THEN ReturnValues(c.result, LookupByName(e.name).decoder /\ c.variant = "skip",
                                       cmd.raw)
                     ELSE {NoValue} :
          IF ~Succeeded(ret) THEN Complete(e, ret)
          ELSE IF c.raises = "exit"
          THEN pending' = NoEvent /\ LoopRaise("error") /\ UNCHANGED <<past, stats, lines>>
          ELSE Complete([e EXCEPT !.args = [i \in DOMAIN e.params |->
                   AtExit(e.params[i], @[i], NullAt(c, e.raw, i), MemoryAt(c, e.raw, i),
                          cmd.raw, MaxDisplay)]], ret)
    /\ UNCHANGED <<job, filter, arch, interrupted, file, target>>

\* The target ends: after its last call, or in one that does not return.
TargetEnds ==
    /\ pc = "loop"
    /\ target = "held"
    /\ IF pending = NoEvent THEN past = Len(job.calls) ELSE ~Here.returns
    /\ target' = job.end
    /\ UNCHANGED <<job, pc, filter, arch, interrupted, file, handler, trace, raised, code>>

\* mutant: a crash is a success.
ExitCodeOfEnd == IF target = "failed" THEN 3 ELSE 0

\* What _trace_loop returns: 0 after Ctrl+C, the status of the target, or 1.
ExitCode == CASE interrupted -> 0
              [] ~interrupted /\ target = "exited" -> 0
              [] ~interrupted /\ target = "failed" -> 3
              [] ~interrupted /\ target = "crashed" -> 1

\* attach detaches after the loop.
WhereTo == IF cmd.mode = "attach" THEN "detach" ELSE "summary"

\* mutant: a crash is a state to wait in.
LeaveLoopUnlessCrashed ==
    /\ pc = "loop"
    /\ interrupted \/ target \notin {"held", "crashed"}
    /\ Return(WhereTo, ExitCode)
    /\ UNCHANGED <<job, filter, arch, interrupted, trace, world>>

\* _trace_loop returns.
LeaveLoop ==
    /\ pc = "loop"
    /\ interrupted \/ target # "held"
    /\ Return(WhereTo, ExitCode)
    /\ UNCHANGED <<job, filter, arch, interrupted, trace, world>>

\* Detach(), and the finally that restores the handler.
Detach ==
    /\ pc = "detach"
    /\ target' = IF target = "held" THEN "detached" ELSE target
    /\ handler' = "python"
    /\ pc' = "summary"
    /\ UNCHANGED <<job, filter, arch, interrupted, file, trace, raised, code>>

\* mutant: the summary is printed without being asked for.
PrintSummaryAlways ==
    /\ pc = "summary"
    /\ lines' = Append(lines, Summary)
    /\ pc' = "close"
    /\ UNCHANGED <<code, raised>>
    /\ UNCHANGED <<job, filter, arch, interrupted, past, pending, stats, world>>

PrintSummary ==
    /\ pc = "summary"
    /\ IF ~cmd.summary THEN pc' = "close" /\ UNCHANGED <<lines, code, raised>>
       ELSE IF ~machine.disk THEN Unwind("error") /\ UNCHANGED lines
       ELSE /\ lines' = Append(lines, Summary)
            /\ pc' = "close"
            /\ UNCHANGED <<code, raised>>
    /\ UNCHANGED <<job, filter, arch, interrupted, past, pending, stats, world>>

\* mutant: the file is closed on the way of no exception only.
CloseUnlessRaised ==
    /\ pc = "close"
    /\ file' = IF file = "open" /\ raised = "none" THEN "closed" ELSE file
    /\ pc' = "report"
    /\ UNCHANGED <<job, filter, arch, handler, interrupted, target, trace, raised, code>>

\* The finally of spawn and attach.
Close ==
    /\ pc = "close"
    /\ file' = IF file = "open" THEN "closed" ELSE file
    /\ pc' = "report"
    /\ UNCHANGED <<job, filter, arch, handler, interrupted, target, trace, raised, code>>

\* main and the interpreter: StraceError is reported, another exception is a
\* traceback, and Ctrl+C is 128 + SIGINT.
Report ==
    /\ pc = "report"
    /\ pc' = "done"
    /\ code' = CASE raised = "none" -> code
                 [] raised \in {"strace", "error"} -> 1
                 [] raised = "keyboard" -> 130
    /\ UNCHANGED <<job, filter, arch, interrupted, trace, world, raised>>

\* Ctrl+C, where the program waits for something or prints.  Python's own
\* handler raises KeyboardInterrupt.
Interrupt ==
    /\ \/ /\ pc \in {"create", "start"}
          /\ Escape("keyboard")
          /\ UNCHANGED <<interrupted, handler>>
       \/ /\ pc = "loop" /\ handler = "tracer" /\ ~interrupted
          /\ interrupted' = TRUE
          /\ UNCHANGED <<pc, raised, code, handler>>
       \/ /\ pc \in {"setup", "loop", "summary"}
          /\ handler = "python"
          /\ LoopRaise("keyboard")
          /\ UNCHANGED interrupted
    /\ UNCHANGED <<job, filter, arch, file, target, trace>>

\* What the program and the target do by themselves.
Work ==
    \/ Parse \/ Create \/ Start \/ Launch \/ Attach
    \/ Pass \/ Enter \/ Leave \/ TargetEnds \/ LeaveLoop
    \/ Detach \/ PrintSummary \/ Close \/ Report

Next == Work \/ Interrupt

Spec == Init /\ [][Next]_vars

\* Neither stops half way, whether or not there is a Ctrl+C.
FairSpec == Spec /\ WF_vars(Work)

-----------------------------------------------------------------------------
\* What a run promises.

Attached == cmd.mode = "attach"

\* Whatever happens, the output file does not stay open: the finally of spawn
\* and attach (tracer.py 259-261, 354-356) covers every way out of the try.
OutputClosed == pc = "done" => file # "open"

\* Nor does SIGINT stay with the tracer: attach gives the handler back on
\* every way out of the loop (tracer.py 334-343).
HandlerRestored == pc \in {"summary", "close", "report", "done"} => handler = "python"

\* The exit code is 0 only after a trace that came to its end: the target
\* exited with 0, or the user interrupted it and it was let go (main 94-121,
\* tracer.py 318-352, 395-417).
ZeroMeansTraced ==
    pc = "done" /\ code = 0 => target \in {"exited", "failed", "crashed", "detached"}
                               /\ (interrupted \/ target = "exited")

\* A run that is refused leaves an existing file as it was: the output is
\* opened after the filter, the pid, the binary and SIP were looked at (tracer.py
\* 71-92, 194-208, 318-321).
RefusedLeavesFile ==
    file # "none" =>
        /\ machine.lldb # {}
        /\ cmd.filter = NoExpression \/ cmd.filter.prefixed
        /\ Attached => cmd.pid > 0
        /\ ~Attached => /\ machine.path # "missing"
                        /\ machine.codesign = "platform" => machine.csrutil = "disabled"

\* Under -c the summary is all that is printed, it is printed once, and it is
\* there after every trace that ended or was let go of and could be printed;
\* without -c it is never there (tracer.py 164-176, 252-255, 345-347).
SummaryIsLast ==
    /\ \A i \in DOMAIN lines : (lines[i] = Summary) <=> (cmd.summary /\ i = 1 /\ Len(lines) = 1)
    /\ pc = "done" /\ cmd.summary =>
           (lines # << >> <=> /\ raised = "none"
                              /\ machine.disk
                              /\ target \in {"exited", "failed", "crashed", "detached"})

\* Which calls are to be traced, said without the registry's dictionaries and
\* without the breakpoints: those of a function that a category lists, and that
\* the filter names or whose last category it names.
Selected(symbol) ==
    LET name == Name(symbol.stem, 0)
    IN /\ \E c \in Categories : name \in NamesOf[c]
       /\ \/ cmd.filter = NoExpression
          \/ name \in cmd.filter.words
          \/ cmd.filter.words = {Name(Section(name), 0)}
MadeOf(name) == {i \in 1..past : Selected(job.calls[i].symbol)
                                 /\ Stripped(job.calls[i].symbol) = name}

\* Of the functions that are listed without underscores, the summary counts, and
\* the lines show in their order, exactly the selected calls that are over
\* (registry.py 26-65, tracer.py 94-183, 448-474, formatters.py 213-229).  It says
\* nothing of those listed as __mac_execve is: ListedAreCounted does.
Unbarred == {n \in DOMAIN stats : n.bars = 0}
SummaryCounts ==
    /\ Unbarred = {Stripped(job.calls[i].symbol) :
                      i \in {j \in 1..past : Selected(job.calls[j].symbol)}}
    /\ \A n \in Unbarred : stats[n].count = Cardinality(MadeOf(n))
    /\ machine.disk /\ ~cmd.summary =>
           /\ {lines[k].call : k \in {k \in DOMAIN lines : lines[k].name.bars = 0}}
                  = UNION {MadeOf(n) : n \in Unbarred}
           /\ \A j, k \in DOMAIN lines : j < k => lines[j].call < lines[k].call

\* What README.md 96-118 says of the categories, "security" with its __mac_* for
\* one: a call of a function that a category lists is traced when the filter names
\* that category, or when there is no filter, under whichever of its names.
ListedAreCounted ==
    \A i \in 1..past :
        LET symbol == job.calls[i].symbol IN
        /\ \E c \in Categories : symbol \in NamesOf[c]
        /\ cmd.filter = NoExpression \/ cmd.filter.words = {Name(Section(symbol), 0)}
        => {symbol, Stripped(symbol)} \cap DOMAIN stats # {}

\* The errors of the summary are failures, and under --no-abbrev all of them
\* (tracer.py 586-591, formatters.py 227-229); without it -1 is text, which is
\* not counted.
Failures(name) == {i \in MadeOf(name) : job.calls[i].result < 0}
ErrorsAreFailures ==
    \A n \in DOMAIN stats :
        /\ stats[n].errors <= Cardinality(Failures(n))
        /\ cmd.raw /\ ReturnAddressRead(arch, machine.frame) =>
               stats[n].errors = Cardinality(Failures(n))

\* What the help of -c says of the summary: errors are counted, of every call
\* that is completed (__main__.py 41-46).
ErrorsCounted ==
    \A n \in DOMAIN stats :
        ReturnAddressRead(arch, machine.frame) => stats[n].errors = Cardinality(Failures(n))

\* Every argument is read where it was passed (arch.py 46-201, tracer.py
\* 634-664), but for three kinds: on ARM64 those of the functions whose variable
\* arguments begin elsewhere than the table says; on x86_64 variable arguments,
\* and whatever is beyond six registers.
Legible == machine.frame.registers /\ machine.frame.stack
ArgumentsAsPassed ==
    pending # NoEvent /\ Legible =>
        LET d == LookupByName(pending.name) IN
        \A i \in DOMAIN pending.raw :
            pending.raw[i] # i =>
                \/ /\ arch = "ARM64" /\ Misdeclared(d)
                   /\ i > d.variadic \/ i > FirstVariable(d)
                \/ arch = "X8664" /\ (i > d.variadic \/ i > ArgRegisters(arch))

\* Sizes, counts and discriminators are none of these: the argument that a
\* parameter is measured with is a number in a register, as the caller passed
\* it (the buffer_size_arg, count_arg and discriminator indices of
\* definitions/*.py).
SizesAsPassed ==
    pending # NoEvent /\ Legible =>
        \A i \in DOMAIN pending.params :
            LET k == LookupByName(pending.name).params[i].count IN
            k > 0 => /\ pending.raw[k] = k
                     /\ pending.params[k].label \in {"plain", "named", "hexed"}
                     /\ pending.params[k].arg # "PointerArg"

\* JSON, text and colours, which each have a dispatch of their own, show the same
\* arguments of an event, all but those that are skipped, and agree on which show
\* a name (formatters.py 42-205).
FormatsAgree ==
    \A k \in DOMAIN lines : lines[k] # Summary =>
        LET args == lines[k].args IN
        \A f \in Formatters :
            /\ Positions(f, args) = {i \in DOMAIN args : args[i].class # "SkipArg"}
            /\ NamesIn(f, args) = {i \in DOMAIN args : args[i].symbol \in {"name", "inside"}}

\* A buffer is shown in printable characters from which its bytes can be read
\* back, and with an ellipsis exactly if some are left out (string_quote.py).
QuotedIsReadable ==
    \A k \in DOMAIN lines : lines[k] # Summary =>
        LET data == job.calls[lines[k].call].memory.data
            more == IF Len(data) > MaxDisplay THEN Ellipsis ELSE << >> IN
        \A i \in DOMAIN lines[k].args :
            LET arg == lines[k].args[i] IN
            arg.class = "BufferArg" =>
                /\ \A c \in Range(arg.text) : IsPrintable(c)
                /\ Unquoted(arg.text) = Displayed(data, MaxDisplay) \o more

\* --no-abbrev, which is to print raw values (__main__.py 47-51): no constant and
\* no error has a name, in the arguments and in the return value, and of what is
\* decoded from memory only those parameters show names that never look at
\* no_abbrev: sockaddr, sigaction, stack_t, sigset_t, rlimit, attrlist, kevent,
\* pollfd, the array of aiocbs and the MIB (definitions/__init__.py 311-390,
\* tracer.py 581-591, struct_params/*.py, sysinfo.py 34-56).
KeepsNames(d, i) == \E p \in Alternatives(d.params[i]) : p.inner = "always"
NoAbbrevShowsNoNames ==
    \A k \in DOMAIN lines : lines[k] # Summary /\ cmd.raw =>
        /\ \A i \in lines[k].named : KeepsNames(LookupByName(lines[k].name), i)
        /\ lines[k].ret.symbol # "name"

\* The program ends once its target does, and one that cannot start ends too:
\* no exception and no state of the target leaves it in the loop (tracer.py
\* 395-420).
Ends == <>(pc = "done")
=============================================================================
