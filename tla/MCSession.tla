------------------------------ MODULE MCSession ------------------------------
(***************************************************************************)
(* Runs of strace-macos for TLC: every function of the registry, every     *)
(* option with everything that may go wrong, and buffers to be quoted.     *)
(***************************************************************************)
EXTENDS Session, SequencesExt

\* Calls.
Call(stem, bars, result) ==
    [symbol |-> Name(stem, bars), result |-> result, variant |-> "default", null |-> FALSE,
     memory |-> [readable |-> TRUE, data |-> <<97, 10>>], raises |-> "never", returns |-> TRUE]
AnyVariant(c)  == {[c EXCEPT !.variant = v] : v \in {"skip", "variant", "default"}}
Raising(c, at) == [c EXCEPT !.raises = at]
Null(c)        == [c EXCEPT !.null = TRUE]
Unmapped(c)    == [c EXCEPT !.memory.readable = FALSE]
Endless(c)     == [c EXCEPT !.returns = FALSE]

\* The command line and the machine, when there is nothing special about them.
Cmd == [mode |-> "spawn", pid |-> 0, output |-> TRUE, json |-> FALSE, summary |-> FALSE,
        raw |-> FALSE, filter |-> NoExpression]
Machine ==
    [lldb |-> {"xcrun"}, path |-> "absolute", csrutil |-> "enabled", codesign |-> "other",
     output |-> TRUE, target |-> TRUE, process |-> TRUE, triple |-> "arm64",
     frame |-> [registers |-> TRUE, stack |-> TRUE], tty |-> FALSE, disk |-> TRUE]
Job(c, m, calls, end) == [cmd |-> c, machine |-> m, calls |-> calls, end |-> end]

Filter(words) == [prefixed |-> TRUE, words |-> {Name(w, 0) : w \in words}]
Filters == {NoExpression, Filter({"memory"}), Filter({"file"}), Filter({"write", "msync", "x"})}

-----------------------------------------------------------------------------
\* Every function of the registry, and what has underscores only or is unknown:
\* on each architecture, and under each filter.
Functions1 == {Call(n.stem, bars, 3) : n \in KnownNames, bars \in {0, 2}}
RegistryJobs ==
    {Job(Cmd, [Machine EXCEPT !.triple = t], <<c>>, "exited") :
        t \in {"arm64", "x86_64"}, c \in Functions1}
    \cup {Job([Cmd EXCEPT !.filter = f], Machine, <<c>>, "exited") : f \in Filters, c \in Functions1}

\* Every function once more under --no-abbrev, and ioctl with all it may point to.
RawJobs ==
    {Job([Cmd EXCEPT !.raw = r], Machine, <<c>>, "exited") :
        r \in BOOLEAN,
        c \in {Call(n.stem, 0, 3) : n \in KnownNames} \cup AnyVariant(Call("ioctl", 0, 3))}

-----------------------------------------------------------------------------
\* Every option, with one thing that goes wrong.
Options ==
    {[Cmd EXCEPT !.mode = m, !.pid = 7, !.output = o, !.json = j, !.summary = s, !.raw = r] :
        m \in {"spawn", "attach"}, o, j, s, r \in BOOLEAN}
Wrong ==
    {[Cmd EXCEPT !.mode = m] : m \in {"neither", "both"}}
    \cup {[Cmd EXCEPT !.mode = "attach", !.pid = i] : i \in {-1, 0}}
    \cup {[c EXCEPT !.filter = [prefixed |-> FALSE, words |-> {Name("file", 0)}]] : c \in Options}

Machines ==
    {Machine,
     [Machine EXCEPT !.lldb = {}], [Machine EXCEPT !.path = "missing"],
     [Machine EXCEPT !.output = FALSE], [Machine EXCEPT !.target = FALSE],
     [Machine EXCEPT !.process = FALSE], [Machine EXCEPT !.disk = FALSE],
     [Machine EXCEPT !.tty = TRUE], [Machine EXCEPT !.triple = "x86_64"],
     [Machine EXCEPT !.triple = "x86_64", !.frame.stack = FALSE],
     [Machine EXCEPT !.frame.stack = FALSE],
     [Machine EXCEPT !.triple = "i386", !.frame.registers = FALSE],
     [Machine EXCEPT !.triple = "riscv64"]}
    \cup {[Machine EXCEPT !.csrutil = s, !.codesign = "platform"] :
             s \in {"enabled", "disabled", "absent"}}
    \cup {[Machine EXCEPT !.codesign = "absent"]}

\* Three programs for every machine, and more for the one nothing is wrong with.
Basic ==
    {<<Call("write", 0, 3), Call("open", 2, -1), Call("write", 0, -1)>>,
     <<Call("printf", 0, 3), Null(Call("read", 0, 0)), Endless(Unmapped(Call("read", 0, 3)))>>,
     <<Call("close", 0, 0), Raising(Call("writev", 0, 3), "entry")>>}
Programs ==
    Basic \cup {<<Raising(Call("readv", 0, 3), "exit"), Call("close", 0, 0)>>}
    \cup {<<c, Call("msync", 0, -1)>> : c \in AnyVariant(Call("fcntl", 0, 2))}

OptionJobs ==
    {Job(c, m, p, "exited") : c \in Options, m \in Machines, p \in Basic}
    \cup {Job(c, Machine, p, e) : c \in Options, p \in Programs, e \in {"exited", "failed", "crashed"}}
    \cup {Job(c, Machine, <<Call("write", 0, 3)>>, "exited") : c \in Wrong}

-----------------------------------------------------------------------------
\* Buffers: escapes, digits after an octal escape, and more than is shown.
Bytes   == {0, 7, 8, 10, 34, 48, 56, 92, 97, 200}
Buffers == UNION {[1..n -> Bytes] : n \in 0..3}
BufferJobs ==
    {Job(Cmd, Machine, <<[Call("write", 0, 3) EXCEPT !.memory.data = b]>>, "exited") : b \in Buffers}

SessionJobs == RegistryJobs \cup RawJobs \cup OptionJobs \cup BufferJobs

\* Every function of the security category, when it is asked for.
SecurityJobs ==
    {Job([Cmd EXCEPT !.filter = Filter({"security"})], Machine, <<Call(n.stem, n.bars, 3)>>, "exited") :
        n \in NamesOf["security"]}

\* One failing call, under every option.
FailingJobs == {Job(c, Machine, <<Call("close", 0, -1)>>, "exited") : c \in Options}
=============================================================================
