# strace-macos in TLA+

strace-macos traces the system calls of a macOS process with LLDB: it sets a
breakpoint on every libsystem function that wraps a system call, decodes the
arguments when a thread stops there, sets a one-shot breakpoint at the return
address, and writes one line when the thread comes back. This directory holds
TLA+ models of that program, the TLC configurations that check them, and proofs
checked by TLAPS. Paths below are relative to the repository (`src/` here).

## The system

| Component | State | Operations | Interacts through |
|---|---|---|---|
| Debuggee: the traced process and LLDB (external) | threads, calls in progress, breakpoints, stops, the selected thread, process state | call, branch, return, longjmp, signal, halt, resume, exit, crash | SB API of LLDB, called by `tracer.py` |
| Tracer (`tracer.py` 185-557) | `pending_syscalls`, `interrupted`, the loop | `spawn`, `attach`, `_trace_loop`, `_handle_stop`, `_handle_syscall_entry`, `_handle_syscall_return`, SIGINT handler | Continue and GetState; events go to `_write_event` |
| Decoding (`tracer.py` 559-751, `syscalls/definitions/__init__.py`, `syscalls/struct_params/`) | one `DecodeContext`, `raw_args` and `args` of each event, the sysctl caches | decode at entry, decode at exit, one `decode` per Param class | reads target memory, called by the two handlers |
| Registry and filter (`syscalls/registry.py`, `definitions/*.py`, `tracer.py` 94-143) | `_by_name`, `_by_number`, `_categories`, the filter | register, look up by name or category, parse the filter | breakpoints are set on its names; every stop is looked up |
| Session (`__main__.py`, `tracer.py` 145-356) | output handle, exit code, summary | open, run, print the summary, close, map exceptions | starts the tracer |
| Architecture (`arch.py`) | none | argument registers, variadic slots, return address | read at an entry stop |
| Formatters, argument values, quoting (`syscalls/formatters.py`, `syscalls/args.py`, `string_quote.py`) | `SummaryFormatter.stats` | count an event, format it as JSON, text or coloured text, quote a buffer | called by `_write_event` and by the decoders |
| Symbol tables, struct layouts (`syscalls/symbols/`, `syscalls/struct_params/`, `syscalls/struct_decoders/`) | none | names of values, fields of structs | called by the decoders |
| LLDB loader, SIP check, command line (`lldb_loader.py`, `sip.py`, `__main__.py`) | none | fallbacks over files and commands | once, before the trace |

What is hard in it:

- **Interleaving.** The target has many threads; LLDB halts all of them and the
  tracer looks at the selected one only (`tracer.py` 428). A return-address
  breakpoint is hit by whichever thread arrives first (524-525).
- **Nesting and sequences.** A signal handler makes calls inside a blocked
  call; a call may leave by longjmp; a wrapper branches to `__foo`, which has a
  breakpoint too. `pending_syscalls` is keyed by (thread, return address), and
  the test for duplicates asks for any pending call of the thread (467, 529).
- **Time.** The loop blocks in a synchronous `Continue()`. Ctrl+C, the end of
  the process and a stop race there (395-417).
- **Shared context.** One `DecodeContext` is overwritten by every entry and
  every exit of every thread (704-708, 729-733).
- **Stale memory.** Arguments are read twice, before and after the call, while
  other threads change them; output is bounded by the return value.
- **Partial failure.** Registers and memory may be unreadable, and only
  `attach` catches exceptions (351). Everything between the command line and
  the loop can fail, and Ctrl+C means something else in each place.
- **Tables.** The same name in two lists, names with underscores of their own,
  and indices of arguments (sizes, counts, `variadic_start`) that have to agree
  with prototypes and with two calling conventions.

What makes each component correct: the **tracer** never attributes a return to
another thread or call site, never shows it twice, loses a call only for a known
reason, and never leaves the target stopped. **Decoding** shows input that is
declared as such as it was passed, output only when and as far as the kernel wrote
it, and takes sizes from the call they belong to. The **registry** finds every name it set a breakpoint
on. The **session** closes what it opened and reports how the trace ended.

## The modules

| Module | Models | Kind |
|---|---|---|
| `Debuggee` | the target under LLDB, as `tracer.py` uses it | external component, composed into `Tracer` |
| `Tracer` | trace loop, stop handlers, interrupt, attach and detach | component |
| `CallLog` | what a call tracer promises of a sequential target | abstract specification |
| `TracerRefinement` | `Tracer` implements `CallLog` | refinement mapping |
| `Decode` | entry and exit decoding of several calls at once | component |
| `TracerProofs` | theorems about `Tracer` and their proofs | proofs |
| `LossProofs` | the loss theorem of `Tracer` and its proof | proofs |
| `RefinementProofs` | the safety part of `CallLog` as a theorem about `Tracer` | proofs |
| `DecodeProofs` | theorems about `Decode` and their proofs | proofs |
| `SyscallTable` | the rows of `syscalls/definitions/*.py` and the Param classes they are built from | data |
| `Registry` | registration, breakpoints, lookup, filter | operators |
| `Arguments` | where an argument is read, and where it was passed | operators |
| `Rendering` | argument classes, quoting, return values, formatters, summary counts | operators |
| `RenderingProofs` | the theorem about quoting, and induction over sequences | proofs |
| `Session` | one run of the program, from the command line to the exit code; composes `Registry`, `Arguments` and `Rendering` | component |
| `SessionProofs` | theorems about `Session`: files, signals, exit codes, raw arguments | proofs |
| `SessionTraceProofs` | theorems about `Session`: what is written and counted | proofs |
| `MCTracer`, `MCTracerRefinement`, `MCDecode`, `MCSession` | instances for TLC | model checking |

### Debuggee

A call is a member of `Calls`, never used twice; it is made by a thread through
a symbol, from a site, which stands for its return address. `over` records the
calls that were in progress when it began: that gives the innermost call of a
thread, and tells which calls overlapped. `Call`, `Branch`, `Return`, `Abandon`
and `Signal` are what a running thread may do, `hit` says why a thread is
stopped, and `Halt` is what ends a synchronous `Continue()`: all threads stop,
any one with a reason is selected, and the one-shot breakpoints that were hit
are gone. `missed` is a history variable, the calls with a stop that nobody
looked at. A call keeps the symbol it came in at (`entry`) beside the one it is
at now, and `AtEntry` is its first stop. Everything here is taken from how `tracer.py` uses LLDB. Taken to be
true: symbol stubs are leaves, so that the return address can be read anywhere
inside them; a wrapper reaches its implementation by a tail branch
(`tracer.py` 459-470); both symbols carry breakpoints.

### Tracer

| Definition | Code |
|---|---|
| `Launch`, `Attach` | `spawn` 210-250, `attach` 318-338: everything up to the first wait in the loop |
| `Wake` | `Continue()` returns; the SIGINT handler runs; tests of `interrupted` and of the state; `_handle_stop` |
| `HandleReturn`, `HandleEntry`, `IgnoreStop` | 441-446 with 531-557; 448-477 with 479-529; every early return of `_handle_stop` |
| `TakenForDuplicate` | 462-470 |
| `Continue`, `Quit` | 409-411 with the next turn of the loop |
| `Interrupt` | a SIGINT, at any moment; under `attach` only, which installs the handler |
| `Finish` | `Detach()` and the end of `attach` |

`beside` is a history variable too: `<<c, d>>` is in it when `d` was pending on
the thread of `c` as the tracer looked at the first stop of `c`. Only
`LostOnlyIfExcused` reads it.

An event is abstracted to the call its arguments were read from, the thread and
site of its key, and the call whose return value it shows. Steps between which
nobody can act are one action: `attach` up to its first `Continue()` (the process
is stopped), and the tests after `Continue()` returns together with the handler.
A SIGINT between the test of `interrupted` and `Continue()` is one that comes
while the tracer is blocked. The sleep in the loop's `else` branch is not
reached in synchronous mode. A stop by a signal inside a traced symbol is an
entry to the code, and so it is here: the same key is written again. Signals
are not combined with an unreadable return address, which would add a `?` event
for each signal without bound.

`SyscallName`, `Registry` and `Filter` are constants: the name a symbol has after
`lstrip("_")`, the names `lookup_by_name` finds and the names the filter accepts.

### Decode

Several calls are under way; each is entered, carried out by the kernel, and
left. `Enter` is `_extract_args` with everything it calls, `Exit` is
`_handle_syscall_return` without the writing. Both overwrite `ctx`. Each Param
class is an operator (`BufferDecode`, `IovecDecode`, ...) with the code's guards
in the code's order. What a pointer points to is abstracted to how many units
the kernel wrote there, whether anyone changed it since the entry, and whether it
can be read; what is shown is abstracted to its form, its length, and the same
two facts about the memory that was read. `Kernel` and `Meddle` are external:
the first fills the output arguments of a call that succeeds, and the second is
another thread that changes or unmaps memory. `Shapes` gives the parameter lists;
`MCDecode` takes them from `definitions/*.py`, parameter by parameter. Every struct is a
single unit. A buffer's cap and the limits of arrays are constants, scaled down.

A parameter has a class, a direction and a count. `IN` and `OUT` are what the code
declares; `ANY` is for the classes whose `decode` has no direction filter and
looks at memory whenever it is called: strings, arrays of strings, the MIB of
sysctl, its size pointer and the timespec of gethostuuid. `Moment` says which
directions each class may have. A `VariantParam` has its discriminator's index, the
values for which the argument does not exist (`skip_for`), the bit that must be
set (`skip_when_not_set`), its variants and its default.

`Kernel` returns anything in its range. A call that fails writes nothing; a call
that counts wrote what it returns; any other writes as much of each output
argument as it likes. A failure is -1, or, where the shape says `errno`
(`posix_spawn`, `sigwait`, `pthread_sigmask`), a positive number, which the code
takes for a success.

### SyscallTable and Registry

`SyscallTable` has one row for each `SyscallDef` of the twelve lists, in their
order and in pieces of at most 150 lines of source: number, name, parameters,
`variadic_start`, and whether there is a return decoder. A parameter is
abstracted to what the later stages tell apart: the class of argument it
decodes to, what it falls back to when memory cannot be read or the pointer is
NULL, whether its value may get a name, whether what it points to may show
names and whether `no_abbrev` is asked first (`inner`), its direction, and the
argument that holds its size, count or discriminator. A name is a stem and the number of
underscores in front of it, which is all `lstrip("_")` looks at.

`Registry.Registered[i]` are the three dictionaries after `i` lists, where a
later row replaces an earlier one; `Breakpoints` are the names of
`get_all_syscalls`; `ParseFilter` and `ShouldTrace` are `_parse_filter` and
`_should_trace_syscall`, with an expression abstracted to whether it begins with
`trace=` and to the words between its commas.

### Arguments

A place is an argument register or a slot of eight bytes above the stack
pointer. `Place` is where `_read_raw_arg_value` looks for an argument and
`Passed`, which is external, where the calling convention of macOS puts it;
the value that is read is the number of the argument that was passed there, or
`Junk`, or `Zero` when nothing can be read. That makes "the right value" a
comparison of numbers, without values.

### Rendering

`EscapeByte` and `QuoteString` work on codes of characters, as `string_quote.py`
does; `Unquoted` is the reference, a reader of C string literals that takes one
character after the other (`Read`). `AtEntry` and
`AtExit` give the class of an argument and its symbolic form. `Decoded` takes
the shared path of the Param classes: NULL, unreadable memory, the direction.
`Inside` says whether the memory that was decoded shows names: never, unless
`--no-abbrev` is given (stat, termios, aiocb, sigevent), or always (kevent, pollfd,
signal sets, sigaction, stack, sockaddr, rlimit, attrlist, arrays of aiocb, a MIB).
Bounds and counts are the subject of `Decode`. The three formatters are
reduced to which arguments they show and in which form, each with a dispatch of
its own: `JsonShows` by the table of exact types with `str(arg)` for the rest,
`TextShows` by `str(arg)`, `ColorShows` by `isinstance`; `Written` is `__str__` of
each class.

### Session

A job is a command line, a machine, the calls of the target and its end. It is
chosen once, in `Init`; everything that may fail is a field of it (where LLDB
can be imported from, whether the output can be opened, whether `CreateTarget`
and `Launch` or `AttachToProcessWithID` succeed, the architecture, what can be read of a
frame, whether printing works, whether a handler raises), so that a run with
nothing wrong and one with each thing wrong are both in the model.

| Definition | Code |
|---|---|
| `Parse`, `Report` | `main` (`__main__.py` 24-121): usage errors, `StraceError`, traceback, Ctrl+C |
| `Create` | `Tracer.__post_init__` (71-92) with `load_lldb_module` and `_parse_filter` |
| `Start` | `spawn` 194-208 and `attach` 318-321: pid, binary, SIP, then the output |
| `Launch`, `Attach` | 210-250; `_setup_debugger_and_attach` and 322-338 |
| `Pass`, `Enter`, `Leave` | `_handle_stop`, `_handle_syscall_entry` and `_handle_syscall_return` for one call after the other, with `_write_event` |
| `TargetEnds`, `LeaveLoop` | the end of the process, and `_trace_loop` 395-417 |
| `Detach`, `PrintSummary`, `Close` | 338-343; 252-255 and 345-347; the `finally` of 259-261 and 354-356 |
| `Interrupt` | SIGINT: the tracer's handler sets `interrupted`, Python's own raises |
| `Unwind`, `LoopRaise`, `Escape` | an exception inside the `try`, inside the loop, and before the `try` |

Threads, nested calls and duplicates are left to `Tracer`: a target of
`Session` makes one call after the other, and a call that is made through the
wrapper does not stop again. What a variant decodes to is chosen
freely when its discriminator was misread. In the `try` of `attach`, `except
Exception` does not catch `KeyboardInterrupt`; that is why `Unwind` asks what
is raised.

### Definitions marked "mutant:"

They are not part of the models. Each is a slip the code next to it could have;
the project's manifest says which property notices it in which run.

## The runs

Passing runs:

| Run | Instance | Shows |
|---|---|---|
| `tracer_threads` | 2 threads, 3 calls, 3 sites (one unreadable), no nesting, `spawn` | `TypeOK`, `PendingOwned`, `ReturnsFromOwnThread`, `OneEventPerCall`, `LostOnlyIfExcused`, `PendingLeftToItsThread` |
| `tracer_reentry` | 1 thread, 3 calls, 2 sites, two calls deep, longjmp, signals, `attach` | `PendingOwned`, `ReturnsFromOwnThread`, `OneEventPerReturn`, `LostOnlyIfExcused`, `PendingLeftToItsThread`, along one thread |
| `tracer_quiet` | 1 thread, 3 calls, sequential, both modes, signals, exit and crash | `KeepsCallLog`: the safety part of the refinement; `ImplementsCallLog`: with its liveness; `HitsAreServed`, `EndIsNoticed`, `InterruptEndsBusyTrace` |
| `decode` | one call of any of 22 shapes beside a `pread` of another thread, raw values 0..3, caps of 2; 1,024,290 states | `OutputIsWritten`, `NothingOnFailure`, `InputAsPassed`, `SizeIsOwn`, `OutputIsShown`, `TypeOK` |
| `session` | every job of `MCSession`, 237,128 states | `OutputClosed`, `HandlerRestored`, `ZeroMeansTraced`, `RefusedLeavesFile`, `SummaryIsLast`, `SummaryCounts`, `ErrorsAreFailures`, `ArgumentsAsPassed`, `SizesAsPassed`, `FormatsAgree`, `QuotedIsReadable`, `NoAbbrevShowsNoNames`, `Ends`, `TypeOK` |

`LostOnlyIfExcused` is the central promise in its honest form. A traced call
that returned is in the trace unless LLDB stopped several threads at once and
it was not selected; or it shared its return address with a call in progress
at the same time; or it came in at a `__` symbol, without a wrapper, while another
call of its thread was pending. A call that came in at its wrapper is never
excused by the name of its implementation.

`OneEventPerCall` counts all events of a call, those without a return too. It
has one exception, which is what the code does: where the return address cannot
be read, a call through a wrapper is written as `?` at the wrapper, leaves nothing
pending, and is written as `?` once more at its implementation. `OneEventPerReturn`
is its counterpart where signals stop a thread inside a traced function: each
such stop is an entry, so that only returns can be counted.

In `decode`, `NothingOnFailure` is about calls that return -1, `InputAsPassed`
about parameters that are declared `IN`, and `OutputIsWritten` about buffers, event
lists and arrays of ints of calls that return another number than 0. What lies
outside these is reached by the model, and listed under "Noted" below.

In `session`, `SummaryCounts` says without the registry's dictionaries which
calls are counted and shown: those of a function some list has under its
stripped name, if the filter names it or the category of the last list that has
it. It speaks of functions that are listed without underscores; what becomes of
the others is `session_listed`. `ArgumentsAsPassed` names its exceptions, and each is a real one: on ARM64
the functions whose variable arguments begin elsewhere than their
`variadic_start`, on x86_64 variable arguments (the code reads them from
`[rsp+8]`, although the docstring at `arch.py` 172-174 says they are "still
passed in a register (rdx)") and whatever is beyond six registers.
`SizesAsPassed` shows that no size, count or discriminator is among the
exceptions. `ErrorsAreFailures` is what is left of the errors column:
it never counts too many, and counts all under `--no-abbrev`. `NoAbbrevShowsNoNames`
leaves out what the decoders of memory show that never look at `no_abbrev`
(`KeepsNames`); everything else is raw.

Runs that end in a violation compare the code with what a comment or docstring
says of it:

| Run | Refutes | Counterexample |
|---|---|---|
| `tracer_dup` | `DuplicateMeansTraced` (`tracer.py` 464-466) | a second `__select`, made by a signal handler inside the first, is skipped as a duplicate of it |
| `tracer_mixup` | `ReturnMatchesEntry` (487, 534) | a function is entered again from the same call site: the return of the inner call completes the event of the outer one |
| `tracer_ctrlc` | `InterruptEndsTrace` (91) | the target makes no further call; `Continue()` never returns |
| `decode_eof` | `ReadShowsActualBytes` (`syscalls/definitions/__init__.py` 578-579) | `read` returns 0 and the whole buffer is shown |
| `session_errors` | `ErrorsCounted` (`__main__.py` 45, `formatters.py` 226) | `close` returns -1 under `-c`: counted once, with no error, because -1 has become the name of `errno` |
| `session_listed` | `ListedAreCounted` (`README.md` 96-118, 115 for `__mac_*`) | `__mac_get_file` under `trace=security`: `lstrip("_")` (`tracer.py` 452) makes it `mac_get_file`, which no list has |
| `decode_null` | `DecodingNeverRaises` (`tracer.py` 669) | `writev` with a NULL base and a length: `None == 0` is false in `iovec.py` 126 (the run's only shape; `msghdr.py` 164 has the same test) |

**Why the bounds are enough.** Every confusion of the tracer is between two
calls: one key, one breakpoint, one duplicate. Three calls allow that
confusion and its aftermath (a stale pending entry met by a later call). Two
threads are enough for a stop that is not the selected one, and two levels for
a call inside a call. Every kind of symbol is present: wrapper with
implementation, implementation alone, filtered out, and one whose stripped name
is in no registry. In `decode`, raw values up to 3 exceed both caps, so that a
size can be zero, below, at and above its limit, and a return value below, at
and above it; two calls are enough to leave each other's context behind. The
22 parameter lists have every Param class, every kind of variant (`open`, `ioctl`,
`fcntl`), counting and other calls, and both ways to fail.
In `session` four families of jobs are put together. Every name of the registry
is called, with and without underscores, on both architectures and, on one of
them, under two categories and a list of names: the rows do not interact, so one
call each is enough. Every name is called once more with `--no-abbrev` and
without, `ioctl` with everything it may point to. The 32 combinations of mode, `-o`, `--json`, `-c` and
`--no-abbrev` meet seventeen machines (each with one thing wrong) with three programs
of up to three calls, and the machine with nothing wrong with four more
and every end of the target: among them failures, NULL, unreadable memory, a
call that does not return, a handler that raises at either end and a call that
comes after it, with a Ctrl+C at any step. Buffers are all those of up to three bytes
out of ten that stand for the branches of `_escape_byte`, with a display limit
of two, so that an octal escape before a digit, at the end and at the cut all
occur. `CHECK_DEADLOCK FALSE` everywhere: a target may end, run out of calls or stay
blocked.

**Fairness.** The tracer's own steps are weakly fair: between two waits it only
computes. So is LLDB's `Halt`: a thread that hit a breakpoint ends
`Continue()`. The target is not fair: it may compute or block for ever, and
nobody has to press Ctrl+C. That is why `InterruptEndsBusyTrace` assumes that
the process keeps stopping, and why `InterruptEndsTrace` fails.

In `Session`, `Work` as a whole is weakly fair: the program goes on by itself, and
the jobs are programs that make finitely many calls and end. `Interrupt` is
not: `Ends` holds with and without a Ctrl+C. (A target that does not end is
the subject of `tracer_ctrlc`.)

**Symmetry.** Calls and threads are interchangeable in `tracer_threads` and
calls in `tracer_reentry`; the runs with liveness use none.

## The proofs

`TracerProofs` proves, for any sets of threads, calls, sites and symbols, any
nesting depth, any registry and any filter:

| Theorem | Property |
|---|---|
| `TypeCorrect` | `TypeOK` |
| `PendingIsOwned` | `PendingOwned` |
| `ReturnsAreOwn` | `ReturnsFromOwnThread` |
| `ReturnsAreShownOnce` | `OneEventPerReturn` |
| `PendingIsLeft` | `PendingLeftToItsThread` |

They assume `DebuggeeAssumption` and `TracerAssumption`, which TLC evaluates in
every run of the tracer: the shapes of the constants, and that a wrapper and its
implementation have one stripped name.

The type invariant is not inductive alone: the handlers read the symbol and the
site of the call a thread is stopped in. `TInv` adds `SelectedStopped` (in a
stopped process the selected thread has a reason to stop) and `HitsSound` (a
thread is stopped in a call of its own, and a return stop is of a call that
returned). `IInv` adds the three safety properties and `FreshReturns`: a return
stop that was not handled yet is of a call whose return is not in the trace.
Without it `OneEventPerReturn` is not inductive, because a return could be
handled a second time; with it, the argument is that a call returns once
(`Return` needs a live call), that its stop is handled once (`Wake` leaves
"blocked", and `Continue` clears every stop), and that no other stop shows its
return. `CallKept` is what no step changes about a call that has begun: its
thread, its site, its stripped name, and that it has returned. `TargetEffect`
proves it for the seven steps of the target, `SoundKept` carries the invariant
over them, and `ReturnSound` and `EntrySound` are the two handlers.

`LossProofs` proves, under the same assumptions:

| Theorem | Property |
|---|---|
| `LostIsExcused` | `LostOnlyIfExcused` |

The property speaks of a call after it returned; the invariant `LInv` has to say
what becomes of it from its first instruction on. `Fate(c)` is that: a selected
call is written, or excused, or filed under its own key, or stopped at an entry
that is about to be handled. Four things make it inductive. First, the excuses
must not be taken back: `ExcusesKept` shows that `Shared`, `Nested` (the symbol a
call came in at and `beside`, which only grows) and `missed` are for ever. Second, a call
that is filed must come to its stop: `FiledArmed` says that its breakpoint is
there unless another call with the same address took it, and `ReturnsOverlap`
that whoever took it overlapped with the call, because every stop is younger
than the last `Continue` and everything that is filed is older. `FiledReturned`
carries that over the return. Third, `OthersMissed`: of several stops at once
those not selected are in `missed`. Fourth, `Histories`: two calls in progress
overlap (`LiveOverlap`), and a thread that stops at an entry is in its innermost
call (`StopsInnermost`). A stop that is skipped as a duplicate is then of one of
two kinds: the first stop of a call at a `__` symbol, and what is pending goes
into `beside`; or a later stop of a call that was looked at before, whose fate
is settled already. That is why `Fate` counts only an entry stop at the symbol the
call came in at as one that is still to be handled.
`TargetMoves` is the summary of a target step (`Grows`, `Begins`, `Stopped`),
and `ReturnHandled`, `EntryHandled` and `StopIgnored` are the three handlers.

`RefinementProofs` proves, for any number of calls, sites and symbols, any
registry and any filter:

| Theorem | Property |
|---|---|
| `TraceKeepsCallLog` | `KeepsCallLog` |

`CallLog!SafeSpec` says of an abstract log that a call is logged at most once, in
the order the calls return, that the next call does not begin before the
last selected one is logged, and that nothing is logged after the loop. The
assumption is `Sequential` of `TracerRefinement`, evaluated in `tracer_quiet`: one
thread, no call inside another, no longjmp, legible return addresses; signals,
both modes and every end of the process are allowed. `RInv` is what ties the two
together, beside `IInv`: at most one call is in progress (`OneLive`), a stop
is of it, or of the return of the last one (`StopsFollowCalls`), only calls that
returned are written (`OnlyReturnedWritten`), and nothing is recorded before
the breakpoints are set (`BeforeArmed`). While the loop runs, a pending entry is
of the call in progress or of the return about to be handled (`FiledIsOpen`),
its address carries a breakpoint (`BreakpointsOfFiled`), the call in progress is
pending as soon as its entry was handled (`LiveIsFiled`), and a call that is due
has its thread stopped at the return (`DueIsStopped`). Each step of `Next` is then
shown to be a step of `CallLog` or to leave its three variables alone.

`SessionProofs` proves, for any set of jobs:

| Theorem | Property |
|---|---|
| `FileIsClosed` | `OutputClosed` |
| `HandlerIsBack` | `HandlerRestored` |
| `ZeroIsEarned` | `ZeroMeansTraced` |
| `FileIsSpared` | `RefusedLeavesFile` |
| `ArgumentsAreRead` | `ArgumentsAsPassed` |
| `SummaryComesLast` | `SummaryIsLast` |

They assume `SessionAssumption` and `TableAssumption`, which TLC evaluates in
`session`. The first is about the jobs: modes, ends, that results are whole
numbers and that memory holds bytes. The second is what the proofs need of the rows of `SyscallTable`:
variable arguments begin at the eighth at the latest; the argument that measures
another is a plain number in a register; a class that can have a name is one all
formatters know, and names inside memory are those of a struct, an array or a
text (`Showable`); and the category a name is looked up under is the last list
that has it; and only what was read from memory is shown as a buffer. These are facts
about constants: no parameter is left for a prover to
generalise, and TLC computes them. `SInv` is the invariant of the first four:
`Typed` (the types that matter here), `FileSound` (before the output is opened there
is no file, and it is open at most until `Close`), `HandlerSound` (the tracer has
SIGINT only in the loop and at `Detach`, and only under `attach`) and `EndSound`
(what `code`, `raised` and the state of the target say about each other at
each place after the loop: that is what exit code 0 has to be traced back to).
The seven steps before and after the loop are short; the handlers share
`HandlingSteps`, which says what none of them touches. `PendingSound` and
`PendingNamed` add that a pending event holds the raw arguments of a known
definition, and `ReadWherePassed` and `HeldAsPassed` compare `Place` with
`Passed` case by case. `LinesSound` says who has printed what so far.

`SessionTraceProofs` proves, for any set of jobs:

| Theorem | Property |
|---|---|
| `SessionTypeCorrect` | `TypeOK` |
| `SummaryIsExact` | `SummaryCounts` |
| `ErrorsAreReal` | `ErrorsAreFailures` |
| `FormatsDoAgree` | `FormatsAgree` |
| `NoAbbrevIsKept` | `NoAbbrevShowsNoNames` |
| `SizesAreRead` | `SizesAsPassed` |
| `BuffersAreReadable` | `QuotedIsReadable` |

The assumptions are the same. The invariant is `TInv`: `SInv`, `PendingSound`,
`PendingNamed` and `LinesSound` of above with `TraceSound`. The last says where
the loop stands among the target's calls, that the pending event is the one the
current call gives, that `Counted` holds of the summary (each number is the
cardinality of a set of calls that are over), and that every line is of such a
call, in order, with well-formed arguments (`Listed`, `LinesTyped`). The counting argument is
`OneMore` (the calls of a name are one more when the next call is of that name,
and as many otherwise), `PassedOver` and `Added`; `FilterSelects` is where the code's filter,
by words and categories, meets the reference `Selected`, which does not use the
registry's dictionaries. `DecodedSound`, `ReturnSound` and the lemmas between
them follow an argument through the two decoding passes: `ArgSound` is about the class
and name that the formatters dispatch on, about names inside memory, which
under `--no-abbrev` only a parameter with an "always" alternative has, and about the
text of a buffer, which is `QuoteString` of what memory held at the call of the
line. `FormattersAgreeOn` compares the three dispatches class by class. `Counted`, `Listed` and `LinesTyped` are
operators of the job, the position and the statistics, so that a step which
changes none of them is trivial.

`RenderingProofs` proves `QuotingLosesNothing`: for every sequence of bytes and every
`max`, what `Unquoted` makes of `QuoteString(data, max)` are the bytes that are
shown, with the ellipsis exactly if some are left out, and every character is
printable. `BuffersAreReadable` follows from it. The two operators are recursive
functions on the positions of a sequence, and the theorem is an induction over
them. The library states induction for predicates, with an operator as a
parameter; `SetInduction` derives it for sets from `WFMin`, that a well-founded
relation has a minimum in every set that is not empty, and `EscapedStep` and
`ReadStep` use it to show that the two recursive functions exist and satisfy
their definitions. `EscapeText` lists the five forms the text of one byte can have;
`ReadsByte` says that a reader that is not behind a backslash, and whose octal
escape (if it is in one) is not continued by what comes, has read one byte more
when it has read such a text, and that it is left behind one or two octal digits only
where the next byte is no octal digit. `EscapeByte` looks at the next byte for
exactly that, and it is what the induction of `ReadsBytes` carries from one byte to
the next. `ReadsEllipsis` adds the end.

`DecodeProofs` proves, for any number of calls, any parameter lists built from
the Param classes, and any limits:

| Theorem | Property |
|---|---|
| `DecodeTypeCorrect` | `TypeOK` |
| `OutputWritten` | `OutputIsWritten` |
| `FailureShowsNothing` | `NothingOnFailure` |
| `InputPassed` | `InputAsPassed` |
| `SizesOwn` | `SizeIsOwn` |
| `OutputShown` | `OutputIsShown` |

They assume `DecodeAssumption`, which TLC evaluates in the three decode runs:
every parameter is `Simple` (a class with one of its directions, measured by an
argument of its own definition) or `Varying` (a variant of simple ones), and a
call that counts fails with -1.
The invariant `DInv` speaks of each argument of each call. `EntrySound` says what
is shown before the call comes back: no output, input unchanged, nothing beyond
its measure. `KernelSound` ties the memory to the result, without which no
bound on the output is inductive: a counting call that did
not fail wrote what it returned. `ExitSound` is what the second decoding
adds. The decoders enter through three lemmas only: `ParamDecodes` (whatever is
read is read at its own time and at most as long as the argument and the return
value allow), `OutputReads` (readable output is read) and `FilledFacts`. A step of
one call leaves the others alone although `ctx` is shared (`SameSound`,
`OthersSound`), because every handler sets the whole context before it decodes.

Model-checked only, and why:

- All liveness (`Ends`, `HitsAreServed`, `EndIsNoticed`, `InterruptEndsBusyTrace`, and
  the fairness part of `ImplementsCallLog`): it needs ENABLED.

## Not modelled, and why

- What `errno` evaluation does to other threads (`tracer.py` 602-610): LLDB may
  let them run with breakpoints ignored when the expression times out.
- Calls that never return (`exit`, `execve`) and entries that are pending at the
  end are never written; nothing promises that they are.
- Text: the layout of lines and of the summary table, colours, how a number, a
  struct or an array is written. Which name a value has (`syscalls/symbols/`) and
  which fields a struct has (`struct_params/`, `struct_decoders/`) is data.
- That return values are read as 64 bits also where the function returns an
  `int` (`tracer.py` 574-581): results of the model are whole numbers.
- Forks (`follow_forks` is stored and never read).
- `numbers.py` is used as the first column of `SyscallTable`.
- `get_syscalls_by_category`, which nothing calls.
- Running `xcrun`, `csrutil` and `codesign`, and the order in which paths are
  tried: only what they answer matters to a run.
- The sysctl caches, which are keyed by `id()` of a list and never cleared, and the
  oldp buffer, which is decoded by the type they say the MIB has.

## Noted, without a run of their own

- `posix_spawn`, `sigwait` and `pthread_sigmask` return a positive errno when they fail;
  `tracer.py` 551 takes that for a success ("if syscall succeeded", 550), and
  output that was never written is shown. `decode` reaches it.
- Strings, arrays of strings, a MIB, the size pointer of sysctl and the timespec of
  gethostuuid are read again at the exit and may show what another thread made of
  them (`definitions/__init__.py` 193-247, `definitions/sysinfo.py` 32-55, 192-256).
- A call through a wrapper whose return address cannot be read is written twice with
  `?`, although the comment says "only trace the wrapper" (`tracer.py` 460).
- The decoders `Rendering` calls "always" show names under `--no-abbrev`, whose help is
  "Print raw values without symbolic decoding" (`__main__.py` 50);
  `tests/test_symbolic_decoding.py` 104-105 says the same, and tries `open` only.
- `readv` and `recvmsg` show their buffers as long as the caller made them, and kevent and
  arrays of ints are shown in full when the call returns 0.
- `trace=file` misses `msync`, which the memory list registers again.
- `is_sip_enabled` promises False if it "cannot determine" (`sip.py` 41); it
  returns True, and the comment at the end of the function says why.
- `SysctlSizePointerParam` promises `[256->7]` (`definitions/sysinfo.py` 217) and
  shows the value of one reading.
- With colours, `-1 ENOENT` is green: text is taken for a success
  (`formatters.py` 185-187).

## Plan

Done: `Debuggee`, `Tracer`, `CallLog` with its refinement, `TracerProofs`,
`RefinementProofs`, `LossProofs`, `Decode`, `DecodeProofs`, `SyscallTable`,
`Registry`, `Arguments`, `Rendering`, `RenderingProofs`, `Session`,
`SessionProofs`, `SessionTraceProofs`. Every invariant that a passing run checks
is a theorem. What is left, in this order:

1. `Tracer` instantiated with the operators of `Registry` instead of its
   constants, and `Decode` with the raw arguments of `Arguments`.
2. Extensions of `Decode`: sysctl's caches with reused ids, and its oldp buffer.

Liveness and ENABLED stay with TLC: the prover cannot reach them.
