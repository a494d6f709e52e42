------------------------------- MODULE Decode -------------------------------
(***************************************************************************)
(* How the arguments of a call are decoded: at its entry, from registers   *)
(* and from memory as the caller left it, and once more when it returns.   *)
(* One DecodeContext serves every call; the handlers of a stop overwrite   *)
(* it, and calls of several threads are under way at once.                 *)
(*                                                                         *)
(* A parameter is [class, dir, count]: its Param class, when it is decoded *)
(* (IN at the entry, OUT at the exit, ANY at both: its decode() does not    *)
(* look), and the index of the argument that holds its size or its count.  *)
(* A VariantParam is [class, count, skip, bit, variants, default]: the      *)
(* index of its discriminator, when the argument does not exist, and which *)
(* parameter decodes it.  A raw value is a number; 0 is also the NULL      *)
(* pointer.  What a pointer points to is [written, changed, status]: how   *)
(* many units the kernel wrote into it, whether anyone else changed it     *)
(* since the entry, and whether it can be read.  A unit is a byte of a     *)
(* buffer, an element of an array, or a whole struct.                      *)
(*                                                                         *)
(* A definition is [params, counting, fails, decoder, inputs]: whether the *)
(* call returns how many units it transferred, how it reports a failure,   *)
(* whether a return decoder may put the return value into words, and the   *)
(* raw values (a bound).                                                   *)
(***************************************************************************)
EXTENDS Integers, Sequences, Functions

CONSTANTS Calls,      \* calls that may be under way
          Shapes,     \* the syscall definitions each call may be of
          MaxRaw,     \* bound: raw values and return values
          BufferCap,  \* bytes of a buffer that are shown (4096 or 65536)
          CountCap    \* longest array that is shown (64 to 1024)

\* The moment each class may be decoded at.  Numbers, strings and a MIB are
\* decoded whenever decode() is called, and so are the timespec and the size
\* pointer of definitions/sysinfo.py.
Moment(class, dir) ==
    \/ class \in {"scalar", "pointer", "string", "strings", "mib"} /\ dir = "ANY"
    \/ class \in {"pollfd", "fdset", "aiocb"} /\ dir = "IN"
    \/ class = "uuid" /\ dir = "OUT"
    \/ class = "struct" /\ dir \in {"IN", "OUT", "ANY"}
    \/ class \in {"buffer", "kevent", "ints", "iovec", "msghdr"} /\ dir \in {"IN", "OUT"}

\* The classes that are measured by another argument, and those of them whose
\* decoders also look at the return value.
Counted(p) == p.class \in {"buffer", "kevent", "ints", "iovec", "pollfd", "aiocb", "mib"}
Bounded    == {"buffer", "kevent", "ints"}

\* What the parameters of the definitions are like.
Simple(p, s) ==
    /\ Moment(p.class, p.dir)
    /\ Counted(p) => p.count \in DOMAIN s.params

Varying(p, s) ==
    /\ p.class = "variant"
    /\ p.count \in DOMAIN s.params
    /\ \A d \in DOMAIN p.variants : Simple(p.variants[d], s)
    /\ Simple(p.default, s)

\* A call that counts fails with -1.
ASSUME DecodeAssumption ==
    /\ MaxRaw \in Nat \ {0}
    /\ BufferCap \in Nat \ {0}
    /\ CountCap \in Nat \ {0}
    /\ \A c \in Calls : \A s \in Shapes[c] :
          /\ \A i \in DOMAIN s.params : Simple(s.params[i], s) \/ Varying(s.params[i], s)
          /\ s.counting => s.fails = "minus"

VARIABLES stage,   \* how far each call is
          shape,   \* the definition of its syscall
          raw,     \* SyscallEvent.raw_args
          memory,  \* what its arguments point to
          result,  \* what the kernel returned
          args,    \* SyscallEvent.args
          ret,     \* SyscallEvent.return_value
          ctx,     \* the DecodeContext: all_args, at_entry, return_value
          raised   \* an exception left a handler, which ends the trace

vars == <<stage, shape, raw, memory, result, args, ret, ctx, raised>>

Stages     == {"idle", "entered", "returned", "written"}
Regions    == [written : 0..MaxRaw, changed : BOOLEAN, status : {"ok", "unmapped", "nullbase"}]
Untouched(k) == [written |-> 0, changed |-> FALSE, status |-> k]

\* What an argument is shown as: a number or a name, the bare address, "?",
\* nothing, or len units read from memory.
Plain(form) == [form |-> form, len |-> 0, written |-> 0, changed |-> FALSE]
Value       == Plain("value")
Pointer     == Plain("pointer")
Unknown     == Plain("unknown")
Skip        == Plain("skip")
Keep        == Plain("keep")   \* decode() returned None
Raise       == Plain("raise")  \* decode() raised
Data(m, n)  == [form |-> "data", len |-> n, changed |-> m.changed,
                written |-> IF n < m.written THEN n ELSE m.written]
Shown       == {Value, Pointer, Unknown, Skip}
               \cup [form : {"data"}, len : 0..MaxRaw, written : 0..MaxRaw, changed : BOOLEAN]

NoReturn  == [kind |-> "?", value |-> 0]
Returns   == [kind : {"?", "text", "int"}, value : -1..MaxRaw]

TypeOK ==
    /\ stage \in [Calls -> Stages]
    /\ \A c \in Calls : stage[c] # "idle" =>
          /\ shape[c] \in Shapes[c]
          /\ raw[c] \in [DOMAIN shape[c].params -> 0..MaxRaw]
          /\ memory[c] \in [DOMAIN shape[c].params -> Regions]
          /\ args[c] \in [DOMAIN shape[c].params -> Shown]
    /\ result \in [Calls -> -1..MaxRaw]
    /\ ret \in [Calls -> Returns]
    /\ ctx.atEntry \in BOOLEAN
    /\ raised \in BOOLEAN

-----------------------------------------------------------------------------
\* The decoders: p.decode(x) with the argument's raw value v and the memory m
\* it points to.

\* mutant: any parameter is read at any time.
AnyTime(p, x) == p.dir \in {"IN", "OUT", "ANY"}

\* ParamDirection: IN is read at the entry, OUT at the exit.
Now(p, x) == p.dir \in {"ANY", IF x.atEntry THEN "IN" ELSE "OUT"}

\* What the wrong moment yields: at the exit, what the entry decoded stays.
NotNow(x) == IF x.atEntry THEN Pointer ELSE Keep

Read(m, n) == IF m.status = "unmapped" THEN Pointer ELSE Data(m, n)

\* mutant: the last unit is not counted.
OneFewer(p, x) == x.args[p.count] - 1

Asked(p, x) == x.args[p.count]

\* mutant: the return value is not looked at.
AskedFor(p, x) == Asked(p, x)

\* The return value, if the call filled less than it was asked for.
Filled(p, x) ==
    LET n == Asked(p, x) IN
    IF ~x.atEntry /\ 0 < x.ret /\ x.ret < n THEN x.ret ELSE n

ScalarDecode(v) == Value

PointerDecode(v) == Pointer

StringDecode(v, m) == IF v = 0 THEN Value ELSE Read(m, 1)

\* An array of strings that cannot be read is shown empty.
StringsDecode(v, m) ==
    IF v = 0 THEN Pointer
    ELSE IF m.status = "unmapped" THEN Value
    ELSE Data(m, 1)

\* A MIB that is empty, too long or unreadable is shown as a remark.
MibDecode(p, x, v, m) ==
    LET n == Asked(p, x) IN
    IF v = 0 THEN Pointer
    ELSE IF n = 0 \/ n > CountCap \/ m.status = "unmapped" THEN Value
    ELSE Data(m, n)

\* At the entry a pointer; "<unreadable>" when the UUID cannot be read.
UuidDecode(x, v, m) ==
    IF v = 0 \/ x.atEntry THEN Pointer
    ELSE IF m.status = "unmapped" THEN Value
    ELSE Data(m, 1)

StructDecode(p, x, v, m) ==
    IF ~Now(p, x) THEN NotNow(x)
    ELSE IF v = 0 THEN Pointer
    ELSE Read(m, 1)

BufferDecode(p, x, v, m) ==
    LET n == Filled(p, x) IN
    IF ~Now(p, x) THEN NotNow(x)
    ELSE IF v = 0 \/ n = 0 THEN Pointer
    ELSE Read(m, IF n < BufferCap THEN n ELSE BufferCap)

KeventDecode(p, x, v, m) ==
    LET n == Filled(p, x) IN
    IF ~Now(p, x) THEN NotNow(x)
    ELSE IF v = 0 \/ n = 0 \/ n > CountCap THEN Pointer
    ELSE Read(m, n)

IntArrayDecode(p, x, v, m) ==
    LET n == Filled(p, x) IN
    IF ~Now(p, x) THEN NotNow(x)
    ELSE IF v = 0 \/ n = 0 \/ n > CountCap THEN Pointer
    ELSE Read(m, n)

\* The buffers are shown as long as the caller made them.  A NULL iov_base is
\* None to ctypes, which is not 0, and ReadMemory(None) raises.
IovecDecode(p, x, v, m) ==
    LET n == Asked(p, x) IN
    IF ~Now(p, x) THEN NotNow(x)
    ELSE IF v = 0 \/ n = 0 \/ n > CountCap THEN Pointer
    ELSE IF m.status = "nullbase" THEN Raise
    ELSE Read(m, n)

\* A msghdr leads to an iovec array, which is read with it.
MsghdrDecode(p, x, v, m) ==
    IF Now(p, x) /\ v # 0 /\ m.status = "nullbase" THEN Raise ELSE StructDecode(p, x, v, m)

\* pollfd arrays and fd_sets are read at the entry only.
PollfdDecode(p, x, v, m) ==
    IF ~x.atEntry THEN Keep
    ELSE IF v = 0 \/ Asked(p, x) = 0 \/ Asked(p, x) > CountCap THEN Pointer
    ELSE Read(m, Asked(p, x))

FdSetDecode(x, v, m) ==
    IF ~x.atEntry THEN Keep
    ELSE IF v = 0 THEN Pointer
    ELSE Read(m, 1)

\* None instead of a pointer whenever there is nothing to show.
AiocbArrayDecode(p, x, v, m) ==
    LET n == Asked(p, x) IN
    IF ~Now(p, x) \/ v = 0 \/ n = 0 \/ n > CountCap \/ m.status = "unmapped"
    THEN Keep
    ELSE Data(m, n)

SimpleDecode(p, x, v, m) ==
    CASE p.class = "scalar" -> ScalarDecode(v)
      [] p.class = "pointer" -> PointerDecode(v)
      [] p.class = "string" -> StringDecode(v, m)
      [] p.class = "strings" -> StringsDecode(v, m)
      [] p.class = "mib"    -> MibDecode(p, x, v, m)
      [] p.class = "uuid"   -> UuidDecode(x, v, m)
      [] p.class = "struct" -> StructDecode(p, x, v, m)
      [] p.class = "buffer" -> BufferDecode(p, x, v, m)
      [] p.class = "kevent" -> KeventDecode(p, x, v, m)
      [] p.class = "ints"   -> IntArrayDecode(p, x, v, m)
      [] p.class = "iovec"  -> IovecDecode(p, x, v, m)
      [] p.class = "msghdr" -> MsghdrDecode(p, x, v, m)
      [] p.class = "pollfd" -> PollfdDecode(p, x, v, m)
      [] p.class = "fdset"  -> FdSetDecode(x, v, m)
      [] p.class = "aiocb"  -> AiocbArrayDecode(p, x, v, m)

\* The discriminator d is compared as a raw value.  It may say that there is no
\* such argument: because it is one of p.skip, or because its bit p.bit is not
\* set (0: no such bit).
Absent(p, d) == d \in p.skip \/ (p.bit # 0 /\ (d \div p.bit) % 2 = 0)

Variant(p, d) == IF d \in DOMAIN p.variants THEN p.variants[d] ELSE p.default

VariantDecode(p, x, v, m) ==
    IF Absent(p, Asked(p, x)) THEN Skip ELSE SimpleDecode(Variant(p, Asked(p, x)), x, v, m)

ParamDecode(p, x, v, m) ==
    IF p.class = "variant" THEN VariantDecode(p, x, v, m) ELSE SimpleDecode(p, x, v, m)

-----------------------------------------------------------------------------
Init ==
    /\ stage = [c \in Calls |-> "idle"]
    /\ shape = [c \in Calls |-> <<>>]
    /\ raw = [c \in Calls |-> <<>>]
    /\ memory = [c \in Calls |-> <<>>]
    /\ result = [c \in Calls |-> 0]
    /\ args = [c \in Calls |-> <<>>]
    /\ ret = [c \in Calls |-> NoReturn]
    /\ ctx = [args |-> <<>>, atEntry |-> TRUE, ret |-> 0]
    /\ raised = FALSE

Decoded(c, x) ==
    [i \in DOMAIN shape'[c].params |->
        ParamDecode(shape'[c].params[i], x, raw'[c][i], memory'[c][i])]

\* _handle_syscall_entry, and _extract_args with everything it calls.
Enter(c, s, v, m) ==
    /\ ~raised
    /\ stage[c] = "idle"
    /\ shape' = [shape EXCEPT ![c] = s]
    /\ raw' = [raw EXCEPT ![c] = v]
    /\ memory' = [memory EXCEPT ![c] = m]
    /\ ctx' = [args |-> v, atEntry |-> TRUE, ret |-> 0]
    /\ LET d == Decoded(c, ctx') IN
       IF Raise \in Range(d)
       THEN raised' = TRUE /\ UNCHANGED <<stage, args>>
       ELSE /\ stage' = [stage EXCEPT ![c] = "entered"]
            /\ args' = [args EXCEPT ![c] =
                  [i \in DOMAIN d |-> IF d[i] = Keep THEN Unknown ELSE d[i]]]
            /\ UNCHANGED raised
    /\ UNCHANGED <<result, ret>>

\* The parameter that decodes argument i of c, and how many units it is
\* measured to.  An argument that does not exist is no output.
NoParam       == [class |-> "pointer", dir |-> "ANY", count |-> 0]
Picked(p, v)  == IF p.class # "variant" THEN p
                 ELSE IF Absent(p, v[p.count]) THEN NoParam
                 ELSE Variant(p, v[p.count])
Measure(p, v) == IF Counted(p) THEN v[p.count] ELSE 1

Chosen(c, i) == Picked(shape[c].params[i], raw[c])
Units(c, i)  == Measure(Chosen(c, i), raw[c])
IsOut(c, i)  == Chosen(c, i).dir = "OUT"

\* A failure is -1, or the error itself: posix_spawn, sigwait, pthread_sigmask.
Fails(s, r) == IF s.fails = "errno" THEN r > 0 ELSE r = -1

\* What a call that returns r has written: nothing if it failed; a call that
\* counts, as many units as it returns; any other, what it pleases.
Fills(c, i, r, n) ==
    /\ n <= Units(c, i)
    /\ Fails(shape[c], r) => n = 0
    /\ ~Fails(shape[c], r) /\ shape[c].counting /\ Chosen(c, i).class \in Bounded => n = r

\* The kernel carries the call out: w is what it writes into the OUT arguments.
Kernel(c, r, w) ==
    /\ ~raised
    /\ stage[c] = "entered"
    /\ r = -1 => shape[c].fails = "minus"
    /\ \A i \in DOMAIN w : Fills(c, i, r, w[i])
    /\ stage' = [stage EXCEPT ![c] = "returned"]
    /\ result' = [result EXCEPT ![c] = r]
    /\ memory' = [memory EXCEPT ![c] =
          [i \in DOMAIN @ |-> IF i \in DOMAIN w THEN [@[i] EXCEPT !.written = w[i]] ELSE @[i]]]
    /\ UNCHANGED <<shape, raw, args, ret, ctx, raised>>

\* Another thread changes or unmaps what an argument points to while the call
\* is under way.
Meddle(c, i) ==
    /\ ~raised
    /\ stage[c] \in {"entered", "returned"}
    /\ raw[c][i] # 0
    /\ Chosen(c, i).class \notin {"scalar", "pointer"}
    /\ memory[c][i].status = "ok" /\ ~memory[c][i].changed
    /\ \/ memory' = [memory EXCEPT ![c][i].changed = TRUE]
       \/ memory' = [memory EXCEPT ![c][i].status = "unmapped"]
    /\ UNCHANGED <<stage, shape, raw, result, args, ret, ctx, raised>>

\* The return register may be unreadable; a return decoder may put the value
\* into words, and so does decode_errno.
ReturnValues(c) ==
    {NoReturn}
    \cup IF result[c] = -1 THEN {[kind |-> "text", value |-> -1], [kind |-> "int", value |-> -1]}
         ELSE {[kind |-> "int", value |-> result[c]]}
              \cup (IF shape[c].decoder THEN {[kind |-> "text", value |-> result[c]]} ELSE {})

\* mutant: the arguments of the call decoded last are left in the context.
StaleContext(c, r) == [args |-> ctx.args, atEntry |-> FALSE, ret |-> r]

ExitContext(c, r) == [args |-> raw[c], atEntry |-> FALSE, ret |-> r]

\* mutants: any readable return value will do; zero is no success.
ReturnedAtAll(r) == r.kind # "?"
Positive(r)      == r.kind = "int" /\ r.value > 0

Succeeded(r) == r.kind = "int" /\ r.value >= 0

\* _handle_syscall_return: the pending entry is gone before anything can raise.
Exit(c, r) ==
    /\ ~raised
    /\ stage[c] = "returned"
    /\ r \in ReturnValues(c)
    /\ ret' = [ret EXCEPT ![c] = r]
    /\ UNCHANGED <<shape, raw, memory, result>>
    /\ \/ /\ ~Succeeded(r)
          /\ stage' = [stage EXCEPT ![c] = "written"]
          /\ UNCHANGED <<args, ctx, raised>>
       \/ /\ Succeeded(r)
          /\ ctx' = ExitContext(c, r.value)
          /\ LET d == Decoded(c, ctx') IN
             IF Raise \in Range(d)
             THEN raised' = TRUE /\ UNCHANGED <<stage, args>>
             ELSE /\ stage' = [stage EXCEPT ![c] = "written"]
                  /\ args' = [args EXCEPT ![c] =
                        [i \in DOMAIN d |-> IF d[i] = Keep THEN @[i] ELSE d[i]]]
                  /\ UNCHANGED raised

\* Only an array of buffers has a NULL in it.
Statuses(s) == {"ok", "unmapped"}
               \cup {"nullbase" : i \in {j \in DOMAIN s.params :
                                         s.params[j].class \in {"iovec", "msghdr"}}}

Next ==
    \/ \E c \in Calls : \E s \in Shapes[c] :
          \E v \in {f \in [DOMAIN s.params -> 0..MaxRaw] :
                       \A i \in DOMAIN f : f[i] \in s.inputs[i]},
             k \in Statuses(s) :
             Enter(c, s, v, [i \in DOMAIN s.params |-> Untouched(k)])
    \/ \E c \in Calls, r \in -1..MaxRaw :
          \E w \in [{i \in DOMAIN memory[c] : IsOut(c, i)} -> 0..MaxRaw] : Kernel(c, r, w)
    \/ \E c \in Calls : \E i \in DOMAIN memory[c] : Meddle(c, i)
    \/ \E c \in Calls, r \in Returns : Exit(c, r)

Spec == Init /\ [][Next]_vars

-----------------------------------------------------------------------------
Finished(c)     == stage[c] = "written"
ShowsData(c, i) == args[c][i].form = "data"

\* Memory that the call did not write is not shown as its output: where a call
\* returns how much it transferred, that bounds what is read
\* (definitions/__init__.py 578-586, int_ptr.py 144-146, event_structs.py 87-95).
\* A return of 0 bounds nothing: see ReadShowsActualBytes.
OutputIsWritten ==
    \A c \in Calls : Finished(c) /\ shape[c].counting /\ result[c] # 0 =>
        \A i \in DOMAIN args[c] :
            IsOut(c, i) /\ ShowsData(c, i) /\ Chosen(c, i).class \in Bounded
            => args[c][i].len <= args[c][i].written

\* A call that returns -1 shows none of its output (tracer.py 550-554).  One
\* that returns a positive errno is taken for a success, and what it did not
\* write is shown.
NothingOnFailure ==
    \A c \in Calls : Finished(c) /\ result[c] = -1 =>
        \A i \in DOMAIN args[c] : IsOut(c, i) => ~ShowsData(c, i)

\* What is decoded as input, at the entry, stays as the caller passed it,
\* whatever other threads do to it while the call is under way (the direction
\* filters, e.g. definitions/__init__.py 442-445).  Strings, arrays of strings,
\* a MIB, and the timespec and the size pointer of definitions/sysinfo.py have
\* no such filter: they are read again at the exit, and may have changed.
InputAsPassed ==
    \A c \in Calls : stage[c] # "idle" =>
        \A i \in DOMAIN args[c] :
            Chosen(c, i).dir = "IN" /\ ShowsData(c, i) => ~args[c][i].changed

\* However calls interleave, the size of a buffer or an array is taken from
\* the arguments of its own call, although the context is shared
\* (tracer.py 704-708, 729-733).
SizeIsOwn ==
    \A c \in Calls : stage[c] # "idle" =>
        \A i \in DOMAIN args[c] :
            ShowsData(c, i) => args[c][i].len <= Units(c, i)

\* Output that can be read is shown when the call is seen to succeed
\* (tracer.py 550-554).
OutputIsShown ==
    \A c \in Calls : Finished(c) /\ ret[c].kind = "int" /\ result[c] >= 0 =>
        \A i \in DOMAIN args[c] :
            /\ IsOut(c, i)
            /\ raw[c][i] # 0
            /\ memory[c][i].status = "ok"
            /\ Units(c, i) \in 1..CountCap
            => ShowsData(c, i)

\* Comment at definitions/__init__.py 578-579: an output buffer is shown as long
\* as the bytes that were read into it, by the calls that return their number.
ReadShowsActualBytes ==
    \A c \in Calls : Finished(c) =>
        \A i \in DOMAIN args[c] :
            shape[c].counting /\ Chosen(c, i).class = "buffer" /\ IsOut(c, i) /\ ShowsData(c, i)
            => args[c][i].len <= args[c][i].written

\* Docstring at tracer.py 669: an argument that cannot be decoded becomes an
\* UnknownArg.
DecodingNeverRaises == ~raised
=============================================================================
