------------------------------ MODULE Arguments ------------------------------
(***************************************************************************)
(* Where the raw value of an argument is read (arch.py, tracer.py          *)
(* 634-664), and where macOS passes it.  A place is an argument register,  *)
(* numbered from 0, or a slot of eight bytes above the stack pointer.      *)
(* What a place holds is the number of the argument that was passed in it, *)
(* from 1; Junk, if no argument was.  Zero is what is read nowhere.        *)
(***************************************************************************)
EXTENDS SyscallTable

Zero == 0
Junk == -1

Reg(i)  == [at |-> "register", number |-> i]
Slot(i) == [at |-> "stack", number |-> i]
Nowhere == [at |-> "nowhere", number |-> 0]

\* The first component of a target triple; i386 is taken for x86_64.
DetectArchitecture(triple) ==
    CASE triple \in {"arm64", "aarch64", "arm64e"} -> "ARM64"
      [] triple \in {"x86_64", "i386"} -> "X8664"
      [] OTHER -> "none"

ArgRegisters(arch) == IF arch = "ARM64" THEN 8 ELSE 6

\* mutant: the return address of x86_64 is skipped on ARM64 too.
VariadicAboveReturn(arch, k) == Slot(k + 1)

\* read_variadic_arg, the k-th from 0.  x86_64 has its return address at [rsp].
VariadicPlace(arch, k) == IF arch = "ARM64" THEN Slot(k) ELSE Slot(k + 1)

\* mutant: the first register is taken for something else.
PlaceAfterSelf(arch, d, i) ==
    IF i >= d.variadic THEN VariadicPlace(arch, i - d.variadic)
    ELSE IF i >= ArgRegisters(arch) THEN Nowhere
    ELSE Reg(i + 1)

\* _read_raw_arg_value: where argument i of definition d, from 0, is read.
Place(arch, d, i) ==
    IF i >= d.variadic THEN VariadicPlace(arch, i - d.variadic)
    ELSE IF i >= ArgRegisters(arch) THEN Nowhere
    ELSE Reg(i)

-----------------------------------------------------------------------------
\* The calling conventions, which are external.  First the functions whose
\* variable arguments begin elsewhere than the table says: sem_open(name,
\* oflag, ...) and open_dprotected_np(path, flags, class, dpflags, ...).
FirstVariable(d) ==
    CASE d.name = Name("sem_open", 0) -> 2
      [] d.name = Name("open_dprotected_np", 0) -> 4
      [] d.name = Name("openat_dprotected_np", 0) -> 5
      [] OTHER -> d.variadic

Misdeclared(d) == FirstVariable(d) # d.variadic

\* ARM64: eight registers, variable arguments on the stack.  x86_64: six
\* registers, whatever kind of argument it is, then the stack.
Passed(arch, d, i) ==
    IF arch = "ARM64"
    THEN IF i >= FirstVariable(d) THEN Slot(i - FirstVariable(d)) ELSE Reg(i)
    ELSE IF i < 6 THEN Reg(i) ELSE Slot(i - 5)

Held(arch, d, place) ==
    IF place = Nowhere THEN Zero
    ELSE IF \E i \in 1..Len(d.params) : Passed(arch, d, i - 1) = place
    THEN CHOOSE i \in 1..Len(d.params) : Passed(arch, d, i - 1) = place
    ELSE Junk

-----------------------------------------------------------------------------
\* What LLDB can read in a frame: the registers by the names the code uses
\* (an i386 process has none of them), and the stack.
Readable(place, frame) ==
    /\ place # Nowhere
    /\ frame.registers
    /\ place.at = "stack" => frame.stack

\* SyscallEvent.raw_args
RawArgs(arch, d, frame) ==
    [i \in 1..Len(d.params) |->
        IF Readable(Place(arch, d, i - 1), frame)
        THEN Held(arch, d, Place(arch, d, i - 1))
        ELSE Zero]

\* get_return_address: lr, or [rsp].
ReturnAddressRead(arch, frame) == frame.registers /\ (arch = "X8664" => frame.stack)
=============================================================================
