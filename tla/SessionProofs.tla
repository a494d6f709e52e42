---------------------------- MODULE SessionProofs ----------------------------
(***************************************************************************)
(* Theorems about Session, for every command line, machine and target.     *)
(***************************************************************************)
EXTENDS Session, SequenceTheorems, TLAPS

Over  == {"exited", "failed", "crashed", "detached"}
Alive == {"held", "exited", "failed", "crashed"}

\* What a return value of 0 says of the target.
Fine == target \in Over /\ (interrupted \/ target = "exited")

Typed ==
    /\ job \in Jobs
    /\ pc \in Places
    /\ file \in {"none", "open", "closed"}
    /\ handler \in {"python", "tracer"}
    /\ raised \in Exceptions

\* The file is opened once everything was looked at, and nothing leads past
\* the finally that closes it.
FileSound ==
    /\ pc \in {"parse", "create", "start"} => file = "none"
    /\ pc = "start" => /\ machine.lldb # {}
                       /\ cmd.filter = NoExpression \/ cmd.filter.prefixed
    /\ pc \in {"report", "done"} => file # "open"

\* Only attach takes SIGINT over, from the loop to Detach, and only then is a
\* trace interrupted instead of unwound.
HandlerSound ==
    /\ handler = "tracer" => Attached /\ pc \in {"loop", "detach"}
    /\ interrupted => Attached

\* How the exit code comes about, place by place.
EndSound ==
    /\ pc \in {"parse", "create", "start", "setup", "loop", "detach", "summary"} => raised = "none"
    /\ pc \in {"loop", "detach"} => target \in Alive
    /\ pc = "detach" /\ code = 0 => interrupted \/ target = "exited"
    /\ pc = "summary" => target \in Over
    /\ pc = "summary" /\ code = 0 => interrupted \/ target = "exited"
    /\ pc \in {"close", "report"} /\ raised = "none" /\ code = 0 => Fine
    /\ pc = "done" /\ code = 0 => Fine

\* What is pending was read from the frame of the target.
PendingSound ==
    /\ pc \in {"parse", "create", "start", "setup"} => pending = NoEvent
    /\ pc = "loop" => arch \in {"ARM64", "X8664"}
    /\ pending # NoEvent =>
           /\ arch \in {"ARM64", "X8664"}
           /\ pending.name \in KnownNames
           /\ pending.raw = RawArgs(arch, LookupByName(pending.name), machine.frame)

SInv == Typed /\ FileSound /\ RefusedLeavesFile /\ HandlerSound /\ EndSound

-----------------------------------------------------------------------------
\* The steps of the loop that handle a call change nothing of these, unless
\* they raise.
LEMMA HandlingSteps ==
    ASSUME Pass \/ Enter \/ Leave
    PROVE  /\ pc = "loop" /\ target = "held" /\ ~interrupted
           /\ UNCHANGED <<job, filter, arch, interrupted, file, target>>
           /\ UNCHANGED <<pc, code, raised, handler>> \/ LoopRaise("error")
  <1>1. CASE Pass
    BY <1>1 DEF Pass, Stopped, world
  <1>2. CASE Enter
    <2>1. pc = "loop" /\ target = "held" /\ ~interrupted
      BY <1>2 DEF Enter, Stopped
    <2>2. UNCHANGED <<job, filter, arch, interrupted, file, target>>
      BY <1>2 DEF Enter
    <2>3. UNCHANGED <<pc, code, raised, handler>> \/ LoopRaise("error")
      BY <1>2 DEF Enter, WriteEvent
    <2> QED
      BY <2>1, <2>2, <2>3
  <1>3. CASE Leave
    <2>1. pc = "loop" /\ target = "held" /\ ~interrupted
      BY <1>3 DEF Leave, Stopped
    <2>2. UNCHANGED <<job, filter, arch, interrupted, file, target>>
      BY <1>3 DEF Leave
    <2>3. UNCHANGED <<pc, code, raised, handler>> \/ LoopRaise("error")
      BY <1>3 DEF Leave, Complete, WriteEvent
    <2> QED
      BY <2>1, <2>2, <2>3
  <1> QED
    BY <1>1, <1>2, <1>3

\* A filter that is not refused is none or begins with "trace=".
LEMMA FilterFacts ==
    ASSUME NEW e, ParseFilter(e) # BadFilter
    PROVE  e = NoExpression \/ e.prefixed
  BY DEF ParseFilter

\* An exception on its way out: where it leads, and with what.
LEMMA Unwinding ==
    ASSUME Typed, NEW kind \in {"error", "keyboard"}, Unwind(kind)
    PROVE  /\ pc' = "close"
           /\ raised' \in Exceptions
           /\ raised' = "none" => code' = 1
  BY DEF Unwind, Exceptions, Typed

-----------------------------------------------------------------------------
\* The invariant holds at the start and is kept by every step.

LEMMA SoundInit == Init => SInv
  BY DEF Init, SInv, Typed, FileSound, RefusedLeavesFile, HandlerSound, EndSound, Places,
         Exceptions, Attached, cmd, machine

LEMMA TypedNext == Typed /\ [Next]_vars => Typed'
  <1> SUFFICES ASSUME Typed, [Next]_vars
               PROVE  Typed'
    OBVIOUS
  <1> USE DEF Typed, Places, Exceptions, trace, world, Return, Escape
  <1>1. CASE Parse
    BY <1>1 DEF Parse
  <1>2. CASE Create
    BY <1>2 DEF Create
  <1>3. CASE Start
    BY <1>3 DEF Start, OpenOutput
  <1>4. CASE Launch
    BY <1>4, Unwinding DEF Launch
  <1>5. CASE Attach
    BY <1>5 DEF Attach
  <1>6. CASE Pass \/ Enter \/ Leave
    BY <1>6, HandlingSteps, Unwinding DEF LoopRaise
  <1>7. CASE TargetEnds
    BY <1>7 DEF TargetEnds
  <1>8. CASE LeaveLoop
    BY <1>8 DEF LeaveLoop, WhereTo
  <1>9. CASE Detach
    BY <1>9 DEF Detach
  <1>10. CASE PrintSummary
    BY <1>10, Unwinding DEF PrintSummary
  <1>11. CASE Close
    BY <1>11 DEF Close
  <1>12. CASE Report
    BY <1>12 DEF Report
  <1>13. CASE Interrupt
    BY <1>13, Unwinding DEF Interrupt, LoopRaise
  <1>14. CASE UNCHANGED vars
    BY <1>14 DEF vars
  <1> QED
    BY <1>1, <1>2, <1>3, <1>4, <1>5, <1>6, <1>7, <1>8, <1>9, <1>10, <1>11, <1>12, <1>13,
       <1>14 DEF Next, Work

LEMMA FileNext == SInv /\ [Next]_vars => FileSound' /\ RefusedLeavesFile'
  <1> SUFFICES ASSUME SInv, [Next]_vars
               PROVE  FileSound' /\ RefusedLeavesFile'
    OBVIOUS
  <1> USE DEF SInv, Typed, FileSound, RefusedLeavesFile, Attached, cmd, machine, trace, world,
              Return, Escape
  <1>1. CASE Parse
    BY <1>1 DEF Parse
  <1>2. CASE Create
    BY <1>2, FilterFacts DEF Create, LldbLoads
  <1>3. CASE Start
    BY <1>3 DEF Start, OpenOutput, ResolvedBinary, SipProtected, SipEnabled
  <1>4. CASE Launch
    BY <1>4, Unwinding DEF Launch
  <1>5. CASE Attach
    BY <1>5 DEF Attach
  <1>6. CASE Pass \/ Enter \/ Leave
    BY <1>6, HandlingSteps, Unwinding DEF LoopRaise
  <1>7. CASE TargetEnds
    BY <1>7 DEF TargetEnds
  <1>8. CASE LeaveLoop
    BY <1>8 DEF LeaveLoop, WhereTo
  <1>9. CASE Detach
    BY <1>9 DEF Detach
  <1>10. CASE PrintSummary
    BY <1>10, Unwinding DEF PrintSummary
  <1>11. CASE Close
    BY <1>11 DEF Close
  <1>12. CASE Report
    BY <1>12 DEF Report
  <1>13. CASE Interrupt
    BY <1>13, Unwinding DEF Interrupt, LoopRaise
  <1>14. CASE UNCHANGED vars
    BY <1>14 DEF vars
  <1> QED
    BY <1>1, <1>2, <1>3, <1>4, <1>5, <1>6, <1>7, <1>8, <1>9, <1>10, <1>11, <1>12, <1>13,
       <1>14 DEF Next, Work

LEMMA HandlerNext == SInv /\ [Next]_vars => HandlerSound'
  <1> SUFFICES ASSUME SInv, [Next]_vars
               PROVE  HandlerSound'
    OBVIOUS
  <1> USE DEF SInv, Typed, HandlerSound, Attached, cmd, trace, world, Return, Escape
  <1>1. CASE Parse \/ Create \/ Start
    BY <1>1 DEF Parse, Create, Start
  <1>2. CASE Launch
    BY <1>2, Unwinding DEF Launch
  <1>3. CASE Attach
    BY <1>3 DEF Attach
  <1>4. CASE Pass \/ Enter \/ Leave
    BY <1>4, HandlingSteps, Unwinding DEF LoopRaise
  <1>5. CASE TargetEnds
    BY <1>5 DEF TargetEnds
  <1>6. CASE LeaveLoop
    BY <1>6 DEF LeaveLoop, WhereTo
  <1>7. CASE Detach
    BY <1>7 DEF Detach
  <1>8. CASE PrintSummary
    BY <1>8, Unwinding DEF PrintSummary
  <1>9. CASE Close
    BY <1>9 DEF Close
  <1>10. CASE Report
    BY <1>10 DEF Report
  <1>11. CASE Interrupt
    BY <1>11, Unwinding DEF Interrupt, LoopRaise
  <1>12. CASE UNCHANGED vars
    BY <1>12 DEF vars
  <1> QED
    BY <1>1, <1>2, <1>3, <1>4, <1>5, <1>6, <1>7, <1>8, <1>9, <1>10, <1>11, <1>12 DEF Next, Work

LEMMA EndNext == SInv /\ [Next]_vars => EndSound'
  <1> SUFFICES ASSUME SInv, [Next]_vars
               PROVE  EndSound'
    OBVIOUS
  <1> USE DEF SInv, Typed, EndSound, Fine, Alive, Over, trace, world, Return, Escape
  <1>1. CASE Parse
    BY <1>1 DEF Parse
  <1>2. CASE Create
    BY <1>2 DEF Create
  <1>3. CASE Start
    BY <1>3 DEF Start, OpenOutput
  <1>4. CASE Launch
    BY <1>4, Unwinding DEF Launch
  <1>5. CASE Attach
    BY <1>5 DEF Attach
  <1>6. CASE Pass \/ Enter \/ Leave
    BY <1>6, HandlingSteps, Unwinding DEF LoopRaise
  <1>7. CASE TargetEnds
    <2>1. target' \in {"exited", "failed", "crashed"}
      BY <1>7, SessionAssumption DEF TargetEnds
    <2> QED
      BY <1>7, <2>1 DEF TargetEnds
  <1>8. CASE LeaveLoop
    <2>1. code' = ExitCode /\ pc' = WhereTo
      BY <1>8 DEF LeaveLoop
    <2>2. interrupted \/ target \in {"exited", "failed", "crashed"}
      BY <1>8 DEF LeaveLoop
    <2>3. ExitCode = 0 => interrupted \/ target = "exited"
      BY <2>2 DEF ExitCode
    <2>4. WhereTo = IF Attached THEN "detach" ELSE "summary"
      BY DEF WhereTo, Attached
    <2>5. ~Attached => target \in Over
      BY <2>2 DEF HandlerSound
    <2> QED
      BY <1>8, <2>1, <2>3, <2>4, <2>5 DEF LeaveLoop
  <1>9. CASE Detach
    BY <1>9 DEF Detach
  <1>10. CASE PrintSummary
    BY <1>10, Unwinding DEF PrintSummary
  <1>11. CASE Close
    BY <1>11 DEF Close
  <1>12. CASE Report
    BY <1>12 DEF Report, Exceptions
  <1>13. CASE Interrupt
    BY <1>13, Unwinding DEF Interrupt, LoopRaise
  <1>14. CASE UNCHANGED vars
    BY <1>14 DEF vars
  <1> QED
    BY <1>1, <1>2, <1>3, <1>4, <1>5, <1>6, <1>7, <1>8, <1>9, <1>10, <1>11, <1>12, <1>13,
       <1>14 DEF Next, Work

LEMMA SoundNext == SInv /\ [Next]_vars => SInv'
  BY TypedNext, FileNext, HandlerNext, EndNext DEF SInv

-----------------------------------------------------------------------------
\* Whatever fails, the output file is closed when the program ends.
THEOREM FileIsClosed == Spec => []OutputClosed
  <1>1. SInv => OutputClosed
    BY DEF SInv, FileSound, OutputClosed
  <1> QED
    BY <1>1, SoundInit, SoundNext, PTL DEF Spec

\* Whatever fails, SIGINT is Python's again once the loop is left.
THEOREM HandlerIsBack == Spec => []HandlerRestored
  <1>1. SInv => HandlerRestored
    BY DEF SInv, Typed, HandlerSound, HandlerRestored
  <1> QED
    BY <1>1, SoundInit, SoundNext, PTL DEF Spec

\* The exit code 0 means a trace that came to its end.
THEOREM ZeroIsEarned == Spec => []ZeroMeansTraced
  <1>1. SInv => ZeroMeansTraced
    BY DEF SInv, EndSound, Fine, Over, ZeroMeansTraced
  <1> QED
    BY <1>1, SoundInit, SoundNext, PTL DEF Spec

\* A run that is refused has not touched the output file.
THEOREM FileIsSpared == Spec => []RefusedLeavesFile
  <1>1. SInv => RefusedLeavesFile
    BY DEF SInv
  <1> QED
    BY <1>1, SoundInit, SoundNext, PTL DEF Spec

-----------------------------------------------------------------------------
\* Two arguments are never passed in one place.
LEMMA PassedApart ==
    ASSUME NEW a, NEW d, d.variadic \in Nat, NEW i \in Nat, NEW j \in Nat,
           Passed(a, d, i) = Passed(a, d, j)
    PROVE  i = j
  <1>1. FirstVariable(d) \in Nat
    BY DEF FirstVariable
  <1>2. CASE a = "ARM64"
    <2> DEFINE v == FirstVariable(d)
    <2>1. v \in Nat
      BY <1>1
    <2> HIDE DEF v
    <2>2. \A k \in Nat : Passed(a, d, k) = IF k >= v THEN Slot(k - v) ELSE Reg(k)
      BY <1>2 DEF Passed, v
    <2>3. CASE i >= v /\ j >= v
      <3>1. Slot(i - v) = Slot(j - v)
        BY <2>2, <2>3
      <3>2. i - v = j - v
        BY <3>1 DEF Slot
      <3> QED
        BY <2>1, <3>2
    <2>4. CASE ~(i >= v) /\ ~(j >= v)
      <3>1. Reg(i) = Reg(j)
        BY <2>1, <2>2, <2>4
      <3> QED
        BY <3>1 DEF Reg
    <2>5. CASE (i >= v) # (j >= v)
      BY <2>1, <2>2, <2>5 DEF Reg, Slot
    <2> QED
      BY <2>1, <2>3, <2>4, <2>5
  <1>3. CASE a # "ARM64"
    <2>1. \A k \in Nat : Passed(a, d, k) = IF k < 6 THEN Reg(k) ELSE Slot(k - 5)
      BY <1>3 DEF Passed
    <2> QED
      BY <2>1 DEF Reg, Slot
  <1> QED
    BY <1>2, <1>3

\* Where an argument is read is where it was passed, but for the three kinds.
LEMMA ReadWherePassed ==
    ASSUME NEW a \in {"ARM64", "X8664"}, NEW d, d.variadic \in 0..8, NEW i \in Nat \ {0},
           ~(a = "ARM64" /\ Misdeclared(d) /\ (i > d.variadic \/ i > FirstVariable(d))),
           ~(a = "X8664" /\ (i > d.variadic \/ i > ArgRegisters(a)))
    PROVE  Place(a, d, i - 1) = Passed(a, d, i - 1)
  <1>1. FirstVariable(d) \in Nat
    BY DEF FirstVariable
  <1>2. CASE a = "ARM64"
    BY <1>1, <1>2 DEF Place, VariadicPlace, Passed, Misdeclared, ArgRegisters
  <1>3. CASE a = "X8664"
    BY <1>3 DEF Place, Passed, ArgRegisters
  <1> QED
    BY <1>2, <1>3

\* What is read in the place of argument i is argument i.
LEMMA HeldAsPassed ==
    ASSUME NEW a, NEW d, d.variadic \in Nat, Len(d.params) \in Nat, NEW i \in 1..Len(d.params)
    PROVE  Held(a, d, Passed(a, d, i - 1)) = i
  <1>1. \A k \in 1..Len(d.params) : Passed(a, d, k - 1) = Passed(a, d, i - 1) => k = i
    BY PassedApart
  <1>2. Passed(a, d, i - 1) # Nowhere
    BY DEF Passed, Reg, Slot, Nowhere
  <1> QED
    BY <1>1, <1>2 DEF Held

LEMMA RawAsPassed ==
    ASSUME NEW a \in {"ARM64", "X8664"}, NEW n \in KnownNames, NEW frame,
           frame.registers, frame.stack,
           NEW i \in DOMAIN RawArgs(a, LookupByName(n), frame),
           RawArgs(a, LookupByName(n), frame)[i] # i
    PROVE  \/ /\ a = "ARM64" /\ Misdeclared(LookupByName(n))
              /\ i > LookupByName(n).variadic \/ i > FirstVariable(LookupByName(n))
           \/ a = "X8664" /\ (i > LookupByName(n).variadic \/ i > ArgRegisters(a))
  <1> DEFINE d == LookupByName(n)
  <1>1. d.variadic \in 0..8 /\ Len(d.params) \in Nat
    BY TableAssumption
  <1> HIDE DEF d
  <1>2. i \in 1..Len(d.params)
    BY DEF RawArgs, d
  <1>3. RawArgs(a, d, frame)[i] # i
    BY DEF d
  <1>4. SUFFICES ASSUME ~(a = "ARM64" /\ Misdeclared(d) /\ (i > d.variadic \/ i > FirstVariable(d))),
                        ~(a = "X8664" /\ (i > d.variadic \/ i > ArgRegisters(a)))
                 PROVE  FALSE
    BY DEF d
  <1>5. Place(a, d, i - 1) = Passed(a, d, i - 1)
    BY <1>1, <1>2, <1>4, ReadWherePassed
  <1>6. Held(a, d, Place(a, d, i - 1)) = i
    BY <1>1, <1>2, <1>5, HeldAsPassed
  <1>7. Readable(Place(a, d, i - 1), frame)
    BY <1>5 DEF Readable, Passed, Reg, Slot, Nowhere
  <1> QED
    BY <1>2, <1>3, <1>6, <1>7 DEF RawArgs

\* Only Enter makes an event pending, with what it reads from the frame.
LEMMA PendingNext == SInv /\ PendingSound /\ [Next]_vars => PendingSound'
  <1> SUFFICES ASSUME SInv, PendingSound, [Next]_vars
               PROVE  PendingSound'
    OBVIOUS
  <1> USE DEF PendingSound, machine
  <1>1. CASE Parse \/ Create \/ Start
    BY <1>1 DEF Parse, Create, Start, OpenOutput, Return, Escape, trace
  <1>2. CASE Launch
    <2>1. DetectArchitecture(machine.triple) \in {"ARM64", "X8664", "none"}
      BY DEF DetectArchitecture
    <2> QED
      BY <1>2, <2>1, Unwinding DEF Launch, trace, SInv
  <1>3. CASE Attach
    <2>1. DetectArchitecture(machine.triple) \in {"ARM64", "X8664", "none"}
      BY DEF DetectArchitecture
    <2> QED
      BY <1>3, <2>1 DEF Attach, trace, Return
  <1>4. CASE Pass
    BY <1>4 DEF Pass
  <1>5. CASE Enter
    <2>1. UNCHANGED <<job, arch>> /\ pc = "loop"
      BY <1>5 DEF Enter, Stopped
    <2>2. pc' \in {"loop", "close"}
      BY <1>5, HandlingSteps, Unwinding DEF LoopRaise, SInv
    <2>3. pending' # NoEvent =>
              /\ pending'.name \in KnownNames
              /\ pending'.raw = RawArgs(arch, LookupByName(pending'.name), machine.frame)
      BY <1>5 DEF Enter, Traced, trace
    <2> QED
      BY <2>1, <2>2, <2>3
  <1>6. CASE Leave
    <2>1. UNCHANGED <<job, arch>> /\ pc = "loop"
      BY <1>6 DEF Leave, Stopped
    <2>2. pc' \in {"loop", "close"}
      BY <1>6, HandlingSteps, Unwinding DEF LoopRaise, SInv
    <2>3. pending' = NoEvent
      BY <1>6 DEF Leave, Complete
    <2> QED
      BY <2>1, <2>2, <2>3
  <1>7. CASE TargetEnds
    BY <1>7 DEF TargetEnds, trace
  <1>8. CASE LeaveLoop
    BY <1>8 DEF LeaveLoop, trace, Return, WhereTo
  <1>9. CASE Detach \/ PrintSummary \/ Close \/ Report
    BY <1>9, Unwinding DEF Detach, PrintSummary, Close, Report, trace, SInv
  <1>10. CASE Interrupt
    BY <1>10, Unwinding DEF Interrupt, Escape, LoopRaise, trace, SInv
  <1>11. CASE UNCHANGED vars
    BY <1>11 DEF vars
  <1> QED
    BY <1>1, <1>2, <1>3, <1>4, <1>5, <1>6, <1>7, <1>8, <1>9, <1>10, <1>11 DEF Next, Work

\* Every argument of every function of the registry is read where it was
\* passed, but for the three kinds.
THEOREM ArgumentsAreRead == Spec => []ArgumentsAsPassed
  <1>1. Init => SInv /\ PendingSound
    BY SoundInit DEF Init, PendingSound
  <1>2. SInv /\ PendingSound /\ [Next]_vars => (SInv /\ PendingSound)'
    BY SoundNext, PendingNext
  <1>3. SInv /\ PendingSound => ArgumentsAsPassed
    BY RawAsPassed DEF PendingSound, ArgumentsAsPassed, Legible
  <1> QED
    BY <1>1, <1>2, <1>3, PTL DEF Spec

-----------------------------------------------------------------------------
\* What is printed, place by place.
LinesSound ==
    /\ \E S : lines \in Seq(S)
    /\ ~cmd.summary => \A i \in DOMAIN lines : lines[i] # Summary
    /\ cmd.summary => lines = << >> \/ lines = <<Summary>>
    /\ pc \in {"parse", "create", "start", "setup", "loop", "detach", "summary"} /\ cmd.summary =>
           lines = << >>
    /\ pc \in {"parse", "create", "start", "setup"} => target = "none"
    /\ pc \in {"close", "report", "done"} /\ cmd.summary =>
           (lines = <<Summary>> <=> raised = "none" /\ machine.disk /\ target \in Over)

\* A line is added to the lines: it is the last one, and it is no summary.
LEMMA LineAdded ==
    ASSUME NEW S, NEW s \in Seq(S), NEW x
    PROVE  /\ Append(s, x) \in Seq(S \cup {x})
           /\ \A i \in DOMAIN Append(s, x) : Append(s, x)[i] = x
                                           \/ (i \in DOMAIN s /\ Append(s, x)[i] = s[i])
  <1>1. s \in Seq(S \cup {x})
    OBVIOUS
  <1>2. Append(s, x) \in Seq(S \cup {x}) /\ Len(Append(s, x)) = Len(s) + 1
    BY <1>1, AppendProperties
  <1>3. \A i \in 1..Len(s) + 1 : Append(s, x)[i] = IF i <= Len(s) THEN s[i] ELSE x
    BY <1>1, AppendProperties
  <1>4. DOMAIN Append(s, x) = 1..Len(s) + 1 /\ DOMAIN s = 1..Len(s)
    BY <1>1, <1>2, LenProperties
  <1> QED
    BY <1>2, <1>3, <1>4, LenProperties

\* A pending event has a name that was stripped of its underscores.
PendingNamed == pending # NoEvent => "name" \in DOMAIN pending /\ pending.name.bars = 0

\* Handling a call prints nothing under -c, and no summary without it.
LEMMA HandlingPrints ==
    ASSUME Pass \/ Enter \/ Leave, PendingNamed
    PROVE  \/ UNCHANGED lines
           \/ /\ ~cmd.summary
              /\ \E x : x # Summary /\ lines' = Append(lines, x)
  <1>1. ASSUME NEW e, NEW ret, e.name.bars = 0, WriteEvent(e, ret)
        PROVE  \/ UNCHANGED lines
               \/ ~cmd.summary /\ \E x : x # Summary /\ lines' = Append(lines, x)
    <2> DEFINE f == Formatter(cmd.json, machine.tty /\ ~cmd.output)
               x == [name |-> e.name, call |-> e.call, args |-> e.args, ret |-> ret,
                     shown |-> Positions(f, e.args), named |-> NamesIn(f, e.args)]
    <2>1. x.name = e.name
      OBVIOUS
    <2>2. Summary.name.bars = 1
      BY DEF Summary, Name
    <2>3. x # Summary
      BY <1>1, <2>1, <2>2
    <2>4. UNCHANGED lines \/ (~cmd.summary /\ lines' = Append(lines, x))
      BY <1>1 DEF WriteEvent
    <2> QED
      BY <2>3, <2>4
  <1>2. CASE Pass
    BY <1>2 DEF Pass
  <1>3. CASE Enter
    <2>1. UNCHANGED lines \/ \E e, ret : e.name.bars = 0 /\ WriteEvent(e, ret)
      BY <1>3 DEF Enter, trace, Stripped, Name
    <2> QED
      BY <1>1, <2>1
  <1>4. CASE Leave
    <2>1. pending.name.bars = 0 /\ \A v : [pending EXCEPT !.args = v].name = pending.name
      BY <1>4 DEF Leave, PendingNamed
    <2>2. UNCHANGED lines \/ \E ret : \/ WriteEvent(pending, ret)
                                     \/ \E v : WriteEvent([pending EXCEPT !.args = v], ret)
      BY <1>4 DEF Leave, Complete
    <2> QED
      BY <1>1, <2>1, <2>2
  <1> QED
    BY <1>2, <1>3, <1>4

LEMMA NamedNext == PendingNamed /\ [Next]_vars => PendingNamed'
  <1> SUFFICES ASSUME PendingNamed, [Next]_vars
               PROVE  PendingNamed'
    OBVIOUS
  <1> USE DEF PendingNamed
  <1>1. CASE Enter
    <2>1. pending' # NoEvent => pending'.name = Stripped(job.calls[past + 1].symbol)
                                /\ "name" \in DOMAIN pending'
      BY <1>1 DEF Enter, Here, trace
    <2> QED
      BY <2>1 DEF Stripped, Name
  <1>2. CASE Leave
    BY <1>2 DEF Leave, Complete
  <1>3. CASE UNCHANGED pending
    BY <1>3
  <1>4. Parse \/ Create \/ Start \/ Launch \/ Attach \/ Pass \/ TargetEnds \/ LeaveLoop
        \/ Detach \/ PrintSummary \/ Close \/ Report \/ Interrupt \/ UNCHANGED vars
        => UNCHANGED pending
    BY DEF Parse, Create, Start, OpenOutput, Launch, Attach, Pass, TargetEnds, LeaveLoop, Detach,
           PrintSummary, Close, Report, Interrupt, trace, vars
  <1> QED
    BY <1>1, <1>2, <1>3, <1>4 DEF Next, Work

\* Every step keeps LinesSound: a line is added by the handlers, and only without
\* -c, or by PrintSummary, and only with it.
LEMMA LinesNext == SInv /\ PendingNamed /\ LinesSound /\ [Next]_vars => LinesSound'
  <1> SUFFICES ASSUME SInv, PendingNamed, LinesSound, [Next]_vars
               PROVE  LinesSound'
    OBVIOUS
  <1>0. Summary \in {Summary} /\ <<Summary>> # << >>
    OBVIOUS
  <1> USE DEF LinesSound, SInv, Typed, EndSound, Over, Exceptions, cmd, machine, trace, world,
              Return, Escape
  <1>1. CASE Parse
    BY <1>0, <1>1 DEF Parse
  <1>2. CASE Create
    BY <1>0, <1>2 DEF Create
  <1>3. CASE Start
    BY <1>0, <1>3 DEF Start, OpenOutput
  <1>4. CASE Launch
    BY <1>0, <1>4, Unwinding DEF Launch
  <1>5. CASE Attach
    BY <1>0, <1>5 DEF Attach
  <1>6. CASE Pass \/ Enter \/ Leave
    <2>1. UNCHANGED <<job, target>> /\ pc = "loop" /\ target = "held" /\ pc' \in {"loop", "close"}
      BY <1>6, HandlingSteps, Unwinding DEF LoopRaise
    <2>2. CASE UNCHANGED lines
      BY <1>0, <2>1, <2>2
    <2>3. CASE ~cmd.summary /\ \E x : x # Summary /\ lines' = Append(lines, x)
      <3>1. PICK S : lines \in Seq(S)
        OBVIOUS
      <3>2. PICK x : x # Summary /\ lines' = Append(lines, x)
        BY <2>3
      <3>3. \A i \in DOMAIN lines : lines[i] # Summary
        BY <2>3
      <3>4. lines' \in Seq(S \cup {x}) /\ \A i \in DOMAIN lines' : lines'[i] # Summary
        BY <3>1, <3>2, <3>3, LineAdded
      <3>5. ~cmd'.summary
        BY <2>1, <2>3
      <3> QED
        BY <2>1, <3>4, <3>5
    <2> QED
      BY <1>6, <2>2, <2>3, HandlingPrints
  <1>7. CASE TargetEnds
    BY <1>0, <1>7 DEF TargetEnds
  <1>8. CASE LeaveLoop
    BY <1>0, <1>8 DEF LeaveLoop, WhereTo
  <1>9. CASE Detach
    BY <1>0, <1>9 DEF Detach
  <1>10. CASE PrintSummary
    <2>1. CASE UNCHANGED lines
      BY <1>0, <1>10, <2>1, Unwinding DEF PrintSummary
    <2>2. CASE cmd.summary /\ machine.disk /\ lines' = Append(lines, Summary)
      <3>1. lines' = <<Summary>>
        BY <1>10, <2>2 DEF PrintSummary
      <3>2. <<Summary>> \in Seq({Summary})
        OBVIOUS
      <3> QED
        BY <1>0, <1>10, <2>2, <3>1, <3>2 DEF PrintSummary
    <2> QED
      BY <1>10, <2>1, <2>2 DEF PrintSummary
  <1>11. CASE Close
    BY <1>0, <1>11 DEF Close
  <1>12. CASE Report
    BY <1>0, <1>12 DEF Report
  <1>13. CASE Interrupt
    BY <1>0, <1>13, Unwinding DEF Interrupt, LoopRaise, Unwind
  <1>14. CASE UNCHANGED vars
    BY <1>0, <1>14 DEF vars
  <1> QED
    BY <1>1, <1>2, <1>3, <1>4, <1>5, <1>6, <1>7, <1>8, <1>9, <1>10, <1>11, <1>12, <1>13,
       <1>14 DEF Next, Work

\* Under -c the summary is printed once, and alone, by exactly the runs whose
\* trace came to an end and that could print; without -c it never is.
THEOREM SummaryComesLast == Spec => []SummaryIsLast
  <1> DEFINE Inv == SInv /\ PendingNamed /\ LinesSound
  <1>1. Init => Inv
    <2>1. Init => LinesSound
      BY EmptySeq, <<Summary>> # << >> DEF Init, LinesSound
    <2> QED
      BY <2>1, SoundInit DEF Init, PendingNamed
  <1>2. Inv /\ [Next]_vars => Inv'
    BY SoundNext, NamedNext, LinesNext
  <1>3. Inv => SummaryIsLast
    BY <<Summary>> # << >> DEF LinesSound, SummaryIsLast, Over
  <1> QED
    BY <1>1, <1>2, <1>3, PTL DEF Spec
=============================================================================
