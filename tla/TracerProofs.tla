---------------------------- MODULE TracerProofs ----------------------------
(***************************************************************************)
(* Theorems about Tracer, for every number of threads, calls, call sites   *)
(* and symbols.                                                            *)
(***************************************************************************)
EXTENDS Tracer, TLAPS

Born(c) == calls[c] # Unborn

\* While the process is stopped, the selected thread is one with a reason to
\* stop (tracer.py 428-439 relies on it); a stop is in a call of its own
\* thread, and a return stop is of a call that has returned.
SelectedStopped == proc = "stopped" => selected \in Threads /\ hit[selected] # NoStop

HitsSound ==
    \A t \in Threads :
        /\ hit[t].call # NoCall => Born(hit[t].call) /\ calls[hit[t].call].thread = t
        /\ hit[t].kind = "return" => calls[hit[t].call].status = "returned"

TInv == TypeOK /\ SelectedStopped /\ HitsSound

-----------------------------------------------------------------------------
\* Lemmas about the data.

\* What the stop records hold, and that no stop is none of them.
LEMMA StopFacts ==
    /\ NoStop \notin Stops
    /\ NoStop.call = NoCall
    /\ NoStop.kind = "none"
    /\ \A s \in Stops :
          /\ s.kind \in {"entry", "return", "signal"}
          /\ s.call \in Calls \cup {NoCall}
          /\ s.kind # "signal" => s.call \in Calls
    /\ \A c \in Calls : /\ [kind |-> "entry", call |-> c] \in Stops
                        /\ [kind |-> "return", call |-> c] \in Stops
                        /\ [kind |-> "signal", call |-> c] \in Stops
    /\ [kind |-> "signal", call |-> NoCall] \in Stops
  BY DEF NoStop, Stops

\* A record of a call is never the record of an unborn one, and keeps its
\* type when its status or its symbol changes.
LEMMA RecordFacts ==
    ASSUME NEW r \in CallRecords
    PROVE  /\ r # Unborn
           /\ r.status \in CallStates
           /\ r.thread \in Threads
           /\ r.entry \in Symbols
           /\ r.symbol \in Symbols
           /\ r.site \in Sites
           /\ r.over \in SUBSET Calls
           /\ \A s \in CallStates : [r EXCEPT !.status = s] \in CallRecords
           /\ \A g \in Symbols : [r EXCEPT !.symbol = g] \in CallRecords
  BY DEF CallRecords, Unborn, CallStates

\* A call with a status other than "unborn" has a full record.
LEMMA BornRecord ==
    ASSUME DebuggeeTypeOK, NEW c \in Calls, Born(c) \/ calls[c].status # "unborn"
    PROVE  calls[c] \in CallRecords /\ Born(c)
  BY RecordFacts DEF DebuggeeTypeOK, Born, Unborn

\* The innermost call of a thread is live and its own.
LEMMA InnermostFacts ==
    ASSUME NEW t \in Threads, NEW c \in Calls, c \in Innermost(t)
    PROVE  calls[c].status = "live" /\ calls[c].thread = t
  BY DEF Innermost, LiveOn, Live

-----------------------------------------------------------------------------
\* Type correctness.

\* A target step happens while the process runs, and is one of seven.
LEMMA TargetCases ==
    ASSUME Target
    PROVE  /\ proc = "running"
           /\ UNCHANGED tracerVars
           /\ \/ \E t \in Threads, c \in Calls, f \in Symbols, a \in Sites : Call(t, c, f, a)
              \/ \E t \in Threads, c \in Calls, g \in Symbols : Branch(t, c, g)
              \/ \E t \in Threads, c \in Calls : Return(t, c)
              \/ \E t \in Threads, c \in Calls : Abandon(t, c)
              \/ \E t \in Threads : Signal(t)
              \/ \E t \in Threads : Halt(t)
              \/ Die
  BY DEF Target, TargetStep, Call, Branch, Return, Abandon, Signal, Halt, Die, Runs

\* What the registers of a stopped thread hold.
LEMMA FrameFacts ==
    ASSUME TInv, NEW t \in Threads, hit[t].call # NoCall
    PROVE  /\ hit[t].call \in Calls
           /\ calls[hit[t].call] \in CallRecords
           /\ calls[hit[t].call].thread = t
           /\ ReturnAddress(t) \in Sites
           /\ FrameSymbol(t) \in Symbols
  <1>1. hit[t].call \in Calls
    BY StopFacts DEF TInv, TypeOK, DebuggeeTypeOK
  <1>2. calls[hit[t].call] \in CallRecords
    BY <1>1, BornRecord DEF TInv, TypeOK, HitsSound
  <1> QED
    BY <1>1, <1>2, RecordFacts DEF TInv, HitsSound, ReturnAddress, FrameSymbol

\* A return stop and an entry stop are in a call.
LEMMA StopHasCall ==
    ASSUME TInv, NEW t \in Threads, IsReturn(t) \/ IsEntry(t)
    PROVE  hit[t].call # NoCall
  <1>1. hit[t] \in Stops => (AtReturn(t) => hit[t].call \in Calls)
    BY StopFacts DEF AtReturn
  <1>2. AtReturn(t) => hit[t] # NoStop
    BY StopFacts DEF AtReturn
  <1> QED
    BY <1>1, <1>2, DebuggeeAssumption
    DEF IsReturn, IsEntry, InSymbol, TInv, TypeOK, DebuggeeTypeOK

\* Handling a stop leaves the breakpoints, the pending entries, the trace and
\* the history well typed.
LEMMA HandleTypes ==
    ASSUME TInv, NEW t \in Threads, HandleStop(t)
    PROVE  /\ oneshots' \subseteq Sites
           /\ pending' \in [Threads -> [Sites -> Calls \cup {NoCall}]]
           /\ written' \in Seq(Events)
           /\ beside' \subseteq Calls \X Calls
  <1>0. beside' \subseteq Calls \X Calls
    <2>1. AtEntry(t) => hit[t].call \in Calls
      BY StopFacts DEF AtEntry, TInv, TypeOK, DebuggeeTypeOK
    <2>2. PendingOn(t) \subseteq Calls
      BY DEF PendingOn, Pending, TInv, TypeOK
    <2>3. beside' = beside \cup (IF AtEntry(t) THEN {hit[t].call} \X PendingOn(t) ELSE {})
      BY DEF HandleStop, NoteBeside
    <2>4. beside \subseteq Calls \X Calls
      BY DEF TInv, TypeOK
    <2> QED
      BY <2>1, <2>2, <2>3, <2>4
  <1>1. CASE HandleReturn(t)
    <2>1. /\ hit[t].call \in Calls
          /\ ReturnAddress(t) \in Sites
      BY <1>1, FrameFacts, StopHasCall DEF HandleReturn
    <2>2. pending[t][ReturnAddress(t)] \in Calls
      BY <1>1, <2>1 DEF HandleReturn, IsReturn, Pending, TInv, TypeOK
    <2>3. written' \in Seq(Events)
      <3> DEFINE e == [call |-> pending[t][ReturnAddress(t)], thread |-> t,
                       site |-> ReturnAddress(t), ret |-> hit[t].call]
      <3>1. e \in Events
        BY <2>1, <2>2 DEF Events
      <3>2. written' = Append(written, e)
        BY <1>1 DEF HandleReturn, WriteEvent
      <3> QED
        BY <3>1, <3>2 DEF TInv, TypeOK
    <2> QED
      BY <1>0, <1>1, <2>1, <2>3 DEF HandleReturn, TInv, TypeOK, DebuggeeTypeOK
  <1>2. CASE HandleEntry(t)
    <2>1. /\ hit[t].call \in Calls
          /\ ReturnAddress(t) \in Sites
      BY <1>2, FrameFacts, StopHasCall DEF HandleEntry
    <2>2. [call |-> hit[t].call, thread |-> t, site |-> ReturnAddress(t), ret |-> NoCall]
            \in Events
      BY <2>1 DEF Events
    <2>3. written \in Seq(Events) /\ oneshots \subseteq Sites
      BY DEF TInv, TypeOK, DebuggeeTypeOK
    <2>4. written' \in Seq(Events)
      BY <1>2, <2>2, <2>3 DEF HandleEntry, WriteEvent
    <2>5. oneshots' \subseteq Sites
      BY <1>2, <2>1, <2>3 DEF HandleEntry
    <2>6. pending' \in [Threads -> [Sites -> Calls \cup {NoCall}]]
      BY <1>2, <2>1 DEF HandleEntry, TInv, TypeOK
    <2> QED
      BY <1>0, <2>4, <2>5, <2>6
  <1>3. CASE IgnoreStop(t)
    BY <1>0, <1>3 DEF IgnoreStop, TInv, TypeOK, DebuggeeTypeOK
  <1> QED
    BY <1>0, <1>1, <1>2, <1>3 DEF HandleStop

\* The type invariant holds initially.
LEMMA TypeInit == Init => TInv
  <1> SUFFICES ASSUME Init
               PROVE  TInv
    OBVIOUS
  <1>1. DebuggeeTypeOK
    BY DEF Init, DebuggeeInit, DebuggeeTypeOK, ProcStates
  <1>2. pending \in [Threads -> [Sites -> Calls \cup {NoCall}]]
    BY DEF Init
  <1>3. TypeOK
    <2>1. written \in Seq(Events)
      BY DEF Init
    <2>2. interrupted \in BOOLEAN /\ sigint \in BOOLEAN
      BY Zenon DEF Init
    <2> QED
      BY <1>1, <1>2, <2>1, <2>2 DEF Init, TypeOK, Places, Exits
  <1>4. SelectedStopped /\ HitsSound
    BY StopFacts DEF Init, DebuggeeInit, SelectedStopped, HitsSound
  <1> QED
    BY <1>3, <1>4 DEF TInv

\* What no step changes about a call that has begun.
CallKept(c) ==
    Born(c) =>
        /\ Born(c)'
        /\ calls'[c].thread = calls[c].thread
        /\ calls'[c].site = calls[c].site
        /\ calls'[c].entry = calls[c].entry
        /\ SyscallName[calls'[c].symbol] = SyscallName[calls[c].symbol]
        /\ calls[c].status = "returned" => calls'[c].status = "returned"

\* A step that changes one live call, or makes an unborn one live, keeps the
\* calls well typed and keeps what is fixed of them.
LEMMA UpdateLive ==
    ASSUME DebuggeeTypeOK, NEW c \in Calls, NEW r \in CallRecords,
           calls' = [calls EXCEPT ![c] = r],
           \/ calls[c] = Unborn
           \/ /\ calls[c].status = "live"
              /\ r.thread = calls[c].thread
              /\ r.site = calls[c].site
              /\ r.entry = calls[c].entry
              /\ SyscallName[r.symbol] = SyscallName[calls[c].symbol]
    PROVE  /\ calls' \in [Calls -> CallRecords \cup {Unborn}]
           /\ \A x \in Calls : CallKept(x)
           /\ calls'[c] = r
  <1>1. calls \in [Calls -> CallRecords \cup {Unborn}]
    BY DEF DebuggeeTypeOK
  <1>2. calls' \in [Calls -> CallRecords \cup {Unborn}] /\ calls'[c] = r
    BY <1>1
  <1>3. ASSUME NEW x \in Calls, Born(x)
        PROVE  CallKept(x)
    <2>1. CASE x = c
      <3>1. calls[c].status = "live"
        BY <1>3, <2>1 DEF Born
      <3>2. r # Unborn
        BY RecordFacts
      <3> QED
        BY <1>2, <1>3, <2>1, <3>1, <3>2 DEF CallKept, Born
    <2>2. CASE x # c
      <3>1. calls'[x] = calls[x]
        BY <1>1, <2>2
      <3> QED
        BY <1>3, <3>1 DEF CallKept, Born
    <2> QED
      BY <2>1, <2>2
  <1> QED
    BY <1>2, <1>3 DEF CallKept

\* A target step, whatever it is: the calls stay typed and keep what is
\* fixed of them, and a thread that stops is one that ran.
LEMMA TargetEffect ==
    ASSUME TInv, Target
    PROVE  /\ calls' \in [Calls -> CallRecords \cup {Unborn}]
           /\ \A x \in Calls : CallKept(x)
           /\ hit' \in [Threads -> Stops \cup {NoStop}]
           /\ \A t \in Threads :
                 \/ hit'[t] = hit[t]
                 \/ hit'[t] = [kind |-> "signal", call |-> NoCall]
                 \/ \E c \in Calls :
                      /\ hit'[t].call = c
                      /\ calls'[c] \in CallRecords
                      /\ calls'[c].thread = t
                      /\ hit'[t].kind = "return" =>
                            calls[c].status = "live" /\ calls'[c].status = "returned"
  <1> DEFINE Goal ==
           /\ calls' \in [Calls -> CallRecords \cup {Unborn}]
           /\ \A x \in Calls : CallKept(x)
           /\ hit' \in [Threads -> Stops \cup {NoStop}]
           /\ \A t \in Threads :
                 \/ hit'[t] = hit[t]
                 \/ hit'[t] = [kind |-> "signal", call |-> NoCall]
                 \/ \E c \in Calls :
                      /\ hit'[t].call = c
                      /\ calls'[c] \in CallRecords
                      /\ calls'[c].thread = t
                      /\ hit'[t].kind = "return" =>
                            calls[c].status = "live" /\ calls'[c].status = "returned"
  <1>0. /\ DebuggeeTypeOK
        /\ hit \in [Threads -> Stops \cup {NoStop}]
        /\ calls \in [Calls -> CallRecords \cup {Unborn}]
    BY DEF TInv, TypeOK, DebuggeeTypeOK
  <1>1. ASSUME NEW t \in Threads, NEW c \in Calls, NEW f \in Symbols, NEW a \in Sites,
               Call(t, c, f, a)
        PROVE  Goal
    <2> DEFINE r == [status |-> "live", thread |-> t, entry |-> f, symbol |-> f, site |-> a,
                     over |-> Live]
    <2>1. r \in CallRecords /\ r.thread = t
      BY DEF CallRecords, CallStates, Live
    <2>2. calls' = [calls EXCEPT ![c] = r] /\ calls[c] = Unborn
      BY <1>1 DEF Call
    <2>3. /\ calls' \in [Calls -> CallRecords \cup {Unborn}]
          /\ \A x \in Calls : CallKept(x)
          /\ calls'[c] = r
      BY <1>0, <2>1, <2>2, UpdateLive
    <2>4. hit' = hit \/ hit' = [hit EXCEPT ![t] = [kind |-> "entry", call |-> c]]
      BY <1>1 DEF Call
    <2> HIDE DEF r
    <2>5. /\ hit' \in [Threads -> Stops \cup {NoStop}]
          /\ \A u \in Threads : hit'[u] = hit[u] \/ (u = t /\ hit'[u] = [kind |-> "entry", call |-> c])
      BY <1>0, <2>4, StopFacts
    <2> QED
      BY <2>1, <2>3, <2>5
  <1>2. ASSUME NEW t \in Threads, NEW c \in Calls, NEW g \in Symbols, Branch(t, c, g)
        PROVE  Goal
    <2> DEFINE r == [calls[c] EXCEPT !.symbol = g]
    <2>1. calls[c].status = "live" /\ calls[c].thread = t /\ calls[c] \in CallRecords
      BY <1>0, <1>2, InnermostFacts, BornRecord DEF Branch
    <2>2. /\ r \in CallRecords
          /\ r.thread = calls[c].thread
          /\ r.site = calls[c].site
          /\ r.entry = calls[c].entry
          /\ r.symbol = g
      BY <2>1, RecordFacts DEF CallRecords
    <2>3. calls' = [calls EXCEPT ![c] = r] /\ <<calls[c].symbol, g>> \in Branches
      BY <1>2 DEF Branch
    <2>4. SyscallName[r.symbol] = SyscallName[calls[c].symbol]
      BY <2>2, <2>3, TracerAssumption
    <2>5. /\ calls' \in [Calls -> CallRecords \cup {Unborn}]
          /\ \A x \in Calls : CallKept(x)
          /\ calls'[c] = r
      BY <1>0, <2>1, <2>2, <2>3, <2>4, UpdateLive
    <2>6. hit' = hit \/ hit' = [hit EXCEPT ![t] = [kind |-> "entry", call |-> c]]
      BY <1>2 DEF Branch
    <2> HIDE DEF r
    <2>7. /\ hit' \in [Threads -> Stops \cup {NoStop}]
          /\ \A u \in Threads : hit'[u] = hit[u] \/ (u = t /\ hit'[u] = [kind |-> "entry", call |-> c])
      BY <1>0, <2>6, StopFacts
    <2> QED
      BY <2>1, <2>2, <2>5, <2>7
  <1>3. ASSUME NEW t \in Threads, NEW c \in Calls, NEW s \in {"returned", "abandoned"},
               c \in Innermost(t),
               calls' = [calls EXCEPT ![c].status = s],
               \/ hit' = hit
               \/ hit' = [hit EXCEPT ![t] = [kind |-> "return", call |-> c]] /\ s = "returned"
        PROVE  Goal
    <2> DEFINE r == [calls[c] EXCEPT !.status = s]
    <2>1. calls[c].status = "live" /\ calls[c].thread = t /\ calls[c] \in CallRecords
      BY <1>0, <1>3, InnermostFacts, BornRecord
    <2>2. /\ r \in CallRecords
          /\ r.thread = calls[c].thread
          /\ r.site = calls[c].site
          /\ r.entry = calls[c].entry
          /\ r.symbol = calls[c].symbol
          /\ r.status = s
      BY <2>1, RecordFacts DEF CallRecords, CallStates
    <2>3. /\ calls' \in [Calls -> CallRecords \cup {Unborn}]
          /\ \A x \in Calls : CallKept(x)
          /\ calls'[c] = r
      BY <1>0, <1>3, <2>1, <2>2, UpdateLive
    <2> HIDE DEF r
    <2>4. /\ hit' \in [Threads -> Stops \cup {NoStop}]
          /\ \A u \in Threads : \/ hit'[u] = hit[u]
                                \/ /\ u = t
                                   /\ s = "returned"
                                   /\ hit'[u] = [kind |-> "return", call |-> c]
      BY <1>0, <1>3, StopFacts
    <2> QED
      BY <2>1, <2>2, <2>3, <2>4
  <1>4. ASSUME NEW t \in Threads, NEW c \in Calls, Return(t, c)
        PROVE  Goal
    BY <1>3, <1>4 DEF Return
  <1>5. ASSUME NEW t \in Threads, NEW c \in Calls, Abandon(t, c)
        PROVE  Goal
    BY <1>3, <1>5 DEF Abandon
  <1>6. ASSUME UNCHANGED calls
        PROVE  /\ calls' \in [Calls -> CallRecords \cup {Unborn}]
               /\ \A x \in Calls : CallKept(x)
    BY <1>0, <1>6 DEF CallKept, Born
  <1>7. ASSUME NEW t \in Threads, Signal(t)
        PROVE  Goal
    <2>1. CASE hit' = [hit EXCEPT ![t] = [kind |-> "signal", call |-> NoCall]]
      BY <1>0, <1>6, <1>7, <2>1, StopFacts DEF Signal
    <2>2. ASSUME NEW c \in Innermost(t),
                 hit' = [hit EXCEPT ![t] = [kind |-> "signal", call |-> c]]
          PROVE  Goal
      <3>1. c \in Calls
        BY DEF Innermost, LiveOn, Live
      <3>2. calls[c].thread = t /\ calls[c] \in CallRecords
        BY <1>0, <3>1, InnermostFacts, BornRecord
      <3> QED
        BY <1>0, <1>6, <1>7, <2>2, <3>1, <3>2, StopFacts DEF Signal
    <2> QED
      BY <1>7, <2>1, <2>2 DEF Signal
  <1>8. ASSUME NEW t \in Threads, Halt(t)
        PROVE  Goal
    <2>1. UNCHANGED <<calls, hit>>
      BY <1>8 DEF Halt
    <2> QED
      BY <1>0, <1>6, <2>1
  <1>9. ASSUME Die
        PROVE  Goal
    BY <1>0, <1>6, <1>9 DEF Die
  <1> HIDE DEF Goal
  <1>10. \/ \E t \in Threads, c \in Calls, f \in Symbols, a \in Sites : Call(t, c, f, a)
         \/ \E t \in Threads, c \in Calls, g \in Symbols : Branch(t, c, g)
         \/ \E t \in Threads, c \in Calls : Return(t, c)
         \/ \E t \in Threads, c \in Calls : Abandon(t, c)
         \/ \E t \in Threads : Signal(t)
         \/ \E t \in Threads : Halt(t)
         \/ Die
    BY TargetCases
  <1>11. Goal
    BY <1>1, <1>2, <1>4, <1>5, <1>7, <1>8, <1>9, <1>10
  <1> QED
    BY <1>11 DEF Goal

LEMMA TargetType ==
    ASSUME TInv, Target
    PROVE  DebuggeeTypeOK' /\ SelectedStopped' /\ HitsSound'
  <1>1. proc = "running" /\ DebuggeeTypeOK
    BY TargetCases DEF TInv, TypeOK
  <1>2. /\ proc' \in ProcStates
        /\ armed' \in BOOLEAN
        /\ selected' \in Threads \cup {NoThread}
        /\ oneshots' \subseteq Sites
    <2>1. CASE \E t \in Threads : Halt(t)
      BY <1>1, <2>1 DEF Halt, DebuggeeTypeOK, ProcStates
    <2>2. CASE Die
      BY <1>1, <2>2, DebuggeeAssumption DEF Die, DebuggeeTypeOK, ProcStates
    <2>3. CASE UNCHANGED <<proc, armed, selected, oneshots>>
      BY <1>1, <2>3 DEF DebuggeeTypeOK
    <2> QED
      BY <2>1, <2>2, <2>3, TargetCases DEF Call, Branch, Return, Abandon, Signal
  <1>3. missed' \subseteq Calls
    <2>1. ASSUME NEW t \in Threads, Halt(t)
          PROVE  missed' \subseteq Calls
      <3>1. \A u \in Threads : hit[u].kind \in {"entry", "return"} => hit[u].call \in Calls
        BY <1>1, StopFacts DEF DebuggeeTypeOK
      <3> QED
        BY <1>1, <2>1, <3>1 DEF Halt, DebuggeeTypeOK
    <2>2. ASSUME NEW t \in Threads, NEW c \in Calls, NEW f \in Symbols, NEW a \in Sites,
                 Call(t, c, f, a)
          PROVE  missed' \subseteq Calls
      BY <1>1, <2>2 DEF Call, DebuggeeTypeOK
    <2>3. CASE UNCHANGED missed
      BY <1>1, <2>3 DEF DebuggeeTypeOK
    <2> QED
      BY <2>1, <2>2, <2>3, TargetCases DEF Branch, Return, Abandon, Signal, Die
  <1>4. SelectedStopped'
    <2>1. ASSUME NEW t \in Threads, Halt(t)
          PROVE  SelectedStopped'
      BY <2>1 DEF Halt, SelectedStopped
    <2>2. CASE Die
      BY <2>2, DebuggeeAssumption DEF Die, SelectedStopped
    <2>3. CASE UNCHANGED proc
      BY <1>1, <2>3 DEF SelectedStopped
    <2> QED
      BY <2>1, <2>2, <2>3, TargetCases DEF Call, Branch, Return, Abandon, Signal
  <1>5. HitsSound'
    <2> SUFFICES ASSUME NEW t \in Threads
                 PROVE  /\ hit'[t].call # NoCall =>
                             calls'[hit'[t].call] # Unborn /\ calls'[hit'[t].call].thread = t
                        /\ hit'[t].kind = "return" =>
                             calls'[hit'[t].call].status = "returned"
      BY DEF HitsSound, Born
    <2>1. CASE hit'[t] = hit[t]
      <3>1. CASE hit[t].call = NoCall
        BY <1>1, <2>1, <3>1, StopFacts, DebuggeeAssumption DEF DebuggeeTypeOK
      <3>2. CASE hit[t].call # NoCall
        <4>1. hit[t].call \in Calls
          BY <3>2, FrameFacts
        <4> QED
          BY <2>1, <3>2, <4>1, TargetEffect DEF TInv, HitsSound, CallKept, Born
      <3> QED
        BY <3>1, <3>2
    <2>2. CASE hit'[t] = [kind |-> "signal", call |-> NoCall]
      BY <2>2
    <2>3. ASSUME NEW c \in Calls,
                 hit'[t].call = c,
                 calls'[c] \in CallRecords,
                 calls'[c].thread = t,
                 hit'[t].kind = "return" => calls'[c].status = "returned"
          PROVE  /\ calls'[hit'[t].call] # Unborn
                 /\ calls'[hit'[t].call].thread = t
                 /\ hit'[t].kind = "return" => calls'[hit'[t].call].status = "returned"
      BY <2>3, RecordFacts
    <2> QED
      BY <2>1, <2>2, <2>3, TargetEffect
  <1> QED
    BY <1>2, <1>3, <1>4, <1>5, TargetEffect DEF DebuggeeTypeOK

\* Every step preserves the type invariant.
LEMMA TypeNext == TInv /\ [Next]_vars => TInv'
  <1> SUFFICES ASSUME TInv, [Next]_vars
               PROVE  TInv'
    OBVIOUS
  <1>0. TypeOK /\ DebuggeeTypeOK /\ SelectedStopped /\ HitsSound
    BY DEF TInv, TypeOK
  <1>1. CASE Launch
    BY <1>0, <1>1
    DEF Launch, TInv, TypeOK, DebuggeeTypeOK, SelectedStopped, HitsSound, Born, Places
  <1>2. CASE Attach
    BY <1>0, <1>2
    DEF Attach, Leave, TInv, TypeOK, DebuggeeTypeOK, SelectedStopped, HitsSound, Born,
        Places, Exits
  <1>3. CASE Wake
    <2>1. /\ UNCHANGED <<proc, armed, calls, hit, selected, missed, mode>>
          /\ interrupted' \in BOOLEAN
          /\ sigint' \in BOOLEAN
          /\ pc' \in Places
          /\ exit' \in Exits
      BY <1>0, <1>3 DEF Wake, NoteSigint, EndIfOver, Leave, TypeOK, Places, Exits
    <2>2. /\ oneshots' \subseteq Sites
          /\ pending' \in [Threads -> [Sites -> Calls \cup {NoCall}]]
          /\ written' \in Seq(Events)
          /\ beside' \subseteq Calls \X Calls
      <3>1. CASE UNCHANGED <<oneshots, pending, written, beside>>
        BY <1>0, <3>1 DEF TypeOK, DebuggeeTypeOK
      <3>2. CASE proc = "stopped" /\ HandleStop(selected)
        BY <1>0, <3>2, HandleTypes DEF SelectedStopped
      <3> QED
        BY <1>3, <3>1, <3>2 DEF Wake, NoteSigint, EndIfOver
    <2> QED
      BY <1>0, <2>1, <2>2
      DEF TInv, TypeOK, DebuggeeTypeOK, SelectedStopped, HitsSound, Born
  <1>4. CASE Continue
    <2>1. /\ hit' = [t \in Threads |-> NoStop]
          /\ proc' = "running"
          /\ selected' = NoThread
          /\ UNCHANGED <<armed, calls, oneshots, missed>>
      BY <1>4 DEF Continue, Resume
    <2>2. DebuggeeTypeOK'
      BY <1>0, <2>1 DEF DebuggeeTypeOK, ProcStates
    <2>3. SelectedStopped' /\ HitsSound'
      BY <2>1, StopFacts DEF SelectedStopped, HitsSound
    <2> QED
      BY <1>0, <1>4, <2>2, <2>3 DEF Continue, TInv, TypeOK, Places
  <1>5. CASE Quit
    BY <1>0, <1>5
    DEF Quit, Leave, debuggeeVars, TInv, TypeOK, DebuggeeTypeOK, SelectedStopped, HitsSound,
        Born, Places, Exits
  <1>6. CASE Finish
    BY <1>0, <1>6
    DEF Finish, TInv, TypeOK, DebuggeeTypeOK, SelectedStopped, HitsSound, Born, Places,
        ProcStates
  <1>7. CASE Interrupt
    BY <1>0, <1>7
    DEF Interrupt, debuggeeVars, TInv, TypeOK, DebuggeeTypeOK, SelectedStopped, HitsSound, Born
  <1>8. CASE Target
    <2>1. UNCHANGED tracerVars
      BY <1>8, TargetCases
    <2> QED
      BY <1>0, <1>8, <2>1, TargetType DEF TInv, TypeOK, tracerVars
  <1>9. CASE UNCHANGED vars
    BY <1>0, <1>9
    DEF vars, TInv, TypeOK, DebuggeeTypeOK, SelectedStopped, HitsSound, Born
  <1> QED
    BY <1>1, <1>2, <1>3, <1>4, <1>5, <1>6, <1>7, <1>8, <1>9 DEF Next, Loop

\* Every variable of the model keeps its type, for any number of threads,
\* calls, call sites and symbols.
THEOREM TypeCorrect == Spec => []TypeOK
  <1>1. TInv => TypeOK
    BY DEF TInv
  <1> QED
    BY <1>1, TypeInit, TypeNext, PTL DEF Spec

-----------------------------------------------------------------------------
\* Whose return value the trace shows.

\* A return stop that has not been handled yet is of a call whose return is
\* not in the trace: what makes OneEventPerReturn inductive.
FreshReturns ==
    pc \in {"start", "blocked"} =>
        \A t \in Threads : hit[t].kind = "return" =>
            \A i \in DOMAIN written : written[i].ret # hit[t].call

IInv == TInv /\ PendingOwned /\ ReturnsFromOwnThread /\ OneEventPerReturn /\ FreshReturns

\* An index of an extended sequence is an old one or the last.
LEMMA AppendFacts ==
    ASSUME NEW S, NEW s \in Seq(S), NEW e \in S
    PROVE  \A i \in DOMAIN Append(s, e) :
              \/ i \in DOMAIN s /\ Append(s, e)[i] = s[i]
              \/ i = Len(s) + 1 /\ Append(s, e)[i] = e /\ i \notin DOMAIN s
  OBVIOUS

\* What an event holds.
LEMMA WrittenTyped ==
    ASSUME TInv, NEW i \in DOMAIN written
    PROVE  /\ written[i] \in Events
           /\ written[i].call \in Calls
           /\ written[i].ret \in Calls \cup {NoCall}
  <1>1. written \in Seq(Events)
    BY DEF TInv, TypeOK
  <1>2. written[i] \in Events
    BY <1>1
  <1> QED
    BY <1>2 DEF Events

\* The events and the pending entries stay sound when the calls only gain
\* what CallKept lets them gain.
LEMMA SoundKept ==
    ASSUME IInv, \A x \in Calls : CallKept(x), UNCHANGED <<pending, written>>
    PROVE  PendingOwned' /\ ReturnsFromOwnThread' /\ OneEventPerReturn'
  <1>1. PendingOwned'
    <2> SUFFICES ASSUME NEW t \in Threads, NEW a \in Sites, pending[t][a] # NoCall
                 PROVE  /\ calls'[pending[t][a]] # Unborn
                        /\ calls'[pending[t][a]].thread = t
                        /\ calls'[pending[t][a]].site = a
                        /\ SyscallName[calls'[pending[t][a]].symbol] \in Registry \cap Filter
      BY DEF PendingOwned, Pending
    <2>1. pending[t][a] \in Calls
      BY DEF IInv, TInv, TypeOK
    <2> QED
      BY <2>1 DEF IInv, PendingOwned, Pending, CallKept, Born
  <1>2. ReturnsFromOwnThread'
    <2> SUFFICES ASSUME NEW i \in DOMAIN written
                 PROVE  /\ calls'[written[i].call] # Unborn
                        /\ calls'[written[i].call].thread = written[i].thread
                        /\ SyscallName[calls'[written[i].call].symbol] \in Registry \cap Filter
                        /\ written[i].ret # NoCall =>
                             /\ calls'[written[i].ret] # Unborn
                             /\ calls'[written[i].ret].status = "returned"
                             /\ calls'[written[i].ret].thread = written[i].thread
                             /\ calls'[written[i].ret].site = calls'[written[i].call].site
      BY DEF ReturnsFromOwnThread, Completed
    <2>1. /\ written[i].call \in Calls
          /\ written[i].ret # NoCall => written[i].ret \in Calls
      BY WrittenTyped DEF IInv
    <2> QED
      BY <2>1 DEF IInv, ReturnsFromOwnThread, Completed, CallKept, Born
  <1>3. OneEventPerReturn'
    BY DEF IInv, OneEventPerReturn, Completed
  <1> QED
    BY <1>1, <1>2, <1>3

\* The handling of a return: the pending entry becomes an event.
LEMMA ReturnSound ==
    ASSUME IInv, pc = "blocked", NEW t \in Threads, HandleReturn(t), UNCHANGED <<calls, hit>>
    PROVE  PendingOwned' /\ ReturnsFromOwnThread' /\ OneEventPerReturn'
  <1> DEFINE a == ReturnAddress(t)
             e == [call |-> pending[t][a], thread |-> t, site |-> a, ret |-> hit[t].call]
  <1>1. /\ a \in Sites
        /\ hit[t].call \in Calls
        /\ hit[t].kind = "return"
        /\ calls[hit[t].call].thread = t
        /\ calls[hit[t].call].site = a
        /\ calls[hit[t].call] # Unborn
        /\ calls[hit[t].call].status = "returned"
    BY FrameFacts, StopHasCall
    DEF HandleReturn, IsReturn, AtReturn, IInv, TInv, HitsSound, Born, ReturnAddress
  <1>2. pending[t][a] \in Calls /\ Pending(t, a)
    BY <1>1 DEF HandleReturn, IsReturn, Pending, IInv, TInv, TypeOK
  <1>3. e \in Events
    BY <1>1, <1>2 DEF Events
  <1>4. written' = Append(written, e) /\ pending' = [pending EXCEPT ![t][a] = NoCall]
    BY DEF HandleReturn, WriteEvent
  <1>5. \A i \in DOMAIN written' :
           \/ i \in DOMAIN written /\ written'[i] = written[i]
           \/ i = Len(written) + 1 /\ written'[i] = e /\ i \notin DOMAIN written
    BY <1>3, <1>4, AppendFacts DEF IInv, TInv, TypeOK
  <1>6. PendingOwned'
    BY <1>1, <1>4 DEF IInv, TInv, TypeOK, PendingOwned, Pending
  <1>7. /\ calls[e.call] # Unborn
        /\ calls[e.call].thread = t
        /\ calls[e.call].site = a
        /\ SyscallName[calls[e.call].symbol] \in Registry \cap Filter
    BY <1>1, <1>2 DEF IInv, PendingOwned
  <1>8. ReturnsFromOwnThread'
    BY <1>1, <1>5, <1>7 DEF IInv, ReturnsFromOwnThread, Completed
  <1>9. \A i \in DOMAIN written : written[i].ret # e.ret
    BY <1>1 DEF IInv, FreshReturns
  <1>10. OneEventPerReturn'
    BY <1>5, <1>9 DEF IInv, OneEventPerReturn, Completed
  <1> QED
    BY <1>6, <1>8, <1>10

\* The handling of an entry: an entry is filed, or written without a return.
LEMMA EntrySound ==
    ASSUME IInv, NEW t \in Threads, HandleEntry(t), UNCHANGED <<calls, hit>>
    PROVE  PendingOwned' /\ ReturnsFromOwnThread' /\ OneEventPerReturn'
  <1> DEFINE a == ReturnAddress(t)
             c == hit[t].call
             e == [call |-> c, thread |-> t, site |-> a, ret |-> NoCall]
  <1>1. /\ a \in Sites
        /\ c \in Calls
        /\ calls[c] \in CallRecords
        /\ calls[c].thread = t
        /\ calls[c].site = a
        /\ SyscallName[calls[c].symbol] \in Registry \cap Filter
    BY FrameFacts, StopHasCall
    DEF HandleEntry, IsEntry, ShouldTrace, FrameSymbol, IInv, ReturnAddress
  <1>2. calls[c] # Unborn
    BY <1>1, RecordFacts
  <1>3. CASE a \in Legible
    <2>1. pending' = [pending EXCEPT ![t][a] = c] /\ UNCHANGED written
      BY <1>3 DEF HandleEntry
    <2>2. PendingOwned'
      BY <1>1, <1>2, <2>1 DEF IInv, TInv, TypeOK, PendingOwned, Pending
    <2> QED
      BY <2>1, <2>2 DEF IInv, ReturnsFromOwnThread, OneEventPerReturn, Completed
  <1>4. CASE a \notin Legible
    <2>1. written' = Append(written, e) /\ UNCHANGED pending
      BY <1>4 DEF HandleEntry, WriteEvent
    <2>2. e \in Events
      BY <1>1 DEF Events
    <2>3. \A i \in DOMAIN written' :
             \/ i \in DOMAIN written /\ written'[i] = written[i]
             \/ i = Len(written) + 1 /\ written'[i] = e /\ i \notin DOMAIN written
      BY <2>1, <2>2, AppendFacts DEF IInv, TInv, TypeOK
    <2>4. PendingOwned'
      BY <2>1 DEF IInv, PendingOwned, Pending
    <2>5. ReturnsFromOwnThread'
      BY <1>1, <1>2, <2>3 DEF IInv, ReturnsFromOwnThread, Completed
    <2>6. OneEventPerReturn'
      BY <2>3 DEF IInv, OneEventPerReturn, Completed
    <2> QED
      BY <2>4, <2>5, <2>6
  <1> QED
    BY <1>3, <1>4

\* The inductive invariant holds initially.
LEMMA SoundInit == Init => IInv
  <1> SUFFICES ASSUME Init
               PROVE  IInv
    OBVIOUS
  <1>1. PendingOwned
    BY DEF Init, PendingOwned, Pending
  <1>2. DOMAIN written = {}
    BY DEF Init
  <1> QED
    BY <1>1, <1>2, TypeInit
    DEF IInv, ReturnsFromOwnThread, OneEventPerReturn, FreshReturns

\* Every step preserves the inductive invariant.
LEMMA SoundNext == IInv /\ [Next]_vars => IInv'
  <1> SUFFICES ASSUME IInv, [Next]_vars
               PROVE  IInv'
    OBVIOUS
  <1>0. TInv /\ TInv'
    BY TypeNext DEF IInv
  <1>1. ASSUME UNCHANGED <<calls, pending, written>>
        PROVE  PendingOwned' /\ ReturnsFromOwnThread' /\ OneEventPerReturn'
    <2>1. \A x \in Calls : CallKept(x)
      BY <1>1 DEF CallKept, Born
    <2> QED
      BY <1>1, <2>1, SoundKept
  <1>2. CASE Launch
    BY <1>0, <1>1, <1>2 DEF Launch, IInv, FreshReturns
  <1>3. CASE Attach
    BY <1>0, <1>1, <1>3 DEF Attach, Leave, IInv, FreshReturns
  <1>4. CASE Wake
    <2>1. FreshReturns'
      BY <1>4 DEF Wake, NoteSigint, EndIfOver, Leave, FreshReturns
    <2>2. CASE UNCHANGED <<oneshots, pending, written>>
      BY <1>0, <1>1, <1>4, <2>1, <2>2 DEF Wake, NoteSigint, EndIfOver, IInv
    <2>3. CASE proc = "stopped" /\ HandleStop(selected)
      <3>1. selected \in Threads /\ pc = "blocked" /\ UNCHANGED <<calls, hit>>
        BY <1>0, <1>4, <2>3 DEF Wake, NoteSigint, EndIfOver, TInv, SelectedStopped
      <3>2. CASE IgnoreStop(selected)
        BY <1>0, <1>1, <2>1, <3>1, <3>2 DEF IgnoreStop, IInv
      <3> QED
        BY <1>0, <2>1, <2>3, <3>1, <3>2, ReturnSound, EntrySound DEF HandleStop, IInv
    <2> QED
      BY <1>4, <2>2, <2>3 DEF Wake, NoteSigint, EndIfOver
  <1>5. CASE Continue
    BY <1>0, <1>1, <1>5, StopFacts DEF Continue, Resume, IInv, FreshReturns
  <1>6. CASE Quit
    BY <1>0, <1>1, <1>6 DEF Quit, Leave, debuggeeVars, IInv, FreshReturns
  <1>7. CASE Finish
    BY <1>0, <1>1, <1>7 DEF Finish, IInv, FreshReturns
  <1>8. CASE Interrupt
    BY <1>0, <1>1, <1>8 DEF Interrupt, debuggeeVars, IInv, FreshReturns
  <1>9. CASE Target
    <2>1. UNCHANGED <<pc, pending, written>>
      BY <1>9, TargetCases DEF tracerVars
    <2>2. PendingOwned' /\ ReturnsFromOwnThread' /\ OneEventPerReturn'
      BY <1>0, <1>9, <2>1, TargetEffect, SoundKept
    <2>3. FreshReturns'
      <3> SUFFICES ASSUME pc \in {"start", "blocked"},
                          NEW t \in Threads, hit'[t].kind = "return",
                          NEW i \in DOMAIN written
                   PROVE  written[i].ret # hit'[t].call
        BY <2>1 DEF FreshReturns
      <3>1. CASE hit'[t] = hit[t]
        BY <3>1 DEF IInv, FreshReturns
      <3>2. CASE \E c \in Calls : hit'[t].call = c /\ calls[c].status = "live"
        <4>1. written[i].ret # NoCall => calls[written[i].ret].status = "returned"
          BY DEF IInv, ReturnsFromOwnThread, Completed
        <4> QED
          BY <3>2, <4>1, DebuggeeAssumption
      <3> QED
        BY <1>0, <1>9, <3>1, <3>2, TargetEffect
    <2> QED
      BY <1>0, <2>2, <2>3 DEF IInv
  <1>10. CASE UNCHANGED vars
    BY <1>0, <1>1, <1>10 DEF vars, IInv, FreshReturns
  <1> QED
    BY <1>2, <1>3, <1>4, <1>5, <1>6, <1>7, <1>8, <1>9, <1>10 DEF Next, Loop

\* A pending entry is always filed under its own thread and return address,
\* and is of a call the filter lets through.
THEOREM PendingIsOwned == Spec => []PendingOwned
  <1>1. IInv => PendingOwned
    BY DEF IInv
  <1> QED
    BY <1>1, SoundInit, SoundNext, PTL DEF Spec

\* A return value in the trace always comes from the thread and the call
\* site of the arguments it is shown with.
THEOREM ReturnsAreOwn == Spec => []ReturnsFromOwnThread
  <1>1. IInv => ReturnsFromOwnThread
    BY DEF IInv
  <1> QED
    BY <1>1, SoundInit, SoundNext, PTL DEF Spec

\* No return is shown twice.
THEOREM ReturnsAreShownOnce == Spec => []OneEventPerReturn
  <1>1. IInv => OneEventPerReturn
    BY DEF IInv
  <1> QED
    BY <1>1, SoundInit, SoundNext, PTL DEF Spec

\* Only a step of its own thread, at its own return address, removes or
\* replaces a pending entry.
THEOREM PendingIsLeft == Spec => PendingLeftToItsThread
  <1> DEFINE Left == \A t \in Threads, a \in Sites :
                        Pending(t, a) /\ pending'[t][a] # pending[t][a] =>
                           /\ selected = t
                           /\ hit[t].call # NoCall
                           /\ calls[hit[t].call].site = a
  <1>1. TInv /\ [Next]_vars => [Left]_vars
    <2> SUFFICES ASSUME TInv, Next
                 PROVE  Left
      OBVIOUS
    <2>1. CASE UNCHANGED pending
      BY <2>1
    <2>2. CASE Wake /\ proc = "stopped" /\ HandleStop(selected)
      <3>1. selected \in Threads
        BY <2>2 DEF TInv, SelectedStopped
      <3>2. pending \in [Threads -> [Sites -> Calls \cup {NoCall}]]
        BY DEF TInv, TypeOK
      <3>3. CASE HandleReturn(selected)
        <4>1. hit[selected].call # NoCall /\ ReturnAddress(selected) \in Sites
          BY <3>1, <3>3, StopHasCall, FrameFacts DEF HandleReturn
        <4> QED
          BY <3>1, <3>2, <3>3, <4>1 DEF HandleReturn, ReturnAddress
      <3>4. CASE HandleEntry(selected)
        <4>1. hit[selected].call # NoCall /\ ReturnAddress(selected) \in Sites
          BY <3>1, <3>4, StopHasCall, FrameFacts DEF HandleEntry
        <4> QED
          BY <3>1, <3>2, <3>4, <4>1 DEF HandleEntry, ReturnAddress
      <3>5. CASE IgnoreStop(selected)
        BY <3>5 DEF IgnoreStop
      <3> QED
        BY <2>2, <3>3, <3>4, <3>5 DEF HandleStop
    <2>3. Wake => UNCHANGED pending \/ (proc = "stopped" /\ HandleStop(selected))
      BY DEF Wake, NoteSigint, EndIfOver
    <2>4. Target => UNCHANGED pending
      BY TargetCases DEF tracerVars
    <2>5. Launch \/ Attach \/ Continue \/ Quit \/ Finish \/ Interrupt => UNCHANGED pending
      BY DEF Launch, Attach, Continue, Quit, Finish, Interrupt
    <2> QED
      BY <2>1, <2>2, <2>3, <2>4, <2>5 DEF Next, Loop
  <1> QED
    BY <1>1, TypeInit, TypeNext, PTL DEF Spec, PendingLeftToItsThread
=============================================================================
