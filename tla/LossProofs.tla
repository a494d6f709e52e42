----------------------------- MODULE LossProofs -----------------------------
(***************************************************************************)
(* Why a call may be absent from the trace: LostOnlyIfExcused of Tracer,   *)
(* for every number of threads, calls, call sites and symbols, with calls  *)
(* inside calls, longjmp, signals and simultaneous stops.                  *)
(***************************************************************************)
EXTENDS TracerProofs

Selected(c) == SyscallName[calls[c].symbol] \in Registry \cap Filter
Tracing     == pc \notin {"returned", "finished"}
Waiting     == pc \in {"start", "blocked"}

\* The call is the one its own key of pending_syscalls holds.
FiledAt(c) == pending[calls[c].thread][calls[c].site] = c

-----------------------------------------------------------------------------
\* The three excuses, in a form that no later step takes back.

Shared(c) ==
    \E d \in Calls \ {c} :
        Born(d) /\ calls[d].site = calls[c].site /\ Overlap(c, d)

Nested(c) ==
    /\ calls[c].entry \in Dunder
    /\ \E d \in Calls \ {c} : <<c, d>> \in beside

-----------------------------------------------------------------------------
\* The history of calls: who began while whom was in progress.
OverBorn    == \A c \in Calls : Born(c) => \A d \in calls[c].over : Born(d)
LiveOverlap == \A c, d \in Live : c # d => Overlap(c, d)

\* A thread that stops at an entry or by a signal is in its innermost call.
StopsInnermost ==
    \A t \in Threads : hit[t].kind # "return" /\ hit[t].call # NoCall =>
        hit[t].call \in Innermost(t)

Unarmed == pc = "start" => ~armed

\* Of several stops at once, those that are not selected are missed.
OthersMissed ==
    Waiting /\ proc = "stopped" =>
        \A t \in Threads \ {selected} :
            hit[t].kind \in {"entry", "return"} => hit[t].call \in missed

\* A call that was filed before another one came back overlaps with it.
ReturnsOverlap ==
    Waiting =>
        \A t \in Threads : hit[t].kind = "return" =>
            \A c \in Live : FiledAt(c) => Overlap(c, hit[t].call)

\* A call in progress that is filed will stop at its return, unless another
\* call with its return address took the breakpoint.
FiledArmed ==
    Tracing => \A c \in Live : FiledAt(c) => calls[c].site \in oneshots \/ Shared(c)

FiledReturned ==
    Tracing => \A c \in Calls : calls[c].status = "returned" /\ FiledAt(c) =>
        \/ Shared(c)
        \/ c \in missed
        \/ Waiting /\ hit[calls[c].thread] = [kind |-> "return", call |-> c]

\* What has become of a call that the filter lets through.
Fate(c) ==
    \/ Wrote(c)
    \/ c \in missed
    \/ Shared(c)
    \/ Nested(c)
    \/ FiledAt(c)
    \/ /\ Waiting
       /\ hit[calls[c].thread] = [kind |-> "entry", call |-> c]
       /\ calls[c].symbol = calls[c].entry

Fates ==
    Tracing => \A c \in Calls :
        Born(c) /\ calls[c].status # "abandoned" /\ Selected(c) => Fate(c)

Histories == OverBorn /\ LiveOverlap /\ StopsInnermost
Stopping  == Unarmed /\ OthersMissed /\ ReturnsOverlap
Filing    == FiledArmed /\ FiledReturned /\ Fates

LInv == IInv /\ Histories /\ Stopping /\ Filing

-----------------------------------------------------------------------------
\* What a step of the target does to a call, to a call that begins, and to a
\* thread that stops.

Grows(c) ==
    Born(c) =>
        /\ calls'[c].over = calls[c].over
        /\ calls[c].status # "live" => calls'[c].status = calls[c].status
        /\ hit[calls[c].thread] # NoStop =>
              calls'[c].status = calls[c].status /\ calls'[c].symbol = calls[c].symbol
        /\ (calls'[c].status = "returned" /\ calls[c].status # "returned") =>
              \/ calls[c].site \notin oneshots
              \/ hit'[calls[c].thread] = [kind |-> "return", call |-> c]

Begins(c) ==
    ~Born(c) /\ Born(c)' =>
        /\ calls'[c].status = "live"
        /\ calls'[c].over = Live
        /\ calls'[c].symbol = calls'[c].entry
        /\ hit[calls'[c].thread] = NoStop
        /\ IF armed THEN hit'[calls'[c].thread] = [kind |-> "entry", call |-> c]
                    ELSE c \in missed'
        /\ \A d \in Calls : ~Born(d) /\ Born(d)' => d = c

Stopped(t) ==
    hit'[t] # hit[t] =>
        /\ hit[t] = NoStop
        /\ hit'[t].kind # "return" /\ hit'[t].call # NoCall => hit'[t].call \in Innermost(t)'
        /\ hit'[t].kind = "return" =>
              /\ hit'[t].call \in Calls
              /\ calls[hit'[t].call].status = "live"
              /\ calls'[hit'[t].call].status = "returned"

\* A thread calls a function.
LEMMA CallMoves ==
    ASSUME TInv, OverBorn, NEW t \in Threads, NEW c \in Calls, NEW f \in Symbols,
           NEW a \in Sites, Call(t, c, f, a)
    PROVE  /\ \A x \in Calls : Grows(x) /\ Begins(x)
           /\ \A u \in Threads : Stopped(u)
  <1> DEFINE r == [status |-> "live", thread |-> t, entry |-> f, symbol |-> f, site |-> a,
                   over |-> Live]
  <1>1. /\ calls \in [Calls -> CallRecords \cup {Unborn}]
        /\ hit \in [Threads -> Stops \cup {NoStop}]
    BY DEF TInv, TypeOK, DebuggeeTypeOK
  <1>2. calls' = [calls EXCEPT ![c] = r] /\ ~Born(c) /\ hit[t] = NoStop
    BY DEF Call, Born, Runs
  <1>3. /\ r.status = "live" /\ r.over = Live /\ r.thread = t /\ r.symbol = r.entry
    OBVIOUS
  <1> HIDE DEF r
  <1>4. calls'[c] = r /\ \A x \in Calls \ {c} : calls'[x] = calls[x]
    BY <1>1, <1>2
  <1>5. \/ armed /\ hit' = [hit EXCEPT ![t] = [kind |-> "entry", call |-> c]]
        \/ ~armed /\ hit' = hit /\ c \in missed'
    BY DEF Call
  <1>6. \A x \in Calls : Grows(x)
    BY <1>2, <1>4 DEF Grows, Born
  <1>7. \A x \in Calls : Begins(x)
    <2>1. armed => hit'[t] = [kind |-> "entry", call |-> c]
      BY <1>1, <1>5
    <2>2. ~armed => c \in missed'
      BY <1>5
    <2>3. \A x \in Calls : ~Born(x) /\ Born(x)' => x = c
      BY <1>4 DEF Born
    <2> QED
      BY <1>2, <1>3, <1>4, <2>1, <2>2, <2>3 DEF Begins
  <1>8. c \in Innermost(t)'
    <2>1. c \in LiveOn(t)'
      BY <1>3, <1>4 DEF LiveOn, Live
    <2>2. ASSUME NEW d \in Calls
          PROVE  c \notin calls'[d].over \/ d \notin Live'
      <3>1. CASE d = c
        BY <1>2, <1>3, <1>4, <3>1 DEF Live, Born, Unborn
      <3>2. CASE d # c
        <4>1. d \in Live' => Born(d)
          BY <1>4, <3>2 DEF Live, Born, Unborn
        <4> QED
          BY <1>2, <1>4, <3>2, <4>1 DEF OverBorn
      <3> QED
        BY <3>1, <3>2
    <2> QED
      BY <2>1, <2>2 DEF Innermost, LiveOn, Live
  <1>9. \A u \in Threads :
           hit'[u] = hit[u] \/ (u = t /\ hit'[u] = [kind |-> "entry", call |-> c])
    BY <1>1, <1>5
  <1>10. \A u \in Threads : Stopped(u)
    BY <1>2, <1>8, <1>9 DEF Stopped
  <1> QED
    BY <1>6, <1>7, <1>10

\* A wrapper branches to its implementation.
LEMMA BranchMoves ==
    ASSUME TInv, NEW t \in Threads, NEW c \in Calls, NEW g \in Symbols, Branch(t, c, g)
    PROVE  /\ \A x \in Calls : Grows(x) /\ Begins(x)
           /\ \A u \in Threads : Stopped(u)
  <1> DEFINE r == [calls[c] EXCEPT !.symbol = g]
  <1>1. /\ DebuggeeTypeOK
        /\ calls \in [Calls -> CallRecords \cup {Unborn}]
        /\ hit \in [Threads -> Stops \cup {NoStop}]
    BY DEF TInv, TypeOK, DebuggeeTypeOK
  <1>2. /\ calls[c] \in CallRecords
        /\ calls[c].status = "live"
        /\ calls[c].thread = t
        /\ c \in Innermost(t)
        /\ hit[t] = NoStop
    BY <1>1, InnermostFacts, BornRecord DEF Branch, Runs
  <1>3. /\ r.status = calls[c].status
        /\ r.over = calls[c].over
        /\ r.thread = calls[c].thread
    BY <1>2 DEF CallRecords
  <1>4. calls' = [calls EXCEPT ![c] = r]
    BY DEF Branch
  <1> HIDE DEF r
  <1>5. calls'[c] = r /\ \A x \in Calls \ {c} : calls'[x] = calls[x]
    BY <1>1, <1>4
  <1>6. \A x \in Calls : Grows(x)
    <2> SUFFICES ASSUME NEW x \in Calls
                 PROVE  Grows(x)
      OBVIOUS
    <2>1. CASE x = c
      BY <1>2, <1>3, <1>4, <1>5, <2>1 DEF Grows
    <2>2. CASE x # c
      BY <1>5, <2>2 DEF Grows
    <2> QED
      BY <2>1, <2>2
  <1>7. Born(c)
    BY <1>2, RecordFacts DEF Born
  <1>8. \A x \in Calls : Begins(x)
    BY <1>5, <1>7 DEF Begins, Born
  <1>9. \A x \in Calls : calls'[x].status = calls[x].status /\ calls'[x].over = calls[x].over
                         /\ calls'[x].thread = calls[x].thread
    BY <1>3, <1>5
  <1>10. c \in Innermost(t)'
    BY <1>2, <1>9 DEF Innermost, LiveOn, Live
  <1>11. hit' = hit \/ hit' = [hit EXCEPT ![t] = [kind |-> "entry", call |-> c]]
    BY DEF Branch
  <1>12. \A u \in Threads :
           hit'[u] = hit[u] \/ (u = t /\ hit'[u] = [kind |-> "entry", call |-> c])
    BY <1>1, <1>11
  <1>13. \A u \in Threads : Stopped(u)
    BY <1>2, <1>10, <1>12 DEF Stopped
  <1> QED
    BY <1>6, <1>8, <1>13

\* A call returns or is abandoned.
LEMMA EndMoves ==
    ASSUME TInv, NEW t \in Threads, NEW c \in Calls, NEW s \in {"returned", "abandoned"},
           Runs(t), c \in Innermost(t),
           calls' = [calls EXCEPT ![c].status = s],
           hit' = IF s = "returned" /\ calls[c].site \in oneshots
                  THEN [hit EXCEPT ![t] = [kind |-> "return", call |-> c]]
                  ELSE hit
    PROVE  /\ \A x \in Calls : Grows(x) /\ Begins(x)
           /\ \A u \in Threads : Stopped(u)
  <1> DEFINE r == [calls[c] EXCEPT !.status = s]
  <1>1. /\ DebuggeeTypeOK
        /\ calls \in [Calls -> CallRecords \cup {Unborn}]
        /\ hit \in [Threads -> Stops \cup {NoStop}]
    BY DEF TInv, TypeOK, DebuggeeTypeOK
  <1>2. /\ calls[c] \in CallRecords
        /\ calls[c].status = "live"
        /\ calls[c].thread = t
        /\ hit[t] = NoStop
    BY <1>1, InnermostFacts, BornRecord DEF Runs
  <1>3. /\ r.status = s
        /\ r.over = calls[c].over
        /\ r.symbol = calls[c].symbol
    BY <1>2 DEF CallRecords
  <1>4. calls' = [calls EXCEPT ![c] = r]
    OBVIOUS
  <1> HIDE DEF r
  <1>5. calls'[c] = r /\ \A x \in Calls \ {c} : calls'[x] = calls[x]
    BY <1>1, <1>4
  <1>6. s = "returned" /\ calls[c].site \in oneshots =>
            hit'[t] = [kind |-> "return", call |-> c]
    BY <1>1
  <1>7. \A x \in Calls : Grows(x)
    <2> SUFFICES ASSUME NEW x \in Calls
                 PROVE  Grows(x)
      OBVIOUS
    <2>1. CASE x = c
      BY <1>2, <1>3, <1>5, <1>6, <2>1 DEF Grows
    <2>2. CASE x # c
      BY <1>5, <2>2 DEF Grows
    <2> QED
      BY <2>1, <2>2
  <1>8. Born(c)
    BY <1>2, RecordFacts DEF Born
  <1>9. \A x \in Calls : Begins(x)
    BY <1>5, <1>8 DEF Begins, Born
  <1>10. \A u \in Threads :
            \/ hit'[u] = hit[u]
            \/ u = t /\ s = "returned" /\ hit'[u] = [kind |-> "return", call |-> c]
    BY <1>1
  <1>11. \A u \in Threads : Stopped(u)
    BY <1>2, <1>3, <1>5, <1>10 DEF Stopped
  <1> QED
    BY <1>7, <1>9, <1>11

\* Any step of the target.
LEMMA TargetMoves ==
    ASSUME TInv, OverBorn, StopsInnermost, Target
    PROVE  /\ \A x \in Calls : CallKept(x) /\ Grows(x) /\ Begins(x)
           /\ \A u \in Threads : Stopped(u)
           /\ missed \subseteq missed'
  <1>1. ASSUME UNCHANGED <<calls, hit>>
        PROVE  /\ \A x \in Calls : Grows(x) /\ Begins(x)
               /\ \A u \in Threads : Stopped(u)
    BY <1>1 DEF Grows, Begins, Stopped, Born
  <1>2. ASSUME NEW t \in Threads, Signal(t)
        PROVE  /\ \A x \in Calls : Grows(x) /\ Begins(x)
               /\ \A u \in Threads : Stopped(u)
    <2>1. /\ UNCHANGED calls
          /\ hit[t] = NoStop
          /\ hit \in [Threads -> Stops \cup {NoStop}]
      BY <1>2 DEF Signal, Runs, TInv, TypeOK, DebuggeeTypeOK
    <2>2. \A x \in Calls : Grows(x) /\ Begins(x)
      BY <2>1 DEF Grows, Begins, Born
    <2>3. PICK s : /\ hit' = [hit EXCEPT ![t] = s]
                   /\ s.kind = "signal"
                   /\ s.call # NoCall => s.call \in Innermost(t)
      <3>1. CASE hit' = [hit EXCEPT ![t] = [kind |-> "signal", call |-> NoCall]]
        <4> WITNESS [kind |-> "signal", call |-> NoCall]
        <4> QED
          BY <3>1
      <3>2. ASSUME NEW c \in Innermost(t),
                   hit' = [hit EXCEPT ![t] = [kind |-> "signal", call |-> c]]
            PROVE  \E s : /\ hit' = [hit EXCEPT ![t] = s]
                          /\ s.kind = "signal"
                          /\ s.call # NoCall => s.call \in Innermost(t)
        <4> WITNESS [kind |-> "signal", call |-> c]
        <4> QED
          BY <3>2
      <3> QED
        BY <1>2, <3>1, <3>2 DEF Signal
    <2>4. \A u \in Threads : hit'[u] = hit[u] \/ (u = t /\ hit'[u] = s)
      BY <2>1, <2>3
    <2>5. Innermost(t)' = Innermost(t)
      BY <2>1 DEF Innermost, LiveOn, Live
    <2>6. \A u \in Threads : Stopped(u)
      BY <2>1, <2>3, <2>4, <2>5 DEF Stopped
    <2> QED
      BY <2>2, <2>6
  <1>3. ASSUME NEW t \in Threads, NEW c \in Calls, Return(t, c) \/ Abandon(t, c)
        PROVE  /\ \A x \in Calls : Grows(x) /\ Begins(x)
               /\ \A u \in Threads : Stopped(u)
    BY <1>3, EndMoves DEF Return, Abandon
  <1>4. /\ \A x \in Calls : Grows(x) /\ Begins(x)
        /\ \A u \in Threads : Stopped(u)
    BY <1>1, <1>2, <1>3, TargetCases, CallMoves, BranchMoves DEF Halt, Die
  <1>5. missed \subseteq missed'
    BY TargetCases DEF Call, Branch, Return, Abandon, Signal, Halt, Die
  <1> QED
    BY <1>4, <1>5, TargetEffect

-----------------------------------------------------------------------------
\* The history of calls and the stops, under each step.

LEMMA HistoriesKept ==
    ASSUME Histories, UNCHANGED <<calls, hit>>
    PROVE  Histories'
  BY DEF Histories, OverBorn, LiveOverlap, StopsInnermost, Live, LiveOn, Innermost, Overlap,
         Born

LEMMA HistoriesTarget ==
    ASSUME TInv, Histories, Target
    PROVE  Histories'
  <1>1. /\ \A x \in Calls : CallKept(x) /\ Grows(x) /\ Begins(x)
        /\ \A u \in Threads : Stopped(u)
    BY TargetMoves DEF Histories
  <1>2. /\ calls \in [Calls -> CallRecords \cup {Unborn}]
        /\ calls' \in [Calls -> CallRecords \cup {Unborn}]
        /\ \A x \in Calls : Born(x) => calls[x].over \subseteq Calls
    BY TargetEffect, RecordFacts DEF TInv, TypeOK, DebuggeeTypeOK, Born
  <1>3. \A x \in Calls : calls'[x].status = "live" => Born(x)'
    BY DEF Born, Unborn
  <1>4. \A x \in Calls : Born(x) /\ x \in Live' => x \in Live
    BY <1>1 DEF Grows, Live
  <1>5. OverBorn'
    <2> SUFFICES ASSUME NEW c \in Calls, Born(c)', NEW d \in calls'[c].over
                 PROVE  Born(d)'
      BY DEF OverBorn
    <2>1. CASE Born(c)
      BY <1>1, <1>2, <2>1 DEF Histories, OverBorn, Grows, CallKept
    <2>2. CASE ~Born(c)
      <3>1. d \in Live
        BY <1>1, <2>2 DEF Begins
      <3>2. d \in Calls /\ Born(d)
        BY <3>1 DEF Live, Born, Unborn
      <3> QED
        BY <1>1, <3>2 DEF CallKept
    <2> QED
      BY <2>1, <2>2
  <1>6. LiveOverlap'
    <2> SUFFICES ASSUME NEW c \in Live', NEW d \in Live', c # d
                 PROVE  c \in calls'[d].over \/ d \in calls'[c].over
      BY DEF LiveOverlap, Overlap
    <2>0. c \in Calls /\ d \in Calls /\ Born(c)' /\ Born(d)'
      BY <1>3 DEF Live
    <2>1. CASE Born(c) /\ Born(d)
      BY <1>1, <1>4, <2>0, <2>1 DEF Histories, LiveOverlap, Overlap, Grows
    <2>2. CASE Born(c) /\ ~Born(d)
      BY <1>1, <1>4, <2>0, <2>2 DEF Begins
    <2>3. CASE ~Born(c) /\ Born(d)
      BY <1>1, <1>4, <2>0, <2>3 DEF Begins
    <2> QED
      BY <1>1, <2>0, <2>1, <2>2, <2>3 DEF Begins
  <1>7. StopsInnermost'
    <2> SUFFICES ASSUME NEW t \in Threads, hit'[t].kind # "return", hit'[t].call # NoCall
                 PROVE  hit'[t].call \in Innermost(t)'
      BY DEF StopsInnermost
    <2>1. CASE hit'[t] # hit[t]
      BY <1>1, <2>1 DEF Stopped
    <2>2. CASE hit'[t] = hit[t]
      <3> DEFINE c == hit[t].call
      <3>1. c \in Innermost(t) /\ hit[t] # NoStop
        BY <2>2, StopFacts DEF Histories, StopsInnermost
      <3>2. /\ c \in Calls /\ calls[c].status = "live" /\ calls[c].thread = t
            /\ Born(c)
        BY <3>1 DEF Innermost, LiveOn, Live, Born, Unborn
      <3>3. c \in LiveOn(t)'
        BY <1>1, <3>1, <3>2 DEF Grows, CallKept, LiveOn, Live
      <3>4. ASSUME NEW d \in LiveOn(t)'
            PROVE  c \notin calls'[d].over
        <4>1. d \in Calls /\ d \in Live' /\ calls'[d].thread = t /\ Born(d)'
          BY <1>3 DEF LiveOn, Live
        <4>2. Born(d)
          BY <1>1, <3>1, <4>1 DEF Begins
        <4>3. d \in LiveOn(t)
          BY <1>1, <1>4, <4>1, <4>2 DEF LiveOn, CallKept
        <4> QED
          BY <1>1, <3>1, <4>1, <4>2, <4>3 DEF Innermost, Grows
      <3> QED
        BY <2>2, <3>3, <3>4 DEF Innermost
    <2> QED
      BY <2>1, <2>2
  <1> QED
    BY <1>5, <1>6, <1>7 DEF Histories

LEMMA HistoriesNext ==
    ASSUME TInv, Histories, [Next]_vars
    PROVE  Histories'
  <1>1. CASE UNCHANGED <<calls, hit>>
    BY <1>1, HistoriesKept
  <1>2. CASE Continue
    <2>1. UNCHANGED calls /\ \A t \in Threads : hit'[t] = NoStop
      BY <1>2 DEF Continue, Resume
    <2>2. StopsInnermost'
      BY <2>1, StopFacts DEF StopsInnermost
    <2>3. OverBorn' /\ LiveOverlap'
      BY <2>1 DEF Histories, OverBorn, LiveOverlap, Live, Overlap, Born
    <2> QED
      BY <2>2, <2>3 DEF Histories
  <1>3. CASE Target
    BY <1>3, HistoriesTarget
  <1> QED
    BY <1>1, <1>2, <1>3
    DEF Next, Loop, vars, debuggeeVars, Launch, Attach, Wake, Quit, Finish, Interrupt

\* Which call stays filed, and which stays born, over a step of the target.
LEMMA FiledBefore ==
    ASSUME IInv, Histories, Target, NEW c \in Calls, FiledAt(c)', Born(c)'
    PROVE  /\ Born(c) /\ FiledAt(c)
           /\ calls'[c].thread = calls[c].thread
           /\ calls'[c].site = calls[c].site
           /\ calls[c].thread \in Threads
           /\ calls[c].site \in Sites
  <1>1. calls'[c].thread \in Threads /\ calls'[c].site \in Sites
    <2>1. TInv'
      BY TypeNext DEF IInv, Next
    <2> QED
      BY <2>1, RecordFacts, BornRecord DEF TInv, TypeOK, DebuggeeTypeOK, Born
  <1>2. pending[calls'[c].thread][calls'[c].site] = c
    BY TargetCases DEF FiledAt, tracerVars
  <1>3. Born(c)
    BY <1>1, <1>2, DebuggeeAssumption DEF IInv, PendingOwned, Pending, Born
  <1>4. CallKept(c)
    BY TargetEffect DEF IInv
  <1> QED
    BY <1>1, <1>2, <1>3, <1>4 DEF CallKept, FiledAt

LEMMA StoppingNext ==
    ASSUME IInv, Histories, Stopping, [Next]_vars
    PROVE  Stopping'
  <1>1. Unarmed'
    <2>1. CASE Target
      BY <2>1, TargetCases
      DEF tracerVars, Stopping, Unarmed, Call, Branch, Return, Abandon, Signal, Halt, Die
    <2> QED
      BY <2>1
      DEF Stopping, Unarmed, Next, Loop, vars, debuggeeVars, Launch, Attach, Leave, Wake,
          EndIfOver, Continue, Quit, Finish, Interrupt
  <1>2. OthersMissed'
    <2>1. CASE Target
      <3>1. /\ proc = "running"
            /\ (\E t \in Threads : Halt(t)) \/ Die \/ proc' = proc
        BY <2>1, TargetCases DEF Call, Branch, Return, Abandon, Signal
      <3>2. ASSUME NEW t \in Threads, Halt(t)
            PROVE  OthersMissed'
        BY <3>2 DEF Halt, OthersMissed
      <3>3. Die => proc' # "stopped"
        BY DebuggeeAssumption DEF Die
      <3> QED
        BY <3>1, <3>2, <3>3 DEF OthersMissed
    <2>2. CASE UNCHANGED <<proc, selected, hit, missed>> /\ (Waiting' => Waiting)
      BY <2>2 DEF Stopping, OthersMissed
    <2>3. CASE proc' # "stopped" \/ ~Waiting'
      BY <2>3 DEF OthersMissed
    <2> QED
      BY <2>1, <2>2, <2>3
      DEF Next, Loop, vars, debuggeeVars, Launch, Attach, Leave, Wake,
          EndIfOver, Continue, Resume, Quit, Finish, Interrupt, Waiting
  <1>3. ReturnsOverlap'
    <2>1. CASE Target
      <3>1. /\ UNCHANGED tracerVars
            /\ \A x \in Calls : CallKept(x) /\ Grows(x)
            /\ \A u \in Threads : Stopped(u)
        BY <2>1, TargetCases, TargetMoves DEF IInv, Histories
      <3> SUFFICES ASSUME Waiting, NEW t \in Threads, hit'[t].kind = "return",
                          NEW c \in Live', FiledAt(c)'
                   PROVE  c \in calls'[hit'[t].call].over \/ hit'[t].call \in calls'[c].over
        BY <3>1 DEF ReturnsOverlap, Overlap, Waiting, tracerVars
      <3>2. c \in Calls /\ calls'[c].status = "live" /\ Born(c)'
        BY DEF Live, Born, Unborn
      <3>3. Born(c) /\ FiledAt(c)
        BY <2>1, <3>2, FiledBefore
      <3>4. c \in Live
        BY <3>1, <3>2, <3>3 DEF Grows, Live
      <3> DEFINE d == hit'[t].call
      <3>5. d \in Calls /\ Born(d) /\ Overlap(c, d)
        <4>1. CASE hit'[t] = hit[t]
          <5>1. d \in Calls
            BY <4>1, StopFacts DEF IInv, TInv, TypeOK, DebuggeeTypeOK
          <5> QED
            BY <3>3, <3>4, <4>1, <5>1, DebuggeeAssumption
            DEF Stopping, ReturnsOverlap, IInv, TInv, HitsSound
        <4>2. CASE hit'[t] # hit[t]
          <5>1. d \in Live /\ calls'[d].status = "returned"
            BY <3>1, <4>2 DEF Stopped, Live
          <5> QED
            BY <3>2, <3>4, <5>1 DEF Histories, LiveOverlap, Live, Born, Unborn
        <4> QED
          BY <4>1, <4>2
      <3> QED
        BY <3>1, <3>2, <3>3, <3>5 DEF Overlap, Grows
    <2>2. CASE UNCHANGED <<calls, hit, pending>> /\ (Waiting' => Waiting)
      BY <2>2 DEF Stopping, ReturnsOverlap, Live, FiledAt, Overlap
    <2>3. CASE Continue
      <3>1. \A t \in Threads : hit'[t].kind # "return"
        BY <2>3, StopFacts DEF Continue, Resume
      <3> QED
        BY <3>1 DEF ReturnsOverlap
    <2>4. CASE ~Waiting'
      BY <2>4 DEF ReturnsOverlap
    <2> QED
      BY <2>1, <2>2, <2>3, <2>4
      DEF Next, Loop, vars, debuggeeVars, Launch, Attach, Leave, Wake,
          EndIfOver, Quit, Finish, Interrupt, Waiting
  <1> QED
    BY <1>1, <1>2, <1>3 DEF Stopping

-----------------------------------------------------------------------------
\* The records and the fate of a call, under a step of the target.

\* No excuse is taken back: calls keep what the excuses speak of, and the
\* history only grows.
LEMMA ExcusesKept ==
    ASSUME \A x \in Calls : CallKept(x) /\ (Born(x) => calls'[x].over = calls[x].over),
           beside \subseteq beside',
           NEW c \in Calls, Born(c)
    PROVE  /\ Shared(c) => Shared(c)'
           /\ Nested(c) => Nested(c)'
  <1>1. ASSUME NEW d \in Calls \ {c}, Born(d), calls[d].site = calls[c].site, Overlap(c, d)
        PROVE  Shared(c)'
    <2>1. Born(d)' /\ calls'[d].site = calls'[c].site
      BY <1>1 DEF CallKept
    <2>2. Overlap(c, d)'
      BY <1>1 DEF Overlap
    <2> QED
      BY <2>1, <2>2 DEF Shared
  <1>2. Nested(c) => Nested(c)'
    BY DEF Nested, CallKept
  <1> QED
    BY <1>1, <1>2 DEF Shared

LEMMA TargetExcuses ==
    ASSUME IInv, Histories, Target, NEW c \in Calls, Born(c)
    PROVE  /\ Shared(c) => Shared(c)'
           /\ Nested(c) => Nested(c)'
  <1>1. /\ UNCHANGED beside
        /\ \A x \in Calls : CallKept(x) /\ Grows(x)
    BY TargetCases, TargetMoves DEF IInv, Histories, tracerVars
  <1> QED
    BY <1>1, ExcusesKept DEF Grows

LEMMA FilingTarget ==
    ASSUME LInv, Target
    PROVE  Filing'
  <1>0. IInv /\ TInv /\ Histories /\ Stopping /\ FiledArmed /\ FiledReturned /\ Fates
    BY DEF LInv, IInv, Filing
  <1>1. /\ UNCHANGED tracerVars
        /\ \A x \in Calls : CallKept(x) /\ Grows(x) /\ Begins(x)
        /\ \A u \in Threads : Stopped(u)
        /\ missed \subseteq missed'
    BY <1>0, TargetCases, TargetMoves DEF Histories
  <1>2. Tracing /\ Waiting /\ Tracing' /\ Waiting'
    BY <1>1 DEF Target, tracerVars, Tracing, Waiting
  <1>3. FiledArmed'
    <2> SUFFICES ASSUME NEW c \in Live', FiledAt(c)'
                 PROVE  calls'[c].site \in oneshots' \/ Shared(c)'
      BY DEF FiledArmed
    <2>1. c \in Calls /\ calls'[c].status = "live" /\ Born(c)'
      BY DEF Live, Born, Unborn
    <2>2. Born(c) /\ FiledAt(c) /\ calls'[c].site = calls[c].site
      BY <1>0, <2>1, FiledBefore
    <2>3. c \in Live
      BY <1>1, <2>1, <2>2 DEF Grows, Live
    <2>4. CASE Shared(c)
      BY <1>0, <2>1, <2>2, <2>4, TargetExcuses
    <2>5. CASE calls[c].site \in oneshots'
      BY <2>2, <2>5
    <2>6. ASSUME NEW t \in Threads, Halt(t), calls[c].site \notin oneshots'
          PROVE  Shared(c) \/ calls[c].site \notin oneshots
      <3> SUFFICES ASSUME calls[c].site \in oneshots
                   PROVE  Shared(c)
        OBVIOUS
      <3>1. PICK u \in Threads : hit[u].kind = "return" /\ calls[hit[u].call].site = calls[c].site
        BY <2>6 DEF Halt
      <3>2. Overlap(c, hit[u].call)
        BY <1>0, <1>2, <2>2, <2>3, <3>1 DEF Stopping, ReturnsOverlap
      <3>3. hit[u].call \in Calls
        BY <1>0, <3>1, StopFacts DEF TInv, TypeOK, DebuggeeTypeOK
      <3>4. Born(hit[u].call) /\ hit[u].call # c
        BY <1>0, <2>3, <3>1, <3>3, DebuggeeAssumption DEF TInv, HitsSound, Live
      <3> QED
        BY <3>1, <3>2, <3>3, <3>4 DEF Shared
    <2>7. (\E t \in Threads : Halt(t)) \/ oneshots' = oneshots
      BY TargetCases DEF Call, Branch, Return, Abandon, Signal, Die
    <2>8. calls[c].site \in oneshots \/ Shared(c)
      BY <1>0, <1>2, <2>2, <2>3 DEF FiledArmed
    <2> QED
      BY <2>4, <2>5, <2>6, <2>7, <2>8
  <1>4. FiledReturned'
    <2> SUFFICES ASSUME NEW c \in Calls, calls'[c].status = "returned", FiledAt(c)'
                 PROVE  \/ Shared(c)' \/ c \in missed'
                        \/ hit'[calls'[c].thread] = [kind |-> "return", call |-> c]
      BY <1>2 DEF FiledReturned
    <2>1. Born(c)'
      BY DEF Born, Unborn
    <2>2. /\ Born(c) /\ FiledAt(c)
          /\ calls[c].thread \in Threads
          /\ calls'[c].thread = calls[c].thread
      BY <1>0, <2>1, FiledBefore
    <2>3. Shared(c) => Shared(c)'
      BY <1>0, <2>2, TargetExcuses
    <2>4. CASE calls[c].status = "returned"
      <3>1. \/ Shared(c) \/ c \in missed
            \/ hit[calls[c].thread] = [kind |-> "return", call |-> c]
        BY <1>0, <1>2, <2>2, <2>4 DEF FiledReturned
      <3>2. hit[calls[c].thread] = [kind |-> "return", call |-> c] =>
                hit'[calls[c].thread] = hit[calls[c].thread]
        BY <1>1, <2>2, StopFacts DEF Stopped
      <3> QED
        BY <1>1, <2>2, <2>3, <3>1, <3>2
    <2>5. CASE calls[c].status # "returned"
      <3>1. c \in Live
        BY <1>1, <2>2, <2>5 DEF Grows, Live
      <3>2. calls[c].site \in oneshots \/ Shared(c)
        BY <1>0, <1>2, <2>2, <3>1 DEF FiledArmed
      <3> QED
        BY <1>1, <2>2, <2>3, <2>5, <3>2 DEF Grows
    <2> QED
      BY <2>4, <2>5
  <1>5. Fates'
    <2> SUFFICES ASSUME NEW c \in Calls, Born(c)', calls'[c].status # "abandoned", Selected(c)'
                 PROVE  Fate(c)'
      BY DEF Fates
    <2>1. CASE ~Born(c)
      BY <1>1, <1>2, <2>1 DEF Begins, Fate
    <2>2. CASE Born(c)
      <3>1. /\ calls[c].status # "abandoned"
            /\ calls[c].thread \in Threads
            /\ calls'[c].thread = calls[c].thread
            /\ calls'[c].site = calls[c].site
        BY <1>0, <1>1, <2>2, BornRecord, RecordFacts DEF Grows, CallKept, TInv, TypeOK
      <3>2. Selected(c)
        BY <1>1, <2>2 DEF CallKept, Selected
      <3>3. Fate(c)
        BY <1>0, <1>2, <2>2, <3>1, <3>2 DEF Fates
      <3>4. CASE Wrote(c)
        BY <1>1, <3>4 DEF Wrote, Fate, tracerVars
      <3>5. CASE c \in missed
        BY <1>1, <3>5 DEF Fate
      <3>6. CASE Shared(c) \/ Nested(c)
        BY <1>0, <2>2, <3>6, TargetExcuses DEF Fate
      <3>7. CASE FiledAt(c)
        BY <1>1, <3>1, <3>7 DEF FiledAt, Fate, tracerVars
      <3>8. CASE /\ hit[calls[c].thread] = [kind |-> "entry", call |-> c]
                 /\ calls[c].symbol = calls[c].entry
        <4>1. hit'[calls[c].thread] = hit[calls[c].thread] /\ hit[calls[c].thread] # NoStop
          BY <1>1, <3>1, <3>8, StopFacts DEF Stopped
        <4>2. calls'[c].symbol = calls'[c].entry
          BY <1>1, <2>2, <3>8, <4>1 DEF Grows, CallKept
        <4> QED
          BY <1>2, <3>1, <3>8, <4>1, <4>2 DEF Fate
      <3> QED
        BY <3>3, <3>4, <3>5, <3>6, <3>7, <3>8 DEF Fate
    <2> QED
      BY <2>1, <2>2
  <1> QED
    BY <1>3, <1>4, <1>5 DEF Filing

-----------------------------------------------------------------------------
\* The handlers of a stop.

\* What is written stays, and the last event is the only new one.
LEMMA EventAdded ==
    ASSUME TInv, NEW e \in Events, written' = Append(written, e)
    PROVE  /\ \A c : Wrote(c) => Wrote(c)'
           /\ Wrote(e.call)'
  <1>1. written \in Seq(Events)
    BY DEF TInv, TypeOK
  <1>3. \A i \in DOMAIN written : i \in DOMAIN written' /\ written'[i] = written[i]
    BY <1>1
  <1>4. Len(written) + 1 \in DOMAIN written' /\ written'[Len(written) + 1] = e
    BY <1>1
  <1>5. \A c : Wrote(c) => Wrote(c)'
    BY <1>3 DEF Wrote
  <1>6. Wrote(e.call)'
    BY <1>4 DEF Wrote
  <1> QED
    BY <1>5, <1>6

\* What every handler starts from: the selected thread, stopped in a call of
\* its own or outside any, and the stops of the others missed.
Handling ==
    /\ LInv
    /\ pc = "blocked" /\ proc = "stopped"
    /\ NoteBeside(selected)
    /\ UNCHANGED <<calls, hit, missed>>
    /\ pc' = "handled"

LEMMA AtHandling ==
    ASSUME Handling
    PROVE  /\ IInv /\ TInv /\ Histories /\ Stopping
           /\ FiledArmed /\ FiledReturned /\ Fates
           /\ selected \in Threads
           /\ Waiting /\ Tracing /\ ~Waiting'
           /\ \A x \in Calls : Shared(x)' = Shared(x)
           /\ \A x \in Calls : Nested(x) => Nested(x)'
           /\ \A t \in Threads \ {selected} :
                 hit[t].kind \in {"entry", "return"} => hit[t].call \in missed
  <1>1. /\ IInv /\ TInv /\ Histories /\ Stopping
        /\ FiledArmed /\ FiledReturned /\ Fates
    BY DEF Handling, LInv, IInv, Filing
  <1>2. Waiting /\ Tracing /\ ~Waiting'
    BY DEF Handling, Waiting, Tracing
  <1>3. selected \in Threads
    BY <1>1 DEF Handling, TInv, SelectedStopped
  <1>4. \A x \in Calls : Shared(x)' = Shared(x)
    BY DEF Handling, Shared, Born, Overlap
  <1>5. \A t \in Threads \ {selected} :
            hit[t].kind \in {"entry", "return"} => hit[t].call \in missed
    BY <1>1, <1>2 DEF Handling, Stopping, OthersMissed
  <1>6. \A x \in Calls : Nested(x) => Nested(x)'
    BY DEF Handling, NoteBeside, Nested
  <1> QED
    BY <1>1, <1>2, <1>3, <1>4, <1>5, <1>6

LEMMA ReturnHandled ==
    ASSUME Handling, HandleReturn(selected)
    PROVE  Filing'
  <1>t. PICK t \in Threads : t = selected
    BY AtHandling
  <1>0. /\ IInv /\ TInv /\ Histories /\ Stopping
        /\ FiledArmed /\ FiledReturned /\ Fates
        /\ Waiting /\ Tracing /\ ~Waiting'
        /\ \A x \in Calls : Shared(x)' = Shared(x)
        /\ \A x \in Calls : Nested(x) => Nested(x)'
        /\ HandleReturn(t)
    BY <1>t, AtHandling
  <1>r. PICK r \in Calls : r = hit[t].call
    BY <1>0, FrameFacts, StopHasCall DEF HandleReturn
  <1>a. PICK a \in Sites : a = ReturnAddress(t)
    BY <1>0, FrameFacts, StopHasCall DEF HandleReturn
  <1>1. /\ hit[t].kind = "return"
        /\ calls[r].thread = t
        /\ calls[r].site = a
        /\ calls[r].status = "returned"
    BY <1>0, <1>r, <1>a, FrameFacts, StopHasCall
    DEF HandleReturn, IsReturn, AtReturn, TInv, HitsSound, ReturnAddress
  <1>2. pending[t][a] \in Calls /\ Pending(t, a)
    BY <1>0, <1>1, <1>a DEF HandleReturn, IsReturn, Pending, TInv, TypeOK
  <1>p. PICK p \in Calls : p = pending[t][a]
    BY <1>2
  <1> DEFINE e == [call |-> p, thread |-> t, site |-> a, ret |-> r]
  <1>3. e \in Events
    BY <1>0, <1>1, <1>2 DEF Events
  <1>4. /\ written' = Append(written, e)
        /\ pending' = [pending EXCEPT ![t][a] = NoCall]
        /\ UNCHANGED <<calls, hit, missed, oneshots>>
    BY <1>0, <1>r, <1>a, <1>p DEF HandleReturn, WriteEvent, Handling
  <1>5. e.call = p /\ e.ret = r
    OBVIOUS
  <1> HIDE DEF e
  <1>6. /\ \A c : Wrote(c) => Wrote(c)'
        /\ Wrote(p)'
    BY <1>0, <1>1, <1>3, <1>4, <1>5, EventAdded, DebuggeeAssumption
  <1>7. /\ pending'[t][a] = NoCall
        /\ \A u \in Threads, b \in Sites : (u # t \/ b # a) => pending'[u][b] = pending[u][b]
    BY <1>0, <1>1, <1>4 DEF TInv, TypeOK
  <1>10. ASSUME NEW c \in Calls, Born(c)
         PROVE  /\ calls[c].thread \in Threads /\ calls[c].site \in Sites
                /\ FiledAt(c)' => FiledAt(c) /\ (calls[c].thread # t \/ calls[c].site # a)
                /\ FiledAt(c) => FiledAt(c)' \/ Wrote(c)'
    <2>1. calls[c].thread \in Threads /\ calls[c].site \in Sites
      BY <1>0, <1>10, BornRecord, RecordFacts DEF TInv, TypeOK
    <2> QED
      BY <1>4, <1>6, <1>7, <1>p, <2>1, <1>10, DebuggeeAssumption DEF FiledAt
  <1>11. FiledArmed'
    <2> SUFFICES ASSUME NEW c \in Live', FiledAt(c)'
                 PROVE  calls[c].site \in oneshots \/ Shared(c)'
      BY <1>4 DEF FiledArmed
    <2>1. c \in Live /\ c \in Calls /\ Born(c)
      BY <1>4 DEF Live, Born, Unborn
    <2> QED
      BY <1>0, <1>10, <2>1 DEF FiledArmed
  <1>12. FiledReturned'
    <2> SUFFICES ASSUME NEW c \in Calls, calls[c].status = "returned", FiledAt(c)'
                 PROVE  Shared(c)' \/ c \in missed'
      BY <1>4 DEF FiledReturned
    <2>1. Born(c)
      BY DEF Born, Unborn
    <2>2. FiledAt(c) /\ (calls[c].thread # t \/ calls[c].site # a)
      BY <1>10, <2>1
    <2>3. CASE hit[calls[c].thread] = [kind |-> "return", call |-> c]
      <3>1. calls[c].thread # t
        BY <1>1, <1>r, <2>2, <2>3
      <3> QED
        BY <1>4, <1>10, <2>1, <2>3, <3>1, <1>t, AtHandling
    <2> QED
      BY <1>0, <1>4, <2>2, <2>3 DEF FiledReturned
  <1>13. Fates'
    <2> SUFFICES ASSUME NEW c \in Calls, Born(c), calls[c].status # "abandoned", Selected(c)
                 PROVE  Fate(c)'
      BY <1>4 DEF Fates, Born, Selected
    <2>1. Fate(c)
      BY <1>0 DEF Fates
    <2>2. Nested(c) => Nested(c)'
      BY <1>0
    <2>3. ASSUME hit[calls[c].thread] = [kind |-> "entry", call |-> c]
          PROVE  c \in missed
      <3>1. calls[c].thread # t
        BY <1>1, <2>3
      <3> QED
        BY <1>10, <2>3, <3>1, <1>t, AtHandling
    <2> QED
      BY <1>0, <1>4, <1>6, <1>10, <2>1, <2>2, <2>3 DEF Fate
  <1> QED
    BY <1>11, <1>12, <1>13 DEF Filing

LEMMA EntryHandled ==
    ASSUME Handling, HandleEntry(selected)
    PROVE  Filing'
  <1>t. PICK t \in Threads : t = selected
    BY AtHandling
  <1>0. /\ IInv /\ TInv /\ Histories /\ Stopping
        /\ FiledArmed /\ FiledReturned /\ Fates
        /\ Waiting /\ Tracing /\ ~Waiting'
        /\ \A x \in Calls : Shared(x)' = Shared(x)
        /\ \A x \in Calls : Nested(x) => Nested(x)'
        /\ HandleEntry(t)
    BY <1>t, AtHandling
  <1>e. PICK e \in Calls : e = hit[t].call
    BY <1>0, FrameFacts, StopHasCall DEF HandleEntry
  <1>a. PICK a \in Sites : a = ReturnAddress(t)
    BY <1>0, FrameFacts, StopHasCall DEF HandleEntry
  <1> DEFINE line == [call |-> e, thread |-> t, site |-> a, ret |-> NoCall]
  <1>1. /\ calls[e].thread = t
        /\ calls[e].site = a
        /\ hit[t].kind # "return"
        /\ e \in Innermost(t)
    <2>1. hit[t].kind # "return" /\ e # NoCall
      BY <1>0, <1>e DEF HandleEntry, IsEntry, InSymbol
    <2> QED
      BY <1>0, <1>e, <1>a, <2>1, FrameFacts DEF ReturnAddress, Histories, StopsInnermost
  <1>2. e \in Live /\ calls[e].status = "live" /\ Born(e)
    BY <1>1 DEF Innermost, LiveOn, Live, Born, Unborn
  <1>3. UNCHANGED <<calls, hit, missed>>
    BY DEF Handling
  <1>4. ASSUME NEW c \in Calls, Born(c)
        PROVE  calls[c].thread \in Threads /\ calls[c].site \in Sites
    BY <1>0, <1>4, BornRecord, RecordFacts DEF TInv, TypeOK
  <1>5. ASSUME NEW c \in Calls, hit[calls[c].thread] = [kind |-> "return", call |-> c], Born(c)
        PROVE  c \in missed
    BY <1>1, <1>4, <1>5, <1>t, AtHandling
  <1>6. ASSUME NEW c \in Calls, hit[calls[c].thread] = [kind |-> "entry", call |-> c], Born(c)
        PROVE  c \in missed \/ c = e
    BY <1>1, <1>4, <1>6, <1>e, <1>t, AtHandling
  <1>7. CASE a \in Legible
    <2>1. /\ oneshots' = oneshots \cup {a}
          /\ pending' = [pending EXCEPT ![t][a] = e]
          /\ UNCHANGED written
      BY <1>0, <1>7, <1>e, <1>a DEF HandleEntry
    <2>2. /\ pending'[t][a] = e
          /\ \A u \in Threads, b \in Sites : (u # t \/ b # a) => pending'[u][b] = pending[u][b]
      BY <1>0, <1>1, <2>1 DEF TInv, TypeOK
    <2>7. FiledAt(e)'
      BY <1>1, <1>3, <2>2 DEF FiledAt
    <2>8. ASSUME NEW c \in Calls, Born(c), c # e
          PROVE  /\ FiledAt(c)' => FiledAt(c)
                 /\ FiledAt(c) => \/ FiledAt(c)'
                                  \/ calls[c].thread = t /\ calls[c].site = a
      BY <1>3, <1>4, <2>2, <2>8 DEF FiledAt
    <2>9. FiledArmed'
      <3> SUFFICES ASSUME NEW c \in Live', FiledAt(c)'
                   PROVE  calls[c].site \in oneshots \cup {a} \/ Shared(c)'
        BY <1>3, <2>1 DEF FiledArmed
      <3>1. c \in Live /\ c \in Calls /\ Born(c)
        BY <1>3 DEF Live, Born, Unborn
      <3> QED
        BY <1>0, <1>1, <2>8, <3>1 DEF FiledArmed
    <2>10. FiledReturned'
      <3> SUFFICES ASSUME NEW c \in Calls, calls[c].status = "returned", FiledAt(c)'
                   PROVE  Shared(c)' \/ c \in missed'
        BY <1>3 DEF FiledReturned
      <3>1. Born(c) /\ c # e
        BY <1>2 DEF Born, Unborn
      <3> QED
        BY <1>0, <1>3, <1>5, <2>8, <3>1 DEF FiledReturned
    <2>11. Fates'
      <3> SUFFICES ASSUME NEW c \in Calls, Born(c), calls[c].status # "abandoned", Selected(c)
                   PROVE  Fate(c)'
        BY <1>3 DEF Fates, Born, Selected
      <3>1. Fate(c)
        BY <1>0 DEF Fates
      <3>2. Nested(c) => Nested(c)'
        BY <1>0
      <3>3. Wrote(c) => Wrote(c)'
        BY <2>1 DEF Wrote
      <3>4. ASSUME c # e, FiledAt(c), calls[c].thread = t, calls[c].site = a
            PROVE  Shared(c) \/ c \in missed
        <4>1. CASE calls[c].status = "live"
          <5>1. Overlap(c, e)
            BY <1>0, <1>2, <3>4, <4>1 DEF Histories, LiveOverlap, Live
          <5> QED
            BY <1>1, <1>2, <3>4, <5>1 DEF Shared
        <4>2. CASE calls[c].status = "returned"
          BY <1>0, <1>5, <3>4, <4>2 DEF FiledReturned
        <4> QED
          BY <1>0, <4>1, <4>2, BornRecord, RecordFacts DEF TInv, TypeOK, CallStates
      <3> QED
        BY <1>0, <1>3, <1>6, <2>7, <2>8, <3>1, <3>2, <3>3, <3>4 DEF Fate
    <2> QED
      BY <2>9, <2>10, <2>11 DEF Filing
  <1>8. CASE a \notin Legible
    <2>1. /\ written' = Append(written, line)
          /\ UNCHANGED <<oneshots, pending>>
      BY <1>0, <1>8, <1>e, <1>a DEF HandleEntry, WriteEvent
    <2>2. line \in Events
      BY <1>0, <1>1 DEF Events
    <2>3. line.call = e /\ line.ret = NoCall
      OBVIOUS
    <2> HIDE DEF line
    <2>4. /\ \A c : Wrote(c) => Wrote(c)'
          /\ Wrote(e)'
      BY <1>0, <2>1, <2>2, <2>3, EventAdded
    <2>7. \A c \in Calls : FiledAt(c)' = FiledAt(c)
      BY <1>3, <2>1 DEF FiledAt
    <2>8. FiledArmed'
      BY <1>0, <1>3, <2>1, <2>7 DEF FiledArmed, Live
    <2>9. FiledReturned'
      <3> SUFFICES ASSUME NEW c \in Calls, calls[c].status = "returned", FiledAt(c)
                   PROVE  Shared(c)' \/ c \in missed'
        BY <1>3, <2>7 DEF FiledReturned
      <3>1. Born(c)
        BY DEF Born, Unborn
      <3> QED
        BY <1>0, <1>3, <1>5, <3>1 DEF FiledReturned
    <2>10. Fates'
      <3> SUFFICES ASSUME NEW c \in Calls, Born(c), calls[c].status # "abandoned", Selected(c)
                   PROVE  Fate(c)'
        BY <1>3 DEF Fates, Born, Selected
      <3>1. Fate(c)
        BY <1>0 DEF Fates
      <3>2. Nested(c) => Nested(c)'
        BY <1>0
      <3> QED
        BY <1>0, <1>3, <1>6, <2>4, <2>7, <3>1, <3>2 DEF Fate
    <2> QED
      BY <2>8, <2>9, <2>10 DEF Filing
  <1> QED
    BY <1>7, <1>8

\* A stop that is not handled is of no call the filter lets through, or it
\* is taken for a duplicate: then its call is pending, or came in beside
\* another call that is.
LEMMA StopIgnored ==
    ASSUME Handling, IgnoreStop(selected)
    PROVE  Filing'
  <1> DEFINE t == selected
  <1>0. /\ IInv /\ TInv /\ Histories /\ Stopping
        /\ FiledArmed /\ FiledReturned /\ Fates
        /\ t \in Threads
        /\ Waiting /\ Tracing /\ ~Waiting'
        /\ \A x \in Calls : Shared(x)' = Shared(x)
    BY AtHandling
  <1>1. /\ UNCHANGED <<calls, hit, missed, oneshots, pending, written>>
        /\ ~IsReturn(t) /\ ~IsEntry(t)
    BY DEF Handling, IgnoreStop
  <1>2. \A x \in Calls : Nested(x) => Nested(x)'
    BY AtHandling
  <1>3. \A c \in Calls : /\ FiledAt(c)' = FiledAt(c)
                         /\ Wrote(c)' = Wrote(c)
    BY <1>1 DEF FiledAt, Wrote
  <1>4. FiledArmed'
    BY <1>0, <1>1, <1>3 DEF FiledArmed, Live
  <1>5. FiledReturned'
    <2> SUFFICES ASSUME NEW c \in Calls, calls[c].status = "returned", FiledAt(c)
                 PROVE  Shared(c) \/ c \in missed
      BY <1>0, <1>1, <1>3 DEF FiledReturned
    <2>1. calls[c].thread \in Threads /\ calls[c].site \in Sites
      BY <1>0, BornRecord, RecordFacts DEF TInv, TypeOK
    <2>2. ASSUME hit[calls[c].thread] = [kind |-> "return", call |-> c]
          PROVE  c \in missed
      <3>1. CASE calls[c].thread = t
        BY <1>1, <2>1, <2>2, <3>1, DebuggeeAssumption
        DEF IsReturn, AtReturn, Pending, ReturnAddress, FiledAt
      <3>2. CASE calls[c].thread # t
        BY <2>1, <2>2, <3>2, AtHandling
      <3> QED
        BY <3>1, <3>2
    <2> QED
      BY <1>0, <2>2 DEF FiledReturned
  <1>6. Fates'
    <2> SUFFICES ASSUME NEW c \in Calls, Born(c), calls[c].status # "abandoned", Selected(c)
                 PROVE  Fate(c)'
      BY <1>1 DEF Fates, Born, Selected
    <2>1. Fate(c)
      BY <1>0 DEF Fates
    <2>2. ASSUME hit[calls[c].thread] = [kind |-> "entry", call |-> c],
                 calls[c].symbol = calls[c].entry
          PROVE  c \in missed \/ FiledAt(c) \/ Nested(c)'
      <3>0. calls[c].thread \in Threads
        BY <1>0, BornRecord, RecordFacts DEF TInv, TypeOK
      <3>1. CASE calls[c].thread # t
        BY <2>2, <3>0, <3>1, AtHandling
      <3>2. CASE calls[c].thread = t
        <4>1. hit[t].kind = "entry" /\ hit[t].call = c /\ c # NoCall
          BY <2>2, <3>2, DebuggeeAssumption
        <4>2. TakenForDuplicate(t)
          BY <1>1, <4>1
          DEF IsEntry, IsReturn, AtReturn, InSymbol, FrameSymbol, ShouldTrace, Selected
        <4>3. PICK b \in Sites : Pending(t, b)
          BY <4>2 DEF TakenForDuplicate, ThreadHasPending
        <4> DEFINE d == pending[t][b]
        <4>4. d \in Calls /\ Born(d) /\ calls[d].thread = t /\ calls[d].site = b
          BY <1>0, <4>3 DEF IInv, TInv, TypeOK, PendingOwned, Pending, Born
        <4>5. CASE d = c
          BY <4>4, <4>5 DEF FiledAt
        <4>6. CASE d # c
          <5>1. AtEntry(t) /\ calls[c].entry \in Dunder
            BY <2>2, <4>1, <4>2 DEF AtEntry, FrameSymbol, TakenForDuplicate
          <5>2. <<c, d>> \in beside'
            BY <4>1, <4>3, <5>1 DEF Handling, NoteBeside, PendingOn
          <5> QED
            BY <1>1, <4>4, <4>6, <5>1, <5>2 DEF Nested
        <4> QED
          BY <4>5, <4>6
      <3> QED
        BY <3>1, <3>2
    <2> QED
      BY <1>0, <1>1, <1>2, <1>3, <2>1, <2>2 DEF Fate
  <1> QED
    BY <1>4, <1>5, <1>6 DEF Filing

-----------------------------------------------------------------------------
\* The invariant, and what it says of the trace.

LEMMA LossInit == Init => LInv
  <1> SUFFICES ASSUME Init
               PROVE  LInv
    OBVIOUS
  <1>1. IInv
    BY SoundInit
  <1>2. \A c \in Calls : ~Born(c) /\ c \notin Live
    BY DEF Init, DebuggeeInit, Born, Live, Unborn
  <1>3. Histories
    <2>1. Live = {}
      BY <1>2 DEF Live
    <2>2. \A t \in Threads : hit[t].call = NoCall
      BY StopFacts DEF Init, DebuggeeInit
    <2> QED
      BY <1>2, <2>1, <2>2 DEF Histories, OverBorn, LiveOverlap, StopsInnermost
  <1>4. Stopping
    BY <1>2, StopFacts
    DEF Init, DebuggeeInit, Stopping, Unarmed, OthersMissed, ReturnsOverlap, Live
  <1>6. Filing
    BY <1>2 DEF Filing, FiledArmed, FiledReturned, Fates, Born, Unborn, Live
  <1> QED
    BY <1>1, <1>3, <1>4, <1>6 DEF LInv

\* Steps that change nothing the fates speak of.
LEMMA FatesKept ==
    ASSUME LInv, UNCHANGED <<calls, oneshots, missed, pending, written, beside>>,
           \/ UNCHANGED hit /\ (Waiting => Waiting')
           \/ ~Waiting,
           Tracing' => Tracing
    PROVE  Filing'
  <1>0. IInv /\ TInv /\ FiledArmed /\ FiledReturned /\ Fates
    BY DEF LInv, IInv, Filing
  <1>2. \A c \in Calls : /\ Shared(c)' = Shared(c)
                         /\ Nested(c)' = Nested(c)
                         /\ FiledAt(c)' = FiledAt(c)
                         /\ Wrote(c)' = Wrote(c)
    BY DEF Shared, Nested, Overlap, Born, FiledAt, Wrote
  <1>4. FiledArmed'
    BY <1>0, <1>2 DEF FiledArmed, Live
  <1>5. FiledReturned'
    BY <1>0, <1>2 DEF FiledReturned
  <1>6. Fates'
    <2> SUFFICES ASSUME Tracing, NEW c \in Calls, Born(c), calls[c].status # "abandoned",
                        Selected(c)
                 PROVE  Fate(c)'
      BY DEF Fates, Born, Selected
    <2> QED
      BY <1>0, <1>2 DEF Fates, Fate
  <1> QED
    BY <1>4, <1>5, <1>6 DEF Filing

LEMMA LossNext == LInv /\ [Next]_vars => LInv'
  <1> SUFFICES ASSUME LInv, [Next]_vars
               PROVE  LInv'
    OBVIOUS
  <1>1. IInv' /\ Histories' /\ Stopping'
    BY SoundNext, HistoriesNext, StoppingNext DEF LInv, IInv
  <1>2. Filing'
    <2>1. CASE Wake
      <3>1. CASE pc' = "returned"
        BY <3>1 DEF Filing, FiledArmed, FiledReturned, Fates, Tracing
      <3>2. CASE proc = "stopped" /\ HandleStop(selected) /\ pc' = "handled"
        <4>1. Handling
          BY <2>1, <3>2 DEF Wake, HandleStop, Handling
        <4> QED
          BY <3>2, <4>1, ReturnHandled, EntryHandled, StopIgnored DEF HandleStop
      <3> QED
        BY <2>1, <3>1, <3>2 DEF Wake, EndIfOver, Leave
    <2>2. CASE Continue
      <3>1. ~Waiting
        BY <2>2 DEF Continue, Waiting
      <3>2. Tracing
        BY <2>2 DEF Continue, Tracing
      <3> QED
        BY <2>2, <3>1, <3>2, FatesKept DEF Continue
    <2>3. CASE Target
      BY <2>3, FilingTarget
    <2>4. CASE Launch \/ Interrupt \/ UNCHANGED vars
      <3>1. Waiting => Waiting'
        BY <2>4 DEF Launch, Interrupt, vars, Waiting
      <3>2. Tracing' => Tracing
        BY <2>4 DEF Launch, Interrupt, vars, Tracing
      <3>3. UNCHANGED <<calls, hit, oneshots, missed, pending, written, beside>>
        BY <2>4 DEF Launch, Interrupt, vars, debuggeeVars
      <3> QED
        BY <3>1, <3>2, <3>3, FatesKept
    <2>5. CASE Attach \/ Quit \/ Finish
      <3>1. UNCHANGED <<calls, hit, oneshots, missed, pending, written, beside>>
        BY <2>5 DEF Attach, Quit, Finish, debuggeeVars
      <3>2. CASE pc' = "blocked"
        <4>1. Waiting' /\ Tracing
          BY <2>5, <3>2 DEF Attach, Leave, Quit, Finish, Waiting, Tracing
        <4> QED
          BY <3>1, <4>1, FatesKept
      <3>3. CASE pc' \in {"returned", "finished"}
        BY <3>3 DEF Filing, FiledArmed, FiledReturned, Fates, Tracing
      <3> QED
        BY <2>5, <3>2, <3>3 DEF Attach, Leave, Quit, Finish
    <2> QED
      BY <2>1, <2>2, <2>3, <2>4, <2>5 DEF Next, Loop
  <1> QED
    BY <1>1, <1>2 DEF LInv

\* A call that returned under trace is in the trace once its stop is handled,
\* or a stop of it was missed, or it shared its return address with a call in
\* progress, or it came in at a __ symbol while another call of its thread was
\* pending in the tracer.
THEOREM LostIsExcused == Spec => []LostOnlyIfExcused
  <1>1. LInv => LostOnlyIfExcused
    <2> SUFFICES ASSUME LInv, NEW c \in Calls, Born(c), calls[c].status = "returned",
                        Selected(c), Tracing,
                        \A t \in Threads : hit[t] # [kind |-> "return", call |-> c]
                 PROVE  Wrote(c) \/ Excused(c)
      BY DEF LostOnlyIfExcused, Born, Selected, Tracing
    <2>1. /\ IInv /\ TInv /\ StopsInnermost /\ FiledReturned /\ Fates
          /\ calls[c].thread \in Threads
      BY BornRecord, RecordFacts DEF LInv, IInv, TInv, TypeOK, Histories, Filing
    <2>2. Shared(c) => Excused(c)
      BY DEF Shared, Excused, Born
    <2>3. Nested(c) => Excused(c)
      BY DEF Nested, Excused
    <2>4. c \in missed => Excused(c)
      BY DEF Excused
    <2>5. FiledAt(c) => Shared(c) \/ c \in missed
      BY <2>1 DEF FiledReturned
    <2>6. hit[calls[c].thread] # [kind |-> "entry", call |-> c]
      BY <2>1, DebuggeeAssumption DEF StopsInnermost, Innermost, LiveOn, Live
    <2> QED
      BY <2>1, <2>2, <2>3, <2>4, <2>5, <2>6 DEF Fates, Fate
  <1> QED
    BY <1>1, LossInit, LossNext, PTL DEF Spec
=============================================================================
