-------------------------- MODULE RefinementProofs --------------------------
(***************************************************************************)
(* With a sequential target, the trace loop keeps the safety part of       *)
(* CallLog, for every number of calls, call sites and symbols: the initial *)
(* states are initial states of CallLog, and every step is a step of it or *)
(* a stutter.                                                              *)
(***************************************************************************)
EXTENDS TracerRefinement, TracerProofs, FiniteSetTheorems

Selected(c) == SyscallName[calls[c].symbol] \in Registry \cap Filter

\* No call inside a call.
OneLive == \A c, d \in Live : c = d

\* A thread is stopped in a call that is in progress, or at the return of
\* the last one.
StopsFollowCalls ==
    \A t \in Threads :
        /\ hit[t].kind \in {"entry", "signal"} /\ hit[t].call # NoCall
              => calls[hit[t].call].status = "live"
        /\ hit[t].kind = "return" => Live = {}

OnlyReturnedWritten == \A i \in DOMAIN written : calls[written[i].call].status = "returned"

\* Nothing is recorded before the breakpoints are set, and no call that
\* begins before them is promised.
BeforeArmed ==
    /\ pc = "start" => ~armed /\ \A t \in Threads, a \in Sites : ~Pending(t, a)
    /\ ~armed => \A c \in Calls : Born(c) => c \in missed

\* A pending entry is of the call in progress, or of the one whose return
\* stop is about to be handled.
FiledIsOpen ==
    \A t \in Threads, a \in Sites : Pending(t, a) =>
        /\ ~Wrote(pending[t][a])
        /\ \/ calls[pending[t][a]].status = "live"
           \/ pc = "blocked" /\ hit[t] = [kind |-> "return", call |-> pending[t][a]]

\* The call that is pending will stop at its return; a breakpoint is gone
\* once its stop is looked at.
BreakpointsOfFiled ==
    \A t \in Threads :
        /\ \A a \in Sites :
              /\ a \in oneshots => Pending(t, a)
              /\ Pending(t, a) /\ calls[pending[t][a]].status = "live" => a \in oneshots
        /\ proc = "stopped" /\ AtReturn(t) => ReturnAddress(t) \notin oneshots

\* The call in progress is pending once its first stop is handled.
LiveIsFiled ==
    \A t \in Threads : \A c \in LiveOn(t) :
        Selected(c) /\ c \notin missed =>
            \/ pending[t][calls[c].site] = c
            \/ pc = "blocked" /\ hit[t] = [kind |-> "entry", call |-> c]

\* A call is due only between its return and the handling of that stop.
DueIsStopped ==
    \A c \in Calls : StateOf(c) = "due" =>
        /\ pc = "blocked"
        /\ \E t \in Threads : /\ hit[t] = [kind |-> "return", call |-> c]
                              /\ pending[t][calls[c].site] = c

WhileOn == ~Over => FiledIsOpen /\ BreakpointsOfFiled /\ LiveIsFiled /\ DueIsStopped

\* The inductive invariant of the refinement.
RInv == OneLive /\ StopsFollowCalls /\ OnlyReturnedWritten /\ BeforeArmed /\ WhileOn

-----------------------------------------------------------------------------
\* Lemmas about the data.

LEMMA OnlyThread ==
    ASSUME NEW t \in Threads, NEW u \in Threads
    PROVE  t = u
  BY Sequential

\* What the typed variables give the proofs below.
LEMMA Typed ==
    ASSUME TInv
    PROVE  /\ calls \in [Calls -> CallRecords \cup {Unborn}]
           /\ hit \in [Threads -> Stops \cup {NoStop}]
           /\ pending \in [Threads -> [Sites -> Calls \cup {NoCall}]]
           /\ written \in Seq(Events)
           /\ oneshots \subseteq Sites
           /\ \A c \in Calls : calls[c].status # "unborn" => calls[c] \in CallRecords
           /\ \A c \in Calls : Born(c) => calls[c] \in CallRecords
           /\ Unborn.status = "unborn"
  BY BornRecord DEF TInv, TypeOK, DebuggeeTypeOK, Unborn

\* How far the abstract call is.
StateMeaning ==
    \A c \in Calls :
        /\ Wrote(c) => StateOf(c) = "logged"
        /\ ~Wrote(c) =>
              /\ ~Born(c) => StateOf(c) = "unborn"
              /\ calls[c].status = "live" => StateOf(c) = "open"
              /\ Promised(c) => StateOf(c) = "due"
              /\ Born(c) /\ calls[c].status # "live" /\ ~Promised(c)
                    => StateOf(c) = "closed"
        /\ Promised(c) => Born(c) /\ calls[c].status = "returned"
        /\ StateOf(c) = "due" => Promised(c) /\ ~Wrote(c)

LEMMA StateFacts == StateMeaning
  <1> SUFFICES ASSUME NEW c \in Calls
               PROVE  /\ Wrote(c) => StateOf(c) = "logged"
                      /\ ~Wrote(c) =>
                            /\ ~Born(c) => StateOf(c) = "unborn"
                            /\ calls[c].status = "live" => StateOf(c) = "open"
                            /\ Promised(c) => StateOf(c) = "due"
                            /\ Born(c) /\ calls[c].status # "live" /\ ~Promised(c)
                                  => StateOf(c) = "closed"
                      /\ Promised(c) => Born(c) /\ calls[c].status = "returned"
                      /\ StateOf(c) = "due" => Promised(c) /\ ~Wrote(c)
    BY DEF StateMeaning
  <1>1. Promised(c) => Born(c) /\ calls[c].status = "returned"
    BY DEF Promised, Born, Unborn
  <1>2. Wrote(c) => StateOf(c) = "logged"
    BY DEF StateOf
  <1>3. ASSUME ~Wrote(c), ~Born(c)
        PROVE  StateOf(c) = "unborn"
    BY <1>1, <1>3 DEF StateOf, Born, Unborn
  <1>4. ASSUME ~Wrote(c), calls[c].status = "live"
        PROVE  StateOf(c) = "open"
    BY <1>1, <1>4 DEF StateOf, Unborn
  <1>5. ASSUME ~Wrote(c), Promised(c)
        PROVE  StateOf(c) = "due"
    BY <1>1, <1>5 DEF StateOf, Born
  <1>6. ASSUME ~Wrote(c), Born(c), calls[c].status # "live", ~Promised(c)
        PROVE  StateOf(c) = "closed"
    BY <1>6 DEF StateOf, Born
  <1>7. StateOf(c) = "due" => Promised(c) /\ ~Wrote(c)
    BY <1>2, <1>3, <1>4, <1>6
  <1> QED
    BY <1>1, <1>2, <1>3, <1>4, <1>5, <1>6, <1>7

LEMMA StateFactsAfter == StateMeaning'
  BY StateFacts, PTL

\* What the abstract state of a call depends on.
LEMMA StateSame ==
    ASSUME NEW d \in Calls, Born(d)' <=> Born(d), calls'[d].status = calls[d].status,
           Wrote(d)' <=> Wrote(d), ~Wrote(d) => (Promised(d)' <=> Promised(d))
    PROVE  StateOf(d)' = StateOf(d)
  <1>1. CASE Wrote(d)
    BY <1>1, StateFacts, StateFactsAfter DEF StateMeaning
  <1>2. CASE ~Wrote(d)
    BY <1>2, StateFacts, StateFactsAfter DEF StateMeaning
  <1> QED
    BY <1>1, <1>2

\* A thread whose calls are fewer than MaxDepth has none.
LEMMA NoneLive ==
    ASSUME TInv, OneLive, NEW t \in Threads, Cardinality(LiveOn(t)) < MaxDepth
    PROVE  Live = {}
  <1> SUFFICES ASSUME NEW c \in Live
               PROVE  FALSE
    OBVIOUS
  <1>1. c \in Calls /\ calls[c].thread \in Threads
    BY Typed, RecordFacts DEF Live
  <1>2. LiveOn(t) = {c}
    BY <1>1, OnlyThread DEF LiveOn, OneLive
  <1>3. Cardinality(LiveOn(t)) = 1
    BY <1>2, FS_Singleton
  <1> QED
    BY <1>3, Sequential

\* The innermost call is the only one in progress.
LEMMA OnlyLive ==
    ASSUME OneLive, NEW t \in Threads, NEW c \in Innermost(t)
    PROVE  /\ c \in Calls
           /\ calls[c].status = "live"
           /\ calls[c].thread = t
           /\ c \in LiveOn(t)
           /\ \A d \in Calls : calls[d].status = "live" => d = c
  BY DEF OneLive, Innermost, LiveOn, Live

\* While the target runs the loop is on, and what it recorded stays.
LEMMA TargetFrame ==
    ASSUME RInv, Target
    PROVE  /\ FiledIsOpen /\ BreakpointsOfFiled /\ LiveIsFiled /\ DueIsStopped
           /\ ~Over /\ ~Over'
           /\ pc = "blocked" \/ pc = "start"
           /\ UNCHANGED <<pc, pending, written>>
  <1>1. UNCHANGED tracerVars
    BY TargetCases
  <1>2. UNCHANGED <<pc, pending, written>> /\ (pc = "blocked" \/ pc = "start")
    BY <1>1 DEF tracerVars, Target
  <1>3. ~Over /\ ~Over'
    BY <1>2 DEF Over
  <1>4. FiledIsOpen /\ BreakpointsOfFiled /\ LiveIsFiled /\ DueIsStopped
    BY <1>3 DEF RInv, WhileOn
  <1> QED
    BY <1>2, <1>3, <1>4

\* No call is due while its thread runs.
LEMMA NoneDue ==
    ASSUME DueIsStopped, NEW t \in Threads, hit[t] = NoStop, NEW c \in Calls
    PROVE  StateOf(c) # "due"
  <1> SUFFICES ASSUME NEW u \in Threads, hit[u] = [kind |-> "return", call |-> c]
               PROVE  FALSE
    BY DEF DueIsStopped
  <1> QED
    BY OnlyThread DEF NoStop

\* A call begins.
LEMMA CallKeeps ==
    ASSUME IInv, RInv, Target,
           NEW t \in Threads, NEW c \in Calls, NEW f \in Symbols, NEW a \in Sites,
           Call(t, c, f, a)
    PROVE  /\ RInv'
           /\ \A d \in Calls : StateOf(d) # "due"
           /\ StateOf(c) = "unborn" /\ StateOf(c)' = "open"
           /\ \A d \in Calls \ {c} : StateOf(d)' = StateOf(d)
  <1> DEFINE r == [status |-> "live", thread |-> t, entry |-> f, symbol |-> f, site |-> a,
                   over |-> Live]
  <1>1. /\ TInv /\ PendingOwned
        /\ OneLive /\ StopsFollowCalls /\ OnlyReturnedWritten /\ BeforeArmed
        /\ FiledIsOpen /\ BreakpointsOfFiled /\ LiveIsFiled /\ DueIsStopped
        /\ ~Over /\ ~Over'
        /\ UNCHANGED <<pc, pending, written, proc, armed, oneshots>>
        /\ pc = "blocked" \/ pc = "start"
    BY TargetFrame DEF IInv, RInv, Call
  <1>2. /\ hit[t] = NoStop /\ calls[c] = Unborn
        /\ calls' = [calls EXCEPT ![c] = r] /\ r.status = "live" /\ r.thread = t
        /\ r.symbol = f /\ r # Unborn
        /\ armed => hit' = [hit EXCEPT ![t] = [kind |-> "entry", call |-> c]]
                    /\ missed' = missed
        /\ ~armed => hit' = hit /\ missed' = missed \cup {c}
    BY DEF Call, Runs, Unborn
  <1>3. Live = {}
    BY <1>1, NoneLive DEF Call
  <1>4. calls'[c] = r /\ \A d \in Calls \ {c} : calls'[d] = calls[d]
    BY <1>1, <1>2, Typed
  <1>5. Live' = {c}
    BY <1>2, <1>3, <1>4 DEF Live
  <1>6. \A u \in Threads, b \in Sites : ~Pending(u, b)
    BY <1>1, <1>2, <1>3, OnlyThread, StopFacts, Typed
    DEF FiledIsOpen, Live, Pending, NoStop
  <1>7. OneLive' /\ StopsFollowCalls'
    <2>1. /\ hit'[t].call # NoCall => hit'[t].call = c
          /\ hit'[t].kind # "return"
      BY <1>1, <1>2, Typed DEF NoStop
    <2>2. calls'[c].status = "live"
      BY <1>2, <1>4
    <2>3. StopsFollowCalls'
      BY <2>1, <2>2, OnlyThread DEF StopsFollowCalls
    <2> QED
      BY <1>5, <2>3 DEF OneLive
  <1>8. OnlyReturnedWritten'
    <2> SUFFICES ASSUME NEW i \in DOMAIN written
                 PROVE  calls'[written[i].call].status = "returned"
      BY <1>1 DEF OnlyReturnedWritten
    <2>1. written[i].call \in Calls /\ calls[written[i].call].status = "returned"
      BY <1>1, WrittenTyped DEF OnlyReturnedWritten
    <2> QED
      BY <1>2, <1>4, <2>1 DEF Unborn
  <1>9. BeforeArmed'
    BY <1>1, <1>2, <1>4 DEF BeforeArmed, Born, Pending
  <1>10. FiledIsOpen' /\ BreakpointsOfFiled'
    <2>1. oneshots = {}
      BY <1>1, <1>6, Typed DEF BreakpointsOfFiled
    <2>2. \A u \in Threads, b \in Sites : ~Pending(u, b)'
      BY <1>1, <1>6 DEF Pending
    <2> QED
      BY <1>1, <2>1, <2>2 DEF FiledIsOpen, BreakpointsOfFiled
  <1>11. LiveIsFiled'
    <2> SUFFICES ASSUME c \notin missed'
                 PROVE  pc' = "blocked" /\ hit'[t] = [kind |-> "entry", call |-> c]
      BY <1>5, OnlyThread DEF LiveIsFiled, LiveOn
    <2>1. armed
      BY <1>2
    <2> QED
      BY <1>1, <1>2, <2>1, Typed DEF BeforeArmed
  <1>12. \A d \in Calls : StateOf(d) # "due"
    BY <1>1, <1>2, NoneDue
  <1>13. StateOf(c) = "unborn" /\ StateOf(c)' = "open"
    <2>1. ~Wrote(c) /\ ~Wrote(c)'
      BY <1>1, <1>2 DEF Wrote, OnlyReturnedWritten, Unborn
    <2> QED
      BY <1>2, <1>4, <2>1, StateFacts, StateFactsAfter DEF StateMeaning, Born
  <1>14. \A d \in Calls \ {c} : StateOf(d)' = StateOf(d)
    <2> SUFFICES ASSUME NEW d \in Calls \ {c}
                 PROVE  StateOf(d)' = StateOf(d)
      OBVIOUS
    <2>1. calls'[d] = calls[d] /\ (d \in missed' <=> d \in missed)
      BY <1>2, <1>4
    <2>2. Wrote(d)' <=> Wrote(d)
      BY <1>1 DEF Wrote
    <2>3. Promised(d)' <=> Promised(d)
      BY <1>1, <2>1 DEF Promised, Filed
    <2> QED
      BY <2>1, <2>2, <2>3, StateSame DEF Born
  <1>15. DueIsStopped'
    BY <1>12, <1>13, <1>14 DEF DueIsStopped
  <1> QED
    BY <1>7, <1>8, <1>9, <1>10, <1>11, <1>12, <1>13, <1>14, <1>15 DEF RInv, WhileOn

\* What a step may leave of a call, apart from the symbol it is in.
CallSame(d) ==
    /\ calls'[d].status = calls[d].status
    /\ calls'[d].site = calls[d].site
    /\ calls'[d].thread = calls[d].thread
    /\ SyscallName[calls'[d].symbol] = SyscallName[calls[d].symbol]
    /\ calls'[d] = Unborn <=> calls[d] = Unborn

\* A wrapper branches to its implementation: the call and its name stay.
LEMMA BranchKeeps ==
    ASSUME IInv, RInv, Target,
           NEW t \in Threads, NEW c \in Calls, NEW g \in Symbols, Branch(t, c, g)
    PROVE  RInv' /\ \A d \in Calls : StateOf(d)' = StateOf(d)
  <1>1. /\ TInv
        /\ OneLive /\ StopsFollowCalls /\ OnlyReturnedWritten /\ BeforeArmed
        /\ FiledIsOpen /\ BreakpointsOfFiled /\ LiveIsFiled /\ DueIsStopped
        /\ ~Over /\ ~Over'
        /\ UNCHANGED <<pc, pending, written, proc, armed, oneshots, missed>>
        /\ pc = "blocked" \/ pc = "start"
        /\ hit[t] = NoStop
    BY TargetFrame DEF IInv, RInv, Branch, Runs
  <1>2. /\ c \in LiveOn(t) /\ calls[c].status = "live"
        /\ \A d \in Calls : calls[d].status = "live" => d = c
    BY <1>1, OnlyLive DEF Branch
  <1>3. /\ calls' = [calls EXCEPT ![c].symbol = g]
        /\ SyscallName[g] = SyscallName[calls[c].symbol]
        /\ hit'[t] = NoStop \/ (armed /\ hit'[t] = [kind |-> "entry", call |-> c])
    BY <1>1, Typed, TracerAssumption DEF Branch
  <1>4. calls[c] \in CallRecords
    BY <1>1, <1>2, Typed
  <1>5. /\ calls'[c].status = "live" /\ calls'[c].site = calls[c].site
        /\ calls'[c].thread = calls[c].thread /\ calls'[c].symbol = g
        /\ calls'[c] # Unborn
        /\ \A d \in Calls \ {c} : calls'[d] = calls[d]
    BY <1>1, <1>3, <1>4, <1>2, Typed DEF CallRecords, Unborn
  <1>6. /\ \A d \in Calls : CallSame(d)
        /\ Live' = Live /\ LiveOn(t)' = LiveOn(t)
    <2>1. ASSUME NEW d \in Calls
          PROVE  CallSame(d)
      <3>1. CASE d = c
        BY <1>3, <1>4, <1>5, <3>1, RecordFacts DEF CallSame
      <3>2. CASE d # c
        BY <1>5, <3>2 DEF CallSame
      <3> QED
        BY <3>1, <3>2
    <2> QED
      BY <2>1 DEF CallSame, Live, LiveOn
  <1>7. \A d \in Calls : StateOf(d)' = StateOf(d)
    <2> SUFFICES ASSUME NEW d \in Calls
                 PROVE  StateOf(d)' = StateOf(d)
      OBVIOUS
    <2>1. Wrote(d)' <=> Wrote(d)
      BY <1>1 DEF Wrote
    <2>2. CallSame(d)
      BY <1>6
    <2>3. Promised(d)' <=> Promised(d)
      BY <1>1, <2>2 DEF CallSame, Promised, Filed
    <2> QED
      BY <2>1, <2>2, <2>3, StateSame DEF CallSame, Born
  <1>8. OneLive'
    BY <1>1, <1>6 DEF OneLive
  <1>9. StopsFollowCalls'
    <2>1. hit'[t].kind # "return" /\ (hit'[t].call # NoCall => hit'[t].call = c)
      BY <1>3 DEF NoStop
    <2> QED
      BY <1>5, <2>1, OnlyThread DEF StopsFollowCalls
  <1>10. OnlyReturnedWritten'
    <2>1. \A i \in DOMAIN written : written[i].call \in Calls
      BY <1>1, WrittenTyped
    <2> QED
      BY <1>1, <1>6, <2>1 DEF OnlyReturnedWritten, CallSame
  <1>11. BeforeArmed'
    <2>1. ~armed => \A x \in Calls : Born(x)' => x \in missed
      BY <1>1, <1>6 DEF BeforeArmed, CallSame, Born
    <2> QED
      BY <1>1, <2>1 DEF BeforeArmed, Pending
  <1>12. \A u \in Threads, a \in Sites : Pending(u, a) =>
            pending[u][a] \in Calls /\ ~Wrote(pending[u][a])
                /\ calls[pending[u][a]].status = "live"
    BY <1>1, OnlyThread, Typed DEF FiledIsOpen, Pending, NoStop
  <1>13. FiledIsOpen'
    BY <1>1, <1>6, <1>12 DEF FiledIsOpen, Pending, Wrote, CallSame
  <1>14. BreakpointsOfFiled'
    <2>1. proc' # "stopped"
      BY <1>1, TargetCases
    <2> QED
      BY <1>1, <1>6, <1>12, <2>1 DEF BreakpointsOfFiled, Pending, CallSame
  <1>15. LiveIsFiled'
    <2> SUFFICES ASSUME NEW u \in Threads, NEW d \in LiveOn(u)', Selected(d)', d \notin missed
                 PROVE  pending[u][calls'[d].site] = d
      BY <1>1 DEF LiveIsFiled
    <2>1. u = t
      BY OnlyThread
    <2>2. d \in LiveOn(t) /\ d \in Calls
      BY <1>6, <2>1 DEF LiveOn, Live
    <2>3. CallSame(d) /\ Selected(d)
      BY <1>6, <2>2 DEF CallSame, Selected
    <2>4. hit[t] # [kind |-> "entry", call |-> d]
      BY <1>1 DEF NoStop
    <2> QED
      BY <1>1, <2>1, <2>2, <2>3, <2>4 DEF LiveIsFiled, CallSame
  <1>16. DueIsStopped'
    BY <1>1, <1>7, NoneDue DEF DueIsStopped
  <1> QED
    BY <1>7, <1>8, <1>9, <1>10, <1>11, <1>13, <1>14, <1>15, <1>16 DEF RInv, WhileOn

\* A call returns: it becomes due if it is promised, and then its thread
\* stops at its return.
ReturnKeeps ==
    \A t \in Threads, c \in Calls : Return(t, c) =>
        /\ RInv'
        /\ StateOf(c) = "open" /\ StateOf(c)' \in {"due", "closed"}
        /\ \A d \in Calls \ {c} : StateOf(d)' = StateOf(d)

LEMMA ReturnStep ==
    ASSUME IInv, RInv, Target
    PROVE  ReturnKeeps
  <1> SUFFICES ASSUME NEW t \in Threads, NEW c \in Calls, Return(t, c)
               PROVE  /\ RInv'
                      /\ StateOf(c) = "open" /\ StateOf(c)' \in {"due", "closed"}
                      /\ \A d \in Calls \ {c} : StateOf(d)' = StateOf(d)
    BY DEF ReturnKeeps
  <1>1. /\ TInv /\ PendingOwned
        /\ OneLive /\ StopsFollowCalls /\ OnlyReturnedWritten /\ BeforeArmed
        /\ FiledIsOpen /\ BreakpointsOfFiled /\ LiveIsFiled /\ DueIsStopped
        /\ ~Over /\ ~Over'
        /\ UNCHANGED <<pc, pending, written, proc, armed, oneshots, missed>>
        /\ pc = "blocked" \/ pc = "start"
        /\ hit[t] = NoStop
    BY TargetFrame DEF IInv, RInv, Return, Runs
  <1>2. /\ c \in LiveOn(t) /\ calls[c].status = "live"
        /\ \A d \in Calls : calls[d].status = "live" => d = c
    BY <1>1, OnlyLive DEF Return
  <1>3. /\ calls' = [calls EXCEPT ![c].status = "returned"]
        /\ calls[c].site \in oneshots => hit'[t] = [kind |-> "return", call |-> c]
        /\ calls[c].site \notin oneshots => hit'[t] = NoStop
    BY <1>1, Typed DEF Return
  <1>4. calls[c] \in CallRecords
    BY <1>1, <1>2, Typed
  <1>5. /\ calls'[c].status = "returned" /\ calls'[c].site = calls[c].site
        /\ calls'[c].thread = calls[c].thread /\ calls'[c].symbol = calls[c].symbol
        /\ calls'[c] # Unborn
        /\ \A d \in Calls \ {c} : calls'[d] = calls[d]
    BY <1>1, <1>3, <1>4, Typed DEF CallRecords, Unborn
  <1>6. \A d \in Calls : calls'[d].status # "live"
    BY <1>2, <1>5
  <1>7. Live' = {}
    BY <1>6 DEF Live
  <1>8. \A u \in Threads, a \in Sites : Pending(u, a) =>
            /\ u = t /\ pending[u][a] = c /\ a = calls[c].site
            /\ ~Wrote(c)
            /\ pc = "blocked" /\ a \in oneshots
    <2> SUFFICES ASSUME NEW u \in Threads, NEW a \in Sites, Pending(u, a)
                 PROVE  /\ u = t /\ pending[u][a] = c /\ a = calls[c].site
                        /\ ~Wrote(c)
                        /\ pc = "blocked" /\ a \in oneshots
      OBVIOUS
    <2>1. u = t
      BY OnlyThread
    <2>2. calls[pending[u][a]].status = "live" /\ ~Wrote(pending[u][a])
      <3>1. hit[u] # [kind |-> "return", call |-> pending[u][a]]
        BY <1>1, <2>1 DEF NoStop
      <3> QED
        BY <1>1, <3>1 DEF FiledIsOpen
    <2>3. pending[u][a] = c
      BY <1>1, <1>2, <2>2, Typed DEF Pending
    <2>4. a = calls[c].site
      BY <1>1, <2>3 DEF PendingOwned
    <2>5. a \in oneshots
      BY <1>1, <2>2 DEF BreakpointsOfFiled
    <2>6. pc = "blocked"
      BY <1>1 DEF BeforeArmed
    <2> QED
      BY <2>1, <2>2, <2>3, <2>4, <2>5, <2>6
  <1>9. OneLive' /\ StopsFollowCalls'
    <2>1. hit'[t].call = NoCall \/ hit'[t].kind = "return"
      BY <1>3 DEF NoStop
    <2> QED
      BY <1>7, <2>1, OnlyThread DEF OneLive, StopsFollowCalls
  <1>10. OnlyReturnedWritten'
    <2>1. \A i \in DOMAIN written : written[i].call \in Calls
      BY <1>1, WrittenTyped
    <2> QED
      BY <1>1, <1>5, <2>1 DEF OnlyReturnedWritten
  <1>11. BeforeArmed'
    <2>1. ~armed => \A x \in Calls : Born(x)' => x \in missed
      BY <1>1, <1>2, <1>5 DEF BeforeArmed, Born, Unborn
    <2> QED
      BY <1>1, <2>1 DEF BeforeArmed, Pending
  <1>12. FiledIsOpen'
    BY <1>1, <1>3, <1>8 DEF FiledIsOpen, Pending, Wrote
  <1>13. BreakpointsOfFiled'
    <2>1. proc' # "stopped"
      BY <1>1, TargetCases
    <2>2. \A u \in Threads, a \in Sites : Pending(u, a) => calls'[pending[u][a]].status # "live"
      BY <1>6, <1>8
    <2> QED
      BY <1>1, <2>1, <2>2 DEF BreakpointsOfFiled, Pending
  <1>14. LiveIsFiled'
    BY <1>7 DEF LiveIsFiled, LiveOn
  <1>15. \A d \in Calls \ {c} : StateOf(d)' = StateOf(d)
    <2> SUFFICES ASSUME NEW d \in Calls \ {c}
                 PROVE  StateOf(d)' = StateOf(d)
      OBVIOUS
    <2>1. calls'[d] = calls[d]
      BY <1>5
    <2>2. Wrote(d)' <=> Wrote(d)
      BY <1>1 DEF Wrote
    <2>3. Promised(d)' <=> Promised(d)
      BY <1>1, <2>1 DEF Promised, Filed
    <2> QED
      BY <2>1, <2>2, <2>3, StateSame DEF Born
  <1>16. ~Wrote(c) /\ ~Wrote(c)'
    BY <1>1, <1>2 DEF Wrote, OnlyReturnedWritten
  <1>17. StateOf(c) = "open" /\ StateOf(c)' \in {"due", "closed"}
    BY <1>2, <1>5, <1>16, StateFacts, StateFactsAfter DEF StateMeaning, Born
  <1>18. Promised(c)' => /\ pc = "blocked"
                        /\ hit'[t] = [kind |-> "return", call |-> c]
                        /\ pending[t][calls'[c].site] = c
    <2>0. calls[c].site \in Sites
      BY <1>4, RecordFacts
    <2> SUFFICES ASSUME Promised(c)'
                 PROVE  pending[t][calls[c].site] = c
      BY <1>3, <1>5, <1>8, <2>0, DebuggeeAssumption DEF Pending
    <2>1. CASE c \notin missed
      <3>1. Selected(c)
        BY <1>5 DEF Promised, Selected
      <3>2. hit[t] # [kind |-> "entry", call |-> c]
        BY <1>1 DEF NoStop
      <3> QED
        BY <1>1, <1>2, <2>1, <3>1, <3>2 DEF LiveIsFiled
    <2>2. CASE Filed(c)'
      <3>1. PICK u \in Threads, a \in Sites : pending[u][a] = c
        BY <1>1, <2>2 DEF Filed
      <3>2. Pending(u, a)
        BY <3>1, DebuggeeAssumption DEF Pending
      <3> QED
        BY <1>8, <3>1, <3>2
    <2> QED
      BY <1>1, <2>1, <2>2 DEF Promised
  <1>19. DueIsStopped'
    <2> SUFFICES ASSUME NEW d \in Calls, StateOf(d)' = "due"
                 PROVE  /\ pc = "blocked"
                        /\ hit'[t] = [kind |-> "return", call |-> d]
                        /\ pending[t][calls'[d].site] = d
      BY <1>1 DEF DueIsStopped
    <2>1. d = c
      BY <1>1, <1>15, NoneDue
    <2>2. Promised(c)'
      BY <2>1, StateFactsAfter DEF StateMeaning
    <2> QED
      BY <1>18, <2>1, <2>2
  <1> QED
    BY <1>9, <1>10, <1>11, <1>12, <1>13, <1>14, <1>15, <1>17, <1>19 DEF RInv, WhileOn

\* A step that leaves the calls, the pending entries and the trace alone is
\* a stutter, unless it ends the loop.
LEMMA QuietStates ==
    ASSUME UNCHANGED <<calls, pending, written, missed>>, Over' <=> Over
    PROVE  \A d \in Calls : StateOf(d)' = StateOf(d)
  <1> SUFFICES ASSUME NEW d \in Calls
               PROVE  StateOf(d)' = StateOf(d)
    OBVIOUS
  <1>1. Wrote(d)' <=> Wrote(d)
    BY DEF Wrote
  <1>2. Promised(d)' <=> Promised(d)
    BY DEF Promised, Filed
  <1> QED
    BY <1>1, <1>2, StateSame DEF Born

\* The invariants about the calls and the trace alone.
LEMMA QuietCalls ==
    ASSUME RInv, UNCHANGED <<calls, written>>
    PROVE  OneLive' /\ OnlyReturnedWritten'
  BY DEF RInv, OneLive, OnlyReturnedWritten, Live

\* A signal, the halt of the threads, or the end of the process.
LEMMA StopStep ==
    ASSUME IInv, RInv, Target,
           \/ \E t \in Threads : Signal(t)
           \/ \E t \in Threads : Halt(t)
           \/ Die
    PROVE  RInv' /\ \A d \in Calls : StateOf(d)' = StateOf(d)
  <1>1. /\ TInv
        /\ OneLive /\ StopsFollowCalls /\ OnlyReturnedWritten /\ BeforeArmed
        /\ FiledIsOpen /\ BreakpointsOfFiled /\ LiveIsFiled /\ DueIsStopped
        /\ ~Over /\ ~Over'
        /\ UNCHANGED <<pc, pending, written>>
        /\ proc = "running"
    BY TargetFrame, TargetCases DEF IInv, RInv
  <1>2. ASSUME UNCHANGED <<calls, armed, missed>>
        PROVE  /\ OneLive' /\ OnlyReturnedWritten' /\ BeforeArmed'
               /\ \A d \in Calls : StateOf(d)' = StateOf(d)
    <2>1. BeforeArmed'
      BY <1>1, <1>2 DEF BeforeArmed, Pending, Born
    <2> QED
      BY <1>1, <1>2, <2>1, QuietCalls, QuietStates
  <1>3. ASSUME NEW t \in Threads, Signal(t)
        PROVE  RInv' /\ \A d \in Calls : StateOf(d)' = StateOf(d)
    <2>1. /\ UNCHANGED <<proc, armed, calls, oneshots, missed>>
          /\ hit[t] = NoStop
      BY <1>3 DEF Signal, Runs
    <2>2. /\ hit'[t].kind = "signal"
          /\ hit'[t].call # NoCall => calls[hit'[t].call].status = "live"
      BY <1>1, <1>3, OnlyLive, Typed DEF Signal
    <2>3. StopsFollowCalls'
      BY <2>1, <2>2, OnlyThread DEF StopsFollowCalls
    <2>4. FiledIsOpen'
      <3> SUFFICES ASSUME NEW u \in Threads, NEW a \in Sites, Pending(u, a)
                   PROVE  ~Wrote(pending[u][a]) /\ calls[pending[u][a]].status = "live"
        BY <1>1, <2>1 DEF FiledIsOpen, Pending, Wrote
      <3>1. hit[u] # [kind |-> "return", call |-> pending[u][a]]
        BY <2>1, OnlyThread DEF NoStop
      <3> QED
        BY <1>1, <3>1 DEF FiledIsOpen
    <2>5. BreakpointsOfFiled'
      BY <1>1, <2>1 DEF BreakpointsOfFiled, Pending
    <2>6. LiveIsFiled'
      <3> SUFFICES ASSUME NEW u \in Threads, NEW c \in LiveOn(u), Selected(c), c \notin missed
                   PROVE  pending[u][calls[c].site] = c
        BY <1>1, <2>1 DEF LiveIsFiled, LiveOn, Live, Selected
      <3>1. hit[u] # [kind |-> "entry", call |-> c]
        BY <2>1, OnlyThread DEF NoStop
      <3> QED
        BY <1>1, <3>1 DEF LiveIsFiled
    <2>7. DueIsStopped'
      BY <1>1, <1>2, <2>1, NoneDue DEF DueIsStopped
    <2> QED
      BY <1>2, <2>1, <2>3, <2>4, <2>5, <2>6, <2>7 DEF RInv, WhileOn
  <1>4. ASSUME NEW t \in Threads, Halt(t)
        PROVE  RInv' /\ \A d \in Calls : StateOf(d)' = StateOf(d)
    <2>1. /\ UNCHANGED <<armed, calls, hit>>
          /\ oneshots' = oneshots \ {calls[hit[u].call].site :
                                       u \in {v \in Threads : hit[v].kind = "return"}}
          /\ missed' = missed
      BY <1>4, OnlyThread DEF Halt
    <2>2. StopsFollowCalls'
      BY <1>1, <2>1 DEF StopsFollowCalls, Live
    <2>3. FiledIsOpen'
      BY <1>1, <2>1 DEF FiledIsOpen, Pending, Wrote
    <2>4. BreakpointsOfFiled'
      <3>1. ASSUME NEW u \in Threads, AtReturn(u)
            PROVE  ReturnAddress(u) \notin oneshots'
        BY <2>1, <3>1 DEF AtReturn, ReturnAddress
      <3>2. ASSUME NEW u \in Threads, NEW a \in Sites, Pending(u, a),
                   calls[pending[u][a]].status = "live"
            PROVE  a \in oneshots'
        <4>1. pending[u][a] \in Live
          BY <1>1, <3>2, Typed DEF Pending, Live
        <4>2. \A v \in Threads : hit[v].kind # "return"
          BY <1>1, <4>1 DEF StopsFollowCalls
        <4> QED
          BY <1>1, <2>1, <3>2, <4>2 DEF BreakpointsOfFiled
      <3>3. \A u \in Threads, a \in Sites : a \in oneshots' => Pending(u, a)
        BY <1>1, <2>1 DEF BreakpointsOfFiled
      <3> QED
        BY <1>1, <2>1, <3>1, <3>2, <3>3
        DEF BreakpointsOfFiled, Pending, AtReturn, ReturnAddress
    <2>5. LiveIsFiled'
      BY <1>1, <2>1 DEF LiveIsFiled, LiveOn, Live, Selected
    <2>6. DueIsStopped'
      BY <1>1, <1>2, <2>1 DEF DueIsStopped
    <2> QED
      BY <1>2, <2>1, <2>2, <2>3, <2>4, <2>5, <2>6 DEF RInv, WhileOn
  <1>5. ASSUME Die
        PROVE  RInv' /\ \A d \in Calls : StateOf(d)' = StateOf(d)
    <2>1. /\ UNCHANGED <<armed, calls, hit, oneshots, missed>>
          /\ proc' # "stopped"
      BY <1>5, DebuggeeAssumption DEF Die
    <2>2. StopsFollowCalls'
      BY <1>1, <2>1 DEF StopsFollowCalls, Live
    <2>3. FiledIsOpen'
      BY <1>1, <2>1 DEF FiledIsOpen, Pending, Wrote
    <2>4. BreakpointsOfFiled'
      BY <1>1, <2>1 DEF BreakpointsOfFiled, Pending
    <2>5. LiveIsFiled'
      BY <1>1, <2>1 DEF LiveIsFiled, LiveOn, Live, Selected
    <2>6. DueIsStopped'
      BY <1>1, <1>2, <2>1 DEF DueIsStopped
    <2> QED
      BY <1>2, <2>1, <2>2, <2>3, <2>4, <2>5, <2>6 DEF RInv, WhileOn
  <1> QED
    BY <1>3, <1>4, <1>5

-----------------------------------------------------------------------------
\* The loop.

\* A step of the loop that leaves the target and the records alone.
LEMMA OnKeeps ==
    ASSUME IInv, RInv, ~Over, ~Over',
           UNCHANGED <<calls, hit, pending, written, oneshots, missed, proc>>,
           pc = "blocked" => pc' = "blocked",
           pc' = "start" => pc = "start" /\ ~armed',
           ~armed' => ~armed
    PROVE  RInv' /\ \A d \in Calls : StateOf(d)' = StateOf(d)
  <1>1. /\ OneLive /\ StopsFollowCalls /\ OnlyReturnedWritten /\ BeforeArmed
        /\ FiledIsOpen /\ BreakpointsOfFiled /\ LiveIsFiled /\ DueIsStopped
    BY DEF RInv, WhileOn
  <1>2. OneLive' /\ OnlyReturnedWritten' /\ \A d \in Calls : StateOf(d)' = StateOf(d)
    BY QuietCalls, QuietStates
  <1>3. StopsFollowCalls'
    BY <1>1 DEF StopsFollowCalls, Live
  <1>4. BeforeArmed'
    BY <1>1 DEF BeforeArmed, Pending, Born
  <1>5. FiledIsOpen'
    BY <1>1 DEF FiledIsOpen, Pending, Wrote
  <1>6. BreakpointsOfFiled'
    BY <1>1 DEF BreakpointsOfFiled, Pending, AtReturn, ReturnAddress
  <1>7. LiveIsFiled'
    BY <1>1 DEF LiveIsFiled, LiveOn, Live, Selected
  <1>8. DueIsStopped'
    BY <1>1, <1>2 DEF DueIsStopped
  <1> QED
    BY <1>2, <1>3, <1>4, <1>5, <1>6, <1>7, <1>8 DEF RInv, WhileOn

\* Once the loop is left, little of the invariant is needed.
LEMMA OverKeeps ==
    ASSUME RInv, Over', UNCHANGED <<calls, hit, written, missed, armed>>
    PROVE  RInv'
  <1>1. OneLive' /\ OnlyReturnedWritten'
    BY QuietCalls
  <1>2. StopsFollowCalls'
    BY DEF RInv, StopsFollowCalls, Live
  <1>3. pc' # "start"
    BY DEF Over
  <1>4. BeforeArmed'
    BY <1>3 DEF RInv, BeforeArmed, Born
  <1> QED
    BY <1>1, <1>2, <1>4 DEF RInv, WhileOn

\* The process is continued: the stop was handled, so nothing is due and the
\* call in progress is pending.
LEMMA ContinueKeeps ==
    ASSUME IInv, RInv, Continue
    PROVE  RInv' /\ ~Over /\ ~Over' /\ \A d \in Calls : StateOf(d)' = StateOf(d)
  <1>1. /\ pc = "handled" /\ pc' = "blocked" /\ proc' = "running"
        /\ hit' = [t \in Threads |-> NoStop]
        /\ UNCHANGED <<armed, calls, oneshots, missed, pending, written>>
    BY DEF Continue, Resume
  <1>2. ~Over /\ ~Over'
    BY <1>1 DEF Over
  <1>3. /\ OneLive /\ StopsFollowCalls /\ OnlyReturnedWritten /\ BeforeArmed
        /\ FiledIsOpen /\ BreakpointsOfFiled /\ LiveIsFiled /\ DueIsStopped
    BY <1>2 DEF RInv, WhileOn
  <1>4. OneLive' /\ OnlyReturnedWritten' /\ \A d \in Calls : StateOf(d)' = StateOf(d)
    BY <1>1, <1>2, QuietCalls, QuietStates
  <1>5. StopsFollowCalls'
    BY <1>1, StopFacts DEF StopsFollowCalls
  <1>6. BeforeArmed'
    BY <1>1, <1>3 DEF BeforeArmed, Pending, Born
  <1>7. FiledIsOpen'
    BY <1>1, <1>3 DEF FiledIsOpen, Pending, Wrote
  <1>8. BreakpointsOfFiled'
    BY <1>1, <1>3 DEF BreakpointsOfFiled, Pending
  <1>9. LiveIsFiled'
    BY <1>1, <1>3 DEF LiveIsFiled, LiveOn, Live, Selected
  <1>10. DueIsStopped'
    BY <1>1, <1>3, <1>4 DEF DueIsStopped
  <1> QED
    BY <1>2, <1>4, <1>5, <1>6, <1>7, <1>8, <1>9, <1>10 DEF RInv, WhileOn

\* What the handling of a stop leaves alone.
HandlingOf(t) ==
    /\ t \in Threads
    /\ pc = "blocked" /\ pc' = "handled" /\ proc = "stopped"
    /\ UNCHANGED <<proc, armed, calls, hit, missed>>

\* Before and after the handling the loop is on.
LEMMA HandlingFrame ==
    ASSUME IInv, RInv, NEW t, HandlingOf(t)
    PROVE  /\ TInv /\ PendingOwned
           /\ OneLive /\ StopsFollowCalls /\ OnlyReturnedWritten /\ BeforeArmed
           /\ FiledIsOpen /\ BreakpointsOfFiled /\ LiveIsFiled /\ DueIsStopped
           /\ ~Over /\ ~Over'
           /\ OneLive' /\ StopsFollowCalls' /\ BeforeArmed'
  <1>1. ~Over /\ ~Over'
    BY DEF HandlingOf, Over
  <1>2. OneLive' /\ StopsFollowCalls'
    BY DEF HandlingOf, RInv, OneLive, StopsFollowCalls, Live
  <1>3. BeforeArmed'
    BY DEF HandlingOf, RInv, BeforeArmed, Born
  <1> QED
    BY <1>1, <1>2, <1>3 DEF RInv, WhileOn, IInv

\* A return is handled: the call is due, and its event is written.
LEMMA ReturnHandled ==
    ASSUME IInv, RInv, NEW t, HandlingOf(t), HandleReturn(t)
    PROVE  /\ RInv'
           /\ \E c \in Calls :
                 /\ StateOf(c) = "due" /\ StateOf(c)' = "logged"
                 /\ \A d \in Calls \ {c} : StateOf(d)' = StateOf(d)
                 /\ \E e \in Events : e.call = c /\ written' = Append(written, e)
  <1>1. /\ TInv /\ PendingOwned
        /\ StopsFollowCalls /\ OnlyReturnedWritten
        /\ FiledIsOpen /\ BreakpointsOfFiled /\ DueIsStopped
        /\ ~Over /\ ~Over'
        /\ OneLive' /\ StopsFollowCalls' /\ BeforeArmed'
        /\ t \in Threads /\ pc = "blocked" /\ proc = "stopped"
        /\ UNCHANGED <<calls, hit, missed, proc>>
    BY HandlingFrame DEF HandlingOf
  <1>c. PICK c \in Calls : c = hit[t].call
    BY <1>1, FrameFacts, StopHasCall DEF HandleReturn
  <1>a. PICK a \in Sites : a = ReturnAddress(t)
    BY <1>1, FrameFacts, StopHasCall DEF HandleReturn
  <1> DEFINE e == [call |-> c, thread |-> t, site |-> a, ret |-> c]
  <1>2. /\ c = hit[t].call /\ a = ReturnAddress(t) /\ calls[c].site = a
        /\ AtReturn(t) /\ calls[c].status = "returned" /\ calls[c] \in CallRecords
    BY <1>1, <1>c, <1>a, FrameFacts, StopHasCall
    DEF HandleReturn, IsReturn, AtReturn, TInv, HitsSound, ReturnAddress
  <1>3. \A d \in Calls : calls[d].status # "live"
    BY <1>1, <1>2 DEF StopsFollowCalls, AtReturn, Live
  <1>4. \A u \in Threads, b \in Sites : Pending(u, b) =>
            u = t /\ b = a /\ pending[u][b] = c /\ ~Wrote(c)
    <2> SUFFICES ASSUME NEW u \in Threads, NEW b \in Sites, Pending(u, b)
                 PROVE  u = t /\ b = a /\ pending[u][b] = c /\ ~Wrote(c)
      OBVIOUS
    <2>1. u = t /\ pending[u][b] \in Calls
      BY <1>1, OnlyThread, Typed DEF Pending
    <2>2. /\ hit[t] = [kind |-> "return", call |-> pending[u][b]]
          /\ ~Wrote(pending[u][b])
      BY <1>1, <1>3, <2>1 DEF FiledIsOpen
    <2>3. pending[u][b] = c
      BY <1>2, <2>2
    <2>4. b = a
      BY <1>1, <1>2, <2>3 DEF PendingOwned
    <2> QED
      BY <2>1, <2>2, <2>3, <2>4
  <1>5. Pending(t, a) /\ pending[t][a] = c /\ ~Wrote(c)
    BY <1>1, <1>2, <1>4 DEF HandleReturn, IsReturn
  <1>6. e \in Events /\ written' = Append(written, e)
    BY <1>1, <1>2, <1>5 DEF HandleReturn, WriteEvent, Events
  <1>7. \A u \in Threads, b \in Sites : ~Pending(u, b)'
    BY <1>1, <1>2, <1>4, Typed DEF HandleReturn, Pending
  <1>8. \A i \in DOMAIN written' :
           \/ i \in DOMAIN written /\ written'[i] = written[i]
           \/ written'[i] = e
    BY <1>1, <1>6, Typed, AppendFacts
  <1>9. OnlyReturnedWritten'
    BY <1>1, <1>2, <1>8 DEF OnlyReturnedWritten
  <1>10. StateOf(c) = "due"
    <2>1. Filed(c)
      BY <1>1, <1>2, <1>5 DEF Filed
    <2>2. Selected(c)
      BY <1>1, <1>2, <1>5 DEF PendingOwned, Selected
    <2>3. Promised(c)
      BY <1>1, <1>2, <2>1, <2>2 DEF Promised, Selected
    <2> QED
      BY <1>2, <1>5, <2>3, StateFacts DEF StateMeaning
  <1>11. /\ written' \in Seq(Events)
         /\ Len(written) + 1 \in DOMAIN written'
         /\ written'[Len(written) + 1] = e
         /\ \A i \in DOMAIN written : i \in DOMAIN written' /\ written'[i] = written[i]
    BY <1>1, <1>6, Typed
  <1>12. StateOf(c)' = "logged"
    <2>1. Wrote(c)'
      BY <1>11 DEF Wrote
    <2> QED
      BY <1>2, <2>1, StateFactsAfter DEF StateMeaning
  <1>13. \A d \in Calls \ {c} : StateOf(d)' = StateOf(d)
    <2> SUFFICES ASSUME NEW d \in Calls, d # c
                 PROVE  StateOf(d)' = StateOf(d)
      OBVIOUS
    <2>1. Wrote(d)' <=> Wrote(d)
      BY <1>8, <1>11 DEF Wrote
    <2>2. ~Filed(d) /\ ~Filed(d)'
      BY <1>1, <1>4, <1>7, DebuggeeAssumption DEF Filed, Pending
    <2>3. Promised(d)' <=> Promised(d)
      BY <1>1, <2>2 DEF Promised
    <2> QED
      BY <1>1, <2>1, <2>3, StateSame DEF Born
  <1>14. FiledIsOpen'
    BY <1>7 DEF FiledIsOpen
  <1>15. BreakpointsOfFiled'
    <2>1. a \notin oneshots
      BY <1>1, <1>2 DEF BreakpointsOfFiled
    <2>2. oneshots = {} /\ oneshots' = oneshots
      BY <1>1, <1>4, <2>1, Typed DEF BreakpointsOfFiled, HandleReturn
    <2> QED
      BY <1>7, <2>2 DEF BreakpointsOfFiled
  <1>16. LiveIsFiled'
    BY <1>1, <1>3 DEF LiveIsFiled, LiveOn, Live
  <1>17. DueIsStopped'
    <2> SUFFICES ASSUME NEW d \in Calls, StateOf(d)' = "due"
                 PROVE  FALSE
      BY DEF DueIsStopped
    <2>1. d # c
      BY <1>12
    <2>2. StateOf(d) = "due"
      BY <1>13, <2>1
    <2>3. hit[t] = [kind |-> "return", call |-> d]
      BY <1>1, <2>2, OnlyThread DEF DueIsStopped
    <2> QED
      BY <1>2, <2>1, <2>3
  <1>18. RInv'
    BY <1>1, <1>9, <1>14, <1>15, <1>16, <1>17 DEF RInv, WhileOn
  <1> QED
    BY <1>2, <1>6, <1>10, <1>12, <1>13, <1>18

\* An entry is handled: the call in progress is pending now.
LEMMA EntryHandled ==
    ASSUME IInv, RInv, NEW t, HandlingOf(t), HandleEntry(t)
    PROVE  RInv' /\ UNCHANGED written /\ \A d \in Calls : StateOf(d)' = StateOf(d)
  <1>1. /\ TInv /\ PendingOwned
        /\ OneLive /\ StopsFollowCalls /\ OnlyReturnedWritten
        /\ FiledIsOpen /\ BreakpointsOfFiled /\ DueIsStopped
        /\ ~Over /\ ~Over'
        /\ OneLive' /\ StopsFollowCalls' /\ BeforeArmed'
        /\ t \in Threads /\ pc = "blocked"
        /\ UNCHANGED <<calls, hit, missed, proc>>
    BY HandlingFrame DEF HandlingOf
  <1>c. PICK c \in Calls : c = hit[t].call
    BY <1>1, FrameFacts, StopHasCall DEF HandleEntry
  <1>a. PICK a \in Sites : a = ReturnAddress(t)
    BY <1>1, FrameFacts, StopHasCall DEF HandleEntry
  <1>2. /\ calls[c].site = a
        /\ hit[t].kind \in {"entry", "signal"} /\ c # NoCall
        /\ calls[c].status = "live"
    <2>1. hit[t].kind # "return" /\ hit[t].call # NoCall
      BY <1>1, StopHasCall DEF HandleEntry, IsEntry, InSymbol
    <2>2. hit[t].kind \in {"entry", "signal"}
      BY <1>1, <2>1, Typed, StopFacts
    <2> QED
      BY <1>1, <1>c, <1>a, <2>1, <2>2 DEF StopsFollowCalls, ReturnAddress
  <1>3. \A d \in Calls : calls[d].status = "live" => d = c
    BY <1>1, <1>2 DEF OneLive, Live
  <1>4. /\ oneshots' = oneshots \cup {a}
        /\ pending' = [pending EXCEPT ![t][a] = c]
        /\ UNCHANGED written
    BY <1>c, <1>a, Sequential DEF HandleEntry
  <1>5. /\ pending'[t][a] = c
        /\ \A u \in Threads, b \in Sites : b # a => pending'[u][b] = pending[u][b]
    BY <1>1, <1>4, Typed
  <1>6. \A u \in Threads, b \in Sites : Pending(u, b) => u = t /\ b = a /\ pending[u][b] = c
    <2> SUFFICES ASSUME NEW u \in Threads, NEW b \in Sites, Pending(u, b)
                 PROVE  u = t /\ b = a /\ pending[u][b] = c
      OBVIOUS
    <2>1. u = t /\ pending[u][b] \in Calls
      BY <1>1, OnlyThread, Typed DEF Pending
    <2>2. hit[u] # [kind |-> "return", call |-> pending[u][b]]
      BY <1>2, <2>1
    <2>3. pending[u][b] = c
      BY <1>1, <1>3, <2>1, <2>2 DEF FiledIsOpen
    <2>4. b = a
      BY <1>1, <1>2, <2>3 DEF PendingOwned
    <2> QED
      BY <2>1, <2>3, <2>4
  <1>7. ~Wrote(c) /\ ~Wrote(c)'
    BY <1>1, <1>2, <1>4 DEF Wrote, OnlyReturnedWritten
  <1>8. \A u \in Threads, b \in Sites : Pending(u, b)' =>
           u = t /\ b = a /\ pending'[u][b] = c
    <2> SUFFICES ASSUME NEW u \in Threads, NEW b \in Sites, Pending(u, b)'
                 PROVE  u = t /\ b = a /\ pending'[u][b] = c
      OBVIOUS
    <2>1. u = t
      BY <1>1, OnlyThread
    <2>2. b # a => Pending(u, b)
      BY <1>5 DEF Pending
    <2> QED
      BY <1>5, <1>6, <2>1, <2>2
  <1>9. OnlyReturnedWritten'
    BY <1>1, <1>4 DEF OnlyReturnedWritten
  <1>10. FiledIsOpen'
    BY <1>1, <1>2, <1>7, <1>8 DEF FiledIsOpen
  <1>11. BreakpointsOfFiled'
    <2>1. \A b \in Sites : b \in oneshots' <=> b = a
      BY <1>1, <1>4, <1>6 DEF BreakpointsOfFiled
    <2>2. Pending(t, a)'
      BY <1>2, <1>5 DEF Pending
    <2>3. ~AtReturn(t)'
      BY <1>1, <1>2 DEF AtReturn
    <2>4. \A u \in Threads : u = t
      BY <1>1, OnlyThread
    <2>5. \A u \in Threads, b \in Sites :
             (b \in oneshots' => Pending(u, b)') /\ (Pending(u, b)' => b \in oneshots')
      BY <1>8, <2>1, <2>2, <2>4
    <2>6. \A u \in Threads : ~AtReturn(u)'
      BY <2>3, <2>4
    <2> QED
      BY <2>5, <2>6 DEF BreakpointsOfFiled
  <1>12. LiveIsFiled'
    <2> SUFFICES ASSUME NEW u \in Threads, NEW d \in LiveOn(u)'
                 PROVE  pending'[u][calls'[d].site] = d
      BY DEF LiveIsFiled
    <2>1. d = c /\ u = t
      BY <1>1, <1>3, OnlyThread DEF LiveOn, Live
    <2> QED
      BY <1>1, <1>2, <1>5, <2>1
  <1>13. \A d \in Calls : StateOf(d)' = StateOf(d)
    <2> SUFFICES ASSUME NEW d \in Calls
                 PROVE  StateOf(d)' = StateOf(d)
      OBVIOUS
    <2>1. Wrote(d)' <=> Wrote(d)
      BY <1>4 DEF Wrote
    <2>2. CASE d = c
      BY <1>1, <1>2, <1>7, <2>2, StateFacts, StateFactsAfter DEF StateMeaning
    <2>3. CASE d # c
      <3>1. ~Filed(d) /\ ~Filed(d)'
        BY <1>6, <1>8, <2>3, DebuggeeAssumption DEF Filed, Pending
      <3>2. Promised(d)' <=> Promised(d)
        BY <1>1, <3>1 DEF Promised
      <3> QED
        BY <1>1, <2>1, <3>2, StateSame DEF Born
    <2> QED
      BY <2>2, <2>3
  <1>14. DueIsStopped'
    <2> SUFFICES ASSUME NEW d \in Calls, StateOf(d) = "due"
                 PROVE  FALSE
      BY <1>13 DEF DueIsStopped
    <2>1. hit[t] = [kind |-> "return", call |-> d]
      BY <1>1, OnlyThread DEF DueIsStopped
    <2> QED
      BY <1>2, <2>1
  <1> QED
    BY <1>1, <1>4, <1>9, <1>10, <1>11, <1>12, <1>13, <1>14 DEF RInv, WhileOn

\* A stop is ignored: it is neither the return of a pending call nor the
\* first stop of a selected one.
LEMMA StopIgnored ==
    ASSUME IInv, RInv, NEW t, HandlingOf(t), IgnoreStop(t)
    PROVE  RInv' /\ UNCHANGED written /\ \A d \in Calls : StateOf(d)' = StateOf(d)
  <1>1. /\ TInv /\ PendingOwned
        /\ OneLive /\ StopsFollowCalls /\ OnlyReturnedWritten
        /\ FiledIsOpen /\ BreakpointsOfFiled /\ LiveIsFiled /\ DueIsStopped
        /\ ~Over /\ ~Over'
        /\ OneLive' /\ StopsFollowCalls' /\ BeforeArmed'
        /\ t \in Threads
        /\ UNCHANGED <<calls, hit, missed, proc>>
        /\ ~IsReturn(t) /\ ~IsEntry(t)
        /\ UNCHANGED <<oneshots, pending, written>>
    BY HandlingFrame DEF HandlingOf, IgnoreStop
  <1>2. OnlyReturnedWritten' /\ \A d \in Calls : StateOf(d)' = StateOf(d)
    BY <1>1, QuietCalls, QuietStates
  <1>3. ASSUME NEW b \in Sites, NEW x \in Calls,
               pending[t][b] = x, hit[t] = [kind |-> "return", call |-> x]
        PROVE  FALSE
    <2>1. Pending(t, b)
      BY <1>3, DebuggeeAssumption DEF Pending
    <2>2. calls[x].site = b
      BY <1>1, <1>3, <2>1 DEF PendingOwned
    <2>3. AtReturn(t) /\ ReturnAddress(t) = b
      BY <1>3, <2>2 DEF AtReturn, ReturnAddress
    <2> QED
      BY <1>1, <2>1, <2>3 DEF IsReturn
  <1>4. FiledIsOpen'
    <2> SUFFICES ASSUME NEW u \in Threads, NEW b \in Sites, Pending(u, b)
                 PROVE  ~Wrote(pending[u][b]) /\ calls[pending[u][b]].status = "live"
      BY <1>1 DEF FiledIsOpen, Pending, Wrote
    <2>1. u = t /\ pending[u][b] \in Calls
      BY <1>1, OnlyThread, Typed DEF Pending
    <2>2. hit[u] # [kind |-> "return", call |-> pending[u][b]]
      BY <1>3, <2>1
    <2> QED
      BY <1>1, <2>2 DEF FiledIsOpen
  <1>5. BreakpointsOfFiled'
    BY <1>1 DEF BreakpointsOfFiled, Pending, AtReturn, ReturnAddress
  <1>6. LiveIsFiled'
    <2> SUFFICES ASSUME NEW u \in Threads, NEW c \in LiveOn(u), Selected(c), c \notin missed
                 PROVE  pending[u][calls[c].site] = c
      BY <1>1 DEF LiveIsFiled, LiveOn, Live, Selected
    <2>1. u = t /\ c \in Calls /\ calls[c].status = "live"
      BY <1>1, OnlyThread DEF LiveOn, Live
    <2>2. CASE hit[t] = [kind |-> "entry", call |-> c]
      <3>1. InSymbol(t) /\ FrameSymbol(t) = calls[c].symbol /\ ~AtReturn(t)
        BY <2>1, <2>2, DebuggeeAssumption DEF InSymbol, FrameSymbol, AtReturn
      <3>2. TakenForDuplicate(t)
        BY <1>1, <3>1 DEF IsEntry, ShouldTrace, Selected
      <3>3. PICK b \in Sites : Pending(t, b)
        BY <3>2 DEF TakenForDuplicate, ThreadHasPending
      <3>4. pending[t][b] \in Calls
        BY <1>1, <3>3, Typed DEF Pending
      <3>5. hit[t] # [kind |-> "return", call |-> pending[t][b]]
        BY <2>2
      <3>6. calls[pending[t][b]].status = "live"
        BY <1>1, <3>3, <3>5 DEF FiledIsOpen
      <3>7. pending[t][b] = c
        BY <1>1, <2>1, <3>4, <3>6 DEF OneLive, Live
      <3>8. calls[c].site = b
        BY <1>1, <3>3, <3>7 DEF PendingOwned
      <3> QED
        BY <2>1, <3>7, <3>8
    <2>3. CASE hit[t] # [kind |-> "entry", call |-> c]
      BY <1>1, <2>1, <2>3 DEF LiveIsFiled
    <2> QED
      BY <2>2, <2>3
  <1>7. DueIsStopped'
    <2> SUFFICES ASSUME NEW d \in Calls, StateOf(d) = "due"
                 PROVE  FALSE
      BY <1>2 DEF DueIsStopped
    <2>0. calls[d].site \in Sites
      BY <1>1, StateFacts, Typed, RecordFacts DEF StateMeaning
    <2>1. hit[t] = [kind |-> "return", call |-> d] /\ pending[t][calls[d].site] = d
      BY <1>1, OnlyThread DEF DueIsStopped
    <2> QED
      BY <1>3, <2>0, <2>1
  <1> QED
    BY <1>1, <1>2, <1>4, <1>5, <1>6, <1>7 DEF RInv, WhileOn

-----------------------------------------------------------------------------
\* The mapping.

AbstractState == [c \in Calls |-> StateOf(c)]
AbstractStep  == CL!Next \/ UNCHANGED CL!vars

LEMMA MapStutter ==
    ASSUME UNCHANGED written, Over' <=> Over, \A d \in Calls : StateOf(d)' = StateOf(d)
    PROVE  AbstractStep
  <1>1. AbstractState' = AbstractState
    BY DEF AbstractState
  <1>2. Over' = Over
    BY DEF Over
  <1>3. [i \in DOMAIN written |-> written[i].call]' = [i \in DOMAIN written |-> written[i].call]
    OBVIOUS
  <1> QED
    BY <1>1, <1>2, <1>3 DEF AbstractStep, CL!vars, AbstractState

LEMMA MapMove ==
    ASSUME NEW c \in Calls, NEW to, StateOf(c)' = to,
           \A d \in Calls \ {c} : StateOf(d)' = StateOf(d)
    PROVE  AbstractState' = [AbstractState EXCEPT ![c] = to]
  BY DEF AbstractState

\* The loop is left: what was due is closed.
LEMMA MapShut ==
    ASSUME UNCHANGED <<calls, pending, written>>, ~Over, Over'
    PROVE  AbstractStep
  <1>1. \A d \in Calls : StateOf(d)' = IF StateOf(d) = "due" THEN "closed" ELSE StateOf(d)
    <2> SUFFICES ASSUME NEW d \in Calls
                 PROVE  StateOf(d)' = IF StateOf(d) = "due" THEN "closed" ELSE StateOf(d)
      OBVIOUS
    <2>1. (Wrote(d)' <=> Wrote(d)) /\ ~Promised(d)'
      BY DEF Wrote, Promised
    <2>2. CASE StateOf(d) = "due"
      <3>1. Born(d) /\ calls[d].status = "returned" /\ ~Wrote(d)
        BY <2>2, StateFacts DEF StateMeaning
      <3>2. StateOf(d)' = "closed"
        BY <2>1, <3>1, StateFactsAfter DEF StateMeaning, Born
      <3> QED
        BY <2>2, <3>2
    <2>3. CASE StateOf(d) # "due"
      <3>1. ~Wrote(d) => ~Promised(d)
        BY <2>3, StateFacts DEF StateMeaning
      <3>2. StateOf(d)' = StateOf(d)
        BY <2>1, <3>1, StateSame DEF Born
      <3> QED
        BY <2>3, <3>2
    <2> QED
      BY <2>2, <2>3
  <1>2. CL!Shut
    BY <1>1 DEF CL!Shut
  <1> QED
    BY <1>2 DEF AbstractStep, CL!Next

\* A step of the target.
LEMMA TargetMaps ==
    ASSUME IInv, RInv, Target
    PROVE  RInv' /\ AbstractStep
  <1>1. UNCHANGED written /\ ~Over /\ ~Over'
    BY TargetFrame
  <1>2. ASSUME NEW t \in Threads, NEW c \in Calls, NEW f \in Symbols, NEW a \in Sites,
               Call(t, c, f, a)
        PROVE  RInv' /\ AbstractStep
    <2>1. /\ RInv'
          /\ \A d \in Calls : StateOf(d) # "due"
          /\ StateOf(c) = "unborn" /\ StateOf(c)' = "open"
          /\ \A d \in Calls \ {c} : StateOf(d)' = StateOf(d)
      BY <1>2, CallKeeps
    <2>2. AbstractState' = [AbstractState EXCEPT ![c] = "open"]
      BY <2>1, MapMove
    <2>3. CL!Begin(c)
      BY <1>1, <2>1, <2>2 DEF CL!Begin, CL!Move, AbstractState, Over
    <2> QED
      BY <2>1, <2>3 DEF AbstractStep, CL!Next
  <1>3. ASSUME NEW t \in Threads, NEW c \in Calls, NEW g \in Symbols, Branch(t, c, g)
        PROVE  RInv' /\ AbstractStep
    BY <1>1, <1>3, BranchKeeps, MapStutter
  <1>4. ASSUME NEW t \in Threads, NEW c \in Calls, Return(t, c)
        PROVE  RInv' /\ AbstractStep
    <2>1. /\ RInv'
          /\ StateOf(c) = "open" /\ StateOf(c)' \in {"due", "closed"}
          /\ \A d \in Calls \ {c} : StateOf(d)' = StateOf(d)
      BY <1>4, ReturnStep DEF ReturnKeeps
    <2>2. \/ AbstractState' = [AbstractState EXCEPT ![c] = "due"]
          \/ AbstractState' = [AbstractState EXCEPT ![c] = "closed"]
      BY <2>1, MapMove
    <2>3. CL!Due(c) \/ CL!Close(c)
      BY <1>1, <2>1, <2>2 DEF CL!Due, CL!Close, CL!Move, AbstractState, Over
    <2> QED
      BY <2>1, <2>3 DEF AbstractStep, CL!Next
  <1>5. ASSUME NEW t \in Threads, NEW c \in Calls, Abandon(t, c)
        PROVE  FALSE
    BY <1>5, Sequential DEF Abandon
  <1>6. CASE (\E t \in Threads : Signal(t)) \/ (\E t \in Threads : Halt(t)) \/ Die
    BY <1>1, <1>6, StopStep, MapStutter
  <1> QED
    BY <1>2, <1>3, <1>4, <1>5, <1>6, TargetCases

\* The loop wakes up: it is left, or a stop is handled.
LEMMA WakeMaps ==
    ASSUME IInv, RInv, Wake
    PROVE  RInv' /\ AbstractStep
  <1>1. CASE UNCHANGED <<pending, written>> /\ pc' = "returned"
    <2>1. /\ ~Over /\ Over'
          /\ UNCHANGED <<calls, hit, missed, armed>>
      BY <1>1 DEF Wake, Over
    <2> QED
      BY <1>1, <2>1, OverKeeps, MapShut
  <1>2. CASE proc = "stopped" /\ HandleStop(selected) /\ pc' = "handled"
    <2>1. PICK t \in Threads : t = selected
      BY <1>2 DEF IInv, TInv, SelectedStopped
    <2>2. HandlingOf(t) /\ HandleStop(t)
      BY <1>2, <2>1 DEF Wake, HandlingOf
    <2>3. ~Over /\ ~Over'
      BY <2>2, HandlingFrame
    <2>4. CASE HandleReturn(t)
      <3>1. RInv'
        BY <2>2, <2>4, ReturnHandled
      <3>2. PICK c \in Calls :
              /\ StateOf(c) = "due" /\ StateOf(c)' = "logged"
              /\ \A d \in Calls \ {c} : StateOf(d)' = StateOf(d)
              /\ \E e \in Events : e.call = c /\ written' = Append(written, e)
        BY <2>2, <2>4, ReturnHandled
      <3>3. AbstractState' = [AbstractState EXCEPT ![c] = "logged"]
        BY <3>2, MapMove
      <3>4. [i \in DOMAIN written |-> written[i].call]'
              = Append([i \in DOMAIN written |-> written[i].call], c)
        BY <3>2, Typed DEF IInv
      <3>5. CL!Log(c)
        BY <2>3, <3>2, <3>3, <3>4 DEF CL!Log, CL!Move, AbstractState, Over
      <3> QED
        BY <3>1, <3>5 DEF AbstractStep, CL!Next
    <2>5. CASE HandleEntry(t)
      BY <2>2, <2>3, <2>5, EntryHandled, MapStutter
    <2>6. CASE IgnoreStop(t)
      BY <2>2, <2>3, <2>6, StopIgnored, MapStutter
    <2> QED
      BY <2>2, <2>4, <2>5, <2>6 DEF HandleStop
  <1> QED
    BY <1>1, <1>2 DEF Wake, EndIfOver, Leave

\* Every step keeps the invariant, and is a step of CallLog or a stutter.
LEMMA StepMaps == IInv /\ RInv /\ [Next]_vars => RInv' /\ AbstractStep
  <1> SUFFICES ASSUME IInv, RInv, [Next]_vars
               PROVE  RInv' /\ AbstractStep
    OBVIOUS
  <1>1. ASSUME ~Over, ~Over',
               UNCHANGED <<calls, hit, pending, written, oneshots, missed, proc>>,
               pc = "blocked" => pc' = "blocked",
               pc' = "start" => pc = "start" /\ ~armed',
               ~armed' => ~armed
        PROVE  RInv' /\ AbstractStep
    BY <1>1, OnKeeps, MapStutter
  <1>2. ASSUME Over, Over', UNCHANGED <<calls, hit, pending, written, missed, armed>>
        PROVE  RInv' /\ AbstractStep
    BY <1>2, OverKeeps, QuietStates, MapStutter
  <1>3. ASSUME ~Over, Over', UNCHANGED <<calls, hit, pending, written, missed, armed>>
        PROVE  RInv' /\ AbstractStep
    BY <1>3, OverKeeps, MapShut
  <1>4. CASE Launch
    BY <1>1, <1>4 DEF Launch, Over
  <1>5. CASE Attach
    BY <1>1, <1>3, <1>5 DEF Attach, Leave, Over
  <1>6. CASE Wake
    BY <1>6, WakeMaps
  <1>7. CASE Continue
    <2>1. UNCHANGED written
      BY <1>7 DEF Continue
    <2> QED
      BY <1>7, <2>1, ContinueKeeps, MapStutter
  <1>8. CASE Quit
    BY <1>3, <1>8 DEF Quit, Leave, debuggeeVars, Over
  <1>9. CASE Finish
    BY <1>2, <1>9 DEF Finish, Over
  <1>10. CASE Interrupt
    BY <1>1, <1>10 DEF Interrupt, debuggeeVars, Over, RInv, BeforeArmed
  <1>11. CASE Target
    BY <1>11, TargetMaps
  <1>12. CASE UNCHANGED vars
    BY <1>1, <1>2, <1>12 DEF vars, Over, RInv, BeforeArmed
  <1> QED
    BY <1>4, <1>5, <1>6, <1>7, <1>8, <1>9, <1>10, <1>11, <1>12 DEF Next, Loop

\* The initial states satisfy the invariant and map to those of CallLog.
LEMMA InitMaps == Init => RInv /\ CL!Init
  <1> SUFFICES ASSUME Init
               PROVE  RInv /\ CL!Init
    OBVIOUS
  <1>1. /\ pc = "start" /\ ~armed /\ written = <<>> /\ oneshots = {}
        /\ \A t \in Threads : hit[t] = NoStop
        /\ \A c \in Calls : calls[c] = Unborn
        /\ \A t \in Threads, a \in Sites : ~Pending(t, a)
    BY DEF Init, DebuggeeInit, Pending
  <1>2. Live = {} /\ ~Over /\ \A c \in Calls : ~Wrote(c) /\ ~Born(c)
    BY <1>1 DEF Live, Unborn, Wrote, Born, Over
  <1>3. \A c \in Calls : StateOf(c) = "unborn"
    BY <1>2, StateFacts DEF StateMeaning
  <1>4. OneLive /\ StopsFollowCalls /\ OnlyReturnedWritten /\ BeforeArmed
    BY <1>1, <1>2, StopFacts DEF OneLive, StopsFollowCalls, OnlyReturnedWritten, BeforeArmed
  <1>5. FiledIsOpen /\ LiveIsFiled /\ DueIsStopped
    BY <1>1, <1>2, <1>3 DEF FiledIsOpen, LiveIsFiled, LiveOn, DueIsStopped
  <1>6. BreakpointsOfFiled
    BY <1>1, StopFacts DEF BreakpointsOfFiled, AtReturn
  <1>7. CL!Init
    BY <1>1, <1>2, <1>3 DEF CL!Init, Over
  <1> QED
    BY <1>4, <1>5, <1>6, <1>7 DEF RInv, WhileOn

\* Tracer keeps CallLog: with a sequential target, the trace shows the calls
\* in order and once each, and every selected call that returned under trace
\* is in it before the next one begins.
THEOREM TraceKeepsCallLog == Spec => KeepsCallLog
  <1>1. Init => IInv /\ RInv /\ CL!Init
    BY SoundInit, InitMaps
  <1>2. (IInv /\ RInv) /\ [Next]_vars => (IInv /\ RInv)'
    BY SoundNext, StepMaps
  <1>3. IInv /\ RInv /\ [Next]_vars => [CL!Next]_(CL!vars)
    BY StepMaps DEF AbstractStep
  <1> QED
    BY <1>1, <1>2, <1>3, PTL DEF Spec, KeepsCallLog, CL!SafeSpec
=============================================================================
