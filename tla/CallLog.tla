------------------------------ MODULE CallLog -------------------------------
(***************************************************************************)
(* What strace promises of a sequential target: every call that returns    *)
(* under trace is logged, once, before the target begins its next call;    *)
(* the only call that may stay unlogged is the last one, and only because  *)
(* the trace was shut.                                                     *)
(***************************************************************************)
EXTENDS Sequences

CONSTANT Calls

VARIABLES state,  \* how far each call is
          log,    \* the calls logged, in order
          shut    \* the trace is over

vars == <<state, log, shut>>

Init ==
    /\ state = [c \in Calls |-> "unborn"]
    /\ log = <<>>
    /\ shut = FALSE

Move(c, from, to) == state[c] = from /\ state' = [state EXCEPT ![c] = to]

\* The log is up to date whenever a call begins.
Begin(c) ==
    /\ \A d \in Calls : state[d] # "due"
    /\ Move(c, "unborn", "open")
    /\ UNCHANGED <<log, shut>>

\* The call returns and has to be logged.
Due(c) == Move(c, "open", "due") /\ UNCHANGED <<log, shut>>

Log(c) ==
    /\ ~shut
    /\ Move(c, "due", "logged")
    /\ log' = Append(log, c)
    /\ UNCHANGED shut

\* The call ends and is none of the log's: not selected, or not seen to begin.
Close(c) == Move(c, "open", "closed") /\ UNCHANGED <<log, shut>>

Shut ==
    /\ ~shut
    /\ shut' = TRUE
    /\ state' = [c \in Calls |-> IF state[c] = "due" THEN "closed" ELSE state[c]]
    /\ UNCHANGED log

Next == (\E c \in Calls : Begin(c) \/ Due(c) \/ Log(c) \/ Close(c)) \/ Shut

Settle == (\E c \in Calls : Log(c)) \/ (Shut /\ \E c \in Calls : state[c] = "due")

\* Nothing wrong is ever logged; and what is due is logged at last.
SafeSpec == Init /\ [][Next]_vars

Spec == SafeSpec /\ WF_vars(Settle)
=============================================================================
