------------------------------- MODULE Outage -------------------------------
(***************************************************************************)
(* What the black-start workflow promises to those outside the program,    *)
(* without a word on statuses, records, messages or the scheduler: how a   *)
(* response to an outage may go, and what it takes to feed the bus from    *)
(* the main grid again.  BlackStart is shown to implement this             *)
(* specification (ImplementsOutage).                                       *)
(***************************************************************************)
EXTENDS Integers

CONSTANTS
    Responses,    \* responses to outages that may ever be begun
    Connections,  \* connections to the main grid that may be proposed
    Parties,      \* those whose approval a connection needs
    Limit         \* ticks within which the bus has to be energized

VARIABLES
    now,       \* the wall clock
    stage,     \* response -> how far it got
    due,       \* response -> when its bus has to be energized, 0 before it
    proposed,  \* the pairs <<connection, response it was proposed for>>
    approved,  \* connection -> the parties that approved it
    closed     \* the connections through which the grid feeds the bus

vars == <<now, stage, due, proposed, approved, closed>>

Init ==
    /\ now = 1
    /\ stage = [r \in Responses |-> "none"]
    /\ due = [r \in Responses |-> 0]
    /\ proposed = {}
    /\ approved = [c \in Connections |-> {}]
    /\ closed = {}

(***************************************************************************)
(* One response at a time: the last one is over, well or badly.            *)
(***************************************************************************)
Begin(r) ==
    /\ \A s \in Responses : stage[s] \in {"none", "connected", "failed"}
    /\ stage[r] = "none"
    /\ stage' = [stage EXCEPT ![r] = "underway"]
    /\ due' = [due EXCEPT ![r] = now + Limit]
    /\ UNCHANGED <<now, proposed, approved, closed>>

Energize(r) ==
    /\ stage[r] = "underway"
    /\ now <= due[r]
    /\ stage' = [stage EXCEPT ![r] = "energized"]
    /\ UNCHANGED <<now, due, proposed, approved, closed>>

(***************************************************************************)
(* Only lateness fails a response, and only one whose bus is still dead.   *)
(***************************************************************************)
Fail(r) ==
    /\ stage[r] = "underway"
    /\ now > due[r]
    /\ stage' = [stage EXCEPT ![r] = "failed"]
    /\ UNCHANGED <<now, due, proposed, approved, closed>>

Propose(c, r) ==
    /\ \A s \in Responses : <<c, s>> \notin proposed
    /\ stage[r] = "energized"
    /\ proposed' = proposed \cup {<<c, r>>}
    /\ UNCHANGED <<now, stage, due, approved, closed>>

Approve(c, p) ==
    /\ \E r \in Responses : <<c, r>> \in proposed
    /\ c \notin closed
    /\ p \notin approved[c]
    /\ approved' = [approved EXCEPT ![c] = @ \cup {p}]
    /\ UNCHANGED <<now, stage, due, proposed, closed>>

(***************************************************************************)
(* Everybody's approval is enough: a connection of a response that has     *)
(* been concluded with another one may still be closed, as it may in the   *)
(* program (NoSynchronizationAfterCompletion in BlackStart).               *)
(***************************************************************************)
Close(c) ==
    /\ approved[c] = Parties
    /\ closed' = closed \cup {c}
    /\ UNCHANGED <<now, stage, due, proposed, approved>>

Conclude(r) ==
    /\ stage[r] = "energized"
    /\ \E c \in closed : <<c, r>> \in proposed
    /\ stage' = [stage EXCEPT ![r] = "connected"]
    /\ UNCHANGED <<now, due, proposed, approved, closed>>

Tick ==
    /\ now' = now + 1
    /\ UNCHANGED <<stage, due, proposed, approved, closed>>

Next ==
    \/ \E r \in Responses : Begin(r) \/ Energize(r) \/ Fail(r) \/ Conclude(r)
    \/ \E c \in Connections :
          \/ \E r \in Responses : Propose(c, r)
          \/ \E p \in Parties : Approve(c, p)
          \/ Close(c)
    \/ Tick

Spec == Init /\ [][Next]_vars

=============================================================================
