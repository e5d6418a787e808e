------------------------------ MODULE Callout ------------------------------
(***************************************************************************)
(* What the repair loop promises to those who depend on it, without a word *)
(* on statuses, records or the scheduler's sweeps: a fault that was called *)
(* in waits for a team, belongs to the first team that takes it, is handed *)
(* to the team leader when it has waited too long, and calls for backup    *)
(* whenever it gets worse while a team is at it.  RepairLoop is shown to   *)
(* implement this specification (ImplementsCallout).                       *)
(***************************************************************************)
EXTENDS Integers

CONSTANTS
    Jobs,      \* jobs that may ever be called in
    Teams,     \* those that may take one
    NoTeam,    \* no team yet
    Patience   \* ticks a job may wait before it is the leader's concern

VARIABLES
    now,     \* the wall clock
    stage,   \* job -> how far it got
    since,   \* job -> when it was called in
    team,    \* job -> the team that took it
    leader,  \* the jobs the team leader was given
    backup   \* the pairs <<job, job it is the backup for>>

vars == <<now, stage, since, team, leader, backup>>

Init ==
    /\ now = 1
    /\ stage = [j \in Jobs |-> "none"]
    /\ since = [j \in Jobs |-> 0]
    /\ team = [j \in Jobs |-> NoTeam]
    /\ leader = {}
    /\ backup = {}

CallIn(j) ==
    /\ stage[j] = "none"
    /\ stage' = [stage EXCEPT ![j] = "waiting"]
    /\ since' = [since EXCEPT ![j] = now]
    /\ UNCHANGED <<now, team, leader, backup>>

(***************************************************************************)
(* Also a job the leader was given: it is nobody's until a team takes it.  *)
(***************************************************************************)
Take(j, t) ==
    /\ stage[j] = "waiting"
    /\ stage' = [stage EXCEPT ![j] = "manned"]
    /\ team' = [team EXCEPT ![j] = t]
    /\ UNCHANGED <<now, since, leader, backup>>

(***************************************************************************)
(* A job gets worse and calls its backup in one step: a job of its own,    *)
(* with its own wait.                                                      *)
(***************************************************************************)
CallBackup(j, k) ==
    /\ stage[j] = "manned"
    /\ stage[k] = "none"
    /\ stage' = [stage EXCEPT ![j] = "worse", ![k] = "waiting"]
    /\ since' = [since EXCEPT ![k] = now]
    /\ backup' = backup \cup {<<k, j>>}
    /\ UNCHANGED <<now, team, leader>>

(***************************************************************************)
(* The team goes on, and the job may get worse, and call, once more.       *)
(***************************************************************************)
Resume(j) ==
    /\ stage[j] = "worse"
    /\ stage' = [stage EXCEPT ![j] = "manned"]
    /\ UNCHANGED <<now, since, team, leader, backup>>

(***************************************************************************)
(* Only a job some team has taken is finished; nobody is asked who they    *)
(* are, and the backups are not waited for.                                *)
(***************************************************************************)
Finish(j) ==
    /\ stage[j] \in {"manned", "worse"}
    /\ stage' = [stage EXCEPT ![j] = "done"]
    /\ UNCHANGED <<now, since, team, leader, backup>>

CallOff(j) ==
    /\ stage[j] \in {"waiting", "manned", "worse"}
    /\ stage' = [stage EXCEPT ![j] = "called_off"]
    /\ UNCHANGED <<now, since, team, leader, backup>>

(***************************************************************************)
(* The leader is given every job that has waited too long by then, and     *)
(* no other.                                                               *)
(***************************************************************************)
HandOver ==
    /\ leader' = leader \cup {j \in Jobs : /\ stage[j] = "waiting"
                                           /\ now - since[j] > Patience}
    /\ UNCHANGED <<now, stage, since, team, backup>>

Tick ==
    /\ now' = now + 1
    /\ UNCHANGED <<stage, since, team, leader, backup>>

Next ==
    \/ \E j \in Jobs :
          \/ CallIn(j) \/ Resume(j) \/ Finish(j) \/ CallOff(j)
          \/ \E t \in Teams : Take(j, t)
          \/ \E k \in Jobs : CallBackup(j, k)
    \/ HandOver
    \/ Tick

Spec == Init /\ [][Next]_vars

=============================================================================
