------------------------------- MODULE Server -------------------------------
(***************************************************************************)
(* The process around the workflows: the goroutines net/http starts for    *)
(* requests, the scheduler's loop (internal/scheduler), main's start and   *)
(* shutdown (cmd/server/main.go) and the one lock they share, Service.mu.  *)
(* How the configuration is loaded is Config's business.  What the         *)
(* methods compute is left to BlackStart and RepairLoop; here a method is  *)
(* the time it spends waiting for the lock and the time it holds it.       *)
(*                                                                         *)
(* Three kinds of request matter: those whose method never takes the lock  *)
(* (the reads, the health check, registering a cabin, creating an          *)
(* inspection), those whose method holds it from its first line to its     *)
(* return, and telemetry for a cabin nobody registered, which returns      *)
(* without having released it.                                             *)
(***************************************************************************)
EXTENDS Naturals

CONSTANTS
    Workers,    \* goroutines serving requests, one request at a time each
    scheduler,  \* the goroutine of Scheduler.loop
    Free        \* Service.mu is unlocked

ASSUME ServerAssumption ==
    /\ scheduler \notin Workers
    /\ Free \notin Workers \cup {scheduler}

VARIABLES
    mu,       \* who locked Service.mu last and has not unlocked it, or Free
    pc,       \* where each goroutine is
    request,  \* what each worker is serving
    sweep,    \* which of tick's three calls the scheduler is at
    ticked,   \* the ticker's channel, of capacity one, holds a tick
    done,     \* the signal context is cancelled
    main      \* where main is

vars == <<mu, pc, request, sweep, ticked, done, main>>

Threads == Workers \cup {scheduler}

Request == {"unlocked", "locked", "unknown_cabin"}

(***************************************************************************)
(* EscalateTimedOutWorkOrders, FailExpiredBlackStarts, ResendPendingSMS.   *)
(***************************************************************************)
Sweeps == 1..3

TypeOK ==
    /\ mu \in Threads \cup {Free}
    /\ pc \in [Threads -> {"idle", "unlocked", "locking", "inside",
                           "select", "stopped"}]
    /\ request \in [Workers -> Request]
    /\ sweep \in Sweeps
    /\ ticked \in BOOLEAN
    /\ done \in BOOLEAN
    /\ main \in {"starting", "serving", "draining", "stopped", "crashed"}

Init ==
    /\ mu = Free
    /\ pc = [t \in Threads |-> "idle"]
    /\ request = [w \in Workers |-> "unlocked"]
    /\ sweep = 1
    /\ ticked = FALSE
    /\ done = FALSE
    /\ main = "starting"

GoTo(t, place) == pc' = [pc EXCEPT ![t] = place]

-----------------------------------------------------------------------------
(* Service.mu and the requests *)

(***************************************************************************)
(* s.mu.Lock() returns.                                                    *)
(***************************************************************************)
Lock(t) ==
    /\ pc[t] = "locking"
    /\ mu = Free
    /\ mu' = t
    /\ GoTo(t, "inside")
    /\ UNCHANGED <<request, sweep, ticked, done, main>>

\* Mutant: reads take Service.mu too.
ReceiveAllLocked(w, r) ==
    /\ main = "serving"
    /\ pc[w] = "idle"
    /\ request' = [request EXCEPT ![w] = r]
    /\ GoTo(w, "locking")
    /\ UNCHANGED <<mu, sweep, ticked, done, main>>

(***************************************************************************)
(* No request is accepted once Shutdown has closed the listener.           *)
(***************************************************************************)
Receive(w, r) ==
    /\ main = "serving"
    /\ pc[w] = "idle"
    /\ request' = [request EXCEPT ![w] = r]
    /\ GoTo(w, IF r = "unlocked" THEN "unlocked" ELSE "locking")
    /\ UNCHANGED <<mu, sweep, ticked, done, main>>

\* Mutant: unlocks Service.mu in a method that has not locked it.
AnswerUnlocking(w) ==
    /\ pc[w] = "unlocked"
    /\ GoTo(w, "idle")
    /\ mu' = Free
    /\ UNCHANGED <<request, sweep, ticked, done, main>>

AnswerUnlocked(w) ==
    /\ pc[w] = "unlocked"
    /\ GoTo(w, "idle")
    /\ UNCHANGED <<mu, request, sweep, ticked, done, main>>

\* Mutant: any locked method may return without having unlocked.
AnswerLockedLeaving(w) ==
    /\ pc[w] = "inside"
    /\ mu' \in {mu, Free}
    /\ GoTo(w, "idle")
    /\ UNCHANGED <<request, sweep, ticked, done, main>>

(***************************************************************************)
(* The deferred Unlock of every locked method, whatever it returns;        *)
(* UpdateBatteryCabinTelemetry unlocks by hand, and not on its error path. *)
(***************************************************************************)
AnswerLocked(w) ==
    /\ pc[w] = "inside"
    /\ mu' = IF request[w] = "unknown_cabin" THEN mu ELSE Free
    /\ GoTo(w, "idle")
    /\ UNCHANGED <<request, sweep, ticked, done, main>>

-----------------------------------------------------------------------------
(* The scheduler *)

(***************************************************************************)
(* The ticker drops a tick nobody has received yet.                        *)
(***************************************************************************)
TickerFires ==
    /\ pc[scheduler] \notin {"idle", "stopped"}
    /\ ticked' = TRUE
    /\ UNCHANGED <<mu, pc, request, sweep, done, main>>

(***************************************************************************)
(* select takes any case that is ready, so a tick may still be taken after *)
(* the cancellation.                                                       *)
(***************************************************************************)
SelectTick ==
    /\ pc[scheduler] = "select"
    /\ ticked
    /\ ticked' = FALSE
    /\ sweep' = 1
    /\ GoTo(scheduler, "locking")
    /\ UNCHANGED <<mu, request, done, main>>

SelectDone ==
    /\ pc[scheduler] = "select"
    /\ done
    /\ GoTo(scheduler, "stopped")
    /\ UNCHANGED <<mu, request, sweep, ticked, done, main>>

\* Mutant: counts one sweep too many.
SweepReturnsLate ==
    /\ pc[scheduler] = "inside"
    /\ mu' = Free
    /\ \/ /\ sweep <= 3
          /\ sweep' = sweep + 1
          /\ GoTo(scheduler, "locking")
       \/ /\ sweep > 3
          /\ UNCHANGED sweep
          /\ GoTo(scheduler, "select")
    /\ UNCHANGED <<request, ticked, done, main>>

\* Mutant: leaves the loop after one tick.
SweepReturnsOnce ==
    /\ pc[scheduler] = "inside"
    /\ mu' = Free
    /\ \/ /\ sweep < 3
          /\ sweep' = sweep + 1
          /\ GoTo(scheduler, "locking")
       \/ /\ sweep = 3
          /\ UNCHANGED sweep
          /\ GoTo(scheduler, "stopped")
    /\ UNCHANGED <<request, ticked, done, main>>

\* Mutant: keeps the lock from one sweep to the next.
SweepReturnsLocked ==
    /\ pc[scheduler] = "inside"
    /\ \/ /\ sweep < 3
          /\ sweep' = sweep + 1
          /\ GoTo(scheduler, "locking")
          /\ UNCHANGED mu
       \/ /\ sweep = 3
          /\ UNCHANGED sweep
          /\ GoTo(scheduler, "select")
          /\ mu' = Free
    /\ UNCHANGED <<request, ticked, done, main>>

(***************************************************************************)
(* Each of tick's calls locks and unlocks for itself.                      *)
(***************************************************************************)
SweepReturns ==
    /\ pc[scheduler] = "inside"
    /\ mu' = Free
    /\ \/ /\ sweep < 3
          /\ sweep' = sweep + 1
          /\ GoTo(scheduler, "locking")
       \/ /\ sweep = 3
          /\ UNCHANGED sweep
          /\ GoTo(scheduler, "select")
    /\ UNCHANGED <<request, ticked, done, main>>

-----------------------------------------------------------------------------
(* main *)

(***************************************************************************)
(* The configuration is loaded, the store seeded, the signals caught and   *)
(* the scheduler's loop and the listener started, each in a goroutine.     *)
(***************************************************************************)
Start ==
    /\ main = "starting"
    /\ main' = "serving"
    /\ GoTo(scheduler, "select")
    /\ UNCHANGED <<mu, request, sweep, ticked, done>>

(***************************************************************************)
(* The configuration cannot be loaded, or a signal comes before it is      *)
(* caught.                                                                 *)
(***************************************************************************)
StartFails ==
    /\ main = "starting"
    /\ main' = "crashed"
    /\ UNCHANGED <<mu, pc, request, sweep, ticked, done>>

(***************************************************************************)
(* SIGINT or SIGTERM cancels the context main and the scheduler watch.     *)
(***************************************************************************)
Signal ==
    /\ main # "starting"
    /\ ~done
    /\ done' = TRUE
    /\ UNCHANGED <<mu, pc, request, sweep, ticked, main>>

StartShutdown ==
    /\ main = "serving"
    /\ done
    /\ main' = "draining"
    /\ UNCHANGED <<mu, pc, request, sweep, ticked, done>>

\* Mutant: waits for the requests without a time limit.
ShutdownReturnsDrained ==
    /\ main = "draining"
    /\ \A w \in Workers : pc[w] = "idle"
    /\ main' = "stopped"
    /\ UNCHANGED <<mu, pc, request, sweep, ticked, done>>

(***************************************************************************)
(* server.Shutdown returns when no request is being served or when its ten *)
(* seconds are over, which may be at any moment here; main then returns    *)
(* and the process is gone, the scheduler with it.                         *)
(***************************************************************************)
ShutdownReturns ==
    /\ main = "draining"
    /\ main' = "stopped"
    /\ UNCHANGED <<mu, pc, request, sweep, ticked, done>>

(***************************************************************************)
(* ListenAndServe fails: log.Fatalf ends the process.                      *)
(***************************************************************************)
ListenFails ==
    /\ main = "serving"
    /\ main' = "crashed"
    /\ UNCHANGED <<mu, pc, request, sweep, ticked, done>>

-----------------------------------------------------------------------------
Running == main \in {"starting", "serving", "draining"}

Next ==
    /\ Running
    /\ \/ \E t \in Threads : Lock(t)
       \/ \E w \in Workers :
             \/ \E r \in Request : Receive(w, r)
             \/ AnswerUnlocked(w)
             \/ AnswerLocked(w)
       \/ TickerFires
       \/ SelectTick
       \/ SelectDone
       \/ SweepReturns
       \/ Start
       \/ StartFails
       \/ Signal
       \/ StartShutdown
       \/ ShutdownReturns
       \/ ListenFails

Spec == Init /\ [][Next]_vars

(***************************************************************************)
(* Every goroutine that can run does.  sync.Mutex hands the lock to a      *)
(* waiter that has been passed over for a millisecond, and select chooses  *)
(* among the ready cases with equal odds: a waiter that finds the lock     *)
(* free, and a case that is ready, again and again is chosen eventually.   *)
(* Requests, signals and failures are not owed.                            *)
(***************************************************************************)
Fairness ==
    /\ \A t \in Threads : SF_vars(Running /\ Lock(t))
    /\ \A w \in Workers : /\ WF_vars(Running /\ AnswerUnlocked(w))
                          /\ WF_vars(Running /\ AnswerLocked(w))
    /\ WF_vars(Running /\ TickerFires)
    /\ SF_vars(Running /\ SelectTick)
    /\ WF_vars(Running /\ SelectDone)
    /\ WF_vars(Running /\ SweepReturns)
    /\ WF_vars(Start)
    /\ WF_vars(Running /\ StartShutdown)
    /\ WF_vars(Running /\ ShutdownReturns)

FairSpec == Spec /\ Fairness

-----------------------------------------------------------------------------
(* Safety *)

(***************************************************************************)
(* Service "owns a mutex that serialises multi-step state transitions"     *)
(* (service.go:14): two methods are never inside at once, also after the   *)
(* lock was left locked.  This is what lets the other modules treat a      *)
(* method as one step.                                                     *)
(***************************************************************************)
OneInside ==
    \A t, u \in Threads : pc[t] = "inside" /\ pc[u] = "inside" => t = u

(***************************************************************************)
(* "The background scheduler is built on context cancellation and supports *)
(* graceful shutdown" (README.md:110, translated): when main has returned, *)
(* no sweep of the scheduler was cut short.                                *)
(***************************************************************************)
NoSweepCutShort == main = "stopped" => pc[scheduler] \in {"select", "stopped"}

(***************************************************************************)
(* A worker has returned from its call and left Service.mu locked.         *)
(***************************************************************************)
LeftLocked == \E w \in Workers : mu = w /\ pc[w] # "inside"

(***************************************************************************)
(* The early return of UpdateBatteryCabinTelemetry (service.go:105) is the *)
(* only way to lose the lock, and nothing the program does afterwards,     *)
(* neither another request nor a sweep, ever gives it back: every locked   *)
(* method from then on waits for ever.                                     *)
(***************************************************************************)
LockLostForGood ==
    [][/\ LeftLocked => LeftLocked' /\ mu' = mu
       /\ LeftLocked' => \/ LeftLocked
                         \/ \E w \in Workers : /\ pc[w] = "inside"
                                               /\ request[w] = "unknown_cabin"
                                               /\ mu' = w]_vars

-----------------------------------------------------------------------------
(* Liveness *)

(***************************************************************************)
(* Reads and health checks are always answered, even when every locked     *)
(* method hangs: they do not touch Service.mu.                             *)
(***************************************************************************)
ReadsReturn ==
    \A w \in Workers :
        (request[w] = "unlocked" /\ pc[w] # "idle")
            ~> (pc[w] = "idle" \/ ~Running)

(***************************************************************************)
(* "leaves the service able to serve later write operations"               *)
(* (telemetry_unknown_cabin_test.go:13): a locked method that was called   *)
(* returns, unless the process ends first.                                 *)
(***************************************************************************)
WritesReturn ==
    \A w \in Workers : pc[w] = "locking" ~> (pc[w] = "idle" \/ ~Running)

(***************************************************************************)
(* The same while nobody sends telemetry for an unknown cabin: handlers    *)
(* and the scheduler's sweeps do not lock each other out.                  *)
(***************************************************************************)
WritesReturnUnlessLeftLocked == WritesReturn \/ <>LeftLocked

(***************************************************************************)
(* The scheduler goes on for ever: each of its three sweeps is entered     *)
(* again and again until the process is told to stop, whatever the load on *)
(* Service.mu.  The fairness of BlackStart and of RepairLoop rests on it.  *)
(***************************************************************************)
SweepsKeepComing ==
    \/ \A s \in Sweeps : []<>(pc[scheduler] = "inside" /\ sweep = s)
    \/ <>(LeftLocked \/ done \/ ~Running)

(***************************************************************************)
(* A signal ends the process, even when requests hang for ever.            *)
(***************************************************************************)
ShutdownEnds == done ~> ~Running

=============================================================================
