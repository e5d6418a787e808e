---------------------------- MODULE ServerProofs ----------------------------
(***************************************************************************)
(* What Service.mu guarantees, for any number of workers.  Mutual          *)
(* exclusion alone is not inductive: what is, is that whoever is inside a  *)
(* locked method is the one that locked last and has not unlocked.         *)
(***************************************************************************)
EXTENDS Server, TLAPS

(***************************************************************************)
(* Every step keeps the variables within their types.                      *)
(***************************************************************************)
LEMMA TypeInductive ==
    TypeOK /\ [Next]_vars => TypeOK'
<1> SUFFICES ASSUME TypeOK, [Next]_vars
             PROVE  TypeOK'
  OBVIOUS
<1> USE ServerAssumption DEF TypeOK, Threads, Request, Sweeps, GoTo
<1>1. ASSUME NEW t \in Threads, Lock(t)
      PROVE  TypeOK'
  BY <1>1 DEF Lock
<1>2. ASSUME NEW w \in Workers, NEW r \in Request, Receive(w, r)
      PROVE  TypeOK'
  <2>1. /\ w \in Threads
        /\ (IF r = "unlocked" THEN "unlocked" ELSE "locking")
              \in {"unlocked", "locking"}
    OBVIOUS
  <2> QED  BY <1>2, <2>1 DEF Receive
<1>3. ASSUME NEW w \in Workers, AnswerUnlocked(w)
      PROVE  TypeOK'
  BY <1>3 DEF AnswerUnlocked
<1>4. ASSUME NEW w \in Workers, AnswerLocked(w)
      PROVE  TypeOK'
  BY <1>4 DEF AnswerLocked
<1>5. CASE TickerFires
  BY <1>5 DEF TickerFires
<1>6. CASE SelectTick
  <2>1. pc' = [pc EXCEPT ![scheduler] = "locking"]
    BY <1>6, Zenon DEF SelectTick
  <2>2. sweep' = 1 /\ ticked' = FALSE
    BY <1>6, Zenon DEF SelectTick
  <2>3. mu' = mu /\ request' = request /\ done' = done /\ main' = main
    BY <1>6, Zenon DEF SelectTick
  <2>4. ticked' \in BOOLEAN /\ done' \in BOOLEAN
    BY <2>2, <2>3, Zenon
  <2>5. /\ mu' \in Threads \cup {Free}
        /\ request' \in [Workers -> Request]
        /\ main' \in {"starting", "serving", "draining", "stopped",
                   "crashed"}
    BY <2>3
  <2>6. sweep' \in Sweeps
    BY <2>2
  <2>7. pc' \in [Threads -> {"idle", "unlocked", "locking", "inside",
                            "select", "stopped"}]
    BY <2>1
  <2> QED  BY <2>4, <2>5, <2>6, <2>7, Zenon
<1>7. CASE SelectDone
  BY <1>7 DEF SelectDone
<1>8. CASE SweepReturns
  BY <1>8 DEF SweepReturns
<1>9. CASE Signal \/ StartShutdown \/ ShutdownReturns \/ ListenFails
           \/ StartFails
  BY <1>9 DEF Signal, StartShutdown, ShutdownReturns, ListenFails, StartFails
<1>10. CASE Start
  BY <1>10 DEF Start
<1>11. CASE UNCHANGED vars
  BY <1>11 DEF vars
<1> QED
  BY <1>1, <1>2, <1>3, <1>4, <1>5, <1>6, <1>7, <1>8, <1>9, <1>10, <1>11
     DEF Next

(***************************************************************************)
(* The variables keep their types: in particular the scheduler never       *)
(* counts past its third sweep, and Service.mu names a goroutine.          *)
(***************************************************************************)
THEOREM TypeCorrect == Spec => []TypeOK
<1>1. ASSUME Init
      PROVE  TypeOK
  <2>1. ticked = FALSE /\ done = FALSE
    BY <1>1, Zenon DEF Init
  <2>2. /\ mu = Free
        /\ pc = [t \in Threads |-> "idle"]
        /\ request = [w \in Workers |-> "unlocked"]
        /\ sweep = 1
        /\ main = "starting"
    BY <1>1, Zenon DEF Init
  <2>3. ticked \in BOOLEAN /\ done \in BOOLEAN
    BY <2>1, Zenon
  <2>4. /\ mu \in Threads \cup {Free}
        /\ request \in [Workers -> Request]
        /\ sweep \in Sweeps
        /\ main \in {"starting", "serving", "draining", "stopped",
                   "crashed"}
    BY <2>2 DEF Request, Sweeps
  <2>5. pc \in [Threads -> {"idle", "unlocked", "locking", "inside",
                           "select", "stopped"}]
    BY <2>2
  <2> QED  BY <2>3, <2>4, <2>5, Zenon DEF TypeOK
<1> QED  BY <1>1, TypeInductive, PTL DEF Spec

-----------------------------------------------------------------------------
(***************************************************************************)
(* Whoever is inside a locked method owns Service.mu.                      *)
(***************************************************************************)
InsideOwnsTheLock == \A t \in Threads : pc[t] = "inside" => mu = t

(***************************************************************************)
(* The lock is taken when it is free, so when nobody is inside, and given  *)
(* up only on the way out.                                                 *)
(***************************************************************************)
LEMMA OwnershipInductive ==
    TypeOK /\ InsideOwnsTheLock /\ [Next]_vars => InsideOwnsTheLock'
<1> SUFFICES ASSUME TypeOK, InsideOwnsTheLock, [Next]_vars
             PROVE  InsideOwnsTheLock'
  OBVIOUS
<1> USE ServerAssumption DEF TypeOK, InsideOwnsTheLock, Threads, GoTo
<1>1. ASSUME NEW t \in Threads, Lock(t)
      PROVE  InsideOwnsTheLock'
  BY <1>1 DEF Lock
<1>2. ASSUME NEW w \in Workers, NEW r \in Request, Receive(w, r)
      PROVE  InsideOwnsTheLock'
  <2>1. (IF r = "unlocked" THEN "unlocked" ELSE "locking") # "inside"
    OBVIOUS
  <2> QED  BY <1>2, <2>1 DEF Receive
<1>3. ASSUME NEW w \in Workers, AnswerUnlocked(w)
      PROVE  InsideOwnsTheLock'
  BY <1>3 DEF AnswerUnlocked
<1>4. ASSUME NEW w \in Workers, AnswerLocked(w)
      PROVE  InsideOwnsTheLock'
  BY <1>4 DEF AnswerLocked
<1>5. CASE TickerFires
  BY <1>5 DEF TickerFires
<1>6. CASE SelectTick
  BY <1>6 DEF SelectTick
<1>7. CASE SelectDone
  BY <1>7 DEF SelectDone
<1>8. CASE SweepReturns
  BY <1>8 DEF SweepReturns
<1>9. CASE Signal \/ StartShutdown \/ ShutdownReturns \/ ListenFails
           \/ StartFails
  BY <1>9 DEF Signal, StartShutdown, ShutdownReturns, ListenFails, StartFails
<1>10. CASE Start
  BY <1>10 DEF Start
<1>11. CASE UNCHANGED vars
  BY <1>11 DEF vars
<1> QED
  BY <1>1, <1>2, <1>3, <1>4, <1>5, <1>6, <1>7, <1>8, <1>9, <1>10, <1>11
     DEF Next

(***************************************************************************)
(* However many requests and however they interleave with the scheduler,   *)
(* two locked methods are never inside at once: the workflows' methods are *)
(* atomic to each other.                                                   *)
(***************************************************************************)
THEOREM MutualExclusion == Spec => []OneInside
<1>1. Init => InsideOwnsTheLock
  BY ServerAssumption DEF Init, InsideOwnsTheLock, Threads
<1>2. InsideOwnsTheLock => OneInside
  BY DEF InsideOwnsTheLock, OneInside
<1> QED  BY <1>1, <1>2, OwnershipInductive, TypeCorrect, PTL DEF Spec

(***************************************************************************)
(* A step with the lock lost leaves it lost: whoever could unlock would    *)
(* have to be inside, and so own the lock.  A step that loses it is the    *)
(* return of an owner that was asked about an unknown cabin.               *)
(***************************************************************************)
LEMMA LostStep ==
    ASSUME TypeOK, InsideOwnsTheLock, Next
    PROVE  /\ LeftLocked => LeftLocked' /\ mu' = mu
           /\ LeftLocked' => \/ LeftLocked
                             \/ \E w \in Workers :
                                   /\ pc[w] = "inside"
                                   /\ request[w] = "unknown_cabin"
                                   /\ mu' = w
<1>. DEFINE Lost == \E w \in Workers : /\ pc[w] = "inside"
                                       /\ request[w] = "unknown_cabin"
                                       /\ mu' = w
            Goal == /\ LeftLocked => LeftLocked' /\ mu' = mu
                    /\ LeftLocked' => LeftLocked \/ Lost
<1>1. /\ pc \in [Threads -> {"idle", "unlocked", "locking", "inside",
                             "select", "stopped"}]
      /\ scheduler \in Threads /\ scheduler \notin Workers
      /\ Workers \subseteq Threads
      /\ Free \notin Workers /\ Free # scheduler
  BY ServerAssumption DEF TypeOK, Threads
<1>2. ASSUME NEW t \in Threads, Lock(t) PROVE Goal
  <2>1. mu = Free /\ mu' = t /\ pc'[t] = "inside"
    BY <1>1, <1>2 DEF Lock, GoTo
  <2>. QED  BY <1>1, <2>1 DEF LeftLocked
<1>3. ASSUME NEW w \in Workers, AnswerLocked(w) PROVE Goal
  <2>1. /\ pc[w] = "inside" /\ mu = w
        /\ mu' = IF request[w] = "unknown_cabin" THEN mu ELSE Free
    BY <1>1, <1>3 DEF AnswerLocked, InsideOwnsTheLock
  <2>. QED  BY <1>1, <2>1 DEF LeftLocked
<1>4. CASE SweepReturns
  <2>1. mu = scheduler /\ mu' = Free
    BY <1>1, <1>4 DEF SweepReturns, InsideOwnsTheLock
  <2>. QED  BY <1>1, <2>1 DEF LeftLocked
<1>5. ASSUME mu' = mu,
             \A w \in Workers : pc'[w] = "inside" <=> pc[w] = "inside"
      PROVE  Goal
  BY <1>5 DEF LeftLocked
<1>6. ASSUME NEW w \in Workers, NEW r \in Request, Receive(w, r) PROVE Goal
  <2>1. /\ pc[w] = "idle"
        /\ pc' = [pc EXCEPT ![w] = IF r = "unlocked" THEN "unlocked"
                                   ELSE "locking"]
        /\ mu' = mu
    BY <1>6 DEF Receive, GoTo
  <2>. QED  BY <1>1, <1>5, <2>1
<1>7. ASSUME NEW w \in Workers, AnswerUnlocked(w) PROVE Goal
  <2>1. pc[w] = "unlocked" /\ pc' = [pc EXCEPT ![w] = "idle"] /\ mu' = mu
    BY <1>7 DEF AnswerUnlocked, GoTo
  <2>. QED  BY <1>1, <1>5, <2>1
<1>8. CASE SelectTick \/ SelectDone \/ Start
  <2>1. mu' = mu /\ \E place : pc' = [pc EXCEPT ![scheduler] = place]
    BY <1>8 DEF SelectTick, SelectDone, Start, GoTo
  <2>. QED  BY <1>1, <1>5, <2>1
<1>9. CASE \/ TickerFires \/ StartFails \/ Signal \/ StartShutdown
           \/ ShutdownReturns \/ ListenFails
  BY <1>5, <1>9 DEF TickerFires, StartFails, Signal, StartShutdown,
                    ShutdownReturns, ListenFails
<1>10. Goal
  BY <1>2, <1>3, <1>4, <1>6, <1>7, <1>8, <1>9 DEF Next
<1>. QED  BY <1>10

(***************************************************************************)
(* The lock is lost only to telemetry for an unknown cabin, and for good:  *)
(* no number of workers, requests or sweeps brings it back.                *)
(***************************************************************************)
THEOREM LostForGood == Spec => LockLostForGood
<1>. DEFINE Goal == /\ LeftLocked => LeftLocked' /\ mu' = mu
                    /\ LeftLocked' => \/ LeftLocked
                                      \/ \E w \in Workers :
                                            /\ pc[w] = "inside"
                                            /\ request[w] = "unknown_cabin"
                                            /\ mu' = w
<1>1. Init => InsideOwnsTheLock
  BY ServerAssumption DEF Init, InsideOwnsTheLock, Threads
<1>2. TypeOK /\ InsideOwnsTheLock /\ [Next]_vars => [Goal]_vars
  BY LostStep
<1>. QED
  BY <1>1, <1>2, OwnershipInductive, TypeCorrect, PTL
     DEF Spec, LockLostForGood

=============================================================================
