----------------------- MODULE BlackStartStepsProofs -----------------------
(***************************************************************************)
(* Proofs about the black-start methods taken one store call at a time,    *)
(* for any number of threads, identifiers and loads: what a reader can     *)
(* rely on between any two store calls, and that every method nevertheless *)
(* takes effect in one step.                                               *)
(*                                                                         *)
(* Only the holder of Service.mu is in the middle of something.  The       *)
(* invariant says, for every store call it still has before it, what the   *)
(* store holds and what the local copies hold; whoever is not the holder   *)
(* has nothing at hand.                                                    *)
(***************************************************************************)
EXTENDS BlackStartSteps, DomainProofs, SequenceTheorems, FiniteSetTheorems

-----------------------------------------------------------------------------
(* What is left of a method *)

(***************************************************************************)
(* What may be left of a method's store calls: the tails of the sequences  *)
(* the methods begin with.                                                 *)
(***************************************************************************)
Plans ==
    {<<>>,
     <<"LinkSMS">>,
     <<"PutSMS", "LinkSMS">>,
     <<"SaveSMS", "PutSMS", "LinkSMS">>,
     <<"PutBlackStart", "SaveSMS", "PutSMS", "LinkSMS">>,
     <<"PutLoad", "SaveSMS", "PutSMS", "LinkSMS">>,
     <<"ListLoads", "PutLoad", "SaveSMS", "PutSMS", "LinkSMS">>,
     <<"PutBlackStart", "ListLoads", "PutLoad", "SaveSMS", "PutSMS",
       "LinkSMS">>,
     <<"PutGridConn", "PutBlackStart", "ListLoads", "PutLoad", "SaveSMS",
       "PutSMS", "LinkSMS">>,
     <<"PutGridConn", "SaveSMS", "PutSMS", "LinkSMS">>,
     <<"PutBlackStart", "PutGridConn">>,
     <<"PutGridConn">>,
     <<"PutBlackStart">>,
     <<"PutBlackStart", "RetrySMS">>,
     <<"RetrySMS">>}

\* The store calls a call has before it.
Todo(c) == {c.left[i] : i \in DOMAIN c.left}

-----------------------------------------------------------------------------
(* The invariant *)

\* The call of the thread that holds the lock, if one does.
AtWork == {call[t] : t \in Threads \cap {mu}}

(***************************************************************************)
(* A thread is in a call exactly when it holds the lock.                   *)
(***************************************************************************)
LockHeld == \A t \in Threads : mu = t <=> call[t] # Idle

(***************************************************************************)
(* The changes of status the methods make.                                 *)
(***************************************************************************)
Moved(from, to) ==
    \/ from = to
    \/ from = "initiated" /\ to = "in_progress"
    \/ from = "in_progress" /\ to \in {"bus_restored", "failed"}
    \/ from = "bus_restored" /\ to = "grid_syncing"
    \/ from = "grid_syncing" /\ to = "completed"

(***************************************************************************)
(* A black start about to be written is a new one, or differs from the one *)
(* in the store by one move; only a request for a grid connection changes  *)
(* the connection it names.                                                *)
(***************************************************************************)
BlackStartAtHand(c) ==
    "PutBlackStart" \in Todo(c) =>
        /\ c.id \in BlackStartIDs
        /\ c.bs \in BS!BlackStartRecord
        /\ c.id \in DOMAIN blackStarts =>
              /\ c.old = blackStarts[c.id]
              /\ c.bs.smsMessageIDs = c.old.smsMessageIDs
              /\ Moved(c.old.status, c.bs.status)
              /\ "ListLoads" \notin Todo(c) =>
                    /\ c.bs.gridConnID = c.old.gridConnID
                    /\ c.bs.status = "grid_syncing"
                          => c.old.status = "grid_syncing"
        /\ c.id \notin DOMAIN blackStarts =>
              /\ c.bs.status = "initiated"
              /\ c.bs.gridConnID = NoGridConn
              /\ c.bs.smsMessageIDs = {}
              /\ Todo(c) = {"PutBlackStart"}

(***************************************************************************)
(* The status of a connection is the one its signatures give.              *)
(***************************************************************************)
Fits(gc) ==
    IF gc.status = "requested" THEN gc.signed = {}
    ELSE IF gc.status = "dispatch_signed" THEN gc.signed = {"dispatch"}
    ELSE IF gc.status = "om_signed" THEN gc.signed = {"operations"}
    ELSE gc.signed = SignParty

(***************************************************************************)
(* A grid connection about to be written belongs to the black start of the *)
(* call and differs from the one in the store by one permitted move; it is *)
(* completed only after its black start.                                   *)
(***************************************************************************)
ConnectionAtHand(c) ==
    "PutGridConn" \in Todo(c) =>
        /\ c.gcID \in GridConnIDs
        /\ c.gc \in BS!GridConnection
        /\ c.id \in DOMAIN blackStarts
        /\ c.gc.blackStartID = c.id
        /\ Fits(c.gc)
        /\ c.gcID \in DOMAIN gridConns <=> "ListLoads" \notin Todo(c)
        /\ c.gcID \in DOMAIN gridConns =>
              /\ gridConns[c.gcID].blackStartID = c.id
              /\ gridConns[c.gcID].status # c.gc.status =>
                    GridConnCanTransition(gridConns[c.gcID].status, c.gc.status)
              /\ c.gc.status = "completed" =>
                    IF "PutBlackStart" \in Todo(c)
                    THEN c.bs.status = "completed"
                    ELSE blackStarts[c.id].status = "completed"

(***************************************************************************)
(* A request for a grid connection that has not shed the loads yet.        *)
(***************************************************************************)
RequestAtHand(c) ==
    "ListLoads" \in Todo(c) =>
        /\ c.id \in DOMAIN blackStarts
        /\ c.gcID \in GridConnIDs
        /\ c.gc = [blackStartID |-> c.id, status |-> "requested", signed |-> {}]
        /\ "PutGridConn" \notin Todo(c) =>
              /\ c.gcID \in DOMAIN gridConns
              /\ gridConns[c.gcID] = c.gc
        /\ c.old \in BS!BlackStartRecord
        /\ c.old.status \in {"bus_restored", "grid_syncing"}
        /\ c.bs = BS!Syncing(c.old, c.gcID)
        /\ "PutBlackStart" \notin Todo(c) => blackStarts[c.id] = c.bs

(***************************************************************************)
(* An instruction to be sent has been earned by what the call writes       *)
(* before it; once it is in the outbox it is as far as the call is.        *)
(***************************************************************************)
MessageAtHand(c) ==
    "LinkSMS" \in Todo(c) =>
        /\ c.message \in BS!Instruction
        /\ c.msgID \in SMSIDs
        /\ c.accepted \in {{}, {c.msgID}}
        /\ c.id \in DOMAIN blackStarts
        /\ "SaveSMS" \in Todo(c) =>
              /\ c.msgID \notin DOMAIN smsMessages
              /\ IF "PutBlackStart" \in Todo(c)
                 THEN c.bs.status \in EarnedBy[c.message]
                 ELSE blackStarts[c.id].status \in EarnedBy[c.message]
        /\ "SaveSMS" \notin Todo(c) =>
              /\ c.msgID \in DOMAIN smsMessages
              /\ blackStarts[c.id].status \in EarnedBy[c.message]
              /\ smsMessages[c.msgID] =
                    Message(c, IF "PutSMS" \in Todo(c)
                               THEN "pending" ELSE "delivered")
        /\ "PutSMS" \notin Todo(c) => c.msgID \in c.accepted

RetryAtHand(c) == "RetrySMS" \in Todo(c) => c.msgID = None

(***************************************************************************)
(* What shedding makes of a load that is energized or shed.                *)
(***************************************************************************)
Served(l) == IF LoadPriority[l] <= 1 THEN Energized ELSE Shed

(***************************************************************************)
(* The loads still to be written and those written already are as shedding *)
(* leaves them.                                                            *)
(***************************************************************************)
LoadsAtHand(c) ==
    "PutLoad" \in Todo(c) /\ "ListLoads" \notin Todo(c) =>
        /\ DOMAIN c.shedding \subseteq DOMAIN loads
        /\ \A l \in DOMAIN c.shedding : c.shedding[l] \in BS!Load
        /\ \A l \in SeedLoads :
              IF l \in DOMAIN c.shedding THEN c.shedding[l] = Served(l)
                                         ELSE loads[l] = Served(l)

Unlinked(bs) == [bs EXCEPT !.smsMessageIDs = {}]

(***************************************************************************)
(* The records a call will answer with are those in the store as soon as   *)
(* they are written, and in a promised status from the beginning.          *)
(***************************************************************************)
AnswerAtHand(c) ==
    /\ c.bs # None /\ "PutBlackStart" \notin Todo(c) =>
          /\ c.id \in DOMAIN blackStarts
          /\ c.bs.status = blackStarts[c.id].status
          /\ Unlinked(c.bs) = Unlinked(blackStarts[c.id])
    /\ c.gc # None /\ "PutGridConn" \notin Todo(c) =>
          /\ c.gcID \in DOMAIN gridConns
          /\ c.gc = gridConns[c.gcID]
    /\ c.status \in {OK, Created} =>
          /\ c.bs # None => c.bs.status \in PromisedBlackStart[c.method]
          /\ c.gc # None => c.gc.status \in PromisedGridConn[c.method]

AtHand(c) ==
    /\ c.method # None \/ c.status # 0
    /\ c.left \in Plans
    /\ BlackStartAtHand(c)
    /\ ConnectionAtHand(c)
    /\ RequestAtHand(c)
    /\ MessageAtHand(c)
    /\ RetryAtHand(c)
    /\ LoadsAtHand(c)
    /\ AnswerAtHand(c)

(***************************************************************************)
(* A black start names a connection exactly when it is syncing or          *)
(* completed, and one of its own.                                          *)
(***************************************************************************)
SyncingConnected ==
    \A b \in DOMAIN blackStarts :
        LET g == blackStarts[b].gridConnID
        IN IF blackStarts[b].status \in {"grid_syncing", "completed"}
           THEN g \in DOMAIN gridConns /\ gridConns[g].blackStartID = b
           ELSE g = NoGridConn

(***************************************************************************)
(* Every connection is of a black start that is syncing or completed, but  *)
(* for one whose request has saved it and not yet moved its black start.   *)
(***************************************************************************)
ConnectedSyncing ==
    \A g \in DOMAIN gridConns :
        /\ gridConns[g].blackStartID \in DOMAIN blackStarts
        /\ \/ blackStarts[gridConns[g].blackStartID].status
                 \in {"grid_syncing", "completed"}
           \/ \E c \in AtWork :
                 /\ {"PutBlackStart", "ListLoads"} \subseteq Todo(c)
                 /\ g = c.gcID

SignaturesFit == \A g \in DOMAIN gridConns : Fits(gridConns[g])

MessagesBelong ==
    \A m \in DOMAIN smsMessages :
        smsMessages[m].blackStartID \in DOMAIN blackStarts

SeedsKept ==
    \A l \in SeedLoads :
        /\ l \in DOMAIN loads
        /\ loads[l] \in {Energized, Shed}
        /\ LoadPriority[l] <= 1 => loads[l] = Energized

StepsInv ==
    /\ TypeOK
    /\ LockHeld
    /\ \A c \in AtWork : AtHand(c)
    /\ SyncingConnected
    /\ ConnectedSyncing
    /\ SignaturesFit
    /\ MessagesBelong
    /\ SeedsKept
    /\ ReadersFindReferences
    /\ InstructionsEarned
    /\ DeliveredOnce
    /\ ConnectionClosesLast
    /\ LeastImportantShedFirst

-----------------------------------------------------------------------------
(* Lemmas about plans *)

(***************************************************************************)
(* The first call of each plan, and all of them.                           *)
(***************************************************************************)
LEMMA PlanCalls ==
    ASSUME NEW c, c.left \in Plans
    PROVE
      \/ c.left = <<>> /\ Todo(c) = {}
      \/ /\ Head(c.left) = "LinkSMS"
         /\ Todo(c) = {"LinkSMS"}
      \/ /\ Head(c.left) = "PutSMS"
         /\ Todo(c) = {"PutSMS", "LinkSMS"}
      \/ /\ Head(c.left) = "SaveSMS"
         /\ Todo(c) = {"SaveSMS", "PutSMS", "LinkSMS"}
      \/ /\ Head(c.left) = "PutBlackStart"
         /\ Todo(c) = {"PutBlackStart", "SaveSMS", "PutSMS", "LinkSMS"}
      \/ /\ Head(c.left) = "PutLoad"
         /\ Todo(c) = {"PutLoad", "SaveSMS", "PutSMS", "LinkSMS"}
      \/ /\ Head(c.left) = "ListLoads"
         /\ Todo(c) = {"ListLoads", "PutLoad", "SaveSMS", "PutSMS", "LinkSMS"}
      \/ /\ Head(c.left) = "PutBlackStart"
         /\ Todo(c) = {"PutBlackStart", "ListLoads", "PutLoad", "SaveSMS",
                       "PutSMS", "LinkSMS"}
      \/ /\ Head(c.left) = "PutGridConn"
         /\ Todo(c) = {"PutGridConn", "PutBlackStart", "ListLoads", "PutLoad",
                       "SaveSMS", "PutSMS", "LinkSMS"}
      \/ /\ Head(c.left) = "PutGridConn"
         /\ Todo(c) = {"PutGridConn", "SaveSMS", "PutSMS", "LinkSMS"}
      \/ /\ Head(c.left) = "PutBlackStart"
         /\ Todo(c) = {"PutBlackStart", "PutGridConn"}
      \/ /\ Head(c.left) = "PutGridConn"
         /\ Todo(c) = {"PutGridConn"}
      \/ /\ Head(c.left) = "PutBlackStart"
         /\ Todo(c) = {"PutBlackStart"}
      \/ /\ Head(c.left) = "PutBlackStart"
         /\ Todo(c) = {"PutBlackStart", "RetrySMS"}
      \/ /\ Head(c.left) = "RetrySMS"
         /\ Todo(c) = {"RetrySMS"}
<1>1. CASE c.left = <<>>
  BY <1>1 DEF Todo
<1>2. CASE c.left = <<"LinkSMS">>
  BY <1>2 DEF Todo
<1>3. CASE c.left = <<"PutSMS", "LinkSMS">>
  BY <1>3 DEF Todo
<1>4. CASE c.left = <<"SaveSMS", "PutSMS", "LinkSMS">>
  BY <1>4 DEF Todo
<1>5. CASE c.left = <<"PutBlackStart", "SaveSMS", "PutSMS", "LinkSMS">>
  BY <1>5 DEF Todo
<1>6. CASE c.left = <<"PutLoad", "SaveSMS", "PutSMS", "LinkSMS">>
  BY <1>6 DEF Todo
<1>7. CASE c.left = <<"ListLoads", "PutLoad", "SaveSMS", "PutSMS", "LinkSMS">>
  BY <1>7 DEF Todo
<1>8. CASE c.left = <<"PutBlackStart", "ListLoads", "PutLoad", "SaveSMS",
             "PutSMS", "LinkSMS">>
  BY <1>8 DEF Todo
<1>9. CASE c.left = <<"PutGridConn", "PutBlackStart", "ListLoads", "PutLoad",
             "SaveSMS", "PutSMS", "LinkSMS">>
  BY <1>9 DEF Todo
<1>10. CASE c.left = <<"PutGridConn", "SaveSMS", "PutSMS", "LinkSMS">>
  BY <1>10 DEF Todo
<1>11. CASE c.left = <<"PutBlackStart", "PutGridConn">>
  BY <1>11 DEF Todo
<1>12. CASE c.left = <<"PutGridConn">>
  BY <1>12 DEF Todo
<1>13. CASE c.left = <<"PutBlackStart">>
  BY <1>13 DEF Todo
<1>14. CASE c.left = <<"PutBlackStart", "RetrySMS">>
  BY <1>14 DEF Todo
<1>15. CASE c.left = <<"RetrySMS">>
  BY <1>15 DEF Todo
<1>. QED
  BY <1>1, <1>2, <1>3, <1>4, <1>5, <1>6, <1>7, <1>8, <1>9, <1>10, <1>11,
       <1>12, <1>13, <1>14, <1>15 DEF Plans

(***************************************************************************)
(* Doing the next store call of a plan leaves a plan, with that call done  *)
(* and all others still to be done.                                        *)
(***************************************************************************)
LEMMA NextInPlan ==
    ASSUME NEW c, NEW d, c.left \in Plans, c.left # <<>>,
           d.left = Tail(c.left)
    PROVE  /\ Head(c.left) \in Todo(c)
           /\ d.left \in Plans
           /\ Todo(d) = Todo(c) \ {Head(c.left)}
<1>1. CASE c.left = <<"LinkSMS">>
  <2>1. Head(c.left) = "LinkSMS" /\ d.left = <<>>
    BY <1>1
  <2>2. d.left \in Plans
    BY <2>1 DEF Plans
  <2>3. Todo(c) = {"LinkSMS"} /\ Todo(d) = {}
    BY <1>1, <2>1 DEF Todo
  <2>. QED  BY <2>1, <2>2, <2>3
<1>2. CASE c.left = <<"PutSMS", "LinkSMS">>
  <2>1. Head(c.left) = "PutSMS" /\ d.left = <<"LinkSMS">>
    BY <1>2
  <2>2. d.left \in Plans
    BY <2>1 DEF Plans
  <2>3. Todo(c) = {"PutSMS", "LinkSMS"} /\ Todo(d) = {"LinkSMS"}
    BY <1>2, <2>1 DEF Todo
  <2>. QED  BY <2>1, <2>2, <2>3
<1>3. CASE c.left = <<"SaveSMS", "PutSMS", "LinkSMS">>
  <2>1. Head(c.left) = "SaveSMS" /\ d.left = <<"PutSMS", "LinkSMS">>
    BY <1>3
  <2>2. d.left \in Plans
    BY <2>1 DEF Plans
  <2>3. Todo(c) = {"SaveSMS", "PutSMS", "LinkSMS"} /\ Todo(d) = {"PutSMS",
          "LinkSMS"}
    BY <1>3, <2>1 DEF Todo
  <2>. QED  BY <2>1, <2>2, <2>3
<1>4. CASE c.left = <<"PutBlackStart", "SaveSMS", "PutSMS", "LinkSMS">>
  <2>1. Head(c.left) = "PutBlackStart" /\ d.left = <<"SaveSMS", "PutSMS",
          "LinkSMS">>
    BY <1>4
  <2>2. d.left \in Plans
    BY <2>1 DEF Plans
  <2>3. Todo(c) = {"PutBlackStart", "SaveSMS", "PutSMS", "LinkSMS"} /\ Todo(d)
          = {"SaveSMS", "PutSMS", "LinkSMS"}
    BY <1>4, <2>1 DEF Todo
  <2>. QED  BY <2>1, <2>2, <2>3
<1>5. CASE c.left = <<"PutLoad", "SaveSMS", "PutSMS", "LinkSMS">>
  <2>1. Head(c.left) = "PutLoad" /\ d.left = <<"SaveSMS", "PutSMS",
          "LinkSMS">>
    BY <1>5
  <2>2. d.left \in Plans
    BY <2>1 DEF Plans
  <2>3. Todo(c) = {"PutLoad", "SaveSMS", "PutSMS", "LinkSMS"} /\ Todo(d) =
          {"SaveSMS", "PutSMS", "LinkSMS"}
    BY <1>5, <2>1 DEF Todo
  <2>. QED  BY <2>1, <2>2, <2>3
<1>6. CASE c.left = <<"ListLoads", "PutLoad", "SaveSMS", "PutSMS", "LinkSMS">>
  <2>1. Head(c.left) = "ListLoads" /\ d.left = <<"PutLoad", "SaveSMS",
          "PutSMS", "LinkSMS">>
    BY <1>6
  <2>2. d.left \in Plans
    BY <2>1 DEF Plans
  <2>3. Todo(c) = {"ListLoads", "PutLoad", "SaveSMS", "PutSMS", "LinkSMS"} /\
          Todo(d) = {"PutLoad", "SaveSMS", "PutSMS", "LinkSMS"}
    BY <1>6, <2>1 DEF Todo
  <2>. QED  BY <2>1, <2>2, <2>3
<1>7. CASE c.left = <<"PutBlackStart", "ListLoads", "PutLoad", "SaveSMS",
             "PutSMS", "LinkSMS">>
  <2>1. Head(c.left) = "PutBlackStart" /\ d.left = <<"ListLoads", "PutLoad",
          "SaveSMS", "PutSMS", "LinkSMS">>
    BY <1>7
  <2>2. d.left \in Plans
    BY <2>1 DEF Plans
  <2>3. Todo(c) = {"PutBlackStart", "ListLoads", "PutLoad", "SaveSMS",
          "PutSMS", "LinkSMS"} /\ Todo(d) = {"ListLoads", "PutLoad",
          "SaveSMS", "PutSMS", "LinkSMS"}
    BY <1>7, <2>1 DEF Todo
  <2>. QED  BY <2>1, <2>2, <2>3
<1>8. CASE c.left = <<"PutGridConn", "PutBlackStart", "ListLoads", "PutLoad",
             "SaveSMS", "PutSMS", "LinkSMS">>
  <2>1. Head(c.left) = "PutGridConn" /\ d.left = <<"PutBlackStart",
          "ListLoads", "PutLoad", "SaveSMS", "PutSMS", "LinkSMS">>
    BY <1>8
  <2>2. d.left \in Plans
    BY <2>1 DEF Plans
  <2>3. Todo(c) = {"PutGridConn", "PutBlackStart", "ListLoads", "PutLoad",
          "SaveSMS", "PutSMS", "LinkSMS"} /\ Todo(d) = {"PutBlackStart",
          "ListLoads", "PutLoad", "SaveSMS", "PutSMS", "LinkSMS"}
    BY <1>8, <2>1 DEF Todo
  <2>. QED  BY <2>1, <2>2, <2>3
<1>9. CASE c.left = <<"PutGridConn", "SaveSMS", "PutSMS", "LinkSMS">>
  <2>1. Head(c.left) = "PutGridConn" /\ d.left = <<"SaveSMS", "PutSMS",
          "LinkSMS">>
    BY <1>9
  <2>2. d.left \in Plans
    BY <2>1 DEF Plans
  <2>3. Todo(c) = {"PutGridConn", "SaveSMS", "PutSMS", "LinkSMS"} /\ Todo(d) =
          {"SaveSMS", "PutSMS", "LinkSMS"}
    BY <1>9, <2>1 DEF Todo
  <2>. QED  BY <2>1, <2>2, <2>3
<1>10. CASE c.left = <<"PutBlackStart", "PutGridConn">>
  <2>1. Head(c.left) = "PutBlackStart" /\ d.left = <<"PutGridConn">>
    BY <1>10
  <2>2. d.left \in Plans
    BY <2>1 DEF Plans
  <2>3. Todo(c) = {"PutBlackStart", "PutGridConn"} /\ Todo(d) =
          {"PutGridConn"}
    BY <1>10, <2>1 DEF Todo
  <2>. QED  BY <2>1, <2>2, <2>3
<1>11. CASE c.left = <<"PutGridConn">>
  <2>1. Head(c.left) = "PutGridConn" /\ d.left = <<>>
    BY <1>11
  <2>2. d.left \in Plans
    BY <2>1 DEF Plans
  <2>3. Todo(c) = {"PutGridConn"} /\ Todo(d) = {}
    BY <1>11, <2>1 DEF Todo
  <2>. QED  BY <2>1, <2>2, <2>3
<1>12. CASE c.left = <<"PutBlackStart">>
  <2>1. Head(c.left) = "PutBlackStart" /\ d.left = <<>>
    BY <1>12
  <2>2. d.left \in Plans
    BY <2>1 DEF Plans
  <2>3. Todo(c) = {"PutBlackStart"} /\ Todo(d) = {}
    BY <1>12, <2>1 DEF Todo
  <2>. QED  BY <2>1, <2>2, <2>3
<1>13. CASE c.left = <<"PutBlackStart", "RetrySMS">>
  <2>1. Head(c.left) = "PutBlackStart" /\ d.left = <<"RetrySMS">>
    BY <1>13
  <2>2. d.left \in Plans
    BY <2>1 DEF Plans
  <2>3. Todo(c) = {"PutBlackStart", "RetrySMS"} /\ Todo(d) = {"RetrySMS"}
    BY <1>13, <2>1 DEF Todo
  <2>. QED  BY <2>1, <2>2, <2>3
<1>14. CASE c.left = <<"RetrySMS">>
  <2>1. Head(c.left) = "RetrySMS" /\ d.left = <<>>
    BY <1>14
  <2>2. d.left \in Plans
    BY <2>1 DEF Plans
  <2>3. Todo(c) = {"RetrySMS"} /\ Todo(d) = {}
    BY <1>14, <2>1 DEF Todo
  <2>. QED  BY <2>1, <2>2, <2>3
<1>. QED
  BY <1>1, <1>2, <1>3, <1>4, <1>5, <1>6, <1>7, <1>8, <1>9, <1>10, <1>11,
       <1>12, <1>13, <1>14 DEF Plans

(***************************************************************************)
(* The order in which the calls of a plan come.                            *)
(***************************************************************************)
LEMMA PlanOrder ==
    ASSUME NEW c, c.left \in Plans
    PROVE  /\ c.left = <<>> <=> Todo(c) = {}
           /\ "PutSMS" \in Todo(c) => "LinkSMS" \in Todo(c)
           /\ "SaveSMS" \in Todo(c) => "PutSMS" \in Todo(c)
           /\ "PutLoad" \in Todo(c) => "SaveSMS" \in Todo(c)
           /\ "ListLoads" \in Todo(c) => "PutLoad" \in Todo(c)
           /\ "RetrySMS" \in Todo(c) => "LinkSMS" \notin Todo(c)
<1>1. c.left # <<>> => Head(c.left) \in Todo(c)
  BY PlanCalls
<1>2. c.left = <<>> => Todo(c) = {}
  BY DEF Todo
<1>. QED  BY <1>1, <1>2, PlanCalls

(***************************************************************************)
(* What the first call of a plan says about the rest.                      *)
(***************************************************************************)
LEMMA PlanHead ==
    ASSUME NEW c, c.left \in Plans, c.left # <<>>
    PROVE  /\ Head(c.left) \in {"PutGridConn", "PutBlackStart", "ListLoads",
                               "PutLoad"}
                 => /\ "RetrySMS" \in Todo(c)
                          => Todo(c) = {"PutBlackStart", "RetrySMS"}
                    /\ "LinkSMS" \in Todo(c) => "SaveSMS" \in Todo(c)
           /\ Head(c.left) = "PutGridConn"
                 => /\ "PutBlackStart" \in Todo(c) <=> "ListLoads" \in Todo(c)
                    /\ "PutLoad" \in Todo(c) => "ListLoads" \in Todo(c)
           /\ Head(c.left) = "PutBlackStart"
                 => /\ ~({"PutGridConn", "ListLoads"} \subseteq Todo(c))
                    /\ "PutLoad" \in Todo(c) => "ListLoads" \in Todo(c)
           /\ Head(c.left) = "ListLoads"
                 => Todo(c) = {"ListLoads", "PutLoad", "SaveSMS", "PutSMS",
                               "LinkSMS"}
           /\ Head(c.left) = "PutLoad"
                 => Todo(c) = {"PutLoad", "SaveSMS", "PutSMS", "LinkSMS"}
           /\ Head(c.left) = "SaveSMS"
                 => Todo(c) = {"SaveSMS", "PutSMS", "LinkSMS"}
           /\ Head(c.left) = "PutSMS" => Todo(c) = {"PutSMS", "LinkSMS"}
           /\ Head(c.left) = "LinkSMS" => Todo(c) = {"LinkSMS"}
           /\ Head(c.left) = "RetrySMS" => Todo(c) = {"RetrySMS"}
  BY PlanCalls

(***************************************************************************)
(* The plans the methods begin with.                                       *)
(***************************************************************************)
LEMMA Concatenations ==
    /\ MoveAndTell = <<"PutBlackStart", "SaveSMS", "PutSMS", "LinkSMS">>
    /\ SynchronizeWrites = <<"PutGridConn", "SaveSMS", "PutSMS", "LinkSMS">>
    /\ RequestWrites = <<"PutGridConn", "PutBlackStart", "ListLoads", "PutLoad",
                         "SaveSMS", "PutSMS", "LinkSMS">>
<1> DEFINE tell == <<"SaveSMS", "PutSMS", "LinkSMS">>
<1>1. ASSUME NEW a \in StoreCall
      PROVE  <<a>> \o tell = <<a, "SaveSMS", "PutSMS", "LinkSMS">>
  <2> DEFINE s == <<a>> \o tell
             p == <<a, "SaveSMS", "PutSMS", "LinkSMS">>
  <2>1. /\ <<a>> \in Seq(StoreCall) /\ Len(<<a>>) = 1
        /\ tell \in Seq(StoreCall) /\ Len(tell) = 3
        /\ p \in Seq(StoreCall) /\ Len(p) = 4
    BY DEF StoreCall
  <2>2. s \in Seq(StoreCall) /\ Len(s) = 4
    BY <2>1, ConcatProperties
  <2>3. \A i \in 1..4 : s[i] = p[i]
    BY <2>1, ConcatProperties
  <2> HIDE DEF s, p
  <2>4. s = p
    BY <2>1, <2>2, <2>3, SeqEqual
  <2>. QED  BY <2>4 DEF s, p
<1>2. <<"PutGridConn", "PutBlackStart", "ListLoads", "PutLoad">> \o tell
         = <<"PutGridConn", "PutBlackStart", "ListLoads", "PutLoad",
             "SaveSMS", "PutSMS", "LinkSMS">>
  <2> DEFINE first == <<"PutGridConn", "PutBlackStart", "ListLoads", "PutLoad">>
             s == first \o tell
             p == <<"PutGridConn", "PutBlackStart", "ListLoads", "PutLoad",
                    "SaveSMS", "PutSMS", "LinkSMS">>
  <2>1. /\ first \in Seq(StoreCall) /\ Len(first) = 4
        /\ tell \in Seq(StoreCall) /\ Len(tell) = 3
        /\ p \in Seq(StoreCall) /\ Len(p) = 7
    BY DEF StoreCall
  <2>2. s \in Seq(StoreCall) /\ Len(s) = 7
    BY <2>1, ConcatProperties
  <2>3. \A i \in 1..7 : s[i] = p[i]
    BY <2>1, ConcatProperties
  <2> HIDE DEF s, p
  <2>4. s = p
    BY <2>1, <2>2, <2>3, SeqEqual
  <2>. QED  BY <2>4 DEF s, p
<1>3. /\ MoveAndTell = <<"PutBlackStart", "SaveSMS", "PutSMS", "LinkSMS">>
      /\ SynchronizeWrites = <<"PutGridConn", "SaveSMS", "PutSMS", "LinkSMS">>
  BY <1>1 DEF MoveAndTell, SynchronizeWrites, EnqueueSMS, StoreCall
<1>4. RequestWrites = <<"PutGridConn", "PutBlackStart", "ListLoads", "PutLoad",
                        "SaveSMS", "PutSMS", "LinkSMS">>
  BY <1>2 DEF RequestWrites, EnqueueSMS
<1>. QED  BY <1>3, <1>4

(***************************************************************************)
(* What a method has before it when it begins.                             *)
(***************************************************************************)
LEMMA BeginningPlans ==
    /\ {<<>>, <<"PutBlackStart">>, <<"PutGridConn">>, <<"RetrySMS">>,
        <<"PutBlackStart", "RetrySMS">>, CompleteWrites, MoveAndTell,
        SynchronizeWrites, RequestWrites} \subseteq Plans
    /\ \A c :
          /\ c.left = <<>> => Todo(c) = {}
          /\ c.left = <<"PutBlackStart">> => Todo(c) = {"PutBlackStart"}
          /\ c.left = <<"PutGridConn">> => Todo(c) = {"PutGridConn"}
          /\ c.left = <<"RetrySMS">> => Todo(c) = {"RetrySMS"}
          /\ c.left = <<"PutBlackStart", "RetrySMS">>
                => Todo(c) = {"PutBlackStart", "RetrySMS"}
          /\ c.left = CompleteWrites
                => Todo(c) = {"PutBlackStart", "PutGridConn"}
          /\ c.left = MoveAndTell
                => Todo(c) = {"PutBlackStart", "SaveSMS", "PutSMS", "LinkSMS"}
          /\ c.left = SynchronizeWrites
                => Todo(c) = {"PutGridConn", "SaveSMS", "PutSMS", "LinkSMS"}
          /\ c.left = RequestWrites
                => Todo(c) = {"PutGridConn", "PutBlackStart", "ListLoads",
                              "PutLoad", "SaveSMS", "PutSMS", "LinkSMS"}
<1>1. /\ {<<>>, <<"PutBlackStart">>, <<"PutGridConn">>, <<"RetrySMS">>,
          <<"PutBlackStart", "RetrySMS">>, CompleteWrites} \subseteq Plans
      /\ MoveAndTell \in Plans
      /\ SynchronizeWrites \in Plans
      /\ RequestWrites \in Plans
  BY Concatenations DEF Plans, CompleteWrites
<1>2. ASSUME NEW c
      PROVE  /\ c.left = <<>> => Todo(c) = {}
             /\ c.left = <<"PutBlackStart">> => Todo(c) = {"PutBlackStart"}
             /\ c.left = <<"PutGridConn">> => Todo(c) = {"PutGridConn"}
             /\ c.left = <<"RetrySMS">> => Todo(c) = {"RetrySMS"}
  BY DEF Todo
<1>3. ASSUME NEW c
      PROVE  /\ c.left = <<"PutBlackStart", "RetrySMS">>
                   => Todo(c) = {"PutBlackStart", "RetrySMS"}
             /\ c.left = CompleteWrites
                   => Todo(c) = {"PutBlackStart", "PutGridConn"}
  BY DEF Todo, CompleteWrites
<1>4. ASSUME NEW c, c.left = MoveAndTell
      PROVE  Todo(c) = {"PutBlackStart", "SaveSMS", "PutSMS", "LinkSMS"}
  BY <1>4, Concatenations DEF Todo
<1>5. ASSUME NEW c, c.left = SynchronizeWrites
      PROVE  Todo(c) = {"PutGridConn", "SaveSMS", "PutSMS", "LinkSMS"}
  BY <1>5, Concatenations DEF Todo
<1>6. ASSUME NEW c, c.left = RequestWrites
      PROVE  Todo(c) = {"PutGridConn", "PutBlackStart", "ListLoads",
                        "PutLoad", "SaveSMS", "PutSMS", "LinkSMS"}
  BY <1>6, Concatenations DEF Todo
<1>. QED  BY <1>1, <1>2, <1>3, <1>4, <1>5, <1>6

(***************************************************************************)
(* A plan is a sequence of store calls.                                    *)
(***************************************************************************)
LEMMA PlanType == Plans \subseteq Seq(StoreCall)
  BY DEF Plans, StoreCall

\* Call d is call c with these three fields brought up to date.
Further(c, d, left, shedding, accepted) ==
    d = [c EXCEPT !.left = left, !.shedding = shedding, !.accepted = accepted]

(***************************************************************************)
(* The loads of a call that sheds none.                                    *)
(***************************************************************************)
LEMMA NothingPartial == <<>> \in PartialLoads
<1>1. <<>> \in [{} -> BS!Load]
  OBVIOUS
<1>2. {} \in SUBSET LoadIDs
  OBVIOUS
<1>. QED  BY <1>1, <1>2 DEF PartialLoads

(***************************************************************************)
(* Updates of what is left, of the loads and of the messages of a call     *)
(* leave everything else of it as it was.                                  *)
(***************************************************************************)
LEMMA CallUpdates ==
    ASSUME NEW c \in Call, NEW left \in Seq(StoreCall),
           NEW shedding \in PartialLoads,
           NEW accepted \in SUBSET SMSIDs,
           NEW d, Further(c, d, left, shedding, accepted)
    PROVE  /\ d \in Call
           /\ d.left = left
           /\ d.shedding = shedding
           /\ d.accepted = accepted
           /\ d.method = c.method /\ d.status = c.status
           /\ d.id = c.id /\ d.bs = c.bs /\ d.old = c.old
           /\ d.gcID = c.gcID /\ d.gc = c.gc
           /\ d.message = c.message /\ d.msgID = c.msgID
<1>1. /\ d.left = left /\ d.shedding = shedding /\ d.accepted = accepted
      /\ d.method = c.method /\ d.status = c.status
      /\ d.id = c.id /\ d.bs = c.bs /\ d.old = c.old
      /\ d.gcID = c.gcID /\ d.gc = c.gc
      /\ d.message = c.message /\ d.msgID = c.msgID
  BY DEF Call, Further
<1>2. d = [method |-> c.method, left |-> left, id |-> c.id, bs |-> c.bs,
           old |-> c.old, gcID |-> c.gcID, gc |-> c.gc,
           message |-> c.message, msgID |-> c.msgID, accepted |-> accepted,
           shedding |-> shedding, status |-> c.status]
  BY DEF Call, Further
<1>3. d \in Call
  BY <1>2 DEF Call
<1>. QED  BY <1>1, <1>3

-----------------------------------------------------------------------------
(* Lemmas about the lock *)

(***************************************************************************)
(* Who is in a call holds the lock, is the only one, and has at hand what  *)
(* the invariant says.                                                     *)
(***************************************************************************)
LEMMA AtWorkIs ==
    ASSUME StepsInv, NEW t \in Threads, call[t] # Idle
    PROVE  /\ mu = t
           /\ AtWork = {call[t]}
           /\ call[t] \in Call
           /\ \A u \in Threads : u # t => call[u] = Idle
  BY DEF StepsInv, LockHeld, AtWork, TypeOK

(***************************************************************************)
(* Call d is call c with what it has left and its loops further along.     *)
(***************************************************************************)
SameCall(c, d) ==
    /\ d.method = c.method
    /\ d.status = c.status
    /\ d.id = c.id
    /\ d.bs = c.bs
    /\ d.old = c.old
    /\ d.gcID = c.gcID
    /\ d.gc = c.gc
    /\ d.message = c.message
    /\ d.msgID = c.msgID

(***************************************************************************)
(* When the holder of the lock goes on it stays the only one at work, and  *)
(* the others have no message to deliver.                                  *)
(***************************************************************************)
LEMMA HolderGoesOn ==
    ASSUME StepsInv, NEW t \in Threads, call[t] # Idle, mu' = mu,
           NEW d \in Call, d.method # None \/ d.status # 0, Goto(t, d),
           \A m \in d.accepted : m # d.msgID => m \in BS!PendingSMS'
    PROVE  /\ mu' \in Threads \cup {Free}
           /\ call' \in [Threads -> Call]
           /\ LockHeld'
           /\ AtWork' = {d}
           /\ DeliveredOnce'
<1>1. /\ mu = t
      /\ \A u \in Threads : u # t => call[u] = Idle
      /\ call \in [Threads -> Call]
  BY AtWorkIs DEF StepsInv, TypeOK
<1>2. /\ call'[t] = d
      /\ \A u \in Threads : u # t => call'[u] = Idle
      /\ call' \in [Threads -> Call]
  BY <1>1 DEF Goto
<1>3. d # Idle
  BY DEF Idle
<1>4. Idle.accepted = {}
  BY DEF Idle
<1>5. DeliveredOnce'
  BY <1>2, <1>4 DEF DeliveredOnce
<1>6. LockHeld'
  BY <1>1, <1>2, <1>3 DEF LockHeld
<1>7. AtWork' = {d}
  BY <1>1, <1>2 DEF AtWork
<1>. QED  BY <1>1, <1>2, <1>5, <1>6, <1>7

(***************************************************************************)
(* A call c of the holder that makes its next store call x and becomes d.  *)
(***************************************************************************)
Makes(x, c, d) ==
    /\ AtWork = {c}
    /\ c \in Call
    /\ AtHand(c)
    /\ c.left # <<>>
    /\ Head(c.left) = x
    /\ d \in Call
    /\ SameCall(c, d)
    /\ AtWork' = {d}
    /\ LockHeld'
    /\ DeliveredOnce'
    /\ mu' \in Threads \cup {Free}
    /\ call' \in [Threads -> Call]

(***************************************************************************)
(* The holder makes store call x and goes on as call d.  What it will      *)
(* deliver besides its own message is pending still.                       *)
(***************************************************************************)
Going(t, x, c, d, left, shedding, accepted) ==
    /\ t \in Threads
    /\ At(t, x)
    /\ mu' = mu
    /\ c = call[t]
    /\ left \in Plans
    /\ shedding \in PartialLoads
    /\ accepted \in SUBSET SMSIDs
    /\ Further(c, d, left, shedding, accepted)
    /\ Goto(t, d)
    /\ \A m \in accepted : m # c.msgID => m \in BS!PendingSMS'

(***************************************************************************)
(* It is still the only one at work, with the same call.                   *)
(***************************************************************************)
LEMMA GoesOn ==
    ASSUME StepsInv, NEW t, NEW x, NEW c, NEW d, NEW left, NEW shedding,
           NEW accepted, Going(t, x, c, d, left, shedding, accepted)
    PROVE  /\ Makes(x, c, d)
           /\ d.left = left
           /\ d.shedding = shedding
           /\ d.accepted = accepted
<1>. USE DEF Going
<1>1. call[t] # Idle
  BY DEF At, Idle
<1>2. AtWork = {c} /\ c \in Call /\ AtHand(c)
  BY <1>1, AtWorkIs DEF StepsInv
<1>3. c.left # <<>> /\ Head(c.left) = x
  BY DEF At
<1>4. left \in Seq(StoreCall)
  BY PlanType
<1>5. /\ d \in Call
      /\ SameCall(c, d)
      /\ d.left = left
      /\ d.shedding = shedding
      /\ d.accepted = accepted
  BY <1>2, <1>4, CallUpdates DEF SameCall
<1>6. c.method # None \/ c.status # 0
  BY <1>2 DEF AtHand
<1>7. \A m \in d.accepted : m # d.msgID => m \in BS!PendingSMS'
  BY <1>5 DEF SameCall
<1>8. /\ mu' \in Threads \cup {Free}
      /\ call' \in [Threads -> Call]
      /\ LockHeld'
      /\ AtWork' = {d}
      /\ DeliveredOnce'
  BY <1>1, <1>5, <1>6, <1>7, HolderGoesOn DEF SameCall
<1>. QED
  BY <1>2, <1>3, <1>5, <1>8 DEF Makes

(***************************************************************************)
(* The holder has made store call x and is done with it.  Messages other   *)
(* than the one it sends itself that were pending are pending still.       *)
(***************************************************************************)
LEMMA DoneIs ==
    ASSUME StepsInv, NEW t \in Threads, NEW x, At(t, x), Done(t), mu' = mu,
           NEW c, c = call[t],
           \A m \in c.accepted :
              m # c.msgID /\ m \in BS!PendingSMS => m \in BS!PendingSMS'
    PROVE  \E d : /\ Makes(x, c, d)
                  /\ d.left \in Plans
                  /\ Todo(d) = Todo(c) \ {x}
                  /\ x \in Todo(c)
                  /\ d.accepted = c.accepted
                  /\ d.shedding = c.shedding
<1>1. call[t] # Idle
  BY DEF At, Idle
<1>2. c \in Call /\ c.left \in Plans
  BY <1>1, AtWorkIs DEF StepsInv, AtHand
<1>3. c.left # <<>> /\ Head(c.left) = x
  BY DEF At
<1>4. PICK left, d : left = Tail(c.left) /\ d = [c EXCEPT !.left = left]
  OBVIOUS
<1>5. d.left = left
  BY <1>2, <1>4 DEF Call
<1>6. d.left \in Plans /\ Todo(d) = Todo(c) \ {x} /\ x \in Todo(c)
  BY <1>2, <1>3, <1>4, <1>5, NextInPlan
<1>7. PICK shedding \in PartialLoads, accepted \in SUBSET SMSIDs :
         shedding = c.shedding /\ accepted = c.accepted
  BY <1>2 DEF Call
<1>8. Further(c, d, left, shedding, accepted)
  BY <1>2, <1>4, <1>7 DEF Call, Further
<1>9. Goto(t, d)
  BY <1>4 DEF Done, Goto
<1>10. \A m \in accepted : m # c.msgID => m \in BS!PendingSMS'
  BY <1>7 DEF StepsInv, DeliveredOnce
<1>11. left \in Plans
  BY <1>5, <1>6
<1>12. Makes(x, c, d) /\ d.shedding = shedding /\ d.accepted = accepted
  <2>1. Going(t, x, c, d, left, shedding, accepted)
    BY <1>7, <1>8, <1>9, <1>10, <1>11 DEF Going
  <2>. QED  BY <2>1, GoesOn
<1>. QED  BY <1>6, <1>7, <1>12

-----------------------------------------------------------------------------
(* The store calls preserve the invariant *)

(***************************************************************************)
(* An instruction stays earned whatever its black start does next.         *)
(***************************************************************************)
LEMMA EarnedStays ==
    ASSUME NEW i \in BS!Instruction, NEW from \in EarnedBy[i], NEW to,
           Moved(from, to)
    PROVE  to \in EarnedBy[i]
  BY BlackStartTable DEF BS!Instruction, EarnedBy, Moved

(***************************************************************************)
(* The tables BS speaks of are those of Domain.                            *)
(***************************************************************************)
LEMMA BSTables ==
    /\ BS!BlackStartStatus = BlackStartStatus
    /\ BS!GridConnStatus = GridConnStatus
    /\ BS!SignParty = SignParty
    /\ \A from, to :
          /\ BS!BlackStartCanTransition(from, to)
                <=> BlackStartCanTransition(from, to)
          /\ BS!GridConnCanTransition(from, to)
                <=> GridConnCanTransition(from, to)
  BY DEF BS!BlackStartStatus, BS!GridConnStatus, BS!SignParty,
         BS!BlackStartCanTransition, BS!GridConnCanTransition,
         BS!blackStartTransitions, BS!gridConnTransitions,
         BlackStartStatus, GridConnStatus, SignParty,
         BlackStartCanTransition, GridConnCanTransition,
         blackStartTransitions, gridConnTransitions

(***************************************************************************)
(* A request for a grid connection changes the status and the connection.  *)
(***************************************************************************)
LEMMA SyncingIs ==
    ASSUME NEW bs \in BS!BlackStartRecord, NEW g
    PROVE  LET syncing == BS!Syncing(bs, g)
           IN /\ syncing.status = "grid_syncing"
              /\ syncing.gridConnID = g
              /\ syncing.smsMessageIDs = bs.smsMessageIDs
              /\ g \in GridConnIDs => syncing \in BS!BlackStartRecord
<1>1. BS!Syncing(bs, g).status = "grid_syncing"
  BY DEF BS!Syncing, BS!BlackStartRecord
<1>2. BS!Syncing(bs, g).gridConnID = g
  BY DEF BS!Syncing, BS!BlackStartRecord
<1>3. BS!Syncing(bs, g).smsMessageIDs = bs.smsMessageIDs
  BY DEF BS!Syncing, BS!BlackStartRecord
<1>4. ASSUME g \in GridConnIDs PROVE BS!Syncing(bs, g) \in BS!BlackStartRecord
  BY <1>4, BSTables, BlackStartTable DEF BS!Syncing, BS!BlackStartRecord
<1>. QED  BY <1>1, <1>2, <1>3, <1>4

(***************************************************************************)
(* The invariant holds again if it does for the records and the one call   *)
(* at work.                                                                *)
(***************************************************************************)
LEMMA StepsInvAgain ==
    ASSUME NEW d, AtWork' = {d}, AtHand(d)', LockHeld', DeliveredOnce',
           BS!TypeOK', mu' \in Threads \cup {Free}, call' \in [Threads -> Call],
           SyncingConnected', ConnectedSyncing', SignaturesFit',
           MessagesBelong', SeedsKept', ReadersFindReferences',
           InstructionsEarned', ConnectionClosesLast',
           LeastImportantShedFirst'
    PROVE  StepsInv'
<1>1. \A e \in AtWork' : AtHand(e)'
  OBVIOUS
<1>2. TypeOK'
  BY DEF TypeOK
<1>. QED  BY <1>1, <1>2 DEF StepsInv

(***************************************************************************)
(* SaveBlackStart and PutBlackStart.                                       *)
(***************************************************************************)
LEMMA PutBlackStartSafe ==
    ASSUME StepsInv, NEW t \in Threads, PutBlackStart(t) PROVE StepsInv'
<1>1. PICK c, d : /\ c = call[t]
                  /\ Makes("PutBlackStart", c, d)
                  /\ d.left \in Plans
                  /\ Todo(d) = Todo(c) \ {"PutBlackStart"}
                  /\ "PutBlackStart" \in Todo(c)
                  /\ d.accepted = c.accepted
                  /\ d.shedding = c.shedding
  <2>1. \A m : m \in BS!PendingSMS => m \in BS!PendingSMS'
    BY DEF PutBlackStart, BS!PendingSMS
  <2>. QED  BY <2>1, DoneIs DEF PutBlackStart
<1>2. /\ c.id \in BlackStartIDs
      /\ c.bs \in BS!BlackStartRecord
      /\ c.left \in Plans /\ c.left # <<>> /\ Head(c.left) = "PutBlackStart"
      /\ SameCall(c, d)
  BY <1>1 DEF Makes, AtHand, BlackStartAtHand
<1>3. /\ DOMAIN blackStarts' = DOMAIN blackStarts \cup {c.id}
      /\ blackStarts'[c.id] = c.bs
      /\ \A b \in DOMAIN blackStarts : b # c.id => blackStarts'[b] = blackStarts[b]
      /\ UNCHANGED <<now, gridConns, smsMessages, loads>>
  BY <1>1 DEF PutBlackStart, Put
<1>4. BS!TypeOK'
  BY <1>2, <1>3 DEF StepsInv, TypeOK, BS!TypeOK
<1>5. /\ c.id \in DOMAIN blackStarts =>
            /\ c.old = blackStarts[c.id]
            /\ c.bs.smsMessageIDs = blackStarts[c.id].smsMessageIDs
            /\ Moved(blackStarts[c.id].status, c.bs.status)
      /\ c.id \notin DOMAIN blackStarts =>
            /\ c.bs.status = "initiated"
            /\ c.bs.gridConnID = NoGridConn
            /\ c.bs.smsMessageIDs = {}
            /\ Todo(c) = {"PutBlackStart"}
  BY <1>1 DEF Makes, AtHand, BlackStartAtHand
<1>6. "ListLoads" \in Todo(c) =>
         /\ c.id \in DOMAIN blackStarts
         /\ c.gcID \in DOMAIN gridConns
         /\ gridConns[c.gcID].blackStartID = c.id
         /\ c.bs.status = "grid_syncing"
         /\ c.bs.gridConnID = c.gcID
  <2>1. "ListLoads" \in Todo(c) => "PutGridConn" \notin Todo(c)
    BY <1>2, PlanHead
  <2>. QED
    BY <1>1, <2>1, SyncingIs DEF Makes, AtHand, RequestAtHand
<1>7. AtHand(d)'
  <2>1. BlackStartAtHand(d)' /\ RetryAtHand(d)'
    BY <1>1 DEF BlackStartAtHand, RetryAtHand, Makes, AtHand, SameCall
  <2>2. ConnectionAtHand(d)'
    <3>1. "PutGridConn" \in Todo(c) => "ListLoads" \notin Todo(c)
      BY <1>2, PlanHead
    <3>2. ConnectionAtHand(c)
      BY <1>1 DEF Makes, AtHand
    <3>. QED
      BY <1>1, <1>2, <1>3, <3>1, <3>2 DEF ConnectionAtHand, SameCall
  <2>3. RequestAtHand(d)'
    <3>1. RequestAtHand(c)
      BY <1>1 DEF Makes, AtHand
    <3>. QED
      BY <1>1, <1>2, <1>3, <3>1 DEF RequestAtHand, SameCall
  <2>4. MessageAtHand(d)'
    <3>1. MessageAtHand(c)
      BY <1>1 DEF Makes, AtHand
    <3>2. "LinkSMS" \in Todo(c) => {"SaveSMS", "PutSMS"} \subseteq Todo(c)
      BY <1>2, PlanHead, PlanOrder
    <3>. QED
      BY <1>1, <1>2, <1>3, <3>1, <3>2 DEF MessageAtHand, SameCall
  <2>5. LoadsAtHand(d)'
    <3>1. "PutLoad" \in Todo(c) => "ListLoads" \in Todo(c)
      BY <1>2, PlanHead
    <3>. QED  BY <1>1, <3>1 DEF LoadsAtHand
  <2>6. AnswerAtHand(d)'
    <3>1. AnswerAtHand(c)
      BY <1>1 DEF Makes, AtHand
    <3>. QED
      BY <1>1, <1>2, <1>3, <3>1 DEF AnswerAtHand, SameCall
  <2>. QED
    BY <1>1, <2>1, <2>2, <2>3, <2>4, <2>5, <2>6 DEF AtHand, Makes, SameCall
<1>8. SyncingConnected'
  <2>1. c.id \in DOMAIN blackStarts /\ "ListLoads" \notin Todo(c)
          => /\ c.bs.gridConnID = blackStarts[c.id].gridConnID
             /\ c.bs.status = "grid_syncing"
                   => blackStarts[c.id].status = "grid_syncing"
    BY <1>1 DEF Makes, AtHand, BlackStartAtHand
  <2>2. c.bs.status \in {"grid_syncing", "completed"} =>
           /\ c.bs.gridConnID \in DOMAIN gridConns
           /\ gridConns[c.bs.gridConnID].blackStartID = c.id
    BY <1>5, <1>6, <2>1 DEF StepsInv, SyncingConnected, Moved
  <2>3. c.bs.status \notin {"grid_syncing", "completed"} =>
           c.bs.gridConnID = NoGridConn
    BY <1>5, <1>6, <2>1 DEF StepsInv, SyncingConnected, Moved
  <2>. QED
    BY <1>3, <2>2, <2>3 DEF StepsInv, SyncingConnected
<1>9. ConnectedSyncing'
  <2>1. ASSUME NEW g \in DOMAIN gridConns
        PROVE  /\ gridConns[g].blackStartID \in DOMAIN blackStarts'
               /\ blackStarts'[gridConns[g].blackStartID].status
                     \in {"grid_syncing", "completed"}
    <3>1. \/ blackStarts[gridConns[g].blackStartID].status
                \in {"grid_syncing", "completed"}
          \/ g = c.gcID /\ "ListLoads" \in Todo(c)
      BY <1>1 DEF StepsInv, ConnectedSyncing, Makes
    <3>2. gridConns[g].blackStartID \in DOMAIN blackStarts
      BY DEF StepsInv, ConnectedSyncing
    <3>. QED  BY <1>3, <1>5, <1>6, <3>1, <3>2 DEF Moved
  <2>. QED  BY <1>3, <2>1 DEF ConnectedSyncing
<1>10. SignaturesFit' /\ MessagesBelong' /\ SeedsKept' /\ LeastImportantShedFirst'
  BY <1>3 DEF StepsInv, SignaturesFit, MessagesBelong, SeedsKept,
              LeastImportantShedFirst, Fits
<1>11. ReadersFindReferences'
  <2>1. \A m \in c.bs.smsMessageIDs :
           m \in DOMAIN smsMessages /\ smsMessages[m].status = "delivered"
    BY <1>5 DEF StepsInv, ReadersFindReferences
  <2>2. c.bs.gridConnID \in DOMAIN gridConns \cup {NoGridConn}
    BY <1>3, <1>8 DEF SyncingConnected
  <2>. QED
    BY <1>3, <2>1, <2>2 DEF StepsInv, ReadersFindReferences
<1>12. InstructionsEarned'
  <2>1. ASSUME NEW m \in DOMAIN smsMessages
        PROVE  blackStarts'[smsMessages[m].blackStartID].status
                  \in EarnedBy[smsMessages[m].instruction]
    <3>1. /\ smsMessages[m].blackStartID \in DOMAIN blackStarts
          /\ blackStarts[smsMessages[m].blackStartID].status
                \in EarnedBy[smsMessages[m].instruction]
          /\ smsMessages[m].instruction \in BS!Instruction
      BY DEF StepsInv, InstructionsEarned, MessagesBelong, TypeOK,
             BS!TypeOK, BS!SMSMessage
    <3>2. CASE smsMessages[m].blackStartID = c.id
      BY <1>3, <1>5, <3>1, <3>2, EarnedStays
    <3>3. CASE smsMessages[m].blackStartID # c.id
      BY <1>3, <3>1, <3>3
    <3>. QED  BY <3>2, <3>3
  <2>. QED  BY <1>3, <2>1 DEF InstructionsEarned
<1>13. ConnectionClosesLast'
  BY <1>3, <1>5 DEF StepsInv, ConnectionClosesLast, ConnectedSyncing, Moved
<1>. QED
  BY <1>1, <1>4, <1>7, <1>8, <1>9, <1>10, <1>11, <1>12, <1>13, StepsInvAgain
     DEF Makes

(***************************************************************************)
(* SaveGridConn and PutGridConn.                                           *)
(***************************************************************************)
LEMMA PutGridConnSafe ==
    ASSUME StepsInv, NEW t \in Threads, PutGridConn(t) PROVE StepsInv'
<1>1. PICK c, d : /\ c = call[t]
                  /\ Makes("PutGridConn", c, d)
                  /\ d.left \in Plans
                  /\ Todo(d) = Todo(c) \ {"PutGridConn"}
                  /\ "PutGridConn" \in Todo(c)
                  /\ d.accepted = c.accepted
                  /\ d.shedding = c.shedding
  <2>1. \A m : m \in BS!PendingSMS => m \in BS!PendingSMS'
    BY DEF PutGridConn, BS!PendingSMS
  <2>. QED  BY <2>1, DoneIs DEF PutGridConn
<1>2. /\ c.left \in Plans /\ c.left # <<>> /\ Head(c.left) = "PutGridConn"
      /\ SameCall(c, d)
      /\ AtHand(c)
  BY <1>1 DEF Makes, AtHand
<1>3. /\ DOMAIN gridConns' = DOMAIN gridConns \cup {c.gcID}
      /\ gridConns'[c.gcID] = c.gc
      /\ \A g \in DOMAIN gridConns : g # c.gcID => gridConns'[g] = gridConns[g]
      /\ UNCHANGED <<now, blackStarts, smsMessages, loads>>
  BY <1>1 DEF PutGridConn, Put
<1>4. /\ c.gcID \in GridConnIDs
      /\ c.gc \in BS!GridConnection
      /\ c.id \in DOMAIN blackStarts
      /\ c.gc.blackStartID = c.id
      /\ Fits(c.gc)
      /\ c.gcID \in DOMAIN gridConns <=> "ListLoads" \notin Todo(c)
      /\ c.gcID \in DOMAIN gridConns =>
            /\ gridConns[c.gcID].blackStartID = c.id
            /\ c.gc.status = "completed" =>
                  IF "PutBlackStart" \in Todo(c)
                  THEN c.bs.status = "completed"
                  ELSE blackStarts[c.id].status = "completed"
  BY <1>1, <1>2 DEF AtHand, ConnectionAtHand
<1>5. /\ "PutBlackStart" \in Todo(c) <=> "ListLoads" \in Todo(c)
      /\ "PutLoad" \in Todo(c) => "ListLoads" \in Todo(c)
      /\ "LinkSMS" \in Todo(c) => {"SaveSMS", "PutSMS"} \subseteq Todo(c)
  BY <1>2, PlanHead, PlanOrder
<1>6. "ListLoads" \in Todo(c) =>
         c.gc = [blackStartID |-> c.id, status |-> "requested", signed |-> {}]
  BY <1>2 DEF AtHand, RequestAtHand
<1>7. BS!TypeOK'
  BY <1>3, <1>4 DEF StepsInv, TypeOK, BS!TypeOK
<1>8. AtHand(d)'
  <2>1. BlackStartAtHand(d)'
    <3>1. BlackStartAtHand(c)
      BY <1>2 DEF AtHand
    <3>. QED  BY <1>1, <1>2, <1>3, <1>4, <3>1 DEF BlackStartAtHand, SameCall
  <2>2. ConnectionAtHand(d)' /\ LoadsAtHand(d)'
    BY <1>1, <1>5 DEF ConnectionAtHand, LoadsAtHand
  <2>3. RequestAtHand(d)'
    <3>1. RequestAtHand(c)
      BY <1>2 DEF AtHand
    <3>. QED  BY <1>1, <1>2, <1>3, <3>1 DEF RequestAtHand, SameCall
  <2>4. MessageAtHand(d)' /\ RetryAtHand(d)'
    <3>1. MessageAtHand(c) /\ RetryAtHand(c)
      BY <1>2 DEF AtHand
    <3>. QED
      BY <1>1, <1>2, <1>3, <1>5, <3>1 DEF MessageAtHand, RetryAtHand, SameCall
  <2>5. AnswerAtHand(d)'
    <3>1. AnswerAtHand(c)
      BY <1>2 DEF AtHand
    <3>. QED  BY <1>1, <1>2, <1>3, <3>1 DEF AnswerAtHand, SameCall
  <2>. QED
    BY <1>1, <1>2, <2>1, <2>2, <2>3, <2>4, <2>5 DEF AtHand, SameCall
<1>9. SyncingConnected'
  <2>1. \A g \in DOMAIN gridConns :
           /\ g \in DOMAIN gridConns'
           /\ gridConns'[g].blackStartID = gridConns[g].blackStartID
    BY <1>3, <1>4
  <2>. QED  BY <1>3, <2>1 DEF StepsInv, SyncingConnected
<1>10. ConnectedSyncing'
  <2>1. ASSUME NEW g \in DOMAIN gridConns'
        PROVE  /\ gridConns'[g].blackStartID \in DOMAIN blackStarts
               /\ \/ blackStarts[gridConns'[g].blackStartID].status
                        \in {"grid_syncing", "completed"}
                  \/ /\ {"PutBlackStart", "ListLoads"} \subseteq Todo(d)
                     /\ g = d.gcID
    <3>1. CASE g \in DOMAIN gridConns
      <4>1. /\ gridConns[g].blackStartID \in DOMAIN blackStarts
            /\ \/ blackStarts[gridConns[g].blackStartID].status
                     \in {"grid_syncing", "completed"}
               \/ /\ {"PutBlackStart", "ListLoads"} \subseteq Todo(c)
                  /\ g = c.gcID
        BY <1>1, <3>1 DEF StepsInv, ConnectedSyncing, Makes
      <4>2. gridConns'[g].blackStartID = gridConns[g].blackStartID
        BY <1>3, <1>4, <3>1
      <4>. QED  BY <1>1, <1>2, <4>1, <4>2 DEF SameCall
    <3>2. CASE g \notin DOMAIN gridConns
      BY <1>1, <1>2, <1>3, <1>4, <1>5, <3>2 DEF SameCall
    <3>. QED  BY <3>1, <3>2
  <2>2. AtWork' = {d}
    BY <1>1 DEF Makes
  <2>. QED  BY <1>3, <2>1, <2>2 DEF ConnectedSyncing
<1>11. SignaturesFit' /\ MessagesBelong' /\ SeedsKept' /\ LeastImportantShedFirst'
  BY <1>3, <1>4 DEF StepsInv, SignaturesFit, MessagesBelong, SeedsKept,
              LeastImportantShedFirst, Fits
<1>12. ReadersFindReferences' /\ InstructionsEarned'
  BY <1>3, <1>4 DEF StepsInv, ReadersFindReferences, InstructionsEarned
<1>13. ConnectionClosesLast'
  BY <1>3, <1>4, <1>5, <1>6 DEF StepsInv, ConnectionClosesLast
<1>. QED
  BY <1>1, <1>7, <1>8, <1>9, <1>10, <1>11, <1>12, <1>13, StepsInvAgain
     DEF Makes

(***************************************************************************)
(* What the invariant says of the store alone stays true while the store   *)
(* does not change.                                                        *)
(***************************************************************************)
LEMMA StoreKept ==
    ASSUME StepsInv, UNCHANGED <<now, store>>
    PROVE  /\ BS!TypeOK'
           /\ SyncingConnected' /\ SignaturesFit' /\ MessagesBelong'
           /\ SeedsKept' /\ ReadersFindReferences' /\ InstructionsEarned'
           /\ ConnectionClosesLast' /\ LeastImportantShedFirst'
<1>. USE DEF StepsInv, store
<1>1. BS!TypeOK'
  BY DEF TypeOK, BS!TypeOK
<1>2. SyncingConnected' /\ SignaturesFit' /\ MessagesBelong' /\ SeedsKept'
  BY DEF SyncingConnected, SignaturesFit, MessagesBelong, SeedsKept, Fits
<1>3. ReadersFindReferences' /\ InstructionsEarned'
  BY DEF ReadersFindReferences, InstructionsEarned
<1>4. ConnectionClosesLast' /\ LeastImportantShedFirst'
  BY DEF ConnectionClosesLast, LeastImportantShedFirst
<1>. QED  BY <1>1, <1>2, <1>3, <1>4

(***************************************************************************)
(* Every connection is of a syncing or completed black start when the call *)
(* at work is not, or no longer, between the two writes of a request.      *)
(***************************************************************************)
LEMMA ConnectedSyncingKept ==
    ASSUME StepsInv, \A c \in AtWork : "PutBlackStart" \notin Todo(c)
                                       \/ "ListLoads" \notin Todo(c),
           gridConns' = gridConns,
           DOMAIN blackStarts \subseteq DOMAIN blackStarts',
           \A b \in DOMAIN blackStarts :
              blackStarts'[b].status = blackStarts[b].status
    PROVE  ConnectedSyncing'
  BY DEF StepsInv, ConnectedSyncing

(***************************************************************************)
(* Shedding lists every load as shedding leaves it.                        *)
(***************************************************************************)
LEMMA SheddingIs ==
    ASSUME StepsInv
    PROVE  LET shedding == ShedLoadsByPriority(loads, LoadPriority, 1)
           IN /\ DOMAIN shedding = DOMAIN loads
              /\ shedding \in PartialLoads
              /\ \A l \in DOMAIN loads : shedding[l] \in BS!Load
              /\ \A l \in SeedLoads : l \in DOMAIN loads
                                      /\ shedding[l] = Served(l)
<1> DEFINE shedding == ShedLoadsByPriority(loads, LoadPriority, 1)
<1>1. DOMAIN loads \subseteq LoadIDs /\ \A l \in DOMAIN loads : loads[l] \in BS!Load
  BY DEF StepsInv, TypeOK, BS!TypeOK
<1>2. \A l \in DOMAIN loads : shedding[l] \in BS!Load
  BY <1>1 DEF ShedLoadsByPriority, BS!Load, Energized, Shed
<1>3. DOMAIN shedding = DOMAIN loads
  BY DEF ShedLoadsByPriority
<1>4. shedding \in [DOMAIN loads -> BS!Load]
  BY <1>2 DEF ShedLoadsByPriority
<1>5. shedding \in PartialLoads
  BY <1>1, <1>4 DEF PartialLoads
<1>6. ASSUME NEW l \in SeedLoads
      PROVE  l \in DOMAIN loads /\ shedding[l] = Served(l)
  <2>1. /\ l \in DOMAIN loads
        /\ loads[l] \in {Energized, Shed}
    BY DEF StepsInv, SeedsKept
  <2>2. Energized.energized /\ ~Energized.shed /\ Shed.shed
    BY DEF Energized, Shed
  <2>3. shedding[l] = IF LoadPriority[l] <= 1 THEN Energized
                      ELSE IF loads[l].energized /\ ~loads[l].shed THEN Shed
                      ELSE loads[l]
    BY <2>1 DEF ShedLoadsByPriority
  <2>. QED  BY <2>1, <2>2, <2>3 DEF Served
<1>. QED  BY <1>2, <1>3, <1>5, <1>6

(***************************************************************************)
(* ListLoads and ShedLoadsByPriority.                                      *)
(***************************************************************************)
LEMMA ListLoadsSafe ==
    ASSUME StepsInv, NEW t \in Threads, ListLoads(t) PROVE StepsInv'
<1>1. At(t, "ListLoads") /\ mu' = mu /\ UNCHANGED <<now, store>>
  BY DEF ListLoads
<1>2. call[t] # Idle
  BY <1>1 DEF At, Idle
<1>3. PICK c : c = call[t]
  OBVIOUS
<1>4. PICK left, shedding, d :
         /\ left = Tail(c.left)
         /\ shedding = ShedLoadsByPriority(loads, LoadPriority, 1)
         /\ d = [c EXCEPT !.left = left, !.shedding = shedding]
  OBVIOUS
<1>5. c \in Call /\ AtHand(c) /\ AtWork = {c}
  BY <1>2, <1>3, <1>4, AtWorkIs DEF StepsInv
<1>6. c.left \in Plans /\ c.left # <<>> /\ Head(c.left) = "ListLoads"
  BY <1>1, <1>3, <1>4, <1>5 DEF At, AtHand
<1>7. d.left = left
  BY <1>3, <1>4, <1>5 DEF Call
<1>8. left \in Plans /\ Todo(d) = Todo(c) \ {"ListLoads"}
  BY <1>3, <1>4, <1>6, <1>7, NextInPlan
<1>9. PICK accepted \in SUBSET SMSIDs : accepted = c.accepted
  BY <1>5 DEF Call
<1>10. shedding \in PartialLoads
  BY <1>3, <1>4, SheddingIs
<1>11. Further(c, d, left, shedding, accepted)
  BY <1>3, <1>4, <1>5, <1>9 DEF Call, Further
<1>12. Goto(t, d)
  BY <1>3, <1>4 DEF ListLoads, Goto
<1>13. \A m \in accepted : m # c.msgID => m \in BS!PendingSMS'
  BY <1>1, <1>3, <1>4, <1>9 DEF StepsInv, DeliveredOnce, BS!PendingSMS, store
<1>14. /\ Makes("ListLoads", c, d)
       /\ d.left = left /\ d.shedding = shedding /\ d.accepted = accepted
  <2>1. Going(t, "ListLoads", c, d, left, shedding, accepted)
    BY <1>1, <1>3, <1>8, <1>9, <1>10, <1>11, <1>12, <1>13 DEF Going
  <2>. QED  BY <2>1, GoesOn
<1>15. SameCall(c, d)
  BY <1>14 DEF Makes
<1>16. Todo(c) = {"ListLoads", "PutLoad", "SaveSMS", "PutSMS", "LinkSMS"}
  BY <1>6, PlanHead
<1>17. AtHand(d)'
  <2>1. BlackStartAtHand(d)' /\ ConnectionAtHand(d)' /\ RequestAtHand(d)'
    BY <1>8, <1>16 DEF BlackStartAtHand, ConnectionAtHand, RequestAtHand
  <2>2. MessageAtHand(d)' /\ RetryAtHand(d)'
    <3>1. MessageAtHand(c)
      BY <1>5 DEF AtHand
    <3>. QED
      BY <1>1, <1>8, <1>9, <1>14, <1>15, <1>16, <3>1
         DEF MessageAtHand, RetryAtHand, SameCall, Message, store
  <2>3. LoadsAtHand(d)'
    BY <1>1, <1>3, <1>4, <1>14, SheddingIs DEF LoadsAtHand, Served, store
  <2>4. AnswerAtHand(d)'
    <3>1. AnswerAtHand(c)
      BY <1>5 DEF AtHand
    <3>. QED
      BY <1>1, <1>8, <1>15, <1>16, <3>1
         DEF AnswerAtHand, SameCall, store, Unlinked
  <2>. QED
    BY <1>5, <1>8, <1>14, <1>15, <2>1, <2>2, <2>3, <2>4 DEF AtHand, SameCall
<1>18. ConnectedSyncing'
  BY <1>1, <1>5, <1>16, ConnectedSyncingKept DEF store
<1>. QED
  BY <1>1, <1>14, <1>17, <1>18, StoreKept, StepsInvAgain DEF Makes

(***************************************************************************)
(* PutLoad, one load of the sorted list: the loads written before it are   *)
(* dark already if they are less important and not critical.               *)
(***************************************************************************)
LEMMA PutLoadSafe ==
    ASSUME StepsInv, NEW t \in Threads, NEW l, PutLoad(t, l) PROVE StepsInv'
<1>1. /\ At(t, "PutLoad") /\ mu' = mu
      /\ UNCHANGED <<now, blackStarts, gridConns, smsMessages>>
  BY DEF PutLoad
<1>2. call[t] # Idle
  BY <1>1 DEF At, Idle
<1>3. PICK c : c = call[t]
  OBVIOUS
<1>4. PICK shedding, d :
         /\ shedding = [k \in DOMAIN c.shedding \ {l} |-> c.shedding[k]]
         /\ d = [c EXCEPT !.shedding = shedding]
  OBVIOUS
<1>5. c \in Call /\ AtHand(c) /\ AtWork = {c}
  BY <1>2, <1>3, <1>4, AtWorkIs DEF StepsInv
<1>6. c.left \in Plans /\ c.left # <<>> /\ Head(c.left) = "PutLoad"
  BY <1>1, <1>3, <1>4, <1>5 DEF At, AtHand
<1>7. Todo(c) = {"PutLoad", "SaveSMS", "PutSMS", "LinkSMS"}
  BY <1>6, PlanHead
<1>8. PICK left \in Plans, accepted \in SUBSET SMSIDs :
         left = c.left /\ accepted = c.accepted
  BY <1>5, <1>6 DEF Call
<1>9. /\ l \in DOMAIN c.shedding
      /\ \A k \in DOMAIN c.shedding : LoadPriority[k] <= LoadPriority[l]
      /\ DOMAIN loads' = DOMAIN loads \cup {l}
      /\ loads'[l] = c.shedding[l]
      /\ \A k \in DOMAIN loads : k # l => loads'[k] = loads[k]
  BY <1>3, <1>4 DEF PutLoad, Put
<1>10. /\ DOMAIN c.shedding \subseteq DOMAIN loads
       /\ \A k \in DOMAIN c.shedding : c.shedding[k] \in BS!Load
       /\ \A k \in SeedLoads : IF k \in DOMAIN c.shedding
                               THEN c.shedding[k] = Served(k)
                               ELSE loads[k] = Served(k)
  BY <1>5, <1>7 DEF AtHand, LoadsAtHand
<1>11. DOMAIN loads \subseteq LoadIDs /\ LoadPriority \in [LoadIDs -> Int]
       /\ SeedLoads \subseteq DOMAIN loads
  BY StepsAssumption DEF StepsInv, TypeOK, BS!TypeOK, SeedsKept
<1>12. /\ DOMAIN shedding = DOMAIN c.shedding \ {l}
       /\ \A k \in DOMAIN shedding : shedding[k] = c.shedding[k]
       /\ shedding \in PartialLoads
  <2>1. shedding \in [DOMAIN c.shedding \ {l} -> BS!Load]
    BY <1>3, <1>4, <1>10
  <2>2. DOMAIN c.shedding \ {l} \in SUBSET LoadIDs
    BY <1>10, <1>11
  <2>. QED  BY <1>3, <1>4, <2>1, <2>2 DEF PartialLoads
<1>13. Further(c, d, left, shedding, accepted)
  BY <1>3, <1>4, <1>5, <1>8 DEF Call, Further
<1>14. Goto(t, d)
  BY <1>3, <1>4 DEF PutLoad, Goto
<1>15. \A m \in accepted : m # c.msgID => m \in BS!PendingSMS'
  BY <1>1, <1>3, <1>4, <1>8 DEF StepsInv, DeliveredOnce, BS!PendingSMS
<1>16. /\ Makes("PutLoad", c, d)
       /\ d.left = left /\ d.shedding = shedding /\ d.accepted = accepted
  <2>1. Going(t, "PutLoad", c, d, left, shedding, accepted)
    BY <1>1, <1>3, <1>8, <1>12, <1>13, <1>14, <1>15 DEF Going
  <2>. QED  BY <2>1, GoesOn
<1>17. SameCall(c, d) /\ Todo(d) = Todo(c)
  BY <1>8, <1>16 DEF Makes, Todo
<1>18. \A k \in SeedLoads : IF k \in DOMAIN shedding
                            THEN shedding[k] = Served(k)
                            ELSE loads'[k] = Served(k)
  BY <1>9, <1>10, <1>11, <1>12
<1>19. BS!TypeOK'
  BY <1>1, <1>9, <1>10, <1>11 DEF StepsInv, TypeOK, BS!TypeOK
<1>20. SeedsKept'
  BY <1>9, <1>10, <1>11 DEF StepsInv, SeedsKept, Served
<1>21. LeastImportantShedFirst'
  <2> SUFFICES ASSUME NEW a \in SeedLoads, NEW b \in SeedLoads,
                      loads'[a].shed, LoadPriority[b] > LoadPriority[a]
               PROVE  loads'[b].shed
    BY DEF LeastImportantShedFirst
  <2>1. LoadPriority[a] \in Int /\ LoadPriority[b] \in Int
    BY <1>11
  <2>2. LoadPriority[a] > 1
    BY <1>20, <2>1 DEF SeedsKept, Energized
  <2>3. Served(b) = Shed
    BY <2>1, <2>2 DEF Served
  <2>4. CASE b = l
    BY <1>9, <1>10, <2>3, <2>4 DEF Shed
  <2>5. CASE b # l /\ a = l
    <3>1. b \notin DOMAIN c.shedding
      BY <1>9, <2>1, <2>5
    <3>. QED  BY <1>9, <1>10, <1>11, <2>3, <2>5, <3>1 DEF Shed
  <2>6. CASE b # l /\ a # l
    BY <1>9, <1>11, <2>6 DEF StepsInv, LeastImportantShedFirst
  <2>. QED  BY <2>4, <2>5, <2>6
<1>22. AtHand(d)'
  <2>1. BlackStartAtHand(d)' /\ ConnectionAtHand(d)' /\ RequestAtHand(d)'
    BY <1>7, <1>17 DEF BlackStartAtHand, ConnectionAtHand, RequestAtHand
  <2>2. MessageAtHand(d)' /\ RetryAtHand(d)'
    <3>1. MessageAtHand(c)
      BY <1>5 DEF AtHand
    <3>. QED
      BY <1>1, <1>7, <1>8, <1>16, <1>17, <3>1
         DEF MessageAtHand, RetryAtHand, SameCall, Message
  <2>3. LoadsAtHand(d)'
    BY <1>9, <1>10, <1>12, <1>16, <1>18 DEF LoadsAtHand, Served
  <2>4. AnswerAtHand(d)'
    <3>1. AnswerAtHand(c)
      BY <1>5 DEF AtHand
    <3>. QED
      BY <1>1, <1>7, <1>17, <3>1 DEF AnswerAtHand, SameCall, Unlinked
  <2>. QED
    BY <1>5, <1>8, <1>16, <1>17, <2>1, <2>2, <2>3, <2>4 DEF AtHand, SameCall
<1>23. ConnectedSyncing'
  BY <1>1, <1>5, <1>7, ConnectedSyncingKept
<1>24. SyncingConnected' /\ SignaturesFit' /\ MessagesBelong'
  BY <1>1 DEF StepsInv, SyncingConnected, SignaturesFit, MessagesBelong, Fits
<1>25. /\ ReadersFindReferences' /\ InstructionsEarned'
       /\ ConnectionClosesLast'
  BY <1>1 DEF StepsInv, ReadersFindReferences, InstructionsEarned,
              ConnectionClosesLast
<1>. QED
  BY <1>16, <1>19, <1>20, <1>21, <1>22, <1>23, <1>24, <1>25, StepsInvAgain
     DEF Makes

(***************************************************************************)
(* SaveSMS files the message as pending, after the fact it reports.        *)
(***************************************************************************)
LEMMA SaveSMSSafe ==
    ASSUME StepsInv, NEW t \in Threads, SaveSMS(t) PROVE StepsInv'
<1>1. PICK c : c = call[t]
  OBVIOUS
<1>2. /\ At(t, "SaveSMS") /\ Done(t) /\ mu' = mu
      /\ UNCHANGED <<now, blackStarts, gridConns, loads>>
      /\ DOMAIN smsMessages' = DOMAIN smsMessages \cup {c.msgID}
      /\ smsMessages'[c.msgID] = Message(c, "pending")
      /\ \A m \in DOMAIN smsMessages :
            m # c.msgID => smsMessages'[m] = smsMessages[m]
  BY <1>1 DEF SaveSMS, Put
<1>3. PICK d : /\ Makes("SaveSMS", c, d)
               /\ d.left \in Plans
               /\ Todo(d) = Todo(c) \ {"SaveSMS"}
               /\ d.accepted = c.accepted
  <2>1. \A m \in c.accepted : m # c.msgID /\ m \in BS!PendingSMS
                                 => m \in BS!PendingSMS'
    BY <1>2 DEF BS!PendingSMS
  <2>. QED  BY <1>1, <1>2, <2>1, DoneIs
<1>4. /\ AtWork = {c} /\ AtHand(c) /\ SameCall(c, d)
      /\ Todo(c) = {"SaveSMS", "PutSMS", "LinkSMS"}
  <2>1. c.left \in Plans /\ c.left # <<>> /\ Head(c.left) = "SaveSMS"
    BY <1>3 DEF Makes, AtHand
  <2>. QED  BY <1>3, <2>1, PlanHead DEF Makes
<1>5. /\ c.message \in BS!Instruction
      /\ c.msgID \in SMSIDs
      /\ c.msgID \notin DOMAIN smsMessages
      /\ c.accepted \in {{}, {c.msgID}}
      /\ c.id \in DOMAIN blackStarts
      /\ blackStarts[c.id].status \in EarnedBy[c.message]
  BY <1>4 DEF AtHand, MessageAtHand
<1>6. smsMessages'[c.msgID] \in BS!SMSMessage
  <2>1. c.id \in BlackStartIDs
    BY <1>5 DEF StepsInv, TypeOK, BS!TypeOK
  <2>. QED  BY <1>2, <1>5, <2>1 DEF Message, BS!SMSMessage
<1>7. BS!TypeOK'
  BY <1>2, <1>5, <1>6 DEF StepsInv, TypeOK, BS!TypeOK
<1>8. AtHand(d)'
  <2>1. BlackStartAtHand(d)' /\ ConnectionAtHand(d)' /\ RequestAtHand(d)'
    BY <1>3, <1>4 DEF BlackStartAtHand, ConnectionAtHand, RequestAtHand
  <2>2. MessageAtHand(d)'
    BY <1>2, <1>3, <1>4, <1>5 DEF MessageAtHand, SameCall, Message
  <2>3. RetryAtHand(d)' /\ LoadsAtHand(d)'
    BY <1>3, <1>4 DEF RetryAtHand, LoadsAtHand
  <2>4. AnswerAtHand(d)'
    BY <1>2, <1>3, <1>4 DEF AtHand, AnswerAtHand, SameCall, Unlinked
  <2>. QED
    BY <1>3, <1>4, <2>1, <2>2, <2>3, <2>4 DEF AtHand, SameCall
<1>9. ConnectedSyncing'
  BY <1>2, <1>4, ConnectedSyncingKept
<1>10. SyncingConnected' /\ SignaturesFit' /\ SeedsKept'
       /\ ConnectionClosesLast' /\ LeastImportantShedFirst'
  BY <1>2 DEF StepsInv, SyncingConnected, SignaturesFit, SeedsKept, Fits,
              ConnectionClosesLast, LeastImportantShedFirst
<1>11. MessagesBelong' /\ InstructionsEarned'
  BY <1>2, <1>5 DEF StepsInv, MessagesBelong, InstructionsEarned, Message
<1>12. ReadersFindReferences'
  BY <1>2, <1>5 DEF StepsInv, ReadersFindReferences
<1>. QED
  BY <1>3, <1>7, <1>8, <1>9, <1>10, <1>11, <1>12, StepsInvAgain DEF Makes

(***************************************************************************)
(* PutSMS, for a message that got through.                                 *)
(***************************************************************************)
LEMMA PutSMSDelivered ==
    ASSUME StepsInv, NEW t \in Threads, PutSMS(t),
           call[t].msgID \in call[t].accepted
    PROVE  StepsInv'
<1>1. PICK c : c = call[t]
  OBVIOUS
<1>2. /\ At(t, "PutSMS") /\ Done(t) /\ mu' = mu
      /\ UNCHANGED <<now, blackStarts, gridConns, loads>>
      /\ DOMAIN smsMessages' = DOMAIN smsMessages \cup {c.msgID}
      /\ smsMessages'[c.msgID] = Message(c, "delivered")
      /\ \A m \in DOMAIN smsMessages :
            m # c.msgID => smsMessages'[m] = smsMessages[m]
  BY <1>1 DEF PutSMS, Put
<1>3. PICK d : /\ Makes("PutSMS", c, d)
               /\ d.left \in Plans
               /\ Todo(d) = Todo(c) \ {"PutSMS"}
               /\ d.accepted = c.accepted
  <2>1. \A m \in c.accepted : m # c.msgID /\ m \in BS!PendingSMS
                                 => m \in BS!PendingSMS'
    BY <1>2 DEF BS!PendingSMS
  <2>. QED  BY <1>1, <1>2, <2>1, DoneIs
<1>4. /\ AtWork = {c} /\ AtHand(c) /\ SameCall(c, d)
      /\ Todo(c) = {"PutSMS", "LinkSMS"}
  <2>1. c.left \in Plans /\ c.left # <<>> /\ Head(c.left) = "PutSMS"
    BY <1>3 DEF Makes, AtHand
  <2>. QED  BY <1>3, <2>1, PlanHead DEF Makes
<1>5. /\ c.message \in BS!Instruction
      /\ c.msgID \in SMSIDs
      /\ c.msgID \in DOMAIN smsMessages
      /\ c.msgID \in c.accepted /\ c.accepted \in {{}, {c.msgID}}
      /\ c.id \in DOMAIN blackStarts
      /\ blackStarts[c.id].status \in EarnedBy[c.message]
  BY <1>1, <1>4 DEF AtHand, MessageAtHand
<1>6. smsMessages'[c.msgID] \in BS!SMSMessage
  <2>1. c.id \in BlackStartIDs
    BY <1>5 DEF StepsInv, TypeOK, BS!TypeOK
  <2>. QED  BY <1>2, <1>5, <2>1 DEF Message, BS!SMSMessage
<1>7. BS!TypeOK'
  BY <1>2, <1>5, <1>6 DEF StepsInv, TypeOK, BS!TypeOK
<1>8. AtHand(d)'
  <2>1. BlackStartAtHand(d)' /\ ConnectionAtHand(d)' /\ RequestAtHand(d)'
    BY <1>3, <1>4 DEF BlackStartAtHand, ConnectionAtHand, RequestAtHand
  <2>2. MessageAtHand(d)'
    BY <1>2, <1>3, <1>4, <1>5 DEF MessageAtHand, SameCall, Message
  <2>3. RetryAtHand(d)' /\ LoadsAtHand(d)'
    BY <1>3, <1>4 DEF RetryAtHand, LoadsAtHand
  <2>4. AnswerAtHand(d)'
    BY <1>2, <1>3, <1>4 DEF AtHand, AnswerAtHand, SameCall, Unlinked
  <2>. QED
    BY <1>3, <1>4, <2>1, <2>2, <2>3, <2>4 DEF AtHand, SameCall
<1>9. ConnectedSyncing'
  BY <1>2, <1>4, ConnectedSyncingKept
<1>10. SyncingConnected' /\ SignaturesFit' /\ SeedsKept'
       /\ ConnectionClosesLast' /\ LeastImportantShedFirst'
  BY <1>2 DEF StepsInv, SyncingConnected, SignaturesFit, SeedsKept, Fits,
              ConnectionClosesLast, LeastImportantShedFirst
<1>11. MessagesBelong' /\ InstructionsEarned'
  BY <1>2, <1>5 DEF StepsInv, MessagesBelong, InstructionsEarned, Message
<1>12. ReadersFindReferences'
  BY <1>2, <1>5 DEF StepsInv, ReadersFindReferences, Message
<1>. QED
  BY <1>3, <1>7, <1>8, <1>9, <1>10, <1>11, <1>12, StepsInvAgain DEF Makes

(***************************************************************************)
(* PutSMS, for a message that was rejected: the method is over.            *)
(***************************************************************************)
LEMMA PutSMSRejected ==
    ASSUME StepsInv, NEW t \in Threads, PutSMS(t),
           call[t].msgID \notin call[t].accepted
    PROVE  StepsInv'
<1>1. PICK c : c = call[t]
  OBVIOUS
<1>2. At(t, "PutSMS") /\ mu' = mu /\ UNCHANGED <<now, store>>
  BY DEF PutSMS, store
<1>3. call[t] # Idle
  BY <1>2 DEF At, Idle
<1>4. PICK left, d : left = <<>> /\ d = [c EXCEPT !.left = left]
  OBVIOUS
<1>5. c \in Call /\ AtHand(c) /\ AtWork = {c}
  BY <1>1, <1>3, AtWorkIs DEF StepsInv
<1>6. Todo(c) = {"PutSMS", "LinkSMS"}
  BY <1>1, <1>2, <1>5, PlanHead DEF At, AtHand
<1>7. PICK shedding \in PartialLoads, accepted \in SUBSET SMSIDs :
         shedding = c.shedding /\ accepted = c.accepted
  BY <1>5 DEF Call
<1>8. Further(c, d, left, shedding, accepted)
  BY <1>4, <1>5, <1>7 DEF Call, Further
<1>9. Goto(t, d)
  BY <1>1, <1>4 DEF PutSMS, Goto
<1>10. \A m \in accepted : m # c.msgID => m \in BS!PendingSMS'
  BY <1>1, <1>2, <1>7 DEF StepsInv, DeliveredOnce, BS!PendingSMS, store
<1>11. Makes("PutSMS", c, d) /\ d.left = left
  <2>1. left \in Plans
    BY <1>4 DEF Plans
  <2>2. Going(t, "PutSMS", c, d, left, shedding, accepted)
    BY <1>1, <1>2, <1>7, <1>8, <1>9, <1>10, <2>1 DEF Going
  <2>. QED  BY <2>2, GoesOn
<1>12. SameCall(c, d) /\ Todo(d) = {} /\ d.left \in Plans
  BY <1>4, <1>11 DEF Makes, Todo, Plans
<1>13. AtHand(d)'
  <2>1. /\ BlackStartAtHand(d)' /\ ConnectionAtHand(d)' /\ RequestAtHand(d)'
        /\ MessageAtHand(d)' /\ RetryAtHand(d)' /\ LoadsAtHand(d)'
    BY <1>12 DEF BlackStartAtHand, ConnectionAtHand, RequestAtHand,
                 MessageAtHand, RetryAtHand, LoadsAtHand
  <2>2. AnswerAtHand(d)'
    BY <1>2, <1>5, <1>6, <1>12
       DEF AtHand, AnswerAtHand, SameCall, Unlinked, store
  <2>. QED
    BY <1>5, <1>12, <2>1, <2>2 DEF AtHand, SameCall
<1>14. ConnectedSyncing'
  BY <1>2, <1>5, <1>6, ConnectedSyncingKept DEF store
<1>. QED
  BY <1>2, <1>11, <1>13, <1>14, StoreKept, StepsInvAgain DEF Makes

(***************************************************************************)
(* PutSMS after the delivery was tried, whatever came of it.               *)
(***************************************************************************)
LEMMA PutSMSSafe ==
    ASSUME StepsInv, NEW t \in Threads, PutSMS(t) PROVE StepsInv'
  BY PutSMSDelivered, PutSMSRejected

(***************************************************************************)
(* A link changes nothing but the links.                                   *)
(***************************************************************************)
LEMMA LinkedIs ==
    ASSUME NEW bs \in BS!BlackStartRecord, NEW m \in SMSIDs,
           NEW linked, linked = [bs EXCEPT !.smsMessageIDs = @ \cup {m}]
    PROVE  /\ linked \in BS!BlackStartRecord
           /\ linked.status = bs.status
           /\ linked.gridConnID = bs.gridConnID
           /\ linked.smsMessageIDs = bs.smsMessageIDs \cup {m}
           /\ Unlinked(linked) = Unlinked(bs)
<1>1. linked = [status |-> bs.status, deadline |-> bs.deadline,
                busRestoredAt |-> bs.busRestoredAt,
                gridConnID |-> bs.gridConnID,
                networkInterrupted |-> bs.networkInterrupted,
                smsMessageIDs |-> bs.smsMessageIDs \cup {m}]
  BY DEF BS!BlackStartRecord
<1>2. /\ linked \in BS!BlackStartRecord
      /\ linked.status = bs.status
      /\ linked.gridConnID = bs.gridConnID
      /\ linked.smsMessageIDs = bs.smsMessageIDs \cup {m}
  BY DEF BS!BlackStartRecord
<1>3. Unlinked(linked) = Unlinked(bs)
  BY <1>1 DEF Unlinked, BS!BlackStartRecord
<1>. QED  BY <1>2, <1>3

(***************************************************************************)
(* LinkSMS rereads the black start it links the message to.                *)
(***************************************************************************)
LEMMA LinkSMSSafe ==
    ASSUME StepsInv, NEW t \in Threads, LinkSMS(t) PROVE StepsInv'
<1>1. PICK c : c = call[t]
  OBVIOUS
<1>2. PICK linked :
         linked = [blackStarts[c.id] EXCEPT !.smsMessageIDs = @ \cup {c.msgID}]
  OBVIOUS
<1>3. /\ At(t, "LinkSMS") /\ Done(t) /\ mu' = mu
      /\ UNCHANGED <<now, gridConns, smsMessages, loads>>
      /\ DOMAIN blackStarts' = DOMAIN blackStarts \cup {c.id}
      /\ blackStarts'[c.id] = linked
      /\ \A b \in DOMAIN blackStarts :
            b # c.id => blackStarts'[b] = blackStarts[b]
  BY <1>1, <1>2 DEF LinkSMS, Put
<1>4. PICK d : /\ Makes("LinkSMS", c, d)
               /\ d.left \in Plans
               /\ Todo(d) = Todo(c) \ {"LinkSMS"}
               /\ d.accepted = c.accepted
  <2>1. \A m \in c.accepted : m # c.msgID /\ m \in BS!PendingSMS
                                 => m \in BS!PendingSMS'
    BY <1>3 DEF BS!PendingSMS
  <2>. QED  BY <1>1, <1>3, <2>1, DoneIs
<1>5. AtWork = {c} /\ AtHand(c) /\ SameCall(c, d) /\ Todo(c) = {"LinkSMS"}
  <2>1. c.left \in Plans /\ c.left # <<>> /\ Head(c.left) = "LinkSMS"
    BY <1>4 DEF Makes, AtHand
  <2>. QED  BY <1>4, <2>1, PlanHead DEF Makes
<1>6. /\ c.msgID \in SMSIDs
      /\ c.id \in DOMAIN blackStarts
      /\ c.msgID \in DOMAIN smsMessages
      /\ smsMessages[c.msgID].status = "delivered"
  BY <1>5 DEF AtHand, MessageAtHand, Message
<1>7. /\ c.id \in BlackStartIDs
      /\ blackStarts[c.id] \in BS!BlackStartRecord
  BY <1>6 DEF StepsInv, TypeOK, BS!TypeOK
<1>8. /\ linked \in BS!BlackStartRecord
      /\ linked.status = blackStarts[c.id].status
      /\ linked.gridConnID = blackStarts[c.id].gridConnID
      /\ linked.smsMessageIDs = blackStarts[c.id].smsMessageIDs \cup {c.msgID}
      /\ Unlinked(linked) = Unlinked(blackStarts[c.id])
  BY <1>2, <1>6, <1>7, LinkedIs
<1>9. /\ DOMAIN blackStarts' = DOMAIN blackStarts
      /\ \A b \in DOMAIN blackStarts :
            /\ blackStarts'[b].status = blackStarts[b].status
            /\ blackStarts'[b].gridConnID = blackStarts[b].gridConnID
  BY <1>3, <1>6, <1>8
<1>10. BS!TypeOK'
  BY <1>3, <1>7, <1>8 DEF StepsInv, TypeOK, BS!TypeOK
<1>11. AtHand(d)'
  <2>1. /\ BlackStartAtHand(d)' /\ ConnectionAtHand(d)' /\ RequestAtHand(d)'
        /\ MessageAtHand(d)' /\ RetryAtHand(d)' /\ LoadsAtHand(d)'
    BY <1>4, <1>5 DEF BlackStartAtHand, ConnectionAtHand, RequestAtHand,
                      MessageAtHand, RetryAtHand, LoadsAtHand
  <2>2. AnswerAtHand(d)'
    <3>1. AnswerAtHand(c)
      BY <1>5 DEF AtHand
    <3>2. "PutBlackStart" \notin Todo(c) /\ "PutGridConn" \notin Todo(c)
      BY <1>5
    <3>3. Unlinked(blackStarts[c.id])' = Unlinked(blackStarts[c.id])
      BY <1>3, <1>8 DEF Unlinked
    <3>. QED
      BY <1>3, <1>5, <1>8, <1>9, <3>1, <3>2, <3>3 DEF AnswerAtHand, SameCall
  <2>. QED
    BY <1>4, <1>5, <2>1, <2>2 DEF AtHand, SameCall
<1>12. ConnectedSyncing'
  BY <1>3, <1>5, <1>9, ConnectedSyncingKept
<1>13. SyncingConnected'
  BY <1>3, <1>9 DEF StepsInv, SyncingConnected
<1>14. SignaturesFit' /\ SeedsKept' /\ LeastImportantShedFirst'
  BY <1>3 DEF StepsInv, SignaturesFit, SeedsKept, Fits, LeastImportantShedFirst
<1>15. MessagesBelong' /\ InstructionsEarned'
  BY <1>3, <1>9 DEF StepsInv, MessagesBelong, InstructionsEarned
<1>16. ConnectionClosesLast'
  BY <1>3, <1>9 DEF StepsInv, ConnectionClosesLast, ConnectedSyncing
<1>17. ReadersFindReferences'
  <2>1. ASSUME NEW b \in DOMAIN blackStarts, NEW m \in blackStarts'[b].smsMessageIDs
        PROVE  m \in DOMAIN smsMessages /\ smsMessages[m].status = "delivered"
    <3>1. CASE b = c.id
      BY <1>3, <1>6, <1>8, <2>1, <3>1 DEF StepsInv, ReadersFindReferences
    <3>2. CASE b # c.id
      BY <1>3, <2>1, <3>2 DEF StepsInv, ReadersFindReferences
    <3>. QED  BY <3>1, <3>2
  <2>. QED
    BY <1>3, <1>9, <2>1 DEF StepsInv, ReadersFindReferences
<1>. QED
  BY <1>4, <1>10, <1>11, <1>12, <1>13, <1>14, <1>15, <1>16, <1>17,
     StepsInvAgain DEF Makes

(***************************************************************************)
(* RetrySMS delivers one of the messages that were pending.                *)
(***************************************************************************)
LEMMA RetrySMSSafe ==
    ASSUME StepsInv, NEW t \in Threads, NEW m, RetrySMS(t, m) PROVE StepsInv'
<1>1. PICK c : c = call[t]
  OBVIOUS
<1>2. PICK message : message = [smsMessages[m] EXCEPT !.status = "delivered"]
  OBVIOUS
<1>3. /\ At(t, "RetrySMS") /\ mu' = mu
      /\ m \in c.accepted
      /\ UNCHANGED <<now, blackStarts, gridConns, loads>>
      /\ DOMAIN smsMessages' = DOMAIN smsMessages \cup {m}
      /\ smsMessages'[m] = message
      /\ \A x \in DOMAIN smsMessages : x # m => smsMessages'[x] = smsMessages[x]
  BY <1>1, <1>2 DEF RetrySMS, Put
<1>4. call[t] # Idle
  BY <1>3 DEF At, Idle
<1>5. c \in Call /\ AtHand(c) /\ AtWork = {c}
  BY <1>1, <1>4, AtWorkIs DEF StepsInv
<1>6. Todo(c) = {"RetrySMS"} /\ c.left \in Plans
  BY <1>1, <1>3, <1>5, PlanHead DEF At, AtHand
<1>7. c.msgID = None /\ None \notin SMSIDs
  BY <1>5, <1>6, StepsAssumption DEF AtHand, RetryAtHand
<1>8. \A x \in c.accepted : x \in BS!PendingSMS
  BY <1>1, <1>5, <1>7 DEF StepsInv, DeliveredOnce, Call
<1>9. /\ m \in DOMAIN smsMessages
      /\ message \in BS!SMSMessage
      /\ message.status = "delivered"
      /\ message.blackStartID = smsMessages[m].blackStartID
      /\ message.instruction = smsMessages[m].instruction
  <2>1. m \in DOMAIN smsMessages
    BY <1>3, <1>8 DEF BS!PendingSMS
  <2>2. smsMessages[m] \in BS!SMSMessage
    BY <2>1 DEF StepsInv, TypeOK, BS!TypeOK
  <2>. QED  BY <1>2, <2>1, <2>2 DEF BS!SMSMessage
<1>10. PICK accepted, d : /\ accepted = c.accepted \ {m}
                          /\ d = [c EXCEPT !.accepted = accepted]
  OBVIOUS
<1>11. PICK left \in Plans, shedding \in PartialLoads :
          left = c.left /\ shedding = c.shedding
  BY <1>5, <1>6 DEF Call
<1>12. Further(c, d, left, shedding, accepted)
  BY <1>5, <1>10, <1>11 DEF Call, Further
<1>13. Goto(t, d)
  BY <1>1, <1>10 DEF RetrySMS, Goto
<1>14. \A x \in accepted : x # c.msgID => x \in BS!PendingSMS'
  BY <1>3, <1>8, <1>10 DEF BS!PendingSMS
<1>15. Makes("RetrySMS", c, d) /\ d.left = left
  <2>1. accepted \in SUBSET SMSIDs
    BY <1>5, <1>10 DEF Call
  <2>2. Going(t, "RetrySMS", c, d, left, shedding, accepted)
    BY <1>1, <1>3, <1>11, <1>12, <1>13, <1>14, <2>1 DEF Going
  <2>. QED  BY <2>2, GoesOn
<1>16. SameCall(c, d) /\ Todo(d) = {"RetrySMS"} /\ d.left \in Plans
  BY <1>6, <1>11, <1>15 DEF Makes, Todo
<1>17. BS!TypeOK'
  BY <1>3, <1>9 DEF StepsInv, TypeOK, BS!TypeOK
<1>18. AtHand(d)'
  <2>1. /\ BlackStartAtHand(d)' /\ ConnectionAtHand(d)' /\ RequestAtHand(d)'
        /\ MessageAtHand(d)' /\ RetryAtHand(d)' /\ LoadsAtHand(d)'
    BY <1>7, <1>16
       DEF BlackStartAtHand, ConnectionAtHand, RequestAtHand,
           MessageAtHand, RetryAtHand, LoadsAtHand, SameCall
  <2>2. AnswerAtHand(d)'
    BY <1>3, <1>5, <1>6, <1>16 DEF AtHand, AnswerAtHand, SameCall, Unlinked
  <2>. QED
    BY <1>5, <1>16, <2>1, <2>2 DEF AtHand, SameCall
<1>19. ConnectedSyncing'
  BY <1>3, <1>5, <1>6, ConnectedSyncingKept
<1>20. SyncingConnected' /\ SignaturesFit' /\ SeedsKept'
       /\ ConnectionClosesLast' /\ LeastImportantShedFirst'
  BY <1>3 DEF StepsInv, SyncingConnected, SignaturesFit, SeedsKept, Fits,
              ConnectionClosesLast, LeastImportantShedFirst
<1>21. MessagesBelong' /\ InstructionsEarned'
  BY <1>3, <1>9 DEF StepsInv, MessagesBelong, InstructionsEarned
<1>22. ReadersFindReferences'
  BY <1>3, <1>9 DEF StepsInv, ReadersFindReferences
<1>. QED
  BY <1>15, <1>17, <1>18, <1>19, <1>20, <1>21, <1>22, StepsInvAgain DEF Makes

(***************************************************************************)
(* The end of a loop over loads or messages changes only what is left.     *)
(***************************************************************************)
LEMMA LoopEndsSafe ==
    ASSUME StepsInv, NEW t \in Threads, LoopEnds(t) PROVE StepsInv'
<1>1. PICK c : c = call[t]
  OBVIOUS
<1>2. PICK x \in {"PutLoad", "RetrySMS"} : At(t, x)
  BY DEF LoopEnds
<1>3. Done(t) /\ mu' = mu /\ UNCHANGED <<now, store>>
  BY DEF LoopEnds
<1>4. PICK d : /\ Makes(x, c, d)
               /\ d.left \in Plans
               /\ Todo(d) = Todo(c) \ {x}
               /\ d.accepted = c.accepted
  <2>1. \A m \in c.accepted : m # c.msgID /\ m \in BS!PendingSMS
                                 => m \in BS!PendingSMS'
    BY <1>3 DEF BS!PendingSMS, store
  <2>. QED  BY <1>1, <1>2, <1>3, <2>1, DoneIs
<1>5. AtWork = {c} /\ AtHand(c) /\ SameCall(c, d)
  BY <1>4 DEF Makes
<1>6. \/ Todo(c) = {"PutLoad", "SaveSMS", "PutSMS", "LinkSMS"}
      \/ Todo(c) = {"RetrySMS"}
  <2>1. c.left \in Plans /\ c.left # <<>> /\ Head(c.left) = x
    BY <1>4 DEF Makes, AtHand
  <2>. QED  BY <2>1, PlanHead
<1>7. AtHand(d)'
  <2>1. /\ BlackStartAtHand(d)' /\ ConnectionAtHand(d)' /\ RequestAtHand(d)'
        /\ LoadsAtHand(d)' /\ RetryAtHand(d)'
    <3>1. "PutLoad" \notin Todo(d) /\ "RetrySMS" \notin Todo(d)
      BY <1>4, <1>6, PlanHead DEF Makes, AtHand
    <3>. QED
      BY <1>4, <1>6, <3>1
         DEF BlackStartAtHand, ConnectionAtHand, RequestAtHand, LoadsAtHand,
             RetryAtHand
  <2>2. MessageAtHand(d)'
    BY <1>3, <1>4, <1>5, <1>6
       DEF AtHand, MessageAtHand, SameCall, Message, store
  <2>3. AnswerAtHand(d)'
    BY <1>3, <1>4, <1>5, <1>6
       DEF AtHand, AnswerAtHand, SameCall, Unlinked, store
  <2>. QED
    BY <1>4, <1>5, <2>1, <2>2, <2>3 DEF AtHand, SameCall
<1>8. ConnectedSyncing'
  BY <1>3, <1>5, <1>6, ConnectedSyncingKept DEF store
<1>. QED
  BY <1>3, <1>4, <1>7, <1>8, StoreKept, StepsInvAgain DEF Makes

(***************************************************************************)
(* Whoever returns leaves nobody at work.                                  *)
(***************************************************************************)
LEMMA ReturnSafe ==
    ASSUME StepsInv, NEW t \in Threads, Return(t) PROVE StepsInv'
<1>1. /\ call[t] # Idle /\ call[t].left = <<>>
      /\ mu' = Free /\ Goto(t, Idle) /\ UNCHANGED <<now, store>>
  BY DEF Return
<1>2. /\ AtWork = {call[t]}
      /\ \A u \in Threads : u # t => call[u] = Idle
      /\ call \in [Threads -> Call]
  BY <1>1, AtWorkIs DEF StepsInv, TypeOK
<1>3. Idle \in Call /\ Idle.accepted = {}
  <2>1. <<>> \in Seq(StoreCall) /\ <<>> \in PartialLoads
    BY PlanType, NothingPartial DEF Plans
  <2>. QED  BY <2>1 DEF Idle, Call
<1>4. /\ call' \in [Threads -> Call]
      /\ \A u \in Threads : call'[u] = Idle
  BY <1>1, <1>2, <1>3 DEF Goto
<1>5. AtWork' = {} /\ LockHeld'
  BY <1>1, <1>4, StepsAssumption DEF AtWork, LockHeld
<1>6. DeliveredOnce'
  BY <1>3, <1>4 DEF DeliveredOnce
<1>7. Todo(call[t]) = {}
  BY <1>1 DEF Todo
<1>8. ConnectedSyncing'
  BY <1>1, <1>2, <1>7, ConnectedSyncingKept DEF store
<1>9. TypeOK'
  BY <1>1, <1>4, StoreKept DEF TypeOK
<1>. QED
  BY <1>1, <1>5, <1>6, <1>8, <1>9, StoreKept DEF StepsInv

-----------------------------------------------------------------------------
(* What goes on without the lock preserves the invariant *)

(***************************************************************************)
(* A load registered meanwhile is none of those present from the start and *)
(* none of those a call is about to write.                                 *)
(***************************************************************************)
LEMMA RegisterLoadSafe ==
    ASSUME StepsInv, NEW l \in LoadIDs, NEW load \in BS!Load,
           RegisterLoad(l, load)
    PROVE  StepsInv'
<1>1. /\ l \notin DOMAIN loads
      /\ DOMAIN loads' = DOMAIN loads \cup {l}
      /\ loads'[l] = load
      /\ \A k \in DOMAIN loads : loads'[k] = loads[k]
      /\ UNCHANGED <<now, blackStarts, gridConns, smsMessages, mu, call>>
  BY DEF RegisterLoad, Put
<1>2. SeedLoads \subseteq DOMAIN loads
  BY DEF StepsInv, SeedsKept
<1>3. TypeOK'
  BY <1>1 DEF StepsInv, TypeOK, BS!TypeOK
<1>4. AtWork' = AtWork
  BY <1>1 DEF AtWork
<1>5. ASSUME NEW c \in AtWork PROVE AtHand(c)'
  <2>1. AtHand(c)
    BY DEF StepsInv
  <2>2. LoadsAtHand(c)'
    BY <1>1, <1>2, <2>1 DEF AtHand, LoadsAtHand, Served
  <2>3. /\ BlackStartAtHand(c)' /\ ConnectionAtHand(c)' /\ RequestAtHand(c)'
        /\ MessageAtHand(c)' /\ RetryAtHand(c)' /\ AnswerAtHand(c)'
    BY <1>1, <2>1
       DEF AtHand, BlackStartAtHand, ConnectionAtHand, RequestAtHand,
           MessageAtHand, RetryAtHand, AnswerAtHand, Message, Unlinked, Fits
  <2>. QED  BY <2>1, <2>2, <2>3 DEF AtHand
<1>6. SeedsKept' /\ LeastImportantShedFirst'
  BY <1>1, <1>2 DEF StepsInv, SeedsKept, LeastImportantShedFirst
<1>7. ConnectedSyncing' /\ SyncingConnected' /\ SignaturesFit' /\ MessagesBelong'
  BY <1>1, <1>4 DEF StepsInv, ConnectedSyncing, SyncingConnected,
                    SignaturesFit, MessagesBelong, Fits
<1>8. /\ ReadersFindReferences' /\ InstructionsEarned'
      /\ ConnectionClosesLast' /\ LockHeld' /\ DeliveredOnce'
  BY <1>1 DEF StepsInv, ReadersFindReferences, InstructionsEarned,
              ConnectionClosesLast, LockHeld, DeliveredOnce, BS!PendingSMS
<1>. QED
  BY <1>3, <1>4, <1>5, <1>6, <1>7, <1>8 DEF StepsInv

(***************************************************************************)
(* The clock: nothing the invariant speaks of depends on it.               *)
(***************************************************************************)
LEMMA ClockSafe ==
    ASSUME StepsInv, UNCHANGED <<store, mu, call>>, now' \in Nat \ {0}
    PROVE  StepsInv'
<1>. USE DEF store
<1>1. TypeOK'
  BY DEF StepsInv, TypeOK, BS!TypeOK
<1>2. AtWork' = AtWork
  BY DEF AtWork
<1>3. ASSUME NEW c \in AtWork PROVE AtHand(c)'
  <2>1. AtHand(c)
    BY DEF StepsInv
  <2>. QED
    BY <2>1 DEF AtHand, BlackStartAtHand, ConnectionAtHand, RequestAtHand,
                MessageAtHand, RetryAtHand, LoadsAtHand, AnswerAtHand, Message,
                Unlinked, Fits, Served
<1>4. ConnectedSyncing' /\ SyncingConnected' /\ SignaturesFit' /\ MessagesBelong'
  BY <1>2 DEF StepsInv, ConnectedSyncing, SyncingConnected, SignaturesFit,
              MessagesBelong, Fits
<1>5. /\ ReadersFindReferences' /\ InstructionsEarned'
      /\ ConnectionClosesLast' /\ LockHeld' /\ DeliveredOnce'
      /\ SeedsKept' /\ LeastImportantShedFirst'
  BY DEF StepsInv, ReadersFindReferences, InstructionsEarned,
         ConnectionClosesLast, LockHeld, DeliveredOnce, BS!PendingSMS,
         SeedsKept, LeastImportantShedFirst
<1>. QED
  BY <1>1, <1>2, <1>3, <1>4, <1>5 DEF StepsInv

-----------------------------------------------------------------------------
(* Entering a method preserves the invariant *)

(***************************************************************************)
(* Whoever gets the lock finds nobody at work, and has at hand what its    *)
(* call says.                                                              *)
(***************************************************************************)
LEMMA EnterSafe ==
    ASSUME StepsInv, NEW t \in Threads, NEW c \in Call, AtHand(c), Enter(t, c),
           \A m \in c.accepted : m # c.msgID => m \in BS!PendingSMS
    PROVE  StepsInv'
<1>1. /\ mu = Free /\ mu' = t /\ UNCHANGED <<now, store>>
      /\ call' = [call EXCEPT ![t] = c]
  BY DEF Enter
<1>2. \A u \in Threads : call[u] = Idle
  BY <1>1, StepsAssumption DEF StepsInv, LockHeld
<1>3. /\ call' \in [Threads -> Call]
      /\ call'[t] = c
      /\ \A u \in Threads : u # t => call'[u] = Idle
  BY <1>1, <1>2 DEF StepsInv, TypeOK
<1>4. AtWork = {}
  BY <1>1, StepsAssumption DEF AtWork
<1>5. AtWork' = {c}
  BY <1>1, <1>3 DEF AtWork
<1>6. LockHeld'
  <2>1. c # Idle
    BY DEF AtHand, Idle
  <2>. QED  BY <1>1, <1>3, <2>1 DEF LockHeld
<1>7. DeliveredOnce'
  <2>1. Idle.accepted = {}
    BY DEF Idle
  <2>. QED  BY <1>1, <1>3, <2>1 DEF DeliveredOnce, BS!PendingSMS, store
<1>8. ConnectedSyncing'
  BY <1>1, <1>4, ConnectedSyncingKept DEF store
<1>9. AtHand(c)'
  BY <1>1 DEF AtHand, BlackStartAtHand, ConnectionAtHand, RequestAtHand,
              MessageAtHand, RetryAtHand, LoadsAtHand, AnswerAtHand, Message,
              Unlinked, Fits, Served, store
<1>. QED
  BY <1>1, <1>3, <1>5, <1>6, <1>7, <1>8, <1>9, StoreKept, StepsInvAgain

(***************************************************************************)
(* While nobody is at work every connection is of a black start that is    *)
(* syncing or completed.                                                   *)
(***************************************************************************)
LEMMA FreeToEnter ==
    ASSUME StepsInv, mu = Free
    PROVE  \A g \in DOMAIN gridConns :
              /\ gridConns[g].blackStartID \in DOMAIN blackStarts
              /\ blackStarts[gridConns[g].blackStartID].status
                    \in {"grid_syncing", "completed"}
<1>1. AtWork = {}
  BY StepsAssumption DEF AtWork
<1>. QED  BY <1>1 DEF StepsInv, ConnectedSyncing

(***************************************************************************)
(* A call with these local variables that has no loads to write yet.       *)
(***************************************************************************)
Made(method, left, id, bs, old, gcID, gc, message, msgID, accepted, status) ==
    [method |-> method, left |-> left, id |-> id, bs |-> bs, old |-> old,
     gcID |-> gcID, gc |-> gc, message |-> message, msgID |-> msgID,
     accepted |-> accepted, shedding |-> <<>>, status |-> status]

(***************************************************************************)
(* A method that will send an instruction begins with a fresh identifier   *)
(* for it and knows what the deliverer will say.                           *)
(***************************************************************************)
LEMMA SendingIs ==
    ASSUME NEW t, NEW method, NEW left, NEW id, NEW bs, NEW old, NEW gcID,
           NEW gc, NEW status, NEW message,
           EnterSending(t, Made(method, left, id, bs, old, gcID, gc, None,
                                None, {}, status), message)
    PROVE  \E m \in SMSIDs, accepted \in SUBSET SMSIDs :
              /\ HasFresh(SMSIDs, smsMessages)
              /\ m = Fresh(SMSIDs, smsMessages)
              /\ m \notin DOMAIN smsMessages
              /\ accepted \in {{}, {m}}
              /\ Enter(t, Made(method, left, id, bs, old, gcID, gc, message,
                               m, accepted, status))
<1> DEFINE c == Made(method, left, id, bs, old, gcID, gc, None, None, {}, status)
           m == Fresh(SMSIDs, smsMessages)
<1>1. HasFresh(SMSIDs, smsMessages)
  BY DEF EnterSending
<1>2. m \in SMSIDs /\ m \notin DOMAIN smsMessages
  BY <1>1, FreshIs
<1>3. PICK accepted \in {{}, {m}} :
         Enter(t, [c EXCEPT !.message = message, !.msgID = m,
                            !.accepted = accepted])
  BY DEF EnterSending
<1> HIDE DEF m
<1>4. PICK d : d = [c EXCEPT !.message = message, !.msgID = m,
                             !.accepted = accepted]
  OBVIOUS
<1>5. d = Made(method, left, id, bs, old, gcID, gc, message, m, accepted, status)
  BY <1>4 DEF Made
<1> HIDE DEF c
<1>6. Enter(t, d)
  BY <1>3, <1>4
<1>7. m = Fresh(SMSIDs, smsMessages)
  BY DEF m
<1>. QED  BY <1>1, <1>2, <1>3, <1>5, <1>6, <1>7

(***************************************************************************)
(* A refused call writes nothing and answers with an error.                *)
(***************************************************************************)
LEMMA RefuseSafe ==
    ASSUME StepsInv, NEW t \in Threads, NEW err, Refuse(t, err) PROVE StepsInv'
<1>1. PICK status : status = WriteError(err)
  OBVIOUS
<1>2. status \in {404, 409, 422, 500}
  BY <1>1 DEF WriteError
<1>3. PICK c : c = Made(None, <<>>, None, None, None, None, None, None, None,
                        {}, status)
  OBVIOUS
<1>4. Enter(t, c)
  <2>1. PICK d : d = [Idle EXCEPT !.status = status]
    OBVIOUS
  <2>2. d = Made(None, <<>>, None, None, None, None, None, None, None, {},
                 status)
    BY <2>1 DEF Made, Idle
  <2>3. Enter(t, d)
    BY <1>1, <2>1 DEF Refuse
  <2>. QED  BY <1>3, <2>2, <2>3
<1>5. c \in Call
  <2>1. <<>> \in Plans
    BY DEF Plans
  <2>2. <<>> \in Seq(StoreCall) /\ <<>> \in PartialLoads
    BY <2>1, PlanType, NothingPartial
  <2>. QED  BY <1>2, <1>3, <2>2 DEF Made, Call
<1>6. /\ c.left = <<>> /\ c.bs = None /\ c.gc = None /\ c.accepted = {}
      /\ c.status = status
  BY <1>3 DEF Made
<1>7. AtHand(c)
  <2>1. Todo(c) = {} /\ c.left \in Plans
    BY <1>6, BeginningPlans
  <2>2. AnswerAtHand(c)
    BY <1>2, <1>6 DEF AnswerAtHand, OK, Created
  <2>. QED
    BY <1>2, <1>6, <2>1, <2>2
       DEF AtHand, BlackStartAtHand, ConnectionAtHand, RequestAtHand,
           MessageAtHand, RetryAtHand, LoadsAtHand
<1>. QED  BY <1>4, <1>5, <1>6, <1>7, EnterSafe

(***************************************************************************)
(* A call that is repeated has nothing left to write.                      *)
(***************************************************************************)
LEMMA RepeatIs ==
    ASSUME NEW t, NEW id, NEW method, Repeat(t, About(id, method, <<>>))
    PROVE  Enter(t, Made(method, <<>>, id, blackStarts[id], blackStarts[id],
                         None, None, None, None, {}, OK))
<1>1. PICK c : c = [About(id, method, <<>>) EXCEPT !.left = <<>>]
  OBVIOUS
<1>2. c = Made(method, <<>>, id, blackStarts[id], blackStarts[id], None, None,
               None, None, {}, OK)
  BY <1>1 DEF Made, About, Idle
<1>3. Enter(t, c)
  BY <1>1 DEF Repeat
<1>. QED  BY <1>2, <1>3

(***************************************************************************)
(* A repeated call about a black start answers with the stored record.     *)
(***************************************************************************)
LEMMA RepeatBlackStartSafe ==
    ASSUME StepsInv, NEW t \in Threads, NEW id \in DOMAIN blackStarts,
           NEW method \in Method, NEW status \in {OK, Created},
           blackStarts[id].status \in PromisedBlackStart[method],
           Enter(t, Made(method, <<>>, id, blackStarts[id], blackStarts[id],
                         None, None, None, None, {}, status))
    PROVE  StepsInv'
<1>1. PICK bs : bs = blackStarts[id]
  OBVIOUS
<1>2. PICK d : d = Made(method, <<>>, id, bs, bs, None, None, None, None,
                        {}, status)
  OBVIOUS
<1>3. Enter(t, d)
  BY <1>1, <1>2
<1>4. d \in Call
  <2>1. <<>> \in Plans
    BY DEF Plans
  <2>2. id \in BlackStartIDs /\ bs \in BS!BlackStartRecord
    BY <1>1 DEF StepsInv, TypeOK, BS!TypeOK
  <2>3. <<>> \in Seq(StoreCall) /\ <<>> \in PartialLoads
    BY <2>1, PlanType, NothingPartial
  <2>. QED  BY <1>2, <2>2, <2>3 DEF Made, Call, OK, Created
<1>5. /\ d.left = <<>> /\ d.bs = blackStarts[id] /\ d.id = id /\ d.gc = None
      /\ d.accepted = {} /\ d.method = method
  BY <1>1, <1>2 DEF Made
<1>6. AtHand(d)
  <2>1. Todo(d) = {} /\ d.left \in Plans
    BY <1>5, BeginningPlans
  <2>2. AnswerAtHand(d)
    BY <1>5, <2>1 DEF AnswerAtHand
  <2>3. d.method # None
    BY <1>5, StepsAssumption
  <2>. QED
    BY <2>1, <2>2, <2>3
       DEF AtHand, BlackStartAtHand, ConnectionAtHand, RequestAtHand,
           MessageAtHand, RetryAtHand, LoadsAtHand
<1>. QED  BY <1>3, <1>4, <1>5, <1>6, EnterSafe

(***************************************************************************)
(* A repeated call about a connection, likewise.                           *)
(***************************************************************************)
LEMMA RepeatGridConnSafe ==
    ASSUME StepsInv, NEW t \in Threads, NEW g \in DOMAIN gridConns,
           NEW method \in Method,
           gridConns[g].status \in PromisedGridConn[method],
           Repeat(t, AboutConn(g, method, <<>>))
    PROVE  StepsInv'
<1>1. PICK gc : gc = gridConns[g]
  OBVIOUS
<1>2. PICK d : d = Made(method, <<>>, gc.blackStartID, None, None, g, gc,
                        None, None, {}, OK)
  OBVIOUS
<1>3. Enter(t, d)
  <2>1. PICK e : e = [AboutConn(g, method, <<>>) EXCEPT !.left = <<>>]
    OBVIOUS
  <2>2. e = Made(method, <<>>, gc.blackStartID, None, None, g, gc, None,
                 None, {}, OK)
    BY <1>1, <2>1 DEF Made, AboutConn, Idle
  <2>3. Enter(t, e)
    BY <2>1 DEF Repeat
  <2>. QED  BY <1>2, <2>2, <2>3
<1>4. d \in Call
  <2>1. <<>> \in Plans
    BY DEF Plans
  <2>2. /\ g \in GridConnIDs /\ gc \in BS!GridConnection
        /\ gc.blackStartID \in BlackStartIDs
    BY <1>1 DEF StepsInv, TypeOK, BS!TypeOK, BS!GridConnection
  <2>3. <<>> \in Seq(StoreCall) /\ <<>> \in PartialLoads
    BY <2>1, PlanType, NothingPartial
  <2>. QED  BY <1>2, <2>2, <2>3 DEF Made, Call, OK
<1>5. /\ d.left = <<>> /\ d.gc = gridConns[g] /\ d.gcID = g /\ d.bs = None
      /\ d.accepted = {} /\ d.method = method
  BY <1>1, <1>2 DEF Made
<1>6. AtHand(d)
  <2>1. Todo(d) = {} /\ d.left \in Plans
    BY <1>5, BeginningPlans
  <2>2. AnswerAtHand(d)
    BY <1>5, <2>1 DEF AnswerAtHand
  <2>3. d.method # None
    BY <1>5, StepsAssumption
  <2>. QED
    BY <2>1, <2>2, <2>3
       DEF AtHand, BlackStartAtHand, ConnectionAtHand, RequestAtHand,
           MessageAtHand, RetryAtHand, LoadsAtHand
<1>. QED  BY <1>3, <1>4, <1>5, <1>6, EnterSafe

(***************************************************************************)
(* StartBlackStart, RestoreBus and failBlackStart: the black start moves   *)
(* by one status that earns the instruction sent afterwards.               *)
(***************************************************************************)
LEMMA MoveSafe ==
    ASSUME StepsInv, NEW t \in Threads, NEW id \in DOMAIN blackStarts,
           NEW method \in Method, NEW status \in {0, 200, 422},
           NEW bs \in BS!BlackStartRecord,
           bs.smsMessageIDs = blackStarts[id].smsMessageIDs,
           bs.gridConnID = blackStarts[id].gridConnID,
           Moved(blackStarts[id].status, bs.status),
           bs.status # "grid_syncing",
           NEW message \in BS!Instruction, bs.status \in EarnedBy[message],
           status = 200 => bs.status \in PromisedBlackStart[method],
           EnterSending(t, Made(method, MoveAndTell, id, bs, blackStarts[id],
                                None, None, None, None, {}, status), message)
    PROVE  StepsInv'
<1>1. PICK m \in SMSIDs, accepted \in SUBSET SMSIDs :
         /\ m \notin DOMAIN smsMessages
         /\ accepted \in {{}, {m}}
         /\ Enter(t, Made(method, MoveAndTell, id, bs, blackStarts[id], None,
                          None, message, m, accepted, status))
  BY SendingIs
<1>2. PICK c : c = Made(method, MoveAndTell, id, bs, blackStarts[id], None,
                        None, message, m, accepted, status)
  OBVIOUS
<1>3. id \in BlackStartIDs /\ blackStarts[id] \in BS!BlackStartRecord
  BY DEF StepsInv, TypeOK, BS!TypeOK
<1>4. /\ c.method = method /\ c.left = MoveAndTell /\ c.id = id /\ c.bs = bs
      /\ c.old = blackStarts[id] /\ c.gcID = None /\ c.gc = None
      /\ c.message = message /\ c.msgID = m /\ c.accepted = accepted
      /\ c.status = status
  BY <1>2 DEF Made
<1>5. c \in Call
  <2>1. MoveAndTell \in Seq(StoreCall) /\ <<>> \in PartialLoads
    BY BeginningPlans, PlanType, NothingPartial
  <2>. QED  BY <1>1, <1>2, <1>3, <2>1 DEF Made, Call
<1>6. AtHand(c)
  <2>1. /\ Todo(c) = {"PutBlackStart", "SaveSMS", "PutSMS", "LinkSMS"}
        /\ c.left \in Plans
    BY <1>4, BeginningPlans
  <2>2. BlackStartAtHand(c)
    BY <1>3, <1>4, <2>1 DEF BlackStartAtHand
  <2>3. MessageAtHand(c)
    BY <1>1, <1>4, <2>1 DEF MessageAtHand
  <2>4. AnswerAtHand(c)
    BY <1>4, <2>1 DEF AnswerAtHand, OK, Created
  <2>5. c.method # None
    BY <1>4, StepsAssumption
  <2>. QED
    BY <2>1, <2>2, <2>3, <2>4, <2>5
       DEF AtHand, ConnectionAtHand, RequestAtHand, RetryAtHand, LoadsAtHand
<1>. QED  BY <1>1, <1>2, <1>4, <1>5, <1>6, EnterSafe

(***************************************************************************)
(* A stored black start is well typed.                                     *)
(***************************************************************************)
LEMMA StoredBlackStart ==
    ASSUME StepsInv, NEW id \in DOMAIN blackStarts
    PROVE  /\ id \in BlackStartIDs
           /\ blackStarts[id] \in BS!BlackStartRecord
           /\ blackStarts[id].status \in BlackStartStatus
  BY BSTables DEF StepsInv, TypeOK, BS!TypeOK, BS!BlackStartRecord

(***************************************************************************)
(* What StartBlackStart does.                                              *)
(***************************************************************************)
LEMMA StartBlackStartSafe ==
    ASSUME StepsInv, NEW t \in Threads, NEW id \in DOMAIN blackStarts,
           StartBlackStart(t, id)
    PROVE  StepsInv'
<1>1. CASE /\ blackStarts[id].status = "in_progress"
           /\ Repeat(t, About(id, "Start", <<>>))
  BY <1>1, RepeatIs, RepeatBlackStartSafe DEF PromisedBlackStart, Method
<1>2. CASE /\ BlackStartCanTransition(blackStarts[id].status, "in_progress")
           /\ EnterSending(t, Moving(id, "Start", MoveAndTell, "in_progress"),
                           "BLACK_START_BEGIN")
  <2>1. PICK bs : bs = [blackStarts[id] EXCEPT !.status = "in_progress"]
    OBVIOUS
  <2>2. PICK c : c = Moving(id, "Start", MoveAndTell, "in_progress")
    OBVIOUS
  <2>3. c = Made("Start", MoveAndTell, id, bs, blackStarts[id], None, None,
                 None, None, {}, OK)
    BY <2>1, <2>2 DEF Moving, About, Idle, Made
  <2>4. /\ bs \in BS!BlackStartRecord
        /\ bs.status = "in_progress"
        /\ bs.gridConnID = blackStarts[id].gridConnID
        /\ bs.smsMessageIDs = blackStarts[id].smsMessageIDs
    BY <2>1, StoredBlackStart, BSTables, BlackStartTable
       DEF BS!BlackStartRecord
  <2>5. blackStarts[id].status = "initiated"
    BY <1>2, StoredBlackStart, BlackStartTable
  <2>6. /\ Moved(blackStarts[id].status, bs.status)
        /\ "in_progress" \in EarnedBy["BLACK_START_BEGIN"]
        /\ "in_progress" \in PromisedBlackStart["Start"]
    BY <2>4, <2>5, BlackStartTable DEF Moved, EarnedBy, PromisedBlackStart
  <2>. QED
    BY <1>2, <2>2, <2>3, <2>4, <2>6, MoveSafe DEF Method, BS!Instruction, OK
<1>3. CASE Refuse(t, "ErrInvalidTransition")
  BY <1>3, RefuseSafe
<1>. QED  BY <1>1, <1>2, <1>3 DEF StartBlackStart

(***************************************************************************)
(* What failBlackStart does, called by RestoreBus or by the scheduler.     *)
(***************************************************************************)
LEMMA FailBlackStartSafe ==
    ASSUME StepsInv, NEW t \in Threads, NEW id \in DOMAIN blackStarts,
           NEW status \in {0, 422}, FailBlackStart(t, id, status)
    PROVE  StepsInv'
<1>1. PICK bs : bs = [blackStarts[id] EXCEPT !.status = "failed"]
  OBVIOUS
<1>2. PICK c : c = [Moving(id, "Fail", MoveAndTell, "failed")
                       EXCEPT !.status = status]
  OBVIOUS
<1>3. c = Made("Fail", MoveAndTell, id, bs, blackStarts[id], None, None,
               None, None, {}, status)
  BY <1>1, <1>2 DEF Moving, About, Idle, Made
<1>4. /\ bs \in BS!BlackStartRecord
      /\ bs.status = "failed"
      /\ bs.gridConnID = blackStarts[id].gridConnID
      /\ bs.smsMessageIDs = blackStarts[id].smsMessageIDs
  BY <1>1, StoredBlackStart, BSTables, BlackStartTable
     DEF BS!BlackStartRecord
<1>5. /\ Moved(blackStarts[id].status, bs.status)
      /\ "failed" \in EarnedBy["BLACK_START_FAILED"]
  BY <1>4 DEF Moved, EarnedBy, FailBlackStart, IsOverdue
<1>6. EnterSending(t, c, "BLACK_START_FAILED")
  BY <1>2 DEF FailBlackStart
<1>. QED
  BY <1>3, <1>4, <1>5, <1>6, MoveSafe DEF Method, BS!Instruction

(***************************************************************************)
(* What RestoreBus does.                                                   *)
(***************************************************************************)
LEMMA RestoreBusSafe ==
    ASSUME StepsInv, NEW t \in Threads, NEW id \in DOMAIN blackStarts,
           RestoreBus(t, id)
    PROVE  StepsInv'
<1>1. CASE /\ blackStarts[id].status = "bus_restored"
           /\ Repeat(t, About(id, "RestoreBus", <<>>))
  BY <1>1, RepeatIs, RepeatBlackStartSafe DEF PromisedBlackStart, Method
<1>2. CASE FailBlackStart(t, id, WriteError("ErrDeadlineExceeded"))
  BY <1>2, FailBlackStartSafe DEF WriteError
<1>3. CASE /\ BlackStartCanTransition(blackStarts[id].status, "bus_restored")
           /\ EnterSending(t,
                 [Moving(id, "RestoreBus", MoveAndTell, "bus_restored")
                     EXCEPT !.bs.busRestoredAt = now],
                 "BUS_RESTORED")
  <2>1. PICK bs : bs = [blackStarts[id] EXCEPT !.status = "bus_restored",
                                               !.busRestoredAt = now]
    OBVIOUS
  <2>2. PICK c : c = [Moving(id, "RestoreBus", MoveAndTell, "bus_restored")
                         EXCEPT !.bs.busRestoredAt = now]
    OBVIOUS
  <2>3. c = Made("RestoreBus", MoveAndTell, id, bs, blackStarts[id], None,
                 None, None, None, {}, OK)
    BY <2>1, <2>2 DEF Moving, About, Idle, Made
  <2>4. /\ bs \in BS!BlackStartRecord
        /\ bs.status = "bus_restored"
        /\ bs.gridConnID = blackStarts[id].gridConnID
        /\ bs.smsMessageIDs = blackStarts[id].smsMessageIDs
    <3>1. now \in Nat
      BY DEF StepsInv, TypeOK, BS!TypeOK
    <3>. QED
      BY <2>1, <3>1, StoredBlackStart, BSTables, BlackStartTable
         DEF BS!BlackStartRecord
  <2>5. blackStarts[id].status = "in_progress"
    BY <1>3, StoredBlackStart, BlackStartTable
  <2>6. /\ Moved(blackStarts[id].status, bs.status)
        /\ "bus_restored" \in EarnedBy["BUS_RESTORED"]
        /\ "bus_restored" \in PromisedBlackStart["RestoreBus"]
    BY <2>4, <2>5 DEF Moved, EarnedBy, PromisedBlackStart
  <2>. QED
    BY <1>3, <2>2, <2>3, <2>4, <2>6, MoveSafe DEF Method, BS!Instruction, OK
<1>4. CASE Refuse(t, "ErrInvalidTransition")
  BY <1>4, RefuseSafe
<1>. QED  BY <1>1, <1>2, <1>3, <1>4 DEF RestoreBus

(***************************************************************************)
(* A call that writes black start id, new or read before, and then at most *)
(* delivers messages that are pending.                                     *)
(***************************************************************************)
LEMMA WriteBlackStartSafe ==
    ASSUME StepsInv, NEW t \in Threads, NEW id \in BlackStartIDs,
           NEW method \in Method, NEW status \in {200, 201},
           NEW left \in {<<"PutBlackStart">>, <<"PutBlackStart", "RetrySMS">>},
           NEW bs \in BS!BlackStartRecord,
           NEW old \in BS!BlackStartRecord \cup {None},
           id \in DOMAIN blackStarts =>
              /\ old = blackStarts[id]
              /\ bs.smsMessageIDs = old.smsMessageIDs
              /\ bs.gridConnID = old.gridConnID
              /\ bs.status = old.status,
           id \notin DOMAIN blackStarts =>
              /\ left = <<"PutBlackStart">>
              /\ bs.status = "initiated"
              /\ bs.gridConnID = NoGridConn
              /\ bs.smsMessageIDs = {},
           bs.status \in PromisedBlackStart[method],
           NEW accepted \in SUBSET BS!PendingSMS,
           Enter(t, Made(method, left, id, bs, old, None, None, None, None,
                         accepted, status))
    PROVE  StepsInv'
<1>1. PICK c : c = Made(method, left, id, bs, old, None, None, None, None,
                        accepted, status)
  OBVIOUS
<1>2. /\ c.method = method /\ c.left = left /\ c.id = id /\ c.bs = bs
      /\ c.old = old /\ c.gcID = None /\ c.gc = None /\ c.msgID = None
      /\ c.accepted = accepted /\ c.status = status
  BY <1>1 DEF Made
<1>3. c \in Call
  <2>0. left \in Plans
    BY BeginningPlans
  <2>1. left \in Seq(StoreCall) /\ <<>> \in PartialLoads
    BY <2>0, PlanType, NothingPartial
  <2>2. accepted \in SUBSET SMSIDs
    BY DEF StepsInv, TypeOK, BS!TypeOK, BS!PendingSMS
  <2>. QED  BY <1>1, <2>1, <2>2 DEF Made, Call
<1>4. AtHand(c)
  <2>1. /\ c.left \in Plans
        /\ \/ Todo(c) = {"PutBlackStart"}
           \/ Todo(c) = {"PutBlackStart", "RetrySMS"}
        /\ left = <<"PutBlackStart">> => Todo(c) = {"PutBlackStart"}
    BY <1>2, BeginningPlans
  <2>2. BlackStartAtHand(c)
    BY <1>2, <2>1 DEF BlackStartAtHand, Moved
  <2>3. AnswerAtHand(c) /\ RetryAtHand(c)
    BY <1>2, <2>1 DEF AnswerAtHand, RetryAtHand
  <2>4. c.method # None
    BY <1>2, StepsAssumption
  <2>. QED
    BY <2>1, <2>2, <2>3, <2>4
       DEF AtHand, ConnectionAtHand, RequestAtHand, MessageAtHand, LoadsAtHand
<1>. QED  BY <1>1, <1>2, <1>3, <1>4, EnterSafe

(***************************************************************************)
(* What InitiateBlackStart does.                                           *)
(***************************************************************************)
LEMMA InitiateBlackStartSafe ==
    ASSUME StepsInv, NEW t \in Threads, InitiateBlackStart(t) PROVE StepsInv'
<1>1. ASSUME NEW b \in DOMAIN blackStarts,
             ~BlackStartTerminal(blackStarts[b].status),
             Repeat(t, [About(b, "Initiate", <<>>) EXCEPT !.status = Created])
      PROVE  StepsInv'
  <2>1. PICK c : c = [[About(b, "Initiate", <<>>) EXCEPT !.status = Created]
                         EXCEPT !.left = <<>>]
    OBVIOUS
  <2>2. c = Made("Initiate", <<>>, b, blackStarts[b], blackStarts[b], None,
                 None, None, None, {}, Created)
    BY <2>1 DEF Made, About, Idle
  <2>3. Enter(t, c)
    BY <1>1, <2>1 DEF Repeat
  <2>4. blackStarts[b].status \in PromisedBlackStart["Initiate"]
    BY <1>1, StoredBlackStart DEF PromisedBlackStart, BlackStartTerminal
  <2>. QED  BY <2>2, <2>3, <2>4, RepeatBlackStartSafe DEF Method
<1>2. ASSUME HasFresh(BlackStartIDs, blackStarts),
             Enter(t, [Idle EXCEPT !.method = "Initiate",
                                   !.left = <<"PutBlackStart">>,
                                   !.id = Fresh(BlackStartIDs, blackStarts),
                                   !.bs = BS!NewBlackStart(now),
                                   !.status = Created])
      PROVE  StepsInv'
  <2>1. PICK id : id = Fresh(BlackStartIDs, blackStarts)
    OBVIOUS
  <2>2. PICK bs : bs = BS!NewBlackStart(now)
    OBVIOUS
  <2>3. PICK c : c = [Idle EXCEPT !.method = "Initiate",
                                  !.left = <<"PutBlackStart">>, !.id = id,
                                  !.bs = bs, !.status = Created]
    OBVIOUS
  <2>4. c = Made("Initiate", <<"PutBlackStart">>, id, bs, None, None, None,
                 None, None, {}, Created)
    BY <2>3 DEF Made, Idle
  <2>5. Enter(t, c)
    BY <1>2, <2>1, <2>2, <2>3
  <2>6. id \in BlackStartIDs /\ id \notin DOMAIN blackStarts
    BY <1>2, <2>1, FreshIs
  <2>7. /\ bs \in BS!BlackStartRecord
        /\ bs.status = "initiated"
        /\ bs.gridConnID = NoGridConn
        /\ bs.smsMessageIDs = {}
    <3>1. now + BlackStartDeadline \in Nat
      BY StepsAssumption DEF StepsInv, TypeOK, BS!TypeOK
    <3>. QED
      BY <2>2, <3>1, BSTables, BlackStartTable
         DEF BS!NewBlackStart, BS!BlackStartRecord
  <2>8. "initiated" \in PromisedBlackStart["Initiate"]
    BY BlackStartTable DEF PromisedBlackStart
  <2>9. PICK left, accepted :
           left = <<"PutBlackStart">> /\ accepted = {}
    OBVIOUS
  <2>10. Enter(t, Made("Initiate", left, id, bs, None, None, None, None, None,
                       accepted, 201))
    BY <2>4, <2>5, <2>9 DEF Created
  <2>11. accepted \in SUBSET BS!PendingSMS
    BY <2>9
  <2>12. "Initiate" \in Method
    BY DEF Method
  <2>. QED
    BY <2>6, <2>7, <2>8, <2>9, <2>10, <2>11, <2>12, WriteBlackStartSafe
<1>. QED  BY <1>1, <1>2 DEF InitiateBlackStart

(***************************************************************************)
(* What ReportNetworkInterrupt does.                                       *)
(***************************************************************************)
LEMMA ReportNetworkInterruptSafe ==
    ASSUME StepsInv, NEW t \in Threads, NEW id \in DOMAIN blackStarts,
           ReportNetworkInterrupt(t, id)
    PROVE  StepsInv'
<1>1. PICK bs : bs = [blackStarts[id] EXCEPT !.networkInterrupted = TRUE]
  OBVIOUS
<1>2. PICK c : c = [About(id, "ReportInterrupt", <<"PutBlackStart">>) EXCEPT
                       !.bs.networkInterrupted = TRUE]
  OBVIOUS
<1>3. c = Made("ReportInterrupt", <<"PutBlackStart">>, id, bs,
               blackStarts[id], None, None, None, None, {}, OK)
  BY <1>1, <1>2 DEF Made, About, Idle
<1>4. Enter(t, c)
  BY <1>2 DEF ReportNetworkInterrupt
<1>5. /\ bs \in BS!BlackStartRecord
      /\ bs.status = blackStarts[id].status
      /\ bs.gridConnID = blackStarts[id].gridConnID
      /\ bs.smsMessageIDs = blackStarts[id].smsMessageIDs
  BY <1>1, StoredBlackStart DEF BS!BlackStartRecord
<1>6. bs.status \in PromisedBlackStart["ReportInterrupt"]
  BY <1>5, StoredBlackStart DEF PromisedBlackStart
<1>7. PICK left, accepted : left = <<"PutBlackStart">> /\ accepted = {}
  OBVIOUS
<1>8. Enter(t, Made("ReportInterrupt", left, id, bs, blackStarts[id], None,
                    None, None, None, accepted, 200))
  BY <1>3, <1>4, <1>7 DEF OK
<1>9. accepted \in SUBSET BS!PendingSMS
  BY <1>7
<1>10. "ReportInterrupt" \in Method
  BY DEF Method
<1>. QED
  BY <1>5, <1>6, <1>7, <1>8, <1>9, <1>10, StoredBlackStart,
     WriteBlackStartSafe

(***************************************************************************)
(* What RestoreNetwork does.                                               *)
(***************************************************************************)
LEMMA RestoreNetworkSafe ==
    ASSUME StepsInv, NEW t \in Threads, NEW id \in DOMAIN blackStarts,
           RestoreNetwork(t, id)
    PROVE  StepsInv'
<1>1. PICK bs : bs = [blackStarts[id] EXCEPT !.networkInterrupted = FALSE]
  OBVIOUS
<1>2. PICK accepted \in SUBSET {m \in BS!PendingSMS :
                                   smsMessages[m].blackStartID = id} :
         Enter(t, [About(id, "RestoreNetwork", <<"PutBlackStart", "RetrySMS">>)
                      EXCEPT !.bs.networkInterrupted = FALSE,
                             !.accepted = accepted])
  BY DEF RestoreNetwork
<1>3. PICK c : c = [About(id, "RestoreNetwork", <<"PutBlackStart", "RetrySMS">>)
                       EXCEPT !.bs.networkInterrupted = FALSE,
                              !.accepted = accepted]
  OBVIOUS
<1>4. c = Made("RestoreNetwork", <<"PutBlackStart", "RetrySMS">>, id, bs,
               blackStarts[id], None, None, None, None, accepted, OK)
  BY <1>1, <1>3 DEF Made, About, Idle
<1>5. Enter(t, c)
  BY <1>2, <1>3
<1>6. /\ bs \in BS!BlackStartRecord
      /\ bs.status = blackStarts[id].status
      /\ bs.gridConnID = blackStarts[id].gridConnID
      /\ bs.smsMessageIDs = blackStarts[id].smsMessageIDs
  BY <1>1, StoredBlackStart DEF BS!BlackStartRecord
<1>7. bs.status \in PromisedBlackStart["RestoreNetwork"]
  BY <1>6, StoredBlackStart DEF PromisedBlackStart
<1>8. accepted \in SUBSET BS!PendingSMS
  BY <1>2
<1>9. PICK left : left = <<"PutBlackStart", "RetrySMS">>
  OBVIOUS
<1>10. Enter(t, Made("RestoreNetwork", left, id, bs, blackStarts[id], None,
                     None, None, None, accepted, 200))
  BY <1>4, <1>5, <1>9 DEF OK
<1>11. "RestoreNetwork" \in Method
  BY DEF Method
<1>. QED
  BY <1>6, <1>7, <1>8, <1>9, <1>10, <1>11, StoredBlackStart,
     WriteBlackStartSafe

(***************************************************************************)
(* What ResendPendingSMS does.                                             *)
(***************************************************************************)
LEMMA ResendPendingSMSSafe ==
    ASSUME StepsInv, NEW t \in Threads, ResendPendingSMS(t) PROVE StepsInv'
<1>1. PICK accepted \in SUBSET BS!PendingSMS :
         Enter(t, [Idle EXCEPT !.method = "Resend", !.left = <<"RetrySMS">>,
                               !.accepted = accepted])
  BY DEF ResendPendingSMS
<1>2. PICK c : c = [Idle EXCEPT !.method = "Resend", !.left = <<"RetrySMS">>,
                                !.accepted = accepted]
  OBVIOUS
<1>3. c = Made("Resend", <<"RetrySMS">>, None, None, None, None, None, None,
               None, accepted, 0)
  BY <1>2 DEF Made, Idle
<1>4. /\ c.method = "Resend" /\ c.left = <<"RetrySMS">> /\ c.msgID = None
      /\ c.bs = None /\ c.gc = None /\ c.accepted = accepted /\ c.status = 0
  BY <1>3 DEF Made
<1>5. c \in Call
  <2>1. <<"RetrySMS">> \in Seq(StoreCall) /\ <<>> \in PartialLoads
    BY BeginningPlans, PlanType, NothingPartial
  <2>2. accepted \in SUBSET SMSIDs
    BY DEF StepsInv, TypeOK, BS!TypeOK, BS!PendingSMS
  <2>. QED  BY <1>3, <2>1, <2>2 DEF Made, Call, Method
<1>6. AtHand(c)
  <2>1. c.left \in Plans /\ Todo(c) = {"RetrySMS"}
    BY <1>4, BeginningPlans
  <2>2. c.method # None
    BY <1>4, StepsAssumption DEF Method
  <2>. QED
    BY <1>4, <2>1, <2>2
       DEF AtHand, BlackStartAtHand, ConnectionAtHand, RequestAtHand,
           MessageAtHand, RetryAtHand, LoadsAtHand, AnswerAtHand, OK, Created
<1>. QED  BY <1>1, <1>2, <1>4, <1>5, <1>6, EnterSafe

(***************************************************************************)
(* What RequestGridConnection does.                                        *)
(***************************************************************************)
LEMMA RequestGridConnectionSafe ==
    ASSUME StepsInv, NEW t \in Threads, NEW id \in DOMAIN blackStarts,
           RequestGridConnection(t, id)
    PROVE  StepsInv'
<1>1. CASE Refuse(t, "ErrInvalidTransition")
  BY <1>1, RefuseSafe
<1>2. CASE /\ blackStarts[id].status \in {"bus_restored", "grid_syncing"}
           /\ HasFresh(GridConnIDs, gridConns)
           /\ LET g == Fresh(GridConnIDs, gridConns)
              IN EnterSending(t,
                    [About(id, "Request", RequestWrites) EXCEPT
                        !.bs = BS!Syncing(@, g),
                        !.gcID = g,
                        !.gc = [blackStartID |-> id, status |-> "requested",
                                signed |-> {}],
                        !.status = Created],
                    "GRID_SYNC_REQUEST")
  <2>1. PICK g : g = Fresh(GridConnIDs, gridConns)
    OBVIOUS
  <2>2. PICK old, bs : old = blackStarts[id] /\ bs = BS!Syncing(old, g)
    OBVIOUS
  <2>3. PICK gc : gc = [blackStartID |-> id, status |-> "requested",
                        signed |-> {}]
    OBVIOUS
  <2>4. PICK c : c = [About(id, "Request", RequestWrites) EXCEPT
                         !.bs = BS!Syncing(@, g), !.gcID = g, !.gc = gc,
                         !.status = Created]
    OBVIOUS
  <2>5. EnterSending(t, c, "GRID_SYNC_REQUEST")
    BY <1>2, <2>1, <2>3, <2>4
  <2>6. c = Made("Request", RequestWrites, id, bs, old, g, gc, None, None, {},
                 Created)
    BY <2>2, <2>4 DEF About, Idle, Made
  <2>7. PICK m \in SMSIDs, accepted \in SUBSET SMSIDs :
           /\ m \notin DOMAIN smsMessages
           /\ accepted \in {{}, {m}}
           /\ Enter(t, Made("Request", RequestWrites, id, bs, old, g, gc,
                            "GRID_SYNC_REQUEST", m, accepted, Created))
    BY <2>5, <2>6, SendingIs
  <2>8. PICK d : d = Made("Request", RequestWrites, id, bs, old, g, gc,
                          "GRID_SYNC_REQUEST", m, accepted, Created)
    OBVIOUS
  <2>9. /\ d.method = "Request" /\ d.left = RequestWrites /\ d.id = id
        /\ d.bs = bs /\ d.old = old /\ d.gcID = g /\ d.gc = gc
        /\ d.message = "GRID_SYNC_REQUEST" /\ d.msgID = m
        /\ d.accepted = accepted /\ d.status = Created
    BY <2>8 DEF Made
  <2>10. g \in GridConnIDs /\ g \notin DOMAIN gridConns
    BY <1>2, <2>1, FreshIs
  <2>11. /\ id \in BlackStartIDs
         /\ old \in BS!BlackStartRecord
         /\ old.status \in {"bus_restored", "grid_syncing"}
    BY <1>2, <2>2, StoredBlackStart
  <2>12. /\ bs \in BS!BlackStartRecord
         /\ bs.status = "grid_syncing"
         /\ bs.gridConnID = g
         /\ bs.smsMessageIDs = old.smsMessageIDs
    BY <2>2, <2>10, <2>11, SyncingIs
  <2>13. gc \in BS!GridConnection /\ gc.status = "requested" /\ gc.signed = {}
         /\ gc.blackStartID = id
    BY <2>3, <2>11, BSTables, GridConnTable DEF BS!GridConnection
  <2>14. d \in Call
    <3>1. RequestWrites \in Seq(StoreCall) /\ <<>> \in PartialLoads
      BY BeginningPlans, PlanType, NothingPartial
    <3>. QED
      BY <2>7, <2>8, <2>10, <2>11, <2>12, <2>13, <3>1
         DEF Made, Call, Method, BS!Instruction, Created
  <2>15. AtHand(d)
    <3>1. /\ Todo(d) = {"PutGridConn", "PutBlackStart", "ListLoads",
                        "PutLoad", "SaveSMS", "PutSMS", "LinkSMS"}
          /\ d.left \in Plans
      BY <2>9, BeginningPlans
    <3>2. BlackStartAtHand(d)
      BY <2>2, <2>9, <2>11, <2>12, <3>1 DEF BlackStartAtHand, Moved
    <3>3. ConnectionAtHand(d)
      BY <2>9, <2>10, <2>13, <3>1 DEF ConnectionAtHand, Fits
    <3>4. RequestAtHand(d)
      BY <2>2, <2>3, <2>9, <2>10, <2>11, <3>1 DEF RequestAtHand
    <3>5. MessageAtHand(d)
      BY <2>7, <2>9, <2>12, <3>1 DEF MessageAtHand, BS!Instruction, EarnedBy
    <3>6. AnswerAtHand(d)
      BY <2>9, <2>12, <2>13, <3>1
         DEF AnswerAtHand, PromisedBlackStart, PromisedGridConn
    <3>7. d.method # None
      BY <2>9, StepsAssumption DEF Method
    <3>. QED
      BY <3>1, <3>2, <3>3, <3>4, <3>5, <3>6, <3>7
         DEF AtHand, RetryAtHand, LoadsAtHand
  <2>. QED  BY <2>7, <2>8, <2>9, <2>14, <2>15, EnterSafe
<1>. QED  BY <1>1, <1>2 DEF RequestGridConnection

(***************************************************************************)
(* A stored connection is well typed and, while nobody is at work, of a    *)
(* black start that is syncing or completed.                               *)
(***************************************************************************)
LEMMA StoredGridConn ==
    ASSUME StepsInv, NEW g \in DOMAIN gridConns
    PROVE  /\ g \in GridConnIDs
           /\ gridConns[g] \in BS!GridConnection
           /\ gridConns[g].status \in GridConnStatus
           /\ gridConns[g].signed \in SUBSET SignParty
           /\ gridConns[g].blackStartID \in DOMAIN blackStarts
           /\ gridConns[g].blackStartID \in BlackStartIDs
           /\ Fits(gridConns[g])
  BY BSTables DEF StepsInv, TypeOK, BS!TypeOK, BS!GridConnection,
                  ConnectedSyncing, SignaturesFit

(***************************************************************************)
(* What SignGridConnection does.                                           *)
(***************************************************************************)
LEMMA SignGridConnectionSafe ==
    ASSUME StepsInv, NEW t \in Threads, NEW g \in DOMAIN gridConns, NEW party,
           SignGridConnection(t, g, party)
    PROVE  StepsInv'
<1>1. CASE /\ GridConnTerminal(gridConns[g].status)
              \/ party \in gridConns[g].signed
           /\ Repeat(t, AboutConn(g, "Sign", <<>>))
  <2>1. gridConns[g].status \in PromisedGridConn["Sign"]
    BY <1>1, StoredGridConn DEF PromisedGridConn, GridConnTerminal, Fits
  <2>. QED  BY <1>1, <2>1, RepeatGridConnSafe DEF Method
<1>2. CASE Refuse(t, "unknown sign party")
  BY <1>2, RefuseSafe
<1>3. CASE /\ ~GridConnTerminal(gridConns[g].status)
           /\ party \in SignParty \ gridConns[g].signed
           /\ LET signed == gridConns[g].signed \cup {party}
              IN Enter(t, [AboutConn(g, "Sign", <<"PutGridConn">>) EXCEPT
                              !.gc.signed = signed,
                              !.gc.status = BS!StatusOfSignatures(signed)])
  <2>1. PICK id, signed, status :
           /\ id = gridConns[g].blackStartID
           /\ signed = gridConns[g].signed \cup {party}
           /\ status = BS!StatusOfSignatures(signed)
    OBVIOUS
  <2>2. PICK gc : gc = [gridConns[g] EXCEPT !.signed = signed,
                                            !.status = status]
    OBVIOUS
  <2>3. PICK c : c = [AboutConn(g, "Sign", <<"PutGridConn">>) EXCEPT
                         !.gc.signed = signed, !.gc.status = status]
    OBVIOUS
  <2>4. Enter(t, c)
    BY <1>3, <2>1, <2>3
  <2>5. c = Made("Sign", <<"PutGridConn">>, id, None, None, g, gc, None, None,
                 {}, OK)
    BY <2>1, <2>2, <2>3 DEF AboutConn, Idle, Made
  <2>6. /\ c.method = "Sign" /\ c.left = <<"PutGridConn">> /\ c.id = id
        /\ c.bs = None /\ c.gcID = g /\ c.gc = gc /\ c.accepted = {}
        /\ c.status = OK
    BY <2>5 DEF Made
  <2>7. /\ id \in BlackStartIDs
        /\ id \in DOMAIN blackStarts
        /\ signed \in SUBSET SignParty
    BY <1>3, <2>1, StoredGridConn DEF SignParty
  <2>8. /\ gridConns[g].status \in {"requested", "dispatch_signed", "om_signed"}
        /\ status \in GridConnStatus
        /\ GridConnCanTransition(gridConns[g].status, status)
        /\ status \notin {"requested", "completed"}
        /\ IF status = "dispatch_signed" THEN signed = {"dispatch"}
           ELSE IF status = "om_signed" THEN signed = {"operations"}
           ELSE signed = SignParty
    <3>1. gridConns[g].status \in {"requested", "dispatch_signed", "om_signed"}
      BY <1>3, StoredGridConn, GridConnTable DEF Fits, GridConnTerminal
    <3>2. status = IF signed = SignParty THEN "dual_signed"
                   ELSE IF "dispatch" \in signed THEN "dispatch_signed"
                   ELSE "om_signed"
      BY <2>1, BSTables DEF BS!StatusOfSignatures
    <3>3. gridConns[g].signed =
             IF gridConns[g].status = "requested" THEN {}
             ELSE IF gridConns[g].status = "dispatch_signed" THEN {"dispatch"}
             ELSE {"operations"}
      BY <3>1, StoredGridConn DEF Fits
    <3>4. CASE gridConns[g].status = "requested"
      BY <1>3, <2>1, <3>2, <3>3, <3>4, GridConnTable DEF SignParty
    <3>5. CASE gridConns[g].status = "dispatch_signed"
      BY <1>3, <2>1, <3>2, <3>3, <3>5, GridConnTable DEF SignParty
    <3>6. CASE gridConns[g].status = "om_signed"
      BY <1>3, <2>1, <3>2, <3>3, <3>6, GridConnTable DEF SignParty
    <3>. QED  BY <3>1, <3>4, <3>5, <3>6
  <2>9. /\ gc \in BS!GridConnection
        /\ gc.blackStartID = id
        /\ gc.status = status
        /\ gc.signed = signed
    BY <2>1, <2>2, <2>7, <2>8, StoredGridConn, BSTables DEF BS!GridConnection
  <2>10. c \in Call
    <3>1. <<"PutGridConn">> \in Seq(StoreCall) /\ <<>> \in PartialLoads
      BY BeginningPlans, PlanType, NothingPartial
    <3>. QED
      BY <2>5, <2>7, <2>9, <3>1, StoredGridConn DEF Made, Call, Method, OK
  <2>11. AtHand(c)
    <3>1. c.left \in Plans /\ Todo(c) = {"PutGridConn"}
      BY <2>6, BeginningPlans
    <3>2. ConnectionAtHand(c)
      BY <2>1, <2>6, <2>7, <2>8, <2>9, <3>1, StoredGridConn
         DEF ConnectionAtHand, Fits
    <3>3. AnswerAtHand(c)
      BY <2>6, <2>8, <2>9, <3>1 DEF AnswerAtHand, PromisedGridConn
    <3>4. c.method # None
      BY <2>6, StepsAssumption DEF Method
    <3>. QED
      BY <3>1, <3>2, <3>3, <3>4
         DEF AtHand, BlackStartAtHand, RequestAtHand, MessageAtHand,
             RetryAtHand, LoadsAtHand
  <2>. QED  BY <2>4, <2>6, <2>10, <2>11, EnterSafe
<1>. QED  BY <1>1, <1>2, <1>3 DEF SignGridConnection

(***************************************************************************)
(* What SynchronizeGrid does.                                              *)
(***************************************************************************)
LEMMA SynchronizeGridSafe ==
    ASSUME StepsInv, NEW t \in Threads, NEW g \in DOMAIN gridConns,
           SynchronizeGrid(t, g)
    PROVE  StepsInv'
<1>1. CASE /\ gridConns[g].status \in {"synchronized", "completed"}
           /\ Repeat(t, AboutConn(g, "Synchronize", <<>>))
  BY <1>1, RepeatGridConnSafe DEF Method, PromisedGridConn
<1>2. CASE Refuse(t, "ErrDualSignRequired")
  BY <1>2, RefuseSafe
<1>3. CASE /\ BothSigned(gridConns[g])
           /\ GridConnCanTransition(gridConns[g].status, "synchronized")
           /\ EnterSending(t, [AboutConn(g, "Synchronize", SynchronizeWrites)
                                  EXCEPT !.gc.status = "synchronized"],
                           "GRID_SYNCHRONIZED")
  <2>1. PICK id : id = gridConns[g].blackStartID
    OBVIOUS
  <2>2. PICK gc : gc = [gridConns[g] EXCEPT !.status = "synchronized"]
    OBVIOUS
  <2>3. PICK c : c = [AboutConn(g, "Synchronize", SynchronizeWrites)
                         EXCEPT !.gc.status = "synchronized"]
    OBVIOUS
  <2>4. c = Made("Synchronize", SynchronizeWrites, id, None, None, g, gc,
                 None, None, {}, OK)
    BY <2>1, <2>2, <2>3 DEF AboutConn, Idle, Made
  <2>5. PICK m \in SMSIDs, accepted \in SUBSET SMSIDs :
           /\ m \notin DOMAIN smsMessages
           /\ accepted \in {{}, {m}}
           /\ Enter(t, Made("Synchronize", SynchronizeWrites, id, None, None,
                            g, gc, "GRID_SYNCHRONIZED", m, accepted, OK))
    <3>1. EnterSending(t, c, "GRID_SYNCHRONIZED")
      BY <1>3, <2>3
    <3>2. EnterSending(t, Made("Synchronize", SynchronizeWrites, id, None,
                               None, g, gc, None, None, {}, OK),
                       "GRID_SYNCHRONIZED")
      BY <2>4, <3>1
    <3>. QED  BY <3>2, SendingIs
  <2>6. PICK d : d = Made("Synchronize", SynchronizeWrites, id, None, None,
                          g, gc, "GRID_SYNCHRONIZED", m, accepted, OK)
    OBVIOUS
  <2>7. /\ d.method = "Synchronize" /\ d.left = SynchronizeWrites /\ d.id = id
        /\ d.bs = None /\ d.gcID = g /\ d.gc = gc
        /\ d.message = "GRID_SYNCHRONIZED" /\ d.msgID = m
        /\ d.accepted = accepted /\ d.status = OK
    BY <2>6 DEF Made
  <2>8. /\ id \in BlackStartIDs
        /\ id \in DOMAIN blackStarts
        /\ blackStarts[id].status \in {"grid_syncing", "completed"}
    <3>1. mu = Free
      BY <2>5 DEF Enter
    <3>. QED  BY <2>1, <3>1, StoredGridConn, FreeToEnter
  <2>9. /\ gc \in BS!GridConnection
        /\ gc.blackStartID = id
        /\ gc.status = "synchronized"
        /\ gc.signed = SignParty
    BY <1>3, <2>1, <2>2, StoredGridConn, BSTables, GridConnTable
       DEF BS!GridConnection, BothSigned
  <2>10. d \in Call
    <3>1. SynchronizeWrites \in Seq(StoreCall) /\ <<>> \in PartialLoads
      BY BeginningPlans, PlanType, NothingPartial
    <3>. QED
      BY <2>5, <2>6, <2>8, <2>9, <3>1, StoredGridConn
         DEF Made, Call, Method, BS!Instruction, OK
  <2>11. AtHand(d)
    <3>1. /\ Todo(d) = {"PutGridConn", "SaveSMS", "PutSMS", "LinkSMS"}
          /\ d.left \in Plans
      BY <2>7, BeginningPlans
    <3>2. ConnectionAtHand(d)
      BY <1>3, <2>1, <2>7, <2>8, <2>9, <3>1, StoredGridConn
         DEF ConnectionAtHand, Fits
    <3>3. MessageAtHand(d)
      BY <2>5, <2>7, <2>8, <3>1 DEF MessageAtHand, BS!Instruction, EarnedBy
    <3>4. AnswerAtHand(d)
      BY <2>7, <2>9, <3>1 DEF AnswerAtHand, PromisedGridConn
    <3>5. d.method # None
      BY <2>7, StepsAssumption DEF Method
    <3>. QED
      BY <3>1, <3>2, <3>3, <3>4, <3>5
         DEF AtHand, BlackStartAtHand, RequestAtHand, RetryAtHand, LoadsAtHand
  <2>. QED  BY <2>5, <2>6, <2>7, <2>10, <2>11, EnterSafe
<1>. QED  BY <1>1, <1>2, <1>3 DEF SynchronizeGrid

(***************************************************************************)
(* What CompleteBlackStart does.                                           *)
(***************************************************************************)
LEMMA CompleteBlackStartSafe ==
    ASSUME StepsInv, NEW t \in Threads, NEW id \in DOMAIN blackStarts,
           CompleteBlackStart(t, id)
    PROVE  StepsInv'
<1>1. CASE /\ blackStarts[id].status = "completed"
           /\ Repeat(t, About(id, "Complete", <<>>))
  BY <1>1, RepeatIs, RepeatBlackStartSafe DEF PromisedBlackStart, Method
<1>2. CASE \E err : Refuse(t, err)
  BY <1>2, RefuseSafe
<1>3. CASE LET g == blackStarts[id].gridConnID
           IN /\ blackStarts[id].status = "grid_syncing"
              /\ gridConns[g].status = "synchronized"
              /\ Enter(t, [Moving(id, "Complete", CompleteWrites, "completed")
                              EXCEPT !.gcID = g,
                                     !.gc = [gridConns[g] EXCEPT
                                                !.status = "completed"]])
  <2>1. PICK g : g = blackStarts[id].gridConnID
    OBVIOUS
  <2>2. PICK bs : bs = [blackStarts[id] EXCEPT !.status = "completed"]
    OBVIOUS
  <2>3. PICK gc : gc = [gridConns[g] EXCEPT !.status = "completed"]
    OBVIOUS
  <2>4. PICK c : c = [Moving(id, "Complete", CompleteWrites, "completed")
                         EXCEPT !.gcID = g, !.gc = gc]
    OBVIOUS
  <2>5. Enter(t, c)
    BY <1>3, <2>1, <2>3, <2>4
  <2>6. c = Made("Complete", CompleteWrites, id, bs, blackStarts[id], g, gc,
                 None, None, {}, OK)
    BY <2>2, <2>4 DEF Moving, About, Idle, Made
  <2>7. /\ c.method = "Complete" /\ c.left = CompleteWrites /\ c.id = id
        /\ c.bs = bs /\ c.old = blackStarts[id] /\ c.gcID = g /\ c.gc = gc
        /\ c.accepted = {} /\ c.status = OK
    BY <2>6 DEF Made
  <2>8. /\ g \in DOMAIN gridConns
        /\ gridConns[g].blackStartID = id
        /\ blackStarts[id].status = "grid_syncing"
        /\ gridConns[g].status = "synchronized"
    BY <1>3, <2>1 DEF StepsInv, SyncingConnected
  <2>9. /\ bs \in BS!BlackStartRecord
        /\ bs.status = "completed"
        /\ bs.gridConnID = blackStarts[id].gridConnID
        /\ bs.smsMessageIDs = blackStarts[id].smsMessageIDs
    BY <2>2, StoredBlackStart, BSTables, BlackStartTable
       DEF BS!BlackStartRecord
  <2>10. /\ gc \in BS!GridConnection
         /\ gc.blackStartID = id
         /\ gc.status = "completed"
         /\ gc.signed = SignParty
    BY <2>3, <2>8, StoredGridConn, BSTables, GridConnTable
       DEF BS!GridConnection, Fits
  <2>11. c \in Call
    <3>1. CompleteWrites \in Seq(StoreCall) /\ <<>> \in PartialLoads
      BY BeginningPlans, PlanType, NothingPartial
    <3>. QED
      BY <2>6, <2>8, <2>9, <2>10, <3>1, StoredBlackStart, StoredGridConn
         DEF Made, Call, Method, OK
  <2>12. AtHand(c)
    <3>1. /\ Todo(c) = {"PutBlackStart", "PutGridConn"}
          /\ c.left \in Plans
      BY <2>7, BeginningPlans
    <3>2. BlackStartAtHand(c)
      BY <2>7, <2>8, <2>9, <3>1, StoredBlackStart DEF BlackStartAtHand, Moved
    <3>3. ConnectionAtHand(c)
      BY <2>7, <2>8, <2>9, <2>10, <3>1, StoredGridConn, GridConnTable
         DEF ConnectionAtHand, Fits
    <3>4. AnswerAtHand(c)
      BY <2>7, <2>9, <2>10, <3>1
         DEF AnswerAtHand, PromisedBlackStart, PromisedGridConn
    <3>5. c.method # None
      BY <2>7, StepsAssumption DEF Method
    <3>. QED
      BY <3>1, <3>2, <3>3, <3>4, <3>5
         DEF AtHand, RequestAtHand, MessageAtHand, RetryAtHand, LoadsAtHand
  <2>. QED  BY <2>5, <2>7, <2>11, <2>12, EnterSafe
<1>. QED  BY <1>1, <1>2, <1>3 DEF CompleteBlackStart

-----------------------------------------------------------------------------
(* The invariant holds *)

(***************************************************************************)
(* At the start the store is empty but for the energized seed loads, and   *)
(* nobody is in a method.                                                  *)
(***************************************************************************)
LEMMA StepsInvInit == Init => StepsInv
<1>. SUFFICES ASSUME Init PROVE StepsInv
  OBVIOUS
<1>1. /\ now = 1
      /\ DOMAIN blackStarts = {} /\ DOMAIN gridConns = {}
      /\ DOMAIN smsMessages = {} /\ DOMAIN loads = SeedLoads
      /\ \A l \in SeedLoads : loads[l] = Energized
      /\ mu = Free
      /\ \A t \in Threads : call[t] = Idle
      /\ call = [t \in Threads |-> Idle]
  BY DEF Init, BS!Init, BS!Energized, Energized
<1>2. Idle \in Call
  BY NothingPartial DEF Idle, Call
<1>3. Energized \in BS!Load /\ ~Energized.shed
  BY DEF Energized, BS!Load
<1>4. TypeOK
  BY <1>1, <1>2, <1>3, StepsAssumption DEF TypeOK, BS!TypeOK
<1>5. LockHeld /\ AtWork = {}
  BY <1>1, StepsAssumption DEF LockHeld, AtWork
<1>6. DeliveredOnce
  BY <1>1 DEF DeliveredOnce, Idle
<1>7. /\ SyncingConnected /\ ConnectedSyncing /\ SignaturesFit
      /\ MessagesBelong /\ ReadersFindReferences /\ InstructionsEarned
      /\ ConnectionClosesLast
  BY <1>1 DEF SyncingConnected, ConnectedSyncing, SignaturesFit,
              MessagesBelong, ReadersFindReferences, InstructionsEarned,
              ConnectionClosesLast
<1>8. SeedsKept /\ LeastImportantShedFirst
  BY <1>1, <1>3 DEF SeedsKept, LeastImportantShedFirst
<1>. QED  BY <1>4, <1>5, <1>6, <1>7, <1>8 DEF StepsInv

(***************************************************************************)
(* Whatever method a thread calls.                                         *)
(***************************************************************************)
LEMMA BeginSafe ==
    ASSUME StepsInv, NEW t \in Threads, Begin(t) PROVE StepsInv'
<1>1. CASE InitiateBlackStart(t)
  BY <1>1, InitiateBlackStartSafe
<1>2. CASE \E id \in BlackStartIDs : UnknownBlackStart(t, id)
  BY <1>2, RefuseSafe DEF UnknownBlackStart
<1>3. ASSUME NEW id \in DOMAIN blackStarts,
             \/ StartBlackStart(t, id)
             \/ RestoreBus(t, id)
             \/ RequestGridConnection(t, id)
             \/ CompleteBlackStart(t, id)
             \/ ReportNetworkInterrupt(t, id)
             \/ RestoreNetwork(t, id)
             \/ FailBlackStart(t, id, 0)
      PROVE  StepsInv'
  BY <1>3, StartBlackStartSafe, RestoreBusSafe, RequestGridConnectionSafe,
     CompleteBlackStartSafe, ReportNetworkInterruptSafe, RestoreNetworkSafe,
     FailBlackStartSafe
<1>4. CASE \E g \in GridConnIDs : UnknownGridConn(t, g)
  BY <1>4, RefuseSafe DEF UnknownGridConn
<1>5. ASSUME NEW g \in DOMAIN gridConns, NEW party,
             SignGridConnection(t, g, party) \/ SynchronizeGrid(t, g)
      PROVE  StepsInv'
  BY <1>5, SignGridConnectionSafe, SynchronizeGridSafe
<1>6. CASE ResendPendingSMS(t)
  BY <1>6, ResendPendingSMSSafe
<1>. QED  BY <1>1, <1>2, <1>3, <1>4, <1>5, <1>6 DEF Begin

(***************************************************************************)
(* Every step of any thread, of the clock and of RegisterLoad preserves    *)
(* the invariant.                                                          *)
(***************************************************************************)
LEMMA StepsInvNext == StepsInv /\ [Next]_vars => StepsInv'
<1>. SUFFICES ASSUME StepsInv, [Next]_vars PROVE StepsInv'
  OBVIOUS
<1>1. ASSUME NEW t \in Threads, Begin(t) PROVE StepsInv'
  BY <1>1, BeginSafe
<1>2. ASSUME NEW t \in Threads, Proceed(t) PROVE StepsInv'
  BY <1>2, PutBlackStartSafe, PutGridConnSafe, ListLoadsSafe, PutLoadSafe,
     SaveSMSSafe, PutSMSSafe, LinkSMSSafe, RetrySMSSafe, LoopEndsSafe,
     ReturnSafe DEF Proceed
<1>3. ASSUME NEW l \in LoadIDs, NEW load \in BS!Load, RegisterLoad(l, load)
      PROVE  StepsInv'
  BY <1>3, RegisterLoadSafe
<1>4. now \in Nat \ {0}
  BY DEF StepsInv, TypeOK, BS!TypeOK
<1>5. CASE Tick
  BY <1>4, <1>5, ClockSafe DEF Tick
<1>6. CASE UNCHANGED vars
  BY <1>4, <1>6, ClockSafe DEF vars
<1>. QED  BY <1>1, <1>2, <1>3, <1>5, <1>6 DEF Next

(***************************************************************************)
(* The inductive invariant of the store calls.                             *)
(***************************************************************************)
THEOREM StepsInvHolds == Spec => []StepsInv
<1>. QED  BY StepsInvInit, StepsInvNext, PTL DEF Spec

(***************************************************************************)
(* The store and every call keep their types, for any number of threads.   *)
(***************************************************************************)
THEOREM StepsTyped == Spec => []TypeOK
<1>1. StepsInv => TypeOK
  BY DEF StepsInv
<1>. QED  BY <1>1, StepsInvHolds, PTL

(***************************************************************************)
(* Between any two store calls an identifier a reader finds in a record    *)
(* leads to a record, and a linked message was delivered.                  *)
(***************************************************************************)
THEOREM ReadersAlwaysFindReferences == Spec => []ReadersFindReferences
<1>1. StepsInv => ReadersFindReferences
  BY DEF StepsInv
<1>. QED  BY <1>1, StepsInvHolds, PTL

(***************************************************************************)
(* What a retry is about to deliver is pending still, however many sweeps  *)
(* and network restorations there are.                                     *)
(***************************************************************************)
THEOREM NothingDeliveredTwice == Spec => []DeliveredOnce
<1>1. StepsInv => DeliveredOnce
  BY DEF StepsInv
<1>. QED  BY <1>1, StepsInvHolds, PTL

(***************************************************************************)
(* No reader meets a completed connection of a black start that is not     *)
(* completed.                                                              *)
(***************************************************************************)
THEOREM ConnectionsCloseLast == Spec => []ConnectionClosesLast
<1>1. StepsInv => ConnectionClosesLast
  BY DEF StepsInv
<1>. QED  BY <1>1, StepsInvHolds, PTL

(***************************************************************************)
(* At every instant of the shedding, and whatever loads are registered     *)
(* meanwhile, the less important loads are dark first.                     *)
(***************************************************************************)
THEOREM SheddingInOrder == Spec => []LeastImportantShedFirst
<1>1. StepsInv => LeastImportantShedFirst
  BY DEF StepsInv
<1>. QED  BY <1>1, StepsInvHolds, PTL

(***************************************************************************)
(* A call with no store call left returns what the store holds.            *)
(***************************************************************************)
LEMMA AnswersAtHand == StepsInv => AnswersHold
<1>. SUFFICES ASSUME StepsInv, NEW t \in Threads,
                     call[t].left = <<>>, call[t].status \in {OK, Created}
              PROVE  /\ call[t].bs # None =>
                           /\ Unlinked(call[t].bs)
                                 = Unlinked(blackStarts[call[t].id])
                           /\ call[t].bs.status
                                 \in PromisedBlackStart[call[t].method]
                     /\ call[t].gc # None =>
                           /\ call[t].gc = gridConns[call[t].gcID]
                           /\ call[t].gc.status
                                 \in PromisedGridConn[call[t].method]
  BY DEF AnswersHold, Unlinked
<1>1. call[t] # Idle
  BY DEF Idle, OK, Created
<1>2. AnswerAtHand(call[t])
  BY <1>1, AtWorkIs DEF StepsInv, AtHand
<1>3. Todo(call[t]) = {}
  BY DEF Todo
<1>. QED  BY <1>2, <1>3 DEF AnswerAtHand

(***************************************************************************)
(* A method that returns a success tells the truth at its return, while it *)
(* still holds the lock: the record is what the store holds, in a status   *)
(* the caller asked for.                                                   *)
(***************************************************************************)
THEOREM AnswersAlwaysHold == Spec => []AnswersHold
<1>. QED  BY AnswersAtHand, StepsInvHolds, PTL

-----------------------------------------------------------------------------
(* What a reader sees is progress *)

(***************************************************************************)
(* A method writes nothing before its first store call.                    *)
(***************************************************************************)
LEMMA BeginWritesNothing ==
    ASSUME NEW t \in Threads, Begin(t)
    PROVE  UNCHANGED store
<1>1. ASSUME NEW c, Enter(t, c) PROVE UNCHANGED store
  BY <1>1 DEF Enter
<1>2. ASSUME NEW c, NEW message, EnterSending(t, c, message)
      PROVE  UNCHANGED store
  BY <1>2, <1>1 DEF EnterSending
<1>3. ASSUME NEW err, Refuse(t, err) PROVE UNCHANGED store
  BY <1>3, <1>1 DEF Refuse
<1>4. ASSUME NEW c, Repeat(t, c) PROVE UNCHANGED store
  BY <1>4, <1>1 DEF Repeat
<1>5. CASE InitiateBlackStart(t)
  BY <1>1, <1>4, <1>5 DEF InitiateBlackStart
<1>6. ASSUME NEW id, UnknownBlackStart(t, id) PROVE UNCHANGED store
  BY <1>3, <1>6 DEF UnknownBlackStart
<1>7. ASSUME NEW id, StartBlackStart(t, id) PROVE UNCHANGED store
  BY <1>2, <1>3, <1>4, <1>7 DEF StartBlackStart
<1>8. ASSUME NEW id, NEW status, FailBlackStart(t, id, status)
      PROVE  UNCHANGED store
  BY <1>2, <1>8 DEF FailBlackStart
<1>9. ASSUME NEW id, RestoreBus(t, id) PROVE UNCHANGED store
  BY <1>2, <1>3, <1>4, <1>8, <1>9 DEF RestoreBus
<1>10. ASSUME NEW id, RequestGridConnection(t, id) PROVE UNCHANGED store
  BY <1>2, <1>3, <1>10 DEF RequestGridConnection
<1>11. ASSUME NEW id, CompleteBlackStart(t, id) PROVE UNCHANGED store
  BY <1>1, <1>3, <1>4, <1>11 DEF CompleteBlackStart
<1>12. ASSUME NEW id, ReportNetworkInterrupt(t, id) PROVE UNCHANGED store
  BY <1>1, <1>12 DEF ReportNetworkInterrupt
<1>13. ASSUME NEW id, RestoreNetwork(t, id) PROVE UNCHANGED store
  BY <1>1, <1>13 DEF RestoreNetwork
<1>14. ASSUME NEW g, UnknownGridConn(t, g) PROVE UNCHANGED store
  BY <1>3, <1>14 DEF UnknownGridConn
<1>15. ASSUME NEW g, NEW party, SignGridConnection(t, g, party)
       PROVE  UNCHANGED store
  BY <1>1, <1>3, <1>4, <1>15 DEF SignGridConnection
<1>16. ASSUME NEW g, SynchronizeGrid(t, g) PROVE UNCHANGED store
  BY <1>2, <1>3, <1>4, <1>16 DEF SynchronizeGrid
<1>17. CASE ResendPendingSMS(t)
  BY <1>1, <1>17 DEF ResendPendingSMS
<1>. QED
  BY <1>5, <1>6, <1>7, <1>8, <1>9, <1>10, <1>11, <1>12, <1>13, <1>14, <1>15,
     <1>16, <1>17 DEF Begin

(***************************************************************************)
(* Putting a record in a collection moves the status of what was there as  *)
(* its table permits, and keeps its links.                                 *)
(***************************************************************************)
LEMMA PutProgress ==
    ASSUME StepsInv, NEW t \in Threads, PutBlackStart(t) \/ PutGridConn(t)
    PROVE  BS!StatusChangesPermitted /\ LinksKept
<1>1. PICK c : c = call[t]
  OBVIOUS
<1>2. call[t] # Idle
  BY DEF PutBlackStart, PutGridConn, At, Idle
<1>3. AtHand(c)
  BY <1>1, <1>2, AtWorkIs DEF StepsInv
<1>4. c.left \in Plans /\ c.left # <<>>
  BY <1>1, <1>3 DEF AtHand, PutBlackStart, PutGridConn, At
<1>5. CASE PutBlackStart(t)
  <2>1. /\ UNCHANGED gridConns
        /\ \A b \in DOMAIN blackStarts :
              b # c.id => blackStarts'[b] = blackStarts[b]
        /\ blackStarts'[c.id] = c.bs
    BY <1>1, <1>5 DEF PutBlackStart, Put
  <2>2. "PutBlackStart" \in Todo(c)
    <3>1. Head(c.left) = "PutBlackStart"
      BY <1>1, <1>5 DEF PutBlackStart, At
    <3>. QED  BY <1>4, <3>1, PlanCalls
  <2>3. c.id \in DOMAIN blackStarts =>
           Moved(blackStarts[c.id].status, c.bs.status)
    BY <1>3, <2>2 DEF AtHand, BlackStartAtHand
  <2>4. \A from, to : Moved(from, to) /\ from # to
                         => BlackStartCanTransition(from, to)
    BY BlackStartTable DEF Moved
  <2>5. ASSUME NEW b \in DOMAIN blackStarts,
               blackStarts[b].status # blackStarts'[b].status
        PROVE  BlackStartCanTransition(blackStarts[b].status,
                                       blackStarts'[b].status)
    <3>1. b = c.id
      BY <2>1, <2>5
    <3>2. Moved(blackStarts[b].status, blackStarts'[b].status)
      BY <2>1, <2>3, <3>1
    <3>. QED  BY <2>4, <2>5, <3>2
  <2>6. \A g \in DOMAIN gridConns : gridConns'[g].status = gridConns[g].status
    BY <2>1
  <2>7. \A b \in DOMAIN blackStarts :
           LET from == blackStarts[b].status
               to == blackStarts'[b].status
           IN from # to => BS!BlackStartCanTransition(from, to)
    BY <2>5, BSTables
  <2>8. \A g \in DOMAIN gridConns :
           LET from == gridConns[g].status
               to == gridConns'[g].status
           IN from # to => BS!GridConnCanTransition(from, to)
    BY <2>6
  <2>9. c.id \in DOMAIN blackStarts =>
           c.bs.smsMessageIDs = blackStarts[c.id].smsMessageIDs
    BY <1>3, <2>2 DEF AtHand, BlackStartAtHand
  <2>10. LinksKept
    BY <2>1, <2>9 DEF LinksKept
  <2>. QED  BY <2>7, <2>8, <2>10 DEF BS!StatusChangesPermitted
<1>6. CASE PutGridConn(t)
  <2>1. /\ UNCHANGED blackStarts
        /\ \A g \in DOMAIN gridConns :
              g # c.gcID => gridConns'[g] = gridConns[g]
        /\ gridConns'[c.gcID] = c.gc
    BY <1>1, <1>6 DEF PutGridConn, Put
  <2>2. "PutGridConn" \in Todo(c)
    <3>1. Head(c.left) = "PutGridConn"
      BY <1>1, <1>6 DEF PutGridConn, At
    <3>. QED  BY <1>4, <3>1, PlanCalls
  <2>3. c.gcID \in DOMAIN gridConns =>
           \/ gridConns[c.gcID].status = c.gc.status
           \/ GridConnCanTransition(gridConns[c.gcID].status, c.gc.status)
    BY <1>3, <2>2 DEF AtHand, ConnectionAtHand
  <2>. QED
    BY <2>1, <2>3, BSTables DEF BS!StatusChangesPermitted, LinksKept
<1>. QED  BY <1>5, <1>6

(***************************************************************************)
(* Linking a message leaves the status of the black start and its other    *)
(* links as it finds them.                                                 *)
(***************************************************************************)
LEMMA LinkProgress ==
    ASSUME StepsInv, NEW t \in Threads, LinkSMS(t)
    PROVE  BS!StatusChangesPermitted /\ LinksKept
<1>1. PICK id, linked :
         /\ id = call[t].id
         /\ linked = [blackStarts[id] EXCEPT
                         !.smsMessageIDs = @ \cup {call[t].msgID}]
  OBVIOUS
<1>2. /\ UNCHANGED gridConns
      /\ blackStarts' = Put(blackStarts, id, linked)
  BY <1>1 DEF LinkSMS
<1>3. id \in DOMAIN blackStarts =>
         /\ linked.status = blackStarts[id].status
         /\ blackStarts[id].smsMessageIDs \subseteq linked.smsMessageIDs
  BY <1>1, StoredBlackStart DEF BS!BlackStartRecord
<1>4. \A b \in DOMAIN blackStarts :
         /\ blackStarts'[b].status = blackStarts[b].status
         /\ blackStarts[b].smsMessageIDs \subseteq blackStarts'[b].smsMessageIDs
  BY <1>2, <1>3 DEF Put
<1>. QED  BY <1>2, <1>4 DEF BS!StatusChangesPermitted, LinksKept

(***************************************************************************)
(* No step undoes what an earlier one wrote.                               *)
(***************************************************************************)
LEMMA NextProgress ==
    ASSUME StepsInv, Next
    PROVE  BS!StatusChangesPermitted /\ LinksKept
<1>1. CASE UNCHANGED <<blackStarts, gridConns>>
  BY <1>1 DEF BS!StatusChangesPermitted, LinksKept
<1>2. ASSUME NEW t \in Threads, Begin(t)
      PROVE  UNCHANGED <<blackStarts, gridConns>>
  BY <1>2, BeginWritesNothing DEF store
<1>3. ASSUME NEW t \in Threads, Proceed(t)
      PROVE  BS!StatusChangesPermitted /\ LinksKept
  <2>1. CASE PutBlackStart(t) \/ PutGridConn(t)
    BY <2>1, PutProgress
  <2>2. CASE LinkSMS(t)
    BY <2>2, LinkProgress
  <2>3. CASE UNCHANGED <<blackStarts, gridConns>>
    BY <1>1, <2>3
  <2>. QED
    BY <1>3, <2>1, <2>2, <2>3
       DEF Proceed, ListLoads, PutLoad, SaveSMS, PutSMS, RetrySMS, LoopEnds,
           Return, store
<1>4. CASE Tick \/ \E l \in LoadIDs, load \in BS!Load : RegisterLoad(l, load)
  BY <1>1, <1>4 DEF Tick, RegisterLoad, store
<1>. QED  BY <1>1, <1>2, <1>3, <1>4 DEF Next

(***************************************************************************)
(* Who polls a record sees it move as its table permits and never back,    *)
(* and the list of messages of a black start never loses one.              *)
(***************************************************************************)
THEOREM ReadersAlwaysSeeProgress == Spec => ReadersSeeProgress
<1>1. StepsInv /\ [Next]_vars => [BS!StatusChangesPermitted /\ LinksKept]_vars
  BY NextProgress
<1>. QED  BY <1>1, StepsInvHolds, PTL DEF Spec, ReadersSeeProgress

-----------------------------------------------------------------------------
(* The outbox follows the connections *)

(***************************************************************************)
(* A call that has an instruction about a connection still to file, and    *)
(* one whose connection is in the store already.                           *)
(***************************************************************************)
Telling(c) == "SaveSMS" \in Todo(c) /\ c.message \in DOMAIN ConnectionEarns

Owing(c) == Telling(c) /\ "PutGridConn" \notin Todo(c)

(***************************************************************************)
(* The connection a call is going to tell of has yet to earn it, and does  *)
(* when the call writes it.                                                *)
(***************************************************************************)
NewsAtHand(c) ==
    Telling(c) /\ "PutGridConn" \in Todo(c) =>
        /\ c.gc.status \in ConnectionEarns[c.message]
        /\ c.gcID \notin ConnectionsEarning(c.id, c.message)

(***************************************************************************)
(* The instructions in the outbox and the one that is owed to it.          *)
(***************************************************************************)
Owed(b, i) ==
    {m \in SMSIDs :
        \E c \in AtWork :
            Owing(c) /\ c.id = b /\ c.message = i /\ m = c.msgID}

Tellings(b, i) == InstructionsOf(b, i) \cup Owed(b, i)

(***************************************************************************)
(* Why no instruction outruns its connection: between the write of the     *)
(* connection and that of the instruction one is owed, which counts as     *)
(* told already.                                                           *)
(***************************************************************************)
CoveredInv ==
    /\ IsFiniteSet(DOMAIN gridConns)
    /\ IsFiniteSet(DOMAIN smsMessages)
    /\ \A c \in AtWork : NewsAtHand(c)
    /\ \A b \in BlackStartIDs, i \in DOMAIN ConnectionEarns :
          Cardinality(Tellings(b, i)) <= Cardinality(ConnectionsEarning(b, i))

(***************************************************************************)
(* Fewer things told, by more connections.                                 *)
(***************************************************************************)
LEMMA CoveredStays ==
    ASSUME NEW T, NEW T2 \in SUBSET T, NEW C2, NEW C \in SUBSET C2,
           IsFiniteSet(T), IsFiniteSet(C2), Cardinality(T) <= Cardinality(C)
    PROVE  Cardinality(T2) <= Cardinality(C2)
<1>1. /\ IsFiniteSet(T2) /\ Cardinality(T2) <= Cardinality(T)
      /\ IsFiniteSet(C) /\ Cardinality(C) <= Cardinality(C2)
  BY FS_Subset
<1>2. /\ Cardinality(T) \in Nat /\ Cardinality(T2) \in Nat
      /\ Cardinality(C) \in Nat /\ Cardinality(C2) \in Nat
  BY <1>1, FS_CardinalityType
<1>. QED  BY <1>1, <1>2

(***************************************************************************)
(* One thing more, and a connection more.                                  *)
(***************************************************************************)
LEMMA CoveredAgain ==
    ASSUME NEW T, NEW m, NEW T2 \in SUBSET (T \cup {m}),
           NEW C, NEW g, g \notin C, NEW C2, C \cup {g} \subseteq C2,
           IsFiniteSet(T), IsFiniteSet(C2), Cardinality(T) <= Cardinality(C)
    PROVE  Cardinality(T2) <= Cardinality(C2)
<1>1. C \cup {g} \in SUBSET C2 /\ C \in SUBSET C2
  OBVIOUS
<1>2. IsFiniteSet(C) /\ IsFiniteSet(C \cup {g})
  BY <1>1, FS_Subset
<1>3. Cardinality(C \cup {g}) = Cardinality(C) + 1
  BY <1>2, FS_AddElement
<1>4. /\ IsFiniteSet(T \cup {m})
      /\ \/ Cardinality(T \cup {m}) = Cardinality(T)
         \/ Cardinality(T \cup {m}) = Cardinality(T) + 1
  BY FS_AddElement
<1>5. Cardinality(T) \in Nat /\ Cardinality(C) \in Nat
  BY <1>2, FS_CardinalityType
<1>6. Cardinality(T \cup {m}) <= Cardinality(C \cup {g})
  BY <1>3, <1>4, <1>5
<1>. QED  BY <1>1, <1>2, <1>4, <1>6, CoveredStays

(***************************************************************************)
(* What is told about a black start is finite, as are its connections.     *)
(***************************************************************************)
LEMMA TellingsFinite ==
    ASSUME CoveredInv, NEW b, NEW i
    PROVE  IsFiniteSet(Tellings(b, i))
<1>1. Owed(b, i) \in SUBSET {call[mu].msgID}
  BY DEF Owed, AtWork
<1>2. IsFiniteSet(Owed(b, i))
  BY <1>1, FS_Singleton, FS_Subset
<1>3. InstructionsOf(b, i) \in SUBSET DOMAIN smsMessages
  BY DEF InstructionsOf
<1>4. IsFiniteSet(InstructionsOf(b, i))
  BY <1>3, FS_Subset DEF CoveredInv
<1>. QED  BY <1>2, <1>4, FS_Union DEF Tellings

(***************************************************************************)
(* A connection that is synchronized can only be completed.                *)
(***************************************************************************)
LEMMA SynchronizedStays ==
    ASSUME NEW from \in {"synchronized", "completed"}, NEW to,
           GridConnCanTransition(from, to)
    PROVE  to = "completed"
  BY DEF GridConnCanTransition, gridConnTransitions

(***************************************************************************)
(* What a connection has earned it has earned for good.                    *)
(***************************************************************************)
LEMMA EarningGrows ==
    ASSUME StepsInv, Next, NEW b, NEW i \in DOMAIN ConnectionEarns
    PROVE  ConnectionsEarning(b, i) \subseteq ConnectionsEarning(b, i)'
<1>1. StepsInv' /\ BS!StatusChangesPermitted
  BY NextProgress, StepsInvNext
<1>2. ASSUME NEW g \in DOMAIN gridConns
      PROVE  /\ g \in DOMAIN gridConns'
             /\ gridConns'[g].blackStartID = gridConns[g].blackStartID
  <2>1. CASE UNCHANGED gridConns
    BY <2>1
  <2>2. ASSUME NEW t \in Threads, PutGridConn(t)
        PROVE  /\ g \in DOMAIN gridConns'
               /\ gridConns'[g].blackStartID = gridConns[g].blackStartID
    <3>1. PICK c : c = call[t]
      OBVIOUS
    <3>2. c.left # <<>> /\ Head(c.left) = "PutGridConn" /\ c # Idle
      BY <2>2, <3>1 DEF PutGridConn, At, Idle
    <3>3. AtHand(c) /\ c.left \in Plans
      BY <3>1, <3>2, AtWorkIs DEF StepsInv, AtHand
    <3>4. "PutGridConn" \in Todo(c)
      BY <3>2, <3>3, PlanCalls
    <3>5. /\ c.gc.blackStartID = c.id
          /\ c.gcID \in DOMAIN gridConns =>
                gridConns[c.gcID].blackStartID = c.id
      BY <3>3, <3>4 DEF AtHand, ConnectionAtHand
    <3>6. gridConns' = Put(gridConns, c.gcID, c.gc)
      BY <2>2, <3>1 DEF PutGridConn
    <3>. QED  BY <3>5, <3>6 DEF Put
  <2>3. ASSUME NEW t \in Threads, Begin(t) PROVE UNCHANGED gridConns
    BY <2>3, BeginWritesNothing DEF store
  <2>4. ASSUME NEW t \in Threads, Proceed(t), ~PutGridConn(t)
        PROVE  UNCHANGED gridConns
    BY <2>4 DEF Proceed, PutBlackStart, ListLoads, PutLoad, SaveSMS, PutSMS,
                LinkSMS, RetrySMS, LoopEnds, Return, store
  <2>5. CASE Tick \/ \E l \in LoadIDs, load \in BS!Load : RegisterLoad(l, load)
    BY <2>5 DEF Tick, RegisterLoad, store
  <2>. QED  BY <2>1, <2>2, <2>3, <2>4, <2>5 DEF Next
<1>3. ASSUME NEW g \in ConnectionsEarning(b, i)
      PROVE  g \in ConnectionsEarning(b, i)'
  <2>1. /\ g \in DOMAIN gridConns
        /\ gridConns[g].blackStartID = b
        /\ gridConns[g].status \in ConnectionEarns[i]
    BY DEF ConnectionsEarning
  <2>2. /\ g \in DOMAIN gridConns'
        /\ gridConns'[g].blackStartID = b
    BY <1>2, <2>1
  <2>3. gridConns'[g].status \in GridConnStatus
    BY <1>1, <2>2, BSTables DEF StepsInv, TypeOK, BS!TypeOK, BS!GridConnection
  <2>4. \/ gridConns'[g].status = gridConns[g].status
        \/ GridConnCanTransition(gridConns[g].status, gridConns'[g].status)
    BY <1>1, <2>1, BSTables DEF BS!StatusChangesPermitted
  <2>5. gridConns'[g].status \in ConnectionEarns[i]
    <3>1. CASE i = "GRID_SYNC_REQUEST"
      BY <2>3, <3>1 DEF ConnectionEarns
    <3>2. CASE i = "GRID_SYNCHRONIZED"
      BY <2>1, <2>4, <3>2, SynchronizedStays DEF ConnectionEarns
    <3>. QED  BY <3>1, <3>2 DEF ConnectionEarns
  <2>. QED  BY <2>2, <2>5 DEF ConnectionsEarning
<1>. QED  BY <1>3

(***************************************************************************)
(* What a call has at hand about a connection when it has just begun.      *)
(***************************************************************************)
BegunWell(c) == ~Owing(c) /\ NewsAtHand(c)

(***************************************************************************)
(* Who enters is at work.                                                  *)
(***************************************************************************)
LEMMA EnterWork ==
    ASSUME StepsInv, NEW t \in Threads, NEW c, Enter(t, c)
    PROVE  AtWork' = {c} /\ UNCHANGED store
<1>1. mu' = t /\ call' = [call EXCEPT ![t] = c] /\ UNCHANGED store
  BY DEF Enter
<1>2. call'[t] = c
  BY <1>1 DEF StepsInv, TypeOK
<1>. QED  BY <1>1, <1>2 DEF AtWork

(***************************************************************************)
(* A call that has nothing to say about a connection.                      *)
(***************************************************************************)
LEMMA SilentBegin ==
    ASSUME StepsInv, NEW t \in Threads, NEW c, Enter(t, c),
           "SaveSMS" \notin Todo(c)
             \/ c.message \notin {"GRID_SYNC_REQUEST", "GRID_SYNCHRONIZED"}
    PROVE  \A d \in AtWork' : BegunWell(d)
<1>1. ~Telling(c)
  BY DEF Telling, ConnectionEarns
<1>. QED  BY <1>1, EnterWork DEF BegunWell, Owing, NewsAtHand

(***************************************************************************)
(* A call that is refused or repeated writes nothing at all.               *)
(***************************************************************************)
LEMMA NothingBegun ==
    ASSUME StepsInv, NEW t \in Threads,
           \/ \E err : Refuse(t, err)
           \/ \E id, method, status :
                 \/ Repeat(t, [About(id, method, <<>>) EXCEPT !.status = status])
                 \/ Repeat(t, About(id, method, <<>>))
                 \/ Repeat(t, AboutConn(id, method, <<>>))
    PROVE  \A d \in AtWork' : BegunWell(d)
<1>1. ASSUME NEW c, Enter(t, c), c.left = <<>>
      PROVE  \A d \in AtWork' : BegunWell(d)
  <2>1. Todo(c) = {}
    BY <1>1, BeginningPlans
  <2>. QED  BY <1>1, <2>1, SilentBegin
<1>2. ASSUME NEW err, Refuse(t, err)
      PROVE  \A d \in AtWork' : BegunWell(d)
  <2>1. [Idle EXCEPT !.status = WriteError(err)].left = <<>>
    BY DEF Idle
  <2>. QED  BY <1>1, <1>2, <2>1 DEF Refuse
<1>3. ASSUME NEW id, NEW method, NEW status,
             Repeat(t, [About(id, method, <<>>) EXCEPT !.status = status])
      PROVE  \A d \in AtWork' : BegunWell(d)
  <2>1. PICK c : c = [[About(id, method, <<>>) EXCEPT !.status = status]
                         EXCEPT !.left = <<>>]
    OBVIOUS
  <2>2. c.left = <<>>
    BY <2>1 DEF About, Idle
  <2>. QED  BY <1>1, <1>3, <2>1, <2>2 DEF Repeat
<1>4. ASSUME NEW id, NEW method, Repeat(t, About(id, method, <<>>))
      PROVE  \A d \in AtWork' : BegunWell(d)
  <2>1. PICK c : c = [About(id, method, <<>>) EXCEPT !.left = <<>>]
    OBVIOUS
  <2>2. c.left = <<>>
    BY <2>1 DEF About, Idle
  <2>. QED  BY <1>1, <1>4, <2>1, <2>2 DEF Repeat
<1>5. ASSUME NEW id, NEW method, Repeat(t, AboutConn(id, method, <<>>))
      PROVE  \A d \in AtWork' : BegunWell(d)
  <2>1. PICK c : c = [AboutConn(id, method, <<>>) EXCEPT !.left = <<>>]
    OBVIOUS
  <2>2. c.left = <<>>
    BY <2>1 DEF AboutConn, Idle
  <2>. QED  BY <1>1, <1>5, <2>1, <2>2 DEF Repeat
<1>. QED  BY <1>2, <1>3, <1>4, <1>5

(***************************************************************************)
(* An instruction about the black start itself.                            *)
(***************************************************************************)
LEMMA OwnNews ==
    ASSUME StepsInv, NEW t \in Threads, NEW method, NEW left, NEW id, NEW bs,
           NEW old, NEW gcID, NEW gc, NEW status, NEW message,
           message \notin {"GRID_SYNC_REQUEST", "GRID_SYNCHRONIZED"},
           EnterSending(t, Made(method, left, id, bs, old, gcID, gc, None,
                                None, {}, status), message)
    PROVE  \A d \in AtWork' : BegunWell(d)
<1>1. PICK m \in SMSIDs, accepted \in SUBSET SMSIDs :
         Enter(t, Made(method, left, id, bs, old, gcID, gc, message, m,
                       accepted, status))
  BY SendingIs
<1>2. PICK c : c = Made(method, left, id, bs, old, gcID, gc, message, m,
                        accepted, status)
  OBVIOUS
<1>3. c.message = message
  BY <1>2 DEF Made
<1>. QED  BY <1>1, <1>2, <1>3, SilentBegin

(***************************************************************************)
(* An instruction about a connection that has not earned it yet, and will  *)
(* when the call writes it.                                                *)
(***************************************************************************)
LEMMA ConnectionNews ==
    ASSUME StepsInv, NEW t \in Threads, NEW method,
           NEW left \in {RequestWrites, SynchronizeWrites}, NEW id, NEW bs,
           NEW old, NEW gcID, NEW gc, NEW status,
           NEW message \in DOMAIN ConnectionEarns,
           gc.status \in ConnectionEarns[message],
           gcID \notin ConnectionsEarning(id, message),
           EnterSending(t, Made(method, left, id, bs, old, gcID, gc, None,
                                None, {}, status), message)
    PROVE  \A d \in AtWork' : BegunWell(d)
<1>1. PICK m \in SMSIDs, accepted \in SUBSET SMSIDs :
         Enter(t, Made(method, left, id, bs, old, gcID, gc, message, m,
                       accepted, status))
  BY SendingIs
<1>2. PICK c : c = Made(method, left, id, bs, old, gcID, gc, message, m,
                        accepted, status)
  OBVIOUS
<1>3. /\ c.message = message /\ c.left = left /\ c.id = id /\ c.gcID = gcID
      /\ c.gc = gc
  BY <1>2 DEF Made
<1>4. "PutGridConn" \in Todo(c)
  BY <1>3, BeginningPlans
<1>5. BegunWell(c)
  BY <1>3, <1>4 DEF BegunWell, Owing, NewsAtHand
<1>6. AtWork' = {c}
  BY <1>1, <1>2, EnterWork
<1>. QED  BY <1>5, <1>6

(***************************************************************************)
(* Whatever method a thread calls.                                         *)
(***************************************************************************)
LEMMA BeginNews ==
    ASSUME StepsInv, NEW t \in Threads, Begin(t)
    PROVE  \A d \in AtWork' : BegunWell(d)
<1>1. CASE InitiateBlackStart(t)
  <2>1. ASSUME Enter(t, [Idle EXCEPT !.method = "Initiate",
                                     !.left = <<"PutBlackStart">>,
                                     !.id = Fresh(BlackStartIDs, blackStarts),
                                     !.bs = BS!NewBlackStart(now),
                                     !.status = Created])
        PROVE  \A d \in AtWork' : BegunWell(d)
    <3>1. PICK c : c = [Idle EXCEPT !.method = "Initiate",
                                    !.left = <<"PutBlackStart">>,
                                    !.id = Fresh(BlackStartIDs, blackStarts),
                                    !.bs = BS!NewBlackStart(now),
                                    !.status = Created]
      OBVIOUS
    <3>2. c.left = <<"PutBlackStart">>
      BY <3>1 DEF Idle
    <3>3. Todo(c) = {"PutBlackStart"}
      BY <3>2, BeginningPlans
    <3>. QED  BY <2>1, <3>1, <3>3, SilentBegin
  <2>. QED  BY <1>1, <2>1, NothingBegun DEF InitiateBlackStart
<1>2. ASSUME NEW id, UnknownBlackStart(t, id)
      PROVE  \A d \in AtWork' : BegunWell(d)
  BY <1>2, NothingBegun DEF UnknownBlackStart
<1>3. ASSUME NEW id, NEW status, FailBlackStart(t, id, status)
      PROVE  \A d \in AtWork' : BegunWell(d)
  <2>1. PICK bs, c :
           /\ bs = [blackStarts[id] EXCEPT !.status = "failed"]
           /\ c = [Moving(id, "Fail", MoveAndTell, "failed")
                      EXCEPT !.status = status]
    OBVIOUS
  <2>2. c = Made("Fail", MoveAndTell, id, bs, blackStarts[id], None, None,
                 None, None, {}, status)
    BY <2>1 DEF Moving, About, Idle, Made
  <2>3. EnterSending(t, c, "BLACK_START_FAILED")
    BY <1>3, <2>1 DEF FailBlackStart
  <2>. QED  BY <2>2, <2>3, OwnNews
<1>4. ASSUME NEW id, StartBlackStart(t, id)
      PROVE  \A d \in AtWork' : BegunWell(d)
  <2>1. PICK bs, c :
           /\ bs = [blackStarts[id] EXCEPT !.status = "in_progress"]
           /\ c = Moving(id, "Start", MoveAndTell, "in_progress")
    OBVIOUS
  <2>2. c = Made("Start", MoveAndTell, id, bs, blackStarts[id], None, None,
                 None, None, {}, OK)
    BY <2>1 DEF Moving, About, Idle, Made
  <2>3. CASE EnterSending(t, c, "BLACK_START_BEGIN")
    BY <2>2, <2>3, OwnNews
  <2>. QED  BY <1>4, <2>1, <2>3, NothingBegun DEF StartBlackStart
<1>5. ASSUME NEW id, RestoreBus(t, id)
      PROVE  \A d \in AtWork' : BegunWell(d)
  <2>1. PICK bs, c :
           /\ bs = [blackStarts[id] EXCEPT !.status = "bus_restored",
                                           !.busRestoredAt = now]
           /\ c = [Moving(id, "RestoreBus", MoveAndTell, "bus_restored")
                      EXCEPT !.bs.busRestoredAt = now]
    OBVIOUS
  <2>2. c = Made("RestoreBus", MoveAndTell, id, bs, blackStarts[id], None,
                 None, None, None, {}, OK)
    BY <2>1 DEF Moving, About, Idle, Made
  <2>3. CASE EnterSending(t, c, "BUS_RESTORED")
    BY <2>2, <2>3, OwnNews
  <2>. QED  BY <1>3, <1>5, <2>1, <2>3, NothingBegun DEF RestoreBus
<1>6. ASSUME NEW id, RequestGridConnection(t, id)
      PROVE  \A d \in AtWork' : BegunWell(d)
  <2>1. PICK g, gc : /\ g = Fresh(GridConnIDs, gridConns)
                     /\ gc = [blackStartID |-> id, status |-> "requested",
                              signed |-> {}]
    OBVIOUS
  <2>2. PICK bs : bs = BS!Syncing(blackStarts[id], g)
    OBVIOUS
  <2>3. PICK c : c = [About(id, "Request", RequestWrites) EXCEPT
                         !.bs = BS!Syncing(@, g), !.gcID = g, !.gc = gc,
                         !.status = Created]
    OBVIOUS
  <2>4. c = Made("Request", RequestWrites, id, bs, blackStarts[id], g, gc,
                 None, None, {}, Created)
    BY <2>2, <2>3 DEF About, Idle, Made
  <2>5. CASE /\ HasFresh(GridConnIDs, gridConns)
             /\ EnterSending(t, c, "GRID_SYNC_REQUEST")
    <3>1. g \notin ConnectionsEarning(id, "GRID_SYNC_REQUEST")
      BY <2>1, <2>5, FreshIs DEF ConnectionsEarning
    <3>2. gc.status \in ConnectionEarns["GRID_SYNC_REQUEST"]
      BY <2>1, GridConnTable DEF ConnectionEarns
    <3>. QED
      BY <2>4, <2>5, <3>1, <3>2, ConnectionNews DEF ConnectionEarns
  <2>. QED
    BY <1>6, <2>1, <2>3, <2>5, NothingBegun DEF RequestGridConnection
<1>7. ASSUME NEW id, CompleteBlackStart(t, id)
      PROVE  \A d \in AtWork' : BegunWell(d)
  <2>1. PICK g : g = blackStarts[id].gridConnID
    OBVIOUS
  <2>2. PICK c : c = [Moving(id, "Complete", CompleteWrites, "completed")
                         EXCEPT !.gcID = g,
                                !.gc = [gridConns[g] EXCEPT
                                           !.status = "completed"]]
    OBVIOUS
  <2>3. CASE Enter(t, c)
    <3>1. Todo(c) = {"PutBlackStart", "PutGridConn"}
      BY <2>2, BeginningPlans DEF Moving, About, Idle
    <3>. QED  BY <2>3, <3>1, SilentBegin
  <2>. QED
    BY <1>7, <2>1, <2>2, <2>3, NothingBegun DEF CompleteBlackStart
<1>8. ASSUME NEW id, ReportNetworkInterrupt(t, id)
      PROVE  \A d \in AtWork' : BegunWell(d)
  <2>1. PICK c : c = [About(id, "ReportInterrupt", <<"PutBlackStart">>)
                         EXCEPT !.bs.networkInterrupted = TRUE]
    OBVIOUS
  <2>2. c.left = <<"PutBlackStart">>
    BY <2>1 DEF About, Idle
  <2>3. Todo(c) = {"PutBlackStart"}
    BY <2>2, BeginningPlans
  <2>. QED  BY <1>8, <2>1, <2>3, SilentBegin DEF ReportNetworkInterrupt
<1>9. ASSUME NEW id, RestoreNetwork(t, id)
      PROVE  \A d \in AtWork' : BegunWell(d)
  <2>1. PICK accepted :
           Enter(t, [About(id, "RestoreNetwork",
                           <<"PutBlackStart", "RetrySMS">>)
                        EXCEPT !.bs.networkInterrupted = FALSE,
                               !.accepted = accepted])
    BY <1>9 DEF RestoreNetwork
  <2>2. PICK c : c = [About(id, "RestoreNetwork",
                            <<"PutBlackStart", "RetrySMS">>)
                         EXCEPT !.bs.networkInterrupted = FALSE,
                                !.accepted = accepted]
    OBVIOUS
  <2>3. c.left = <<"PutBlackStart", "RetrySMS">>
    BY <2>2 DEF About, Idle
  <2>4. Todo(c) = {"PutBlackStart", "RetrySMS"}
    BY <2>3, BeginningPlans
  <2>. QED  BY <2>1, <2>2, <2>4, SilentBegin
<1>10. ASSUME NEW g, UnknownGridConn(t, g)
       PROVE  \A d \in AtWork' : BegunWell(d)
  BY <1>10, NothingBegun DEF UnknownGridConn
<1>11. ASSUME NEW g, NEW party, SignGridConnection(t, g, party)
       PROVE  \A d \in AtWork' : BegunWell(d)
  <2>1. ASSUME NEW signed,
               Enter(t, [AboutConn(g, "Sign", <<"PutGridConn">>) EXCEPT
                            !.gc.signed = signed,
                            !.gc.status = BS!StatusOfSignatures(signed)])
        PROVE  \A d \in AtWork' : BegunWell(d)
    <3>1. PICK c : c = [AboutConn(g, "Sign", <<"PutGridConn">>) EXCEPT
                           !.gc.signed = signed,
                           !.gc.status = BS!StatusOfSignatures(signed)]
      OBVIOUS
    <3>2. c.left = <<"PutGridConn">>
      BY <3>1 DEF AboutConn, Idle
    <3>3. Todo(c) = {"PutGridConn"}
      BY <3>2, BeginningPlans
    <3>. QED  BY <2>1, <3>1, <3>3, SilentBegin
  <2>. QED  BY <1>11, <2>1, NothingBegun DEF SignGridConnection
<1>12. ASSUME NEW g \in DOMAIN gridConns, SynchronizeGrid(t, g)
       PROVE  \A d \in AtWork' : BegunWell(d)
  <2>1. PICK id, gc : /\ id = gridConns[g].blackStartID
                      /\ gc = [gridConns[g] EXCEPT !.status = "synchronized"]
    OBVIOUS
  <2>2. PICK c : c = [AboutConn(g, "Synchronize", SynchronizeWrites)
                         EXCEPT !.gc.status = "synchronized"]
    OBVIOUS
  <2>3. c = Made("Synchronize", SynchronizeWrites, id, None, None, g, gc,
                 None, None, {}, OK)
    BY <2>1, <2>2 DEF AboutConn, Idle, Made
  <2>4. CASE /\ GridConnCanTransition(gridConns[g].status, "synchronized")
             /\ EnterSending(t, c, "GRID_SYNCHRONIZED")
    <3>1. gridConns[g].status = "dual_signed"
      BY <2>4, StoredGridConn, GridConnTable
    <3>2. g \notin ConnectionsEarning(id, "GRID_SYNCHRONIZED")
      BY <3>1 DEF ConnectionsEarning, ConnectionEarns
    <3>3. gc.status \in ConnectionEarns["GRID_SYNCHRONIZED"]
      BY <2>1, StoredGridConn DEF ConnectionEarns, BS!GridConnection
    <3>. QED
      BY <2>3, <2>4, <3>2, <3>3, ConnectionNews DEF ConnectionEarns
  <2>. QED  BY <1>12, <2>2, <2>4, NothingBegun DEF SynchronizeGrid
<1>13. CASE ResendPendingSMS(t)
  <2>1. PICK accepted :
           Enter(t, [Idle EXCEPT !.method = "Resend", !.left = <<"RetrySMS">>,
                                 !.accepted = accepted])
    BY <1>13 DEF ResendPendingSMS
  <2>2. PICK c : c = [Idle EXCEPT !.method = "Resend", !.left = <<"RetrySMS">>,
                                  !.accepted = accepted]
    OBVIOUS
  <2>3. c.left = <<"RetrySMS">>
    BY <2>2 DEF Idle
  <2>4. Todo(c) = {"RetrySMS"}
    BY <2>3, BeginningPlans
  <2>. QED  BY <2>1, <2>2, <2>4, SilentBegin
<1>. QED
  BY <1>1, <1>2, <1>3, <1>4, <1>5, <1>6, <1>7, <1>8, <1>9, <1>10, <1>11,
     <1>12, <1>13 DEF Begin

(***************************************************************************)
(* The holder of the lock goes on, one store call further or in the middle *)
(* of a loop.                                                              *)
(***************************************************************************)
GoneOn(t, c, d) ==
    /\ c = call[t]
    /\ AtWork = {c}
    /\ AtWork' = {d}
    /\ AtHand(c)
    /\ c.left # <<>>
    /\ d.id = c.id /\ d.message = c.message /\ d.msgID = c.msgID
    /\ Todo(d) \subseteq Todo(c)
    /\ ~({"PutGridConn", "SaveSMS"} \subseteq Todo(d))
    /\ Head(c.left) = "SaveSMS" => "SaveSMS" \notin Todo(d)
    /\ "PutGridConn" \in Todo(c) /\ "SaveSMS" \in Todo(d)
          => Head(c.left) = "PutGridConn"

(***************************************************************************)
(* Who holds the lock and who holds it next.                               *)
(***************************************************************************)
LEMMA HolderIs ==
    ASSUME StepsInv, NEW t \in Threads, call[t].left # <<>>, mu' = mu,
           NEW d, Goto(t, d)
    PROVE  /\ AtWork = {call[t]}
           /\ AtWork' = {d}
           /\ AtHand(call[t])
           /\ call[t] \in Call
<1>1. call[t] # Idle
  BY DEF Idle
<1>2. mu = t /\ AtWork = {call[t]} /\ call[t] \in Call /\ AtHand(call[t])
  BY <1>1, AtWorkIs DEF StepsInv
<1>3. call'[t] = d
  BY DEF Goto, StepsInv, TypeOK
<1>. QED  BY <1>2, <1>3 DEF AtWork

(***************************************************************************)
(* Every step of a method but its return.                                  *)
(***************************************************************************)
LEMMA WorkGoesOn ==
    ASSUME StepsInv, NEW t \in Threads, Proceed(t), ~Return(t)
    PROVE  \E c, d : GoneOn(t, c, d)
<1>1. PICK c : c = call[t]
  OBVIOUS
<1>2. c.left # <<>> /\ mu' = mu
  BY <1>1 DEF Proceed, PutBlackStart, PutGridConn, ListLoads, PutLoad, SaveSMS,
              PutSMS, LinkSMS, RetrySMS, LoopEnds, At
<1>3. ASSUME NEW d, Goto(t, d), d.id = c.id, d.message = c.message,
             d.msgID = c.msgID,
             \/ d.left = Tail(c.left)
             \/ d.left = <<>>
             \/ d.left = c.left /\ Head(c.left) \in {"PutLoad", "RetrySMS"}
      PROVE  GoneOn(t, c, d)
  <2>1. AtWork = {c} /\ AtWork' = {d} /\ AtHand(c) /\ c.left \in Plans
    BY <1>1, <1>2, <1>3, HolderIs DEF AtHand
  <2>2. CASE d.left = Tail(c.left)
    <3>1. Todo(d) = Todo(c) \ {Head(c.left)}
      BY <1>2, <2>1, <2>2, NextInPlan
    <3>2. /\ ~({"PutGridConn", "SaveSMS"} \subseteq Todo(d))
          /\ "PutGridConn" \in Todo(c) /\ "SaveSMS" \in Todo(d)
                => Head(c.left) = "PutGridConn"
      BY <2>1, <3>1, PlanCalls
    <3>. QED  BY <1>1, <1>2, <1>3, <2>1, <3>1, <3>2 DEF GoneOn
  <2>3. CASE d.left = <<>>
    <3>1. Todo(d) = {}
      BY <2>3, BeginningPlans
    <3>. QED  BY <1>1, <1>2, <1>3, <2>1, <3>1 DEF GoneOn
  <2>4. CASE d.left = c.left /\ Head(c.left) \in {"PutLoad", "RetrySMS"}
    <3>1. Todo(d) = Todo(c)
      BY <2>4 DEF Todo
    <3>2. "PutGridConn" \notin Todo(c)
      BY <1>2, <2>1, <2>4, PlanHead
    <3>. QED  BY <1>1, <1>2, <1>3, <2>1, <2>4, <3>1, <3>2 DEF GoneOn
  <2>. QED  BY <1>3, <2>2, <2>3, <2>4
<1>4. c \in Call
  <2>1. call[t] # Idle
    BY <1>1, <1>2 DEF Idle
  <2>. QED  BY <1>1, <2>1, AtWorkIs
<1>5. CASE Done(t)
  <2>1. PICK d : d = [c EXCEPT !.left = Tail(@)]
    OBVIOUS
  <2>2. /\ d.id = c.id /\ d.message = c.message /\ d.msgID = c.msgID
        /\ d.left = Tail(c.left)
    BY <1>4, <2>1 DEF Call
  <2>. QED  BY <1>1, <1>3, <1>5, <2>1, <2>2 DEF Done
<1>6. CASE ListLoads(t)
  <2>1. PICK shedding, d :
           /\ shedding = ShedLoadsByPriority(loads, LoadPriority, 1)
           /\ d = [c EXCEPT !.left = Tail(@), !.shedding = shedding]
    OBVIOUS
  <2>2. /\ d.id = c.id /\ d.message = c.message /\ d.msgID = c.msgID
        /\ d.left = Tail(c.left)
    BY <1>4, <2>1 DEF Call
  <2>. QED  BY <1>1, <1>3, <1>6, <2>1, <2>2 DEF ListLoads
<1>7. ASSUME NEW l, PutLoad(t, l) PROVE \E d : GoneOn(t, c, d)
  <2>1. PICK d : d = [c EXCEPT !.shedding = [k \in DOMAIN @ \ {l} |-> @[k]]]
    OBVIOUS
  <2>2. /\ d.id = c.id /\ d.message = c.message /\ d.msgID = c.msgID
        /\ d.left = c.left
    BY <1>4, <2>1 DEF Call
  <2>. QED  BY <1>1, <1>3, <1>7, <2>1, <2>2 DEF PutLoad, At
<1>8. ASSUME NEW m, RetrySMS(t, m) PROVE \E d : GoneOn(t, c, d)
  <2>1. PICK d : d = [c EXCEPT !.accepted = @ \ {m}]
    OBVIOUS
  <2>2. /\ d.id = c.id /\ d.message = c.message /\ d.msgID = c.msgID
        /\ d.left = c.left
    BY <1>4, <2>1 DEF Call
  <2>. QED  BY <1>1, <1>3, <1>8, <2>1, <2>2 DEF RetrySMS, At
<1>9. CASE Goto(t, [call[t] EXCEPT !.left = <<>>])
  <2>1. PICK d : d = [c EXCEPT !.left = <<>>]
    OBVIOUS
  <2>2. /\ d.id = c.id /\ d.message = c.message /\ d.msgID = c.msgID
        /\ d.left = <<>>
    BY <1>4, <2>1 DEF Call
  <2>. QED  BY <1>1, <1>3, <1>9, <2>1, <2>2
<1>. QED
  BY <1>5, <1>6, <1>7, <1>8, <1>9
     DEF Proceed, PutBlackStart, PutGridConn, SaveSMS, PutSMS, LinkSMS, LoopEnds

(***************************************************************************)
(* Delivering a message leaves it in the outbox as the same instruction.   *)
(***************************************************************************)
LEMMA InstructionsKept ==
    ASSUME StepsInv, NEW t \in Threads, Proceed(t), ~SaveSMS(t)
    PROVE  /\ DOMAIN smsMessages' = DOMAIN smsMessages
           /\ \A b, i : InstructionsOf(b, i)' = InstructionsOf(b, i)
<1>1. ASSUME NEW m \in DOMAIN smsMessages, NEW message,
             message.blackStartID = smsMessages[m].blackStartID,
             message.instruction = smsMessages[m].instruction,
             smsMessages' = Put(smsMessages, m, message)
      PROVE  /\ DOMAIN smsMessages' = DOMAIN smsMessages
             /\ \A b, i : InstructionsOf(b, i)' = InstructionsOf(b, i)
  BY <1>1 DEF Put, InstructionsOf
<1>2. CASE UNCHANGED smsMessages
  BY <1>2 DEF InstructionsOf
<1>3. PICK c : c = call[t]
  OBVIOUS
<1>4. ASSUME c.left # <<>>
      PROVE  AtHand(c) /\ c \in Call /\ c.left \in Plans
  <2>1. c # Idle
    BY <1>4 DEF Idle
  <2>. QED  BY <1>3, <2>1, AtWorkIs DEF StepsInv, AtHand
<1>5. CASE smsMessages' = Put(smsMessages, c.msgID, Message(c, "delivered"))
           /\ At(t, "PutSMS")
  <2>1. c.left # <<>> /\ Head(c.left) = "PutSMS"
    BY <1>3, <1>5 DEF At
  <2>2. Todo(c) = {"PutSMS", "LinkSMS"}
    BY <1>4, <2>1, PlanHead
  <2>3. /\ c.msgID \in DOMAIN smsMessages
        /\ smsMessages[c.msgID] = Message(c, "pending")
    BY <1>4, <2>1, <2>2 DEF AtHand, MessageAtHand
  <2>. QED  BY <1>1, <1>5, <2>3 DEF Message
<1>6. ASSUME NEW m, RetrySMS(t, m)
      PROVE  /\ DOMAIN smsMessages' = DOMAIN smsMessages
             /\ \A b, i : InstructionsOf(b, i)' = InstructionsOf(b, i)
  <2>1. c.left # <<>> /\ Head(c.left) = "RetrySMS" /\ m \in c.accepted
    BY <1>3, <1>6 DEF RetrySMS, At
  <2>2. c.msgID = None
    BY <1>4, <2>1, PlanCalls DEF AtHand, RetryAtHand
  <2>3. m # None
    BY <1>4, <2>1, StepsAssumption DEF Call
  <2>4. m \in DOMAIN smsMessages
    BY <1>3, <2>1, <2>2, <2>3 DEF StepsInv, DeliveredOnce, BS!PendingSMS
  <2>5. PICK message : message = [smsMessages[m] EXCEPT !.status = "delivered"]
    OBVIOUS
  <2>6. /\ message.blackStartID = smsMessages[m].blackStartID
        /\ message.instruction = smsMessages[m].instruction
    BY <2>5
  <2>7. smsMessages' = Put(smsMessages, m, message)
    BY <1>6, <2>5 DEF RetrySMS
  <2>. QED  BY <1>1, <2>4, <2>6, <2>7
<1>. QED
  BY <1>2, <1>3, <1>5, <1>6
     DEF Proceed, PutBlackStart, PutGridConn, ListLoads, PutLoad, PutSMS,
         LinkSMS, LoopEnds, Return, store

(***************************************************************************)
(* What is told of after the write of a connection: at most one thing more *)
(* than before, by the call that has written it.                           *)
(***************************************************************************)
LEMMA OwedGoesOn ==
    ASSUME NEW t, NEW c, NEW d, GoneOn(t, c, d), NEW b, NEW i,
           "PutGridConn" \notin Todo(c) \/ ~(b = c.id /\ i = c.message)
             \/ "SaveSMS" \notin Todo(d)
    PROVE  Owed(b, i)' \subseteq Owed(b, i)
<1>1. Owing(d) /\ d.id = b /\ d.message = i => Owing(c)
  BY DEF GoneOn, Owing, Telling
<1>. QED  BY <1>1 DEF Owed, GoneOn

(***************************************************************************)
(* The invariant holds again when nothing more is told, or one thing by    *)
(* one connection that has just earned it.                                 *)
(***************************************************************************)
LEMMA CoveredAfter ==
    ASSUME StepsInv, CoveredInv, Next,
           IsFiniteSet(DOMAIN gridConns'), IsFiniteSet(DOMAIN smsMessages'),
           \A c \in AtWork' : NewsAtHand(c)',
           \A b \in BlackStartIDs, i \in DOMAIN ConnectionEarns :
              \/ Tellings(b, i)' \subseteq Tellings(b, i)
              \/ \E m, g :
                    /\ Tellings(b, i)' \subseteq Tellings(b, i) \cup {m}
                    /\ g \in ConnectionsEarning(b, i)'
                    /\ g \notin ConnectionsEarning(b, i)
    PROVE  CoveredInv'
<1>1. ASSUME NEW b \in BlackStartIDs, NEW i \in DOMAIN ConnectionEarns
      PROVE  Cardinality(Tellings(b, i)') <= Cardinality(ConnectionsEarning(b, i)')
  <2>1. PICK T, T2, C, C2 :
           /\ T = Tellings(b, i) /\ T2 = Tellings(b, i)'
           /\ C = ConnectionsEarning(b, i) /\ C2 = ConnectionsEarning(b, i)'
    OBVIOUS
  <2>2. C2 \in SUBSET DOMAIN gridConns'
    BY <2>1 DEF ConnectionsEarning
  <2>3. IsFiniteSet(C2)
    BY <2>2, FS_Subset
  <2>4. IsFiniteSet(T)
    BY <2>1, TellingsFinite
  <2>5. Cardinality(T) <= Cardinality(C)
    BY <2>1 DEF CoveredInv
  <2>6. C \subseteq C2
    BY <2>1, EarningGrows
  <2>7. CASE T2 \subseteq T
    <3>1. Cardinality(T2) <= Cardinality(C2)
      BY <2>3, <2>4, <2>5, <2>6, <2>7, CoveredStays
    <3>. QED  BY <2>1, <3>1
  <2>8. CASE \E m, g : T2 \subseteq T \cup {m} /\ g \in C2 /\ g \notin C
    <3>1. PICK m, g : T2 \subseteq T \cup {m} /\ g \in C2 /\ g \notin C
      BY <2>8
    <3>2. T2 \in SUBSET (T \cup {m}) /\ C \cup {g} \subseteq C2
      BY <2>6, <3>1
    <3>3. Cardinality(T2) <= Cardinality(C2)
      BY <2>3, <2>4, <2>5, <3>1, <3>2, CoveredAgain
    <3>. QED  BY <2>1, <3>3
  <2>. QED  BY <2>1, <2>7, <2>8
<1>. QED  BY <1>1 DEF CoveredInv

(***************************************************************************)
(* Nothing is told when a method begins, and nothing is owed.              *)
(***************************************************************************)
LEMMA BeginCovered ==
    ASSUME StepsInv, CoveredInv, NEW t \in Threads, Begin(t), Next
    PROVE  CoveredInv'
<1>1. UNCHANGED <<gridConns, smsMessages>>
  BY BeginWritesNothing DEF store
<1>2. \A d \in AtWork' : BegunWell(d)
  BY BeginNews
<1>3. \A d \in AtWork' : NewsAtHand(d)'
  BY <1>1, <1>2 DEF BegunWell, NewsAtHand, ConnectionsEarning
<1>4. \A b, i : Owed(b, i)' = {}
  BY <1>2 DEF BegunWell, Owed
<1>5. \A b, i : InstructionsOf(b, i)' = InstructionsOf(b, i)
  BY <1>1 DEF InstructionsOf
<1>6. \A b, i : Tellings(b, i)' \subseteq Tellings(b, i)
  BY <1>4, <1>5 DEF Tellings
<1>7. IsFiniteSet(DOMAIN gridConns') /\ IsFiniteSet(DOMAIN smsMessages')
  BY <1>1 DEF CoveredInv
<1>. QED  BY <1>3, <1>6, <1>7, CoveredAfter

(***************************************************************************)
(* What is owed is filed, or the call returns and owes nothing.            *)
(***************************************************************************)
LEMMA SaveSMSCovered ==
    ASSUME StepsInv, CoveredInv, NEW t \in Threads, SaveSMS(t), Next
    PROVE  CoveredInv'
<1>1. Proceed(t) /\ ~Return(t)
  BY DEF Proceed, SaveSMS, Return, At
<1>2. PICK c, d : GoneOn(t, c, d)
  BY <1>1, WorkGoesOn
<1>3. c = call[t] /\ Head(c.left) = "SaveSMS"
  BY <1>2 DEF GoneOn, SaveSMS, At
<1>4. Todo(c) = {"SaveSMS", "PutSMS", "LinkSMS"}
  BY <1>2, <1>3, PlanHead DEF GoneOn, AtHand
<1>5. /\ c.msgID \in SMSIDs
      /\ smsMessages' = Put(smsMessages, c.msgID, Message(c, "pending"))
      /\ UNCHANGED gridConns
  BY <1>2, <1>3, <1>4 DEF GoneOn, AtHand, MessageAtHand, SaveSMS
<1>6. DOMAIN smsMessages' = DOMAIN smsMessages \cup {c.msgID}
  BY <1>5 DEF Put
<1>7. \A d2 \in AtWork' : NewsAtHand(d2)'
  BY <1>2, <1>4 DEF GoneOn, NewsAtHand
<1>8. ASSUME NEW b, NEW i \in DOMAIN ConnectionEarns
      PROVE  Tellings(b, i)' \subseteq Tellings(b, i)
  <2>1. Owed(b, i)' \subseteq Owed(b, i)
    BY <1>2, <1>4, OwedGoesOn
  <2>2. ASSUME NEW m \in InstructionsOf(b, i)', m \notin InstructionsOf(b, i)
        PROVE  m \in Owed(b, i)
    <3>1. m = c.msgID /\ b = c.id /\ i = c.message
      BY <1>5, <2>2 DEF InstructionsOf, Put, Message
    <3>2. Owing(c)
      BY <1>4, <3>1 DEF Owing, Telling
    <3>. QED  BY <1>2, <1>5, <3>1, <3>2 DEF Owed, GoneOn
  <2>. QED  BY <2>1, <2>2 DEF Tellings
<1>9. IsFiniteSet(DOMAIN gridConns') /\ IsFiniteSet(DOMAIN smsMessages')
  BY <1>5, <1>6, FS_AddElement DEF CoveredInv
<1>. QED  BY <1>7, <1>8, <1>9, CoveredAfter

(***************************************************************************)
(* A connection is written, and an instruction about it owed.              *)
(***************************************************************************)
LEMMA PutGridConnCovered ==
    ASSUME StepsInv, CoveredInv, NEW t \in Threads, PutGridConn(t), Next
    PROVE  CoveredInv'
<1>1. Proceed(t) /\ ~Return(t) /\ ~SaveSMS(t)
  BY DEF Proceed, PutGridConn, SaveSMS, Return, At
<1>2. PICK c, d : GoneOn(t, c, d)
  BY <1>1, WorkGoesOn
<1>3. c = call[t] /\ c.left # <<>> /\ Head(c.left) = "PutGridConn"
  BY <1>2 DEF GoneOn, PutGridConn, At
<1>4. "PutGridConn" \in Todo(c)
  BY <1>2, <1>3, PlanCalls DEF GoneOn, AtHand
<1>5. gridConns' = Put(gridConns, c.gcID, c.gc)
  BY <1>3 DEF PutGridConn
<1>6. DOMAIN gridConns' = DOMAIN gridConns \cup {c.gcID}
  BY <1>5 DEF Put
<1>7. /\ UNCHANGED smsMessages
      /\ \A b, i : InstructionsOf(b, i)' = InstructionsOf(b, i)
  BY <1>1, InstructionsKept DEF PutGridConn
<1>8. \A d2 \in AtWork' : NewsAtHand(d2)'
  <2>1. ~(Telling(d) /\ "PutGridConn" \in Todo(d))
    BY <1>2 DEF GoneOn, Telling
  <2>. QED  BY <1>2, <2>1 DEF GoneOn, NewsAtHand
<1>9. ASSUME NEW b, NEW i \in DOMAIN ConnectionEarns
      PROVE  \/ Tellings(b, i)' \subseteq Tellings(b, i)
             \/ \E m, g :
                   /\ Tellings(b, i)' \subseteq Tellings(b, i) \cup {m}
                   /\ g \in ConnectionsEarning(b, i)'
                   /\ g \notin ConnectionsEarning(b, i)
  <2>1. CASE ~(b = c.id /\ i = c.message) \/ "SaveSMS" \notin Todo(d)
    <3>1. Owed(b, i)' \subseteq Owed(b, i)
      BY <1>2, <2>1, OwedGoesOn
    <3>. QED  BY <1>7, <3>1 DEF Tellings
  <2>2. CASE b = c.id /\ i = c.message /\ "SaveSMS" \in Todo(d)
    <3>1. Telling(c)
      BY <1>2, <2>2 DEF GoneOn, Telling
    <3>2. /\ c.gc.status \in ConnectionEarns[i]
          /\ c.gcID \notin ConnectionsEarning(b, i)
      BY <1>2, <1>4, <2>2, <3>1 DEF CoveredInv, GoneOn, NewsAtHand
    <3>3. c.gc.blackStartID = b
      BY <1>2, <1>4, <2>2 DEF GoneOn, AtHand, ConnectionAtHand
    <3>4. c.gcID \in ConnectionsEarning(b, i)'
      BY <1>5, <3>2, <3>3 DEF ConnectionsEarning, Put
    <3>5. Owed(b, i)' \subseteq {c.msgID}
      BY <1>2 DEF Owed, GoneOn
    <3>6. Tellings(b, i)' \subseteq Tellings(b, i) \cup {c.msgID}
      BY <1>7, <3>5 DEF Tellings
    <3>. QED  BY <3>2, <3>4, <3>6
  <2>. QED  BY <2>1, <2>2
<1>10. IsFiniteSet(DOMAIN gridConns') /\ IsFiniteSet(DOMAIN smsMessages')
  BY <1>6, <1>7, FS_AddElement DEF CoveredInv
<1>. QED  BY <1>8, <1>9, <1>10, CoveredAfter

(***************************************************************************)
(* Every other step of a method.                                           *)
(***************************************************************************)
LEMMA ProceedCovered ==
    ASSUME StepsInv, CoveredInv, NEW t \in Threads, Proceed(t), Next,
           ~SaveSMS(t), ~PutGridConn(t)
    PROVE  CoveredInv'
<1>1. UNCHANGED gridConns
  BY DEF Proceed, PutBlackStart, ListLoads, PutLoad, PutSMS, LinkSMS, RetrySMS,
         LoopEnds, Return, store
<1>2. /\ DOMAIN smsMessages' = DOMAIN smsMessages
      /\ \A b, i : InstructionsOf(b, i)' = InstructionsOf(b, i)
  BY InstructionsKept
<1>3. IsFiniteSet(DOMAIN gridConns') /\ IsFiniteSet(DOMAIN smsMessages')
  BY <1>1, <1>2 DEF CoveredInv
<1>4. CASE Return(t)
  <2>1. AtWork' = {}
    BY <1>4, StepsAssumption DEF Return, AtWork
  <2>2. \A b, i : Owed(b, i)' = {}
    BY <2>1 DEF Owed
  <2>3. \A b, i : Tellings(b, i)' \subseteq Tellings(b, i)
    BY <1>2, <2>2 DEF Tellings
  <2>. QED  BY <1>3, <2>1, <2>3, CoveredAfter
<1>5. CASE ~Return(t)
  <2>1. PICK c, d : GoneOn(t, c, d)
    BY <1>5, WorkGoesOn
  <2>2. Head(c.left) # "PutGridConn"
    BY <2>1 DEF GoneOn, Proceed, PutGridConn, PutBlackStart, ListLoads,
                PutLoad, SaveSMS, PutSMS, LinkSMS, RetrySMS, LoopEnds, Return,
                At
  <2>3. \A d2 \in AtWork' : NewsAtHand(d2)'
    <3>1. ~(Telling(d) /\ "PutGridConn" \in Todo(d))
      BY <2>1 DEF GoneOn, Telling
    <3>. QED  BY <2>1, <3>1 DEF GoneOn, NewsAtHand
  <2>4. "PutGridConn" \notin Todo(c) \/ "SaveSMS" \notin Todo(d)
    BY <2>1, <2>2 DEF GoneOn
  <2>5. \A b, i : Owed(b, i)' \subseteq Owed(b, i)
    BY <2>1, <2>4, OwedGoesOn
  <2>6. \A b, i : Tellings(b, i)' \subseteq Tellings(b, i)
    BY <1>2, <2>5 DEF Tellings
  <2>. QED  BY <1>3, <2>3, <2>6, CoveredAfter
<1>. QED  BY <1>4, <1>5

(***************************************************************************)
(* No step of any thread, of the clock or of RegisterLoad lets an          *)
(* instruction outrun its connection.                                      *)
(***************************************************************************)
LEMMA CoveredInvNext == StepsInv /\ CoveredInv /\ [Next]_vars => CoveredInv'
<1>. SUFFICES ASSUME StepsInv, CoveredInv, [Next]_vars PROVE CoveredInv'
  OBVIOUS
<1>1. CASE UNCHANGED <<gridConns, smsMessages, mu, call>>
  <2>1. AtWork' = AtWork
    BY <1>1 DEF AtWork
  <2>2. \A b, i : /\ Tellings(b, i)' = Tellings(b, i)
                  /\ ConnectionsEarning(b, i)' = ConnectionsEarning(b, i)
    BY <1>1, <2>1 DEF Tellings, Owed, InstructionsOf, ConnectionsEarning
  <2>. QED  BY <1>1, <2>1, <2>2 DEF CoveredInv, NewsAtHand
<1>2. ASSUME NEW t \in Threads, Begin(t), Next PROVE CoveredInv'
  BY <1>2, BeginCovered
<1>3. ASSUME NEW t \in Threads, Proceed(t), Next PROVE CoveredInv'
  BY <1>3, SaveSMSCovered, PutGridConnCovered, ProceedCovered
<1>4. CASE Tick \/ \E l \in LoadIDs, load \in BS!Load : RegisterLoad(l, load)
  BY <1>1, <1>4 DEF Tick, RegisterLoad, store
<1>5. CASE UNCHANGED vars
  BY <1>1, <1>5 DEF vars, store
<1>. QED  BY <1>2, <1>3, <1>4, <1>5 DEF Next

(***************************************************************************)
(* In the beginning there is nothing to tell of.                           *)
(***************************************************************************)
LEMMA CoveredInvInit == Init => CoveredInv
<1>. SUFFICES ASSUME Init PROVE CoveredInv
  OBVIOUS
<1>1. gridConns = <<>> /\ smsMessages = <<>> /\ mu = Free
  BY DEF Init, BS!Init
<1>2. AtWork = {}
  BY <1>1, StepsAssumption DEF AtWork
<1>3. DOMAIN gridConns = {} /\ DOMAIN smsMessages = {}
  BY <1>1
<1>4. \A b, i : Tellings(b, i) = {} /\ ConnectionsEarning(b, i) = {}
  BY <1>2, <1>3 DEF Tellings, Owed, InstructionsOf, ConnectionsEarning
<1>5. IsFiniteSet({}) /\ Cardinality({}) = 0
  BY FS_EmptySet
<1>6. IsFiniteSet(DOMAIN gridConns) /\ IsFiniteSet(DOMAIN smsMessages)
  BY <1>3, <1>5
<1>7. ASSUME NEW b \in BlackStartIDs, NEW i \in DOMAIN ConnectionEarns
      PROVE  Cardinality(Tellings(b, i)) <= Cardinality(ConnectionsEarning(b, i))
  <2>1. Tellings(b, i) = {} /\ ConnectionsEarning(b, i) = {}
    BY <1>4
  <2>2. Cardinality(Tellings(b, i)) = 0
    BY <1>5, <2>1
  <2>3. Cardinality(ConnectionsEarning(b, i)) = 0
    BY <1>5, <2>1
  <2>. QED  BY <2>2, <2>3
<1>. QED  BY <1>2, <1>6, <1>7 DEF CoveredInv

(***************************************************************************)
(* No instruction is in the outbox before the store knows the fact it      *)
(* tells of: the status of its black start, and for the instructions about *)
(* connections as many connections as there are instructions.              *)
(***************************************************************************)
THEOREM InstructionsAlwaysFollowFacts == Spec => []InstructionsFollowFacts
<1>1. StepsInv /\ CoveredInv => InstructionsFollowFacts
  <2>. SUFFICES ASSUME StepsInv, CoveredInv,
                       NEW b \in DOMAIN blackStarts,
                       NEW i \in DOMAIN ConnectionEarns
                PROVE  Cardinality(InstructionsOf(b, i))
                          <= Cardinality(ConnectionsEarning(b, i))
    BY DEF InstructionsFollowFacts, InstructionsCovered, StepsInv
  <2>1. Cardinality(Tellings(b, i)) <= Cardinality(ConnectionsEarning(b, i))
    BY StoredBlackStart DEF CoveredInv
  <2>2. IsFiniteSet(Tellings(b, i))
    BY TellingsFinite
  <2>3. ConnectionsEarning(b, i) \in SUBSET DOMAIN gridConns
    BY DEF ConnectionsEarning
  <2>4. IsFiniteSet(ConnectionsEarning(b, i))
    BY <2>3, FS_Subset DEF CoveredInv
  <2>5. InstructionsOf(b, i) \in SUBSET Tellings(b, i)
    BY DEF Tellings
  <2>. QED  BY <2>1, <2>2, <2>4, <2>5, CoveredStays
<1>. QED
  BY <1>1, CoveredInvInit, CoveredInvNext, StepsInvHolds, PTL DEF Spec

-----------------------------------------------------------------------------
(* Atomicity: the mapping *)

(***************************************************************************)
(* A collection is a function.                                             *)
(***************************************************************************)
IsMap(collection) == collection = [x \in DOMAIN collection |-> collection[x]]

Maps ==
    /\ IsMap(blackStarts)
    /\ IsMap(gridConns)
    /\ IsMap(smsMessages)
    /\ IsMap(loads)

(***************************************************************************)
(* What Ahead, WithLink and the Effective operators say when c is the call *)
(* at work.                                                                *)
(***************************************************************************)
LinkOf(c, bs) ==
    IF "LinkSMS" \in Todo(c) /\ c.msgID \in c.accepted
    THEN [bs EXCEPT !.smsMessageIDs = @ \cup {c.msgID}]
    ELSE bs

Without(collection, id) == [x \in DOMAIN collection \ {id} |-> collection[x]]

Delivered(messages, chosen) ==
    [m \in DOMAIN messages |->
        IF m \in chosen THEN [messages[m] EXCEPT !.status = "delivered"]
        ELSE messages[m]]

Overlay(collection, written) ==
    [x \in DOMAIN collection |->
        IF x \in DOMAIN written THEN written[x] ELSE collection[x]]

Outcome(c) ==
    Message(c, IF c.msgID \in c.accepted THEN "delivered" ELSE "pending")

EffectOnBlackStarts(c) ==
    IF "ListLoads" \in Todo(c) THEN Put(blackStarts, c.id, c.old)
    ELSE IF "PutBlackStart" \in Todo(c)
    THEN Put(blackStarts, c.id, LinkOf(c, c.bs))
    ELSE IF "LinkSMS" \in Todo(c)
    THEN Put(blackStarts, c.id, LinkOf(c, blackStarts[c.id]))
    ELSE blackStarts

EffectOnGridConns(c) ==
    IF "ListLoads" \in Todo(c) THEN Without(gridConns, c.gcID)
    ELSE IF "PutGridConn" \in Todo(c) THEN Put(gridConns, c.gcID, c.gc)
    ELSE gridConns

EffectOnMessages(c) ==
    IF "ListLoads" \in Todo(c) THEN smsMessages
    ELSE IF "PutSMS" \in Todo(c) THEN Put(smsMessages, c.msgID, Outcome(c))
    ELSE IF "RetrySMS" \in Todo(c) THEN Delivered(smsMessages, c.accepted)
    ELSE smsMessages

EffectOnLoads(c) ==
    IF "ListLoads" \notin Todo(c) /\ "PutLoad" \in Todo(c)
    THEN Overlay(loads, c.shedding)
    ELSE loads

(***************************************************************************)
(* The effective store while call c is at work.                            *)
(***************************************************************************)
LEMMA EffectsAre ==
    \A c : AtWork = {c} =>
        /\ EffectiveBlackStarts = EffectOnBlackStarts(c)
        /\ EffectiveGridConns = EffectOnGridConns(c)
        /\ EffectiveMessages = EffectOnMessages(c)
        /\ EffectiveLoads = EffectOnLoads(c)
<1>. SUFFICES ASSUME NEW c, AtWork = {c}
              PROVE  /\ EffectiveBlackStarts = EffectOnBlackStarts(c)
                     /\ EffectiveGridConns = EffectOnGridConns(c)
                     /\ EffectiveMessages = EffectOnMessages(c)
                     /\ EffectiveLoads = EffectOnLoads(c)
  OBVIOUS
<1>1. mu \in Threads /\ call[mu] = c
  BY DEF AtWork
<1>2. mu # Free
  BY <1>1, StepsAssumption
<1>3. \A x : Ahead(x) <=> x \in Todo(c)
  BY <1>1, <1>2 DEF Ahead, Todo
<1>4. Undecided <=> "ListLoads" \in Todo(c)
  BY <1>3 DEF Undecided
<1>5. EffectiveBlackStarts = EffectOnBlackStarts(c)
  BY <1>1, <1>3, <1>4
     DEF EffectiveBlackStarts, EffectOnBlackStarts, WithLink, LinkOf
<1>6. EffectiveGridConns = EffectOnGridConns(c)
  BY <1>1, <1>3, <1>4 DEF EffectiveGridConns, EffectOnGridConns, Without
<1>7. EffectiveMessages = EffectOnMessages(c)
  BY <1>1, <1>3, <1>4
     DEF EffectiveMessages, EffectOnMessages, Delivered, Outcome
<1>8. EffectiveLoads = EffectOnLoads(c)
  BY <1>1, <1>3, <1>4 DEF EffectiveLoads, EffectOnLoads, Overlay
<1>. QED  BY <1>5, <1>6, <1>7, <1>8

(***************************************************************************)
(* The effective store while nobody is at work is the store.               *)
(***************************************************************************)
LEMMA NoEffects ==
    mu = Free =>
        /\ EffectiveBlackStarts = blackStarts
        /\ EffectiveGridConns = gridConns
        /\ EffectiveMessages = smsMessages
        /\ EffectiveLoads = loads
  BY DEF EffectiveBlackStarts, EffectiveGridConns, EffectiveMessages,
         EffectiveLoads, Undecided, Ahead

(***************************************************************************)
(* The same of the state after a step.                                     *)
(***************************************************************************)
LEMMA NextEffects ==
    /\ \A c : AtWork' = {c} =>
          /\ EffectiveBlackStarts' = EffectOnBlackStarts(c)'
          /\ EffectiveGridConns' = EffectOnGridConns(c)'
          /\ EffectiveMessages' = EffectOnMessages(c)'
          /\ EffectiveLoads' = EffectOnLoads(c)'
    /\ mu' = Free =>
          /\ EffectiveBlackStarts' = blackStarts'
          /\ EffectiveGridConns' = gridConns'
          /\ EffectiveMessages' = smsMessages'
          /\ EffectiveLoads' = loads'
<1>1. (\A c : AtWork = {c} =>
          /\ EffectiveBlackStarts = EffectOnBlackStarts(c)
          /\ EffectiveGridConns = EffectOnGridConns(c)
          /\ EffectiveMessages = EffectOnMessages(c)
          /\ EffectiveLoads = EffectOnLoads(c))'
  BY EffectsAre, PTL
<1>2. (mu = Free =>
          /\ EffectiveBlackStarts = blackStarts
          /\ EffectiveGridConns = gridConns
          /\ EffectiveMessages = smsMessages
          /\ EffectiveLoads = loads)'
  BY NoEffects, PTL
<1>. QED  BY <1>1, <1>2

(***************************************************************************)
(* Putting a record files it.                                              *)
(***************************************************************************)
LEMMA PutIs ==
    ASSUME NEW f, NEW i, NEW a
    PROVE  /\ Put(f, i, a)[i] = a
           /\ DOMAIN Put(f, i, a) = DOMAIN f \cup {i}
           /\ IsMap(Put(f, i, a))
  BY DEF Put, IsMap

(***************************************************************************)
(* A second record takes the place of the first.                           *)
(***************************************************************************)
LEMMA PutTwice ==
    ASSUME NEW f, NEW i, NEW a, NEW b
    PROVE  Put(Put(f, i, a), i, b) = Put(f, i, b)
  BY DEF Put

(***************************************************************************)
(* Leaving out the record that was put.                                    *)
(***************************************************************************)
LEMMA WithoutPut ==
    ASSUME NEW f, NEW i, NEW a
    PROVE  Without(Put(f, i, a), i) = Without(f, i)
  BY DEF Put, Without

(***************************************************************************)
(* Putting back the record that is there changes nothing.                  *)
(***************************************************************************)
LEMMA PutBack ==
    ASSUME NEW f, IsMap(f), NEW i \in DOMAIN f
    PROVE  /\ Put(f, i, f[i]) = f
           /\ Put(Without(f, i), i, f[i]) = f
  BY DEF Put, IsMap, Without

(***************************************************************************)
(* There is nothing to leave out of a collection without the record.       *)
(***************************************************************************)
LEMMA WithoutNew ==
    ASSUME NEW f, IsMap(f), NEW i, i \notin DOMAIN f
    PROVE  Without(f, i) = f
  BY DEF Without, IsMap

-----------------------------------------------------------------------------
(* Atomicity: the invariant *)

(***************************************************************************)
(* Until it sheds the loads, a request's identifiers are those the next    *)
(* request would get from the effective store.                             *)
(***************************************************************************)
RequestFresh(c) ==
    "ListLoads" \in Todo(c) =>
        /\ HasFresh(GridConnIDs, EffectOnGridConns(c))
        /\ c.gcID = Fresh(GridConnIDs, EffectOnGridConns(c))
        /\ HasFresh(SMSIDs, smsMessages)
        /\ c.msgID = Fresh(SMSIDs, smsMessages)
        /\ c.message = "GRID_SYNC_REQUEST"

RequestsFresh == \A c \in AtWork : RequestFresh(c)

AtomicInv == StepsInv /\ Maps /\ RequestsFresh

\* Nothing happens as far as BlackStart is concerned.
Stutters ==
    UNCHANGED <<now, EffectiveBlackStarts, EffectiveGridConns,
                EffectiveMessages, EffectiveLoads>>

-----------------------------------------------------------------------------
(* Atomicity: the store calls, except ListLoads, are no steps of BlackStart *)

(***************************************************************************)
(* A store call that is not about a collection, and leaves it alone,       *)
(* leaves the effective collection alone.                                  *)
(***************************************************************************)
LEMMA EffectsKept ==
    ASSUME NEW c, NEW d, SameCall(c, d), d.accepted = c.accepted
    PROVE  /\ (/\ \A x \in {"ListLoads", "PutBlackStart", "LinkSMS"} :
                     x \in Todo(d) <=> x \in Todo(c)
               /\ UNCHANGED blackStarts)
              => EffectOnBlackStarts(d)' = EffectOnBlackStarts(c)
           /\ (/\ \A x \in {"ListLoads", "PutGridConn"} :
                     x \in Todo(d) <=> x \in Todo(c)
               /\ UNCHANGED gridConns)
              => EffectOnGridConns(d)' = EffectOnGridConns(c)
           /\ (/\ \A x \in {"ListLoads", "PutSMS", "RetrySMS"} :
                     x \in Todo(d) <=> x \in Todo(c)
               /\ UNCHANGED smsMessages)
              => EffectOnMessages(d)' = EffectOnMessages(c)
           /\ (/\ \A x \in {"ListLoads", "PutLoad"} :
                     x \in Todo(d) <=> x \in Todo(c)
               /\ UNCHANGED loads
               /\ d.shedding = c.shedding)
              => EffectOnLoads(d)' = EffectOnLoads(c)
<1>1. \A bs : LinkOf(d, bs) = LinkOf(c, bs)
         \/ ~("LinkSMS" \in Todo(d) <=> "LinkSMS" \in Todo(c))
  BY DEF LinkOf, SameCall
<1>2. Outcome(d) = Outcome(c)
  BY DEF Outcome, Message, SameCall
<1>3. ASSUME \A x \in {"ListLoads", "PutBlackStart", "LinkSMS"} :
                x \in Todo(d) <=> x \in Todo(c),
             UNCHANGED blackStarts
      PROVE  EffectOnBlackStarts(d)' = EffectOnBlackStarts(c)
  BY <1>1, <1>3 DEF EffectOnBlackStarts, LinkOf, SameCall
<1>4. ASSUME \A x \in {"ListLoads", "PutGridConn"} :
                x \in Todo(d) <=> x \in Todo(c),
             UNCHANGED gridConns
      PROVE  EffectOnGridConns(d)' = EffectOnGridConns(c)
  BY <1>4 DEF EffectOnGridConns, SameCall
<1>5. ASSUME \A x \in {"ListLoads", "PutSMS", "RetrySMS"} :
                x \in Todo(d) <=> x \in Todo(c),
             UNCHANGED smsMessages
      PROVE  EffectOnMessages(d)' = EffectOnMessages(c)
  BY <1>2, <1>5 DEF EffectOnMessages, Outcome, Message, SameCall
<1>6. ASSUME \A x \in {"ListLoads", "PutLoad"} :
                x \in Todo(d) <=> x \in Todo(c),
             UNCHANGED loads, d.shedding = c.shedding
      PROVE  EffectOnLoads(d)' = EffectOnLoads(c)
  BY <1>6 DEF EffectOnLoads
<1>. QED  BY <1>3, <1>4, <1>5, <1>6

(***************************************************************************)
(* The holder made a store call that leaves the effective store alone.     *)
(***************************************************************************)
LEMMA StuttersIf ==
    ASSUME NEW c, NEW d, AtWork = {c}, AtWork' = {d}, now' = now,
           EffectOnBlackStarts(d)' = EffectOnBlackStarts(c),
           EffectOnGridConns(d)' = EffectOnGridConns(c),
           EffectOnMessages(d)' = EffectOnMessages(c),
           EffectOnLoads(d)' = EffectOnLoads(c)
    PROVE  Stutters
<1>1. /\ EffectiveBlackStarts = EffectOnBlackStarts(c)
      /\ EffectiveGridConns = EffectOnGridConns(c)
      /\ EffectiveMessages = EffectOnMessages(c)
      /\ EffectiveLoads = EffectOnLoads(c)
  BY EffectsAre
<1>2. /\ EffectiveBlackStarts' = EffectOnBlackStarts(d)'
      /\ EffectiveGridConns' = EffectOnGridConns(d)'
      /\ EffectiveMessages' = EffectOnMessages(d)'
      /\ EffectiveLoads' = EffectOnLoads(d)'
  BY NextEffects
<1>. QED  BY <1>1, <1>2 DEF Stutters

(***************************************************************************)
(* A call that has shed the loads, or sheds none, owes no fresh            *)
(* identifiers.                                                            *)
(***************************************************************************)
LEMMA NothingOwed ==
    ASSUME NEW d, AtWork' = {d}, "ListLoads" \notin Todo(d)
    PROVE  RequestsFresh'
<1>1. RequestFresh(d)'
  BY DEF RequestFresh
<1>. QED  BY <1>1 DEF RequestsFresh

(***************************************************************************)
(* A request that has not shed the loads, and leaves the effective grid    *)
(* connections and the messages alone, still owes the same.                *)
(***************************************************************************)
LEMMA SameOwed ==
    ASSUME AtomicInv, NEW c, NEW d, AtWork = {c}, AtWork' = {d},
           SameCall(c, d), "ListLoads" \in Todo(c), UNCHANGED smsMessages,
           EffectOnGridConns(d)' = EffectOnGridConns(c)
    PROVE  RequestsFresh'
<1>1. RequestFresh(c)
  BY DEF AtomicInv, RequestsFresh
<1>2. RequestFresh(d)'
  BY <1>1 DEF RequestFresh, SameCall
<1>. QED  BY <1>2 DEF RequestsFresh

(***************************************************************************)
(* PutBlackStart: the record was to be written already.                    *)
(***************************************************************************)
LEMMA PutBlackStartStutters ==
    ASSUME AtomicInv, NEW t \in Threads, PutBlackStart(t)
    PROVE  Stutters /\ RequestsFresh'
<1>1. StepsInv
  BY DEF AtomicInv
<1>2. PICK c, d : /\ c = call[t]
                  /\ Makes("PutBlackStart", c, d)
                  /\ Todo(d) = Todo(c) \ {"PutBlackStart"}
                  /\ "PutBlackStart" \in Todo(c)
                  /\ d.accepted = c.accepted
                  /\ d.shedding = c.shedding
  <2>1. \A m : m \in BS!PendingSMS => m \in BS!PendingSMS'
    BY DEF PutBlackStart, BS!PendingSMS
  <2>. QED  BY <1>1, <2>1, DoneIs DEF PutBlackStart
<1>3. AtWork = {c} /\ AtWork' = {d} /\ SameCall(c, d)
  BY <1>2 DEF Makes
<1>4. /\ blackStarts' = Put(blackStarts, c.id, c.bs)
      /\ UNCHANGED <<now, gridConns, smsMessages, loads>>
  BY <1>2 DEF PutBlackStart
<1>5. EffectOnBlackStarts(d)' = EffectOnBlackStarts(c)
  <2>1. CASE "ListLoads" \in Todo(c)
    <3>1. EffectOnBlackStarts(d)' = Put(blackStarts', c.id, c.old)
      BY <1>2, <1>3, <2>1 DEF EffectOnBlackStarts, SameCall
    <3>2. EffectOnBlackStarts(c) = Put(blackStarts, c.id, c.old)
      BY <2>1 DEF EffectOnBlackStarts
    <3>3. Put(Put(blackStarts, c.id, c.bs), c.id, c.old)
             = Put(blackStarts, c.id, c.old)
      BY PutTwice
    <3>. QED  BY <1>4, <3>1, <3>2, <3>3
  <2>2. CASE "ListLoads" \notin Todo(c) /\ "LinkSMS" \in Todo(c)
    <3>1. EffectOnBlackStarts(d)'
             = Put(blackStarts', c.id, LinkOf(d, blackStarts'[c.id]))
      BY <1>2, <1>3, <2>2 DEF EffectOnBlackStarts, SameCall, LinkOf
    <3>2. EffectOnBlackStarts(c) = Put(blackStarts, c.id, LinkOf(c, c.bs))
      BY <1>2, <2>2 DEF EffectOnBlackStarts
    <3>3. LinkOf(d, c.bs) = LinkOf(c, c.bs)
      BY <1>2, <1>3, <2>2 DEF LinkOf, SameCall
    <3>4. Put(blackStarts, c.id, c.bs)[c.id] = c.bs
      BY DEF Put
    <3>5. Put(Put(blackStarts, c.id, c.bs), c.id, LinkOf(c, c.bs))
             = Put(blackStarts, c.id, LinkOf(c, c.bs))
      BY PutTwice
    <3>. QED  BY <1>4, <3>1, <3>2, <3>3, <3>4, <3>5
  <2>3. CASE "ListLoads" \notin Todo(c) /\ "LinkSMS" \notin Todo(c)
    <3>1. EffectOnBlackStarts(d)' = blackStarts'
      BY <1>2, <2>3 DEF EffectOnBlackStarts
    <3>2. EffectOnBlackStarts(c) = Put(blackStarts, c.id, c.bs)
      BY <1>2, <2>3 DEF EffectOnBlackStarts, LinkOf
    <3>. QED  BY <1>4, <3>1, <3>2
  <2>. QED  BY <2>1, <2>2, <2>3
<1>6. /\ EffectOnGridConns(d)' = EffectOnGridConns(c)
      /\ EffectOnMessages(d)' = EffectOnMessages(c)
      /\ EffectOnLoads(d)' = EffectOnLoads(c)
  BY <1>2, <1>3, <1>4, EffectsKept
<1>7. Stutters
  BY <1>3, <1>4, <1>5, <1>6, StuttersIf
<1>8. RequestsFresh'
  <2>1. CASE "ListLoads" \in Todo(c)
    BY <1>3, <1>4, <1>6, <2>1, SameOwed
  <2>2. CASE "ListLoads" \notin Todo(c)
    BY <1>2, <1>3, <2>2, NothingOwed
  <2>. QED  BY <2>1, <2>2
<1>. QED  BY <1>7, <1>8

(***************************************************************************)
(* PutGridConn: the same; a request's connection does not count before the *)
(* loads are shed.                                                         *)
(***************************************************************************)
LEMMA PutGridConnStutters ==
    ASSUME AtomicInv, NEW t \in Threads, PutGridConn(t)
    PROVE  Stutters /\ RequestsFresh'
<1>1. StepsInv
  BY DEF AtomicInv
<1>2. PICK c, d : /\ c = call[t]
                  /\ Makes("PutGridConn", c, d)
                  /\ Todo(d) = Todo(c) \ {"PutGridConn"}
                  /\ "PutGridConn" \in Todo(c)
                  /\ d.accepted = c.accepted
                  /\ d.shedding = c.shedding
  <2>1. \A m : m \in BS!PendingSMS => m \in BS!PendingSMS'
    BY DEF PutGridConn, BS!PendingSMS
  <2>. QED  BY <1>1, <2>1, DoneIs DEF PutGridConn
<1>3. AtWork = {c} /\ AtWork' = {d} /\ SameCall(c, d)
  BY <1>2 DEF Makes
<1>4. /\ gridConns' = Put(gridConns, c.gcID, c.gc)
      /\ UNCHANGED <<now, blackStarts, smsMessages, loads>>
  BY <1>2 DEF PutGridConn
<1>5. EffectOnGridConns(d)' = EffectOnGridConns(c)
  <2>1. CASE "ListLoads" \in Todo(c)
    <3>1. EffectOnGridConns(d)' = Without(gridConns', c.gcID)
      BY <1>2, <1>3, <2>1 DEF EffectOnGridConns, SameCall, Without
    <3>2. EffectOnGridConns(c) = Without(gridConns, c.gcID)
      BY <2>1 DEF EffectOnGridConns
    <3>. QED  BY <1>4, <3>1, <3>2, WithoutPut
  <2>2. CASE "ListLoads" \notin Todo(c)
    BY <1>2, <1>4, <2>2 DEF EffectOnGridConns
  <2>. QED  BY <2>1, <2>2
<1>6. /\ EffectOnBlackStarts(d)' = EffectOnBlackStarts(c)
      /\ EffectOnMessages(d)' = EffectOnMessages(c)
      /\ EffectOnLoads(d)' = EffectOnLoads(c)
  BY <1>2, <1>3, <1>4, EffectsKept
<1>7. Stutters
  BY <1>3, <1>4, <1>5, <1>6, StuttersIf
<1>8. RequestsFresh'
  <2>1. CASE "ListLoads" \in Todo(c)
    BY <1>3, <1>4, <1>5, <2>1, SameOwed
  <2>2. CASE "ListLoads" \notin Todo(c)
    BY <1>2, <1>3, <2>2, NothingOwed
  <2>. QED  BY <2>1, <2>2
<1>. QED  BY <1>7, <1>8

(***************************************************************************)
(* SaveSMS: the outcome of the delivery counts already.                    *)
(***************************************************************************)
LEMMA SaveSMSStutters ==
    ASSUME AtomicInv, NEW t \in Threads, SaveSMS(t)
    PROVE  Stutters /\ RequestsFresh'
<1>1. StepsInv
  BY DEF AtomicInv
<1>2. PICK c : c = call[t]
  OBVIOUS
<1>3. /\ At(t, "SaveSMS") /\ Done(t) /\ mu' = mu
      /\ UNCHANGED <<now, blackStarts, gridConns, loads>>
      /\ smsMessages' = Put(smsMessages, c.msgID, Message(c, "pending"))
  BY <1>2 DEF SaveSMS
<1>4. PICK d : /\ Makes("SaveSMS", c, d)
               /\ Todo(d) = Todo(c) \ {"SaveSMS"}
               /\ d.accepted = c.accepted
               /\ d.shedding = c.shedding
  <2>1. \A m \in c.accepted :
           m # c.msgID /\ m \in BS!PendingSMS => m \in BS!PendingSMS'
    BY <1>3 DEF BS!PendingSMS, Put
  <2>. QED  BY <1>1, <1>2, <1>3, <2>1, DoneIs
<1>5. AtWork = {c} /\ AtWork' = {d} /\ SameCall(c, d)
  BY <1>4 DEF Makes
<1>6. Todo(c) = {"SaveSMS", "PutSMS", "LinkSMS"}
  <2>1. c.left \in Plans /\ c.left # <<>> /\ Head(c.left) = "SaveSMS"
    BY <1>4 DEF Makes, AtHand
  <2>. QED  BY <2>1, PlanHead
<1>7. EffectOnMessages(d)' = EffectOnMessages(c)
  <2>1. Outcome(d) = Outcome(c)
    BY <1>4, <1>5 DEF Outcome, Message, SameCall
  <2>2. EffectOnMessages(d)' = Put(smsMessages', c.msgID, Outcome(c))
    BY <1>4, <1>5, <1>6, <2>1 DEF EffectOnMessages, SameCall, Outcome, Message
  <2>3. EffectOnMessages(c) = Put(smsMessages, c.msgID, Outcome(c))
    BY <1>6 DEF EffectOnMessages
  <2>4. Put(Put(smsMessages, c.msgID, Message(c, "pending")),
            c.msgID, Outcome(c))
           = Put(smsMessages, c.msgID, Outcome(c))
    BY PutTwice
  <2>. QED  BY <1>3, <2>2, <2>3, <2>4
<1>8. /\ EffectOnBlackStarts(d)' = EffectOnBlackStarts(c)
      /\ EffectOnGridConns(d)' = EffectOnGridConns(c)
      /\ EffectOnLoads(d)' = EffectOnLoads(c)
  BY <1>3, <1>4, <1>5, EffectsKept
<1>9. Stutters
  BY <1>3, <1>5, <1>7, <1>8, StuttersIf
<1>. QED  BY <1>4, <1>5, <1>6, <1>9, NothingOwed

(***************************************************************************)
(* The holder, with store call x before it, goes on as call d.             *)
(***************************************************************************)
LEMMA HolderBecomes ==
    ASSUME StepsInv, NEW t \in Threads, NEW x, At(t, x), mu' = mu,
           NEW d, Goto(t, d)
    PROVE  /\ AtWork = {call[t]} /\ AtWork' = {d}
           /\ call[t] \in Call /\ AtHand(call[t])
           /\ call[t].left \in Plans /\ call[t].left # <<>>
           /\ Head(call[t].left) = x
<1>1. call[t] # Idle
  BY DEF At, Idle
<1>2. /\ mu = t /\ AtWork = {call[t]} /\ call[t] \in Call
      /\ call \in [Threads -> Call]
  BY <1>1, AtWorkIs DEF StepsInv, TypeOK
<1>3. AtWork' = {d}
  BY <1>2 DEF AtWork, Goto
<1>. QED  BY <1>2, <1>3 DEF StepsInv, AtHand, At

(***************************************************************************)
(* PutSMS, for a message that got through: it was to be delivered already. *)
(***************************************************************************)
LEMMA PutSMSDeliveredStutters ==
    ASSUME AtomicInv, NEW t \in Threads, PutSMS(t),
           call[t].msgID \in call[t].accepted
    PROVE  Stutters /\ RequestsFresh'
<1>1. StepsInv
  BY DEF AtomicInv
<1>2. PICK c : c = call[t]
  OBVIOUS
<1>3. /\ At(t, "PutSMS") /\ Done(t) /\ mu' = mu
      /\ UNCHANGED <<now, blackStarts, gridConns, loads>>
      /\ smsMessages' = Put(smsMessages, c.msgID, Message(c, "delivered"))
  BY <1>2 DEF PutSMS
<1>4. PICK d : /\ Makes("PutSMS", c, d)
               /\ Todo(d) = Todo(c) \ {"PutSMS"}
               /\ d.accepted = c.accepted
               /\ d.shedding = c.shedding
  <2>1. \A m \in c.accepted :
           m # c.msgID /\ m \in BS!PendingSMS => m \in BS!PendingSMS'
    BY <1>3 DEF BS!PendingSMS, Put
  <2>. QED  BY <1>1, <1>2, <1>3, <2>1, DoneIs
<1>5. AtWork = {c} /\ AtWork' = {d} /\ SameCall(c, d)
  BY <1>4 DEF Makes
<1>6. Todo(c) = {"PutSMS", "LinkSMS"}
  <2>1. c.left \in Plans /\ c.left # <<>> /\ Head(c.left) = "PutSMS"
    BY <1>4 DEF Makes, AtHand
  <2>. QED  BY <2>1, PlanHead
<1>7. EffectOnMessages(d)' = EffectOnMessages(c)
  BY <1>2, <1>3, <1>4, <1>6 DEF EffectOnMessages, Outcome
<1>8. /\ EffectOnBlackStarts(d)' = EffectOnBlackStarts(c)
      /\ EffectOnGridConns(d)' = EffectOnGridConns(c)
      /\ EffectOnLoads(d)' = EffectOnLoads(c)
  BY <1>3, <1>4, <1>5, EffectsKept
<1>9. Stutters
  BY <1>3, <1>5, <1>7, <1>8, StuttersIf
<1>. QED  BY <1>4, <1>5, <1>6, <1>9, NothingOwed

(***************************************************************************)
(* PutSMS, for a message that was rejected: it stays as it was saved, and  *)
(* is not linked.                                                          *)
(***************************************************************************)
LEMMA PutSMSRejectedStutters ==
    ASSUME AtomicInv, NEW t \in Threads, PutSMS(t),
           call[t].msgID \notin call[t].accepted
    PROVE  Stutters /\ RequestsFresh'
<1>1. StepsInv /\ Maps
  BY DEF AtomicInv
<1>2. PICK c, d : c = call[t] /\ d = [c EXCEPT !.left = <<>>]
  OBVIOUS
<1>3. /\ At(t, "PutSMS") /\ Goto(t, d) /\ mu' = mu
      /\ UNCHANGED <<now, store>>
  BY <1>2 DEF PutSMS, store
<1>4. /\ AtWork = {c} /\ AtWork' = {d} /\ c \in Call /\ AtHand(c)
      /\ c.left \in Plans /\ c.left # <<>> /\ Head(c.left) = "PutSMS"
  BY <1>1, <1>2, <1>3, HolderBecomes
<1>5. Todo(c) = {"PutSMS", "LinkSMS"} /\ Todo(d) = {}
  <2>1. d.left = <<>>
    BY <1>2, <1>4 DEF Call
  <2>2. Todo(d) = {}
    BY <2>1 DEF Todo
  <2>. QED  BY <1>4, <2>2, PlanHead
<1>6. /\ SameCall(c, d)
      /\ d.accepted = c.accepted
      /\ d.shedding = c.shedding
  BY <1>2, <1>4 DEF SameCall, Call
<1>7. /\ c.msgID \in DOMAIN smsMessages
      /\ smsMessages[c.msgID] = Message(c, "pending")
      /\ c.id \in DOMAIN blackStarts
      /\ c.msgID \notin c.accepted
  BY <1>2, <1>4, <1>5 DEF AtHand, MessageAtHand
<1>8. EffectOnMessages(d)' = EffectOnMessages(c)
  <2>1. EffectOnMessages(c)
           = Put(smsMessages, c.msgID, smsMessages[c.msgID])
    BY <1>5, <1>7 DEF EffectOnMessages, Outcome
  <2>2. Put(smsMessages, c.msgID, smsMessages[c.msgID]) = smsMessages
    BY <1>1, <1>7, PutBack DEF Maps
  <2>3. EffectOnMessages(d)' = smsMessages'
    BY <1>5 DEF EffectOnMessages
  <2>. QED  BY <1>3, <2>1, <2>2, <2>3 DEF store
<1>9. EffectOnBlackStarts(d)' = EffectOnBlackStarts(c)
  <2>1. EffectOnBlackStarts(c) = Put(blackStarts, c.id, blackStarts[c.id])
    BY <1>5, <1>7 DEF EffectOnBlackStarts, LinkOf
  <2>2. Put(blackStarts, c.id, blackStarts[c.id]) = blackStarts
    BY <1>1, <1>7, PutBack DEF Maps
  <2>3. EffectOnBlackStarts(d)' = blackStarts'
    BY <1>5 DEF EffectOnBlackStarts
  <2>. QED  BY <1>3, <2>1, <2>2, <2>3 DEF store
<1>10. /\ EffectOnGridConns(d)' = EffectOnGridConns(c)
       /\ EffectOnLoads(d)' = EffectOnLoads(c)
  BY <1>3, <1>5, <1>6, EffectsKept DEF store
<1>11. Stutters
  BY <1>3, <1>4, <1>8, <1>9, <1>10, StuttersIf
<1>. QED  BY <1>4, <1>5, <1>11, NothingOwed

(***************************************************************************)
(* LinkSMS: the link was to be added already.                              *)
(***************************************************************************)
LEMMA LinkSMSStutters ==
    ASSUME AtomicInv, NEW t \in Threads, LinkSMS(t)
    PROVE  Stutters /\ RequestsFresh'
<1>1. StepsInv
  BY DEF AtomicInv
<1>2. PICK c : c = call[t]
  OBVIOUS
<1>3. /\ At(t, "LinkSMS") /\ Done(t) /\ mu' = mu
      /\ UNCHANGED <<now, gridConns, smsMessages, loads>>
      /\ blackStarts' = Put(blackStarts, c.id,
                            [blackStarts[c.id] EXCEPT
                                !.smsMessageIDs = @ \cup {c.msgID}])
  BY <1>2 DEF LinkSMS
<1>4. PICK d : /\ Makes("LinkSMS", c, d)
               /\ Todo(d) = Todo(c) \ {"LinkSMS"}
               /\ d.accepted = c.accepted
               /\ d.shedding = c.shedding
  <2>1. \A m \in c.accepted :
           m # c.msgID /\ m \in BS!PendingSMS => m \in BS!PendingSMS'
    BY <1>3 DEF BS!PendingSMS
  <2>. QED  BY <1>1, <1>2, <1>3, <2>1, DoneIs
<1>5. AtWork = {c} /\ AtWork' = {d} /\ SameCall(c, d) /\ AtHand(c)
  BY <1>4 DEF Makes
<1>6. Todo(c) = {"LinkSMS"}
  <2>1. c.left \in Plans /\ c.left # <<>> /\ Head(c.left) = "LinkSMS"
    BY <1>4 DEF Makes, AtHand
  <2>. QED  BY <2>1, PlanHead
<1>7. c.msgID \in c.accepted
  BY <1>5, <1>6 DEF AtHand, MessageAtHand
<1>8. EffectOnBlackStarts(d)' = EffectOnBlackStarts(c)
  <2>1. EffectOnBlackStarts(c) = blackStarts'
    BY <1>3, <1>6, <1>7 DEF EffectOnBlackStarts, LinkOf
  <2>2. EffectOnBlackStarts(d)' = blackStarts'
    BY <1>4, <1>6 DEF EffectOnBlackStarts
  <2>. QED  BY <2>1, <2>2
<1>9. /\ EffectOnGridConns(d)' = EffectOnGridConns(c)
      /\ EffectOnMessages(d)' = EffectOnMessages(c)
      /\ EffectOnLoads(d)' = EffectOnLoads(c)
  BY <1>3, <1>4, <1>5, EffectsKept
<1>10. Stutters
  BY <1>3, <1>5, <1>8, <1>9, StuttersIf
<1>. QED  BY <1>4, <1>5, <1>6, <1>10, NothingOwed

(***************************************************************************)
(* Delivering one message now and the others later delivers them all.      *)
(***************************************************************************)
LEMMA DeliveredOneByOne ==
    ASSUME NEW f, NEW chosen, NEW m \in DOMAIN f, m \in chosen
    PROVE  Delivered(Put(f, m, [f[m] EXCEPT !.status = "delivered"]),
                     chosen \ {m})
              = Delivered(f, chosen)
<1>1. PICK written, g :
         /\ written = [f[m] EXCEPT !.status = "delivered"]
         /\ g = Put(f, m, written)
  OBVIOUS
<1>2. /\ DOMAIN g = DOMAIN f
      /\ g[m] = written
      /\ \A x \in DOMAIN f : x # m => g[x] = f[x]
  BY <1>1 DEF Put
<1>3. Delivered(g, chosen \ {m}) = Delivered(f, chosen)
  BY <1>1, <1>2 DEF Delivered
<1>. QED  BY <1>1, <1>3

(***************************************************************************)
(* RetrySMS: the message was to be delivered already.                      *)
(***************************************************************************)
LEMMA RetrySMSStutters ==
    ASSUME AtomicInv, NEW t \in Threads, NEW m, RetrySMS(t, m)
    PROVE  Stutters /\ RequestsFresh'
<1>1. StepsInv /\ Maps
  BY DEF AtomicInv
<1>2. PICK c, d : c = call[t] /\ d = [c EXCEPT !.accepted = @ \ {m}]
  OBVIOUS
<1>3. /\ At(t, "RetrySMS") /\ Goto(t, d) /\ mu' = mu
      /\ m \in c.accepted
      /\ UNCHANGED <<now, blackStarts, gridConns, loads>>
      /\ smsMessages' = Put(smsMessages, m,
                            [smsMessages[m] EXCEPT !.status = "delivered"])
  BY <1>2 DEF RetrySMS
<1>4. /\ AtWork = {c} /\ AtWork' = {d} /\ c \in Call /\ AtHand(c)
      /\ c.left \in Plans /\ c.left # <<>> /\ Head(c.left) = "RetrySMS"
  BY <1>1, <1>2, <1>3, HolderBecomes
<1>5. d.left = c.left /\ d.accepted = c.accepted \ {m}
  BY <1>2, <1>4 DEF Call
<1>6. Todo(c) = {"RetrySMS"} /\ Todo(d) = {"RetrySMS"}
  <2>1. Todo(d) = Todo(c)
    BY <1>5 DEF Todo
  <2>. QED  BY <1>4, <2>1, PlanHead
<1>7. m \in DOMAIN smsMessages
  <2>1. c.msgID = None /\ c.accepted \subseteq SMSIDs
    BY <1>4, <1>6 DEF AtHand, RetryAtHand, Call
  <2>2. m # c.msgID
    BY <1>3, <2>1, StepsAssumption
  <2>3. \A x \in c.accepted \ {c.msgID} : x \in BS!PendingSMS
    BY <1>1, <1>2 DEF StepsInv, DeliveredOnce
  <2>. QED  BY <1>3, <2>2, <2>3 DEF BS!PendingSMS
<1>8. EffectOnMessages(d)' = EffectOnMessages(c)
  <2>1. EffectOnMessages(c) = Delivered(smsMessages, c.accepted)
    BY <1>6 DEF EffectOnMessages
  <2>2. EffectOnMessages(d)' = Delivered(smsMessages', c.accepted \ {m})
    BY <1>5, <1>6 DEF EffectOnMessages
  <2>. QED  BY <1>3, <1>7, <2>1, <2>2, DeliveredOneByOne
<1>9. /\ EffectOnBlackStarts(d)' = EffectOnBlackStarts(c)
      /\ EffectOnGridConns(d)' = EffectOnGridConns(c)
      /\ EffectOnLoads(d)' = EffectOnLoads(c)
  BY <1>3, <1>6 DEF EffectOnBlackStarts, EffectOnGridConns, EffectOnLoads
<1>10. Stutters
  BY <1>3, <1>4, <1>8, <1>9, StuttersIf
<1>. QED  BY <1>4, <1>6, <1>10, NothingOwed

(***************************************************************************)
(* PutLoad: the load was to be written already.                            *)
(***************************************************************************)
LEMMA PutLoadStutters ==
    ASSUME AtomicInv, NEW t \in Threads, NEW l, PutLoad(t, l)
    PROVE  Stutters /\ RequestsFresh'
<1>1. StepsInv /\ Maps
  BY DEF AtomicInv
<1>2. PICK c, shedding, d :
         /\ c = call[t]
         /\ shedding = [k \in DOMAIN c.shedding \ {l} |-> c.shedding[k]]
         /\ d = [c EXCEPT !.shedding = shedding]
  OBVIOUS
<1>3. /\ At(t, "PutLoad") /\ Goto(t, d) /\ mu' = mu
      /\ l \in DOMAIN c.shedding
      /\ UNCHANGED <<now, blackStarts, gridConns, smsMessages>>
      /\ loads' = Put(loads, l, c.shedding[l])
  BY <1>2 DEF PutLoad
<1>4. /\ AtWork = {c} /\ AtWork' = {d} /\ c \in Call /\ AtHand(c)
      /\ c.left \in Plans /\ c.left # <<>> /\ Head(c.left) = "PutLoad"
  BY <1>1, <1>2, <1>3, HolderBecomes
<1>5. /\ d.left = c.left
      /\ d.shedding = shedding
      /\ d.accepted = c.accepted
      /\ SameCall(c, d)
  BY <1>2, <1>4 DEF Call, SameCall
<1>6. /\ Todo(c) = {"PutLoad", "SaveSMS", "PutSMS", "LinkSMS"}
      /\ Todo(d) = Todo(c)
  <2>1. Todo(d) = Todo(c)
    BY <1>5 DEF Todo
  <2>. QED  BY <1>4, <2>1, PlanHead
<1>7. DOMAIN c.shedding \subseteq DOMAIN loads
  BY <1>4, <1>6 DEF AtHand, LoadsAtHand
<1>8. EffectOnLoads(d)' = EffectOnLoads(c)
  <2>1. EffectOnLoads(c) = Overlay(loads, c.shedding)
    BY <1>6 DEF EffectOnLoads
  <2>2. EffectOnLoads(d)' = Overlay(loads', shedding)
    BY <1>5, <1>6 DEF EffectOnLoads
  <2>3. Overlay(Put(loads, l, c.shedding[l]), shedding)
           = Overlay(loads, c.shedding)
    BY <1>2, <1>3, <1>7 DEF Overlay, Put
  <2>. QED  BY <1>3, <2>1, <2>2, <2>3
<1>9. /\ EffectOnBlackStarts(d)' = EffectOnBlackStarts(c)
      /\ EffectOnGridConns(d)' = EffectOnGridConns(c)
      /\ EffectOnMessages(d)' = EffectOnMessages(c)
  BY <1>3, <1>5, <1>6, EffectsKept
<1>10. Stutters
  BY <1>3, <1>4, <1>8, <1>9, StuttersIf
<1>. QED  BY <1>4, <1>6, <1>10, NothingOwed

(***************************************************************************)
(* The end of a loop: nothing was left to be written.                      *)
(***************************************************************************)
LEMMA LoopEndsStutters ==
    ASSUME AtomicInv, NEW t \in Threads, LoopEnds(t)
    PROVE  Stutters /\ RequestsFresh'
<1>1. StepsInv /\ Maps
  BY DEF AtomicInv
<1>2. PICK c : c = call[t]
  OBVIOUS
<1>3. PICK x : /\ x \in {"PutLoad", "RetrySMS"}
               /\ At(t, x)
               /\ x = "PutLoad" => c.shedding = <<>>
               /\ x = "RetrySMS" => c.accepted = {}
  BY <1>2 DEF LoopEnds
<1>4. Done(t) /\ mu' = mu /\ UNCHANGED <<now, store>>
  BY DEF LoopEnds
<1>5. PICK d : /\ Makes(x, c, d)
               /\ Todo(d) = Todo(c) \ {x}
               /\ d.accepted = c.accepted
               /\ d.shedding = c.shedding
  <2>1. \A m \in c.accepted : m # c.msgID /\ m \in BS!PendingSMS
                                 => m \in BS!PendingSMS'
    BY <1>4 DEF BS!PendingSMS, store
  <2>. QED  BY <1>1, <1>2, <1>3, <1>4, <2>1, DoneIs
<1>6. AtWork = {c} /\ AtWork' = {d} /\ SameCall(c, d)
  BY <1>5 DEF Makes
<1>7. /\ x = "PutLoad" => Todo(c) = {"PutLoad", "SaveSMS", "PutSMS", "LinkSMS"}
      /\ x = "RetrySMS" => Todo(c) = {"RetrySMS"}
  <2>1. c.left \in Plans /\ c.left # <<>> /\ Head(c.left) = x
    BY <1>5 DEF Makes, AtHand
  <2>. QED  BY <2>1, PlanHead
<1>8. Delivered(smsMessages, {}) = smsMessages /\ Overlay(loads, <<>>) = loads
  <2>1. IsMap(smsMessages) /\ IsMap(loads)
    BY <1>1 DEF Maps
  <2>2. Delivered(smsMessages, {}) = smsMessages
    BY <2>1 DEF Delivered, IsMap
  <2>3. Overlay(loads, <<>>) = loads
    BY <2>1 DEF Overlay, IsMap
  <2>. QED  BY <2>2, <2>3
<1>9. /\ EffectOnMessages(d)' = EffectOnMessages(c)
      /\ EffectOnLoads(d)' = EffectOnLoads(c)
  <2>1. CASE x = "PutLoad"
    <3>1. EffectOnLoads(c) = loads /\ EffectOnLoads(d)' = loads'
      BY <1>3, <1>5, <1>7, <1>8, <2>1 DEF EffectOnLoads
    <3>2. EffectOnMessages(d)' = EffectOnMessages(c)
      BY <1>4, <1>5, <1>6, <1>7, <2>1, EffectsKept DEF store
    <3>. QED  BY <1>4, <3>1, <3>2 DEF store
  <2>2. CASE x = "RetrySMS"
    <3>1. EffectOnMessages(c) = smsMessages /\ EffectOnMessages(d)' = smsMessages'
      BY <1>3, <1>5, <1>7, <1>8, <2>2 DEF EffectOnMessages
    <3>2. EffectOnLoads(c) = loads /\ EffectOnLoads(d)' = loads'
      BY <1>5, <1>7, <2>2 DEF EffectOnLoads
    <3>. QED  BY <1>4, <3>1, <3>2 DEF store
  <2>. QED  BY <1>3, <2>1, <2>2
<1>10. /\ EffectOnBlackStarts(d)' = EffectOnBlackStarts(c)
       /\ EffectOnGridConns(d)' = EffectOnGridConns(c)
  BY <1>3, <1>4, <1>5, <1>6, EffectsKept DEF store
<1>11. Stutters
  BY <1>4, <1>6, <1>9, <1>10, StuttersIf
<1>12. "ListLoads" \notin Todo(d)
  BY <1>3, <1>5, <1>7
<1>. QED  BY <1>6, <1>11, <1>12, NothingOwed

(***************************************************************************)
(* Return: a call that has nothing left to do has taken effect.            *)
(***************************************************************************)
LEMMA ReturnStutters ==
    ASSUME AtomicInv, NEW t \in Threads, Return(t)
    PROVE  Stutters /\ RequestsFresh'
<1>1. StepsInv
  BY DEF AtomicInv
<1>2. PICK c : c = call[t]
  OBVIOUS
<1>3. /\ c # Idle /\ c.left = <<>> /\ mu' = Free
      /\ UNCHANGED <<now, store>>
  BY <1>2 DEF Return
<1>4. AtWork = {c} /\ AtWork' = {}
  BY <1>1, <1>2, <1>3, AtWorkIs, StepsAssumption DEF AtWork
<1>5. Todo(c) = {}
  BY <1>3 DEF Todo
<1>6. /\ EffectiveBlackStarts = blackStarts
      /\ EffectiveGridConns = gridConns
      /\ EffectiveMessages = smsMessages
      /\ EffectiveLoads = loads
  BY <1>4, <1>5, EffectsAre
     DEF EffectOnBlackStarts, EffectOnGridConns, EffectOnMessages, EffectOnLoads
<1>7. Stutters
  BY <1>3, <1>6, NextEffects DEF Stutters, store
<1>. QED  BY <1>4, <1>7 DEF RequestsFresh

-----------------------------------------------------------------------------
(* Atomicity: what the calls are to BlackStart *)

(***************************************************************************)
(* The helpers of BlackStart are those of this module.                     *)
(***************************************************************************)
LEMMA AtomicHelpers ==
    /\ \A f, i, r : Atomic!Put(f, i, r) = Put(f, i, r)
    /\ \A ids, f : /\ Atomic!HasFresh(ids, f) <=> HasFresh(ids, f)
                   /\ Atomic!Fresh(ids, f) = Fresh(ids, f)
    /\ \A status : /\ Atomic!BlackStartTerminal(status)
                         <=> BlackStartTerminal(status)
                   /\ Atomic!GridConnTerminal(status)
                         <=> GridConnTerminal(status)
    /\ \A bs, time : Atomic!IsOverdue(bs, time) <=> IsOverdue(bs, time)
    /\ \A gc : Atomic!BothSigned(gc) <=> BothSigned(gc)
    /\ Atomic!SignParty = SignParty
<1>1. \A f, i, r : Atomic!Put(f, i, r) = Put(f, i, r)
  BY DEF Atomic!Put, Put
<1>2. \A ids, f : /\ Atomic!HasFresh(ids, f) <=> HasFresh(ids, f)
                  /\ Atomic!Fresh(ids, f) = Fresh(ids, f)
  BY DEF Atomic!HasFresh, HasFresh, Atomic!Fresh, Fresh
<1>3. \A status : /\ Atomic!BlackStartTerminal(status)
                        <=> BlackStartTerminal(status)
                  /\ Atomic!GridConnTerminal(status)
                        <=> GridConnTerminal(status)
  BY DEF Atomic!BlackStartTerminal, BlackStartTerminal,
         Atomic!GridConnTerminal, GridConnTerminal
<1>4. \A bs, time : Atomic!IsOverdue(bs, time) <=> IsOverdue(bs, time)
  BY DEF Atomic!IsOverdue, IsOverdue
<1>5. Atomic!SignParty = SignParty
  BY DEF Atomic!SignParty, SignParty
<1>6. \A gc : Atomic!BothSigned(gc) <=> BothSigned(gc)
  BY <1>5 DEF Atomic!BothSigned, BothSigned
<1>. QED  BY <1>1, <1>2, <1>3, <1>4, <1>5, <1>6

(***************************************************************************)
(* So are its tables and its records.                                      *)
(***************************************************************************)
LEMMA AtomicTables ==
    /\ \A from, to :
          /\ Atomic!BlackStartCanTransition(from, to)
                <=> BlackStartCanTransition(from, to)
          /\ Atomic!GridConnCanTransition(from, to)
                <=> GridConnCanTransition(from, to)
    /\ \A signed : Atomic!StatusOfSignatures(signed)
                      = BS!StatusOfSignatures(signed)
    /\ \A time : Atomic!NewBlackStart(time) = BS!NewBlackStart(time)
    /\ \A bs, g : Atomic!Syncing(bs, g) = BS!Syncing(bs, g)
    /\ Atomic!Load = BS!Load
    /\ \A f : Atomic!ShedLoadsByPriority(f, LoadPriority, 1)
                 = ShedLoadsByPriority(f, LoadPriority, 1)
<1>1. \A from, to :
         /\ Atomic!BlackStartCanTransition(from, to)
               <=> BlackStartCanTransition(from, to)
         /\ Atomic!GridConnCanTransition(from, to)
               <=> GridConnCanTransition(from, to)
  BY DEF Atomic!BlackStartCanTransition, Atomic!GridConnCanTransition,
         Atomic!blackStartTransitions, Atomic!gridConnTransitions,
         BlackStartCanTransition, GridConnCanTransition,
         blackStartTransitions, gridConnTransitions
<1>2. \A signed : Atomic!StatusOfSignatures(signed)
                     = BS!StatusOfSignatures(signed)
  BY DEF Atomic!StatusOfSignatures, BS!StatusOfSignatures,
         Atomic!SignParty, BS!SignParty
<1>3. \A time : Atomic!NewBlackStart(time) = BS!NewBlackStart(time)
  BY DEF Atomic!NewBlackStart, BS!NewBlackStart
<1>4. \A bs, g : Atomic!Syncing(bs, g) = BS!Syncing(bs, g)
  BY DEF Atomic!Syncing, BS!Syncing
<1>5. Atomic!Load = BS!Load
  BY DEF Atomic!Load, BS!Load
<1>6. \A f : Atomic!ShedLoadsByPriority(f, LoadPriority, 1)
                = ShedLoadsByPriority(f, LoadPriority, 1)
  BY DEF Atomic!ShedLoadsByPriority, ShedLoadsByPriority,
         Atomic!Energized, Energized, Atomic!Shed, Shed
<1>. QED  BY <1>1, <1>2, <1>3, <1>4, <1>5, <1>6

(***************************************************************************)
(* Sending an instruction: it is filed with its outcome, and linked if it  *)
(* got through.                                                            *)
(***************************************************************************)
LEMMA AtomicEnqueues ==
    ASSUME NEW m, NEW accepted, NEW id, NEW bs, NEW message, NEW status,
           HasFresh(SMSIDs, EffectiveMessages),
           m = Fresh(SMSIDs, EffectiveMessages),
           status = IF m \in accepted THEN "delivered" ELSE "pending",
           EffectiveMessages' = Put(EffectiveMessages, m,
                                    [blackStartID |-> id,
                                     instruction |-> message,
                                     status |-> status]),
           EffectiveBlackStarts' =
              Put(EffectiveBlackStarts, id,
                  IF m \in accepted
                  THEN [bs EXCEPT !.smsMessageIDs = @ \cup {m}]
                  ELSE bs)
    PROVE  Atomic!EnqueueSMS(id, bs, message)
<1>1. CASE m \in accepted
  BY <1>1, AtomicHelpers DEF Atomic!EnqueueSMS
<1>2. CASE m \notin accepted
  BY <1>2, AtomicHelpers DEF Atomic!EnqueueSMS
<1>. QED  BY <1>1, <1>2

(***************************************************************************)
(* Before a thread gets the lock the effective store is the store; with it *)
(* what its call c will write counts.                                      *)
(***************************************************************************)
LEMMA EnterEffects ==
    ASSUME AtomicInv, NEW t \in Threads, NEW c, Enter(t, c)
    PROVE  /\ mu = Free /\ AtWork' = {c}
           /\ now' = now
           /\ EffectiveBlackStarts = blackStarts
           /\ EffectiveGridConns = gridConns
           /\ EffectiveMessages = smsMessages
           /\ EffectiveLoads = loads
           /\ EffectiveBlackStarts' = EffectOnBlackStarts(c)
           /\ EffectiveGridConns' = EffectOnGridConns(c)
           /\ EffectiveMessages' = EffectOnMessages(c)
           /\ EffectiveLoads' = EffectOnLoads(c)
<1>1. /\ mu = Free /\ mu' = t /\ UNCHANGED <<now, store>>
      /\ call' = [call EXCEPT ![t] = c]
      /\ call \in [Threads -> Call]
  BY DEF Enter, AtomicInv, StepsInv, TypeOK
<1>2. AtWork' = {c}
  BY <1>1 DEF AtWork
<1>3. /\ EffectiveBlackStarts = blackStarts
      /\ EffectiveGridConns = gridConns
      /\ EffectiveMessages = smsMessages
      /\ EffectiveLoads = loads
  BY <1>1, NoEffects
<1>4. /\ EffectOnBlackStarts(c)' = EffectOnBlackStarts(c)
      /\ EffectOnGridConns(c)' = EffectOnGridConns(c)
      /\ EffectOnMessages(c)' = EffectOnMessages(c)
      /\ EffectOnLoads(c)' = EffectOnLoads(c)
  BY <1>1 DEF EffectOnBlackStarts, EffectOnGridConns, EffectOnMessages,
              EffectOnLoads, store
<1>5. /\ EffectiveBlackStarts' = EffectOnBlackStarts(c)'
      /\ EffectiveGridConns' = EffectOnGridConns(c)'
      /\ EffectiveMessages' = EffectOnMessages(c)'
      /\ EffectiveLoads' = EffectOnLoads(c)'
  BY <1>2, NextEffects
<1>. QED  BY <1>1, <1>2, <1>3, <1>4, <1>5

(***************************************************************************)
(* A call that has nothing to write is no step of BlackStart.              *)
(***************************************************************************)
LEMMA NothingToWrite ==
    ASSUME AtomicInv, NEW t \in Threads, NEW c, Enter(t, c), c.left = <<>>
    PROVE  Stutters /\ RequestsFresh'
<1>1. Todo(c) = {}
  BY DEF Todo
<1>2. Stutters
  BY <1>1, EnterEffects
     DEF Stutters, EffectOnBlackStarts, EffectOnGridConns, EffectOnMessages,
         EffectOnLoads
<1>3. AtWork' = {c}
  BY EnterEffects
<1>. QED  BY <1>1, <1>2, <1>3, NothingOwed

(***************************************************************************)
(* Nor is one that is refused.                                             *)
(***************************************************************************)
LEMMA RefuseStutters ==
    ASSUME AtomicInv, NEW t \in Threads, NEW err, Refuse(t, err)
    PROVE  Stutters /\ RequestsFresh'
<1>1. PICK c : c = [Idle EXCEPT !.status = WriteError(err)]
  OBVIOUS
<1>2. c.left = <<>>
  BY <1>1 DEF Idle
<1>. QED  BY <1>1, <1>2, NothingToWrite DEF Refuse

(***************************************************************************)
(* Nor is one that repeats an earlier one.                                 *)
(***************************************************************************)
LEMMA RepeatStutters ==
    ASSUME AtomicInv, NEW t \in Threads, NEW method,
           \/ \E id, status :
                 Repeat(t, [About(id, method, <<>>) EXCEPT !.status = status])
           \/ \E id : Repeat(t, About(id, method, <<>>))
           \/ \E g : Repeat(t, AboutConn(g, method, <<>>))
    PROVE  Stutters /\ RequestsFresh'
<1>1. CASE \E id, status :
              Repeat(t, [About(id, method, <<>>) EXCEPT !.status = status])
  <2>1. PICK c : c.left = <<>> /\ Enter(t, c)
    <3>1. PICK id, status :
             Repeat(t, [About(id, method, <<>>) EXCEPT !.status = status])
      BY <1>1
    <3>2. PICK c : c = [[About(id, method, <<>>) EXCEPT !.status = status]
                           EXCEPT !.left = <<>>]
      OBVIOUS
    <3>3. c.left = <<>>
      BY <3>2 DEF About, Idle
    <3>. QED  BY <3>1, <3>2, <3>3 DEF Repeat
  <2>. QED  BY <2>1, NothingToWrite
<1>2. CASE \E id : Repeat(t, About(id, method, <<>>))
  <2>1. PICK id : Repeat(t, About(id, method, <<>>))
    BY <1>2
  <2>2. PICK c : c = [About(id, method, <<>>) EXCEPT !.left = <<>>]
    OBVIOUS
  <2>3. c.left = <<>>
    BY <2>2 DEF About, Idle
  <2>. QED  BY <2>1, <2>2, <2>3, NothingToWrite DEF Repeat
<1>3. CASE \E g : Repeat(t, AboutConn(g, method, <<>>))
  <2>1. PICK g : Repeat(t, AboutConn(g, method, <<>>))
    BY <1>3
  <2>2. PICK c : c = [AboutConn(g, method, <<>>) EXCEPT !.left = <<>>]
    OBVIOUS
  <2>3. c.left = <<>>
    BY <2>2 DEF AboutConn, Idle
  <2>. QED  BY <2>1, <2>2, <2>3, NothingToWrite DEF Repeat
<1>. QED  BY <1>1, <1>2, <1>3

-----------------------------------------------------------------------------
(* Atomicity: the steps that are steps of BlackStart *)

(***************************************************************************)
(* ListLoads is when a request for a grid connection takes effect.         *)
(***************************************************************************)
LEMMA ListLoadsRequests ==
    ASSUME AtomicInv, NEW t \in Threads, ListLoads(t)
    PROVE  /\ \E id \in BlackStartIDs : Atomic!RequestGridConnection(id)
           /\ RequestsFresh'
<1>1. StepsInv /\ Maps /\ RequestsFresh
  BY DEF AtomicInv
<1>2. PICK c, left, shedding, d :
         /\ c = call[t]
         /\ left = Tail(c.left)
         /\ shedding = ShedLoadsByPriority(loads, LoadPriority, 1)
         /\ d = [c EXCEPT !.left = left, !.shedding = shedding]
  OBVIOUS
<1>3. At(t, "ListLoads") /\ Goto(t, d) /\ mu' = mu /\ UNCHANGED <<now, store>>
  BY <1>2 DEF ListLoads
<1>4. /\ AtWork = {c} /\ AtWork' = {d} /\ c \in Call /\ AtHand(c)
      /\ c.left \in Plans /\ c.left # <<>> /\ Head(c.left) = "ListLoads"
  BY <1>1, <1>2, <1>3, HolderBecomes
<1>5. /\ d.left = left
      /\ d.shedding = shedding
      /\ d.accepted = c.accepted
      /\ SameCall(c, d)
  BY <1>2, <1>4 DEF Call, SameCall
<1>6. /\ Todo(c) = {"ListLoads", "PutLoad", "SaveSMS", "PutSMS", "LinkSMS"}
      /\ Todo(d) = {"PutLoad", "SaveSMS", "PutSMS", "LinkSMS"}
  <2>1. Todo(d) = Todo(c) \ {"ListLoads"}
    BY <1>2, <1>4, <1>5, NextInPlan
  <2>2. Todo(c) = {"ListLoads", "PutLoad", "SaveSMS", "PutSMS", "LinkSMS"}
    BY <1>4, PlanHead
  <2>. QED  BY <2>1, <2>2
<1>7. PICK id, old, bs, g, gc, m, accepted :
         /\ id = c.id /\ old = c.old /\ bs = c.bs /\ g = c.gcID /\ gc = c.gc
         /\ m = c.msgID /\ accepted = c.accepted
  OBVIOUS
<1>8. /\ id \in DOMAIN blackStarts
      /\ g \in DOMAIN gridConns
      /\ gridConns[g] = gc
      /\ gc = [blackStartID |-> id, status |-> "requested", signed |-> {}]
      /\ old.status \in {"bus_restored", "grid_syncing"}
      /\ bs = BS!Syncing(old, g)
      /\ blackStarts[id] = bs
  BY <1>4, <1>6, <1>7 DEF AtHand, RequestAtHand
<1>9. id \in BlackStartIDs
  BY <1>1, <1>8 DEF StepsInv, TypeOK, BS!TypeOK
<1>10. /\ EffectiveBlackStarts = Put(blackStarts, id, old)
       /\ EffectiveGridConns = Without(gridConns, g)
       /\ EffectiveMessages = smsMessages
       /\ EffectiveLoads = loads
  BY <1>4, <1>6, <1>7, EffectsAre
     DEF EffectOnBlackStarts, EffectOnGridConns, EffectOnMessages, EffectOnLoads
<1>11. PICK linked : linked = IF m \in accepted
                              THEN [bs EXCEPT !.smsMessageIDs = @ \cup {m}]
                              ELSE bs
  OBVIOUS
<1>12. /\ EffectiveBlackStarts' = Put(blackStarts, id, linked)
       /\ EffectiveGridConns' = gridConns
       /\ EffectiveMessages' = Put(smsMessages, m, Outcome(d))
       /\ EffectiveLoads' = Overlay(loads, shedding)
  <2>1. LinkOf(d, bs) = linked
    BY <1>5, <1>6, <1>7, <1>11 DEF LinkOf, SameCall
  <2>2. /\ EffectOnBlackStarts(d)' = Put(blackStarts, id, LinkOf(d, bs))
        /\ EffectOnGridConns(d)' = gridConns
        /\ EffectOnMessages(d)' = Put(smsMessages, m, Outcome(d))
        /\ EffectOnLoads(d)' = Overlay(loads, shedding)
    BY <1>3, <1>5, <1>6, <1>7, <1>8
       DEF EffectOnBlackStarts, EffectOnGridConns, EffectOnMessages,
           EffectOnLoads, SameCall, LinkOf, store
  <2>. QED  BY <1>4, <2>1, <2>2, NextEffects
<1>13. /\ HasFresh(GridConnIDs, EffectiveGridConns)
       /\ g = Fresh(GridConnIDs, EffectiveGridConns)
       /\ HasFresh(SMSIDs, EffectiveMessages)
       /\ m = Fresh(SMSIDs, EffectiveMessages)
       /\ c.message = "GRID_SYNC_REQUEST"
  <2>1. RequestFresh(c)
    BY <1>1, <1>4 DEF RequestsFresh
  <2>2. EffectOnGridConns(c) = EffectiveGridConns
    BY <1>4, EffectsAre
  <2>. QED  BY <1>6, <1>7, <1>10, <2>1, <2>2 DEF RequestFresh
<1>14. EffectiveGridConns' = Put(EffectiveGridConns, g, gc)
  <2>1. Put(Without(gridConns, g), g, gridConns[g]) = gridConns
    BY <1>1, <1>8, PutBack DEF Maps
  <2>. QED  BY <1>8, <1>10, <1>12, <2>1
<1>15. EffectiveLoads' = ShedLoadsByPriority(EffectiveLoads, LoadPriority, 1)
  BY <1>2, <1>10, <1>12 DEF Overlay, ShedLoadsByPriority
<1>16. EffectiveBlackStarts[id] = old /\ id \in DOMAIN EffectiveBlackStarts
  BY <1>8, <1>10 DEF Put
<1>17. Atomic!EnqueueSMS(id, bs, "GRID_SYNC_REQUEST")
  <2>1. EffectiveBlackStarts' = Put(EffectiveBlackStarts, id, linked)
    <3>1. Put(Put(blackStarts, id, old), id, linked)
             = Put(blackStarts, id, linked)
      BY PutTwice
    <3>. QED  BY <1>10, <1>12, <3>1
  <2>2. PICK status : status = IF m \in accepted
                               THEN "delivered" ELSE "pending"
    OBVIOUS
  <2>3. Outcome(d) = [blackStartID |-> id, instruction |-> "GRID_SYNC_REQUEST",
                      status |-> status]
    BY <1>5, <1>7, <1>13, <2>2 DEF Outcome, Message, SameCall
  <2>4. EffectiveMessages' = Put(EffectiveMessages, m,
                                 [blackStartID |-> id,
                                  instruction |-> "GRID_SYNC_REQUEST",
                                  status |-> status])
    BY <1>10, <1>12, <2>3
  <2>. QED  BY <1>11, <1>13, <2>1, <2>2, <2>4, AtomicEnqueues
<1>18. Atomic!RequestGridConnection(id)
  <2>1. /\ Atomic!HasFresh(GridConnIDs, EffectiveGridConns)
        /\ g = Atomic!Fresh(GridConnIDs, EffectiveGridConns)
        /\ EffectiveGridConns' = Atomic!Put(EffectiveGridConns, g, gc)
    BY <1>13, <1>14, AtomicHelpers
  <2>2. ~Atomic!BlackStartTerminal(EffectiveBlackStarts[id].status)
    BY <1>8, <1>16, AtomicHelpers DEF BlackStartTerminal
  <2>3. EffectiveLoads'
           = Atomic!ShedLoadsByPriority(EffectiveLoads, LoadPriority, 1)
    BY <1>15, AtomicTables
  <2>4. bs = Atomic!Syncing(EffectiveBlackStarts[id], g)
    BY <1>8, <1>16, AtomicTables
  <2>5. now' = now
    BY <1>3
  <2>. QED
    BY <1>8, <1>16, <1>17, <2>1, <2>2, <2>3, <2>4, <2>5
       DEF Atomic!RequestGridConnection
<1>. QED  BY <1>4, <1>6, <1>9, <1>18, NothingOwed

(***************************************************************************)
(* RegisterLoad: the new load is not one of those still to be written.     *)
(***************************************************************************)
LEMMA RegisterLoadAtomic ==
    ASSUME AtomicInv, NEW l \in LoadIDs, NEW load \in BS!Load,
           RegisterLoad(l, load)
    PROVE  Atomic!RegisterLoad(l, load) /\ RequestsFresh'
<1>1. /\ l \notin DOMAIN loads
      /\ loads' = Put(loads, l, load)
      /\ UNCHANGED <<now, blackStarts, gridConns, smsMessages, mu, call>>
  BY DEF RegisterLoad
<1>2. /\ EffectiveBlackStarts' = EffectiveBlackStarts
      /\ EffectiveGridConns' = EffectiveGridConns
      /\ EffectiveMessages' = EffectiveMessages
  BY <1>1 DEF EffectiveBlackStarts, EffectiveGridConns, EffectiveMessages,
              Undecided, Ahead, WithLink
<1>3. AtWork' = AtWork
  BY <1>1 DEF AtWork
<1>4. /\ l \notin DOMAIN EffectiveLoads
      /\ EffectiveLoads' = Put(EffectiveLoads, l, load)
  <2>1. CASE mu = Free
    BY <1>1, <2>1, NoEffects, NextEffects
  <2>2. CASE mu # Free
    <3>1. PICK c : AtWork = {c} /\ AtHand(c)
      BY <2>2 DEF AtomicInv, StepsInv, TypeOK, AtWork
    <3>2. /\ EffectiveLoads = EffectOnLoads(c)
          /\ EffectiveLoads' = EffectOnLoads(c)'
      BY <1>3, <3>1, EffectsAre, NextEffects
    <3>3. CASE "ListLoads" \notin Todo(c) /\ "PutLoad" \in Todo(c)
      <4>1. DOMAIN c.shedding \subseteq DOMAIN loads
        BY <3>1, <3>3 DEF AtHand, LoadsAtHand
      <4>2. EffectOnLoads(c) = Overlay(loads, c.shedding)
        BY <3>3 DEF EffectOnLoads
      <4>3. EffectOnLoads(c)' = Overlay(loads', c.shedding)
        BY <3>3 DEF EffectOnLoads
      <4>4. /\ l \notin DOMAIN Overlay(loads, c.shedding)
            /\ Overlay(Put(loads, l, load), c.shedding)
                  = Put(Overlay(loads, c.shedding), l, load)
        BY <1>1, <4>1 DEF Overlay, Put
      <4>. QED  BY <1>1, <3>2, <4>2, <4>3, <4>4
    <3>4. CASE ~("ListLoads" \notin Todo(c) /\ "PutLoad" \in Todo(c))
      BY <1>1, <3>2, <3>4 DEF EffectOnLoads
    <3>. QED  BY <3>3, <3>4
  <2>. QED  BY <2>1, <2>2
<1>5. Atomic!RegisterLoad(l, load)
  BY <1>1, <1>2, <1>4, AtomicHelpers DEF Atomic!RegisterLoad
<1>6. RequestsFresh'
  BY <1>1, <1>3
     DEF AtomicInv, RequestsFresh, RequestFresh, EffectOnGridConns, Without
<1>. QED  BY <1>5, <1>6

(***************************************************************************)
(* The clock, and a step of nobody.                                        *)
(***************************************************************************)
LEMMA ClockAtomic ==
    ASSUME AtomicInv, UNCHANGED <<store, mu, call>>
    PROVE  /\ UNCHANGED <<EffectiveBlackStarts, EffectiveGridConns,
                          EffectiveMessages, EffectiveLoads>>
           /\ RequestsFresh'
<1>1. UNCHANGED <<EffectiveBlackStarts, EffectiveGridConns, EffectiveMessages,
                  EffectiveLoads>>
  BY DEF EffectiveBlackStarts, EffectiveGridConns, EffectiveMessages,
         EffectiveLoads, Undecided, Ahead, WithLink, Message, store
<1>2. AtWork' = AtWork
  BY DEF AtWork
<1>3. RequestsFresh'
  BY <1>2 DEF AtomicInv, RequestsFresh, RequestFresh, EffectOnGridConns,
              Without, store
<1>. QED  BY <1>1, <1>3

(***************************************************************************)
(* A method that moves black start id and tells the field.                 *)
(***************************************************************************)
LEMMA MoveAtomic ==
    ASSUME AtomicInv, NEW t \in Threads, NEW method, NEW id, NEW bs, NEW old,
           NEW status, NEW message,
           EnterSending(t, Made(method, MoveAndTell, id, bs, old, None, None,
                                None, None, {}, status), message)
    PROVE  /\ Atomic!EnqueueSMS(id, bs, message)
           /\ EffectiveBlackStarts = blackStarts
           /\ UNCHANGED <<now, EffectiveGridConns, EffectiveLoads>>
           /\ RequestsFresh'
<1>1. PICK left : left = MoveAndTell
  OBVIOUS
<1>2. PICK m \in SMSIDs, accepted \in SUBSET SMSIDs :
         /\ HasFresh(SMSIDs, smsMessages)
         /\ m = Fresh(SMSIDs, smsMessages)
         /\ Enter(t, Made(method, left, id, bs, old, None, None, message, m,
                          accepted, status))
  BY <1>1, SendingIs
<1>3. PICK c : c = Made(method, left, id, bs, old, None, None, message, m,
                        accepted, status)
  OBVIOUS
<1>4. /\ c.left = MoveAndTell /\ c.id = id /\ c.bs = bs /\ c.message = message
      /\ c.msgID = m /\ c.accepted = accepted
  BY <1>1, <1>3 DEF Made
<1>5. Todo(c) = {"PutBlackStart", "SaveSMS", "PutSMS", "LinkSMS"}
  BY <1>4, BeginningPlans
<1>6. /\ AtWork' = {c} /\ now' = now
      /\ EffectiveBlackStarts = blackStarts
      /\ EffectiveGridConns = gridConns
      /\ EffectiveMessages = smsMessages
      /\ EffectiveLoads = loads
      /\ EffectiveBlackStarts' = EffectOnBlackStarts(c)
      /\ EffectiveGridConns' = EffectOnGridConns(c)
      /\ EffectiveMessages' = EffectOnMessages(c)
      /\ EffectiveLoads' = EffectOnLoads(c)
  BY <1>2, <1>3, EnterEffects
<1>7. PICK linked, outcome :
         /\ linked = IF m \in accepted
                     THEN [bs EXCEPT !.smsMessageIDs = @ \cup {m}]
                     ELSE bs
         /\ outcome = IF m \in accepted THEN "delivered" ELSE "pending"
  OBVIOUS
<1>8. EffectiveBlackStarts' = Put(EffectiveBlackStarts, id, linked)
  BY <1>4, <1>5, <1>6, <1>7 DEF EffectOnBlackStarts, LinkOf
<1>9. EffectiveMessages' = Put(EffectiveMessages, m,
                               [blackStartID |-> id, instruction |-> message,
                                status |-> outcome])
  BY <1>4, <1>5, <1>6, <1>7 DEF EffectOnMessages, Outcome, Message
<1>10. UNCHANGED <<now, EffectiveGridConns, EffectiveLoads>>
  BY <1>5, <1>6 DEF EffectOnGridConns, EffectOnLoads
<1>11. Atomic!EnqueueSMS(id, bs, message)
  BY <1>2, <1>6, <1>7, <1>8, <1>9, AtomicEnqueues
<1>12. RequestsFresh'
  BY <1>5, <1>6, NothingOwed
<1>. QED  BY <1>6, <1>10, <1>11, <1>12

(***************************************************************************)
(* StartBlackStart.                                                        *)
(***************************************************************************)
LEMMA StartBlackStartAtomic ==
    ASSUME AtomicInv, NEW t \in Threads, NEW id \in DOMAIN blackStarts,
           StartBlackStart(t, id)
    PROVE  (Stutters \/ Atomic!StartBlackStart(id)) /\ RequestsFresh'
<1>1. CASE Repeat(t, About(id, "Start", <<>>))
  BY <1>1, RepeatStutters
<1>2. CASE Refuse(t, "ErrInvalidTransition")
  BY <1>2, RefuseStutters
<1>3. CASE /\ BlackStartCanTransition(blackStarts[id].status, "in_progress")
           /\ EnterSending(t, Moving(id, "Start", MoveAndTell, "in_progress"),
                           "BLACK_START_BEGIN")
  <2>1. PICK bs : bs = [blackStarts[id] EXCEPT !.status = "in_progress"]
    OBVIOUS
  <2>2. PICK c : c = Moving(id, "Start", MoveAndTell, "in_progress")
    OBVIOUS
  <2>3. c = Made("Start", MoveAndTell, id, bs, blackStarts[id], None, None,
                 None, None, {}, OK)
    BY <2>1, <2>2 DEF Moving, About, Idle, Made
  <2>4. EnterSending(t, c, "BLACK_START_BEGIN")
    BY <1>3, <2>2
  <2>5. /\ Atomic!EnqueueSMS(id, bs, "BLACK_START_BEGIN")
        /\ EffectiveBlackStarts = blackStarts
        /\ UNCHANGED <<now, EffectiveGridConns, EffectiveLoads>>
        /\ RequestsFresh'
    BY <2>3, <2>4, MoveAtomic
  <2>6. Atomic!StartBlackStart(id)
    BY <1>3, <2>1, <2>5, AtomicTables DEF Atomic!StartBlackStart
  <2>. QED  BY <2>5, <2>6
<1>. QED  BY <1>1, <1>2, <1>3 DEF StartBlackStart

(***************************************************************************)
(* failBlackStart.                                                         *)
(***************************************************************************)
LEMMA FailBlackStartAtomic ==
    ASSUME AtomicInv, NEW t \in Threads, NEW id \in DOMAIN blackStarts,
           NEW status, FailBlackStart(t, id, status)
    PROVE  Atomic!FailExpiredBlackStarts /\ RequestsFresh'
<1>1. PICK bs : bs = [blackStarts[id] EXCEPT !.status = "failed"]
  OBVIOUS
<1>2. PICK c : c = [Moving(id, "Fail", MoveAndTell, "failed")
                       EXCEPT !.status = status]
  OBVIOUS
<1>3. c = Made("Fail", MoveAndTell, id, bs, blackStarts[id], None, None,
               None, None, {}, status)
  BY <1>1, <1>2 DEF Moving, About, Idle, Made
<1>4. EnterSending(t, c, "BLACK_START_FAILED") /\ IsOverdue(blackStarts[id], now)
  BY <1>2 DEF FailBlackStart
<1>5. /\ Atomic!EnqueueSMS(id, bs, "BLACK_START_FAILED")
      /\ EffectiveBlackStarts = blackStarts
      /\ UNCHANGED <<now, EffectiveGridConns, EffectiveLoads>>
      /\ RequestsFresh'
  BY <1>3, <1>4, MoveAtomic
<1>6. BlackStartCanTransition(blackStarts[id].status, "failed")
  BY <1>4, BlackStartTable DEF IsOverdue
<1>7. Atomic!FailBlackStart(id)
  BY <1>1, <1>5, <1>6, AtomicTables DEF Atomic!FailBlackStart
<1>8. Atomic!FailExpiredBlackStarts
  BY <1>4, <1>5, <1>7, AtomicHelpers DEF Atomic!FailExpiredBlackStarts
<1>. QED  BY <1>5, <1>8

(***************************************************************************)
(* RestoreBus.                                                             *)
(***************************************************************************)
LEMMA RestoreBusAtomic ==
    ASSUME AtomicInv, NEW t \in Threads, NEW id \in DOMAIN blackStarts,
           RestoreBus(t, id)
    PROVE  /\ \/ Stutters
              \/ Atomic!FailExpiredBlackStarts
              \/ Atomic!RestoreBus(id)
           /\ RequestsFresh'
<1>1. CASE Repeat(t, About(id, "RestoreBus", <<>>))
  BY <1>1, RepeatStutters
<1>2. CASE Refuse(t, "ErrInvalidTransition")
  BY <1>2, RefuseStutters
<1>3. CASE FailBlackStart(t, id, WriteError("ErrDeadlineExceeded"))
  BY <1>3, FailBlackStartAtomic
<1>4. CASE /\ ~IsOverdue(blackStarts[id], now)
           /\ BlackStartCanTransition(blackStarts[id].status, "bus_restored")
           /\ EnterSending(t,
                 [Moving(id, "RestoreBus", MoveAndTell, "bus_restored")
                     EXCEPT !.bs.busRestoredAt = now],
                 "BUS_RESTORED")
  <2>1. PICK bs : bs = [blackStarts[id] EXCEPT !.status = "bus_restored",
                                               !.busRestoredAt = now]
    OBVIOUS
  <2>2. PICK c : c = [Moving(id, "RestoreBus", MoveAndTell, "bus_restored")
                         EXCEPT !.bs.busRestoredAt = now]
    OBVIOUS
  <2>3. c = Made("RestoreBus", MoveAndTell, id, bs, blackStarts[id], None,
                 None, None, None, {}, OK)
    BY <2>1, <2>2 DEF Moving, About, Idle, Made
  <2>4. EnterSending(t, c, "BUS_RESTORED")
    BY <1>4, <2>2
  <2>5. /\ Atomic!EnqueueSMS(id, bs, "BUS_RESTORED")
        /\ EffectiveBlackStarts = blackStarts
        /\ UNCHANGED <<now, EffectiveGridConns, EffectiveLoads>>
        /\ RequestsFresh'
    BY <2>3, <2>4, MoveAtomic
  <2>6. ~Atomic!IsOverdue(EffectiveBlackStarts[id], now)
    BY <1>4, <2>5, AtomicHelpers
  <2>7. Atomic!RestoreBus(id)
    BY <1>4, <2>1, <2>5, <2>6, AtomicTables DEF Atomic!RestoreBus
  <2>. QED  BY <2>5, <2>7
<1>. QED  BY <1>1, <1>2, <1>3, <1>4 DEF RestoreBus

(***************************************************************************)
(* InitiateBlackStart.                                                     *)
(***************************************************************************)
LEMMA InitiateBlackStartAtomic ==
    ASSUME AtomicInv, NEW t \in Threads, InitiateBlackStart(t)
    PROVE  (Stutters \/ Atomic!InitiateBlackStart) /\ RequestsFresh'
<1>1. ASSUME NEW b,
             Repeat(t, [About(b, "Initiate", <<>>) EXCEPT !.status = Created])
      PROVE  Stutters /\ RequestsFresh'
  <2>1. \E id, status :
           Repeat(t, [About(id, "Initiate", <<>>) EXCEPT !.status = status])
    BY <1>1
  <2>. QED  BY <2>1, RepeatStutters
<1>2. CASE /\ \A b \in DOMAIN blackStarts :
                 BlackStartTerminal(blackStarts[b].status)
           /\ HasFresh(BlackStartIDs, blackStarts)
           /\ Enter(t, [Idle EXCEPT !.method = "Initiate",
                                    !.left = <<"PutBlackStart">>,
                                    !.id = Fresh(BlackStartIDs, blackStarts),
                                    !.bs = BS!NewBlackStart(now),
                                    !.status = Created])
  <2>1. PICK id, bs : /\ id = Fresh(BlackStartIDs, blackStarts)
                      /\ bs = BS!NewBlackStart(now)
    OBVIOUS
  <2>2. PICK c : c = [Idle EXCEPT !.method = "Initiate",
                                  !.left = <<"PutBlackStart">>, !.id = id,
                                  !.bs = bs, !.status = Created]
    OBVIOUS
  <2>3. Enter(t, c)
    BY <1>2, <2>1, <2>2
  <2>4. /\ c.left = <<"PutBlackStart">> /\ c.id = id /\ c.bs = bs
    BY <2>2 DEF Idle
  <2>5. Todo(c) = {"PutBlackStart"}
    BY <2>4, BeginningPlans
  <2>6. /\ AtWork' = {c} /\ now' = now
        /\ EffectiveBlackStarts = blackStarts
        /\ EffectiveBlackStarts' = Put(blackStarts, id, bs)
        /\ UNCHANGED <<EffectiveGridConns, EffectiveMessages, EffectiveLoads>>
    BY <2>3, <2>4, <2>5, EnterEffects
       DEF EffectOnBlackStarts, EffectOnGridConns, EffectOnMessages,
           EffectOnLoads, LinkOf
  <2>7. Atomic!InitiateBlackStart
    BY <1>2, <2>1, <2>6, AtomicHelpers, AtomicTables
       DEF Atomic!InitiateBlackStart
  <2>. QED  BY <2>5, <2>6, <2>7, NothingOwed
<1>. QED  BY <1>1, <1>2 DEF InitiateBlackStart

(***************************************************************************)
(* ReportNetworkInterrupt.                                                 *)
(***************************************************************************)
LEMMA ReportNetworkInterruptAtomic ==
    ASSUME AtomicInv, NEW t \in Threads, NEW id \in DOMAIN blackStarts,
           ReportNetworkInterrupt(t, id)
    PROVE  Atomic!ReportNetworkInterrupt(id) /\ RequestsFresh'
<1>1. PICK bs : bs = [blackStarts[id] EXCEPT !.networkInterrupted = TRUE]
  OBVIOUS
<1>2. PICK c : c = [About(id, "ReportInterrupt", <<"PutBlackStart">>) EXCEPT
                       !.bs.networkInterrupted = TRUE]
  OBVIOUS
<1>3. Enter(t, c)
  BY <1>2 DEF ReportNetworkInterrupt
<1>4. c.left = <<"PutBlackStart">> /\ c.id = id /\ c.bs = bs
  BY <1>1, <1>2 DEF About, Idle
<1>5. Todo(c) = {"PutBlackStart"}
  BY <1>4, BeginningPlans
<1>6. /\ AtWork' = {c} /\ now' = now
      /\ EffectiveBlackStarts = blackStarts
      /\ EffectiveBlackStarts' = Put(blackStarts, id, bs)
      /\ UNCHANGED <<EffectiveGridConns, EffectiveMessages, EffectiveLoads>>
  BY <1>3, <1>4, <1>5, EnterEffects
     DEF EffectOnBlackStarts, EffectOnGridConns, EffectOnMessages,
         EffectOnLoads, LinkOf
<1>7. Atomic!ReportNetworkInterrupt(id)
  BY <1>1, <1>6, AtomicHelpers DEF Atomic!ReportNetworkInterrupt
<1>. QED  BY <1>5, <1>6, <1>7, NothingOwed

(***************************************************************************)
(* The messages that are pending, while nobody is at work.                 *)
(***************************************************************************)
LEMMA AtomicPending ==
    ASSUME EffectiveMessages = smsMessages
    PROVE  Atomic!PendingSMS = BS!PendingSMS
  BY DEF Atomic!PendingSMS, BS!PendingSMS

(***************************************************************************)
(* RestoreNetwork.                                                         *)
(***************************************************************************)
LEMMA RestoreNetworkAtomic ==
    ASSUME AtomicInv, NEW t \in Threads, NEW id \in DOMAIN blackStarts,
           RestoreNetwork(t, id)
    PROVE  /\ \E messages \in SUBSET SMSIDs : Atomic!RestoreNetwork(id, messages)
           /\ RequestsFresh'
<1>1. PICK bs : bs = [blackStarts[id] EXCEPT !.networkInterrupted = FALSE]
  OBVIOUS
<1>2. PICK accepted \in SUBSET {m \in BS!PendingSMS :
                                   smsMessages[m].blackStartID = id} :
         Enter(t, [About(id, "RestoreNetwork", <<"PutBlackStart", "RetrySMS">>)
                      EXCEPT !.bs.networkInterrupted = FALSE,
                             !.accepted = accepted])
  BY DEF RestoreNetwork
<1>3. PICK c : c = [About(id, "RestoreNetwork", <<"PutBlackStart", "RetrySMS">>)
                       EXCEPT !.bs.networkInterrupted = FALSE,
                              !.accepted = accepted]
  OBVIOUS
<1>4. Enter(t, c)
  BY <1>2, <1>3
<1>5. /\ c.left = <<"PutBlackStart", "RetrySMS">> /\ c.id = id /\ c.bs = bs
      /\ c.accepted = accepted
  BY <1>1, <1>3 DEF About, Idle
<1>6. Todo(c) = {"PutBlackStart", "RetrySMS"}
  BY <1>5, BeginningPlans
<1>7. /\ AtWork' = {c} /\ now' = now
      /\ EffectiveBlackStarts = blackStarts
      /\ EffectiveMessages = smsMessages
      /\ EffectiveBlackStarts' = Put(blackStarts, id, bs)
      /\ EffectiveMessages' = Delivered(smsMessages, accepted)
      /\ UNCHANGED <<EffectiveGridConns, EffectiveLoads>>
  BY <1>4, <1>5, <1>6, EnterEffects
     DEF EffectOnBlackStarts, EffectOnGridConns, EffectOnMessages,
         EffectOnLoads, LinkOf
<1>8. Atomic!MarkDelivered(accepted)
  BY <1>7 DEF Atomic!MarkDelivered, Delivered
<1>9. accepted \subseteq {m \in Atomic!PendingSMS :
                             EffectiveMessages[m].blackStartID = id}
  BY <1>7, AtomicPending
<1>10. Atomic!RestoreNetwork(id, accepted)
  BY <1>1, <1>7, <1>8, <1>9, AtomicHelpers DEF Atomic!RestoreNetwork
<1>11. accepted \in SUBSET SMSIDs
  BY DEF AtomicInv, StepsInv, TypeOK, BS!TypeOK, BS!PendingSMS
<1>12. RequestsFresh'
  BY <1>6, <1>7, NothingOwed
<1>. QED  BY <1>10, <1>11, <1>12

(***************************************************************************)
(* ResendPendingSMS.                                                       *)
(***************************************************************************)
LEMMA ResendPendingSMSAtomic ==
    ASSUME AtomicInv, NEW t \in Threads, ResendPendingSMS(t)
    PROVE  /\ \E messages \in SUBSET SMSIDs : Atomic!ResendPendingSMS(messages)
           /\ RequestsFresh'
<1>1. PICK accepted \in SUBSET BS!PendingSMS :
         /\ accepted # {}
         /\ Enter(t, [Idle EXCEPT !.method = "Resend", !.left = <<"RetrySMS">>,
                                  !.accepted = accepted])
  BY DEF ResendPendingSMS
<1>2. PICK c : c = [Idle EXCEPT !.method = "Resend", !.left = <<"RetrySMS">>,
                                !.accepted = accepted]
  OBVIOUS
<1>3. c.left = <<"RetrySMS">> /\ c.accepted = accepted
  BY <1>2 DEF Idle
<1>4. Todo(c) = {"RetrySMS"}
  BY <1>3, BeginningPlans
<1>5. /\ AtWork' = {c} /\ now' = now
      /\ EffectiveMessages = smsMessages
      /\ EffectiveMessages' = Delivered(smsMessages, accepted)
      /\ UNCHANGED <<EffectiveBlackStarts, EffectiveGridConns, EffectiveLoads>>
  BY <1>1, <1>2, <1>3, <1>4, EnterEffects
     DEF EffectOnBlackStarts, EffectOnGridConns, EffectOnMessages,
         EffectOnLoads, LinkOf
<1>6. Atomic!MarkDelivered(accepted)
  BY <1>5 DEF Atomic!MarkDelivered, Delivered
<1>7. Atomic!ResendPendingSMS(accepted)
  BY <1>1, <1>5, <1>6, AtomicPending DEF Atomic!ResendPendingSMS
<1>8. accepted \in SUBSET SMSIDs
  BY DEF AtomicInv, StepsInv, TypeOK, BS!TypeOK, BS!PendingSMS
<1>9. RequestsFresh'
  BY <1>4, <1>5, NothingOwed
<1>. QED  BY <1>7, <1>8, <1>9

(***************************************************************************)
(* RequestGridConnection: its effect is yet to come.                       *)
(***************************************************************************)
LEMMA RequestGridConnectionStutters ==
    ASSUME AtomicInv, NEW t \in Threads, NEW id \in DOMAIN blackStarts,
           RequestGridConnection(t, id)
    PROVE  Stutters /\ RequestsFresh'
<1>1. CASE Refuse(t, "ErrInvalidTransition")
  BY <1>1, RefuseStutters
<1>2. CASE /\ HasFresh(GridConnIDs, gridConns)
           /\ LET g == Fresh(GridConnIDs, gridConns)
              IN EnterSending(t,
                    [About(id, "Request", RequestWrites) EXCEPT
                        !.bs = BS!Syncing(@, g),
                        !.gcID = g,
                        !.gc = [blackStartID |-> id, status |-> "requested",
                                signed |-> {}],
                        !.status = Created],
                    "GRID_SYNC_REQUEST")
  <2>1. PICK g : g = Fresh(GridConnIDs, gridConns)
    OBVIOUS
  <2>2. PICK old, bs : old = blackStarts[id] /\ bs = BS!Syncing(old, g)
    OBVIOUS
  <2>3. PICK gc : gc = [blackStartID |-> id, status |-> "requested",
                        signed |-> {}]
    OBVIOUS
  <2>4. PICK c : c = [About(id, "Request", RequestWrites) EXCEPT
                         !.bs = BS!Syncing(@, g), !.gcID = g, !.gc = gc,
                         !.status = Created]
    OBVIOUS
  <2>5. EnterSending(t, c, "GRID_SYNC_REQUEST")
    BY <1>2, <2>1, <2>3, <2>4
  <2>6. c = Made("Request", RequestWrites, id, bs, old, g, gc, None, None, {},
                 Created)
    BY <2>2, <2>4 DEF About, Idle, Made
  <2>7. PICK m \in SMSIDs, accepted \in SUBSET SMSIDs :
           /\ HasFresh(SMSIDs, smsMessages)
           /\ m = Fresh(SMSIDs, smsMessages)
           /\ Enter(t, Made("Request", RequestWrites, id, bs, old, g, gc,
                            "GRID_SYNC_REQUEST", m, accepted, Created))
    BY <2>5, <2>6, SendingIs
  <2>8. PICK d : d = Made("Request", RequestWrites, id, bs, old, g, gc,
                          "GRID_SYNC_REQUEST", m, accepted, Created)
    OBVIOUS
  <2>9. /\ d.left = RequestWrites /\ d.id = id /\ d.old = old /\ d.gcID = g
        /\ d.message = "GRID_SYNC_REQUEST" /\ d.msgID = m
    BY <2>8 DEF Made
  <2>10. g \in GridConnIDs /\ g \notin DOMAIN gridConns
    BY <1>2, <2>1, FreshIs
  <2>11. "ListLoads" \in Todo(d)
    BY <2>9, BeginningPlans
  <2>12. Put(blackStarts, id, old) = blackStarts /\ Without(gridConns, g) = gridConns
    BY <2>2, <2>10, PutBack, WithoutNew DEF AtomicInv, Maps
  <2>13. /\ EffectOnBlackStarts(d) = blackStarts
         /\ EffectOnGridConns(d) = gridConns
         /\ EffectOnMessages(d) = smsMessages
         /\ EffectOnLoads(d) = loads
    BY <2>9, <2>11, <2>12
       DEF EffectOnBlackStarts, EffectOnGridConns, EffectOnMessages,
           EffectOnLoads
  <2>14. Enter(t, d)
    BY <2>7, <2>8
  <2>15. Stutters
    BY <2>13, <2>14, EnterEffects DEF Stutters
  <2>16. AtWork' = {d}
    BY <2>14, EnterEffects
  <2>17. RequestFresh(d)'
    <3>1. EffectOnGridConns(d)' = gridConns /\ smsMessages' = smsMessages
      BY <2>9, <2>11, <2>12, <2>14 DEF EffectOnGridConns, Without, Enter, store
    <3>. QED  BY <1>2, <2>1, <2>7, <2>9, <3>1 DEF RequestFresh
  <2>. QED  BY <2>15, <2>16, <2>17 DEF RequestsFresh
<1>. QED  BY <1>1, <1>2 DEF RequestGridConnection

(***************************************************************************)
(* SignGridConnection.                                                     *)
(***************************************************************************)
LEMMA SignGridConnectionAtomic ==
    ASSUME AtomicInv, NEW t \in Threads, NEW g \in DOMAIN gridConns, NEW party,
           SignGridConnection(t, g, party)
    PROVE  /\ \/ Stutters
              \/ party \in SignParty /\ Atomic!SignGridConnection(g, party)
           /\ RequestsFresh'
<1>1. CASE Repeat(t, AboutConn(g, "Sign", <<>>))
  BY <1>1, RepeatStutters
<1>2. CASE Refuse(t, "unknown sign party")
  BY <1>2, RefuseStutters
<1>3. CASE /\ ~GridConnTerminal(gridConns[g].status)
           /\ party \in SignParty \ gridConns[g].signed
           /\ LET signed == gridConns[g].signed \cup {party}
              IN Enter(t, [AboutConn(g, "Sign", <<"PutGridConn">>) EXCEPT
                              !.gc.signed = signed,
                              !.gc.status = BS!StatusOfSignatures(signed)])
  <2>1. PICK signed, status :
           /\ signed = gridConns[g].signed \cup {party}
           /\ status = BS!StatusOfSignatures(signed)
    OBVIOUS
  <2>2. PICK gc : gc = [gridConns[g] EXCEPT !.signed = signed,
                                            !.status = status]
    OBVIOUS
  <2>3. PICK c : c = [AboutConn(g, "Sign", <<"PutGridConn">>) EXCEPT
                         !.gc.signed = signed, !.gc.status = status]
    OBVIOUS
  <2>4. Enter(t, c)
    BY <1>3, <2>1, <2>3
  <2>5. c.left = <<"PutGridConn">> /\ c.gcID = g /\ c.gc = gc
    BY <2>2, <2>3 DEF AboutConn, Idle
  <2>6. Todo(c) = {"PutGridConn"}
    BY <2>5, BeginningPlans
  <2>7. /\ AtWork' = {c} /\ now' = now
        /\ EffectiveGridConns = gridConns
        /\ EffectiveGridConns' = Put(gridConns, g, gc)
        /\ UNCHANGED <<EffectiveBlackStarts, EffectiveMessages, EffectiveLoads>>
    BY <2>4, <2>5, <2>6, EnterEffects
       DEF EffectOnBlackStarts, EffectOnGridConns, EffectOnMessages,
           EffectOnLoads
  <2>8. status = Atomic!StatusOfSignatures(signed)
    BY <2>1, AtomicTables
  <2>9. Atomic!SignGridConnection(g, party)
    BY <1>3, <2>1, <2>2, <2>7, <2>8, AtomicHelpers
       DEF Atomic!SignGridConnection
  <2>. QED  BY <1>3, <2>6, <2>7, <2>9, NothingOwed
<1>. QED  BY <1>1, <1>2, <1>3 DEF SignGridConnection

(***************************************************************************)
(* SynchronizeGrid.                                                        *)
(***************************************************************************)
LEMMA SynchronizeGridAtomic ==
    ASSUME AtomicInv, NEW t \in Threads, NEW g \in DOMAIN gridConns,
           SynchronizeGrid(t, g)
    PROVE  (Stutters \/ Atomic!SynchronizeGrid(g)) /\ RequestsFresh'
<1>1. CASE Repeat(t, AboutConn(g, "Synchronize", <<>>))
  BY <1>1, RepeatStutters
<1>2. CASE Refuse(t, "ErrDualSignRequired")
  BY <1>2, RefuseStutters
<1>3. CASE /\ BothSigned(gridConns[g])
           /\ GridConnCanTransition(gridConns[g].status, "synchronized")
           /\ EnterSending(t, [AboutConn(g, "Synchronize", SynchronizeWrites)
                                  EXCEPT !.gc.status = "synchronized"],
                           "GRID_SYNCHRONIZED")
  <2>1. PICK id : id = gridConns[g].blackStartID
    OBVIOUS
  <2>2. PICK gc : gc = [gridConns[g] EXCEPT !.status = "synchronized"]
    OBVIOUS
  <2>3. PICK c : c = [AboutConn(g, "Synchronize", SynchronizeWrites)
                         EXCEPT !.gc.status = "synchronized"]
    OBVIOUS
  <2>4. c = Made("Synchronize", SynchronizeWrites, id, None, None, g, gc,
                 None, None, {}, OK)
    BY <2>1, <2>2, <2>3 DEF AboutConn, Idle, Made
  <2>5. PICK m \in SMSIDs, accepted \in SUBSET SMSIDs :
           /\ HasFresh(SMSIDs, smsMessages)
           /\ m = Fresh(SMSIDs, smsMessages)
           /\ Enter(t, Made("Synchronize", SynchronizeWrites, id, None, None,
                            g, gc, "GRID_SYNCHRONIZED", m, accepted, OK))
    <3>1. EnterSending(t, c, "GRID_SYNCHRONIZED")
      BY <1>3, <2>3
    <3>2. EnterSending(t, Made("Synchronize", SynchronizeWrites, id, None,
                               None, g, gc, None, None, {}, OK),
                       "GRID_SYNCHRONIZED")
      BY <2>4, <3>1
    <3>. QED  BY <3>2, SendingIs
  <2>6. PICK d : d = Made("Synchronize", SynchronizeWrites, id, None, None,
                          g, gc, "GRID_SYNCHRONIZED", m, accepted, OK)
    OBVIOUS
  <2>7. /\ d.left = SynchronizeWrites /\ d.id = id /\ d.gcID = g /\ d.gc = gc
        /\ d.message = "GRID_SYNCHRONIZED" /\ d.msgID = m
        /\ d.accepted = accepted
    BY <2>6 DEF Made
  <2>8. Todo(d) = {"PutGridConn", "SaveSMS", "PutSMS", "LinkSMS"}
    BY <2>7, BeginningPlans
  <2>9. /\ AtWork' = {d} /\ now' = now
        /\ EffectiveBlackStarts = blackStarts
        /\ EffectiveGridConns = gridConns
        /\ EffectiveMessages = smsMessages
        /\ EffectiveLoads = loads
        /\ EffectiveBlackStarts' = EffectOnBlackStarts(d)
        /\ EffectiveGridConns' = EffectOnGridConns(d)
        /\ EffectiveMessages' = EffectOnMessages(d)
        /\ EffectiveLoads' = EffectOnLoads(d)
    BY <2>5, <2>6, EnterEffects
  <2>10. EffectiveGridConns' = Put(gridConns, g, gc) /\ UNCHANGED EffectiveLoads
    BY <2>7, <2>8, <2>9 DEF EffectOnGridConns, EffectOnLoads
  <2>11. PICK bs, linked, outcome :
            /\ bs = blackStarts[id]
            /\ linked = IF m \in accepted
                        THEN [bs EXCEPT !.smsMessageIDs = @ \cup {m}]
                        ELSE bs
            /\ outcome = IF m \in accepted THEN "delivered" ELSE "pending"
    OBVIOUS
  <2>12. EffectiveBlackStarts' = Put(EffectiveBlackStarts, id, linked)
    BY <2>7, <2>8, <2>9, <2>11 DEF EffectOnBlackStarts, LinkOf
  <2>13. EffectiveMessages' = Put(EffectiveMessages, m,
                                  [blackStartID |-> id,
                                   instruction |-> "GRID_SYNCHRONIZED",
                                   status |-> outcome])
    BY <2>7, <2>8, <2>9, <2>11 DEF EffectOnMessages, Outcome, Message
  <2>14. Atomic!EnqueueSMS(id, bs, "GRID_SYNCHRONIZED")
    BY <2>5, <2>9, <2>11, <2>12, <2>13, AtomicEnqueues
  <2>15. gridConns[g].status \notin {"synchronized", "completed"}
    BY <1>3, StoredGridConn, GridConnTable DEF AtomicInv
  <2>16. Atomic!SynchronizeGrid(g)
    BY <1>3, <2>1, <2>2, <2>9, <2>10, <2>11, <2>14, <2>15, AtomicHelpers,
       AtomicTables DEF Atomic!SynchronizeGrid
  <2>. QED  BY <2>8, <2>9, <2>16, NothingOwed
<1>. QED  BY <1>1, <1>2, <1>3 DEF SynchronizeGrid

(***************************************************************************)
(* CompleteBlackStart.                                                     *)
(***************************************************************************)
LEMMA CompleteBlackStartAtomic ==
    ASSUME AtomicInv, NEW t \in Threads, NEW id \in DOMAIN blackStarts,
           CompleteBlackStart(t, id)
    PROVE  (Stutters \/ Atomic!CompleteBlackStart(id)) /\ RequestsFresh'
<1>1. CASE Repeat(t, About(id, "Complete", <<>>))
  BY <1>1, RepeatStutters
<1>2. CASE \E err : Refuse(t, err)
  BY <1>2, RefuseStutters
<1>3. CASE LET g == blackStarts[id].gridConnID
           IN /\ blackStarts[id].status = "grid_syncing"
              /\ gridConns[g].status = "synchronized"
              /\ Enter(t, [Moving(id, "Complete", CompleteWrites, "completed")
                              EXCEPT !.gcID = g,
                                     !.gc = [gridConns[g] EXCEPT
                                                !.status = "completed"]])
  <2>1. PICK g : g = blackStarts[id].gridConnID
    OBVIOUS
  <2>2. PICK bs : bs = [blackStarts[id] EXCEPT !.status = "completed"]
    OBVIOUS
  <2>3. PICK gc : gc = [gridConns[g] EXCEPT !.status = "completed"]
    OBVIOUS
  <2>4. PICK c : c = [Moving(id, "Complete", CompleteWrites, "completed")
                         EXCEPT !.gcID = g, !.gc = gc]
    OBVIOUS
  <2>5. Enter(t, c)
    BY <1>3, <2>1, <2>3, <2>4
  <2>6. c.left = CompleteWrites /\ c.id = id /\ c.bs = bs /\ c.gcID = g
        /\ c.gc = gc
    BY <2>2, <2>4 DEF Moving, About, Idle
  <2>7. Todo(c) = {"PutBlackStart", "PutGridConn"}
    BY <2>6, BeginningPlans
  <2>8. /\ g \in DOMAIN gridConns
        /\ blackStarts[id].status = "grid_syncing"
        /\ gridConns[g].status = "synchronized"
    BY <1>3, <2>1 DEF AtomicInv, StepsInv, SyncingConnected
  <2>9. /\ AtWork' = {c} /\ now' = now
        /\ EffectiveBlackStarts = blackStarts
        /\ EffectiveGridConns = gridConns
        /\ EffectiveBlackStarts' = Put(blackStarts, id, bs)
        /\ EffectiveGridConns' = Put(gridConns, g, gc)
        /\ UNCHANGED <<EffectiveMessages, EffectiveLoads>>
    BY <2>5, <2>6, <2>7, EnterEffects
       DEF EffectOnBlackStarts, EffectOnGridConns, EffectOnMessages,
           EffectOnLoads, LinkOf
  <2>10. /\ BlackStartCanTransition("grid_syncing", "completed")
         /\ GridConnCanTransition("synchronized", "completed")
    BY BlackStartTable, GridConnTable
  <2>11. Atomic!CompleteBlackStart(id)
    BY <2>1, <2>2, <2>3, <2>8, <2>9, <2>10, AtomicHelpers, AtomicTables
       DEF Atomic!CompleteBlackStart
  <2>. QED  BY <2>7, <2>9, <2>11, NothingOwed
<1>. QED  BY <1>1, <1>2, <1>3 DEF CompleteBlackStart

-----------------------------------------------------------------------------
(* Atomicity: every step *)

(***************************************************************************)
(* The collections stay functions.                                         *)
(***************************************************************************)
LEMMA MapsKept ==
    ASSUME Maps, [Next]_vars
    PROVE  Maps'
<1>1. CASE UNCHANGED store
  BY <1>1 DEF Maps, IsMap, store
<1>2. ASSUME NEW t \in Threads, Begin(t) PROVE UNCHANGED store
  BY <1>2, BeginWritesNothing
<1>3. ASSUME NEW t \in Threads, Proceed(t) PROVE Maps'
  <2>1. CASE PutBlackStart(t)
    BY <2>1, PutIs DEF PutBlackStart, Maps
  <2>2. CASE PutGridConn(t)
    BY <2>2, PutIs DEF PutGridConn, Maps
  <2>3. CASE ListLoads(t)
    BY <1>1, <2>3 DEF ListLoads
  <2>4. ASSUME NEW l, PutLoad(t, l) PROVE Maps'
    BY <2>4, PutIs DEF PutLoad, Maps
  <2>5. CASE SaveSMS(t)
    BY <2>5, PutIs DEF SaveSMS, Maps
  <2>6. CASE PutSMS(t)
    <3>1. CASE UNCHANGED smsMessages
      BY <1>1, <2>6, <3>1 DEF PutSMS, store
    <3>2. CASE smsMessages' = Put(smsMessages, call[t].msgID,
                                  Message(call[t], "delivered"))
      BY <2>6, <3>2, PutIs DEF PutSMS, Maps
    <3>. QED  BY <2>6, <3>1, <3>2 DEF PutSMS
  <2>7. CASE LinkSMS(t)
    BY <2>7, PutIs DEF LinkSMS, Maps
  <2>8. ASSUME NEW m, RetrySMS(t, m) PROVE Maps'
    BY <2>8, PutIs DEF RetrySMS, Maps
  <2>9. CASE LoopEnds(t) \/ Return(t)
    BY <1>1, <2>9 DEF LoopEnds, Return
  <2>. QED
    BY <1>3, <2>1, <2>2, <2>3, <2>4, <2>5, <2>6, <2>7, <2>8, <2>9 DEF Proceed
<1>4. ASSUME NEW l, NEW load, RegisterLoad(l, load) PROVE Maps'
  BY <1>4, PutIs DEF RegisterLoad, Maps
<1>5. CASE Tick \/ UNCHANGED vars
  BY <1>1, <1>5 DEF Tick, vars, store
<1>. QED  BY <1>1, <1>2, <1>3, <1>4, <1>5 DEF Next

(***************************************************************************)
(* In the beginning nobody is at work, and the effective store is the      *)
(* store.                                                                  *)
(***************************************************************************)
LEMMA AtomicInit ==
    ASSUME Init
    PROVE  AtomicInv /\ Atomic!Init
<1>1. /\ now = 1 /\ blackStarts = <<>> /\ gridConns = <<>>
      /\ smsMessages = <<>> /\ loads = [l \in SeedLoads |-> BS!Energized]
      /\ mu = Free
  BY DEF Init, BS!Init
<1>2. StepsInv
  BY StepsInvInit
<1>3. IsMap(<<>>)
  BY DEF IsMap
<1>4. Maps
  BY <1>1, <1>3 DEF Maps, IsMap
<1>5. AtWork = {}
  BY <1>1, StepsAssumption DEF AtWork
<1>6. RequestsFresh
  BY <1>5 DEF RequestsFresh
<1>7. Atomic!Energized = BS!Energized
  BY DEF Atomic!Energized, BS!Energized
<1>8. Atomic!Init
  BY <1>1, <1>7, NoEffects DEF Atomic!Init
<1>. QED  BY <1>2, <1>4, <1>6, <1>8 DEF AtomicInv

(***************************************************************************)
(* From the handler's call to the first write: a step of BlackStart, or    *)
(* none.                                                                   *)
(***************************************************************************)
LEMMA BeginAtomic ==
    ASSUME AtomicInv, NEW t \in Threads, Begin(t)
    PROVE  (Stutters \/ Atomic!Next) /\ RequestsFresh'
<1>1. StepsInv
  BY DEF AtomicInv
<1>2. CASE InitiateBlackStart(t)
  BY <1>2, InitiateBlackStartAtomic DEF Atomic!Next
<1>3. ASSUME NEW id \in BlackStartIDs, UnknownBlackStart(t, id)
      PROVE  Stutters /\ RequestsFresh'
  BY <1>3, RefuseStutters DEF UnknownBlackStart
<1>4. ASSUME NEW id \in DOMAIN blackStarts,
             \/ StartBlackStart(t, id)
             \/ RestoreBus(t, id)
             \/ RequestGridConnection(t, id)
             \/ CompleteBlackStart(t, id)
             \/ ReportNetworkInterrupt(t, id)
             \/ RestoreNetwork(t, id)
             \/ FailBlackStart(t, id, 0)
      PROVE  (Stutters \/ Atomic!Next) /\ RequestsFresh'
  <2>1. id \in BlackStartIDs
    BY <1>1, StoredBlackStart
  <2>2. CASE StartBlackStart(t, id)
    BY <2>1, <2>2, StartBlackStartAtomic DEF Atomic!Next
  <2>3. CASE RestoreBus(t, id)
    BY <2>1, <2>3, RestoreBusAtomic DEF Atomic!Next
  <2>4. CASE RequestGridConnection(t, id)
    BY <2>4, RequestGridConnectionStutters
  <2>5. CASE CompleteBlackStart(t, id)
    BY <2>1, <2>5, CompleteBlackStartAtomic DEF Atomic!Next
  <2>6. CASE ReportNetworkInterrupt(t, id)
    BY <2>1, <2>6, ReportNetworkInterruptAtomic DEF Atomic!Next
  <2>7. CASE RestoreNetwork(t, id)
    BY <2>1, <2>7, RestoreNetworkAtomic DEF Atomic!Next
  <2>8. CASE FailBlackStart(t, id, 0)
    BY <2>8, FailBlackStartAtomic DEF Atomic!Next
  <2>. QED
    BY <1>4, <2>2, <2>3, <2>4, <2>5, <2>6, <2>7, <2>8
<1>5. ASSUME NEW g \in GridConnIDs, UnknownGridConn(t, g)
      PROVE  Stutters /\ RequestsFresh'
  BY <1>5, RefuseStutters DEF UnknownGridConn
<1>6. ASSUME NEW g \in DOMAIN gridConns, NEW party,
             SignGridConnection(t, g, party)
      PROVE  (Stutters \/ Atomic!Next) /\ RequestsFresh'
  <2>1. g \in GridConnIDs
    BY <1>1, StoredGridConn
  <2>2. Atomic!SignParty = SignParty
    BY AtomicHelpers
  <2>. QED  BY <1>6, <2>1, <2>2, SignGridConnectionAtomic DEF Atomic!Next
<1>7. ASSUME NEW g \in DOMAIN gridConns, SynchronizeGrid(t, g)
      PROVE  (Stutters \/ Atomic!Next) /\ RequestsFresh'
  <2>1. g \in GridConnIDs
    BY <1>1, StoredGridConn
  <2>. QED  BY <1>7, <2>1, SynchronizeGridAtomic DEF Atomic!Next
<1>8. CASE ResendPendingSMS(t)
  BY <1>8, ResendPendingSMSAtomic DEF Atomic!Next
<1>. QED
  BY <1>2, <1>3, <1>4, <1>5, <1>6, <1>7, <1>8 DEF Begin

(***************************************************************************)
(* Of the store calls, only ListLoads is a step of BlackStart.             *)
(***************************************************************************)
LEMMA ProceedAtomic ==
    ASSUME AtomicInv, NEW t \in Threads, Proceed(t)
    PROVE  (Stutters \/ Atomic!Next) /\ RequestsFresh'
<1>1. CASE ListLoads(t)
  BY <1>1, ListLoadsRequests DEF Atomic!Next
<1>2. CASE PutSMS(t)
  BY <1>2, PutSMSDeliveredStutters, PutSMSRejectedStutters
<1>. QED
  BY <1>1, <1>2, PutBlackStartStutters, PutGridConnStutters, PutLoadStutters,
     SaveSMSStutters, LinkSMSStutters, RetrySMSStutters, LoopEndsStutters,
     ReturnStutters DEF Proceed

(***************************************************************************)
(* Every step maps to a step of BlackStart or to a stuttering step.        *)
(***************************************************************************)
LEMMA AtomicNext ==
    AtomicInv /\ [Next]_vars => AtomicInv' /\ [Atomic!Next]_(Atomic!vars)
<1>. SUFFICES ASSUME AtomicInv, [Next]_vars
              PROVE  AtomicInv' /\ [Atomic!Next]_(Atomic!vars)
  OBVIOUS
<1>1. Stutters => UNCHANGED Atomic!vars
  BY DEF Stutters, Atomic!vars
<1>2. StepsInv' /\ Maps'
  BY StepsInvNext, MapsKept DEF AtomicInv
<1>3. ASSUME NEW t \in Threads, Begin(t) \/ Proceed(t)
      PROVE  (Stutters \/ Atomic!Next) /\ RequestsFresh'
  BY <1>3, BeginAtomic, ProceedAtomic
<1>4. ASSUME NEW l \in LoadIDs, NEW load \in BS!Load, RegisterLoad(l, load)
      PROVE  Atomic!Next /\ RequestsFresh'
  <2>1. Atomic!Load = BS!Load
    BY AtomicTables
  <2>. QED  BY <1>4, <2>1, RegisterLoadAtomic DEF Atomic!Next
<1>5. CASE Tick
  <2>1. UNCHANGED <<store, mu, call>>
    BY <1>5 DEF Tick
  <2>2. Atomic!Tick
    BY <1>5, <2>1, ClockAtomic DEF Tick, Atomic!Tick
  <2>. QED  BY <1>2, <2>1, <2>2, ClockAtomic DEF AtomicInv, Atomic!Next
<1>6. CASE UNCHANGED vars
  <2>1. UNCHANGED <<store, mu, call>> /\ now' = now
    BY <1>6 DEF vars, store
  <2>. QED  BY <1>1, <1>2, <2>1, ClockAtomic DEF AtomicInv, Stutters
<1>. QED  BY <1>1, <1>2, <1>3, <1>4, <1>5, <1>6 DEF AtomicInv, Next

(***************************************************************************)
(* "It owns a mutex that serialises multi-step state transitions"          *)
(* (service.go:14): for any number of threads, and whatever happens        *)
(* between the store calls of a method, the methods have the effect of     *)
(* steps of BlackStart.                                                    *)
(***************************************************************************)
THEOREM MethodsAtomic == Spec => MethodsAreAtomic
<1>1. Init => AtomicInv /\ Atomic!Init
  BY AtomicInit
<1>. QED
  BY <1>1, AtomicNext, PTL DEF Spec, MethodsAreAtomic, Atomic!Spec

=============================================================================
