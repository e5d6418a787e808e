-------------------------- MODULE BlackStartProofs --------------------------
(***************************************************************************)
(* Proofs of the safety properties of BlackStart, for every set of         *)
(* identifiers, every deadline and a clock that runs as far as it likes.   *)
(* The argument has three parts: what each action does to the collections, *)
(* field by field (StepCases: every step is one of nine kinds); that the   *)
(* nine kinds preserve the invariant SafetyInv, one lemma per conjunct;    *)
(* and the theorems, which follow from it.                                 *)
(***************************************************************************)
EXTENDS BlackStart, DomainProofs, FiniteSetTheorems

(***************************************************************************)
(* Every reference from one collection into another is to a record that    *)
(* exists.                                                                 *)
(***************************************************************************)
ReferencesExist ==
    /\ \A g \in DOMAIN gridConns :
          gridConns[g].blackStartID \in DOMAIN blackStarts
    /\ \A m \in DOMAIN smsMessages :
          smsMessages[m].blackStartID \in DOMAIN blackStarts

TypeInv == TypeOK /\ ReferencesExist

-----------------------------------------------------------------------------
(* What enqueueSMS does, field by field *)

(***************************************************************************)
(* Message m is new in the outbox, with this status; everything else there *)
(* is as it was.                                                           *)
(***************************************************************************)
NewMessage(id, instruction, m, status) ==
    /\ m \in SMSIDs /\ m \notin DOMAIN smsMessages
    /\ status \in {"pending", "delivered"}
    /\ DOMAIN smsMessages' = DOMAIN smsMessages \cup {m}
    /\ smsMessages'[m] \in SMSMessage
    /\ smsMessages'[m].blackStartID = id
    /\ smsMessages'[m].instruction = instruction
    /\ smsMessages'[m].status = status
    /\ \A x \in DOMAIN smsMessages : smsMessages'[x] = smsMessages[x]

(***************************************************************************)
(* Black start id is now bs, but for its links; every other one is as it   *)
(* was.                                                                    *)
(***************************************************************************)
NowBlackStart(id, bs, linked) ==
    /\ DOMAIN blackStarts' = DOMAIN blackStarts \cup {id}
    /\ blackStarts'[id] \in BlackStartRecord
    /\ blackStarts'[id].status = bs.status
    /\ blackStarts'[id].deadline = bs.deadline
    /\ blackStarts'[id].busRestoredAt = bs.busRestoredAt
    /\ blackStarts'[id].gridConnID = bs.gridConnID
    /\ blackStarts'[id].smsMessageIDs = linked
    /\ \A b \in DOMAIN blackStarts : b # id => blackStarts'[b] = blackStarts[b]

(***************************************************************************)
(* The two outcomes of enqueueSMS differ in the status of the message and  *)
(* in whether it is linked.                                                *)
(***************************************************************************)
LEMMA EnqueueSMSIs ==
    ASSUME NEW id \in BlackStartIDs, NEW bs \in BlackStartRecord,
           NEW instruction \in Instruction,
           EnqueueSMS(id, bs, instruction)
    PROVE  \E m, status :
              /\ NewMessage(id, instruction, m, status)
              /\ NowBlackStart(id, bs,
                    IF status = "delivered" THEN bs.smsMessageIDs \cup {m}
                                            ELSE bs.smsMessageIDs)
<1> DEFINE m == Fresh(SMSIDs, smsMessages)
           message(status) == [blackStartID |-> id,
                               instruction |-> instruction,
                               status |-> status]
           linkedBS == [bs EXCEPT !.smsMessageIDs = @ \cup {m}]
<1>1. m \in SMSIDs /\ m \notin DOMAIN smsMessages
  BY FreshIs DEF EnqueueSMS
<1>2. message("pending") \in SMSMessage /\ message("delivered") \in SMSMessage
  BY DEF SMSMessage
<1>3. /\ linkedBS \in BlackStartRecord
      /\ linkedBS.status = bs.status
      /\ linkedBS.deadline = bs.deadline
      /\ linkedBS.busRestoredAt = bs.busRestoredAt
      /\ linkedBS.gridConnID = bs.gridConnID
      /\ linkedBS.smsMessageIDs = bs.smsMessageIDs \cup {m}
  BY <1>1 DEF BlackStartRecord
<1>4. \/ /\ smsMessages' = Put(smsMessages, m, message("pending"))
         /\ blackStarts' = Put(blackStarts, id, bs)
      \/ /\ smsMessages' = Put(smsMessages, m, message("delivered"))
         /\ blackStarts' = Put(blackStarts, id, linkedBS)
  BY DEF EnqueueSMS
<1> HIDE DEF m, linkedBS
<1>5. CASE /\ smsMessages' = Put(smsMessages, m, message("pending"))
           /\ blackStarts' = Put(blackStarts, id, bs)
  <2>1. NewMessage(id, instruction, m, "pending")
    BY <1>1, <1>2, <1>5 DEF NewMessage, Put
  <2>2. NowBlackStart(id, bs, bs.smsMessageIDs)
    BY <1>5 DEF NowBlackStart, Put
  <2>. QED  BY <2>1, <2>2
<1>6. CASE /\ smsMessages' = Put(smsMessages, m, message("delivered"))
           /\ blackStarts' = Put(blackStarts, id, linkedBS)
  <2>1. NewMessage(id, instruction, m, "delivered")
    BY <1>1, <1>2, <1>6 DEF NewMessage, Put
  <2>2. NowBlackStart(id, bs, bs.smsMessageIDs \cup {m})
    BY <1>3, <1>6 DEF NowBlackStart, Put
  <2>. QED  BY <2>1, <2>2
<1>. QED  BY <1>4, <1>5, <1>6

-----------------------------------------------------------------------------
(* Type correctness *)

(***************************************************************************)
(* The program starts with empty collections and the seeded loads, all     *)
(* well typed.                                                             *)
(***************************************************************************)
LEMMA TypeInvInit == Init => TypeInv
  BY BlackStartAssumption DEF Init, TypeInv, TypeOK, ReferencesExist, Load, Energized

(***************************************************************************)
(* A handler that ends in enqueueSMS keeps the black starts and the outbox *)
(* well typed.                                                             *)
(***************************************************************************)
LEMMA EnqueueSMSType ==
    ASSUME TypeInv,
           NEW id \in DOMAIN blackStarts, NEW bs \in BlackStartRecord,
           NEW instruction \in Instruction,
           EnqueueSMS(id, bs, instruction)
    PROVE  /\ DOMAIN blackStarts' = DOMAIN blackStarts
           /\ \A b \in DOMAIN blackStarts : blackStarts'[b] \in BlackStartRecord
           /\ DOMAIN smsMessages' \subseteq SMSIDs
           /\ \A m \in DOMAIN smsMessages' :
                 /\ smsMessages'[m] \in SMSMessage
                 /\ smsMessages'[m].blackStartID \in DOMAIN blackStarts
<1>1. id \in BlackStartIDs
  BY DEF TypeInv, TypeOK
<1>2. PICK m, status :
        /\ NewMessage(id, instruction, m, status)
        /\ NowBlackStart(id, bs,
              IF status = "delivered" THEN bs.smsMessageIDs \cup {m}
                                      ELSE bs.smsMessageIDs)
  BY <1>1, EnqueueSMSIs
<1>. QED
  BY <1>2 DEF NewMessage, NowBlackStart, TypeInv, TypeOK, ReferencesExist

(***************************************************************************)
(* The updates the handlers make of a black start keep it one.             *)
(***************************************************************************)
LEMMA BlackStartUpdates ==
    ASSUME NEW bs \in BlackStartRecord
    PROVE  /\ \A status \in BlackStartStatus :
                 [bs EXCEPT !.status = status] \in BlackStartRecord
           /\ \A time \in Nat :
                 [bs EXCEPT !.status = "bus_restored", !.busRestoredAt = time]
                    \in BlackStartRecord
           /\ \A gc \in GridConnIDs : Syncing(bs, gc) \in BlackStartRecord
           /\ \A flag \in BOOLEAN :
                 [bs EXCEPT !.networkInterrupted = flag] \in BlackStartRecord
<1>1. ASSUME NEW time \in Nat
      PROVE  [bs EXCEPT !.status = "bus_restored", !.busRestoredAt = time]
                \in BlackStartRecord
  BY BlackStartTable DEF BlackStartRecord
<1>2. ASSUME NEW gc \in GridConnIDs
      PROVE  Syncing(bs, gc) \in BlackStartRecord
  BY BlackStartTable DEF Syncing, BlackStartRecord
<1>3. ASSUME NEW status \in BlackStartStatus
      PROVE  [bs EXCEPT !.status = status] \in BlackStartRecord
  BY DEF BlackStartRecord
<1>4. ASSUME NEW flag \in BOOLEAN
      PROVE  [bs EXCEPT !.networkInterrupted = flag] \in BlackStartRecord
  BY DEF BlackStartRecord
<1>. QED  BY <1>1, <1>2, <1>3, <1>4

(***************************************************************************)
(* Every handler, sweep and delivery stores only well-typed records and    *)
(* only references to records that exist.                                  *)
(***************************************************************************)
LEMMA TypeInvNext == TypeInv /\ [Next]_vars => TypeInv'
<1> SUFFICES ASSUME TypeInv, [Next]_vars PROVE TypeInv'
  OBVIOUS
<1> USE DEF TypeInv, TypeOK, ReferencesExist
<1>1. CASE InitiateBlackStart
  <2>1. NewBlackStart(now) \in BlackStartRecord
    BY BlackStartTable, BlackStartAssumption
       DEF NewBlackStart, BlackStartRecord
  <2>. QED  BY <1>1, <2>1, FreshIs DEF InitiateBlackStart, Put
<1>2. ASSUME NEW id \in BlackStartIDs, StartBlackStart(id) PROVE TypeInv'
  <2>1. [blackStarts[id] EXCEPT !.status = "in_progress"] \in BlackStartRecord
    BY <1>2, BlackStartTable, BlackStartUpdates DEF StartBlackStart
  <2>. QED  BY <1>2, <2>1, EnqueueSMSType DEF StartBlackStart, Instruction
<1>3. ASSUME NEW id \in DOMAIN blackStarts, FailBlackStart(id) PROVE TypeInv'
  <2>1. [blackStarts[id] EXCEPT !.status = "failed"] \in BlackStartRecord
    BY BlackStartTable, BlackStartUpdates
  <2>. QED  BY <1>3, <2>1, EnqueueSMSType DEF FailBlackStart, Instruction
<1>4. ASSUME NEW id \in BlackStartIDs, RestoreBus(id) PROVE TypeInv'
  <2>1. id \in DOMAIN blackStarts
    BY <1>4 DEF RestoreBus
  <2>2. CASE IsOverdue(blackStarts[id], now)
    <3>1. FailBlackStart(id)
      BY <1>4, <2>2 DEF RestoreBus
    <3>. QED  BY <1>3, <2>1, <3>1
  <2>3. CASE ~IsOverdue(blackStarts[id], now)
    <3> DEFINE bs == [blackStarts[id] EXCEPT !.status = "bus_restored",
                                             !.busRestoredAt = now]
    <3>1. bs \in BlackStartRecord
      BY <2>1, BlackStartUpdates
    <3>2. EnqueueSMS(id, bs, "BUS_RESTORED") /\ UNCHANGED <<now, gridConns, loads>>
      BY <1>4, <2>3 DEF RestoreBus
    <3> HIDE DEF bs
    <3>. QED  BY <2>1, <3>1, <3>2, EnqueueSMSType DEF Instruction
  <2>. QED  BY <2>2, <2>3
<1>5. ASSUME NEW id \in BlackStartIDs, RequestGridConnection(id)
      PROVE  TypeInv'
  <2> DEFINE gc == Fresh(GridConnIDs, gridConns)
  <2>1. id \in DOMAIN blackStarts /\ gc \in GridConnIDs
    BY <1>5, FreshIs DEF RequestGridConnection
  <2>2. Syncing(blackStarts[id], gc) \in BlackStartRecord
    BY <2>1, BlackStartUpdates
  <2>3. /\ DOMAIN gridConns' = DOMAIN gridConns \cup {gc}
        /\ gridConns'[gc] \in GridConnection
        /\ gridConns'[gc].blackStartID = id
        /\ \A g \in DOMAIN gridConns : g # gc => gridConns'[g] = gridConns[g]
    BY <1>5, <2>1, GridConnTable
       DEF RequestGridConnection, Put, GridConnection
  <2>4. /\ DOMAIN loads' = DOMAIN loads
        /\ \A l \in DOMAIN loads : loads'[l] \in Load
    BY <1>5 DEF RequestGridConnection, ShedLoadsByPriority, Load, Energized, Shed
  <2>5. EnqueueSMS(id, Syncing(blackStarts[id], gc), "GRID_SYNC_REQUEST")
    BY <1>5 DEF RequestGridConnection
  <2>6. now' = now
    BY <1>5 DEF RequestGridConnection
  <2> HIDE DEF gc
  <2>. QED
    BY <2>1, <2>2, <2>3, <2>4, <2>5, <2>6, EnqueueSMSType DEF Instruction
<1>6. ASSUME NEW gc \in GridConnIDs, NEW party \in SignParty,
             SignGridConnection(gc, party)
      PROVE  TypeInv'
  <2>1. StatusOfSignatures(gridConns[gc].signed \cup {party}) \in GridConnStatus
    BY GridConnTable DEF StatusOfSignatures
  <2>. QED
    BY <1>6, <2>1 DEF SignGridConnection, Put, GridConnection
<1>7. ASSUME NEW gc \in GridConnIDs, SynchronizeGrid(gc) PROVE TypeInv'
  <2> DEFINE id == gridConns[gc].blackStartID
  <2>1. id \in DOMAIN blackStarts /\ gc \in DOMAIN gridConns
    BY <1>7 DEF SynchronizeGrid
  <2>2. /\ DOMAIN gridConns' = DOMAIN gridConns
        /\ \A g \in DOMAIN gridConns :
              /\ gridConns'[g] \in GridConnection
              /\ gridConns'[g].blackStartID = gridConns[g].blackStartID
    BY <1>7, GridConnTable DEF SynchronizeGrid, Put, GridConnection
  <2>3. EnqueueSMS(id, blackStarts[id], "GRID_SYNCHRONIZED")
    BY <1>7 DEF SynchronizeGrid
  <2>4. UNCHANGED <<now, loads>>
    BY <1>7 DEF SynchronizeGrid
  <2> HIDE DEF id
  <2>. QED  BY <2>1, <2>2, <2>3, <2>4, EnqueueSMSType DEF Instruction
<1>8. ASSUME NEW id \in BlackStartIDs, CompleteBlackStart(id) PROVE TypeInv'
  <2>1. /\ DOMAIN blackStarts' = DOMAIN blackStarts
        /\ \A b \in DOMAIN blackStarts : blackStarts'[b] \in BlackStartRecord
    BY <1>8, BlackStartTable, BlackStartUpdates DEF CompleteBlackStart, Put
  <2>2. /\ DOMAIN gridConns' = DOMAIN gridConns
        /\ \A g \in DOMAIN gridConns :
              /\ gridConns'[g] \in GridConnection
              /\ gridConns'[g].blackStartID = gridConns[g].blackStartID
    BY <1>8, GridConnTable DEF CompleteBlackStart, Put, GridConnection
  <2>. QED  BY <1>8, <2>1, <2>2 DEF CompleteBlackStart
<1>9. ASSUME NEW id \in BlackStartIDs, ReportNetworkInterrupt(id)
      PROVE  TypeInv'
  <2>1. /\ DOMAIN blackStarts' = DOMAIN blackStarts
        /\ \A b \in DOMAIN blackStarts : blackStarts'[b] \in BlackStartRecord
    BY <1>9, BlackStartUpdates DEF ReportNetworkInterrupt, Put
  <2>. QED  BY <1>9, <2>1 DEF ReportNetworkInterrupt
<1>10. ASSUME NEW messages, MarkDelivered(messages)
       PROVE  /\ DOMAIN smsMessages' = DOMAIN smsMessages
              /\ \A m \in DOMAIN smsMessages :
                    /\ smsMessages'[m] \in SMSMessage
                    /\ smsMessages'[m].blackStartID
                          = smsMessages[m].blackStartID
  BY <1>10 DEF MarkDelivered, SMSMessage
<1>11. ASSUME NEW id \in BlackStartIDs, NEW messages \in SUBSET SMSIDs,
              RestoreNetwork(id, messages)
       PROVE  TypeInv'
  <2>1. /\ DOMAIN blackStarts' = DOMAIN blackStarts
        /\ \A b \in DOMAIN blackStarts : blackStarts'[b] \in BlackStartRecord
    BY <1>11, BlackStartUpdates DEF RestoreNetwork, Put
  <2>. QED  BY <1>10, <1>11, <2>1 DEF RestoreNetwork
<1>12. ASSUME NEW messages \in SUBSET SMSIDs, ResendPendingSMS(messages)
       PROVE  TypeInv'
  BY <1>10, <1>12 DEF ResendPendingSMS
<1>13. CASE FailExpiredBlackStarts
  BY <1>3, <1>13 DEF FailExpiredBlackStarts
<1>14. ASSUME NEW l \in LoadIDs, NEW load \in Load, RegisterLoad(l, load)
       PROVE  TypeInv'
  BY <1>14 DEF RegisterLoad, Put
<1>15. CASE Tick
  BY <1>15 DEF Tick
<1>16. CASE UNCHANGED vars
  BY <1>16 DEF vars
<1>. QED
  BY <1>1, <1>2, <1>4, <1>5, <1>6, <1>7, <1>8, <1>9, <1>11, <1>12, <1>13,
     <1>14, <1>15, <1>16 DEF Next

(***************************************************************************)
(* Whatever the operators and the scheduler do, every record the black-    *)
(* start handlers store has one of the statuses, flags and references its  *)
(* Go type allows.                                                         *)
(***************************************************************************)
THEOREM TypeCorrect == Spec => []TypeOK
<1>1. TypeInv => TypeOK
  BY DEF TypeInv
<1>. QED  BY TypeInvInit, TypeInvNext, <1>1, PTL DEF Spec

-----------------------------------------------------------------------------
(* The steps, field by field *)

(***************************************************************************)
(* Black start id takes this status, keeps its deadline and sends the      *)
(* instruction; no other black start changes.                              *)
(***************************************************************************)
Sends(id, status, restoredAt, gc, instruction) ==
    /\ id \in DOMAIN blackStarts
    /\ DOMAIN blackStarts' = DOMAIN blackStarts
    /\ blackStarts'[id].status = status
    /\ blackStarts'[id].deadline = blackStarts[id].deadline
    /\ blackStarts'[id].busRestoredAt = restoredAt
    /\ blackStarts'[id].gridConnID = gc
    /\ \A b \in DOMAIN blackStarts : b # id => blackStarts'[b] = blackStarts[b]
    /\ \E m, delivery :
          /\ NewMessage(id, instruction, m, delivery)
          /\ blackStarts'[id].smsMessageIDs =
                IF delivery = "delivered"
                THEN blackStarts[id].smsMessageIDs \cup {m}
                ELSE blackStarts[id].smsMessageIDs

(***************************************************************************)
(* The same where neither bus nor connection changes.                      *)
(***************************************************************************)
Moves(id, status, instruction) ==
    /\ Sends(id, status, blackStarts[id].busRestoredAt,
             blackStarts[id].gridConnID, instruction)
    /\ UNCHANGED gridConns

(***************************************************************************)
(* Grid connection gc takes this status and these signatures.              *)
(***************************************************************************)
NowGridConn(gc, status, signed) ==
    /\ gc \in DOMAIN gridConns
    /\ DOMAIN gridConns' = DOMAIN gridConns
    /\ gridConns'[gc].blackStartID = gridConns[gc].blackStartID
    /\ gridConns'[gc].status = status
    /\ gridConns'[gc].signed = signed
    /\ \A g \in DOMAIN gridConns : g # gc => gridConns'[g] = gridConns[g]

Initiates ==
    \E id \in BlackStartIDs :
        /\ id \notin DOMAIN blackStarts
        /\ \A b \in DOMAIN blackStarts :
              blackStarts[b].status \in {"completed", "failed"}
        /\ DOMAIN blackStarts' = DOMAIN blackStarts \cup {id}
        /\ blackStarts'[id].status = "initiated"
        /\ blackStarts'[id].deadline = now + BlackStartDeadline
        /\ blackStarts'[id].gridConnID = NoGridConn
        /\ blackStarts'[id].smsMessageIDs = {}
        /\ \A b \in DOMAIN blackStarts : blackStarts'[b] = blackStarts[b]
        /\ UNCHANGED <<gridConns, smsMessages>>

Starts == \E id : /\ blackStarts[id].status = "initiated"
                  /\ Moves(id, "in_progress", "BLACK_START_BEGIN")

Fails == \E id : /\ blackStarts[id].status = "in_progress"
                 /\ now > blackStarts[id].deadline
                 /\ Moves(id, "failed", "BLACK_START_FAILED")

Restores ==
    \E id : /\ blackStarts[id].status = "in_progress"
            /\ now <= blackStarts[id].deadline
            /\ Sends(id, "bus_restored", now, blackStarts[id].gridConnID,
                     "BUS_RESTORED")
            /\ UNCHANGED gridConns

Requests ==
    \E id, gc :
        /\ blackStarts[id].status \in {"bus_restored", "grid_syncing"}
        /\ Sends(id, "grid_syncing", blackStarts[id].busRestoredAt, gc,
                 "GRID_SYNC_REQUEST")
        /\ gc \in GridConnIDs /\ gc \notin DOMAIN gridConns
        /\ DOMAIN gridConns' = DOMAIN gridConns \cup {gc}
        /\ gridConns'[gc].blackStartID = id
        /\ gridConns'[gc].status = "requested"
        /\ gridConns'[gc].signed = {}
        /\ \A g \in DOMAIN gridConns : gridConns'[g] = gridConns[g]

Signs ==
    \E gc : \E party \in SignParty :
        /\ gridConns[gc].status \notin {"completed", "rejected"}
        /\ party \notin gridConns[gc].signed
        /\ LET signed == gridConns[gc].signed \cup {party}
           IN NowGridConn(gc, StatusOfSignatures(signed), signed)
        /\ UNCHANGED <<blackStarts, smsMessages>>

Synchronizes ==
    \E gc :
        LET id == gridConns[gc].blackStartID
        IN /\ gridConns[gc].status = "dual_signed"
           /\ NowGridConn(gc, "synchronized", gridConns[gc].signed)
           /\ Sends(id, blackStarts[id].status, blackStarts[id].busRestoredAt,
                    blackStarts[id].gridConnID, "GRID_SYNCHRONIZED")

Completes ==
    \E id :
        /\ id \in DOMAIN blackStarts
        /\ blackStarts[id].status = "grid_syncing"
        /\ LET gc == blackStarts[id].gridConnID
           IN IF gc \in DOMAIN gridConns /\ gridConns[gc].status # "completed"
              THEN /\ gridConns[gc].status = "synchronized"
                   /\ NowGridConn(gc, "completed", gridConns[gc].signed)
              ELSE UNCHANGED gridConns
        /\ DOMAIN blackStarts' = DOMAIN blackStarts
        /\ blackStarts'[id].status = "completed"
        /\ blackStarts'[id].deadline = blackStarts[id].deadline
        /\ blackStarts'[id].busRestoredAt = blackStarts[id].busRestoredAt
        /\ blackStarts'[id].gridConnID = blackStarts[id].gridConnID
        /\ blackStarts'[id].smsMessageIDs = blackStarts[id].smsMessageIDs
        /\ \A b \in DOMAIN blackStarts :
              b # id => blackStarts'[b] = blackStarts[b]
        /\ UNCHANGED smsMessages

(***************************************************************************)
(* Everything else: deliveries, network flags, loads and the clock.        *)
(***************************************************************************)
OnlyDelivers ==
    /\ UNCHANGED gridConns
    /\ DOMAIN blackStarts' = DOMAIN blackStarts
    /\ \A b \in DOMAIN blackStarts :
          /\ blackStarts'[b].status = blackStarts[b].status
          /\ blackStarts'[b].deadline = blackStarts[b].deadline
          /\ blackStarts'[b].busRestoredAt = blackStarts[b].busRestoredAt
          /\ blackStarts'[b].gridConnID = blackStarts[b].gridConnID
          /\ blackStarts'[b].smsMessageIDs = blackStarts[b].smsMessageIDs
    /\ DOMAIN smsMessages' = DOMAIN smsMessages
    /\ \A m \in DOMAIN smsMessages :
          /\ smsMessages'[m].blackStartID = smsMessages[m].blackStartID
          /\ smsMessages'[m].instruction = smsMessages[m].instruction
          /\ smsMessages[m].status = "delivered"
                => smsMessages'[m].status = "delivered"

(***************************************************************************)
(* A record that is updated and then sent about.                           *)
(***************************************************************************)
LEMMA SendsIs ==
    ASSUME NEW id \in DOMAIN blackStarts, id \in BlackStartIDs,
           NEW bs \in BlackStartRecord, NEW instruction \in Instruction,
           bs.deadline = blackStarts[id].deadline,
           bs.smsMessageIDs = blackStarts[id].smsMessageIDs,
           EnqueueSMS(id, bs, instruction)
    PROVE  Sends(id, bs.status, bs.busRestoredAt, bs.gridConnID, instruction)
<1>1. PICK m, status :
        /\ NewMessage(id, instruction, m, status)
        /\ NowBlackStart(id, bs,
              IF status = "delivered" THEN bs.smsMessageIDs \cup {m}
                                      ELSE bs.smsMessageIDs)
  BY EnqueueSMSIs
<1>. QED  BY <1>1 DEF NowBlackStart, Sends

(***************************************************************************)
(* failBlackStart on an overdue black start is a Fails step: RestoreBus    *)
(* and the scheduler's sweep both end here.                                *)
(***************************************************************************)
LEMMA FailsIs ==
    ASSUME TypeInv, NEW id \in DOMAIN blackStarts,
           IsOverdue(blackStarts[id], now), FailBlackStart(id)
    PROVE  Fails
<1> DEFINE bs == [blackStarts[id] EXCEPT !.status = "failed"]
<1>1. id \in BlackStartIDs /\ blackStarts[id] \in BlackStartRecord
  BY DEF TypeInv, TypeOK
<1>2. /\ bs \in BlackStartRecord
      /\ bs.status = "failed"
      /\ bs.deadline = blackStarts[id].deadline
      /\ bs.busRestoredAt = blackStarts[id].busRestoredAt
      /\ bs.gridConnID = blackStarts[id].gridConnID
      /\ bs.smsMessageIDs = blackStarts[id].smsMessageIDs
  BY <1>1, BlackStartTable DEF BlackStartRecord
<1>3. EnqueueSMS(id, bs, "BLACK_START_FAILED") /\ UNCHANGED gridConns
  BY DEF FailBlackStart
<1>4. blackStarts[id].status = "in_progress" /\ now > blackStarts[id].deadline
  BY DEF IsOverdue
<1> HIDE DEF bs
<1>5. Sends(id, bs.status, bs.busRestoredAt, bs.gridConnID,
            "BLACK_START_FAILED")
  BY <1>1, <1>2, <1>3, SendsIs DEF Instruction
<1>. QED  BY <1>2, <1>3, <1>4, <1>5 DEF Fails, Moves

(***************************************************************************)
(* StartBlackStart is a Starts step: the table admits in_progress from     *)
(* initiated only.                                                         *)
(***************************************************************************)
LEMMA StartsIs ==
    ASSUME TypeInv, NEW id \in BlackStartIDs, StartBlackStart(id)
    PROVE  Starts
<1> DEFINE bs == [blackStarts[id] EXCEPT !.status = "in_progress"]
<1>1. id \in DOMAIN blackStarts /\ blackStarts[id] \in BlackStartRecord
  BY DEF TypeInv, TypeOK, StartBlackStart
<1>2. /\ bs \in BlackStartRecord
      /\ bs.status = "in_progress"
      /\ bs.deadline = blackStarts[id].deadline
      /\ bs.busRestoredAt = blackStarts[id].busRestoredAt
      /\ bs.gridConnID = blackStarts[id].gridConnID
      /\ bs.smsMessageIDs = blackStarts[id].smsMessageIDs
  BY <1>1, BlackStartTable DEF BlackStartRecord
<1>3. EnqueueSMS(id, bs, "BLACK_START_BEGIN") /\ UNCHANGED gridConns
  BY DEF StartBlackStart
<1>4. blackStarts[id].status = "initiated"
  BY <1>1, BlackStartTable DEF StartBlackStart, BlackStartRecord
<1> HIDE DEF bs
<1>5. Sends(id, bs.status, bs.busRestoredAt, bs.gridConnID,
            "BLACK_START_BEGIN")
  BY <1>1, <1>2, <1>3, SendsIs DEF Instruction
<1>. QED  BY <1>2, <1>3, <1>4, <1>5 DEF Starts, Moves

(***************************************************************************)
(* RestoreBus fails a late black start and restores one in time.           *)
(***************************************************************************)
LEMMA RestoresIs ==
    ASSUME TypeInv, NEW id \in BlackStartIDs, RestoreBus(id)
    PROVE  Fails \/ Restores
<1>1. id \in DOMAIN blackStarts /\ blackStarts[id] \in BlackStartRecord
  BY DEF TypeInv, TypeOK, RestoreBus
<1>2. CASE IsOverdue(blackStarts[id], now)
  BY <1>1, <1>2, FailsIs DEF RestoreBus
<1>3. CASE ~IsOverdue(blackStarts[id], now)
  <2> DEFINE bs == [blackStarts[id] EXCEPT !.status = "bus_restored",
                                           !.busRestoredAt = now]
  <2>1. now \in Nat
    BY DEF TypeInv, TypeOK
  <2>2. bs \in BlackStartRecord
    BY <1>1, <2>1, BlackStartUpdates
  <2>3. /\ bs.status = "bus_restored"
        /\ bs.deadline = blackStarts[id].deadline
        /\ bs.busRestoredAt = now
        /\ bs.gridConnID = blackStarts[id].gridConnID
        /\ bs.smsMessageIDs = blackStarts[id].smsMessageIDs
    BY <1>1 DEF BlackStartRecord
  <2>4. EnqueueSMS(id, bs, "BUS_RESTORED") /\ UNCHANGED gridConns
    BY <1>3 DEF RestoreBus
  <2>5. blackStarts[id].status = "in_progress"
    BY <1>1, <1>3, BlackStartTable DEF RestoreBus, BlackStartRecord
  <2>6. now <= blackStarts[id].deadline
    BY <1>1, <1>3, <2>1, <2>5 DEF IsOverdue, BlackStartRecord
  <2> HIDE DEF bs
  <2>7. Sends(id, bs.status, bs.busRestoredAt, bs.gridConnID, "BUS_RESTORED")
    BY <1>1, <2>2, <2>3, <2>4, SendsIs DEF Instruction
  <2>. QED  BY <2>3, <2>4, <2>5, <2>6, <2>7 DEF Restores
<1>. QED  BY <1>2, <1>3

(***************************************************************************)
(* RequestGridConnection is a Requests step: the new connection is not one *)
(* that existed.                                                           *)
(***************************************************************************)
LEMMA RequestsIs ==
    ASSUME TypeInv, NEW id \in BlackStartIDs, RequestGridConnection(id)
    PROVE  Requests
<1> DEFINE gc == Fresh(GridConnIDs, gridConns)
           bs == Syncing(blackStarts[id], gc)
<1>1. id \in DOMAIN blackStarts /\ blackStarts[id] \in BlackStartRecord
  BY DEF TypeInv, TypeOK, RequestGridConnection
<1>2. gc \in GridConnIDs /\ gc \notin DOMAIN gridConns
  BY FreshIs DEF RequestGridConnection
<1>3. bs \in BlackStartRecord
  BY <1>1, <1>2, BlackStartUpdates
<1>4. /\ bs.status = "grid_syncing"
      /\ bs.deadline = blackStarts[id].deadline
      /\ bs.busRestoredAt = blackStarts[id].busRestoredAt
      /\ bs.gridConnID = gc
      /\ bs.smsMessageIDs = blackStarts[id].smsMessageIDs
  BY <1>1 DEF Syncing, BlackStartRecord
<1>5. EnqueueSMS(id, bs, "GRID_SYNC_REQUEST")
  BY DEF RequestGridConnection
<1>6. /\ DOMAIN gridConns' = DOMAIN gridConns \cup {gc}
      /\ gridConns'[gc].blackStartID = id
      /\ gridConns'[gc].status = "requested"
      /\ gridConns'[gc].signed = {}
      /\ \A g \in DOMAIN gridConns : gridConns'[g] = gridConns[g]
  BY <1>2 DEF RequestGridConnection, Put
<1>7. blackStarts[id].status \in {"bus_restored", "grid_syncing"}
  BY DEF RequestGridConnection
<1> HIDE DEF gc, bs
<1>8. Sends(id, bs.status, bs.busRestoredAt, bs.gridConnID,
            "GRID_SYNC_REQUEST")
  BY <1>1, <1>3, <1>4, <1>5, SendsIs DEF Instruction
<1>. QED  BY <1>2, <1>4, <1>6, <1>7, <1>8 DEF Requests

(***************************************************************************)
(* SignGridConnection is a Signs step.                                     *)
(***************************************************************************)
LEMMA SignsIs ==
    ASSUME TypeInv, NEW gc \in GridConnIDs, NEW party \in SignParty,
           SignGridConnection(gc, party)
    PROVE  Signs
<1>1. gc \in DOMAIN gridConns /\ gridConns[gc] \in GridConnection
  BY DEF TypeInv, TypeOK, SignGridConnection
<1>2. LET signed == gridConns[gc].signed \cup {party}
      IN NowGridConn(gc, StatusOfSignatures(signed), signed)
  BY <1>1 DEF SignGridConnection, Put, GridConnection, NowGridConn
<1>3. /\ gridConns[gc].status \notin {"completed", "rejected"}
      /\ party \notin gridConns[gc].signed
      /\ UNCHANGED <<blackStarts, smsMessages>>
  BY DEF SignGridConnection, GridConnTerminal
<1>. QED  BY <1>2, <1>3 DEF Signs

(***************************************************************************)
(* SynchronizeGrid is a Synchronizes step: the table admits synchronized   *)
(* from dual_signed only.                                                  *)
(***************************************************************************)
LEMMA SynchronizesIs ==
    ASSUME TypeInv, NEW gc \in GridConnIDs, SynchronizeGrid(gc)
    PROVE  Synchronizes
<1> DEFINE id == gridConns[gc].blackStartID
<1>1. gc \in DOMAIN gridConns /\ gridConns[gc] \in GridConnection
  BY DEF TypeInv, TypeOK, SynchronizeGrid
<1>2. /\ id \in DOMAIN blackStarts
      /\ id \in BlackStartIDs
      /\ blackStarts[id] \in BlackStartRecord
  BY <1>1 DEF TypeInv, TypeOK, ReferencesExist
<1>3. NowGridConn(gc, "synchronized", gridConns[gc].signed)
  BY <1>1 DEF SynchronizeGrid, Put, GridConnection, NowGridConn
<1>4. gridConns[gc].status = "dual_signed"
  BY <1>1, GridConnTable DEF SynchronizeGrid, GridConnection
<1>5. EnqueueSMS(id, blackStarts[id], "GRID_SYNCHRONIZED")
  BY DEF SynchronizeGrid
<1>6. Sends(id, blackStarts[id].status, blackStarts[id].busRestoredAt,
            blackStarts[id].gridConnID, "GRID_SYNCHRONIZED")
  BY <1>2, <1>5, SendsIs DEF Instruction
<1>. QED  BY <1>3, <1>4, <1>6 DEF Synchronizes

(***************************************************************************)
(* CompleteBlackStart is a Completes step.                                 *)
(***************************************************************************)
LEMMA CompletesIs ==
    ASSUME TypeInv, NEW id \in BlackStartIDs, CompleteBlackStart(id)
    PROVE  Completes
<1> DEFINE gc == blackStarts[id].gridConnID
<1>1. id \in DOMAIN blackStarts /\ blackStarts[id] \in BlackStartRecord
  BY DEF TypeInv, TypeOK, CompleteBlackStart
<1>2. gc \in DOMAIN gridConns => gridConns[gc] \in GridConnection
  BY DEF TypeInv, TypeOK
<1>3. blackStarts[id].status = "grid_syncing"
  BY <1>1, BlackStartTable DEF CompleteBlackStart, BlackStartRecord
<1>4. IF gc \in DOMAIN gridConns /\ gridConns[gc].status # "completed"
      THEN /\ gridConns[gc].status = "synchronized"
           /\ NowGridConn(gc, "completed", gridConns[gc].signed)
      ELSE UNCHANGED gridConns
  BY <1>2, GridConnTable
     DEF CompleteBlackStart, Put, GridConnection, NowGridConn
<1>5. /\ DOMAIN blackStarts' = DOMAIN blackStarts
      /\ blackStarts'[id].status = "completed"
      /\ blackStarts'[id].deadline = blackStarts[id].deadline
      /\ blackStarts'[id].busRestoredAt = blackStarts[id].busRestoredAt
      /\ blackStarts'[id].gridConnID = blackStarts[id].gridConnID
      /\ blackStarts'[id].smsMessageIDs = blackStarts[id].smsMessageIDs
      /\ \A b \in DOMAIN blackStarts :
            b # id => blackStarts'[b] = blackStarts[b]
  BY <1>1 DEF CompleteBlackStart, Put, BlackStartRecord
<1>. QED  BY <1>1, <1>3, <1>4, <1>5 DEF CompleteBlackStart, Completes

(***************************************************************************)
(* InitiateBlackStart is an Initiates step: its scan found no active black *)
(* start.                                                                  *)
(***************************************************************************)
LEMMA InitiatesIs == ASSUME TypeInv, InitiateBlackStart PROVE Initiates
<1> DEFINE id == Fresh(BlackStartIDs, blackStarts)
<1>1. id \in BlackStartIDs /\ id \notin DOMAIN blackStarts
  BY FreshIs DEF InitiateBlackStart
<1>2. /\ DOMAIN blackStarts' = DOMAIN blackStarts \cup {id}
      /\ blackStarts'[id] = NewBlackStart(now)
      /\ \A b \in DOMAIN blackStarts : blackStarts'[b] = blackStarts[b]
  BY <1>1 DEF InitiateBlackStart, Put
<1>3. \A b \in DOMAIN blackStarts :
         blackStarts[b].status \in {"completed", "failed"}
  BY DEF InitiateBlackStart, BlackStartTerminal
<1>4. UNCHANGED <<gridConns, smsMessages>>
  BY DEF InitiateBlackStart
<1> HIDE DEF id
<1>5. /\ blackStarts'[id].status = "initiated"
      /\ blackStarts'[id].deadline = now + BlackStartDeadline
      /\ blackStarts'[id].gridConnID = NoGridConn
      /\ blackStarts'[id].smsMessageIDs = {}
  BY <1>2 DEF NewBlackStart
<1>. QED  BY <1>1, <1>2, <1>3, <1>4, <1>5 DEF Initiates

(***************************************************************************)
(* A retry changes nothing of a message but its status, and never takes a  *)
(* delivery back.                                                          *)
(***************************************************************************)
LEMMA DeliversIs ==
    ASSUME TypeInv, NEW messages, MarkDelivered(messages)
    PROVE  /\ DOMAIN smsMessages' = DOMAIN smsMessages
           /\ \A m \in DOMAIN smsMessages :
                 /\ smsMessages'[m].blackStartID = smsMessages[m].blackStartID
                 /\ smsMessages'[m].instruction = smsMessages[m].instruction
                 /\ smsMessages[m].status = "delivered"
                       => smsMessages'[m].status = "delivered"
  BY DEF MarkDelivered, TypeInv, TypeOK, SMSMessage

(***************************************************************************)
(* Every step is one of the nine.                                          *)
(***************************************************************************)
LEMMA StepCases ==
    TypeInv /\ [Next]_vars =>
        \/ Initiates \/ Starts \/ Fails \/ Restores \/ Requests \/ Signs
        \/ Synchronizes \/ Completes \/ OnlyDelivers
<1> SUFFICES ASSUME TypeInv, [Next]_vars,
                    ~(Initiates \/ Starts \/ Fails \/ Restores \/ Requests
                        \/ Signs \/ Synchronizes \/ Completes)
             PROVE  OnlyDelivers
  OBVIOUS
<1>1. ASSUME NEW id \in BlackStartIDs, ReportNetworkInterrupt(id)
      PROVE  OnlyDelivers
  <2>1. \A b \in DOMAIN blackStarts : blackStarts[b] \in BlackStartRecord
    BY DEF TypeInv, TypeOK
  <2>. QED
    BY <1>1, <2>1
       DEF ReportNetworkInterrupt, OnlyDelivers, Put, BlackStartRecord
<1>2. ASSUME NEW id \in BlackStartIDs, NEW messages \in SUBSET SMSIDs,
             RestoreNetwork(id, messages)
      PROVE  OnlyDelivers
  <2>1. \A b \in DOMAIN blackStarts : blackStarts[b] \in BlackStartRecord
    BY DEF TypeInv, TypeOK
  <2>2. /\ DOMAIN blackStarts' = DOMAIN blackStarts
        /\ \A b \in DOMAIN blackStarts :
              /\ blackStarts'[b].status = blackStarts[b].status
              /\ blackStarts'[b].deadline = blackStarts[b].deadline
              /\ blackStarts'[b].busRestoredAt = blackStarts[b].busRestoredAt
              /\ blackStarts'[b].gridConnID = blackStarts[b].gridConnID
              /\ blackStarts'[b].smsMessageIDs = blackStarts[b].smsMessageIDs
    BY <1>2, <2>1 DEF RestoreNetwork, Put, BlackStartRecord
  <2>3. MarkDelivered(messages) /\ UNCHANGED gridConns
    BY <1>2 DEF RestoreNetwork
  <2>. QED  BY <2>2, <2>3, DeliversIs DEF OnlyDelivers
<1>3. ASSUME NEW messages \in SUBSET SMSIDs, ResendPendingSMS(messages)
      PROVE  OnlyDelivers
  BY <1>3, DeliversIs DEF ResendPendingSMS, OnlyDelivers
<1>4. CASE FailExpiredBlackStarts
  BY <1>4, FailsIs DEF FailExpiredBlackStarts
<1>5. ASSUME UNCHANGED <<blackStarts, gridConns, smsMessages>>
      PROVE  OnlyDelivers
  BY <1>5 DEF OnlyDelivers
<1>6. ASSUME NEW l \in LoadIDs, NEW load \in Load, RegisterLoad(l, load)
      PROVE  OnlyDelivers
  BY <1>5, <1>6 DEF RegisterLoad
<1>7. CASE Tick
  BY <1>5, <1>7 DEF Tick
<1>8. CASE UNCHANGED vars
  BY <1>5, <1>8 DEF vars
<1>. QED
  BY <1>1, <1>2, <1>3, <1>4, <1>6, <1>7, <1>8, StartsIs, RestoresIs,
     RequestsIs, SignsIs, SynchronizesIs, CompletesIs, InitiatesIs DEF Next

-----------------------------------------------------------------------------
(* Safety *)

(***************************************************************************)
(* The inductive invariant.  CompletedTogether needs ConnectionsBelong (a  *)
(* syncing black start has a connection to complete) and the handlers that *)
(* touch a connection need ReferencesExist to find its black start; the    *)
(* outbox needs the references to know that a new black start has no       *)
(* messages yet.                                                           *)
(***************************************************************************)
SafetyInv ==
    /\ TypeInv
    /\ AtMostOneActive
    /\ RestoredInTime
    /\ StatusMatchesSignatures
    /\ ConnectionsBelong
    /\ CompletedTogether
    /\ LinkedMessagesDelivered
    /\ OutboxRecordsProgress

(***************************************************************************)
(* With empty collections there is nothing to violate the invariant.       *)
(***************************************************************************)
LEMMA SafetyInvInit == Init => SafetyInv
<1> SUFFICES ASSUME Init PROVE SafetyInv
  OBVIOUS
<1>1. TypeInv
  BY TypeInvInit
<1>2. /\ DOMAIN blackStarts = {}
      /\ DOMAIN gridConns = {}
      /\ DOMAIN smsMessages = {}
  BY DEF Init
<1>. QED
  BY <1>1, <1>2
     DEF SafetyInv, AtMostOneActive, RestoredInTime, StatusMatchesSignatures,
         ConnectionsBelong, CompletedTogether, LinkedMessagesDelivered,
         OutboxRecordsProgress

(***************************************************************************)
(* Only Initiates makes a black start active, and it found none that was.  *)
(***************************************************************************)
LEMMA AtMostOneActiveNext ==
    TypeInv /\ AtMostOneActive /\ [Next]_vars => AtMostOneActive'
<1> SUFFICES ASSUME TypeInv, AtMostOneActive, [Next]_vars
             PROVE  AtMostOneActive'
  OBVIOUS
<1> USE DEF AtMostOneActive, BlackStartTerminal
<1>1. CASE Initiates
  BY <1>1 DEF Initiates
<1>2. CASE Starts
  BY <1>2 DEF Starts, Moves, Sends
<1>3. CASE Fails
  BY <1>3 DEF Fails, Moves, Sends
<1>4. CASE Restores
  BY <1>4 DEF Restores, Sends
<1>5. CASE Requests
  BY <1>5 DEF Requests, Sends
<1>6. CASE Signs
  BY <1>6 DEF Signs
<1>7. CASE Synchronizes
  BY <1>7 DEF Synchronizes, Sends
<1>8. CASE Completes
  BY <1>8 DEF Completes
<1>9. CASE OnlyDelivers
  BY <1>9 DEF OnlyDelivers
<1>. QED
  BY StepCases, <1>1, <1>2, <1>3, <1>4, <1>5, <1>6, <1>7, <1>8, <1>9

(***************************************************************************)
(* Only Restores sets busRestoredAt, from in_progress and in time; the     *)
(* later statuses keep it and the deadline never changes.                  *)
(***************************************************************************)
LEMMA RestoredInTimeNext ==
    TypeInv /\ RestoredInTime /\ [Next]_vars => RestoredInTime'
<1> SUFFICES ASSUME TypeInv, RestoredInTime, [Next]_vars
             PROVE  RestoredInTime'
  OBVIOUS
<1> USE DEF RestoredInTime
<1>1. CASE Initiates
  BY <1>1 DEF Initiates
<1>2. CASE Starts
  BY <1>2 DEF Starts, Moves, Sends
<1>3. CASE Fails
  BY <1>3 DEF Fails, Moves, Sends
<1>4. CASE Restores
  BY <1>4 DEF Restores, Sends, TypeInv, TypeOK
<1>5. CASE Requests
  BY <1>5 DEF Requests, Sends
<1>6. CASE Signs
  BY <1>6 DEF Signs
<1>7. CASE Synchronizes
  BY <1>7 DEF Synchronizes, Sends
<1>8. CASE Completes
  BY <1>8 DEF Completes
<1>9. CASE OnlyDelivers
  BY <1>9 DEF OnlyDelivers
<1>. QED
  BY StepCases, <1>1, <1>2, <1>3, <1>4, <1>5, <1>6, <1>7, <1>8, <1>9

(***************************************************************************)
(* Only Signs changes signatures, and it computes the status from them;    *)
(* Synchronizes and Completes start from connections that carry both.      *)
(***************************************************************************)
LEMMA StatusMatchesSignaturesNext ==
    TypeInv /\ StatusMatchesSignatures /\ [Next]_vars
        => StatusMatchesSignatures'
<1> SUFFICES ASSUME TypeInv, StatusMatchesSignatures, [Next]_vars
             PROVE  StatusMatchesSignatures'
  OBVIOUS
<1> USE DEF StatusMatchesSignatures
<1>1. CASE UNCHANGED gridConns
  BY <1>1
<1>2. CASE Requests
  BY <1>2 DEF Requests
<1>3. CASE Signs
  BY <1>3 DEF Signs, NowGridConn, StatusOfSignatures, SignParty
<1>4. CASE Synchronizes
  BY <1>4 DEF Synchronizes, NowGridConn
<1>5. CASE Completes
  BY <1>1, <1>5 DEF Completes, NowGridConn
<1>. QED
  BY StepCases, <1>1, <1>2, <1>3, <1>4, <1>5
     DEF Initiates, Starts, Fails, Moves, Restores, OnlyDelivers

(***************************************************************************)
(* Only Requests makes references, in both records at once, and nothing    *)
(* leaves grid_syncing but for completed.                                  *)
(***************************************************************************)
LEMMA ConnectionsBelongNext ==
    TypeInv /\ ConnectionsBelong /\ [Next]_vars => ConnectionsBelong'
<1> SUFFICES ASSUME TypeInv, ConnectionsBelong, [Next]_vars
             PROVE  ConnectionsBelong'
  OBVIOUS
<1> USE DEF ConnectionsBelong
<1>1. CASE Initiates
  BY <1>1 DEF Initiates
<1>2. CASE Starts
  BY <1>2 DEF Starts, Moves, Sends
<1>3. CASE Fails
  BY <1>3 DEF Fails, Moves, Sends
<1>4. CASE Restores
  BY <1>4 DEF Restores, Sends
<1>5. CASE Requests
  BY <1>5 DEF Requests, Sends
<1>6. CASE Signs
  BY <1>6 DEF Signs, NowGridConn
<1>7. CASE Synchronizes
  BY <1>7 DEF Synchronizes, NowGridConn, Sends
<1>8. CASE Completes
  BY <1>8 DEF Completes, NowGridConn
<1>9. CASE OnlyDelivers
  BY <1>9 DEF OnlyDelivers
<1>. QED
  BY StepCases, <1>1, <1>2, <1>3, <1>4, <1>5, <1>6, <1>7, <1>8, <1>9

(***************************************************************************)
(* Completes closes both records; a completed connection is never the      *)
(* current one of a black start that is still syncing.                     *)
(***************************************************************************)
LEMMA CompletedTogetherNext ==
    /\ TypeInv /\ ConnectionsBelong /\ CompletedTogether
    /\ [Next]_vars
    => CompletedTogether'
<1> SUFFICES ASSUME TypeInv, ConnectionsBelong, CompletedTogether, [Next]_vars
             PROVE  CompletedTogether'
  OBVIOUS
<1> USE DEF CompletedTogether
<1>1. CASE Initiates
  BY <1>1 DEF Initiates
<1>2. CASE Starts
  BY <1>2 DEF Starts, Moves, Sends
<1>3. CASE Fails
  BY <1>3 DEF Fails, Moves, Sends
<1>4. CASE Restores
  BY <1>4 DEF Restores, Sends
<1>5. CASE Requests
  BY <1>5 DEF Requests, Sends
<1>6. CASE Signs
  BY <1>6 DEF Signs, NowGridConn, StatusOfSignatures
<1>7. CASE Synchronizes
  BY <1>7 DEF Synchronizes, NowGridConn, Sends
<1>8. CASE Completes
  BY <1>8 DEF Completes, NowGridConn, ConnectionsBelong
<1>9. CASE OnlyDelivers
  BY <1>9 DEF OnlyDelivers
<1>. QED
  BY StepCases, <1>1, <1>2, <1>3, <1>4, <1>5, <1>6, <1>7, <1>8, <1>9

(***************************************************************************)
(* A link is made with the delivery, and a delivered message stays         *)
(* delivered.                                                              *)
(***************************************************************************)
LEMMA LinkedMessagesDeliveredNext ==
    TypeInv /\ LinkedMessagesDelivered /\ [Next]_vars
        => LinkedMessagesDelivered'
<1> SUFFICES ASSUME TypeInv, LinkedMessagesDelivered, [Next]_vars
             PROVE  LinkedMessagesDelivered'
  OBVIOUS
<1> USE DEF LinkedMessagesDelivered
<1>1. CASE Initiates
  BY <1>1 DEF Initiates
<1>2. ASSUME NEW id, NEW status, NEW restoredAt, NEW gc, NEW instruction,
             Sends(id, status, restoredAt, gc, instruction)
      PROVE  LinkedMessagesDelivered'
  BY <1>2 DEF Sends, NewMessage
<1>3. CASE Signs
  BY <1>3 DEF Signs
<1>4. CASE Completes
  BY <1>4 DEF Completes
<1>5. CASE OnlyDelivers
  BY <1>5 DEF OnlyDelivers
<1>. QED
  BY StepCases, <1>1, <1>2, <1>3, <1>4, <1>5
     DEF Starts, Fails, Moves, Restores, Requests, Synchronizes

(***************************************************************************)
(* A new message joins exactly one of the sets of messages issued.         *)
(***************************************************************************)
LEMMA NewMessageIssued ==
    ASSUME NEW id, NEW instruction, NEW m, NEW status,
           NewMessage(id, instruction, m, status)
    PROVE  /\ m \notin Issued(id, instruction)
           /\ Issued(id, instruction)' = Issued(id, instruction) \cup {m}
           /\ \A b, i : b # id \/ i # instruction =>
                 Issued(b, i)' = Issued(b, i)
  BY DEF NewMessage, Issued

(***************************************************************************)
(* Each step sends its instruction from a status in which it had not been  *)
(* sent; a new black start has no messages because all messages refer to   *)
(* older ones.                                                             *)
(***************************************************************************)
LEMMA OutboxRecordsProgressNext ==
    TypeInv /\ OutboxRecordsProgress /\ [Next]_vars => OutboxRecordsProgress'
<1> SUFFICES ASSUME TypeInv, OutboxRecordsProgress, [Next]_vars
             PROVE  OutboxRecordsProgress'
  OBVIOUS
<1> USE DEF OutboxRecordsProgress, IssuedOnceIff
<1>1. CASE Initiates
  <2>1. PICK id : /\ id \notin DOMAIN blackStarts
                  /\ DOMAIN blackStarts' = DOMAIN blackStarts \cup {id}
                  /\ blackStarts'[id].status = "initiated"
                  /\ \A b \in DOMAIN blackStarts :
                        blackStarts'[b] = blackStarts[b]
                  /\ UNCHANGED smsMessages
    BY <1>1 DEF Initiates
  <2>2. \A b, i : Issued(b, i)' = Issued(b, i)
    BY <2>1 DEF Issued
  <2>3. \A i : Issued(id, i) = {}
    BY <2>1 DEF Issued, TypeInv, ReferencesExist
  <2>. QED  BY <2>1, <2>2, <2>3
<1>2. CASE Starts
  <2>1. PICK id : /\ blackStarts[id].status = "initiated"
                  /\ Moves(id, "in_progress", "BLACK_START_BEGIN")
    BY <1>2 DEF Starts
  <2>2. PICK m, delivery : NewMessage(id, "BLACK_START_BEGIN", m, delivery)
    BY <2>1 DEF Sends, Moves
  <2>3. /\ id \in DOMAIN blackStarts
        /\ DOMAIN blackStarts' = DOMAIN blackStarts
        /\ blackStarts'[id].status = "in_progress"
        /\ \A b \in DOMAIN blackStarts :
              b # id => blackStarts'[b] = blackStarts[b]
    BY <2>1 DEF Moves, Sends
  <2>4. ASSUME NEW b \in DOMAIN blackStarts, b # id
        PROVE  blackStarts'[b].status = blackStarts[b].status
               /\ \A i : Issued(b, i)' = Issued(b, i)
    BY <2>2, <2>3, <2>4, NewMessageIssued
  <2>. QED  BY <2>1, <2>2, <2>3, <2>4, NewMessageIssued
<1>3. CASE Fails
  <2>1. PICK id : /\ blackStarts[id].status = "in_progress"
                  /\ Moves(id, "failed", "BLACK_START_FAILED")
    BY <1>3 DEF Fails
  <2>2. PICK m, delivery : NewMessage(id, "BLACK_START_FAILED", m, delivery)
    BY <2>1 DEF Sends, Moves
  <2>3. /\ id \in DOMAIN blackStarts
        /\ DOMAIN blackStarts' = DOMAIN blackStarts
        /\ blackStarts'[id].status = "failed"
        /\ \A b \in DOMAIN blackStarts :
              b # id => blackStarts'[b] = blackStarts[b]
    BY <2>1 DEF Moves, Sends
  <2>4. ASSUME NEW b \in DOMAIN blackStarts, b # id
        PROVE  blackStarts'[b].status = blackStarts[b].status
               /\ \A i : Issued(b, i)' = Issued(b, i)
    BY <2>2, <2>3, <2>4, NewMessageIssued
  <2>. QED  BY <2>1, <2>2, <2>3, <2>4, NewMessageIssued
<1>4. CASE Restores
  <2>1. PICK id : /\ blackStarts[id].status = "in_progress"
                  /\ Sends(id, "bus_restored", now,
                           blackStarts[id].gridConnID, "BUS_RESTORED")
    BY <1>4 DEF Restores
  <2>2. PICK m, delivery : NewMessage(id, "BUS_RESTORED", m, delivery)
    BY <2>1 DEF Sends
  <2>3. /\ id \in DOMAIN blackStarts
        /\ DOMAIN blackStarts' = DOMAIN blackStarts
        /\ blackStarts'[id].status = "bus_restored"
        /\ \A b \in DOMAIN blackStarts :
              b # id => blackStarts'[b] = blackStarts[b]
    BY <2>1 DEF Sends
  <2>4. ASSUME NEW b \in DOMAIN blackStarts, b # id
        PROVE  blackStarts'[b].status = blackStarts[b].status
               /\ \A i : Issued(b, i)' = Issued(b, i)
    BY <2>2, <2>3, <2>4, NewMessageIssued
  <2>. QED  BY <2>1, <2>2, <2>3, <2>4, NewMessageIssued
<1>5. CASE Requests
  <2>1. PICK id, gc :
           /\ blackStarts[id].status \in {"bus_restored", "grid_syncing"}
           /\ Sends(id, "grid_syncing", blackStarts[id].busRestoredAt, gc,
                    "GRID_SYNC_REQUEST")
    BY <1>5 DEF Requests
  <2>2. PICK m, delivery : NewMessage(id, "GRID_SYNC_REQUEST", m, delivery)
    BY <2>1 DEF Sends
  <2>3. /\ id \in DOMAIN blackStarts
        /\ DOMAIN blackStarts' = DOMAIN blackStarts
        /\ blackStarts'[id].status = "grid_syncing"
        /\ \A b \in DOMAIN blackStarts :
              b # id => blackStarts'[b] = blackStarts[b]
    BY <2>1 DEF Sends
  <2>4. ASSUME NEW b \in DOMAIN blackStarts, b # id
        PROVE  blackStarts'[b].status = blackStarts[b].status
               /\ \A i : Issued(b, i)' = Issued(b, i)
    BY <2>2, <2>3, <2>4, NewMessageIssued
  <2>. QED  BY <2>1, <2>2, <2>3, <2>4, NewMessageIssued
<1>6. CASE Signs
  BY <1>6 DEF Signs, Issued
<1>7. CASE Synchronizes
  <2>1. PICK id :
           Sends(id, blackStarts[id].status, blackStarts[id].busRestoredAt,
                 blackStarts[id].gridConnID, "GRID_SYNCHRONIZED")
    BY <1>7 DEF Synchronizes
  <2>2. PICK m, delivery : NewMessage(id, "GRID_SYNCHRONIZED", m, delivery)
    BY <2>1 DEF Sends
  <2>. QED  BY <2>1, <2>2, NewMessageIssued DEF Sends
<1>8. CASE Completes
  BY <1>8 DEF Completes, Issued
<1>9. CASE OnlyDelivers
  <2>1. \A b, i : Issued(b, i)' = Issued(b, i)
    BY <1>9 DEF OnlyDelivers, Issued
  <2>. QED  BY <1>9, <2>1 DEF OnlyDelivers
<1>. QED
  BY StepCases, <1>1, <1>2, <1>3, <1>4, <1>5, <1>6, <1>7, <1>8, <1>9

(***************************************************************************)
(* The invariant is inductive.                                             *)
(***************************************************************************)
LEMMA SafetyInvNext == SafetyInv /\ [Next]_vars => SafetyInv'
  BY TypeInvNext, AtMostOneActiveNext, RestoredInTimeNext,
     StatusMatchesSignaturesNext, ConnectionsBelongNext, CompletedTogetherNext,
     LinkedMessagesDeliveredNext, OutboxRecordsProgressNext DEF SafetyInv

(***************************************************************************)
(* The strengthening is an invariant of every instance.                    *)
(***************************************************************************)
THEOREM SafetyInvariant == Spec => []SafetyInv
  BY SafetyInvInit, SafetyInvNext, PTL DEF Spec

(***************************************************************************)
(* InitiateBlackStart never creates a second active black start, for any   *)
(* number of identifiers.                                                  *)
(***************************************************************************)
THEOREM OneActive == Spec => []AtMostOneActive
<1>1. SafetyInv => AtMostOneActive
  BY DEF SafetyInv
<1>. QED  BY SafetyInvariant, <1>1, PTL

(***************************************************************************)
(* No black start gets past in_progress with a bus restored after its      *)
(* deadline, for every deadline and however the clock runs.                *)
(***************************************************************************)
THEOREM BusRestoredInTime == Spec => []RestoredInTime
<1>1. SafetyInv => RestoredInTime
  BY DEF SafetyInv
<1>. QED  BY SafetyInvariant, <1>1, PTL

(***************************************************************************)
(* SynchronizeGrid only ever finds dual_signed connections that carry both *)
(* signatures: status and flags never disagree.                            *)
(***************************************************************************)
THEOREM SignaturesDecideStatus == Spec => []StatusMatchesSignatures
<1>1. SafetyInv => StatusMatchesSignatures
  BY DEF SafetyInv
<1>. QED  BY SafetyInvariant, <1>1, PTL

(***************************************************************************)
(* RequestGridConnection keeps black starts and connections referring to   *)
(* each other; in particular CompleteBlackStart never meets a black start  *)
(* without a connection, although its code allows for one.                 *)
(***************************************************************************)
THEOREM ReferencesAgree == Spec => []ConnectionsBelong
<1>1. SafetyInv => ConnectionsBelong
  BY DEF SafetyInv
<1>. QED  BY SafetyInvariant, <1>1, PTL

(***************************************************************************)
(* CompleteBlackStart completes a black start together with its current    *)
(* connection and no other connection, ever.                               *)
(***************************************************************************)
THEOREM CompletionIsJoint == Spec => []CompletedTogether
<1>1. SafetyInv => CompletedTogether
  BY DEF SafetyInv
<1>. QED  BY SafetyInvariant, <1>1, PTL

(***************************************************************************)
(* enqueueSMS links only what was delivered, and the handlers that write   *)
(* the black-start record afterwards lose no link and invent none.         *)
(***************************************************************************)
THEOREM LinksAreDelivered == Spec => []LinkedMessagesDelivered
<1>1. SafetyInv => LinkedMessagesDelivered
  BY DEF SafetyInv
<1>. QED  BY SafetyInvariant, <1>1, PTL

(***************************************************************************)
(* However often StartBlackStart, RestoreBus and the scheduler's deadline  *)
(* check are repeated, each step's instruction is in the outbox once.      *)
(***************************************************************************)
THEOREM OneMessagePerStep == Spec => []OutboxRecordsProgress
<1>1. SafetyInv => OutboxRecordsProgress
  BY DEF SafetyInv
<1>. QED  BY SafetyInvariant, <1>1, PTL

-----------------------------------------------------------------------------
(* The transition tables *)

(***************************************************************************)
(* From a state of the invariant every step follows the tables:            *)
(* StatusMatchesSignatures is what keeps a synchronized connection from    *)
(* being signed.                                                           *)
(***************************************************************************)
LEMMA StatusChangesPermittedNext ==
    SafetyInv /\ [Next]_vars => StatusChangesPermitted
<1> SUFFICES ASSUME SafetyInv, [Next]_vars PROVE StatusChangesPermitted
  OBVIOUS
<1> USE DEF StatusChangesPermitted
<1>a. /\ \A b \in DOMAIN blackStarts : blackStarts[b].status \in BlackStartStatus
      /\ \A g \in DOMAIN gridConns :
            /\ gridConns[g].status \in GridConnStatus
            /\ gridConns[g].signed \subseteq SignParty
  BY DEF SafetyInv, TypeInv, TypeOK, BlackStartRecord, GridConnection
<1>1. CASE Initiates
  BY <1>1 DEF Initiates
<1>2. CASE Starts
  BY <1>a, <1>2, BlackStartTable DEF Starts, Moves, Sends
<1>3. CASE Fails
  BY <1>a, <1>3, BlackStartTable DEF Fails, Moves, Sends
<1>4. CASE Restores
  BY <1>a, <1>4, BlackStartTable DEF Restores, Sends
<1>5. CASE Requests
  BY <1>a, <1>5, BlackStartTable DEF Requests, Sends
<1>6. CASE Signs
  <2>1. PICK gc : \E party \in SignParty :
           /\ gridConns[gc].status \notin {"completed", "rejected"}
           /\ party \notin gridConns[gc].signed
           /\ LET signed == gridConns[gc].signed \cup {party}
              IN NowGridConn(gc, StatusOfSignatures(signed), signed)
    BY <1>6 DEF Signs
  <2>2. PICK party \in SignParty :
           /\ party \notin gridConns[gc].signed
           /\ LET signed == gridConns[gc].signed \cup {party}
              IN NowGridConn(gc, StatusOfSignatures(signed), signed)
    BY <2>1
  <2>3. LET to == StatusOfSignatures(gridConns[gc].signed \cup {party})
        IN GridConnCanTransition(gridConns[gc].status, to)
    BY <1>a, <2>2, GridConnTable
       DEF SafetyInv, StatusMatchesSignatures, StatusOfSignatures, SignParty,
           NowGridConn
  <2>. QED  BY <1>6, <2>2, <2>3 DEF Signs, NowGridConn
<1>7. CASE Synchronizes
  BY <1>a, <1>7, GridConnTable DEF Synchronizes, NowGridConn, Sends
<1>8. CASE Completes
  BY <1>a, <1>8, BlackStartTable, GridConnTable DEF Completes, NowGridConn
<1>9. CASE OnlyDelivers
  BY <1>9 DEF OnlyDelivers
<1>. QED
  BY StepCases, <1>1, <1>2, <1>3, <1>4, <1>5, <1>6, <1>7, <1>8, <1>9
     DEF SafetyInv

(***************************************************************************)
(* No handler, whether it asks the domain tables or computes the status    *)
(* itself, ever makes a transition the tables forbid.                      *)
(***************************************************************************)
THEOREM TablesFollowed == Spec => StatusesFollowTables
<1>1. SafetyInv /\ [Next]_vars => [StatusChangesPermitted]_vars
  BY StatusChangesPermittedNext
<1>. QED
  BY SafetyInvariant, <1>1, PTL
     DEF Spec, StatusesFollowTables

-----------------------------------------------------------------------------
(* The loads *)

(***************************************************************************)
(* Before the first grid-connection request the loads present at start are *)
(* as they were seeded; without that the shedding would not switch exactly *)
(* the others off.                                                         *)
(***************************************************************************)
LoadsInv ==
    /\ SeedLoads \subseteq DOMAIN loads
    /\ DOMAIN gridConns = {} =>
          \A l \in SeedLoads : loads[l] = Energized
    /\ CriticalLoadsServed

(***************************************************************************)
(* The loads are seeded before the service takes its first call.           *)
(***************************************************************************)
LEMMA LoadsInvInit == Init => LoadsInv
  BY DEF Init, LoadsInv, CriticalLoadsServed

(***************************************************************************)
(* Only RequestGridConnection changes a load that exists.                  *)
(***************************************************************************)
LEMMA LoadsInvNext == TypeInv /\ LoadsInv /\ [Next]_vars => LoadsInv'
<1> SUFFICES ASSUME TypeInv, LoadsInv, [Next]_vars PROVE LoadsInv'
  OBVIOUS
<1> USE DEF LoadsInv, CriticalLoadsServed
<1>1. ASSUME UNCHANGED loads, DOMAIN gridConns' = DOMAIN gridConns
      PROVE  LoadsInv'
  BY <1>1
<1>2. ASSUME NEW id \in BlackStartIDs, RequestGridConnection(id)
      PROVE  LoadsInv'
  <2>1. DOMAIN gridConns' # {}
    BY <1>2 DEF RequestGridConnection, Put
  <2>2. loads' = ShedLoadsByPriority(loads, LoadPriority, 1)
    BY <1>2 DEF RequestGridConnection, BlackStartTerminal
  <2>3. \A l \in SeedLoads : LoadPriority[l] \in Int
    BY BlackStartAssumption
  <2>4. ASSUME NEW l \in SeedLoads
        PROVE  loads'[l] = IF LoadPriority[l] <= 1 THEN Energized ELSE Shed
    <3>1. \/ loads[l] = Energized
          \/ loads[l] = Shed /\ ~(LoadPriority[l] <= 1)
      BY <2>3
    <3>2. /\ Energized.energized /\ ~Energized.shed
          /\ ~Shed.energized
      BY DEF Energized, Shed
    <3>. QED  BY <2>2, <2>3, <3>1, <3>2 DEF ShedLoadsByPriority
  <2>5. SeedLoads \subseteq DOMAIN loads'
    BY <2>2 DEF ShedLoadsByPriority
  <2>. QED  BY <2>1, <2>4, <2>5
<1>3. ASSUME NEW l \in LoadIDs, NEW load \in Load, RegisterLoad(l, load)
      PROVE  LoadsInv'
  BY <1>3 DEF RegisterLoad, Put
<1>4. ASSUME NEW gc \in GridConnIDs, NEW party \in SignParty,
             SignGridConnection(gc, party)
      PROVE  LoadsInv'
  BY <1>1, <1>4 DEF SignGridConnection, Put
<1>5. ASSUME NEW gc \in GridConnIDs, SynchronizeGrid(gc) PROVE LoadsInv'
  BY <1>1, <1>5 DEF SynchronizeGrid, Put
<1>6. ASSUME NEW id \in BlackStartIDs, CompleteBlackStart(id) PROVE LoadsInv'
  BY <1>1, <1>6 DEF CompleteBlackStart, Put
<1>7. CASE InitiateBlackStart
  BY <1>1, <1>7 DEF InitiateBlackStart
<1>8. ASSUME NEW id \in BlackStartIDs, StartBlackStart(id) PROVE LoadsInv'
  BY <1>1, <1>8 DEF StartBlackStart
<1>9. ASSUME NEW id \in BlackStartIDs, RestoreBus(id) PROVE LoadsInv'
  BY <1>1, <1>9 DEF RestoreBus, FailBlackStart
<1>10. ASSUME NEW id \in BlackStartIDs, ReportNetworkInterrupt(id)
       PROVE  LoadsInv'
  BY <1>1, <1>10 DEF ReportNetworkInterrupt
<1>11. ASSUME NEW id \in BlackStartIDs, NEW messages \in SUBSET SMSIDs,
              RestoreNetwork(id, messages)
       PROVE  LoadsInv'
  BY <1>1, <1>11 DEF RestoreNetwork
<1>12. ASSUME NEW messages \in SUBSET SMSIDs, ResendPendingSMS(messages)
       PROVE  LoadsInv'
  BY <1>1, <1>12 DEF ResendPendingSMS
<1>13. CASE FailExpiredBlackStarts
  BY <1>1, <1>13 DEF FailExpiredBlackStarts, FailBlackStart
<1>14. CASE Tick
  BY <1>1, <1>14 DEF Tick
<1>15. CASE UNCHANGED vars
  BY <1>1, <1>15 DEF vars
<1>. QED
  BY <1>2, <1>3, <1>4, <1>5, <1>6, <1>7, <1>8, <1>9, <1>10, <1>11, <1>12,
     <1>13, <1>14, <1>15 DEF Next

(***************************************************************************)
(* The shedding of a grid-connection request keeps the critical loads of   *)
(* the seed and sheds the others, for every registry and every priority;   *)
(* nothing undoes it.                                                      *)
(***************************************************************************)
THEOREM LoadsServed == Spec => []CriticalLoadsServed
<1>1. LoadsInv => CriticalLoadsServed
  BY DEF LoadsInv
<1>2. TypeInv /\ LoadsInv /\ [Next]_vars => (TypeInv /\ LoadsInv)'
  BY TypeInvNext, LoadsInvNext
<1>. QED  BY TypeInvInit, LoadsInvInit, <1>1, <1>2, PTL DEF Spec

-----------------------------------------------------------------------------
(* One message per connection *)

(***************************************************************************)
(* The cardinalities mean something only while the collections are finite. *)
(***************************************************************************)
FiniteInv == IsFiniteSet(DOMAIN smsMessages) /\ IsFiniteSet(DOMAIN gridConns)

(***************************************************************************)
(* A step adds at most one message and one connection.                     *)
(***************************************************************************)
LEMMA FiniteInvNext == TypeInv /\ FiniteInv /\ [Next]_vars => FiniteInv'
<1> SUFFICES ASSUME TypeInv, FiniteInv, [Next]_vars PROVE FiniteInv'
  OBVIOUS
<1> USE DEF FiniteInv
<1>1. ASSUME NEW id, NEW status, NEW restoredAt, NEW gc, NEW instruction,
             Sends(id, status, restoredAt, gc, instruction)
      PROVE  IsFiniteSet(DOMAIN smsMessages')
  BY <1>1, FS_AddElement DEF Sends, NewMessage
<1>2. CASE Requests
  <2>1. IsFiniteSet(DOMAIN gridConns')
    BY <1>2, FS_AddElement DEF Requests
  <2>. QED  BY <1>1, <1>2, <2>1 DEF Requests
<1>. QED
  BY StepCases, <1>1, <1>2
     DEF Initiates, Starts, Fails, Moves, Restores, Signs, Synchronizes,
         Completes, OnlyDelivers, NowGridConn

(***************************************************************************)
(* The sets counted are parts of the two collections.                      *)
(***************************************************************************)
LEMMA FiniteParts ==
    ASSUME FiniteInv, NEW b
    PROVE  /\ \A i : IsFiniteSet(Issued(b, i))
           /\ IsFiniteSet(ConnectionsOf(b))
           /\ IsFiniteSet(SynchronizedOf(b))
<1>1. /\ \A i : Issued(b, i) \in SUBSET DOMAIN smsMessages
      /\ ConnectionsOf(b) \in SUBSET DOMAIN gridConns
      /\ SynchronizedOf(b) \in SUBSET DOMAIN gridConns
  BY DEF Issued, ConnectionsOf, SynchronizedOf
<1>. QED  BY <1>1, FS_Subset DEF FiniteInv

(***************************************************************************)
(* Requests adds one connection and one request, Synchronizes one          *)
(* synchronized connection and one notice; signing adds neither, because a *)
(* synchronized connection carries both signatures.                        *)
(***************************************************************************)
LEMMA OutboxRecordsConnectionsNext ==
    SafetyInv /\ FiniteInv /\ OutboxRecordsConnections /\ [Next]_vars
        => OutboxRecordsConnections'
<1> SUFFICES ASSUME SafetyInv, FiniteInv, OutboxRecordsConnections,
                    [Next]_vars
             PROVE  OutboxRecordsConnections'
  OBVIOUS
<1> USE DEF OutboxRecordsConnections
<1>a. TypeInv /\ StatusMatchesSignatures
  BY DEF SafetyInv
<1>b. ASSUME DOMAIN blackStarts' = DOMAIN blackStarts,
             \A b \in DOMAIN blackStarts :
                /\ \A i \in {"GRID_SYNC_REQUEST", "GRID_SYNCHRONIZED"} :
                      Issued(b, i)' = Issued(b, i)
                /\ ConnectionsOf(b)' = ConnectionsOf(b)
                /\ SynchronizedOf(b)' = SynchronizedOf(b)
      PROVE  OutboxRecordsConnections'
  BY <1>b
<1>c. ASSUME gridConns' = gridConns
      PROVE  \A b : /\ ConnectionsOf(b)' = ConnectionsOf(b)
                    /\ SynchronizedOf(b)' = SynchronizedOf(b)
  BY <1>c DEF ConnectionsOf, SynchronizedOf
<1>d. ASSUME NEW id, NEW status, NEW instruction,
             instruction \notin {"GRID_SYNC_REQUEST", "GRID_SYNCHRONIZED"},
             NEW m, NEW delivery, NewMessage(id, instruction, m, delivery),
             DOMAIN blackStarts' = DOMAIN blackStarts,
             gridConns' = gridConns
      PROVE  OutboxRecordsConnections'
  BY <1>b, <1>c, <1>d, NewMessageIssued
<1>1. CASE Initiates
  <2>1. PICK id : /\ id \notin DOMAIN blackStarts
                  /\ DOMAIN blackStarts' = DOMAIN blackStarts \cup {id}
                  /\ UNCHANGED <<gridConns, smsMessages>>
    BY <1>1 DEF Initiates
  <2>2. \A b, i : Issued(b, i)' = Issued(b, i)
    BY <2>1 DEF Issued
  <2>3. /\ \A i : Issued(id, i) = {}
        /\ ConnectionsOf(id) = {} /\ SynchronizedOf(id) = {}
    BY <1>a, <2>1
       DEF Issued, ConnectionsOf, SynchronizedOf, TypeInv, ReferencesExist
  <2>. QED  BY <1>c, <2>1, <2>2, <2>3
<1>2. CASE Starts
  BY <1>2, <1>d DEF Starts, Moves, Sends
<1>3. CASE Fails
  BY <1>3, <1>d DEF Fails, Moves, Sends
<1>4. CASE Restores
  BY <1>4, <1>d DEF Restores, Sends
<1>5. CASE Requests
  <2>1. PICK id, gc :
           /\ gc \notin DOMAIN gridConns
           /\ DOMAIN gridConns' = DOMAIN gridConns \cup {gc}
           /\ gridConns'[gc].blackStartID = id
           /\ gridConns'[gc].status = "requested"
           /\ \A g \in DOMAIN gridConns : gridConns'[g] = gridConns[g]
           /\ Sends(id, "grid_syncing", blackStarts[id].busRestoredAt, gc,
                    "GRID_SYNC_REQUEST")
    BY <1>5 DEF Requests
  <2>2. PICK m, delivery : NewMessage(id, "GRID_SYNC_REQUEST", m, delivery)
    BY <2>1 DEF Sends
  <2>3. DOMAIN blackStarts' = DOMAIN blackStarts
    BY <2>1 DEF Sends
  <2>4. /\ gc \notin ConnectionsOf(id)
        /\ ConnectionsOf(id)' = ConnectionsOf(id) \cup {gc}
        /\ \A b : b # id => ConnectionsOf(b)' = ConnectionsOf(b)
        /\ \A b : SynchronizedOf(b)' = SynchronizedOf(b)
    BY <2>1 DEF ConnectionsOf, SynchronizedOf
  <2>5. /\ Cardinality(Issued(id, "GRID_SYNC_REQUEST")')
              = Cardinality(Issued(id, "GRID_SYNC_REQUEST")) + 1
        /\ Cardinality(ConnectionsOf(id)') = Cardinality(ConnectionsOf(id)) + 1
    <3>1. /\ IsFiniteSet(Issued(id, "GRID_SYNC_REQUEST"))
          /\ IsFiniteSet(ConnectionsOf(id))
      BY FiniteParts
    <3>2. PICK x : /\ x \notin Issued(id, "GRID_SYNC_REQUEST")
                   /\ Issued(id, "GRID_SYNC_REQUEST")'
                         = Issued(id, "GRID_SYNC_REQUEST") \cup {x}
      BY <2>2, NewMessageIssued
    <3>3. Cardinality(Issued(id, "GRID_SYNC_REQUEST") \cup {x})
             = Cardinality(Issued(id, "GRID_SYNC_REQUEST")) + 1
      BY <3>1, <3>2, FS_AddElement
    <3>4. Cardinality(ConnectionsOf(id) \cup {gc})
             = Cardinality(ConnectionsOf(id)) + 1
      BY <2>4, <3>1, FS_AddElement
    <3>. QED  BY <2>4, <3>2, <3>3, <3>4
  <2>6. \A b, i : b # id \/ i # "GRID_SYNC_REQUEST" =>
           Issued(b, i)' = Issued(b, i)
    BY <2>2, NewMessageIssued
  <2>. QED  BY <2>3, <2>4, <2>5, <2>6
<1>6. CASE Signs
  <2>1. PICK gc : \E party \in SignParty :
           /\ gridConns[gc].status \notin {"completed", "rejected"}
           /\ party \notin gridConns[gc].signed
           /\ LET signed == gridConns[gc].signed \cup {party}
              IN NowGridConn(gc, StatusOfSignatures(signed), signed)
    BY <1>6 DEF Signs
  <2>2. gc \in DOMAIN gridConns /\ gridConns[gc].status # "synchronized"
    BY <1>a, <2>1 DEF StatusMatchesSignatures, NowGridConn
  <2>3. \A b : /\ ConnectionsOf(b)' = ConnectionsOf(b)
               /\ SynchronizedOf(b)' = SynchronizedOf(b)
    BY <2>1, <2>2
       DEF NowGridConn, ConnectionsOf, SynchronizedOf, StatusOfSignatures
  <2>. QED  BY <1>6, <1>b, <2>3 DEF Signs, Issued
<1>7. CASE Synchronizes
  <2>1. PICK gc, id :
           /\ id = gridConns[gc].blackStartID
           /\ gridConns[gc].status = "dual_signed"
           /\ NowGridConn(gc, "synchronized", gridConns[gc].signed)
           /\ Sends(id, blackStarts[id].status, blackStarts[id].busRestoredAt,
                    blackStarts[id].gridConnID, "GRID_SYNCHRONIZED")
    BY <1>7 DEF Synchronizes
  <2>2. PICK m, delivery : NewMessage(id, "GRID_SYNCHRONIZED", m, delivery)
    BY <2>1 DEF Sends
  <2>3. DOMAIN blackStarts' = DOMAIN blackStarts
    BY <2>1 DEF Sends
  <2>4. /\ gc \notin SynchronizedOf(id)
        /\ SynchronizedOf(id)' = SynchronizedOf(id) \cup {gc}
        /\ \A b : b # id => SynchronizedOf(b)' = SynchronizedOf(b)
        /\ \A b : ConnectionsOf(b)' = ConnectionsOf(b)
    BY <2>1 DEF NowGridConn, ConnectionsOf, SynchronizedOf
  <2>5. /\ Cardinality(Issued(id, "GRID_SYNCHRONIZED")')
              = Cardinality(Issued(id, "GRID_SYNCHRONIZED")) + 1
        /\ Cardinality(SynchronizedOf(id)') = Cardinality(SynchronizedOf(id)) + 1
    <3>1. /\ IsFiniteSet(Issued(id, "GRID_SYNCHRONIZED"))
          /\ IsFiniteSet(SynchronizedOf(id))
      BY FiniteParts
    <3>2. PICK x : /\ x \notin Issued(id, "GRID_SYNCHRONIZED")
                   /\ Issued(id, "GRID_SYNCHRONIZED")'
                         = Issued(id, "GRID_SYNCHRONIZED") \cup {x}
      BY <2>2, NewMessageIssued
    <3>3. Cardinality(Issued(id, "GRID_SYNCHRONIZED") \cup {x})
             = Cardinality(Issued(id, "GRID_SYNCHRONIZED")) + 1
      BY <3>1, <3>2, FS_AddElement
    <3>4. Cardinality(SynchronizedOf(id) \cup {gc})
             = Cardinality(SynchronizedOf(id)) + 1
      BY <2>4, <3>1, FS_AddElement
    <3>. QED  BY <2>4, <3>2, <3>3, <3>4
  <2>6. \A b, i : b # id \/ i # "GRID_SYNCHRONIZED" =>
           Issued(b, i)' = Issued(b, i)
    BY <2>2, NewMessageIssued
  <2>. QED  BY <2>3, <2>4, <2>5, <2>6
<1>8. CASE Completes
  <2>1. \A b : /\ ConnectionsOf(b)' = ConnectionsOf(b)
               /\ SynchronizedOf(b)' = SynchronizedOf(b)
    BY <1>8, <1>c DEF Completes, NowGridConn, ConnectionsOf, SynchronizedOf
  <2>. QED  BY <1>8, <1>b, <2>1 DEF Completes, Issued
<1>9. CASE OnlyDelivers
  <2>1. \A b, i : Issued(b, i)' = Issued(b, i)
    BY <1>9 DEF OnlyDelivers, Issued
  <2>. QED  BY <1>9, <1>b, <1>c, <2>1 DEF OnlyDelivers
<1>. QED
  BY <1>a, StepCases, <1>1, <1>2, <1>3, <1>4, <1>5, <1>6, <1>7, <1>8, <1>9

(***************************************************************************)
(* For any number of black starts and connections, the outbox holds one    *)
(* GRID_SYNC_REQUEST per connection of a black start and one               *)
(* GRID_SYNCHRONIZED per connection that was synchronized.                 *)
(***************************************************************************)
THEOREM OneMessagePerConnection == Spec => []OutboxRecordsConnections
<1>1. Init => SafetyInv /\ FiniteInv /\ OutboxRecordsConnections
  <2>1. Init => FiniteInv /\ OutboxRecordsConnections
    <3> SUFFICES ASSUME Init PROVE FiniteInv /\ OutboxRecordsConnections
      OBVIOUS
    <3>1. /\ DOMAIN blackStarts = {}
          /\ DOMAIN gridConns = {}
          /\ DOMAIN smsMessages = {}
      BY DEF Init
    <3>. QED  BY <3>1, FS_EmptySet DEF FiniteInv, OutboxRecordsConnections
  <2>. QED  BY <2>1, SafetyInvInit
<1>2. SafetyInv /\ FiniteInv /\ OutboxRecordsConnections /\ [Next]_vars
        => (SafetyInv /\ FiniteInv /\ OutboxRecordsConnections)'
  <2>1. SafetyInv => TypeInv
    BY DEF SafetyInv
  <2>. QED
    BY <2>1, SafetyInvNext, FiniteInvNext, OutboxRecordsConnectionsNext
<1>. QED  BY <1>1, <1>2, PTL DEF Spec

=============================================================================
