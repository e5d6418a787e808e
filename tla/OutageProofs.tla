---------------------------- MODULE OutageProofs ----------------------------
(***************************************************************************)
(* BlackStart implements Outage, for every set of identifiers and every    *)
(* deadline.  Each of the nine kinds of step of BlackStartProofs is one    *)
(* action of Outage or changes nothing that Outage speaks of; that a       *)
(* connection carries both signatures when it is closed, and that a black  *)
(* start is concluded through a closed connection of its own, is what      *)
(* SafetyInv adds.                                                         *)
(***************************************************************************)
EXTENDS BlackStartProofs

(***************************************************************************)
(* With empty collections nothing has been begun or proposed.              *)
(***************************************************************************)
LEMMA PromiseInit == Init => Promise!Init
  BY DEF Init, Promise!Init, StageMap, DueMap, ProposedMap, ApprovedMap,
         ClosedMap

(***************************************************************************)
(* Either the clock stands still, or it ticks and no record changes.       *)
(***************************************************************************)
LEMMA ClockOrRecords ==
    [Next]_vars =>
        \/ now' = now
        \/ now' = now + 1 /\ UNCHANGED <<blackStarts, gridConns>>
<1> SUFFICES ASSUME [Next]_vars, now' # now
             PROVE  now' = now + 1 /\ UNCHANGED <<blackStarts, gridConns>>
  OBVIOUS
<1>1. ~UNCHANGED vars
  BY DEF vars
<1>2. Tick
  BY <1>1 DEF Next, InitiateBlackStart, StartBlackStart, RestoreBus,
              FailBlackStart, RequestGridConnection, SignGridConnection,
              SynchronizeGrid, CompleteBlackStart, ReportNetworkInterrupt,
              RestoreNetwork, FailExpiredBlackStarts, ResendPendingSMS,
              RegisterLoad
<1>. QED  BY <1>2 DEF Tick

(***************************************************************************)
(* When one black start changes, its stage is the only one that does.      *)
(***************************************************************************)
LEMMA StageChange ==
    ASSUME NEW id \in BlackStartIDs,
           DOMAIN blackStarts' = DOMAIN blackStarts \cup {id},
           \A b \in DOMAIN blackStarts :
              b # id => blackStarts'[b].status = blackStarts[b].status
    PROVE  StageMap' = [StageMap EXCEPT ![id] = StageOf[blackStarts'[id].status]]
  BY DEF StageMap

(***************************************************************************)
(* Statuses that are one stage do not tell Outage of a change.             *)
(***************************************************************************)
LEMMA StageSame ==
    ASSUME DOMAIN blackStarts' = DOMAIN blackStarts,
           \A b \in DOMAIN blackStarts :
              StageOf[blackStarts'[b].status] = StageOf[blackStarts[b].status]
    PROVE  StageMap' = StageMap
  BY DEF StageMap

(***************************************************************************)
(* Deadlines are set once.                                                 *)
(***************************************************************************)
LEMMA DueSame ==
    ASSUME DOMAIN blackStarts' = DOMAIN blackStarts,
           \A b \in DOMAIN blackStarts :
              blackStarts'[b].deadline = blackStarts[b].deadline
    PROVE  DueMap' = DueMap
  BY DEF DueMap

(***************************************************************************)
(* What Outage knows of the connections is in their records.               *)
(***************************************************************************)
LEMMA ConnectionsSame ==
    ASSUME UNCHANGED gridConns
    PROVE  UNCHANGED <<ProposedMap, ApprovedMap, ClosedMap>>
  BY DEF ProposedMap, ApprovedMap, ClosedMap

-----------------------------------------------------------------------------
(* The steps *)

(***************************************************************************)
(* A new black start is a response begun while none is open.               *)
(***************************************************************************)
LEMMA InitiatesBegins ==
    ASSUME SafetyInv, Initiates, now' = now
    PROVE  Promise!Next
<1>1. PICK id \in BlackStartIDs :
        /\ id \notin DOMAIN blackStarts
        /\ \A b \in DOMAIN blackStarts :
              blackStarts[b].status \in {"completed", "failed"}
        /\ DOMAIN blackStarts' = DOMAIN blackStarts \cup {id}
        /\ blackStarts'[id].status = "initiated"
        /\ blackStarts'[id].deadline = now + BlackStartDeadline
        /\ \A b \in DOMAIN blackStarts : blackStarts'[b] = blackStarts[b]
        /\ UNCHANGED gridConns
  BY DEF Initiates
<1>2. /\ StageMap[id] = "none"
      /\ \A b \in BlackStartIDs :
            StageMap[b] \in {"none", "connected", "failed"}
  BY <1>1 DEF StageMap, StageOf
<1>3. StageMap' = [StageMap EXCEPT ![id] = "underway"]
  <2>1. StageOf["initiated"] = "underway"
    BY DEF StageOf
  <2>. QED  BY <1>1, <2>1, StageChange
<1>4. DueMap' = [DueMap EXCEPT ![id] = now + BlackStartDeadline]
  BY <1>1 DEF DueMap
<1>5. UNCHANGED <<ProposedMap, ApprovedMap, ClosedMap>>
  BY <1>1, ConnectionsSame
<1>6. Promise!Begin(id)
  BY <1>2, <1>3, <1>4, <1>5 DEF Promise!Begin
<1>. QED  BY <1>6 DEF Promise!Next

(***************************************************************************)
(* One black start moves and keeps its deadline: what this is to Outage    *)
(* depends on its stages before and after only.                            *)
(***************************************************************************)
LEMMA SendsStage ==
    ASSUME SafetyInv, NEW id, NEW status, NEW restoredAt, NEW gc,
           NEW instruction, Sends(id, status, restoredAt, gc, instruction)
    PROVE  /\ id \in BlackStartIDs
           /\ StageMap[id] = StageOf[blackStarts[id].status]
           /\ DueMap[id] = blackStarts[id].deadline
           /\ StageMap' = [StageMap EXCEPT ![id] = StageOf[status]]
           /\ DueMap' = DueMap
<1>1. id \in DOMAIN blackStarts /\ id \in BlackStartIDs
  BY DEF Sends, SafetyInv, TypeInv, TypeOK
<1>2. /\ DOMAIN blackStarts' = DOMAIN blackStarts
      /\ blackStarts'[id].status = status
      /\ blackStarts'[id].deadline = blackStarts[id].deadline
      /\ \A b \in DOMAIN blackStarts : b # id => blackStarts'[b] = blackStarts[b]
  BY DEF Sends
<1>3. StageMap' = [StageMap EXCEPT ![id] = StageOf[blackStarts'[id].status]]
  BY <1>1, <1>2, StageChange
<1>4. DueMap' = DueMap
  BY <1>2, DueSame
<1>. QED  BY <1>1, <1>2, <1>3, <1>4 DEF StageMap, DueMap

(***************************************************************************)
(* A stage assigned to itself is no change.                                *)
(***************************************************************************)
LEMMA SameStage ==
    ASSUME NEW id \in BlackStartIDs, NEW stage, StageMap[id] = stage,
           StageMap' = [StageMap EXCEPT ![id] = stage]
    PROVE  StageMap' = StageMap
  BY DEF StageMap

(***************************************************************************)
(* Starting is preparation still: the response stays underway.             *)
(***************************************************************************)
LEMMA StartsStutters ==
    ASSUME SafetyInv, Starts, now' = now
    PROVE  UNCHANGED Promise!vars
<1>1. PICK id : /\ blackStarts[id].status = "initiated"
                /\ Moves(id, "in_progress", "BLACK_START_BEGIN")
  BY DEF Starts
<1>2. /\ id \in BlackStartIDs
      /\ StageMap[id] = StageOf["initiated"]
      /\ StageMap' = [StageMap EXCEPT ![id] = StageOf["in_progress"]]
      /\ DueMap' = DueMap
  BY <1>1, SendsStage DEF Moves
<1>3. StageOf["initiated"] = StageOf["in_progress"]
  BY DEF StageOf
<1>4. StageMap' = StageMap
  BY <1>2, <1>3, SameStage
<1>5. UNCHANGED <<ProposedMap, ApprovedMap, ClosedMap>>
  BY <1>1, ConnectionsSame DEF Moves
<1>. QED  BY <1>2, <1>4, <1>5 DEF Promise!vars

(***************************************************************************)
(* Whoever fails the black start, it is underway and overdue.              *)
(***************************************************************************)
LEMMA FailsFails ==
    ASSUME SafetyInv, Fails, now' = now
    PROVE  Promise!Next
<1>1. PICK id : /\ blackStarts[id].status = "in_progress"
                /\ now > blackStarts[id].deadline
                /\ Moves(id, "failed", "BLACK_START_FAILED")
  BY DEF Fails
<1>2. /\ id \in BlackStartIDs
      /\ StageMap[id] = StageOf["in_progress"]
      /\ DueMap[id] = blackStarts[id].deadline
      /\ StageMap' = [StageMap EXCEPT ![id] = StageOf["failed"]]
      /\ DueMap' = DueMap
  BY <1>1, SendsStage DEF Moves
<1>3. StageOf["in_progress"] = "underway" /\ StageOf["failed"] = "failed"
  BY DEF StageOf
<1>4. UNCHANGED <<ProposedMap, ApprovedMap, ClosedMap>>
  BY <1>1, ConnectionsSame DEF Moves
<1>5. Promise!Fail(id)
  BY <1>1, <1>2, <1>3, <1>4 DEF Promise!Fail
<1>. QED  BY <1>2, <1>5 DEF Promise!Next

(***************************************************************************)
(* A bus restored at the deadline or before is energized in time.          *)
(***************************************************************************)
LEMMA RestoresEnergizes ==
    ASSUME SafetyInv, Restores, now' = now
    PROVE  Promise!Next
<1>1. PICK id :
        /\ blackStarts[id].status = "in_progress"
        /\ now <= blackStarts[id].deadline
        /\ Sends(id, "bus_restored", now, blackStarts[id].gridConnID,
                 "BUS_RESTORED")
        /\ UNCHANGED gridConns
  BY DEF Restores
<1>2. /\ id \in BlackStartIDs
      /\ StageMap[id] = StageOf["in_progress"]
      /\ DueMap[id] = blackStarts[id].deadline
      /\ StageMap' = [StageMap EXCEPT ![id] = StageOf["bus_restored"]]
      /\ DueMap' = DueMap
  BY <1>1, SendsStage
<1>3. /\ StageOf["in_progress"] = "underway"
      /\ StageOf["bus_restored"] = "energized"
  BY DEF StageOf
<1>4. UNCHANGED <<ProposedMap, ApprovedMap, ClosedMap>>
  BY <1>1, ConnectionsSame
<1>5. Promise!Energize(id)
  BY <1>1, <1>2, <1>3, <1>4 DEF Promise!Energize
<1>. QED  BY <1>2, <1>5 DEF Promise!Next

(***************************************************************************)
(* A request proposes a new connection, and nothing else: the bus has been *)
(* energized and stays so.                                                 *)
(***************************************************************************)
LEMMA RequestsProposes ==
    ASSUME SafetyInv, Requests, now' = now
    PROVE  Promise!Next
<1>1. PICK id, gc :
        /\ blackStarts[id].status \in {"bus_restored", "grid_syncing"}
        /\ Sends(id, "grid_syncing", blackStarts[id].busRestoredAt, gc,
                 "GRID_SYNC_REQUEST")
        /\ gc \in GridConnIDs /\ gc \notin DOMAIN gridConns
        /\ DOMAIN gridConns' = DOMAIN gridConns \cup {gc}
        /\ gridConns'[gc].blackStartID = id
        /\ gridConns'[gc].status = "requested"
        /\ gridConns'[gc].signed = {}
        /\ \A g \in DOMAIN gridConns : gridConns'[g] = gridConns[g]
  BY DEF Requests
<1>2. /\ id \in BlackStartIDs
      /\ StageMap[id] = StageOf[blackStarts[id].status]
      /\ StageMap' = [StageMap EXCEPT ![id] = StageOf["grid_syncing"]]
      /\ DueMap' = DueMap
  BY <1>1, SendsStage
<1>3. /\ StageOf["bus_restored"] = "energized"
      /\ StageOf["grid_syncing"] = "energized"
  BY DEF StageOf
<1>4. StageMap[id] = "energized" /\ StageMap' = StageMap
  BY <1>1, <1>2, <1>3, SameStage
<1>5. /\ \A b \in BlackStartIDs : <<gc, b>> \notin ProposedMap
      /\ ProposedMap' = ProposedMap \cup {<<gc, id>>}
  BY <1>1 DEF ProposedMap
<1>6. ApprovedMap' = ApprovedMap
  BY <1>1 DEF ApprovedMap
<1>7. ClosedMap' = ClosedMap
  BY <1>1 DEF ClosedMap
<1>8. Promise!Propose(gc, id)
  BY <1>2, <1>4, <1>5, <1>6, <1>7 DEF Promise!Propose
<1>. QED  BY <1>1, <1>2, <1>8 DEF Promise!Next

(***************************************************************************)
(* A connection that changes keeps its black start.                        *)
(***************************************************************************)
LEMMA NowGridConnMaps ==
    ASSUME SafetyInv, NEW gc, NEW status, NEW signed,
           NowGridConn(gc, status, signed)
    PROVE  /\ gc \in GridConnIDs
           /\ ProposedMap' = ProposedMap
           /\ ApprovedMap[gc] = gridConns[gc].signed
           /\ ApprovedMap' = [ApprovedMap EXCEPT ![gc] = signed]
           /\ ClosedMap' = IF status \in {"synchronized", "completed"}
                           THEN ClosedMap \cup {gc} ELSE ClosedMap \ {gc}
<1>1. gc \in DOMAIN gridConns /\ gc \in GridConnIDs
  BY DEF NowGridConn, SafetyInv, TypeInv, TypeOK
<1>2. /\ DOMAIN gridConns' = DOMAIN gridConns
      /\ gridConns'[gc].blackStartID = gridConns[gc].blackStartID
      /\ gridConns'[gc].status = status
      /\ gridConns'[gc].signed = signed
      /\ \A g \in DOMAIN gridConns : g # gc => gridConns'[g] = gridConns[g]
  BY DEF NowGridConn
<1>3. ProposedMap' = ProposedMap
  BY <1>2 DEF ProposedMap
<1>4. ApprovedMap' = [ApprovedMap EXCEPT ![gc] = signed]
  BY <1>1, <1>2 DEF ApprovedMap
<1>5. ClosedMap' = IF status \in {"synchronized", "completed"}
                   THEN ClosedMap \cup {gc} ELSE ClosedMap \ {gc}
  BY <1>1, <1>2 DEF ClosedMap
<1>. QED  BY <1>1, <1>3, <1>4, <1>5 DEF ApprovedMap

(***************************************************************************)
(* A signature is an approval: a closed connection has both already.       *)
(***************************************************************************)
LEMMA SignsApproves ==
    ASSUME SafetyInv, Signs, now' = now
    PROVE  Promise!Next
<1>1. PICK gc : \E party \in SignParty :
        /\ party \notin gridConns[gc].signed
        /\ NowGridConn(gc, StatusOfSignatures(gridConns[gc].signed \cup {party}),
                       gridConns[gc].signed \cup {party})
        /\ UNCHANGED blackStarts
  BY DEF Signs
<1>2. PICK party \in SignParty :
        /\ party \notin gridConns[gc].signed
        /\ NowGridConn(gc, StatusOfSignatures(gridConns[gc].signed \cup {party}),
                       gridConns[gc].signed \cup {party})
        /\ UNCHANGED blackStarts
  BY <1>1
<1> DEFINE signed == gridConns[gc].signed \cup {party}
           status == StatusOfSignatures(signed)
<1>3. status \notin {"synchronized", "completed"}
  BY DEF StatusOfSignatures
<1>4. gc \in DOMAIN gridConns
  BY <1>2 DEF NowGridConn
<1>5. gc \notin ClosedMap
  <2>1. gridConns[gc].signed # SignParty
    BY <1>2
  <2>. QED
    BY <1>4, <2>1 DEF ClosedMap, SafetyInv, StatusMatchesSignatures
<1>6. NowGridConn(gc, status, signed)
  BY <1>2
<1> HIDE DEF status
<1>7. /\ gc \in GridConnIDs
      /\ ProposedMap' = ProposedMap
      /\ ApprovedMap[gc] = gridConns[gc].signed
      /\ ApprovedMap' = [ApprovedMap EXCEPT ![gc] = signed]
      /\ ClosedMap' = ClosedMap
  BY <1>3, <1>5, <1>6, NowGridConnMaps
<1>8. \E b \in BlackStartIDs : <<gc, b>> \in ProposedMap
  <2>1. gridConns[gc].blackStartID \in BlackStartIDs
    BY <1>4 DEF SafetyInv, TypeInv, TypeOK, GridConnection
  <2>. QED  BY <1>4, <2>1 DEF ProposedMap
<1>9. UNCHANGED <<StageMap, DueMap>>
  BY <1>2 DEF StageMap, DueMap
<1>10. Promise!Approve(gc, party)
  BY <1>2, <1>5, <1>7, <1>8, <1>9 DEF Promise!Approve
<1>. QED  BY <1>2, <1>7, <1>10 DEF Promise!Next

(***************************************************************************)
(* Synchronizing closes a connection that both parties approved, whatever  *)
(* its black start is doing.                                               *)
(***************************************************************************)
LEMMA SynchronizesCloses ==
    ASSUME SafetyInv, Synchronizes, now' = now
    PROVE  Promise!Next
<1>1. PICK gc :
        /\ gridConns[gc].status = "dual_signed"
        /\ NowGridConn(gc, "synchronized", gridConns[gc].signed)
        /\ LET id == gridConns[gc].blackStartID
           IN Sends(id, blackStarts[id].status, blackStarts[id].busRestoredAt,
                    blackStarts[id].gridConnID, "GRID_SYNCHRONIZED")
  BY DEF Synchronizes
<1> DEFINE id == gridConns[gc].blackStartID
<1>2. /\ id \in BlackStartIDs
      /\ StageMap[id] = StageOf[blackStarts[id].status]
      /\ StageMap' = [StageMap EXCEPT ![id] = StageOf[blackStarts[id].status]]
      /\ DueMap' = DueMap
  BY <1>1, SendsStage
<1>3. StageMap' = StageMap
  BY <1>2, SameStage
<1>4. gridConns[gc].signed = SignParty
  BY <1>1 DEF NowGridConn, SafetyInv, StatusMatchesSignatures
<1>5. /\ gc \in GridConnIDs
      /\ ProposedMap' = ProposedMap
      /\ ApprovedMap[gc] = SignParty
      /\ ApprovedMap' = [ApprovedMap EXCEPT ![gc] = SignParty]
      /\ ClosedMap' = ClosedMap \cup {gc}
  BY <1>1, <1>4, NowGridConnMaps
<1>6. ApprovedMap' = ApprovedMap
  BY <1>5 DEF ApprovedMap
<1>7. Promise!Close(gc)
  BY <1>2, <1>3, <1>5, <1>6 DEF Promise!Close
<1>. QED  BY <1>5, <1>7 DEF Promise!Next

(***************************************************************************)
(* A completed black start is concluded through its own connection, which  *)
(* was synchronized, hence closed, and stays closed as completed.          *)
(***************************************************************************)
LEMMA CompletesConcludes ==
    ASSUME SafetyInv, Completes, now' = now
    PROVE  Promise!Next
<1>1. PICK id \in DOMAIN blackStarts :
        /\ blackStarts[id].status = "grid_syncing"
        /\ LET gc == blackStarts[id].gridConnID
           IN IF gc \in DOMAIN gridConns /\ gridConns[gc].status # "completed"
              THEN /\ gridConns[gc].status = "synchronized"
                   /\ NowGridConn(gc, "completed", gridConns[gc].signed)
              ELSE UNCHANGED gridConns
        /\ DOMAIN blackStarts' = DOMAIN blackStarts
        /\ blackStarts'[id].status = "completed"
        /\ blackStarts'[id].deadline = blackStarts[id].deadline
        /\ \A b \in DOMAIN blackStarts :
              b # id => blackStarts'[b] = blackStarts[b]
  BY DEF Completes
<1> DEFINE gc == blackStarts[id].gridConnID
<1>2. gc \in DOMAIN gridConns /\ gridConns[gc].blackStartID = id
  BY <1>1 DEF SafetyInv, ConnectionsBelong
<1>3. gc \in ClosedMap /\ <<gc, id>> \in ProposedMap
  BY <1>1, <1>2 DEF ClosedMap, ProposedMap
<1>4. UNCHANGED <<ProposedMap, ApprovedMap, ClosedMap>>
  <2>1. CASE gridConns[gc].status = "completed"
    BY <1>1, <2>1, ConnectionsSame
  <2>2. CASE gridConns[gc].status # "completed"
    <3>1. NowGridConn(gc, "completed", gridConns[gc].signed)
      BY <1>1, <1>2, <2>2
    <3>2. /\ gc \in GridConnIDs
          /\ ProposedMap' = ProposedMap
          /\ ApprovedMap[gc] = gridConns[gc].signed
          /\ ApprovedMap' = [ApprovedMap EXCEPT ![gc] = gridConns[gc].signed]
          /\ ClosedMap' = ClosedMap \cup {gc}
      BY <3>1, NowGridConnMaps
    <3>3. ApprovedMap' = ApprovedMap
      BY <3>2 DEF ApprovedMap
    <3>. QED  BY <1>3, <3>2, <3>3
  <2>. QED  BY <2>1, <2>2
<1>5. id \in BlackStartIDs
  BY DEF SafetyInv, TypeInv, TypeOK
<1>6. StageMap' = [StageMap EXCEPT ![id] = "connected"]
  <2>1. StageOf["completed"] = "connected"
    BY DEF StageOf
  <2>. QED  BY <1>1, <1>5, <2>1, StageChange
<1>7. StageMap[id] = "energized"
  BY <1>1, <1>5 DEF StageMap, StageOf
<1>8. DueMap' = DueMap
  BY <1>1, DueSame
<1>9. Promise!Conclude(id)
  BY <1>3, <1>4, <1>6, <1>7, <1>8 DEF Promise!Conclude
<1>. QED  BY <1>5, <1>9 DEF Promise!Next

(***************************************************************************)
(* Messages, network flags and loads are no business of Outage.            *)
(***************************************************************************)
LEMMA OnlyDeliversStutters ==
    ASSUME OnlyDelivers
    PROVE  UNCHANGED <<StageMap, DueMap, ProposedMap, ApprovedMap, ClosedMap>>
<1>1. UNCHANGED <<StageMap, DueMap>>
  BY StageSame, DueSame DEF OnlyDelivers
<1>. QED  BY <1>1, ConnectionsSame DEF OnlyDelivers

(***************************************************************************)
(* Every step of BlackStart is a step of Outage or none.                   *)
(***************************************************************************)
LEMMA PromiseNext ==
    SafetyInv /\ [Next]_vars => [Promise!Next]_(Promise!vars)
<1> SUFFICES ASSUME SafetyInv, [Next]_vars
             PROVE  Promise!Next \/ UNCHANGED Promise!vars
  OBVIOUS
<1>1. CASE now' = now + 1 /\ UNCHANGED <<blackStarts, gridConns>>
  <2>1. UNCHANGED <<StageMap, DueMap>>
    BY <1>1 DEF StageMap, DueMap
  <2>2. UNCHANGED <<ProposedMap, ApprovedMap, ClosedMap>>
    BY <1>1, ConnectionsSame
  <2>. QED  BY <1>1, <2>1, <2>2 DEF Promise!Tick, Promise!Next
<1>2. CASE now' = now
  <2>1. \/ Initiates \/ Starts \/ Fails \/ Restores \/ Requests \/ Signs
        \/ Synchronizes \/ Completes \/ OnlyDelivers
    BY StepCases DEF SafetyInv
  <2>2. OnlyDelivers => UNCHANGED Promise!vars
    BY <1>2, OnlyDeliversStutters DEF Promise!vars
  <2>. QED
    BY <1>2, <2>1, <2>2, InitiatesBegins, StartsStutters, FailsFails,
       RestoresEnergizes, RequestsProposes, SignsApproves,
       SynchronizesCloses, CompletesConcludes
<1>. QED  BY <1>1, <1>2, ClockOrRecords

(***************************************************************************)
(* The methods of blackstart.go, the scheduler's sweeps and the outbox     *)
(* together keep the promise of Outage, in every order in which they may   *)
(* be called.                                                              *)
(***************************************************************************)
THEOREM PromiseKept == Spec => ImplementsOutage
<1>1. Spec => Promise!Init
  BY PromiseInit DEF Spec
<1>. QED
  BY <1>1, SafetyInvariant, PromiseNext, PTL
     DEF Spec, ImplementsOutage, Promise!Spec

=============================================================================
