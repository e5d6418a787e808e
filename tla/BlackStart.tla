----------------------------- MODULE BlackStart -----------------------------
(***************************************************************************)
(* Black start and automatic synchronisation (internal/app/blackstart.go), *)
(* with the SMS outbox (internal/app/sms.go) and the load registry it      *)
(* drives.  Every method modelled here runs from its first line to its     *)
(* last under Service.mu (RegisterLoad is one store call, under the        *)
(* store's own lock), so one method call is one action; a call that        *)
(* returns without writing (an unknown identifier, a refused transition,   *)
(* an idempotent repeat) changes nothing and is a stuttering step.         *)
(*                                                                         *)
(* The definitions headed "Mutant" are wrong variants of the definition    *)
(* they precede.  No action uses them: they show that the properties tell  *)
(* a right implementation from a wrong one.                                *)
(***************************************************************************)
EXTENDS Domain, Store, FiniteSets

CONSTANTS
    BlackStartIDs,       \* identifiers ids.Next("bs") may return
    GridConnIDs,         \* identifiers ids.Next("gc") may return
    SMSIDs,              \* identifiers ids.Next("sms") may return
    LoadIDs,             \* every load that is ever registered
    SeedLoads,           \* the loads SeedDefaultLoads registers at start-up
    LoadPriority,        \* load -> its priority, 1 is critical
    NoGridConn,          \* the empty GridConnID
    BlackStartDeadline,  \* cfg.BlackStartDeadline, in clock ticks
    MaxTime              \* bound: the clock is not followed beyond it

ASSUME BlackStartAssumption ==
    /\ NoGridConn \notin GridConnIDs
    /\ SeedLoads \subseteq LoadIDs
    /\ LoadPriority \in [LoadIDs -> Int]
    /\ BlackStartDeadline \in Nat
    /\ MaxTime \in Nat

VARIABLES
    now,          \* the injected clock
    blackStarts,  \* store.blackStarts
    gridConns,    \* store.gridConns
    smsMessages,  \* store.smsMessages, the outbox
    loads         \* store.loads

vars == <<now, blackStarts, gridConns, smsMessages, loads>>

(***************************************************************************)
(* The instructions a black start sends, named after their SMS prefix.     *)
(***************************************************************************)
Instruction == {"BLACK_START_BEGIN", "BUS_RESTORED", "GRID_SYNC_REQUEST",
                "GRID_SYNCHRONIZED", "BLACK_START_FAILED"}

(***************************************************************************)
(* Timestamps that no rule reads are left out; busRestoredAt is 0, the     *)
(* zero time, until the bus is restored (the clock starts at 1).           *)
(***************************************************************************)
BlackStartRecord ==
    [status : BlackStartStatus, deadline : Nat, busRestoredAt : Nat,
     gridConnID : GridConnIDs \cup {NoGridConn},
     networkInterrupted : BOOLEAN, smsMessageIDs : SUBSET SMSIDs]

(***************************************************************************)
(* signed holds the parties whose DispatchSigned or OMSigned flag is set.  *)
(***************************************************************************)
GridConnection ==
    [blackStartID : BlackStartIDs, status : GridConnStatus,
     signed : SUBSET SignParty]

SMSMessage ==
    [blackStartID : BlackStartIDs, instruction : Instruction,
     status : {"pending", "delivered"}]

Load == [energized : BOOLEAN, shed : BOOLEAN]

TypeOK ==
    /\ now \in Nat \ {0}
    /\ DOMAIN blackStarts \subseteq BlackStartIDs
    /\ \A b \in DOMAIN blackStarts : blackStarts[b] \in BlackStartRecord
    /\ DOMAIN gridConns \subseteq GridConnIDs
    /\ \A g \in DOMAIN gridConns : gridConns[g] \in GridConnection
    /\ DOMAIN smsMessages \subseteq SMSIDs
    /\ \A m \in DOMAIN smsMessages : smsMessages[m] \in SMSMessage
    /\ DOMAIN loads \subseteq LoadIDs
    /\ \A l \in DOMAIN loads : loads[l] \in Load

Init ==
    /\ now = 1
    /\ blackStarts = <<>>
    /\ gridConns = <<>>
    /\ smsMessages = <<>>
    /\ loads = [l \in SeedLoads |-> Energized]

-----------------------------------------------------------------------------
(* The outbox *)

\* Mutant: links the message to its black start before knowing its fate.
EnqueueSMSLinkedFirst(id, bs, instruction) ==
    /\ HasFresh(SMSIDs, smsMessages)
    /\ LET msgID == Fresh(SMSIDs, smsMessages)
       IN /\ \E status \in {"pending", "delivered"} :
                smsMessages' = Put(smsMessages, msgID,
                    [blackStartID |-> id, instruction |-> instruction,
                     status |-> status])
          /\ blackStarts' = Put(blackStarts, id,
                 [bs EXCEPT !.smsMessageIDs = @ \cup {msgID}])

(***************************************************************************)
(* enqueueSMS, the last call of the handlers that leave black start id as  *)
(* bs: the instruction is saved as pending and delivered at once if the    *)
(* deliverer does not fail.  A delivered message is linked to its black    *)
(* start; one that stays pending is not, and no retry links it later.      *)
(***************************************************************************)
EnqueueSMS(id, bs, instruction) ==
    /\ HasFresh(SMSIDs, smsMessages)
    /\ LET msgID == Fresh(SMSIDs, smsMessages)
           message(status) == [blackStartID |-> id,
                               instruction |-> instruction,
                               status |-> status]
       IN \/ /\ smsMessages' = Put(smsMessages, msgID, message("pending"))
             /\ blackStarts' = Put(blackStarts, id, bs)
          \/ /\ smsMessages' = Put(smsMessages, msgID, message("delivered"))
             /\ blackStarts' = Put(blackStarts, id,
                    [bs EXCEPT !.smsMessageIDs = @ \cup {msgID}])

PendingSMS == {m \in DOMAIN smsMessages : smsMessages[m].status = "pending"}

MarkDelivered(messages) ==
    smsMessages' = [m \in DOMAIN smsMessages |->
                       IF m \in messages
                       THEN [smsMessages[m] EXCEPT !.status = "delivered"]
                       ELSE smsMessages[m]]

\* Mutant: gives up on the messages of black starts that have ended.
ResendPendingSMSOfActive(messages) ==
    /\ messages # {}
    /\ messages \subseteq {m \in PendingSMS :
           LET id == smsMessages[m].blackStartID
           IN ~BlackStartTerminal(blackStarts[id].status)}
    /\ MarkDelivered(messages)
    /\ UNCHANGED <<now, blackStarts, gridConns, loads>>

(***************************************************************************)
(* One sweep of ResendPendingSMS: every pending message is tried and those *)
(* in messages get through.  A sweep in which none does only counts        *)
(* attempts, which are not kept here.                                      *)
(***************************************************************************)
ResendPendingSMS(messages) ==
    /\ messages # {}
    /\ messages \subseteq PendingSMS
    /\ MarkDelivered(messages)
    /\ UNCHANGED <<now, blackStarts, gridConns, loads>>

-----------------------------------------------------------------------------
(* The black-start sequence *)

\* Mutant: leaves the status at Go's zero value.
NewBlackStartUnset(time) ==
    [status |-> "", deadline |-> time + BlackStartDeadline,
     busRestoredAt |-> 0, gridConnID |-> NoGridConn,
     networkInterrupted |-> FALSE, smsMessageIDs |-> {}]

(***************************************************************************)
(* The record an initiation at this time saves.                            *)
(***************************************************************************)
NewBlackStart(time) ==
    [status |-> "initiated", deadline |-> time + BlackStartDeadline,
     busRestoredAt |-> 0, gridConnID |-> NoGridConn,
     networkInterrupted |-> FALSE, smsMessageIDs |-> {}]

\* Mutant: looks for a running black start only, not for one just initiated.
InitiateUnlessInProgress ==
    /\ \A b \in DOMAIN blackStarts : blackStarts[b].status # "in_progress"
    /\ HasFresh(BlackStartIDs, blackStarts)
    /\ blackStarts' = Put(blackStarts, Fresh(BlackStartIDs, blackStarts),
                          NewBlackStart(now))
    /\ UNCHANGED <<now, gridConns, smsMessages, loads>>

(***************************************************************************)
(* Idempotent while any black start is active: nothing is created then.    *)
(***************************************************************************)
InitiateBlackStart ==
    /\ \A b \in DOMAIN blackStarts : BlackStartTerminal(blackStarts[b].status)
    /\ HasFresh(BlackStartIDs, blackStarts)
    /\ blackStarts' = Put(blackStarts, Fresh(BlackStartIDs, blackStarts),
                          NewBlackStart(now))
    /\ UNCHANGED <<now, gridConns, smsMessages, loads>>

\* Mutant: sends the instruction again when the call is repeated.
StartBlackStartAgain(id) ==
    /\ id \in DOMAIN blackStarts
    /\ blackStarts[id].status \in {"initiated", "in_progress"}
    /\ EnqueueSMS(id, [blackStarts[id] EXCEPT !.status = "in_progress"],
                  "BLACK_START_BEGIN")
    /\ UNCHANGED <<now, gridConns, loads>>

(***************************************************************************)
(* The deadline is not looked at: a black start whose deadline passed      *)
(* before it was started becomes in_progress and overdue at once.          *)
(***************************************************************************)
StartBlackStart(id) ==
    /\ id \in DOMAIN blackStarts
    /\ BlackStartCanTransition(blackStarts[id].status, "in_progress")
    /\ EnqueueSMS(id, [blackStarts[id] EXCEPT !.status = "in_progress"],
                  "BLACK_START_BEGIN")
    /\ UNCHANGED <<now, gridConns, loads>>

FailBlackStart(id) ==
    /\ BlackStartCanTransition(blackStarts[id].status, "failed")
    /\ EnqueueSMS(id, [blackStarts[id] EXCEPT !.status = "failed"],
                  "BLACK_START_FAILED")
    /\ UNCHANGED <<now, gridConns, loads>>

\* Mutant: leaves the deadline to the scheduler.
RestoreBusAnyTime(id) ==
    /\ id \in DOMAIN blackStarts
    /\ BlackStartCanTransition(blackStarts[id].status, "bus_restored")
    /\ EnqueueSMS(id, [blackStarts[id] EXCEPT !.status = "bus_restored",
                                              !.busRestoredAt = now],
                  "BUS_RESTORED")
    /\ UNCHANGED <<now, gridConns, loads>>

(***************************************************************************)
(* The deadline is judged first, with the clock read under the lock: a     *)
(* late call fails the black start itself instead of waiting for the       *)
(* scheduler.                                                              *)
(***************************************************************************)
RestoreBus(id) ==
    /\ id \in DOMAIN blackStarts
    /\ \/ /\ IsOverdue(blackStarts[id], now)
          /\ FailBlackStart(id)
       \/ /\ ~IsOverdue(blackStarts[id], now)
          /\ BlackStartCanTransition(blackStarts[id].status, "bus_restored")
          /\ EnqueueSMS(id, [blackStarts[id] EXCEPT !.status = "bus_restored",
                                                    !.busRestoredAt = now],
                        "BUS_RESTORED")
          /\ UNCHANGED <<now, gridConns, loads>>

\* Mutant: moves the black start without recording the connection.
SyncingUnrecorded(bs, gc) == [bs EXCEPT !.status = "grid_syncing"]

(***************************************************************************)
(* Both branches of the code record the connection; the one taken from     *)
(* grid_syncing has no status left to change.                              *)
(***************************************************************************)
Syncing(bs, gc) ==
    [bs EXCEPT !.status = "grid_syncing", !.gridConnID = gc]

(***************************************************************************)
(* Accepted again while the grid is syncing: the newest request becomes    *)
(* the black start's grid connection, the older ones stay as they are.     *)
(* The whole load registry is shed in the same call.                       *)
(***************************************************************************)
RequestGridConnection(id) ==
    /\ id \in DOMAIN blackStarts
    /\ blackStarts[id].status \in {"bus_restored", "grid_syncing"}
    /\ HasFresh(GridConnIDs, gridConns)
    /\ LET gc == Fresh(GridConnIDs, gridConns)
           offGrid == ~BlackStartTerminal(blackStarts[id].status)
       IN /\ gridConns' = Put(gridConns, gc, [blackStartID |-> id,
                                              status |-> "requested",
                                              signed |-> {}])
          /\ loads' = IF offGrid
                      THEN ShedLoadsByPriority(loads, LoadPriority, 1)
                      ELSE loads
          /\ EnqueueSMS(id, Syncing(blackStarts[id], gc), "GRID_SYNC_REQUEST")
    /\ UNCHANGED now

\* Mutant: tests the dispatch flag before both flags.
StatusOfDispatchFirst(signed) ==
    IF "dispatch" \in signed THEN "dispatch_signed"
    ELSE IF signed = SignParty THEN "dual_signed"
    ELSE "om_signed"

(***************************************************************************)
(* The new status is computed from the two flags; the transition table is  *)
(* not consulted.  A second signature of the same party is a no-op.        *)
(***************************************************************************)
StatusOfSignatures(signed) ==
    IF signed = SignParty THEN "dual_signed"
    ELSE IF "dispatch" \in signed THEN "dispatch_signed"
    ELSE "om_signed"

\* Mutant: records the signature of a party that has signed before.
SignGridConnectionAgain(gc, party) ==
    /\ gc \in DOMAIN gridConns
    /\ ~GridConnTerminal(gridConns[gc].status)
    /\ LET signed == gridConns[gc].signed \cup {party}
       IN gridConns' = Put(gridConns, gc,
              [gridConns[gc] EXCEPT !.signed = signed,
                                    !.status = StatusOfSignatures(signed)])
    /\ UNCHANGED <<now, blackStarts, smsMessages, loads>>

SignGridConnection(gc, party) ==
    /\ gc \in DOMAIN gridConns
    /\ ~GridConnTerminal(gridConns[gc].status)
    /\ party \notin gridConns[gc].signed
    /\ LET signed == gridConns[gc].signed \cup {party}
       IN gridConns' = Put(gridConns, gc,
              [gridConns[gc] EXCEPT !.signed = signed,
                                    !.status = StatusOfSignatures(signed)])
    /\ UNCHANGED <<now, blackStarts, smsMessages, loads>>

\* Mutant: asks for the signatures only, so that a repeat synchronizes again.
SynchronizeGridAgain(gc) ==
    /\ gc \in DOMAIN gridConns
    /\ BothSigned(gridConns[gc])
    /\ gridConns' = Put(gridConns, gc,
                        [gridConns[gc] EXCEPT !.status = "synchronized"])
    /\ LET id == gridConns[gc].blackStartID
       IN EnqueueSMS(id, blackStarts[id], "GRID_SYNCHRONIZED")
    /\ UNCHANGED <<now, loads>>

(***************************************************************************)
(* Looks only at the grid connection: whether its black start is still     *)
(* syncing, and still refers to it, is not asked.                          *)
(***************************************************************************)
SynchronizeGrid(gc) ==
    /\ gc \in DOMAIN gridConns
    /\ gridConns[gc].status \notin {"synchronized", "completed"}
    /\ BothSigned(gridConns[gc])
    /\ GridConnCanTransition(gridConns[gc].status, "synchronized")
    /\ gridConns' = Put(gridConns, gc,
                        [gridConns[gc] EXCEPT !.status = "synchronized"])
    /\ LET id == gridConns[gc].blackStartID
       IN EnqueueSMS(id, blackStarts[id], "GRID_SYNCHRONIZED")
    /\ UNCHANGED <<now, loads>>

\* Mutant: does not verify that the grid connection is synchronized.
CompleteBlackStartUnverified(id) ==
    /\ id \in DOMAIN blackStarts
    /\ BlackStartCanTransition(blackStarts[id].status, "completed")
    /\ LET gc == blackStarts[id].gridConnID
       IN gridConns' =
             IF /\ gc \in DOMAIN gridConns
                /\ GridConnCanTransition(gridConns[gc].status, "completed")
             THEN Put(gridConns, gc,
                      [gridConns[gc] EXCEPT !.status = "completed"])
             ELSE gridConns
    /\ blackStarts' = Put(blackStarts, id,
                          [blackStarts[id] EXCEPT !.status = "completed"])
    /\ UNCHANGED <<now, smsMessages, loads>>

(***************************************************************************)
(* Refused while the current grid connection is not synchronized; a black  *)
(* start without one would pass.  The grid connection is completed in the  *)
(* same call.                                                              *)
(***************************************************************************)
CompleteBlackStart(id) ==
    /\ id \in DOMAIN blackStarts
    /\ BlackStartCanTransition(blackStarts[id].status, "completed")
    /\ LET gc == blackStarts[id].gridConnID
       IN /\ gc \in DOMAIN gridConns =>
                gridConns[gc].status \in {"synchronized", "completed"}
          /\ gridConns' =
                IF /\ gc \in DOMAIN gridConns
                   /\ GridConnCanTransition(gridConns[gc].status, "completed")
                THEN Put(gridConns, gc,
                         [gridConns[gc] EXCEPT !.status = "completed"])
                ELSE gridConns
    /\ blackStarts' = Put(blackStarts, id,
                          [blackStarts[id] EXCEPT !.status = "completed"])
    /\ UNCHANGED <<now, smsMessages, loads>>

ReportNetworkInterrupt(id) ==
    /\ id \in DOMAIN blackStarts
    /\ blackStarts' = Put(blackStarts, id,
                          [blackStarts[id] EXCEPT !.networkInterrupted = TRUE])
    /\ UNCHANGED <<now, gridConns, smsMessages, loads>>

(***************************************************************************)
(* Clears the flag and retries the pending messages of this black start;   *)
(* those in messages get through.                                          *)
(***************************************************************************)
RestoreNetwork(id, messages) ==
    /\ id \in DOMAIN blackStarts
    /\ blackStarts' = Put(blackStarts, id,
                          [blackStarts[id] EXCEPT !.networkInterrupted = FALSE])
    /\ messages \subseteq {m \in PendingSMS : smsMessages[m].blackStartID = id}
    /\ MarkDelivered(messages)
    /\ UNCHANGED <<now, gridConns, loads>>

\* Mutant: spares a black start whose network is interrupted.
FailExpiredReachable ==
    \E id \in DOMAIN blackStarts :
        /\ IsOverdue(blackStarts[id], now)
        /\ ~blackStarts[id].networkInterrupted
        /\ FailBlackStart(id)

\* Mutant: counts the deadline itself as too late.
FailExpiredAtDeadline ==
    \E id \in DOMAIN blackStarts :
        /\ blackStarts[id].status = "in_progress"
        /\ now >= blackStarts[id].deadline
        /\ FailBlackStart(id)

(***************************************************************************)
(* The scheduler's deadline check fails every overdue black start.  At     *)
(* most one black start is active (AtMostOneActive, proved), so its loop   *)
(* finds at most one.                                                      *)
(***************************************************************************)
FailExpiredBlackStarts ==
    \E id \in DOMAIN blackStarts :
        /\ IsOverdue(blackStarts[id], now)
        /\ FailBlackStart(id)

-----------------------------------------------------------------------------
(* The registry of loads and the clock *)

RegisterLoad(l, load) ==
    /\ l \notin DOMAIN loads
    /\ loads' = Put(loads, l, load)
    /\ UNCHANGED <<now, blackStarts, gridConns, smsMessages>>

Tick ==
    /\ now < MaxTime
    /\ now' = now + 1
    /\ UNCHANGED <<blackStarts, gridConns, smsMessages, loads>>

-----------------------------------------------------------------------------
Next ==
    \/ InitiateBlackStart
    \/ \E id \in BlackStartIDs :
          \/ StartBlackStart(id)
          \/ RestoreBus(id)
          \/ RequestGridConnection(id)
          \/ CompleteBlackStart(id)
          \/ ReportNetworkInterrupt(id)
          \/ \E messages \in SUBSET SMSIDs : RestoreNetwork(id, messages)
    \/ \E gc \in GridConnIDs :
          \/ \E party \in SignParty : SignGridConnection(gc, party)
          \/ SynchronizeGrid(gc)
    \/ FailExpiredBlackStarts
    \/ \E messages \in SUBSET SMSIDs : ResendPendingSMS(messages)
    \/ \E l \in LoadIDs, load \in Load : RegisterLoad(l, load)
    \/ Tick

Spec == Init /\ [][Next]_vars

(***************************************************************************)
(* The scheduler keeps ticking, so an overdue black start is eventually    *)
(* swept; and the deliverer does not reject one message for ever, so some  *)
(* sweep eventually gets it through.  Operators owe nothing: their calls   *)
(* are not fair.                                                           *)
(***************************************************************************)
Fairness ==
    /\ WF_vars(FailExpiredBlackStarts)
    /\ \A m \in SMSIDs :
          WF_vars(\E messages \in SUBSET SMSIDs :
                      m \in messages /\ ResendPendingSMS(messages))

FairSpec == Spec /\ Fairness

-----------------------------------------------------------------------------
(* Safety *)

(***************************************************************************)
(* InitiateBlackStart scans the store and then saves: however calls and    *)
(* the scheduler interleave, at most one black start is not terminal.      *)
(***************************************************************************)
AtMostOneActive ==
    \A a, b \in DOMAIN blackStarts :
        /\ ~BlackStartTerminal(blackStarts[a].status)
        /\ ~BlackStartTerminal(blackStarts[b].status)
        => a = b

(***************************************************************************)
(* The bus of a black start that got past in_progress was restored no      *)
(* later than its deadline: RestoreBus and the scheduler's sweep cannot    *)
(* between them let a late restoration through.                            *)
(***************************************************************************)
RestoredInTime ==
    \A b \in DOMAIN blackStarts :
        blackStarts[b].status \in {"bus_restored", "grid_syncing", "completed"}
        => /\ 0 < blackStarts[b].busRestoredAt
           /\ blackStarts[b].busRestoredAt <= blackStarts[b].deadline

(***************************************************************************)
(* SignGridConnection computes the status from the two flags and           *)
(* SynchronizeGrid tests both: the two always agree, so a synchronized or  *)
(* completed connection carries both signatures in whatever order they     *)
(* came.                                                                   *)
(***************************************************************************)
StatusMatchesSignatures ==
    \A g \in DOMAIN gridConns :
        LET gc == gridConns[g]
        IN IF gc.status = "requested" THEN gc.signed = {}
           ELSE IF gc.status = "dispatch_signed" THEN gc.signed = {"dispatch"}
           ELSE IF gc.status = "om_signed" THEN gc.signed = {"operations"}
           ELSE gc.signed = SignParty

(***************************************************************************)
(* RequestGridConnection writes two records: a black start is syncing or   *)
(* completed exactly when it refers to a connection, that connection       *)
(* exists and refers back, and no connection belongs to any other black    *)
(* start.                                                                  *)
(***************************************************************************)
ConnectionsBelong ==
    /\ \A b \in DOMAIN blackStarts :
          LET gc == blackStarts[b].gridConnID
          IN IF blackStarts[b].status \in {"grid_syncing", "completed"}
             THEN gc \in DOMAIN gridConns /\ gridConns[gc].blackStartID = b
             ELSE gc = NoGridConn
    /\ \A g \in DOMAIN gridConns :
          /\ gridConns[g].blackStartID \in DOMAIN blackStarts
          /\ blackStarts[gridConns[g].blackStartID].status
                \in {"grid_syncing", "completed"}

(***************************************************************************)
(* CompleteBlackStart closes both records: a black start is completed      *)
(* exactly when its current connection is, and a superseded connection is  *)
(* never completed.                                                        *)
(***************************************************************************)
CompletedTogether ==
    /\ \A b \in DOMAIN blackStarts :
          blackStarts[b].status = "completed" =>
             LET gc == blackStarts[b].gridConnID
             IN gc \in DOMAIN gridConns /\ gridConns[gc].status = "completed"
    /\ \A g \in DOMAIN gridConns :
          gridConns[g].status = "completed" =>
             LET b == gridConns[g].blackStartID
             IN /\ b \in DOMAIN blackStarts
                /\ blackStarts[b].status = "completed"
                /\ blackStarts[b].gridConnID = g

(***************************************************************************)
(* The instructions of one kind a black start has in the outbox.           *)
(***************************************************************************)
Issued(b, instruction) ==
    {m \in DOMAIN smsMessages : /\ smsMessages[m].blackStartID = b
                                /\ smsMessages[m].instruction = instruction}

IssuedOnceIff(b, instruction, condition) ==
    IF condition
    THEN \E m \in Issued(b, instruction) : Issued(b, instruction) = {m}
    ELSE Issued(b, instruction) = {}

(***************************************************************************)
(* No instruction is lost and none is repeated: the outbox holds one       *)
(* message for each step a black start has taken and none for a step it    *)
(* has not, however often the idempotent calls are retried.                *)
(***************************************************************************)
OutboxRecordsProgress ==
    \A b \in DOMAIN blackStarts :
        LET status == blackStarts[b].status
        IN /\ IssuedOnceIff(b, "BLACK_START_BEGIN", status # "initiated")
           /\ IssuedOnceIff(b, "BUS_RESTORED",
                 status \in {"bus_restored", "grid_syncing", "completed"})
           /\ IssuedOnceIff(b, "BLACK_START_FAILED", status = "failed")

ConnectionsOf(b) == {g \in DOMAIN gridConns : gridConns[g].blackStartID = b}

SynchronizedOf(b) ==
    {g \in ConnectionsOf(b) :
        gridConns[g].status \in {"synchronized", "completed"}}

(***************************************************************************)
(* The same for the two instructions a black start may send several times: *)
(* one request per connection and one notice per synchronized connection.  *)
(***************************************************************************)
OutboxRecordsConnections ==
    \A b \in DOMAIN blackStarts :
        /\ Cardinality(Issued(b, "GRID_SYNC_REQUEST"))
              = Cardinality(ConnectionsOf(b))
        /\ Cardinality(Issued(b, "GRID_SYNCHRONIZED"))
              = Cardinality(SynchronizedOf(b))

(***************************************************************************)
(* The messages listed in a black start are its own and were delivered:    *)
(* enqueueSMS makes the link after the delivery.                           *)
(***************************************************************************)
LinkedMessagesDelivered ==
    \A b \in DOMAIN blackStarts : \A m \in blackStarts[b].smsMessageIDs :
        /\ m \in DOMAIN smsMessages
        /\ smsMessages[m].status = "delivered"
        /\ smsMessages[m].blackStartID = b

(***************************************************************************)
(* From the first grid-connection request on, the loads present at start   *)
(* are served by priority: the critical ones are energized, the others are *)
(* shed.  No later call switches a shed load on again, completing the      *)
(* black start included.                                                   *)
(***************************************************************************)
CriticalLoadsServed ==
    DOMAIN gridConns # {} =>
        \A l \in SeedLoads :
            loads[l] = IF LoadPriority[l] <= 1 THEN Energized ELSE Shed

(***************************************************************************)
(* A step leaves every status alone or changes it as its table permits.    *)
(***************************************************************************)
StatusChangesPermitted ==
    /\ \A b \in DOMAIN blackStarts :
          LET from == blackStarts[b].status
              to == blackStarts'[b].status
          IN from # to => BlackStartCanTransition(from, to)
    /\ \A g \in DOMAIN gridConns :
          LET from == gridConns[g].status
              to == gridConns'[g].status
          IN from # to => GridConnCanTransition(from, to)

(***************************************************************************)
(* Every status change of every record is one the domain tables permit,    *)
(* also in the handlers that compute the new status without asking the     *)
(* table; in particular terminal records never move again, and a           *)
(* synchronized connection never falls back to its signatures.             *)
(***************************************************************************)
StatusesFollowTables == [][StatusChangesPermitted]_vars

(***************************************************************************)
(* CompleteBlackStart "finalises the black-start sequence after grid       *)
(* synchronization is complete" (blackstart.go:242): no connection of a    *)
(* completed black start is synchronized any more.                         *)
(***************************************************************************)
NoSynchronizationAfterCompletion ==
    [][\A g \in DOMAIN gridConns :
          /\ gridConns[g].status # "synchronized"
          /\ gridConns'[g].status = "synchronized"
          => blackStarts[gridConns[g].blackStartID].status # "completed"]_vars

-----------------------------------------------------------------------------
(* The promise *)

(***************************************************************************)
(* A black start as the response Outage speaks of: the two statuses before *)
(* the bus is restored are one stage, and so are the two after it.         *)
(***************************************************************************)
StageOf ==
    [initiated |-> "underway", in_progress |-> "underway",
     bus_restored |-> "energized", grid_syncing |-> "energized",
     completed |-> "connected", failed |-> "failed"]

StageMap ==
    [b \in BlackStartIDs |-> IF b \in DOMAIN blackStarts
                             THEN StageOf[blackStarts[b].status] ELSE "none"]

DueMap ==
    [b \in BlackStartIDs |-> IF b \in DOMAIN blackStarts
                             THEN blackStarts[b].deadline ELSE 0]

ProposedMap == {<<g, gridConns[g].blackStartID>> : g \in DOMAIN gridConns}

ApprovedMap ==
    [g \in GridConnIDs |-> IF g \in DOMAIN gridConns
                           THEN gridConns[g].signed ELSE {}]

ClosedMap ==
    {g \in DOMAIN gridConns :
        gridConns[g].status \in {"synchronized", "completed"}}

Promise == INSTANCE Outage WITH
    Responses <- BlackStartIDs, Connections <- GridConnIDs,
    Parties <- SignParty, Limit <- BlackStartDeadline,
    stage <- StageMap, due <- DueMap, proposed <- ProposedMap,
    approved <- ApprovedMap, closed <- ClosedMap

(***************************************************************************)
(* The workflow of four statuses, two record types, an outbox and a        *)
(* scheduler does what it is for: one response at a time, energized in     *)
(* time or failed for lateness only, and concluded through a connection    *)
(* that was proposed for it with the bus energized and that both parties   *)
(* approved before it was closed.                                          *)
(***************************************************************************)
ImplementsOutage == Promise!Spec

-----------------------------------------------------------------------------
(* Liveness *)

(***************************************************************************)
(* The scheduler enforces the deadline: a black start that is overdue is   *)
(* eventually failed, whatever the operators do.                           *)
(***************************************************************************)
OverdueFails ==
    \A b \in BlackStartIDs :
        (b \in DOMAIN blackStarts /\ IsOverdue(blackStarts[b], now))
            ~> (b \in DOMAIN blackStarts /\ blackStarts[b].status = "failed")

(***************************************************************************)
(* The outbox loses nothing: an instruction whose immediate delivery       *)
(* failed is eventually delivered by the retries, also when its black      *)
(* start has ended meanwhile.                                              *)
(***************************************************************************)
InstructionsDelivered ==
    \A m \in SMSIDs :
        (m \in PendingSMS)
            ~> (m \in DOMAIN smsMessages /\ smsMessages[m].status = "delivered")

=============================================================================
