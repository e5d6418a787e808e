-------------------------- MODULE BlackStartSteps --------------------------
(***************************************************************************)
(* The calls of BlackStart one store call at a time.  A method of          *)
(* internal/app/blackstart.go or sms.go locks Service.mu, reads the        *)
(* records it works on, and writes them back by separate calls of the      *)
(* store, each under the store's own lock.  Service.mu keeps the other     *)
(* methods out meanwhile, but neither the readers (GetX and ListX lock     *)
(* only the store), nor RegisterLoad, nor the clock.  What a reader can    *)
(* meet is the store between any two steps of this module.                 *)
(*                                                                         *)
(* A method is followed to its return: the record it returns, the HTTP     *)
(* status its handler will answer with, and the deferred Unlock.  The      *)
(* handler writes the answer after that (writeJSON), from the returned     *)
(* copy and without touching the store.                                    *)
(*                                                                         *)
(* BlackStart takes each method as one step.  MethodsAreAtomic states that *)
(* this is justified: this module implements that one.                     *)
(***************************************************************************)
EXTENDS Domain, Store, Sequences, FiniteSets

CONSTANTS
    BlackStartIDs, GridConnIDs, SMSIDs, LoadIDs, SeedLoads, LoadPriority,
    NoGridConn, BlackStartDeadline, MaxTime,  \* as in BlackStart
    Threads,  \* goroutines calling methods: requests and the scheduler
    Free,     \* Service.mu is unlocked
    None      \* a local variable that is not in use

(***************************************************************************)
(* The methods of Service that are followed, by short names.               *)
(***************************************************************************)
Method == {"Initiate", "Start", "RestoreBus", "Fail", "Request", "Sign",
           "Synchronize", "Complete", "ReportInterrupt", "RestoreNetwork",
           "Resend"}

ASSUME StepsAssumption ==
    /\ Free \notin Threads
    /\ None \notin BlackStartIDs \cup GridConnIDs \cup SMSIDs \cup Method
    /\ NoGridConn \notin GridConnIDs
    /\ SeedLoads \subseteq LoadIDs
    /\ LoadPriority \in [LoadIDs -> Int]
    /\ BlackStartDeadline \in Nat
    /\ MaxTime \in Nat

VARIABLES
    now, blackStarts, gridConns, smsMessages, loads,  \* as in BlackStart
    mu,   \* the thread that holds Service.mu, or Free
    call  \* thread -> the call it is in, with its local variables

store == <<blackStarts, gridConns, smsMessages, loads>>

vars == <<now, store, mu, call>>

\* The records and the pure parts of BlackStart.
BS == INSTANCE BlackStart

-----------------------------------------------------------------------------
(* The store calls of a method *)

StoreCall == {"PutBlackStart", "PutGridConn", "ListLoads", "PutLoad",
              "SaveSMS", "PutSMS", "LinkSMS", "RetrySMS"}

(***************************************************************************)
(* enqueueSMS: SaveSMS files the message as pending, PutSMS the outcome of *)
(* the delivery, LinkSMS rereads the black start and adds the message.     *)
(***************************************************************************)
EnqueueSMS == <<"SaveSMS", "PutSMS", "LinkSMS">>

(***************************************************************************)
(* StartBlackStart, RestoreBus and failBlackStart.                         *)
(***************************************************************************)
MoveAndTell == <<"PutBlackStart">> \o EnqueueSMS

\* Mutant: saves the black start before the connection it names.
RequestWritesBlackStartFirst ==
    <<"PutBlackStart", "PutGridConn", "ListLoads", "PutLoad">> \o EnqueueSMS

RequestWrites ==
    <<"PutGridConn", "PutBlackStart", "ListLoads", "PutLoad">> \o EnqueueSMS

\* Mutant: tells the field before the connection is saved as synchronized.
SynchronizeWritesTellFirst ==
    <<"SaveSMS", "PutSMS", "PutGridConn", "LinkSMS">>

SynchronizeWrites == <<"PutGridConn">> \o EnqueueSMS

\* Mutant: closes the connection before its black start.
CompleteWritesConnectionFirst == <<"PutGridConn", "PutBlackStart">>

CompleteWrites == <<"PutBlackStart", "PutGridConn">>

-----------------------------------------------------------------------------
(* Calls *)

\* Some of the loads, by identifier.
PartialLoads == UNION {[ids -> BS!Load] : ids \in SUBSET LoadIDs}

Call ==
    [method : Method \cup {None},
     left : Seq(StoreCall),
     id : BlackStartIDs \cup {None},
     bs : BS!BlackStartRecord \cup {None},
     old : BS!BlackStartRecord \cup {None},
     gcID : GridConnIDs \cup {None},
     gc : BS!GridConnection \cup {None},
     message : BS!Instruction \cup {None},
     msgID : SMSIDs \cup {None},
     accepted : SUBSET SMSIDs,
     shedding : PartialLoads,
     status : {0, 200, 201, 404, 409, 422, 500}]

TypeOK ==
    /\ BS!TypeOK
    /\ mu \in Threads \cup {Free}
    /\ call \in [Threads -> Call]

(***************************************************************************)
(* A thread that is in no method.  A refused call has no method either: it *)
(* has only a status left to answer.                                       *)
(***************************************************************************)
Idle ==
    [method   |-> None,  \* what is called
     left     |-> <<>>,  \* the store calls still to be made
     id       |-> None,  \* the black start the call is about
     bs       |-> None,  \* the local copy of it, which is also returned
     old      |-> None,  \* the record the copy was read from
     gcID     |-> None,  \* the grid connection the call is about
     gc       |-> None,  \* the local copy of it
     message  |-> None,  \* the instruction to send
     msgID    |-> None,  \* its identifier
     accepted |-> {},    \* the messages the deliverer will not reject
     shedding |-> <<>>,  \* the loads still to be written
     status   |-> 0]     \* the HTTP status of the answer

(***************************************************************************)
(* writeError: the status of each error a method returns.  An error that   *)
(* is no sentinel of the domain is answered with 500.                      *)
(***************************************************************************)
WriteError(err) ==
    IF err \in {"ErrBlackStartNotFound", "ErrGridConnNotFound"} THEN 404
    ELSE IF err \in {"ErrInvalidTransition", "ErrDualSignRequired"} THEN 409
    ELSE IF err = "ErrDeadlineExceeded" THEN 422
    ELSE 500

OK == 200
Created == 201

\* Mutant: does not wait for the lock.
EnterUnlocked(t, c) ==
    /\ call[t] = Idle
    /\ mu' = t
    /\ call' = [call EXCEPT ![t] = c]
    /\ UNCHANGED <<now, store>>

(***************************************************************************)
(* s.mu.Lock() and the reads a method begins with, the clock among them.   *)
(* While the lock is held nobody else writes these records, so it makes no *)
(* difference when they are read; the loads are another matter.            *)
(***************************************************************************)
Enter(t, c) ==
    /\ call[t] = Idle
    /\ mu = Free
    /\ mu' = t
    /\ call' = [call EXCEPT ![t] = c]
    /\ UNCHANGED <<now, store>>

(***************************************************************************)
(* A method that will send an instruction.  Whether the deliverer accepts  *)
(* it is decided here already: the outcome of a call that only this method *)
(* observes.                                                               *)
(***************************************************************************)
EnterSending(t, c, message) ==
    /\ HasFresh(SMSIDs, smsMessages)
    /\ LET m == Fresh(SMSIDs, smsMessages)
       IN \E accepted \in {{}, {m}} :
             Enter(t, [c EXCEPT !.message = message, !.msgID = m,
                                !.accepted = accepted])

(***************************************************************************)
(* The method returns an error without having written anything.            *)
(***************************************************************************)
Refuse(t, err) == Enter(t, [Idle EXCEPT !.status = WriteError(err)])

(***************************************************************************)
(* The method returns the record as it is: the call was made before.       *)
(***************************************************************************)
Repeat(t, c) == Enter(t, [c EXCEPT !.left = <<>>])

(***************************************************************************)
(* A call about black start id, read from the store.                       *)
(***************************************************************************)
About(id, method, writes) ==
    [Idle EXCEPT !.method = method, !.left = writes, !.id = id,
                 !.bs = blackStarts[id], !.old = blackStarts[id],
                 !.status = OK]

(***************************************************************************)
(* The same with the local copy's status changed.                          *)
(***************************************************************************)
Moving(id, method, writes, status) ==
    [About(id, method, writes) EXCEPT !.bs.status = status]

\* A call about grid connection g, read from the store.
AboutConn(g, method, writes) ==
    [Idle EXCEPT !.method = method, !.left = writes,
                 !.id = gridConns[g].blackStartID, !.gcID = g,
                 !.gc = gridConns[g], !.status = OK]

-----------------------------------------------------------------------------
(* The methods, from the handler's call to the first write *)

InitiateBlackStart(t) ==
    \/ \E b \in DOMAIN blackStarts :
          /\ ~BlackStartTerminal(blackStarts[b].status)
          /\ Repeat(t, [About(b, "Initiate", <<>>) EXCEPT !.status = Created])
    \/ /\ \A b \in DOMAIN blackStarts :
             BlackStartTerminal(blackStarts[b].status)
       /\ HasFresh(BlackStartIDs, blackStarts)
       /\ Enter(t, [Idle EXCEPT !.method = "Initiate",
                                !.left = <<"PutBlackStart">>,
                                !.id = Fresh(BlackStartIDs, blackStarts),
                                !.bs = BS!NewBlackStart(now),
                                !.status = Created])

\* Mutant: answers every repeated call as if it had succeeded.
StartBlackStartAnyStatus(t, id) ==
    \/ /\ blackStarts[id].status # "initiated"
       /\ Repeat(t, About(id, "Start", <<>>))
    \/ /\ blackStarts[id].status = "initiated"
       /\ EnterSending(t, Moving(id, "Start", MoveAndTell, "in_progress"),
                       "BLACK_START_BEGIN")

StartBlackStart(t, id) ==
    \/ /\ blackStarts[id].status = "in_progress"
       /\ Repeat(t, About(id, "Start", <<>>))
    \/ /\ BlackStartCanTransition(blackStarts[id].status, "in_progress")
       /\ EnterSending(t, Moving(id, "Start", MoveAndTell, "in_progress"),
                       "BLACK_START_BEGIN")
    \/ /\ blackStarts[id].status \notin {"initiated", "in_progress"}
       /\ Refuse(t, "ErrInvalidTransition")

FailBlackStart(t, id, status) ==
    /\ IsOverdue(blackStarts[id], now)
    /\ EnterSending(t, [Moving(id, "Fail", MoveAndTell, "failed")
                           EXCEPT !.status = status],
                    "BLACK_START_FAILED")

RestoreBus(t, id) ==
    \/ /\ blackStarts[id].status = "bus_restored"
       /\ Repeat(t, About(id, "RestoreBus", <<>>))
    \/ FailBlackStart(t, id, WriteError("ErrDeadlineExceeded"))
    \/ /\ ~IsOverdue(blackStarts[id], now)
       /\ BlackStartCanTransition(blackStarts[id].status, "bus_restored")
       /\ EnterSending(t,
             [Moving(id, "RestoreBus", MoveAndTell, "bus_restored")
                 EXCEPT !.bs.busRestoredAt = now],
             "BUS_RESTORED")
    \/ /\ blackStarts[id].status \notin {"in_progress", "bus_restored"}
       /\ Refuse(t, "ErrInvalidTransition")

RequestGridConnection(t, id) ==
    \/ /\ blackStarts[id].status \in {"bus_restored", "grid_syncing"}
       /\ HasFresh(GridConnIDs, gridConns)
       /\ LET g == Fresh(GridConnIDs, gridConns)
          IN EnterSending(t,
                [About(id, "Request", RequestWrites) EXCEPT
                    !.bs = BS!Syncing(@, g),
                    !.gcID = g,
                    !.gc = [blackStartID |-> id, status |-> "requested",
                            signed |-> {}],
                    !.status = Created],
                "GRID_SYNC_REQUEST")
    \/ /\ blackStarts[id].status \notin {"bus_restored", "grid_syncing"}
       /\ Refuse(t, "ErrInvalidTransition")

(***************************************************************************)
(* A party that is neither of the two is a plain error.                    *)
(***************************************************************************)
SignGridConnection(t, g, party) ==
    LET gc == gridConns[g]
        signed == gc.signed \cup {party}
    IN \/ /\ GridConnTerminal(gc.status) \/ party \in gc.signed
          /\ Repeat(t, AboutConn(g, "Sign", <<>>))
       \/ /\ ~GridConnTerminal(gc.status)
          /\ party \notin SignParty
          /\ Refuse(t, "unknown sign party")
       \/ /\ ~GridConnTerminal(gc.status)
          /\ party \in SignParty \ gc.signed
          /\ Enter(t, [AboutConn(g, "Sign", <<"PutGridConn">>) EXCEPT
                          !.gc.signed = signed,
                          !.gc.status = BS!StatusOfSignatures(signed)])

SynchronizeGrid(t, g) ==
    LET gc == gridConns[g]
    IN \/ /\ gc.status \in {"synchronized", "completed"}
          /\ Repeat(t, AboutConn(g, "Synchronize", <<>>))
       \/ /\ gc.status \notin {"synchronized", "completed"}
          /\ ~BothSigned(gc)
          /\ Refuse(t, "ErrDualSignRequired")
       \/ /\ BothSigned(gc)
          /\ GridConnCanTransition(gc.status, "synchronized")
          /\ EnterSending(t, [AboutConn(g, "Synchronize", SynchronizeWrites)
                                 EXCEPT !.gc.status = "synchronized"],
                          "GRID_SYNCHRONIZED")

(***************************************************************************)
(* "Not synchronized" is a plain error.  BlackStart takes into account     *)
(* that the connection may be missing or past completion; here it is read  *)
(* as it always is (ConnectionsBelong).                                    *)
(***************************************************************************)
CompleteBlackStart(t, id) ==
    LET g == blackStarts[id].gridConnID
        status == blackStarts[id].status
    IN \/ /\ status = "completed"
          /\ Repeat(t, About(id, "Complete", <<>>))
       \/ /\ status \notin {"grid_syncing", "completed"}
          /\ Refuse(t, "ErrInvalidTransition")
       \/ /\ status = "grid_syncing"
          /\ gridConns[g].status \notin {"synchronized", "completed"}
          /\ Refuse(t, "not synchronized")
       \/ /\ status = "grid_syncing"
          /\ gridConns[g].status = "synchronized"
          /\ Enter(t, [Moving(id, "Complete", CompleteWrites, "completed")
                          EXCEPT !.gcID = g,
                                 !.gc = [gridConns[g] EXCEPT
                                            !.status = "completed"]])

ReportNetworkInterrupt(t, id) ==
    Enter(t, [About(id, "ReportInterrupt", <<"PutBlackStart">>) EXCEPT
                 !.bs.networkInterrupted = TRUE])

(***************************************************************************)
(* The pending messages, which only this method can change now, are tried  *)
(* one by one after the black start is saved.                              *)
(***************************************************************************)
RestoreNetwork(t, id) ==
    \E accepted \in SUBSET {m \in BS!PendingSMS :
                               smsMessages[m].blackStartID = id} :
        Enter(t, [About(id, "RestoreNetwork", <<"PutBlackStart", "RetrySMS">>)
                     EXCEPT !.bs.networkInterrupted = FALSE,
                            !.accepted = accepted])

(***************************************************************************)
(* The scheduler's sweep.  One that delivers nothing writes nothing that   *)
(* is kept here.                                                           *)
(***************************************************************************)
ResendPendingSMS(t) ==
    \E accepted \in (SUBSET BS!PendingSMS) \ {{}} :
        Enter(t, [Idle EXCEPT !.method = "Resend", !.left = <<"RetrySMS">>,
                              !.accepted = accepted])

UnknownBlackStart(t, id) ==
    id \notin DOMAIN blackStarts /\ Refuse(t, "ErrBlackStartNotFound")

UnknownGridConn(t, g) ==
    g \notin DOMAIN gridConns /\ Refuse(t, "ErrGridConnNotFound")

-----------------------------------------------------------------------------
(* The store calls *)

(***************************************************************************)
(* The next thing thread t does in its method.                             *)
(***************************************************************************)
At(t, storeCall) == call[t].left # <<>> /\ Head(call[t].left) = storeCall

Goto(t, c) == call' = [call EXCEPT ![t] = c]

Done(t) == Goto(t, [call[t] EXCEPT !.left = Tail(@)])

(***************************************************************************)
(* SaveBlackStart and PutBlackStart: the identifier is new to the store in *)
(* the first case, so that they write alike.                               *)
(***************************************************************************)
PutBlackStart(t) ==
    /\ At(t, "PutBlackStart")
    /\ blackStarts' = Put(blackStarts, call[t].id, call[t].bs)
    /\ Done(t)
    /\ UNCHANGED <<now, gridConns, smsMessages, loads, mu>>

\* SaveGridConn and PutGridConn.
PutGridConn(t) ==
    /\ At(t, "PutGridConn")
    /\ gridConns' = Put(gridConns, call[t].gcID, call[t].gc)
    /\ Done(t)
    /\ UNCHANGED <<now, blackStarts, smsMessages, loads, mu>>

(***************************************************************************)
(* The copies that ShedLoadsByPriority will change and PutLoad write back. *)
(***************************************************************************)
ListLoads(t) ==
    /\ At(t, "ListLoads")
    /\ Goto(t, [call[t] EXCEPT
                   !.left = Tail(@),
                   !.shedding = ShedLoadsByPriority(loads, LoadPriority, 1)])
    /\ UNCHANGED <<now, store, mu>>

\* Mutant: writes the loads in the order of the list.
PutLoadUnsorted(t, l) ==
    /\ At(t, "PutLoad")
    /\ l \in DOMAIN call[t].shedding
    /\ loads' = Put(loads, l, call[t].shedding[l])
    /\ Goto(t, [call[t] EXCEPT
                   !.shedding = [k \in DOMAIN @ \ {l} |-> @[k]]])
    /\ UNCHANGED <<now, blackStarts, gridConns, smsMessages, mu>>

(***************************************************************************)
(* One load of the sorted list: the tertiary ones come first.              *)
(***************************************************************************)
PutLoad(t, l) ==
    /\ At(t, "PutLoad")
    /\ l \in DOMAIN call[t].shedding
    /\ \A k \in DOMAIN call[t].shedding : LoadPriority[k] <= LoadPriority[l]
    /\ loads' = Put(loads, l, call[t].shedding[l])
    /\ Goto(t, [call[t] EXCEPT
                   !.shedding = [k \in DOMAIN @ \ {l} |-> @[k]]])
    /\ UNCHANGED <<now, blackStarts, gridConns, smsMessages, mu>>

Message(c, status) ==
    [blackStartID |-> c.id, instruction |-> c.message, status |-> status]

SaveSMS(t) ==
    /\ At(t, "SaveSMS")
    /\ smsMessages' = Put(smsMessages, call[t].msgID,
                          Message(call[t], "pending"))
    /\ Done(t)
    /\ UNCHANGED <<now, blackStarts, gridConns, loads, mu>>

\* Mutant: marks a rejected message as failed.
PutSMSFailed(t) ==
    /\ At(t, "PutSMS")
    /\ smsMessages' = Put(smsMessages, call[t].msgID,
                          Message(call[t], IF call[t].msgID \in call[t].accepted
                                           THEN "delivered" ELSE "failed"))
    /\ Done(t)
    /\ UNCHANGED <<now, blackStarts, gridConns, loads, mu>>

(***************************************************************************)
(* PutSMS after the delivery was tried.  A message that was rejected stays *)
(* pending and is not linked.                                              *)
(***************************************************************************)
PutSMS(t) ==
    /\ At(t, "PutSMS")
    /\ \/ /\ call[t].msgID \in call[t].accepted
          /\ smsMessages' = Put(smsMessages, call[t].msgID,
                                Message(call[t], "delivered"))
          /\ Done(t)
       \/ /\ call[t].msgID \notin call[t].accepted
          /\ Goto(t, [call[t] EXCEPT !.left = <<>>])
          /\ UNCHANGED smsMessages
    /\ UNCHANGED <<now, blackStarts, gridConns, loads, mu>>

\* Mutant: links the message in the copy the method began with.
LinkSMSOwnCopy(t) ==
    /\ At(t, "LinkSMS")
    /\ blackStarts' = Put(blackStarts, call[t].id,
                          [call[t].old EXCEPT
                              !.smsMessageIDs = @ \cup {call[t].msgID}])
    /\ Done(t)
    /\ UNCHANGED <<now, gridConns, smsMessages, loads, mu>>

LinkSMS(t) ==
    /\ At(t, "LinkSMS")
    /\ blackStarts' = Put(blackStarts, call[t].id,
                          [blackStarts[call[t].id] EXCEPT
                              !.smsMessageIDs = @ \cup {call[t].msgID}])
    /\ Done(t)
    /\ UNCHANGED <<now, gridConns, smsMessages, loads, mu>>

RetrySMS(t, m) ==
    /\ At(t, "RetrySMS")
    /\ m \in call[t].accepted
    /\ smsMessages' = Put(smsMessages, m,
                          [smsMessages[m] EXCEPT !.status = "delivered"])
    /\ Goto(t, [call[t] EXCEPT !.accepted = @ \ {m}])
    /\ UNCHANGED <<now, blackStarts, gridConns, loads, mu>>

LoopEnds(t) ==
    /\ \/ At(t, "PutLoad") /\ call[t].shedding = <<>>
       \/ At(t, "RetrySMS") /\ call[t].accepted = {}
    /\ Done(t)
    /\ UNCHANGED <<now, store, mu>>

(***************************************************************************)
(* The method returns and its deferred Unlock runs.                        *)
(***************************************************************************)
Return(t) ==
    /\ call[t] # Idle
    /\ call[t].left = <<>>
    /\ mu' = Free
    /\ Goto(t, Idle)
    /\ UNCHANGED <<now, store>>

-----------------------------------------------------------------------------
(* What goes on without Service.mu *)

RegisterLoad(l, load) ==
    /\ l \notin DOMAIN loads
    /\ loads' = Put(loads, l, load)
    /\ UNCHANGED <<now, blackStarts, gridConns, smsMessages, mu, call>>

Tick ==
    /\ now < MaxTime
    /\ now' = now + 1
    /\ UNCHANGED <<store, mu, call>>

-----------------------------------------------------------------------------
Init ==
    /\ BS!Init
    /\ mu = Free
    /\ call = [t \in Threads |-> Idle]

Begin(t) ==
    \/ InitiateBlackStart(t)
    \/ \E id \in BlackStartIDs : UnknownBlackStart(t, id)
    \/ \E id \in DOMAIN blackStarts :
          \/ StartBlackStart(t, id)
          \/ RestoreBus(t, id)
          \/ RequestGridConnection(t, id)
          \/ CompleteBlackStart(t, id)
          \/ ReportNetworkInterrupt(t, id)
          \/ RestoreNetwork(t, id)
          \/ FailBlackStart(t, id, 0)
    \/ \E g \in GridConnIDs : UnknownGridConn(t, g)
    \/ \E g \in DOMAIN gridConns :
          \/ \E party \in SignParty \cup {"other"} :
                SignGridConnection(t, g, party)
          \/ SynchronizeGrid(t, g)
    \/ ResendPendingSMS(t)

Proceed(t) ==
    \/ PutBlackStart(t)
    \/ PutGridConn(t)
    \/ ListLoads(t)
    \/ \E l \in LoadIDs : PutLoad(t, l)
    \/ SaveSMS(t)
    \/ PutSMS(t)
    \/ LinkSMS(t)
    \/ \E m \in SMSIDs : RetrySMS(t, m)
    \/ LoopEnds(t)
    \/ Return(t)

Next ==
    \/ \E t \in Threads : Begin(t) \/ Proceed(t)
    \/ \E l \in LoadIDs, load \in BS!Load : RegisterLoad(l, load)
    \/ Tick

Spec == Init /\ [][Next]_vars

-----------------------------------------------------------------------------
(* What a reader can rely on between any two store calls *)

(***************************************************************************)
(* Whatever half of a method has been done, an identifier found in one     *)
(* record leads to a record: RequestGridConnection saves the connection    *)
(* before the black start that names it, enqueueSMS links a message after  *)
(* it was saved as delivered.                                              *)
(***************************************************************************)
ReadersFindReferences ==
    /\ \A b \in DOMAIN blackStarts :
          /\ blackStarts[b].gridConnID \in DOMAIN gridConns \cup {NoGridConn}
          /\ \A m \in blackStarts[b].smsMessageIDs :
                m \in DOMAIN smsMessages /\ smsMessages[m].status = "delivered"
    /\ \A g \in DOMAIN gridConns :
          gridConns[g].blackStartID \in DOMAIN blackStarts

(***************************************************************************)
(* The statuses in which an instruction has been earned.                   *)
(***************************************************************************)
EarnedBy ==
    [BLACK_START_BEGIN  |-> BlackStartStatus \ {"initiated"},
     BUS_RESTORED       |-> {"bus_restored", "grid_syncing", "completed"},
     GRID_SYNC_REQUEST  |-> {"grid_syncing", "completed"},
     GRID_SYNCHRONIZED  |-> {"grid_syncing", "completed"},
     BLACK_START_FAILED |-> {"failed"}]

InstructionsEarned ==
    \A m \in DOMAIN smsMessages :
        blackStarts[smsMessages[m].blackStartID].status
            \in EarnedBy[smsMessages[m].instruction]

(***************************************************************************)
(* The instructions about one connection, and the statuses in which it is  *)
(* as far as they say.  They name the black start, which may have several  *)
(* connections, so that only their number can be compared.                 *)
(***************************************************************************)
ConnectionEarns ==
    [GRID_SYNC_REQUEST |-> GridConnStatus,
     GRID_SYNCHRONIZED |-> {"synchronized", "completed"}]

InstructionsOf(b, instruction) ==
    {m \in DOMAIN smsMessages : /\ smsMessages[m].blackStartID = b
                                /\ smsMessages[m].instruction = instruction}

ConnectionsEarning(b, instruction) ==
    {g \in DOMAIN gridConns :
        /\ gridConns[g].blackStartID = b
        /\ gridConns[g].status \in ConnectionEarns[instruction]}

InstructionsCovered ==
    \A b \in DOMAIN blackStarts, i \in DOMAIN ConnectionEarns :
        Cardinality(InstructionsOf(b, i))
            <= Cardinality(ConnectionsEarning(b, i))

(***************************************************************************)
(* The field never hears of a step before the store knows of it (the       *)
(* handlers enqueue last): when an instruction is in the outbox, pending   *)
(* or delivered, its black start has been saved in a status that earned    *)
(* it; and no black start has more requests for synchronization in the     *)
(* outbox than connections in the store, nor more notices of               *)
(* synchronization than connections saved as synchronized.                 *)
(***************************************************************************)
InstructionsFollowFacts == InstructionsEarned /\ InstructionsCovered

(***************************************************************************)
(* No instruction reaches the field twice: a retry lists the pending       *)
(* messages first and delivers them one by one, and what it is about to    *)
(* deliver is pending still, although the scheduler's sweep and the        *)
(* RestoreNetwork of a black start may both have found it.                 *)
(***************************************************************************)
DeliveredOnce ==
    \A t \in Threads : \A m \in call[t].accepted \ {call[t].msgID} :
        m \in BS!PendingSMS

(***************************************************************************)
(* CompleteBlackStart writes two records; a reader can find the black      *)
(* start completed and its connection still synchronized, but never a      *)
(* completed connection of a black start that is not completed.            *)
(***************************************************************************)
ConnectionClosesLast ==
    \A g \in DOMAIN gridConns :
        gridConns[g].status = "completed" =>
            blackStarts[gridConns[g].blackStartID].status = "completed"

(***************************************************************************)
(* "All others are shed in sequence" (blackstart.go:104), "tertiary first" *)
(* (load.go:20): at every instant of the shedding a load present from the  *)
(* start is dark only if all less important ones are.                      *)
(***************************************************************************)
LeastImportantShedFirst ==
    \A l, k \in SeedLoads :
        loads[l].shed /\ LoadPriority[k] > LoadPriority[l] => loads[k].shed

LinksKept ==
    \A b \in DOMAIN blackStarts :
        blackStarts[b].smsMessageIDs \subseteq blackStarts'[b].smsMessageIDs

(***************************************************************************)
(* Who polls a record sees it move as its table permits and never back,    *)
(* and the list of messages of a black start never loses one: no store     *)
(* call of a method undoes what an earlier one wrote, as would one that    *)
(* files a copy read too early.                                            *)
(***************************************************************************)
ReadersSeeProgress == [][BS!StatusChangesPermitted /\ LinksKept]_vars

(***************************************************************************)
(* The statuses of the record a successful method returns.                 *)
(***************************************************************************)
PromisedBlackStart ==
    [Initiate |-> BlackStartStatus \ {"completed", "failed"},
     Start |-> {"in_progress"}, RestoreBus |-> {"bus_restored"},
     Request |-> {"grid_syncing"}, Complete |-> {"completed"},
     ReportInterrupt |-> BlackStartStatus, RestoreNetwork |-> BlackStartStatus]

PromisedGridConn ==
    [Request |-> {"requested"}, Complete |-> {"completed"},
     Sign |-> GridConnStatus \ {"requested"},
     Synchronize |-> {"synchronized", "completed"}]

(***************************************************************************)
(* A method that returns a success tells the truth at its return, with     *)
(* Service.mu still held: the record is the one the store holds, but for   *)
(* the link to the message just sent, and it is in a status the caller     *)
(* asked for, also when the call repeats an earlier one and writes         *)
(* nothing.  When the client reads it, after the unlock, the record may    *)
(* have moved on, but only forward (ReadersSeeProgress).                   *)
(***************************************************************************)
AnswersHold ==
    \A t \in Threads :
        LET c == call[t]
            unlinked(bs) == [bs EXCEPT !.smsMessageIDs = {}]
        IN c.left = <<>> /\ c.status \in {OK, Created} =>
              /\ c.bs # None =>
                    /\ unlinked(c.bs) = unlinked(blackStarts[c.id])
                    /\ c.bs.status \in PromisedBlackStart[c.method]
              /\ c.gc # None =>
                    /\ c.gc = gridConns[c.gcID]
                    /\ c.gc.status \in PromisedGridConn[c.method]

-----------------------------------------------------------------------------
(* Atomicity *)

(***************************************************************************)
(* The holder of the lock has storeCall before it.                         *)
(***************************************************************************)
Ahead(storeCall) ==
    /\ mu # Free
    /\ \E i \in DOMAIN call[mu].left : call[mu].left[i] = storeCall

(***************************************************************************)
(* Every method takes effect when it has got the lock: what it will write  *)
(* is decided.  Only RequestGridConnection depends on something the lock   *)
(* does not protect, and takes effect when it lists the loads: a load      *)
(* registered before is shed with the others, one registered later counts  *)
(* as registered after the call.                                           *)
(***************************************************************************)
Undecided == Ahead("ListLoads")

\* The link the holder will add to the black start it is about.
WithLink(bs) ==
    IF Ahead("LinkSMS") /\ call[mu].msgID \in call[mu].accepted
    THEN [bs EXCEPT !.smsMessageIDs = @ \cup {call[mu].msgID}]
    ELSE bs

EffectiveBlackStarts ==
    IF Undecided THEN Put(blackStarts, call[mu].id, call[mu].old)
    ELSE IF Ahead("PutBlackStart")
    THEN Put(blackStarts, call[mu].id, WithLink(call[mu].bs))
    ELSE IF Ahead("LinkSMS")
    THEN Put(blackStarts, call[mu].id, WithLink(blackStarts[call[mu].id]))
    ELSE blackStarts

EffectiveGridConns ==
    IF Undecided THEN [g \in DOMAIN gridConns \ {call[mu].gcID} |-> gridConns[g]]
    ELSE IF Ahead("PutGridConn")
    THEN Put(gridConns, call[mu].gcID, call[mu].gc)
    ELSE gridConns

EffectiveMessages ==
    IF Undecided THEN smsMessages
    ELSE IF Ahead("PutSMS")
    THEN Put(smsMessages, call[mu].msgID,
             Message(call[mu], IF call[mu].msgID \in call[mu].accepted
                               THEN "delivered" ELSE "pending"))
    ELSE IF Ahead("RetrySMS")
    THEN [m \in DOMAIN smsMessages |->
             IF m \in call[mu].accepted
             THEN [smsMessages[m] EXCEPT !.status = "delivered"]
             ELSE smsMessages[m]]
    ELSE smsMessages

EffectiveLoads ==
    IF ~Undecided /\ Ahead("PutLoad")
    THEN [l \in DOMAIN loads |-> IF l \in DOMAIN call[mu].shedding
                                 THEN call[mu].shedding[l] ELSE loads[l]]
    ELSE loads

Atomic == INSTANCE BlackStart WITH
    blackStarts <- EffectiveBlackStarts,
    gridConns   <- EffectiveGridConns,
    smsMessages <- EffectiveMessages,
    loads       <- EffectiveLoads

(***************************************************************************)
(* "It owns a mutex that serialises multi-step state transitions so that   *)
(* concurrent callers cannot interleave read-modify-write sequences"       *)
(* (service.go:14): whatever the other threads, the clock and RegisterLoad *)
(* do between its store calls, every method has the effect of one step of  *)
(* BlackStart.                                                             *)
(***************************************************************************)
MethodsAreAtomic == Atomic!Spec

=============================================================================
