------------------------------ MODULE Indexer ------------------------------
(***************************************************************************)
(* The event indexer of the backend: StellarIndexerService polls the RPC   *)
(* node for the events of the ledgers after a cursor kept in Redis, and    *)
(* EventProcessorService hands each new event to its handler once.         *)
(*                                                                         *)
(* JavaScript runs one continuation at a time, from one await to the next, *)
(* and an action is such a segment.  The interval starts a poll every five *)
(* seconds whether or not the last one has returned, so several polls are  *)
(* in flight; a slow one goes on with what it read long ago.               *)
(*                                                                         *)
(* External: the RPC node (its answers have the shape the code parses),    *)
(* Redis, the ledgers closed by the network.  Events are numbered in the   *)
(* order of the chain; an event's number stands for its dedup key          *)
(* txHash:eventIndex.                                                      *)
(***************************************************************************)
EXTENDS Integers, FiniteSets, SequencesExt

CONSTANTS
    Polls,            \* polls in flight at once (the code has no bound)
    FairPolls,        \* those whose requests are answered in the end
    Event,            \* the contract events of the chain
    LedgerOf,         \* the ledger each event is in
    LastLedger,       \* bound on the ledgers closed
    StartLedger,      \* indexer.startLedger
    FallbackLedger,   \* 1 000 000 in pollLedgers
    BatchSize,        \* indexer.batchSize: ledgers a poll covers, and events
    MaxKeys,          \* 10 000: keys remembered before pruning
    KeepKeys,         \* 5000: keys that pruning keeps
    NoLedger,         \* the cursor is not in Redis
    MaxFaults,        \* bound on failed requests
    MaxExpiries,      \* bound on expiries of the cursor
    MaxRestarts       \* bound on restarts of the process

ASSUME IndexerAssumption ==
    /\ FairPolls \subseteq Polls
    /\ Event \subseteq Nat
    /\ StartLedger \in Nat \ {0}
    /\ FallbackLedger \in 1..LastLedger
    /\ LastLedger \in Nat /\ StartLedger <= LastLedger
    /\ LedgerOf \in [Event -> 1..LastLedger]
    /\ \A d, e \in Event : d < e => LedgerOf[d] <= LedgerOf[e]
    /\ BatchSize \in Nat \ {0}
    /\ KeepKeys \in Nat /\ MaxKeys \in Nat /\ KeepKeys <= MaxKeys
    /\ NoLedger \notin Nat
    /\ MaxFaults \in Nat /\ MaxExpiries \in Nat /\ MaxRestarts \in Nat

VARIABLES
    head,             \* the latest closed ledger
    cursor,           \* indexer:last_processed_ledger in Redis
    poll,             \* what each poll awaits, and its locals
    keys,             \* processedKeys, oldest first
    handed,           \* how often each event was handed to its handler
    forgotten,        \* how often each event's key was lost (history)
    done,             \* events whose handler came to its end
    missed,           \* events of a range that its answer lacked (history)
    interrupted,      \* events whose handler a restart cut off (history)
    jumped,           \* events before the ledger a poll fell back to (history)
    faults, expiries, restarts

keyVars == <<keys, handed, forgotten>>
vars    == <<head, cursor, poll, keyVars, done, missed, interrupted, jumped,
             faults, expiries, restarts>>

Ledger == 1..LastLedger

\* A poll that has returned, or not begun.
Idle == [awaits |-> "nothing", last |-> 0, end |-> 0, batch |-> {}, event |-> {}]

\* last and end are lastLedger and endLedger; batch holds the events the loop
\* of processEvents has not reached; event is the one whose handler runs.
PollState ==
    [awaits: {"nothing", "head", "range", "handler", "store"},
     last: 0..LastLedger, end: 0..LastLedger,
     batch: SUBSET Event, event: SUBSET Event]

IndexerTypeOK ==
    /\ head \in Ledger
    /\ cursor \in Ledger \cup {NoLedger}
    /\ poll \in [Polls -> PollState]
    /\ keys \in Seq(Event)
    /\ handed \in [Event -> Nat]
    /\ forgotten \in [Event -> Nat]
    /\ done \subseteq Event
    /\ missed \subseteq Event
    /\ interrupted \subseteq Event
    /\ jumped \subseteq Event
    /\ faults \in 0..MaxFaults
    /\ expiries \in 0..MaxExpiries
    /\ restarts \in 0..MaxRestarts

\* The process is up for the first time and onModuleInit has set the cursor.
IndexerInit ==
    /\ head = StartLedger
    /\ cursor = StartLedger
    /\ poll = [p \in Polls |-> Idle]
    /\ keys = <<>>
    /\ handed = [e \in Event |-> 0]
    /\ forgotten = [e \in Event |-> 0]
    /\ done = {}
    /\ missed = {}
    /\ interrupted = {}
    /\ jumped = {}
    /\ faults = 0 /\ expiries = 0 /\ restarts = 0

-----------------------------------------------------------------------------
\* An event is settled: its handler has ended or runs, or an answer lacked it,
\* or a restart interrupted its handler, or a poll began behind it for want of a
\* cursor.
Settled(e) ==
    \/ e \in done \cup missed \cup interrupted \cup jumped
    \/ \E p \in Polls : e \in poll[p].event

\* The indexer has to deal with e before it passes ledger l.
UpTo(l) == {e \in Event : LedgerOf[e] \in StartLedger + 1..l}

Return(p) == poll' = [poll EXCEPT ![p] = Idle]

\* A request of p fails; the code catches it.
Fault == faults < MaxFaults /\ faults' = faults + 1

(***************************************************************************)
(* pollLedgers begins and Redis answers with the cursor.  Without one it   *)
(* begins at a fixed ledger, which may be behind events that nobody dealt  *)
(* with.                                                                   *)
(***************************************************************************)
ReadCursor(p) ==
    /\ poll[p] = Idle
    /\ poll' = [poll EXCEPT ![p] =
                  [Idle EXCEPT !.awaits = "head",
                               !.last = IF cursor = NoLedger THEN FallbackLedger
                                                             ELSE cursor]]
    /\ jumped' = IF cursor # NoLedger THEN jumped
                 ELSE jumped \cup {e \in UpTo(FallbackLedger) : ~Settled(e)}
    /\ UNCHANGED <<head, cursor, keyVars, done, missed, interrupted,
                   faults, expiries, restarts>>

\* Mutant: the batch is not cut at the head of the chain.
EndOfWholeBatch(last) == last + BatchSize

\* The last ledger a poll covers.
EndOf(last) == Min({last + BatchSize, head})

\* A failed request is answered with ledger 0: nothing new.
ReadHead(p) ==
    /\ poll[p].awaits = "head"
    /\ \/ /\ \/ Fault
             \/ head <= poll[p].last /\ UNCHANGED faults
          /\ Return(p)
       \/ /\ head > poll[p].last
          /\ poll' = [poll EXCEPT ![p].awaits = "range",
                                  ![p].end = EndOf(poll[p].last)]
          /\ UNCHANGED faults
    /\ UNCHANGED <<head, cursor, keyVars, done, missed, interrupted, jumped,
                   expiries, restarts>>

-----------------------------------------------------------------------------
\* The node knows the events of closed ledgers only.
EventsOf(range) ==
    {e \in Event : LedgerOf[e] \in range.last + 1..Min({range.end, head})}

\* getEvents is called with limit = batchSize and no further page is asked for.
FirstOf(events) ==
    {e \in events : Cardinality({d \in events : d < e}) < BatchSize}

Remembered == Range(keys)

\* The oldest keys are dropped once there are more than MaxKeys.
Prune(s) ==
    IF Len(s) > MaxKeys THEN SubSeq(s, Len(s) - KeepKeys + 1, Len(s)) ELSE s

Forget(lost) ==
    forgotten' = [e \in Event |-> forgotten[e] + IF e \in lost THEN 1 ELSE 0]

\* Mutant: an event is remembered when its handler ends.
GoOnRememberingLate(p, events) ==
    LET known == keys \o SetToSeq(poll[p].event)
        fresh == events \ Range(known)
    IN  /\ keys' = known
        /\ UNCHANGED forgotten
        /\ \/ \E e \in fresh :
                 /\ \A d \in fresh : e <= d
                 /\ handed' = [handed EXCEPT ![e] = @ + 1]
                 /\ poll' = [poll EXCEPT ![p].awaits = "handler",
                                         ![p].batch = {d \in events : d > e},
                                         ![p].event = {e}]
           \/ /\ fresh = {}
              /\ poll' = [poll EXCEPT ![p].awaits = "store",
                                      ![p].batch = {}, ![p].event = {}]
              /\ UNCHANGED handed

(***************************************************************************)
(* The loop of processEvents from one await to the next: events whose key  *)
(* is known are passed over, the next one is remembered and handed to its  *)
(* handler; behind the last one the keys are pruned.                       *)
(***************************************************************************)
GoOn(p, events) ==
    LET fresh == events \ Remembered
    IN  \/ \E e \in fresh :
              /\ \A d \in fresh : e <= d
              /\ keys' = Append(keys, e)
              /\ handed' = [handed EXCEPT ![e] = @ + 1]
              /\ poll' = [poll EXCEPT ![p].awaits = "handler",
                                      ![p].batch = {d \in events : d > e},
                                      ![p].event = {e}]
              /\ UNCHANGED forgotten
        \/ /\ fresh = {}
           /\ keys' = Prune(keys)
           /\ Forget(Remembered \ Range(keys'))
           /\ poll' = [poll EXCEPT ![p].awaits = "store",
                                   ![p].batch = {}, ![p].event = {}]
           /\ UNCHANGED handed

\* A failed request is answered with no events; without events processEvents
\* is not called.
ReadRange(p) ==
    /\ poll[p].awaits = "range"
    /\ \E events \in {{}, FirstOf(EventsOf(poll[p]))} :
          /\ \/ events = FirstOf(EventsOf(poll[p])) /\ UNCHANGED faults
             \/ Fault /\ events = {}
          /\ missed' = missed \cup (EventsOf(poll[p]) \ events)
          /\ \/ events # {} /\ GoOn(p, events)
             \/ /\ events = {}
                /\ poll' = [poll EXCEPT ![p].awaits = "store"]
                /\ UNCHANGED keyVars
    /\ UNCHANGED <<head, cursor, done, interrupted, jumped, expiries, restarts>>

\* The handler ends, with or without an error: the loop goes on.
HandlerEnds(p) ==
    /\ poll[p].awaits = "handler"
    /\ done' = done \cup poll[p].event
    /\ GoOn(p, poll[p].batch)
    /\ UNCHANGED <<head, cursor, missed, interrupted, jumped,
                   faults, expiries, restarts>>

\* Mutant: the cursor is set to the ledger the poll began behind.
StoreLast(p) ==
    /\ poll[p].awaits = "store"
    /\ cursor' = poll[p].last
    /\ Return(p)
    /\ UNCHANGED <<head, keyVars, done, missed, interrupted, jumped,
                   faults, expiries, restarts>>

\* The poll sets the cursor, whatever it is by now.
StoreCursor(p) ==
    /\ poll[p].awaits = "store"
    /\ \/ cursor' = poll[p].end /\ UNCHANGED faults
       \/ Fault /\ UNCHANGED cursor
    /\ Return(p)
    /\ UNCHANGED <<head, keyVars, done, missed, interrupted, jumped, expiries, restarts>>

-----------------------------------------------------------------------------
CloseLedger ==
    /\ head < LastLedger
    /\ head' = head + 1
    /\ UNCHANGED <<cursor, poll, keyVars, done, missed, interrupted, jumped,
                   faults, expiries, restarts>>

\* RedisService.set gives every key the default time to live, the cursor too.
\* A poll that finds no new ledger, or fails, does not renew it.
Expire ==
    /\ cursor # NoLedger
    /\ expiries < MaxExpiries
    /\ cursor' = NoLedger
    /\ expiries' = expiries + 1
    /\ UNCHANGED <<head, poll, keyVars, done, missed, interrupted, jumped, faults, restarts>>

\* The process is killed and comes up again: polls and keys are gone, and
\* onModuleInit sets a missing cursor to the configured ledger.
Restart ==
    /\ restarts < MaxRestarts
    /\ restarts' = restarts + 1
    /\ poll' = [p \in Polls |-> Idle]
    /\ interrupted' = interrupted \cup UNION {poll[p].event : p \in Polls}
    /\ keys' = <<>>
    /\ Forget(Remembered)
    /\ cursor' = IF cursor = NoLedger THEN StartLedger ELSE cursor
    /\ UNCHANGED <<head, handed, done, missed, jumped, faults, expiries>>

PollStep(p) ==
    \/ ReadCursor(p)
    \/ ReadHead(p)
    \/ ReadRange(p)
    \/ HandlerEnds(p)
    \/ StoreCursor(p)

IndexerNext ==
    \/ \E p \in Polls : PollStep(p)
    \/ CloseLedger
    \/ Expire
    \/ Restart

(***************************************************************************)
(* The interval starts polls for ever, ledgers are closed for ever, and    *)
(* the requests of a fair poll are answered.  The others may hang at any   *)
(* await: the code sets no timeout on a request.                           *)
(***************************************************************************)
IndexerSpec ==
    /\ IndexerInit
    /\ [][IndexerNext]_vars
    /\ WF_vars(CloseLedger)
    /\ \A p \in FairPolls : WF_vars(PollStep(p))

-----------------------------------------------------------------------------
\* Polls that fetch the same range share its events between them: an event is
\* handed to its handler once, and once more for each time its key was pruned
\* or lost in a restart.
HandedOnce == \A e \in Event : handed[e] <= 1 + forgotten[e]

\* The cursor passes no event but for the reasons named, whichever poll sets
\* it and however old its copy is: an event up to the cursor is done, or some
\* poll awaits its handler, or an answer lacked it, or a restart interrupted
\* its handler while another poll had passed it over, or the cursor had expired
\* and a poll began at the fixed ledger behind it.
NothingElseSkipped ==
    cursor # NoLedger => \A e \in UpTo(cursor) : Settled(e)

\* The keys account for the calls: an event was handed once for its key and
\* once for each time its key was lost.
KeysAccounted ==
    \A e \in Event :
        handed[e] = forgotten[e] + IF e \in Remembered THEN 1 ELSE 0

\* What a poll passes over is settled.
RememberedSettled == \A e \in Remembered : Settled(e)

\* What a poll knows: events up to its last are settled, and once it has the
\* answer, so are those up to its end but for the rest of its batch.
PollCovers(p) ==
    /\ poll[p].awaits # "handler" => poll[p].event = {} /\ poll[p].batch = {}
    /\ poll[p].awaits \in {"range", "handler", "store"} => poll[p].end \in 1..head
    /\ \A e \in UpTo(poll[p].last) : Settled(e)
    /\ poll[p].awaits \in {"handler", "store"} =>
          \A e \in UpTo(poll[p].end) : Settled(e) \/ e \in poll[p].batch

\* The inductive invariant: what every poll, however old, may still do to the
\* cursor and the keys is sound.
IndexerInv ==
    /\ IndexerTypeOK
    /\ KeysAccounted
    /\ RememberedSettled
    /\ NothingElseSkipped
    /\ \A p \in Polls : PollCovers(p)

\* The cursor reaches the head of the chain and stays there, although stale
\* polls set it back, it expires, requests fail and a poll may hang for ever.
CatchesUp == <>[](cursor = LastLedger)
=============================================================================
