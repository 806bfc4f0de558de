---------------------------- MODULE IndexerProof ----------------------------
(***************************************************************************)
(* IndexerInv is inductive, for any number of polls, any chain of events   *)
(* and any bounds: HandedOnce and NothingElseSkipped follow.               *)
(***************************************************************************)
EXTENDS Indexer, TLAPS, SequenceTheorems

\* The shorter of two ranges is one of them and is no longer than either.
LEMMA MinOfTwo ==
    ASSUME NEW a \in Int, NEW b \in Int
    PROVE  /\ Min({a, b}) \in {a, b}
           /\ Min({a, b}) <= a
           /\ Min({a, b}) <= b
<1>1. \E m \in {a, b} : \A y \in {a, b} : m <= y
  <2>1. CASE a <= b
    BY <2>1
  <2>2. CASE b <= a
    BY <2>2
  <2> QED BY <2>1, <2>2
<1> QED BY <1>1 DEF Min

\* Remembering one more event adds it to the known ones and nothing else.
LEMMA AppendRemembers ==
    ASSUME NEW s \in Seq(Event), NEW e \in Event
    PROVE  /\ Append(s, e) \in Seq(Event)
           /\ Range(Append(s, e)) = Range(s) \cup {e}
<1>1. /\ Append(s, e) \in Seq(Event)
      /\ DOMAIN Append(s, e) = 1..Len(s) + 1
      /\ DOMAIN s = 1..Len(s)
      /\ Len(s) \in Nat
      /\ \A i \in 1..Len(s) : Append(s, e)[i] = s[i]
      /\ Append(s, e)[Len(s) + 1] = e
  OBVIOUS
<1>2. 1..Len(s) + 1 = 1..Len(s) \cup {Len(s) + 1}
  BY <1>1
<1> QED BY <1>1, <1>2 DEF Range

\* Pruning keeps a sequence of events and invents none.
LEMMA PruneForgets ==
    ASSUME IndexerAssumption, NEW s \in Seq(Event)
    PROVE  /\ Prune(s) \in Seq(Event)
           /\ Range(Prune(s)) \subseteq Range(s)
<1>1. CASE Len(s) > MaxKeys
  <2> DEFINE m == Len(s) - KeepKeys + 1
  <2>1. m \in 1..Len(s) + 1 /\ Len(s) \in Nat
    BY <1>1 DEF IndexerAssumption
  <2>2. Prune(s) = SubSeq(s, m, Len(s))
    BY <1>1 DEF Prune
  <2>3. /\ SubSeq(s, m, Len(s)) \in Seq(Event)
        /\ Len(SubSeq(s, m, Len(s))) = Len(s) - m + 1
        /\ \A i \in 1..(Len(s) - m + 1) : SubSeq(s, m, Len(s))[i] = s[m + i - 1]
    BY <2>1, SubSeqProperties
  <2>4. DOMAIN SubSeq(s, m, Len(s)) = 1..(Len(s) - m + 1) /\ DOMAIN s = 1..Len(s)
    BY <2>3
  <2>5. \A i \in 1..(Len(s) - m + 1) : m + i - 1 \in 1..Len(s)
    BY <2>1
  <2> HIDE DEF m
  <2> QED BY <2>2, <2>3, <2>4, <2>5 DEF Range
<1>2. CASE ~(Len(s) > MaxKeys)
  BY <1>2 DEF Prune
<1> QED BY <1>1, <1>2

-----------------------------------------------------------------------------
\* A settled event stays settled when no event is struck off the lists and an
\* event leaves a poll's hands only as done or interrupted.
LEMMA StaysSettled ==
    ASSUME done \subseteq done', missed \subseteq missed',
           interrupted \subseteq interrupted', jumped \subseteq jumped',
           \A p \in Polls : poll[p].event \subseteq
                poll'[p].event \cup done' \cup interrupted',
           NEW e \in Event, Settled(e)
    PROVE  Settled(e)'
BY DEF Settled

\* What a poll knows of the chain outlives every step of others.
LEMMA StillCovers ==
    ASSUME IndexerAssumption, head \in Nat, head' \in Nat, head <= head',
           \A e \in Event : Settled(e) => Settled(e)',
           NEW p \in Polls, poll[p] \in PollState, PollCovers(p),
           poll'[p] = poll[p]
    PROVE  PollCovers(p)'
BY DEF PollCovers, UpTo, PollState, IndexerAssumption

LEMMA InitEstablishes ==
    ASSUME IndexerAssumption, IndexerInit
    PROVE  IndexerInv
<1> USE DEF IndexerInit
<1>1. IndexerTypeOK
  <2>1. Idle \in PollState
    BY DEF Idle, PollState, IndexerAssumption
  <2> QED BY <2>1 DEF IndexerTypeOK, Ledger, IndexerAssumption
<1>2. Remembered = {}
  BY DEF Remembered, Range
<1>3. KeysAccounted /\ RememberedSettled
  BY <1>2 DEF KeysAccounted, RememberedSettled
<1>4. NothingElseSkipped
  BY DEF NothingElseSkipped, UpTo, IndexerAssumption
<1>5. \A p \in Polls : PollCovers(p)
  BY DEF PollCovers, Idle, UpTo, IndexerAssumption
<1> QED BY <1>1, <1>3, <1>4, <1>5 DEF IndexerInv

\* One turn of the loop of processEvents, told without its cases: the events
\* passed over are known, the one in hand is new, and keys are only lost where
\* forgotten tells so.
Turn(p, events, event, batch, awaits) ==
    /\ poll' = [poll EXCEPT ![p].awaits = awaits, ![p].batch = batch,
                            ![p].event = event]
    /\ awaits = "store" => event = {} /\ batch = {}
    /\ events \subseteq Remembered \cup event \cup batch
    /\ keys' \in Seq(Event)
    /\ \/ /\ Remembered' = Remembered \cup event
          /\ UNCHANGED forgotten
          /\ \E e \in Event \ Remembered :
                event = {e} /\ handed' = [handed EXCEPT ![e] = @ + 1]
       \/ /\ Remembered' \subseteq Remembered
          /\ event = {}
          /\ Forget(Remembered \ Remembered')
          /\ UNCHANGED handed

LEMMA GoOnTurns ==
    ASSUME IndexerAssumption, keys \in Seq(Event), NEW p \in Polls,
           NEW events \in SUBSET Event, GoOn(p, events)
    PROVE  \E event \in SUBSET Event, batch \in SUBSET Event,
              awaits \in {"handler", "store"} :
                 Turn(p, events, event, batch, awaits)
<1>0. events \subseteq Int
  BY DEF IndexerAssumption
<1>1. ASSUME NEW e \in events \ Remembered,
             \A d \in events \ Remembered : e <= d,
             keys' = Append(keys, e),
             handed' = [handed EXCEPT ![e] = @ + 1],
             poll' = [poll EXCEPT ![p].awaits = "handler",
                                  ![p].batch = {d \in events : d > e},
                                  ![p].event = {e}],
             UNCHANGED forgotten
      PROVE  Turn(p, events, {e}, {d \in events : d > e}, "handler")
  <2>1. keys' \in Seq(Event) /\ Remembered' = Remembered \cup {e}
    BY <1>1, AppendRemembers DEF Remembered
  <2>2. events \subseteq Remembered \cup {e} \cup {d \in events : d > e}
    <3>1. ASSUME NEW d \in events \ Remembered
          PROVE  d = e \/ d > e
      <4>1. d \in Int /\ e \in Int
        BY <1>0, <1>1, <3>1
      <4>2. e <= d
        BY <1>1, <3>1
      <4> QED BY <4>1, <4>2
    <3> QED BY <3>1
  <2> QED BY <1>1, <2>1, <2>2 DEF Turn
<1>2. ASSUME events \ Remembered = {}, keys' = Prune(keys),
             Forget(Remembered \ Range(keys')),
             poll' = [poll EXCEPT ![p].awaits = "store",
                                  ![p].batch = {}, ![p].event = {}],
             UNCHANGED handed
      PROVE  Turn(p, events, {}, {}, "store")
  <2>1. keys' \in Seq(Event) /\ Remembered' \subseteq Remembered
    BY <1>2, PruneForgets DEF Remembered
  <2> QED BY <1>2, <2>1 DEF Turn, Remembered
<1> QED
  <2>1. CASE \E e \in events \ Remembered :
               /\ \A d \in events \ Remembered : e <= d
               /\ keys' = Append(keys, e)
               /\ handed' = [handed EXCEPT ![e] = @ + 1]
               /\ poll' = [poll EXCEPT ![p].awaits = "handler",
                                       ![p].batch = {d \in events : d > e},
                                       ![p].event = {e}]
               /\ UNCHANGED forgotten
    <3>1. PICK e \in events \ Remembered :
               Turn(p, events, {e}, {d \in events : d > e}, "handler")
      BY <2>1, <1>1
    <3> QED BY <3>1
  <2>2. CASE /\ events \ Remembered = {}
             /\ keys' = Prune(keys)
             /\ Forget(Remembered \ Range(keys'))
             /\ poll' = [poll EXCEPT ![p].awaits = "store",
                                     ![p].batch = {}, ![p].event = {}]
             /\ UNCHANGED handed
    <3>1. Turn(p, events, {}, {}, "store")
      BY <2>2, <1>2
    <3> QED BY <3>1
  <2> QED BY <2>1, <2>2 DEF GoOn

\* The loop keeps the invariant, if the poll's range was settled but for the
\* events at hand.
LEMMA GoOnKeeps ==
    ASSUME IndexerAssumption, IndexerInv, NEW p \in Polls,
           NEW events \in SUBSET Event, GoOn(p, events),
           poll[p].awaits \in {"range", "handler"},
           done' \subseteq Event, done \cup poll[p].event \subseteq done',
           missed' \subseteq Event, missed \subseteq missed',
           faults' \in 0..MaxFaults,
           UNCHANGED <<head, cursor, interrupted, jumped, expiries, restarts>>,
           \A e \in UpTo(poll[p].end) :
               Settled(e) \/ e \in missed' \/ e \in events
    PROVE  IndexerInv'
<1> USE DEF IndexerInv
<1>0. PICK event \in SUBSET Event, batch \in SUBSET Event,
           awaits \in {"handler", "store"} :
              Turn(p, events, event, batch, awaits)
  BY GoOnTurns DEF IndexerTypeOK
<1>1. /\ poll \in [Polls -> PollState] /\ poll[p] \in PollState
      /\ handed \in [Event -> Nat] /\ forgotten \in [Event -> Nat]
      /\ head \in Nat
  BY DEF IndexerTypeOK, Ledger, IndexerAssumption
<1>2. /\ poll' = [poll EXCEPT ![p].awaits = awaits, ![p].batch = batch,
                              ![p].event = event]
      /\ awaits = "store" => event = {} /\ batch = {}
  BY <1>0 DEF Turn
<1>3. /\ poll' \in [Polls -> PollState]
      /\ poll'[p].awaits = awaits /\ poll'[p].batch = batch
      /\ poll'[p].event = event
      /\ poll'[p].last = poll[p].last /\ poll'[p].end = poll[p].end
      /\ \A q \in Polls \ {p} : poll'[q] = poll[q]
  BY <1>1, <1>2 DEF PollState
<1>4. \A e \in Event : Settled(e) => Settled(e)'
  <2>1. \A q \in Polls : poll[q].event \subseteq
            poll'[q].event \cup done' \cup interrupted'
    BY <1>3
  <2> QED BY <2>1, StaysSettled
<1>5. \A e \in event \cup missed' : Settled(e)'
  BY <1>3 DEF Settled
<1>6. IndexerTypeOK'
  <2>1. keys' \in Seq(Event)
    BY <1>0 DEF Turn
  <2>2. handed' \in [Event -> Nat] /\ forgotten' \in [Event -> Nat]
    <3>1. CASE /\ UNCHANGED forgotten
               /\ \E e \in Event : handed' = [handed EXCEPT ![e] = @ + 1]
      <4>1. PICK e \in Event : handed' = [handed EXCEPT ![e] = @ + 1]
        BY <3>1
      <4>2. handed[e] + 1 \in Nat
        BY <1>1
      <4> QED BY <1>1, <3>1, <4>1, <4>2
    <3>2. CASE Forget(Remembered \ Remembered') /\ UNCHANGED handed
      <4>1. \A e \in Event : forgotten[e] \in Nat
        BY <1>1
      <4> QED BY <1>1, <3>2, <4>1 DEF Forget
    <3> QED BY <3>1, <3>2, <1>0 DEF Turn
  <2> QED BY <1>3, <2>1, <2>2 DEF IndexerTypeOK, Ledger
<1>7. KeysAccounted'
  <2>1. CASE /\ Remembered' = Remembered \cup event
             /\ UNCHANGED forgotten
             /\ \E e \in Event \ Remembered :
                   event = {e} /\ handed' = [handed EXCEPT ![e] = @ + 1]
    BY <1>1, <2>1 DEF KeysAccounted
  <2>2. CASE /\ Remembered' \subseteq Remembered
             /\ event = {}
             /\ Forget(Remembered \ Remembered')
             /\ UNCHANGED handed
    BY <1>1, <2>2 DEF KeysAccounted, Forget
  <2> QED BY <1>0, <2>1, <2>2 DEF Turn
<1>8. RememberedSettled'
  <2>1. Remembered' \subseteq Remembered \cup event
    BY <1>0 DEF Turn
  <2>2. Remembered \subseteq Event
    BY DEF IndexerTypeOK, Remembered, Range
  <2> QED BY <1>4, <1>5, <2>1, <2>2 DEF RememberedSettled
<1>9. NothingElseSkipped'
  BY <1>4 DEF NothingElseSkipped, UpTo
<1>10. ASSUME NEW q \in Polls
       PROVE  PollCovers(q)'
  <2>1. CASE q # p
    BY <1>1, <1>3, <1>4, <2>1, StillCovers DEF IndexerTypeOK
  <2>2. CASE q = p
    <3>1. poll'[p].awaits # "handler" => poll'[p].event = {} /\ poll'[p].batch = {}
      BY <1>2, <1>3
    <3>2. poll'[p].end \in 1..head'
      BY <1>3 DEF PollCovers
    <3>3. \A e \in UpTo(poll'[p].last) : Settled(e)'
      BY <1>3, <1>4 DEF PollCovers, UpTo
    <3>4. \A e \in UpTo(poll'[p].end) : Settled(e)' \/ e \in poll'[p].batch
      <4>1. events \subseteq Remembered \cup event \cup batch
        BY <1>0 DEF Turn
      <4>2. \A e \in events : Settled(e)' \/ e \in batch
        BY <1>4, <1>5, <4>1 DEF RememberedSettled
      <4> QED BY <1>3, <1>4, <1>5, <4>2 DEF UpTo
    <3> QED BY <2>2, <3>1, <3>2, <3>3, <3>4 DEF PollCovers, UpTo
  <2> QED BY <2>1, <2>2
<1> QED BY <1>6, <1>7, <1>8, <1>9, <1>10

-----------------------------------------------------------------------------
\* A step that only moves one poll, neither its event nor the shared lists: the
\* other polls know what they knew, and every event stays settled.
LEMMA PollMoves ==
    ASSUME IndexerAssumption, IndexerInv, NEW p \in Polls,
           NEW next \in PollState, poll' = [poll EXCEPT ![p] = next],
           next.event = {}, next.batch = {}, next.awaits # "handler",
           poll[p].event = {},
           faults' \in 0..MaxFaults,
           cursor' \in Ledger \cup {NoLedger},
           missed' \subseteq Event, missed \subseteq missed',
           jumped' \subseteq Event, jumped \subseteq jumped',
           UNCHANGED <<head, keyVars, done, interrupted, expiries, restarts>>,
           next.awaits \in {"range", "store"} => next.end \in 1..head,
           \A e \in UpTo(next.last) : Settled(e) \/ e \in jumped',
           next.awaits = "store" =>
               \A e \in UpTo(next.end) : Settled(e) \/ e \in missed',
           cursor' # NoLedger => \A e \in UpTo(cursor') : Settled(e)
    PROVE  IndexerInv'
<1> USE DEF IndexerInv, keyVars
<1>1. /\ poll' \in [Polls -> PollState]
      /\ poll'[p] = next
      /\ \A q \in Polls \ {p} : poll'[q] = poll[q]
      /\ head \in Nat
  BY DEF IndexerTypeOK, Ledger, IndexerAssumption
<1>2. \A e \in Event : Settled(e) => Settled(e)'
  <2>1. \A q \in Polls : poll[q].event \subseteq
            poll'[q].event \cup done' \cup interrupted'
    BY <1>1
  <2> QED BY <2>1, StaysSettled
<1>3. \A e \in missed' \cup jumped' : Settled(e)'
  BY DEF Settled
<1>4. IndexerTypeOK'
  BY <1>1 DEF IndexerTypeOK, Ledger
<1>5. KeysAccounted'
  BY DEF KeysAccounted, Remembered
<1>6. RememberedSettled'
  <2>1. Remembered \subseteq Event
    BY DEF IndexerTypeOK, Remembered, Range
  <2> QED BY <1>2, <2>1 DEF RememberedSettled, Remembered
<1>7. NothingElseSkipped'
  BY <1>2 DEF NothingElseSkipped, UpTo
<1>8. ASSUME NEW q \in Polls
      PROVE  PollCovers(q)'
  <2>1. CASE q # p
    BY <1>1, <1>2, <2>1, StillCovers DEF IndexerTypeOK
  <2>2. CASE q = p
    BY <1>1, <1>2, <1>3, <2>2 DEF PollCovers, UpTo
  <2> QED BY <2>1, <2>2
<1> QED BY <1>4, <1>5, <1>6, <1>7, <1>8

LEMMA ReadCursorKeeps ==
    ASSUME IndexerAssumption, IndexerInv, NEW p \in Polls, ReadCursor(p)
    PROVE  IndexerInv'
<1> DEFINE l == IF cursor = NoLedger THEN FallbackLedger ELSE cursor
           next == [Idle EXCEPT !.awaits = "head", !.last = l]
<1>1. l \in Ledger
  BY DEF IndexerInv, IndexerTypeOK, Ledger, IndexerAssumption
<1>2. /\ next \in PollState /\ next.event = {} /\ next.batch = {}
      /\ next.awaits = "head" /\ next.last = l
  <2>1. l \in 0..LastLedger /\ 0 \in 0..LastLedger
    BY <1>1 DEF Ledger, IndexerAssumption
  <2> HIDE DEF l
  <2> QED BY <2>1 DEF Idle, PollState
<1>3. \A e \in UpTo(l) : Settled(e) \/ e \in jumped'
  <2>1. CASE cursor = NoLedger
    BY <2>1 DEF ReadCursor
  <2>2. CASE cursor # NoLedger
    BY <2>2 DEF IndexerInv, NothingElseSkipped
  <2> QED BY <2>1, <2>2
<1>3a. jumped' \subseteq Event /\ jumped \subseteq jumped'
  BY DEF ReadCursor, IndexerInv, IndexerTypeOK, UpTo
<1>4. poll[p].event = {} /\ poll' = [poll EXCEPT ![p] = next]
  BY DEF ReadCursor, Idle
<1>5. /\ UNCHANGED <<head, cursor, keyVars, done, missed, interrupted,
                     faults, expiries, restarts>>
      /\ faults \in 0..MaxFaults /\ missed \subseteq Event
      /\ cursor \in Ledger \cup {NoLedger}
      /\ cursor # NoLedger => \A e \in UpTo(cursor) : Settled(e)
  BY DEF ReadCursor, IndexerInv, IndexerTypeOK, NothingElseSkipped
<1> HIDE DEF next, l
<1> QED BY <1>2, <1>3, <1>3a, <1>4, <1>5, PollMoves

LEMMA ReadHeadKeeps ==
    ASSUME IndexerAssumption, IndexerInv, NEW p \in Polls, ReadHead(p)
    PROVE  IndexerInv'
<1> USE DEF IndexerInv
<1>1. /\ UNCHANGED <<head, cursor, keyVars, done, missed, interrupted, jumped,
                     expiries, restarts>>
      /\ missed \subseteq Event /\ jumped \subseteq Event /\ poll[p] \in PollState
      /\ cursor \in Ledger \cup {NoLedger}
      /\ cursor # NoLedger => \A e \in UpTo(cursor) : Settled(e)
      /\ poll[p].event = {} /\ poll[p].batch = {}
      /\ \A e \in UpTo(poll[p].last) : Settled(e)
      /\ faults \in 0..MaxFaults
  BY DEF ReadHead, IndexerTypeOK, NothingElseSkipped, PollCovers
<1>2. faults' \in 0..MaxFaults
  BY <1>1 DEF ReadHead, Fault, IndexerAssumption
<1>3. CASE Return(p)
  <2>1. /\ Idle \in PollState /\ Idle.event = {} /\ Idle.batch = {}
        /\ Idle.awaits = "nothing" /\ Idle.last = 0
    BY DEF Idle, PollState, IndexerAssumption
  <2>2. UpTo(0) = {}
    BY DEF UpTo, IndexerAssumption
  <2> QED BY <1>1, <1>2, <1>3, <2>1, <2>2, PollMoves DEF Return
<1>4. CASE /\ head > poll[p].last
           /\ poll' = [poll EXCEPT ![p].awaits = "range",
                                   ![p].end = EndOf(poll[p].last)]
  <2> DEFINE next == [poll[p] EXCEPT !.awaits = "range",
                                     !.end = EndOf(poll[p].last)]
  <2>1. /\ poll[p].last \in Nat /\ BatchSize \in Nat \ {0}
        /\ head \in 1..LastLedger /\ LastLedger \in Nat
    BY <1>1 DEF IndexerTypeOK, Ledger, PollState, IndexerAssumption
  <2>2. EndOf(poll[p].last) \in 1..head
    <3>1. poll[p].last + BatchSize \in Int /\ head \in Int
      BY <2>1
    <3>2. /\ EndOf(poll[p].last) \in {poll[p].last + BatchSize, head}
          /\ EndOf(poll[p].last) <= head
      BY <3>1, MinOfTwo DEF EndOf
    <3> QED BY <2>1, <3>2
  <2>3. /\ next \in PollState /\ next.event = {} /\ next.batch = {}
        /\ next.awaits = "range" /\ next.last = poll[p].last
        /\ next.end = EndOf(poll[p].last)
    <3>1. EndOf(poll[p].last) \in 0..LastLedger
      BY <2>1, <2>2
    <3> QED BY <1>1, <3>1 DEF PollState
  <2>4. poll' = [poll EXCEPT ![p] = next]
    BY <1>4
  <2> HIDE DEF next
  <2> QED BY <1>1, <1>2, <2>2, <2>3, <2>4, PollMoves
<1> QED BY <1>3, <1>4 DEF ReadHead

LEMMA StoreCursorKeeps ==
    ASSUME IndexerAssumption, IndexerInv, NEW p \in Polls, StoreCursor(p)
    PROVE  IndexerInv'
<1> USE DEF IndexerInv
<1>1. /\ UNCHANGED <<head, keyVars, done, missed, interrupted, jumped,
                     expiries, restarts>>
      /\ poll' = [poll EXCEPT ![p] = Idle]
      /\ missed \subseteq Event /\ jumped \subseteq Event /\ poll[p] \in PollState
      /\ cursor \in Ledger \cup {NoLedger}
      /\ cursor # NoLedger => \A e \in UpTo(cursor) : Settled(e)
      /\ poll[p].event = {} /\ poll[p].end \in 1..head
      /\ \A e \in UpTo(poll[p].end) : Settled(e)
      /\ faults \in 0..MaxFaults
      /\ cursor' \in {cursor, poll[p].end}
  BY DEF StoreCursor, Return, IndexerTypeOK, NothingElseSkipped, PollCovers
<1>2. faults' \in 0..MaxFaults
  BY <1>1 DEF StoreCursor, Fault, IndexerAssumption
<1>3. poll[p].end \in Ledger
  BY <1>1 DEF IndexerTypeOK, Ledger, IndexerAssumption
<1>4. /\ Idle \in PollState /\ Idle.event = {} /\ Idle.batch = {}
      /\ Idle.awaits = "nothing" /\ Idle.last = 0
  BY DEF Idle, PollState, IndexerAssumption
<1>5. UpTo(0) = {}
  BY DEF UpTo, IndexerAssumption
<1> QED BY <1>1, <1>2, <1>3, <1>4, <1>5, PollMoves

LEMMA ReadRangeKeeps ==
    ASSUME IndexerAssumption, IndexerInv, NEW p \in Polls, ReadRange(p)
    PROVE  IndexerInv'
<1> USE DEF IndexerInv
<1>1. PICK events \in {{}, FirstOf(EventsOf(poll[p]))} :
        /\ \/ events = FirstOf(EventsOf(poll[p])) /\ UNCHANGED faults
           \/ Fault /\ events = {}
        /\ missed' = missed \cup (EventsOf(poll[p]) \ events)
        /\ \/ events # {} /\ GoOn(p, events)
           \/ /\ events = {}
              /\ poll' = [poll EXCEPT ![p].awaits = "store"]
              /\ UNCHANGED keyVars
  BY DEF ReadRange
<1>2. /\ poll[p].awaits = "range"
      /\ UNCHANGED <<head, cursor, done, interrupted, jumped, expiries, restarts>>
      /\ missed \subseteq Event /\ done \subseteq Event /\ keys \in Seq(Event)
      /\ jumped \subseteq Event
      /\ cursor \in Ledger \cup {NoLedger}
      /\ cursor # NoLedger => \A e \in UpTo(cursor) : Settled(e)
      /\ poll[p] \in PollState /\ faults \in 0..MaxFaults
      /\ poll[p].event = {} /\ poll[p].batch = {} /\ poll[p].end \in 1..head
      /\ \A e \in UpTo(poll[p].last) : Settled(e)
  BY DEF ReadRange, IndexerTypeOK, NothingElseSkipped, PollCovers
<1>3. EventsOf(poll[p]) \subseteq Event /\ events \in SUBSET Event
  BY <1>1 DEF EventsOf, FirstOf
<1>4. faults' \in 0..MaxFaults
  BY <1>1, <1>2, SMTT(30) DEF Fault, IndexerAssumption
<1>5. \A e \in UpTo(poll[p].end) : Settled(e) \/ e \in EventsOf(poll[p])
  <2>1. SUFFICES ASSUME NEW e \in UpTo(poll[p].end), ~Settled(e)
                 PROVE  e \in EventsOf(poll[p])
    OBVIOUS
  <2>2. /\ e \in Event /\ LedgerOf[e] \in 1..LastLedger
        /\ StartLedger < LedgerOf[e] /\ LedgerOf[e] <= poll[p].end
        /\ StartLedger \in Nat /\ LedgerOf[e] \in Nat
        /\ poll[p].end \in Int /\ poll[p].last \in Int
    BY <1>2 DEF UpTo, PollState, IndexerAssumption
  <2>3. ~(LedgerOf[e] <= poll[p].last)
    BY <1>2, <2>1, <2>2 DEF UpTo
  <2>4. Min({poll[p].end, head}) \in {poll[p].end, head}
    <3>1. poll[p].end \in Int /\ head \in Int
      BY <2>2 DEF IndexerTypeOK, Ledger
    <3> QED BY <3>1, MinOfTwo
  <2>5. LedgerOf[e] <= head
    BY <1>2, <2>2 DEF IndexerTypeOK, Ledger
  <2>6. LedgerOf[e] \in poll[p].last + 1..Min({poll[p].end, head})
    <3> DEFINE m == Min({poll[p].end, head})
    <3>1. m \in Int /\ LedgerOf[e] <= m
      BY <2>2, <2>4, <2>5 DEF IndexerTypeOK, Ledger
    <3> HIDE DEF m
    <3>2. LedgerOf[e] \in poll[p].last + 1..m
      BY <2>2, <2>3, <3>1
    <3> QED BY <3>2 DEF m
  <2> QED BY <2>2, <2>6 DEF EventsOf
<1>6. /\ missed' \subseteq Event /\ missed \subseteq missed'
      /\ \A e \in UpTo(poll[p].end) :
            Settled(e) \/ e \in missed' \/ e \in events
  BY <1>1, <1>2, <1>3, <1>5
<1>7. CASE GoOn(p, events)
  <2>1. /\ done' \subseteq Event /\ done \cup poll[p].event \subseteq done'
        /\ UNCHANGED <<head, cursor, interrupted, jumped, expiries, restarts>>
        /\ poll[p].awaits \in {"range", "handler"}
    BY <1>2
  <2> QED BY <1>3, <1>4, <1>6, <1>7, <2>1, GoOnKeeps
<1>8. CASE /\ events = {}
           /\ poll' = [poll EXCEPT ![p].awaits = "store"]
           /\ UNCHANGED keyVars
  <2> DEFINE next == [poll[p] EXCEPT !.awaits = "store"]
  <2>1. /\ next \in PollState /\ next.event = {} /\ next.batch = {}
        /\ next.awaits = "store" /\ next.last = poll[p].last
        /\ next.end = poll[p].end
    BY <1>2 DEF PollState
  <2>2. poll' = [poll EXCEPT ![p] = next]
    BY <1>8
  <2> HIDE DEF next
  <2> QED BY <1>2, <1>4, <1>6, <1>8, <2>1, <2>2, PollMoves
<1> QED BY <1>1, <1>7, <1>8

LEMMA HandlerEndsKeeps ==
    ASSUME IndexerAssumption, IndexerInv, NEW p \in Polls, HandlerEnds(p)
    PROVE  IndexerInv'
<1> USE DEF IndexerInv
<1>1. /\ poll[p].awaits = "handler"
      /\ done' = done \cup poll[p].event
      /\ GoOn(p, poll[p].batch)
      /\ UNCHANGED <<head, cursor, missed, interrupted, jumped,
                     faults, expiries, restarts>>
  BY DEF HandlerEnds
<1>2. /\ missed \subseteq Event /\ done \subseteq Event /\ keys \in Seq(Event)
      /\ poll[p] \in PollState /\ faults \in 0..MaxFaults
      /\ \A e \in UpTo(poll[p].end) : Settled(e) \/ e \in poll[p].batch
  BY <1>1 DEF IndexerTypeOK, PollCovers
<1>3. poll[p].event \in SUBSET Event /\ poll[p].batch \in SUBSET Event
  BY <1>2 DEF PollState
<1>4. /\ done' \subseteq Event /\ done \cup poll[p].event \subseteq done'
      /\ missed' \subseteq Event /\ missed \subseteq missed'
      /\ faults' \in 0..MaxFaults
      /\ UNCHANGED <<head, cursor, interrupted, jumped, expiries, restarts>>
      /\ poll[p].awaits \in {"range", "handler"}
  BY <1>1, <1>2, <1>3
<1> DEFINE events == poll[p].batch
<1>5. /\ events \in SUBSET Event /\ GoOn(p, events)
      /\ \A e \in UpTo(poll[p].end) :
            Settled(e) \/ e \in missed' \/ e \in events
  BY <1>1, <1>2, <1>3
<1> HIDE DEF events
<1> QED BY <1>4, <1>5, GoOnKeeps

LEMMA CloseLedgerKeeps ==
    ASSUME IndexerAssumption, IndexerInv, CloseLedger
    PROVE  IndexerInv'
<1> USE DEF IndexerInv, CloseLedger, keyVars
<1>1. head \in Nat /\ head' \in Nat /\ head <= head' /\ head' \in Ledger
  BY DEF IndexerTypeOK, Ledger, IndexerAssumption
<1>2. IndexerTypeOK'
  BY <1>1 DEF IndexerTypeOK, Ledger
<1>3. \A e \in Event : Settled(e) => Settled(e)'
  BY StaysSettled
<1>4. KeysAccounted' /\ RememberedSettled'
  BY DEF KeysAccounted, RememberedSettled, Remembered, Settled
<1>5. NothingElseSkipped'
  BY DEF NothingElseSkipped, UpTo, Settled
<1>6. \A p \in Polls : PollCovers(p)'
  BY <1>1, <1>3, StillCovers DEF IndexerTypeOK
<1> QED BY <1>2, <1>4, <1>5, <1>6

LEMMA ExpireKeeps ==
    ASSUME IndexerAssumption, IndexerInv, Expire
    PROVE  IndexerInv'
<1> USE DEF IndexerInv, Expire, keyVars
<1>1. head \in Nat
  BY DEF IndexerTypeOK, Ledger, IndexerAssumption
<1>2. IndexerTypeOK'
  BY DEF IndexerTypeOK, Ledger, IndexerAssumption
<1>3. \A e \in Event : Settled(e) => Settled(e)'
  BY StaysSettled
<1>4. KeysAccounted' /\ RememberedSettled'
  BY DEF KeysAccounted, RememberedSettled, Remembered, Settled
<1>5. NothingElseSkipped'
  BY DEF NothingElseSkipped
<1>6. \A p \in Polls : PollCovers(p)'
  BY <1>1, <1>3, StillCovers DEF IndexerTypeOK
<1> QED BY <1>2, <1>4, <1>5, <1>6

LEMMA RestartKeeps ==
    ASSUME IndexerAssumption, IndexerInv, Restart
    PROVE  IndexerInv'
<1> USE DEF IndexerInv
<1>1. /\ poll' = [p \in Polls |-> Idle]
      /\ interrupted' = interrupted \cup UNION {poll[p].event : p \in Polls}
      /\ keys' = <<>> /\ Forget(Remembered)
      /\ cursor' = (IF cursor = NoLedger THEN StartLedger ELSE cursor)
      /\ UNCHANGED <<head, handed, done, missed, jumped, faults, expiries>>
      /\ restarts' \in 0..MaxRestarts
  BY DEF Restart, IndexerTypeOK, IndexerAssumption
<1>2. /\ Idle \in PollState /\ Idle.event = {} /\ Idle.batch = {}
      /\ Idle.awaits = "nothing" /\ Idle.last = 0
  BY DEF Idle, PollState, IndexerAssumption
<1>3. UpTo(0) = {} /\ UpTo(StartLedger) = {}
  BY DEF UpTo, IndexerAssumption
<1>4. Remembered' = {}
  BY <1>1 DEF Remembered, Range
<1>5. \A e \in Event : Settled(e) => Settled(e)'
  <2>1. \A p \in Polls : poll[p].event \subseteq interrupted'
    BY <1>1
  <2> QED BY <1>1, <2>1, StaysSettled
<1>6. IndexerTypeOK'
  <2>1. interrupted' \subseteq Event
    <3>1. \A p \in Polls : poll[p].event \subseteq Event
      BY DEF IndexerTypeOK, PollState
    <3>2. UNION {poll[p].event : p \in Polls} \subseteq Event
      BY <3>1, Zenon
    <3> QED BY <1>1, <3>2 DEF IndexerTypeOK
  <2>2. cursor' \in Ledger \cup {NoLedger}
    BY <1>1 DEF IndexerTypeOK, Ledger, IndexerAssumption
  <2>3. forgotten' \in [Event -> Nat]
    <3>1. \A e \in Event :
              forgotten[e] + (IF e \in Remembered THEN 1 ELSE 0) \in Nat
      BY DEF IndexerTypeOK
    <3> QED BY <1>1, <3>1 DEF Forget
  <2> QED BY <1>1, <1>2, <2>1, <2>2, <2>3 DEF IndexerTypeOK, Ledger
<1>7. KeysAccounted'
  <2>1. \A e \in Event : forgotten[e] \in Nat /\ handed[e] \in Nat
    BY DEF IndexerTypeOK
  <2> QED BY <1>1, <1>4, <2>1 DEF KeysAccounted, Forget
<1>8. RememberedSettled'
  BY <1>4 DEF RememberedSettled
<1>9. NothingElseSkipped'
  <2>1. CASE cursor = NoLedger
    BY <1>1, <1>3, <2>1 DEF NothingElseSkipped, UpTo
  <2>2. CASE cursor # NoLedger
    BY <1>1, <1>5, <2>2 DEF NothingElseSkipped, UpTo
  <2> QED BY <2>1, <2>2
<1>10. \A p \in Polls : PollCovers(p)'
  BY <1>1, <1>2, <1>3 DEF PollCovers, UpTo
<1> QED BY <1>6, <1>7, <1>8, <1>9, <1>10

LEMMA StutterKeeps ==
    ASSUME IndexerInv, UNCHANGED vars
    PROVE  IndexerInv'
BY DEF IndexerInv, vars, keyVars, IndexerTypeOK, KeysAccounted,
       RememberedSettled, NothingElseSkipped, PollCovers, Settled, UpTo,
       Remembered
-----------------------------------------------------------------------------
\* IndexerInv holds at every step of the indexer, whatever polls are in flight,
\* fail, hang, overtake each other or are killed: it is inductive.
THEOREM IndexerInvariant == IndexerSpec => []IndexerInv
<1>1. IndexerInit => IndexerInv
  BY IndexerAssumption, InitEstablishes
<1>2. IndexerInv /\ [IndexerNext]_vars => IndexerInv'
  <2> SUFFICES ASSUME IndexerInv, [IndexerNext]_vars
               PROVE  IndexerInv'
    OBVIOUS
  <2> USE IndexerAssumption
  <2>1. ASSUME NEW p \in Polls, PollStep(p)
        PROVE  IndexerInv'
    <3>1. CASE ReadCursor(p)
      BY <3>1, ReadCursorKeeps
    <3>2. CASE ReadHead(p)
      BY <3>2, ReadHeadKeeps
    <3>3. CASE ReadRange(p)
      BY <3>3, ReadRangeKeeps
    <3>4. CASE HandlerEnds(p)
      BY <3>4, HandlerEndsKeeps
    <3>5. CASE StoreCursor(p)
      BY <3>5, StoreCursorKeeps
    <3> QED BY <2>1, <3>1, <3>2, <3>3, <3>4, <3>5 DEF PollStep
  <2>2. CASE CloseLedger
    BY <2>2, CloseLedgerKeeps
  <2>3. CASE Expire
    BY <2>3, ExpireKeeps
  <2>4. CASE Restart
    BY <2>4, RestartKeeps
  <2>5. CASE UNCHANGED vars
    BY <2>5, StutterKeeps
  <2> QED BY <2>1, <2>2, <2>3, <2>4, <2>5 DEF IndexerNext
<1> QED BY <1>1, <1>2, PTL DEF IndexerSpec

\* An event is handed to its handler once for each time its key was forgotten,
\* and once besides: never because two polls share a range.
THEOREM IndexerHandsOnce == IndexerSpec => []HandedOnce
<1>1. IndexerInv => HandedOnce
  BY DEF IndexerInv, IndexerTypeOK, KeysAccounted, HandedOnce
<1> QED BY <1>1, IndexerInvariant, PTL

\* The cursor passes no event that is not settled, whichever poll sets it.
THEOREM IndexerSkipsNothingElse == IndexerSpec => []NothingElseSkipped
<1>1. IndexerInv => NothingElseSkipped
  BY DEF IndexerInv
<1> QED BY <1>1, IndexerInvariant, PTL

\* Type correctness of the indexer.
THEOREM IndexerTyped == IndexerSpec => []IndexerTypeOK
<1>1. IndexerInv => IndexerTypeOK
  BY DEF IndexerInv
<1> QED BY <1>1, IndexerInvariant, PTL
=============================================================================
