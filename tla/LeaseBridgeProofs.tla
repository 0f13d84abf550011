-------------------------- MODULE LeaseBridgeProofs --------------------------
(***************************************************************************)
(* Theorems about LeaseBridge, for every set of executions, of requests    *)
(* and of operations, every capacity of the channel, every number of       *)
(* attempts, every environment and every bound.                            *)
(***************************************************************************)
EXTENDS LeaseBridge, SequenceTheorems, TLAPS

-----------------------------------------------------------------------------
(* The invariants.                                                         *)

\* The events between the workers and the log, the next one to be appended
\* first: the one the consumer has in hand and those in the channel.
Held == con.ev \o queue

Attempts ==
  [ev : {<<>>} \cup {<<e>> : e \in EventSet}, tries : 0..(MaxTries - 1),
   pc : {"try", "write"}, written : BOOLEAN]

\* TypeOK with what it rests on: events speak of positions there are, a
\* request's of none, and the worker that has an event in hand is at a position.
BridgeTyped ==
  /\ TypeOK
  /\ con \in Attempts
  /\ con.ev = <<>> => con = NoEvent
  /\ Len(hist) <= MaxEvents /\ sub.cursor <= Len(hist)
  /\ sub.pc \in {"handle", "emit", "persist"} => sub.pos >= 1
  /\ \A i \in 1..Len(Held) : Held[i].pos <= Len(hist)
  /\ \A c \in Callers : call[c].pc = "emit" => call[c].ev.pos = 0

Accounted(p) == Settled(p) \/ p \in InQueue

\* What the consumer holds although the durable log has taken it, is there.
WrittenIsDurable ==
  con.written => \A i \in 1..Len(con.ev) : con.ev[i].pos = 0 \/ con.ev[i].pos \in Range(dur)

\* The worker is done with position p.
Passed(p) ==
  \/ p <= sub.cursor
  \/ sub.pc \in {"next", "persist"} /\ p <= sub.pos
  \/ sub.pc \in {"handle", "emit"} /\ p < sub.pos

\* CursorPassesNothing for the worker's position in the stream too, which is
\* what its cursor becomes.
PassedAccounted ==
  \A p \in 1..Len(hist) : p <= saved \/ Passed(p) => Accounted(p)

\* The latest position the worker has emitted is at most this one.  A worker
\* without a cursor has everything behind it.
Emitted ==
  CASE sub.pc = "subscribe" -> IF sub.cursor = NoCursor THEN Len(hist) ELSE sub.cursor
    [] sub.pc \in {"handle", "emit"} -> sub.pos - 1
    [] sub.pc \in {"next", "persist"} -> sub.pos
    [] OTHER -> Len(hist)

\* BridgeKeepsOrder by the events held: each reports a later position than those
\* before it, than what memory has (the one in hand may be there) and than what
\* the durable log has (the one in hand may be there, if it was written).
Increasing ==
  /\ \A i, j \in 1..Len(Held) :
       i < j /\ Held[j].pos # 0 => Held[i].pos < Held[j].pos
  /\ \A j \in 1..Len(Held) : Held[j].pos # 0 =>
       /\ last <= Held[j].pos
       /\ j > Len(con.ev) => last < Held[j].pos
       /\ j > Len(con.ev) \/ ~con.written =>
            \A k \in 1..Len(dur) : dur[k] < Held[j].pos
  /\ \A i, j \in 1..Len(dur) : i < j => dur[i] < dur[j]

\* All that was emitted, and all that is durable, is at most at position n.
UpTo(n) ==
  /\ last <= n /\ \A k \in 1..Len(dur) : dur[k] <= n
  /\ \A i \in 1..Len(Held) : Held[i].pos <= n

\* The worker goes on from where it has emitted to, also when it opens the
\* stream again at its cursor; at its start there is none.
Continued ==
  /\ sub.pc \in {"next", "handle"} => sub.cursor \in {NoCursor, Emitted}
  /\ sub.pc = "load" => sub.cursor = NoCursor /\ saved = NoCursor

InOrder == Increasing /\ UpTo(Emitted) /\ Continued

-----------------------------------------------------------------------------
(* What is in the state, and what the steps do with the events held.       *)

LEMMA BridgeConstants ==
  /\ QueueCap \in Nat /\ MaxTries \in Nat /\ MaxTries > 0
  /\ MaxReconnect \in Nat /\ MaxEvents \in Nat /\ MaxFaults \in Nat
BY BridgeAssumption

LEMMA HeldTyped ==
  ASSUME BridgeTyped
  PROVE  /\ queue \in Seq(EventSet) /\ con.ev \in Seq(EventSet)
         /\ Held \in Seq(EventSet)
         /\ \A i \in 1..Len(Held) : Held[i] \in EventSet /\ Held[i].pos \in 0..MaxEvents
<1>1. queue \in Seq(EventSet)
  BY DEF BridgeTyped, TypeOK
<1>2. con.ev \in Seq(EventSet)
  <2>1. con.ev = <<>> \/ \E e \in EventSet : con.ev = <<e>>
    BY DEF BridgeTyped, TypeOK
  <2>2. \A e \in EventSet : <<e>> \in Seq(EventSet)
    OBVIOUS
  <2>3. <<>> \in Seq(EventSet)
    OBVIOUS
  <2> QED
    BY <2>1, <2>2, <2>3
<1>3. Held \in Seq(EventSet)
  BY <1>1, <1>2 DEF Held
<1>4. \A e \in EventSet : e.pos \in 0..MaxEvents
  BY DEF EventSet
<1> QED
  BY <1>1, <1>2, <1>3, <1>4

\* The positions of the events held, which InQueue collects in another order.
LEMMA HeldPositions ==
  ASSUME BridgeTyped
  PROVE  \A p : p \in InQueue <=> \E i \in 1..Len(Held) : Held[i].pos = p
<1>1. queue \in Seq(EventSet) /\ con.ev \in Seq(EventSet)
  BY HeldTyped
<1>2. Range(queue \o con.ev) = {(queue \o con.ev)[i] : i \in 1..(Len(queue) + Len(con.ev))}
  BY <1>1 DEF Range
<1>3. \A i \in 1..Len(queue) : (queue \o con.ev)[i] = queue[i]
                               /\ Held[Len(con.ev) + i] = queue[i]
  BY <1>1 DEF Held
<1>4. \A i \in 1..Len(con.ev) : (queue \o con.ev)[Len(queue) + i] = con.ev[i]
                                /\ Held[i] = con.ev[i]
  BY <1>1 DEF Held
<1>5. Len(Held) = Len(con.ev) + Len(queue) /\ Len(con.ev) \in Nat /\ Len(queue) \in Nat
  BY <1>1 DEF Held
<1> SUFFICES ASSUME NEW p
             PROVE  p \in InQueue <=> \E i \in 1..Len(Held) : Held[i].pos = p
  OBVIOUS
<1>6. p \in InQueue <=> \E i \in 1..(Len(queue) + Len(con.ev)) : (queue \o con.ev)[i].pos = p
  BY <1>2 DEF InQueue
<1>7. ASSUME NEW i \in 1..(Len(queue) + Len(con.ev)), (queue \o con.ev)[i].pos = p
      PROVE  \E j \in 1..Len(Held) : Held[j].pos = p
  <2>1. CASE i <= Len(queue)
    <3>1. i \in 1..Len(queue) /\ Len(con.ev) + i \in 1..Len(Held)
      BY <2>1, <1>5
    <3> QED
      BY <3>1, <1>3, <1>7
  <2>2. CASE ~(i <= Len(queue))
    <3> DEFINE k == i - Len(queue)
    <3>1. k \in 1..Len(con.ev) /\ k \in 1..Len(Held) /\ Len(queue) + k = i
      BY <2>2, <1>5
    <3> QED
      BY <3>1, <1>4, <1>7
  <2> QED
    BY <2>1, <2>2
<1>8. ASSUME NEW j \in 1..Len(Held), Held[j].pos = p
      PROVE  \E i \in 1..(Len(queue) + Len(con.ev)) : (queue \o con.ev)[i].pos = p
  <2>1. CASE j <= Len(con.ev)
    <3>1. j \in 1..Len(con.ev) /\ Len(queue) + j \in 1..(Len(queue) + Len(con.ev))
      BY <2>1, <1>5
    <3> QED
      BY <3>1, <1>4, <1>8
  <2>2. CASE ~(j <= Len(con.ev))
    <3> DEFINE k == j - Len(con.ev)
    <3>1. k \in 1..Len(queue) /\ k \in 1..(Len(queue) + Len(con.ev)) /\ Len(con.ev) + k = j
      BY <2>2, <1>5
    <3> QED
      BY <3>1, <1>3, <1>8
  <2> QED
    BY <2>1, <2>2
<1> QED
  BY <1>6, <1>7, <1>8

\* The first of the events held is appended or given up.
FirstLeaves ==
  /\ Len(Held) >= 1 /\ Held[1] = con.ev[1]
  /\ Len(Held)' = Len(Held) - 1
  /\ \A i \in 1..Len(Held)' : Held'[i] = Held[i + 1]

\* An event is sent.
Arrives(ev) ==
  /\ Len(Held)' = Len(Held) + 1
  /\ \A i \in 1..Len(Held) : Held'[i] = Held[i]
  /\ Held'[Len(Held) + 1] = ev

LEMMA ReceiveHeld == ASSUME BridgeTyped, Receive PROVE Held' = Held
<1>1. queue \in Seq(EventSet) /\ queue # <<>> /\ con.ev = <<>>
  BY HeldTyped DEF Receive, NoEvent
<1>2. con'.ev = <<Head(queue)>> /\ queue' = Tail(queue)
  BY DEF Receive, NoEvent
<1>3. <<Head(queue)>> \o Tail(queue) = <<>> \o queue
  BY <1>1
<1> QED
  BY <1>1, <1>2, <1>3 DEF Held

LEMMA ConsumedHeld ==
  ASSUME BridgeTyped, con # NoEvent, con' = NoEvent, UNCHANGED queue
  PROVE  FirstLeaves /\ con.ev[1] \in EventSet
<1>1. queue \in Seq(EventSet)
  BY HeldTyped
<1>2. PICK e \in EventSet : con.ev = <<e>>
  BY DEF BridgeTyped, TypeOK
<1>3. Held = <<e>> \o queue /\ Held' = <<>> \o queue
  BY <1>2 DEF Held, NoEvent
<1>4. Held' = queue
  BY <1>1, <1>3
<1>5. Len(Held) = Len(queue) + 1 /\ Held[1] = e
      /\ \A i \in 1..Len(queue) : Held[i + 1] = queue[i]
  BY <1>1, <1>3
<1> QED
  BY <1>1, <1>2, <1>4, <1>5 DEF FirstLeaves

LEMMA AppendToConcat ==
  ASSUME NEW S, NEW s \in Seq(S), NEW t \in Seq(S), NEW e \in S
  PROVE  s \o Append(t, e) = Append(s \o t, e)
<1>1. Append(t, e) = t \o <<e>>
  BY AppendIsConcat
<1>2. Append(s \o t, e) = (s \o t) \o <<e>>
  <2>1. s \o t \in Seq(S)
    OBVIOUS
  <2> QED
    BY <2>1, AppendIsConcat
<1>3. s \o (t \o <<e>>) = (s \o t) \o <<e>>
  <2>1. <<e>> \in Seq(S)
    OBVIOUS
  <2> QED
    BY <2>1, ConcatAssociative
<1> QED
  BY <1>1, <1>2, <1>3

LEMMA SentHeld ==
  ASSUME BridgeTyped, NEW ev \in EventSet, Send(ev), UNCHANGED con
  PROVE  Arrives(ev) /\ queue' \in Seq(EventSet)
<1>1. queue \in Seq(EventSet) /\ con.ev \in Seq(EventSet)
  BY HeldTyped
<1>2. Held' = con.ev \o Append(queue, ev)
  BY DEF Held, Send
<1>3. Held' = Append(Held, ev)
  <2>1. con.ev \o Append(queue, ev) = Append(con.ev \o queue, ev)
    <3>1. \A s, t \in Seq(EventSet) : s \o Append(t, ev) = Append(s \o t, ev)
      BY AppendToConcat
    <3> QED
      BY <1>1, <3>1
  <2> QED
    BY <1>2, <2>1, Zenon DEF Held
<1>4. queue' \in Seq(EventSet)
  BY <1>1 DEF Send
<1> QED
  BY <1>3, <1>4, HeldTyped DEF Arrives

\* The consumer keeps what it has in hand.
LEMMA InHandKept ==
  ASSUME con'.ev = con.ev, UNCHANGED queue
  PROVE  Held' = Held
BY DEF Held

LEMMA StartedHeld == ASSUME Started PROVE Held' = <<>>
BY DEF Started, Held, NoEvent

-----------------------------------------------------------------------------
(* Types.                                                                  *)

History == Seq([kind : {"expired", "reclaimed", "renewed"}, exec : Execs])

LEMMA HistoryTyped ==
  ASSUME BridgeTyped
  PROVE  /\ hist \in History /\ Len(hist) \in 0..MaxEvents
         /\ \A p \in 1..Len(hist) :
              hist[p].exec \in Execs /\ hist[p].kind \in {"expired", "reclaimed", "renewed"}
<1>1. hist \in History /\ Len(hist) <= MaxEvents
  BY DEF BridgeTyped, TypeOK, History
<1>2. \A p \in 1..Len(hist) : hist[p] \in [kind : {"expired", "reclaimed", "renewed"}, exec : Execs]
  <2> DEFINE S == [kind : {"expired", "reclaimed", "renewed"}, exec : Execs]
  <2>1. hist \in Seq(S)
    BY <1>1 DEF History
  <2> HIDE DEF S
  <2>2. \A p \in 1..Len(hist) : hist[p] \in S
    BY <2>1
  <2> QED
    BY <2>2 DEF S
<1>3. \A e \in [kind : {"expired", "reclaimed", "renewed"}, exec : Execs] :
        e.exec \in Execs /\ e.kind \in {"expired", "reclaimed", "renewed"}
  OBVIOUS
<1>4. Len(hist) \in 0..MaxEvents
  <2>1. Len(hist) \in Nat
    BY <1>1 DEF History
  <2> QED
    BY <1>1, <2>1, BridgeConstants
<1> QED
  BY <1>1, <1>2, <1>3, <1>4

LEMMA Positions ==
  ASSUME BridgeTyped
  PROVE  /\ \A n \in NoCursor..Len(hist) : n \in NoCursor..MaxEvents /\ n <= Len(hist)
         /\ \A n \in 0..Len(hist) :
              n \in 0..MaxEvents /\ n \in NoCursor..Len(hist) /\ n \in NoCursor..MaxEvents
         /\ Len(hist) \in 0..Len(hist)
<1>1. Len(hist) \in Nat /\ Len(hist) <= MaxEvents /\ MaxEvents \in Nat
  BY HistoryTyped, BridgeConstants
<1> QED
  BY <1>1 DEF NoCursor

LEMMA SubTyped ==
  ASSUME BridgeTyped
  PROVE  /\ sub \in SubSet
         /\ sub.pc \in {"load", "subscribe", "next", "handle", "emit", "persist", "stopped"}
         /\ sub.cursor \in NoCursor..Len(hist) /\ sub.pos \in 0..Len(hist)
         /\ sub.attempts \in 0..MaxReconnect /\ sub.first \in BOOLEAN
         /\ sub.cursor \in Int /\ sub.pos \in Nat
<1>1. sub \in SubSet /\ sub.pos <= Len(hist) /\ sub.cursor <= Len(hist)
  BY DEF BridgeTyped, TypeOK
<1> QED
  BY <1>1, HistoryTyped, BridgeConstants DEF SubSet, NoCursor

\* TypeOK by the components that take the steps.
LEMMA EventsHeldKept ==
  ASSUME BridgeTyped, Held' = Held, Len(hist) <= Len(hist)', Len(hist)' \in Nat
  PROVE  \A i \in 1..Len(Held)' : Held'[i].pos <= Len(hist)'
BY HeldTyped, HistoryTyped DEF BridgeTyped

LEMMA SequenceIn ==
  ASSUME NEW S, NEW T, NEW s \in Seq(S), \A i \in 1..Len(s) : s[i] \in T
  PROVE  s \in Seq(T)
OBVIOUS

LEMMA EngineKeepsTypes == ASSUME BridgeTyped, EngineStep PROVE BridgeTyped'
<1>1. ASSUME NEW x \in Execs, Purge(x)
      PROVE  BridgeTyped'
  <2>1. Held' = Held
    BY <1>1 DEF Purge, Held
  <2>2. TypeOK'
    BY <1>1 DEF Purge, BridgeTyped, TypeOK, EngineStates, store, history
  <2> QED
    BY <1>1, <2>1, <2>2 DEF Purge, BridgeTyped, store, history
<1>2. ASSUME NEW x \in Execs, NEW m \in LeaseMoves, LeaseEvent(x, m)
      PROVE  BridgeTyped'
  <2> DEFINE e == [kind |-> m[1], exec |-> x]
  <2>1. Held' = Held
    BY <1>2 DEF LeaseEvent, Held
  <2>2. e \in [kind : {"expired", "reclaimed", "renewed"}, exec : Execs]
        /\ m[3] \in EngineStates
    BY DEF LeaseMoves, EngineStates
  <2>3. hist' = Append(hist, e) /\ hist \in History
    BY <1>2, HistoryTyped DEF LeaseEvent
  <2> HIDE DEF e
  <2>4. hist' \in History /\ Len(hist)' = Len(hist) + 1 /\ Len(hist)' <= MaxEvents
    BY <1>2, <2>2, <2>3, HistoryTyped, BridgeConstants DEF History, LeaseEvent
  <2>5. eng' \in [Execs -> EngineStates]
    BY <1>2, <2>2 DEF LeaseEvent, BridgeTyped, TypeOK
  <2>6. /\ saved' \in NoCursor..Len(hist)' /\ sub' \in SubSet /\ sub'.pos <= Len(hist)'
        /\ dur' \in Seq(1..Len(hist)') /\ last' \in 0..Len(hist)'
        /\ lost' \subseteq (1..Len(hist)') \X Losses /\ sub'.cursor <= Len(hist)'
    <3>1. UNCHANGED <<saved, sub, dur, last, lost>>
      BY <1>2 DEF LeaseEvent, store, history
    <3>2. \A p : p \in 1..Len(hist) => p \in 1..Len(hist)'
      BY <2>4, HistoryTyped
    <3>3. dur \in Seq(1..Len(hist)')
      <4>1. dur \in Seq(1..Len(hist))
        BY DEF BridgeTyped, TypeOK
      <4>2. \A i \in 1..Len(dur) : dur[i] \in 1..Len(hist)'
        BY <3>2, <4>1
      <4> QED
        BY <4>1, <4>2, SequenceIn
    <3>4. /\ saved \in NoCursor..Len(hist) /\ sub \in SubSet /\ sub.pos <= Len(hist)
          /\ sub.cursor <= Len(hist) /\ sub.cursor \in Int /\ sub.pos \in Nat
          /\ last \in 0..Len(hist) /\ lost \subseteq (1..Len(hist)) \X Losses
      BY SubTyped DEF BridgeTyped, TypeOK
    <3>5. lost \subseteq (1..Len(hist)') \X Losses
      BY <3>2, <3>4
    <3>6. saved \in NoCursor..Len(hist)' /\ last \in 0..Len(hist)'
          /\ sub.pos <= Len(hist)' /\ sub.cursor <= Len(hist)'
      BY <2>4, <3>4, HistoryTyped DEF NoCursor
    <3> QED
      BY <3>1, <3>3, <3>4, <3>5, <3>6
  <2>7. TypeOK'
    <3>1. UNCHANGED <<proj, kept, call, queue, con, open, faults>>
      BY <1>2 DEF LeaseEvent, store
    <3> QED
      BY <2>4, <2>5, <2>6, <3>1 DEF BridgeTyped, TypeOK, History
  <2>8. UNCHANGED <<call, con, sub>>
    BY <1>2 DEF LeaseEvent
  <2> QED
    BY <2>1, <2>4, <2>6, <2>7, <2>8, EventsHeldKept, HistoryTyped DEF BridgeTyped
<1> QED
  BY <1>1, <1>2 DEF EngineStep


LEMMA ConTyped ==
  ASSUME BridgeTyped
  PROVE  /\ con.tries \in 0..(MaxTries - 1) /\ con.written \in BOOLEAN
         /\ con = [ev |-> con.ev, tries |-> con.tries, pc |-> con.pc, written |-> con.written]
         /\ con # NoEvent => con.ev[1] \in EventSet /\ con.ev = <<con.ev[1]>>
         /\ con.pc = "write" => con # NoEvent
         /\ con = NoEvent => con.ev = <<>> /\ ~con.written
<1>1. con \in Attempts /\ (con.ev = <<>> => con = NoEvent)
  BY DEF BridgeTyped
<1>2. NoEvent.ev = <<>> /\ NoEvent.pc = "try" /\ NoEvent.written = FALSE
  BY DEF NoEvent
<1> QED
  BY <1>1, <1>2 DEF Attempts

LEMMA NoEventTyped == NoEvent \in Attempts /\ NoEvent.ev = <<>>
BY BridgeConstants DEF NoEvent, Attempts

LEMMA LostMore ==
  ASSUME BridgeTyped, NEW P \in SUBSET (1..Len(hist)), NEW why \in Losses
  PROVE  lost \cup (P \X {why}) \subseteq (1..Len(hist)) \X Losses
<1>1. lost \subseteq (1..Len(hist)) \X Losses
  BY DEF BridgeTyped, TypeOK
<1> QED
  BY <1>1

\* The event the consumer has in hand.
LEMMA InHandTyped ==
  ASSUME BridgeTyped, con # NoEvent
  PROVE  /\ con.ev[1] \in EventSet /\ con.ev[1].pos \in 0..Len(hist)
         /\ con.ev[1].exec \in Execs /\ con.ev[1].to \in TaskStates \cup {"none"}
         /\ Len(con.ev) = 1 /\ 1 \in 1..Len(Held) /\ Held[1] = con.ev[1]
<1>1. con.ev[1] \in EventSet /\ con.ev = <<con.ev[1]>> /\ queue \in Seq(EventSet)
  BY ConTyped, HeldTyped
<1>2. Len(con.ev) = 1 /\ 1 \in 1..Len(Held) /\ Held[1] = con.ev[1]
  <2> DEFINE e == con.ev[1]
  <2>1. Held = <<e>> \o queue /\ e \in EventSet /\ con.ev = <<e>>
    BY <1>1 DEF Held
  <2> HIDE DEF e
  <2>2. Len(Held) = 1 + Len(queue) /\ Held[1] = e /\ Len(con.ev) = 1
    BY <1>1, <2>1
  <2> QED
    BY <1>1, <2>2 DEF e
<1>3. con.ev[1].pos <= Len(hist)
  BY <1>2 DEF BridgeTyped
<1> QED
  BY <1>1, <1>2, <1>3, HistoryTyped DEF EventSet

LEMMA ProjectedTyped ==
  ASSUME NEW states \in [Execs -> TaskStates], NEW ev \in EventSet
  PROVE  Projected(states, ev) \in [Execs -> TaskStates]
BY DEF Projected, EventSet

\* What the durable log is after a write.
LEMMA WriteTyped ==
  ASSUME BridgeTyped, Write
  PROVE  /\ kept' \in [Execs -> TaskStates] /\ dur' \in Seq(1..Len(hist))
         /\ con # NoEvent
<1>1. con # NoEvent
  BY ConTyped DEF Write
<1> DEFINE ev == con.ev[1]
<1>2. ev \in EventSet /\ ev.pos \in 0..Len(hist)
  BY <1>1, InHandTyped
<1>3. kept' = Projected(kept, ev) /\ dur' = IF ev.pos = 0 THEN dur ELSE Append(dur, ev.pos)
  BY DEF Write
<1>4. kept \in [Execs -> TaskStates] /\ dur \in Seq(1..Len(hist))
  BY DEF BridgeTyped, TypeOK
<1> HIDE DEF ev
<1>5. ev.pos # 0 => ev.pos \in 1..Len(hist)
  BY <1>2, HistoryTyped
<1>6. ev.pos # 0 => Append(dur, ev.pos) \in Seq(1..Len(hist))
  BY <1>4, <1>5
<1> QED
  BY <1>1, <1>2, <1>3, <1>4, <1>6, ProjectedTyped

\* A failed attempt keeps the event in hand, or gives it up.
LEMMA RetryTyped ==
  ASSUME BridgeTyped, con # NoEvent, NEW written \in BOOLEAN, Retry(written), UNCHANGED queue
  PROVE  /\ con' \in Attempts /\ lost' \subseteq (1..Len(hist)) \X Losses
         /\ con'.ev = <<>> => con' = NoEvent
         /\ \/ /\ con' = NoEvent /\ FirstLeaves
               /\ written \/ lost' = lost \cup (({con.ev[1].pos} \ {0}) \X {"dropped"})
            \/ con'.ev = con.ev /\ con'.written = written /\ con' # NoEvent
<1>1. con \in Attempts /\ con.tries \in 0..(MaxTries - 1) /\ con.ev # <<>>
  BY ConTyped DEF BridgeTyped
<1>2. lost' \subseteq (1..Len(hist)) \X Losses
  <2> DEFINE P == {con.ev[1].pos} \ {0}
  <2>1. P \in SUBSET (1..Len(hist))
    BY InHandTyped, HistoryTyped
  <2>2. lost' = lost \/ lost' = lost \cup (P \X {"dropped"})
    BY DEF Retry
  <2>3. lost \subseteq (1..Len(hist)) \X Losses
    BY DEF BridgeTyped, TypeOK
  <2> HIDE DEF P
  <2> QED
    BY <2>1, <2>2, <2>3, LostMore DEF Losses
<1>3. CASE con.tries + 1 = MaxTries
  <2>1. con' = NoEvent
    BY <1>3 DEF Retry
  <2>2. FirstLeaves
    BY <2>1, ConsumedHeld
  <2>3. written \/ lost' = lost \cup (({con.ev[1].pos} \ {0}) \X {"dropped"})
    BY <1>3, BridgeConstants DEF Retry
  <2> QED
    BY <1>2, <2>1, <2>2, <2>3, NoEventTyped
<1>4. CASE con.tries + 1 # MaxTries
  <2> DEFINE n == con.tries + 1
  <2>1. n \in 0..(MaxTries - 1)
    BY <1>1, <1>4, BridgeConstants
  <2>2. con' = [con EXCEPT !.tries = n, !.pc = "try", !.written = written]
    BY <1>4 DEF Retry
  <2> HIDE DEF n
  <2>3. con' \in Attempts /\ con'.ev = con.ev /\ con'.written = written
    BY <1>1, <2>1, <2>2 DEF Attempts
  <2> QED
    BY <1>1, <1>2, <2>3, NoEventTyped
<1> QED
  BY <1>3, <1>4

LEMMA ConsumerKeepsTypes == ASSUME BridgeTyped, Consumer PROVE BridgeTyped'
<1>1. UNCHANGED <<eng, hist, saved, sub, call, open>>
  BY DEF Consumer, Receive, AppendEvent, Save, WriteFails, AnswerLost, WriteRefused,
     engine, store
<1>2. ASSUME queue' \in Seq(EventSet), con' \in Attempts, con'.ev = <<>> => con' = NoEvent,
             proj' \in [Execs -> TaskStates], kept' \in [Execs -> TaskStates],
             dur' \in Seq(1..Len(hist)), last' \in 0..Len(hist),
             lost' \subseteq (1..Len(hist)) \X Losses, faults' \in 0..MaxFaults,
             \A i \in 1..Len(Held)' : Held'[i].pos <= Len(hist)
      PROVE  BridgeTyped'
  <2>1. TypeOK'
    BY <1>1, <1>2 DEF BridgeTyped, TypeOK, Attempts
  <2> QED
    BY <1>1, <1>2, <2>1 DEF BridgeTyped
<1>3. /\ queue \in Seq(EventSet) /\ lost \subseteq (1..Len(hist)) \X Losses
      /\ proj \in [Execs -> TaskStates] /\ kept \in [Execs -> TaskStates]
      /\ dur \in Seq(1..Len(hist)) /\ last \in 0..Len(hist) /\ faults \in 0..MaxFaults
      /\ \A i \in 1..Len(Held) : Held[i].pos <= Len(hist)
  BY DEF BridgeTyped, TypeOK
<1>4. ASSUME FirstLeaves
      PROVE  \A i \in 1..Len(Held)' : Held'[i].pos <= Len(hist)
  BY <1>4, HeldTyped DEF FirstLeaves, BridgeTyped
<1>5. \A kind : Fault(kind) => faults' \in 0..MaxFaults
  BY <1>3, BridgeConstants DEF Fault
<1>6. ASSUME Receive
      PROVE  BridgeTyped'
  <2>1. queue # <<>> /\ queue' = Tail(queue)
    BY <1>6 DEF Receive
  <2>2. Head(queue) \in EventSet /\ queue' \in Seq(EventSet)
    BY <1>3, <2>1
  <2>3. con' = [ev |-> <<Head(queue)>>, tries |-> 0, pc |-> "try", written |-> FALSE]
    BY <1>6 DEF Receive, NoEvent
  <2>4. con' \in Attempts /\ con'.ev # <<>>
    BY <2>2, <2>3, BridgeConstants DEF Attempts
  <2>5. Held' = Held
    BY <1>6, ReceiveHeld
  <2>6. UNCHANGED <<proj, kept, dur, last, lost, faults>>
    BY <1>6 DEF Receive, store, history
  <2> QED
    BY <1>2, <1>3, <2>2, <2>4, <2>5, <2>6
<1>7. ASSUME AppendEvent
      PROVE  BridgeTyped'
  <2> DEFINE ev == con.ev[1]
  <2>1. con # NoEvent /\ proj' = Projected(proj, ev) /\ last' \in {last, ev.pos}
        /\ con' = [con EXCEPT !.pc = "write"] /\ UNCHANGED <<queue, kept, dur, lost, faults>>
    BY <1>7 DEF AppendEvent
  <2>2. ev \in EventSet /\ ev.pos \in 0..Len(hist) /\ con.ev # <<>>
    BY <2>1, InHandTyped, ConTyped
  <2>3. con' \in Attempts /\ con'.ev = con.ev
    BY <2>1 DEF BridgeTyped, Attempts
  <2>4. Held' = Held
    BY <2>1, <2>3, InHandKept
  <2> HIDE DEF ev
  <2>5. proj' \in [Execs -> TaskStates] /\ last' \in 0..Len(hist)
    BY <1>3, <2>1, <2>2, ProjectedTyped
  <2> QED
    BY <1>2, <1>3, <2>1, <2>2, <2>3, <2>4, <2>5
<1>8. ASSUME Save
      PROVE  BridgeTyped'
  <2>1. Write /\ con' = NoEvent /\ UNCHANGED <<queue, proj, last, lost, faults>>
    BY <1>8 DEF Save, history
  <2>2. FirstLeaves
    BY <2>1, WriteTyped, ConsumedHeld
  <2> QED
    BY <1>2, <1>3, <1>4, <2>1, <2>2, WriteTyped, NoEventTyped
<1>9. ASSUME NEW written \in BOOLEAN, con # NoEvent, Retry(written),
             UNCHANGED <<queue, proj, last>>, faults' \in 0..MaxFaults,
             kept' \in [Execs -> TaskStates], dur' \in Seq(1..Len(hist))
      PROVE  BridgeTyped'
  <2>1. con' \in Attempts /\ lost' \subseteq (1..Len(hist)) \X Losses
        /\ (con'.ev = <<>> => con' = NoEvent)
        /\ (FirstLeaves \/ con'.ev = con.ev)
    BY <1>9, RetryTyped
  <2>2. \A i \in 1..Len(Held)' : Held'[i].pos <= Len(hist)
    BY <1>3, <1>4, <1>9, <2>1, InHandKept
  <2> QED
    BY <1>2, <1>3, <1>9, <2>1, <2>2
<1>10. ASSUME WriteFails \/ WriteRefused
       PROVE  BridgeTyped'
  <2>1. con.pc = "write" /\ (Retry(FALSE) \/ Retry(TRUE))
        /\ UNCHANGED <<queue, proj, kept, dur, last>> /\ faults' \in 0..MaxFaults
    BY <1>3, <1>5, <1>10 DEF WriteFails, WriteRefused, store
  <2> QED
    BY <1>3, <1>9, <2>1, ConTyped
<1>11. ASSUME AnswerLost
       PROVE  BridgeTyped'
  <2>1. Write /\ Retry(TRUE) /\ UNCHANGED <<queue, proj, last>> /\ faults' \in 0..MaxFaults
    BY <1>5, <1>11 DEF AnswerLost
  <2> QED
    BY <1>9, <2>1, WriteTyped
<1> QED
  BY <1>6, <1>7, <1>8, <1>10, <1>11 DEF Consumer

\* What a request holds.
LEMMA CallTyped ==
  ASSUME BridgeTyped, NEW c \in Callers
  PROVE  /\ call[c] \in CallSet
         /\ call[c].pc = "read" => call[c].op \in TaskOps /\ call[c].exec \in Execs
         /\ call[c].pc = "emit" => call[c].ev \in EventSet /\ call[c].ev.pos = 0
<1>1. call[c] \in CallSet
  BY DEF BridgeTyped, TypeOK
<1>2. \/ call[c] = IdleCall
      \/ call[c] \in [pc : {"read"}, op : TaskOps, exec : Execs]
      \/ call[c] \in [pc : {"emit"}, ev : EventSet]
  BY <1>1 DEF CallSet
<1>3. CASE call[c] = IdleCall
  BY <1>1, <1>3 DEF IdleCall
<1>4. CASE call[c] \in [pc : {"read"}, op : TaskOps, exec : Execs]
  BY <1>1, <1>4
<1>5. CASE call[c] \in [pc : {"emit"}, ev : EventSet]
  BY <1>1, <1>5 DEF BridgeTyped
<1> QED
  BY <1>2, <1>3, <1>4, <1>5

\* A step of a request that leaves the workers alone.
LEMMA CallUpdated ==
  ASSUME BridgeTyped, NEW c \in Callers, NEW s \in CallSet,
         s.pc = "emit" => s.ev.pos = 0,
         call' = [call EXCEPT ![c] = s], UNCHANGED <<hist, store, sub, con, open, history>>,
         eng' \in [Execs -> EngineStates], faults' \in 0..MaxFaults,
         queue' \in Seq(EventSet), \A i \in 1..Len(Held)' : Held'[i].pos <= Len(hist)
  PROVE  BridgeTyped'
<1>1. call' \in [Callers -> CallSet]
  BY DEF BridgeTyped, TypeOK
<1>2. \A d \in Callers : call'[d].pc = "emit" => call'[d].ev.pos = 0
  BY DEF BridgeTyped, TypeOK
<1>3. TypeOK'
  BY <1>1 DEF BridgeTyped, TypeOK, store, history
<1> QED
  BY <1>2, <1>3 DEF BridgeTyped

LEMMA ReportedTyped ==
  ASSUME NEW x \in Execs, NEW op \in TaskOps
  PROVE  Reported(op, x) \in TaskStates \cup {"none"}
<1>1. TaskState(eng[x]) \in TaskStates
  BY DEF TaskState, TaskStates
<1> QED
  BY <1>1 DEF Reported, TaskOps, TaskStates

\* The events held after one has arrived: those before and that one.
LEMMA HeldAfterArrival ==
  ASSUME BridgeTyped, NEW ev, Arrives(ev)
  PROVE  /\ Len(Held) \in Nat /\ Len(Held)' = Len(Held) + 1
         /\ \A i \in 1..Len(Held)' :
              \/ i \in 1..Len(Held) /\ Held'[i] = Held[i]
              \/ i = Len(Held) + 1 /\ Held'[i] = ev
<1>1. Len(Held) \in Nat
  BY HeldTyped
<1>2. \A i \in 1..(Len(Held) + 1) : i \in 1..Len(Held) \/ i = Len(Held) + 1
  BY <1>1
<1> QED
  BY <1>1, <1>2 DEF Arrives

LEMMA ArrivalInHistory ==
  ASSUME BridgeTyped, NEW ev, Arrives(ev), ev.pos <= Len(hist)
  PROVE  \A i \in 1..Len(Held)' : Held'[i].pos <= Len(hist)
BY HeldAfterArrival DEF BridgeTyped

LEMMA ServiceKeepsTypes ==
  ASSUME BridgeTyped, NEW c \in Callers, Service(c)
  PROVE  BridgeTyped'
<1>1. IdleCall \in CallSet /\ IdleCall.pc # "emit"
  BY DEF IdleCall, CallSet
<1>2. /\ \A i \in 1..Len(Held) : Held[i].pos <= Len(hist)
      /\ queue \in Seq(EventSet) /\ eng \in [Execs -> EngineStates] /\ faults \in 0..MaxFaults
  BY DEF BridgeTyped, TypeOK
<1>3. ASSUME NEW op \in Ops, NEW x \in Execs, CallEngine(c, op, x)
      PROVE  BridgeTyped'
  <2> DEFINE s == [pc |-> "read", op |-> op, exec |-> x]
  <2>1. UNCHANGED <<hist, store, sub, queue, con, open, history, faults>>
    BY <1>3 DEF CallEngine
  <2>2. Held' = Held
    BY <2>1 DEF Held
  <2>3. op \in TaskOps
    BY BridgeAssumption
  <2>4. EngineAfter(op) \in EngineStates
    BY <2>3 DEF EngineAfter, TaskOps, EngineStates
  <2>5. eng' \in [Execs -> EngineStates]
    BY <1>2, <1>3, <2>4 DEF CallEngine, EngineStates
  <2>6. s \in CallSet /\ s.pc # "emit"
    BY <2>3 DEF CallSet
  <2>7. call' = [call EXCEPT ![c] = s] \/ call' = call
    BY <1>3 DEF CallEngine
  <2>8. call' = [call EXCEPT ![c] = call[c]] \/ call' = [call EXCEPT ![c] = s]
    BY <2>7 DEF BridgeTyped, TypeOK
  <2> HIDE DEF s
  <2> QED
    BY <1>2, <2>1, <2>2, <2>5, <2>6, <2>8, CallUpdated, CallTyped
<1>4. ASSUME ReadRecord(c)
      PROVE  BridgeTyped'
  <2> DEFINE x == call[c].exec
             ev == [exec |-> x, to |-> Reported(call[c].op, x), pos |-> 0]
             s == [pc |-> "emit", ev |-> ev]
  <2>1. UNCHANGED <<eng, hist, store, sub, queue, con, open, history, faults>>
    BY <1>4 DEF ReadRecord, engine
  <2>2. Held' = Held
    BY <2>1 DEF Held
  <2>3. ev \in EventSet
    BY <1>4, CallTyped, ReportedTyped, BridgeConstants DEF ReadRecord, EventSet
  <2>4. s \in CallSet /\ s.ev.pos = 0
    BY <2>3 DEF CallSet
  <2>5. call' = [call EXCEPT ![c] = IdleCall] \/ call' = [call EXCEPT ![c] = s]
    BY <1>4 DEF ReadRecord
  <2> HIDE DEF s
  <2> QED
    BY <1>1, <1>2, <2>1, <2>2, <2>4, <2>5, CallUpdated
<1>5. ASSUME ReadRecordFails(c)
      PROVE  BridgeTyped'
  <2>1. UNCHANGED <<eng, hist, store, sub, queue, con, open, history>>
    BY <1>5 DEF ReadRecordFails, engine
  <2>2. Held' = Held
    BY <2>1 DEF Held
  <2>3. faults' \in 0..MaxFaults
    BY <1>2, <1>5, BridgeConstants DEF ReadRecordFails, Fault
  <2>4. call' = [call EXCEPT ![c] = IdleCall]
    BY <1>5 DEF ReadRecordFails
  <2> QED
    BY <1>1, <1>2, <2>1, <2>2, <2>3, <2>4, CallUpdated
<1>6. ASSUME EmitFromService(c)
      PROVE  BridgeTyped'
  <2>1. UNCHANGED <<eng, hist, store, sub, con, open, history, faults>>
        /\ call' = [call EXCEPT ![c] = IdleCall]
    BY <1>6 DEF EmitFromService, engine
  <2>2. CASE open
    <3>1. Send(call[c].ev) /\ call[c].ev \in EventSet /\ call[c].ev.pos = 0
      BY <1>6, <2>2, CallTyped DEF EmitFromService
    <3>2. Arrives(call[c].ev) /\ queue' \in Seq(EventSet)
      BY <2>1, <3>1, SentHeld
    <3>3. \A i \in 1..Len(Held)' : Held'[i].pos <= Len(hist)
      BY <3>1, <3>2, ArrivalInHistory, HistoryTyped
    <3> QED
      BY <1>1, <1>2, <2>1, <3>2, <3>3, CallUpdated
  <2>3. CASE ~open
    <3>1. UNCHANGED queue /\ Held' = Held
      BY <1>6, <2>1, <2>3 DEF EmitFromService, Held
    <3> QED
      BY <1>1, <1>2, <2>1, <3>1, CallUpdated
  <2> QED
    BY <2>2, <2>3
<1> QED
  BY <1>3, <1>4, <1>5, <1>6 DEF Service

\* A step of the subscriber.
LEMMA SubUpdated ==
  ASSUME BridgeTyped, UNCHANGED <<eng, hist, proj, kept, dur, call, con, open, last>>,
         sub' \in SubSet, sub'.pos <= Len(hist), sub'.cursor <= Len(hist),
         sub'.pc \in {"handle", "emit", "persist"} => sub'.pos >= 1,
         saved' \in NoCursor..Len(hist), faults' \in 0..MaxFaults,
         lost' \subseteq (1..Len(hist)) \X Losses,
         queue' \in Seq(EventSet), \A i \in 1..Len(Held)' : Held'[i].pos <= Len(hist)
  PROVE  BridgeTyped'
<1>1. TypeOK'
  BY DEF BridgeTyped, TypeOK
<1> QED
  BY <1>1 DEF BridgeTyped

\* ... that emits nothing.
LEMMA SubMoved ==
  ASSUME BridgeTyped, UNCHANGED <<eng, hist, store, call, queue, con, open, history>>,
         sub' \in SubSet, sub'.pos <= Len(hist), sub'.cursor <= Len(hist),
         sub'.pc \in {"handle", "emit", "persist"} => sub'.pos >= 1,
         faults' = faults \/ \E kind : Fault(kind)
  PROVE  BridgeTyped'
<1>1. Held' = Held
  BY DEF Held
<1>2. faults' \in 0..MaxFaults
  BY BridgeConstants DEF BridgeTyped, TypeOK, Fault
<1>3. \A i \in 1..Len(Held)' : Held'[i].pos <= Len(hist)
  BY <1>1 DEF BridgeTyped
<1>4. UNCHANGED <<saved, proj, kept, dur, last, lost>>
  BY DEF store, history
<1>5. /\ saved' \in NoCursor..Len(hist) /\ lost' \subseteq (1..Len(hist)) \X Losses
      /\ queue' \in Seq(EventSet)
  BY <1>4 DEF BridgeTyped, TypeOK
<1> QED
  BY <1>2, <1>3, <1>4, <1>5, SubUpdated

LEMMA BackoffTyped ==
  ASSUME BridgeTyped, NEW cursor \in NoCursor..Len(hist), Backoff(cursor)
  PROVE  /\ sub' \in SubSet /\ sub'.pos = sub.pos /\ sub'.cursor = cursor
         /\ sub'.pc \in {"subscribe", "stopped"}
         /\ sub'.pc = "subscribe" <=> sub.attempts < MaxReconnect
<1> DEFINE n == IF sub.attempts < MaxReconnect THEN sub.attempts + 1 ELSE sub.attempts
           pc == IF sub.attempts < MaxReconnect THEN "subscribe" ELSE "stopped"
<1>1. sub' = [sub EXCEPT !.cursor = cursor, !.attempts = n, !.pc = pc]
  BY DEF Backoff
<1>2. n \in 0..MaxReconnect
  BY SubTyped, BridgeConstants
<1>3. pc \in {"subscribe", "stopped"} /\ (pc = "subscribe" <=> sub.attempts < MaxReconnect)
  OBVIOUS
<1>4. cursor \in NoCursor..MaxEvents
  BY Positions
<1>5. sub \in SubSet
  BY SubTyped
<1> HIDE DEF n, pc
<1> QED
  BY <1>1, <1>2, <1>3, <1>4, <1>5 DEF SubSet

LEMMA SkippedTyped ==
  ASSUME BridgeTyped
  PROVE  lost \cup Skipped \subseteq (1..Len(hist)) \X Losses
<1> DEFINE P == (1..Len(hist)) \ (Range(dur) \cup InQueue \cup {l[1] : l \in lost})
           why == IF sub.first THEN "tail" ELSE "reopened"
<1>1. P \in SUBSET (1..Len(hist))
  OBVIOUS
<1>2. why \in Losses
  BY DEF Losses
<1>3. Skipped = {} \/ Skipped = P \X {why}
  BY DEF Skipped
<1>4. lost \subseteq (1..Len(hist)) \X Losses
  BY DEF BridgeTyped, TypeOK
<1> HIDE DEF P, why
<1>5. lost \cup (P \X {why}) \subseteq (1..Len(hist)) \X Losses
  BY <1>1, <1>2, LostMore
<1> QED
  BY <1>3, <1>4, <1>5

LEMMA LeaseReportTyped ==
  ASSUME BridgeTyped, NEW p \in 1..Len(hist)
  PROVE  LeaseReport(p) \in EventSet /\ LeaseReport(p).pos = p
<1>1. hist[p].exec \in Execs /\ p \in 0..MaxEvents
  <2>1. p \in 0..Len(hist)
    BY HistoryTyped
  <2> QED
    BY <2>1, HistoryTyped, Positions
<1> QED
  BY <1>1 DEF LeaseReport, EventSet, TaskStates

LEMMA SubscriberKeepsTypes == ASSUME BridgeTyped, Subscriber PROVE BridgeTyped'
<1>1. /\ sub \in SubSet /\ Len(hist) \in 0..MaxEvents
      /\ sub.cursor \in NoCursor..Len(hist) /\ sub.pos \in 0..Len(hist)
      /\ 0 \in 0..MaxReconnect
  BY SubTyped, HistoryTyped, BridgeConstants
<1>2. saved \in NoCursor..Len(hist) /\ queue \in Seq(EventSet) /\ faults \in 0..MaxFaults
      /\ lost \subseteq (1..Len(hist)) \X Losses
      /\ \A i \in 1..Len(Held) : Held[i].pos <= Len(hist)
  BY DEF BridgeTyped, TypeOK
<1>3. \A n \in NoCursor..Len(hist) : n \in NoCursor..MaxEvents /\ n <= Len(hist)
  BY Positions
<1>4. ASSUME LoadCursor PROVE BridgeTyped'
  <2>1. sub' = [sub EXCEPT !.pc = "subscribe", !.cursor = saved]
        \/ sub' = [sub EXCEPT !.pc = "subscribe"]
    BY <1>4 DEF LoadCursor
  <2>2. saved \in NoCursor..MaxEvents /\ saved <= Len(hist) /\ sub.pos <= Len(hist)
        /\ sub.cursor <= Len(hist)
    BY <1>1, <1>2, <1>3
  <2>3. sub' \in SubSet /\ sub'.pc = "subscribe" /\ sub'.pos = sub.pos
        /\ sub'.cursor \in {sub.cursor, saved}
    BY <1>1, <2>1, <2>2 DEF SubSet
  <2>4. UNCHANGED <<eng, hist, store, call, queue, con, open, history>>
        /\ (faults' = faults \/ \E kind : Fault(kind))
    BY <1>4 DEF LoadCursor, engine
  <2> QED
    BY <2>2, <2>3, <2>4, SubMoved
<1>5. ASSUME Subscribe PROVE BridgeTyped'
  <2> DEFINE pos == IF sub.cursor = NoCursor THEN Len(hist) ELSE sub.cursor
  <2>1. pos \in 0..Len(hist) /\ pos \in 0..MaxEvents
    <3>1. pos \in 0..Len(hist)
      BY <1>1, HistoryTyped DEF NoCursor
    <3> QED
      BY <3>1, Positions
  <2>2. sub' = [sub EXCEPT !.pc = "next", !.attempts = 0, !.first = FALSE, !.pos = pos]
    BY <1>5 DEF Subscribe
  <2> HIDE DEF pos
  <2>3. sub' \in SubSet /\ sub'.pc = "next" /\ sub'.pos <= Len(hist)
        /\ sub'.cursor <= Len(hist)
    <3>1. sub' \in SubSet /\ sub'.pc = "next" /\ sub'.pos = pos /\ sub'.cursor = sub.cursor
      BY <1>1, <2>1, <2>2 DEF SubSet
    <3> QED
      BY <1>1, <1>3, <2>1, <3>1, Positions
  <2>4. UNCHANGED <<eng, hist, saved, proj, kept, dur, call, queue, con, open, last, faults>>
    BY <1>5 DEF Subscribe, engine, store
  <2>5. lost' \subseteq (1..Len(hist)) \X Losses
    BY <1>5, SkippedTyped DEF Subscribe
  <2>6. Held' = Held
    BY <2>4 DEF Held
  <2> QED
    BY <1>2, <2>3, <2>4, <2>5, <2>6, SubUpdated
<1>6. ASSUME StreamFails PROVE BridgeTyped'
  <2>1. UNCHANGED <<eng, hist, store, call, queue, con, open, history>>
        /\ \E kind : Fault(kind)
    BY <1>6 DEF StreamFails, engine
  <2>2. \/ \E cursor \in NoCursor..Len(hist) : Backoff(cursor)
        \/ sub' = [sub EXCEPT !.pc = "stopped"]
    BY <1>1, <1>6 DEF StreamFails, NoCursor
  <2>3. CASE \E cursor \in NoCursor..Len(hist) : Backoff(cursor)
    BY <1>1, <1>3, <2>1, <2>3, BackoffTyped, SubMoved
  <2>4. CASE sub' = [sub EXCEPT !.pc = "stopped"]
    <3>1. sub' \in SubSet /\ sub'.pc = "stopped" /\ sub'.pos = sub.pos /\ sub'.cursor = sub.cursor
      BY <1>1, <2>4 DEF SubSet
    <3> QED
      BY <1>1, <1>3, <2>1, <3>1, SubMoved
  <2> QED
    BY <2>2, <2>3, <2>4
<1>7. ASSUME NextEvent PROVE BridgeTyped'
  <2> DEFINE n == sub.pos + 1
  <2>1. n \in 0..MaxEvents /\ n <= Len(hist) /\ n >= 1
    BY <1>1, <1>7, HistoryTyped, BridgeConstants DEF NextEvent
  <2>2. sub' = [sub EXCEPT !.pc = "handle", !.pos = n]
    BY <1>7 DEF NextEvent
  <2> HIDE DEF n
  <2>3. sub' \in SubSet /\ sub'.pos = n /\ sub'.cursor = sub.cursor
    BY <1>1, <2>1, <2>2 DEF SubSet
  <2>4. UNCHANGED <<eng, hist, store, call, queue, con, open, history, faults>>
    BY <1>7 DEF NextEvent, engine
  <2> QED
    BY <1>1, <1>3, <2>1, <2>3, <2>4, SubMoved
<1>8. ASSUME HandleEvent PROVE BridgeTyped'
  <2>1. /\ sub' = [sub EXCEPT !.pc = "emit"] \/ sub' = [sub EXCEPT !.pc = "persist"]
        /\ sub.pc = "handle"
    BY <1>8 DEF HandleEvent
  <2>2. sub' \in SubSet /\ sub'.pos = sub.pos /\ sub'.cursor = sub.cursor /\ sub.pos >= 1
    BY <1>1, <2>1 DEF SubSet, BridgeTyped
  <2>3. UNCHANGED <<eng, hist, store, call, queue, con, open, history, faults>>
    BY <1>8 DEF HandleEvent, engine
  <2> QED
    BY <1>1, <1>3, <2>2, <2>3, SubMoved
<1>9. ASSUME DescribeFails PROVE BridgeTyped'
  <2>1. UNCHANGED <<eng, hist, store, call, queue, con, open, history>>
        /\ (\E kind : Fault(kind)) /\ Backoff(sub.cursor)
    BY <1>9 DEF DescribeFails, engine
  <2> QED
    BY <1>1, <1>3, <2>1, BackoffTyped, SubMoved
<1>10. ASSUME EmitFromSubscriber PROVE BridgeTyped'
  <2>1. UNCHANGED <<eng, hist, saved, proj, kept, dur, call, con, open, last, lost, faults>>
        /\ sub.pc = "emit" /\ sub' = [sub EXCEPT !.pc = "persist"]
        /\ Send(LeaseReport(sub.pos))
    BY <1>10 DEF EmitFromSubscriber, engine, store, history
  <2>2. sub' \in SubSet /\ sub'.pos = sub.pos /\ sub'.cursor = sub.cursor /\ sub.pos >= 1
    BY <1>1, <2>1 DEF SubSet, BridgeTyped
  <2>3. LeaseReport(sub.pos) \in EventSet /\ LeaseReport(sub.pos).pos <= Len(hist)
    BY <1>1, <2>2, LeaseReportTyped
  <2>4. Arrives(LeaseReport(sub.pos)) /\ queue' \in Seq(EventSet)
    BY <2>1, <2>3, SentHeld
  <2>5. \A i \in 1..Len(Held)' : Held'[i].pos <= Len(hist)
    BY <2>3, <2>4, ArrivalInHistory
  <2> QED
    BY <1>1, <1>2, <1>3, <2>1, <2>2, <2>4, <2>5, SubUpdated
<1>11. ASSUME PersistCursor PROVE BridgeTyped'
  <2>1. UNCHANGED <<eng, hist, proj, kept, dur, call, queue, con, open, last, lost>>
        /\ sub' = [sub EXCEPT !.pc = "next", !.cursor = sub.pos]
        /\ saved' \in {saved, sub.pos} /\ (faults' = faults \/ \E kind : Fault(kind))
    BY <1>11 DEF PersistCursor, engine, history
  <2>2. sub.pos \in NoCursor..MaxEvents /\ sub.pos \in NoCursor..Len(hist)
    BY <1>1, Positions
  <2>3. sub' \in SubSet /\ sub'.pc = "next" /\ sub'.pos = sub.pos /\ sub'.cursor = sub.pos
    BY <1>1, <2>1, <2>2 DEF SubSet
  <2>4. saved' \in NoCursor..Len(hist) /\ faults' \in 0..MaxFaults
    BY <1>2, <2>1, <2>2, BridgeConstants DEF Fault
  <2>5. Held' = Held
    BY <2>1 DEF Held
  <2> QED
    BY <1>1, <1>2, <2>1, <2>3, <2>4, <2>5, SubUpdated
<1> QED
  BY <1>4, <1>5, <1>6, <1>7, <1>8, <1>9, <1>10, <1>11 DEF Subscriber

\* A new process: no cursor, no requests and nothing in the channel.
LEMMA StartedTyped ==
  ASSUME BridgeTyped, Started, faults' \in 0..MaxFaults
  PROVE  BridgeTyped'
<1>1. UNCHANGED <<eng, hist, kept, dur, lost>> /\ open' = TRUE /\ last' = 0
      /\ saved' = NoCursor /\ proj' = kept
      /\ queue' = <<>> /\ con' = NoEvent /\ sub' = StartSub
      /\ call' = [c \in Callers |-> IdleCall]
  BY DEF Started, engine
<1>2. Len(hist) \in 0..MaxEvents /\ MaxReconnect \in Nat
  BY HistoryTyped, BridgeConstants
<1>3. sub' \in SubSet /\ sub'.pc = "load" /\ sub'.pos = 0 /\ sub'.cursor = NoCursor
  BY <1>1, BridgeConstants DEF StartSub, SubSet, NoCursor
<1>4. call' \in [Callers -> CallSet] /\ \A c \in Callers : call'[c].pc # "emit"
  BY <1>1 DEF IdleCall, CallSet
<1>5. con' \in Attempts /\ con'.ev = <<>>
  BY <1>1, NoEventTyped
<1>6. Held' = <<>>
  BY StartedHeld
<1>7. TypeOK'
  <2>1. con' \in [ev : {<<>>} \cup {<<e>> : e \in EventSet}, tries : 0..(MaxTries - 1),
                  pc : {"try", "write"}, written : BOOLEAN]
    BY <1>5 DEF Attempts
  <2>2. queue' \in Seq(EventSet) /\ last' \in 0..Len(hist) /\ open' \in BOOLEAN
        /\ sub'.pos <= Len(hist) /\ saved' \in NoCursor..Len(hist)
    BY <1>1, <1>2, <1>3 DEF NoCursor
  <2> QED
    BY <1>1, <1>3, <1>4, <2>1, <2>2 DEF BridgeTyped, TypeOK
<1> QED
  BY <1>1, <1>2, <1>3, <1>4, <1>5, <1>6, <1>7 DEF BridgeTyped, NoCursor

LEMMA ProcessKeepsTypes ==
  ASSUME BridgeTyped, Crash \/ Shutdown \/ Drained
  PROVE  BridgeTyped'
<1>1. ASSUME Crash PROVE BridgeTyped'
  <2>1. faults' \in 0..MaxFaults
    BY <1>1, BridgeConstants DEF Crash, Fault, BridgeTyped, TypeOK
  <2> QED
    BY <1>1, <2>1, StartedTyped DEF Crash
<1>2. ASSUME Shutdown PROVE BridgeTyped'
  <2>1. UNCHANGED <<eng, hist, saved, proj, kept, dur, call, queue, con, last, lost>>
        /\ sub' = [sub EXCEPT !.pc = "stopped"] /\ open' = FALSE
    BY <1>2 DEF Shutdown, engine, store, history
  <2>2. sub' \in SubSet /\ sub'.pc = "stopped" /\ sub'.pos = sub.pos
        /\ sub'.cursor = sub.cursor
    BY <2>1, SubTyped DEF SubSet
  <2>3. faults' \in 0..MaxFaults
    BY <1>2, BridgeConstants DEF Shutdown, Fault, BridgeTyped, TypeOK
  <2>4. Held' = Held
    BY <2>1 DEF Held
  <2>5. TypeOK'
    BY <2>1, <2>2, <2>3 DEF BridgeTyped, TypeOK
  <2> QED
    BY <2>1, <2>2, <2>4, <2>5 DEF BridgeTyped
<1>3. ASSUME Drained PROVE BridgeTyped'
  BY <1>3, StartedTyped DEF Drained, BridgeTyped, TypeOK
<1> QED
  BY <1>1, <1>2, <1>3

LEMMA TypesInit == Init => BridgeTyped
<1> SUFFICES ASSUME Init PROVE BridgeTyped
  OBVIOUS
<1>1. hist = <<>> /\ Len(hist) = 0 /\ queue = <<>> /\ con = NoEvent /\ sub = StartSub
  BY DEF Init
<1>2. Held = <<>>
  BY <1>1 DEF Held, NoEvent
<1>3. sub \in SubSet /\ sub.pc = "load" /\ sub.pos = 0 /\ sub.cursor = NoCursor
  BY <1>1, BridgeConstants DEF StartSub, SubSet, NoCursor
<1>4. call \in [Callers -> CallSet] /\ \A c \in Callers : call[c].pc # "emit"
  BY DEF Init, IdleCall, CallSet
<1>5. eng \in [Execs -> EngineStates] /\ proj \in [Execs -> TaskStates]
  BY DEF Init, EngineStates, TaskStates
<1>6. con \in Attempts
  BY <1>1, NoEventTyped
<1>7. saved \in NoCursor..Len(hist) /\ faults \in 0..MaxFaults /\ last \in 0..Len(hist)
      /\ dur \in Seq(1..Len(hist)) /\ queue \in Seq(EventSet) /\ open \in BOOLEAN
      /\ kept = proj /\ lost = {}
  BY <1>1, BridgeConstants DEF Init, NoCursor
<1>8. hist \in History
  BY <1>1 DEF History
<1>9. TypeOK
  BY <1>1, <1>3, <1>4, <1>5, <1>6, <1>7, <1>8 DEF TypeOK, Attempts, History
<1> QED
  BY <1>1, <1>2, <1>3, <1>4, <1>6, <1>9, BridgeConstants DEF BridgeTyped, NoCursor

LEMMA TypesKept == BridgeTyped /\ [Next]_vars => BridgeTyped'
<1> SUFFICES ASSUME BridgeTyped, [Next]_vars PROVE BridgeTyped'
  OBVIOUS
<1>1. CASE UNCHANGED vars
  BY <1>1 DEF vars, engine, store, history, BridgeTyped, TypeOK, Held
<1>2. CASE Next
  BY <1>2, EngineKeepsTypes, ConsumerKeepsTypes, ServiceKeepsTypes, SubscriberKeepsTypes,
     ProcessKeepsTypes DEF Next
<1> QED
  BY <1>1, <1>2

LEMMA TypesInvariant == Spec => []BridgeTyped
BY TypesInit, TypesKept, PTL DEF Spec

\* The engine, the log, the workers and the requests are well formed whatever
\* fails and whenever the process stops; in particular the subscriber makes no
\* more attempts in a row than MAX_RECONNECT_ATTEMPTS and its cursors stay
\* inside the lease history.
THEOREM BridgeTypeCorrect == Spec => []TypeOK
<1>1. BridgeTyped => TypeOK
  BY DEF BridgeTyped
<1> QED
  BY <1>1, TypesInvariant, PTL

-----------------------------------------------------------------------------
(* What is held and what is settled, across a step.                        *)

QueueIsHeld == \A p : p \in InQueue <=> \E i \in 1..Len(Held) : Held[i].pos = p

LEMMA HeldPositionsNext ==
  BridgeTyped' => \A p : p \in InQueue' <=> \E i \in 1..Len(Held)' : Held'[i].pos = p
<1>1. BridgeTyped => QueueIsHeld
  BY HeldPositions DEF QueueIsHeld
<1>2. BridgeTyped' => QueueIsHeld'
  BY <1>1, PTL
<1> QED
  BY <1>2 DEF QueueIsHeld

LEMMA QueueKept ==
  ASSUME UNCHANGED <<queue, con>>
  PROVE  InQueue' = InQueue /\ Held' = Held
BY DEF InQueue, Held

LEMMA QueueAfterArrival ==
  ASSUME BridgeTyped, BridgeTyped', NEW ev, Arrives(ev)
  PROVE  InQueue \subseteq InQueue' /\ ev.pos \in InQueue'
<1>1. Len(Held) \in Nat
  BY HeldTyped
<1>2. ASSUME NEW p \in InQueue
      PROVE  p \in InQueue'
  <2>1. PICK i \in 1..Len(Held) : Held[i].pos = p
    BY HeldPositions
  <2>2. i \in 1..Len(Held)' /\ Held'[i].pos = p
    BY <1>1, <2>1 DEF Arrives
  <2> QED
    BY <2>2, HeldPositionsNext
<1>3. Len(Held) + 1 \in 1..Len(Held)' /\ Held'[Len(Held) + 1].pos = ev.pos
  BY <1>1 DEF Arrives
<1>4. ev.pos \in InQueue'
  BY <1>3, HeldPositionsNext
<1> QED
  BY <1>2, <1>4

LEMMA QueueAfterFirst ==
  ASSUME BridgeTyped, BridgeTyped', FirstLeaves
  PROVE  \A p \in InQueue : p = con.ev[1].pos \/ p \in InQueue'
<1> SUFFICES ASSUME NEW p \in InQueue, p # con.ev[1].pos
             PROVE  p \in InQueue'
  OBVIOUS
<1>1. PICK i \in 1..Len(Held) : Held[i].pos = p
  BY HeldPositions
<1>2. i # 1
  BY <1>1 DEF FirstLeaves
<1> DEFINE j == i - 1
<1>3. j \in 1..Len(Held)' /\ j + 1 = i
  BY <1>2, HeldTyped DEF FirstLeaves
<1>4. Held'[j].pos = p
  BY <1>1, <1>3 DEF FirstLeaves
<1> QED
  BY <1>3, <1>4, HeldPositionsNext

\* The lease history grows at its end, what is durable or lost remains so, and a
\* purged execution does not come back.
Continues ==
  /\ \A p \in 1..Len(hist) : p \in 1..Len(hist)' /\ hist'[p] = hist[p]
  /\ Range(dur) \subseteq Range(dur)' /\ lost \subseteq lost'
  /\ \A x \in Execs : eng[x] = "purged" => eng'[x] = "purged"

\* What a write adds to the durable log.
LEMMA WriteAdds ==
  ASSUME BridgeTyped, Write
  PROVE  /\ Range(dur) \subseteq Range(dur)'
         /\ con.ev[1].pos = 0 \/ con.ev[1].pos \in Range(dur)'
<1> DEFINE p == con.ev[1].pos
<1>1. dur' = IF p = 0 THEN dur ELSE Append(dur, p)
  BY DEF Write
<1>2. dur \in Seq(1..Len(hist)) /\ dur' \in Seq(1..Len(hist))
  BY WriteTyped DEF BridgeTyped, TypeOK
<1> HIDE DEF p
<1>3. CASE p = 0
  BY <1>1, <1>3 DEF p
<1>4. CASE p # 0
  <2>1. Len(dur)' = Len(dur) + 1 /\ Len(dur) \in Nat /\ dur'[Len(dur) + 1] = p
        /\ \A k \in 1..Len(dur) : dur'[k] = dur[k]
    BY <1>1, <1>2, <1>4
  <2>2. \A k \in 1..Len(dur) : k \in 1..Len(dur)' /\ dur'[k] = dur[k]
    BY <2>1
  <2>3. Len(dur) + 1 \in 1..Len(dur)'
    BY <2>1
  <2>4. Range(dur) = {dur[k] : k \in 1..Len(dur)} /\ Range(dur)' = {dur'[k] : k \in 1..Len(dur)'}
    BY <1>2 DEF Range
  <2> QED
    BY <2>1, <2>2, <2>3, <2>4 DEF p
<1> QED
  BY <1>3, <1>4

LEMMA ConsumerContinues == ASSUME BridgeTyped, Consumer PROVE Continues
<1>1. UNCHANGED <<eng, hist>>
  BY DEF Consumer, Receive, AppendEvent, Save, WriteFails, AnswerLost, WriteRefused, engine
<1>2. Range(dur) \subseteq Range(dur)'
  <2>1. CASE Write
    BY <2>1, WriteAdds
  <2>2. CASE UNCHANGED dur
    BY <2>2
  <2> QED
    BY <2>1, <2>2
       DEF Consumer, Receive, AppendEvent, Save, WriteFails, AnswerLost, WriteRefused, store
<1>3. lost \subseteq lost'
  <2>1. (\E written \in BOOLEAN : Retry(written)) \/ UNCHANGED lost
    BY DEF Consumer, Receive, AppendEvent, Save, WriteFails, AnswerLost, WriteRefused, history
  <2> QED
    BY <2>1 DEF Retry
<1> QED
  BY <1>1, <1>2, <1>3 DEF Continues

LEMMA StepContinues == ASSUME BridgeTyped, Next PROVE Continues
<1>1. ASSUME NEW x \in Execs, Purge(x) PROVE Continues
  BY <1>1 DEF Purge, Continues, store, history, EngineTerminal, BridgeTyped, TypeOK
<1>2. ASSUME NEW x \in Execs, NEW m \in LeaseMoves, LeaseEvent(x, m) PROVE Continues
  <2>1. \A p \in 1..Len(hist) : p \in 1..Len(hist)' /\ hist'[p] = hist[p]
    <3> DEFINE e == [kind |-> m[1], exec |-> x]
    <3>1. hist' = Append(hist, e)
      BY <1>2 DEF LeaseEvent
    <3>2. hist \in Seq({hist[p] : p \in 1..Len(hist)} \cup {e})
      BY HistoryTyped DEF History
    <3> HIDE DEF e
    <3> QED
      BY <3>1, <3>2
  <2>2. m[2] # "purged"
    BY DEF LeaseMoves
  <2>3. \A y \in Execs : eng[y] = "purged" => eng'[y] = "purged"
    BY <1>2, <2>2 DEF LeaseEvent, BridgeTyped, TypeOK
  <2> QED
    BY <1>2, <2>1, <2>3 DEF LeaseEvent, Continues, store, history
<1>3. CASE Consumer
  BY <1>3, ConsumerContinues
<1>4. ASSUME NEW c \in Callers, Service(c) PROVE Continues
  <2>1. ASSUME NEW op \in Ops, NEW x \in Execs, CallEngine(c, op, x) PROVE Continues
    <3>1. eng[x] # "purged"
      BY <2>1 DEF CallEngine, Accepted
    <3>2. \A y \in Execs : y # x => eng'[y] = eng[y]
      BY <2>1 DEF CallEngine, BridgeTyped, TypeOK
    <3> QED
      BY <2>1, <3>1, <3>2 DEF CallEngine, store, history, Continues
  <2>2. ASSUME ReadRecord(c) \/ ReadRecordFails(c) \/ EmitFromService(c) PROVE Continues
    BY <2>2
       DEF ReadRecord, ReadRecordFails, EmitFromService, engine, store, history, Continues
  <2> QED
    BY <1>4, <2>1, <2>2 DEF Service
<1>5. CASE Subscriber
  BY <1>5 DEF Subscriber, LoadCursor, Subscribe, StreamFails, NextEvent, HandleEvent,
     DescribeFails, EmitFromSubscriber, PersistCursor, engine, store, history, Continues
<1>6. CASE Crash \/ Shutdown \/ Drained
  BY <1>6 DEF Crash, Shutdown, Drained, Started, engine, store, history, Continues
<1> QED
  BY <1>1, <1>2, <1>3, <1>4, <1>5, <1>6 DEF Next, EngineStep

LEMMA SettledStays ==
  ASSUME BridgeTyped, Continues, NEW p \in 1..Len(hist), Settled(p)
  PROVE  Settled(p)'
BY HistoryTyped DEF Continues, Settled, Dispatched

\* An event is in hand as written only after the durable log took it.
LEMMA WrittenKept ==
  ASSUME BridgeTyped, BridgeTyped', WrittenIsDurable, [Next]_vars
  PROVE  WrittenIsDurable'
<1>1. ASSUME con'.ev = con.ev, con'.written = con.written, Range(dur) \subseteq Range(dur)'
      PROVE  WrittenIsDurable'
  BY <1>1 DEF WrittenIsDurable
<1>2. ASSUME ~con'.written
      PROVE  WrittenIsDurable'
  BY <1>2 DEF WrittenIsDurable
<1>3. CASE UNCHANGED vars
  BY <1>1, <1>3 DEF vars, store
<1>4. CASE Next /\ UNCHANGED con
  BY <1>1, <1>4, StepContinues DEF Continues
<1>5. CASE con' = NoEvent
  BY <1>2, <1>5 DEF NoEvent
<1>6. CASE Receive
  BY <1>2, <1>6 DEF Receive, NoEvent
<1>7. CASE AppendEvent
  <2>1. con'.ev = con.ev /\ con'.written = con.written /\ UNCHANGED dur
    BY <1>7 DEF AppendEvent, BridgeTyped, Attempts
  <2> QED
    BY <1>1, <2>1
<1>8. CASE WriteFails
  <2>1. con.pc = "write" /\ Retry(FALSE) /\ UNCHANGED queue
    BY <1>8 DEF WriteFails
  <2> QED
    BY <1>2, <1>5, <2>1, RetryTyped, ConTyped
<1>9. CASE AnswerLost
  <2>1. Write /\ Retry(TRUE) /\ UNCHANGED queue
    BY <1>9 DEF AnswerLost
  <2>2. con' = NoEvent \/ con'.ev = con.ev
    BY <2>1, RetryTyped, WriteTyped
  <2>3. \A i \in 1..Len(con.ev) : con.ev[i].pos = 0 \/ con.ev[i].pos \in Range(dur)'
    <3>1. Len(con.ev) = 1
      BY <2>1, WriteTyped, InHandTyped
    <3>2. \A i \in 1..Len(con.ev) : i = 1
      BY <3>1
    <3> QED
      BY <2>1, <3>2, WriteAdds
  <2> QED
    BY <1>5, <2>2, <2>3 DEF WrittenIsDurable
<1>10. CASE WriteRefused
  <2>1. con.pc = "write" /\ con.written /\ Retry(TRUE) /\ UNCHANGED <<queue, dur>>
    BY <1>10 DEF WriteRefused, store
  <2>2. con' = NoEvent \/ (con'.ev = con.ev /\ con'.written = con.written)
    BY <2>1, RetryTyped, ConTyped
  <2> QED
    BY <1>1, <1>5, <2>1, <2>2
<1>11. Next => \/ UNCHANGED con \/ con' = NoEvent
              \/ Receive \/ AppendEvent \/ WriteFails \/ AnswerLost \/ WriteRefused
  BY DEF Next, EngineStep, Purge, LeaseEvent, Consumer, Save, Service, CallEngine, ReadRecord,
     ReadRecordFails, EmitFromService, Subscriber, LoadCursor, Subscribe, StreamFails,
     NextEvent, HandleEvent, DescribeFails, EmitFromSubscriber, PersistCursor, Crash,
     Shutdown, Drained, Started
<1> QED
  BY <1>3, <1>4, <1>5, <1>6, <1>7, <1>8, <1>9, <1>10, <1>11

LEMMA WrittenInit == Init => WrittenIsDurable
BY DEF Init, WrittenIsDurable, NoEvent

LEMMA WrittenInvariant == Spec => []WrittenIsDurable
<1>1. WrittenIsDurable /\ BridgeTyped /\ BridgeTyped' /\ [Next]_vars => WrittenIsDurable'
  BY WrittenKept
<1> QED
  BY <1>1, WrittenInit, TypesInvariant, PTL DEF Spec

-----------------------------------------------------------------------------
(* The cursor.                                                             *)

\* What a step has to show: what it takes out of the queue is settled, and what
\* it passes it has accounted for.
LEMMA PassedKept ==
  ASSUME BridgeTyped, BridgeTyped', PassedAccounted, Next,
         \A p \in 1..Len(hist) : p \in InQueue => Settled(p)' \/ p \in InQueue',
         \A p \in 1..Len(hist)' : p <= saved' \/ Passed(p)' =>
           \/ p \in 1..Len(hist) /\ (p <= saved \/ Passed(p))
           \/ Settled(p)' \/ p \in InQueue'
  PROVE  PassedAccounted'
<1> SUFFICES ASSUME NEW p \in 1..Len(hist)', p <= saved' \/ Passed(p)'
             PROVE  Settled(p)' \/ p \in InQueue'
  BY DEF PassedAccounted, Accounted
<1>1. CASE Settled(p)' \/ p \in InQueue'
  BY <1>1
<1>2. CASE p \in 1..Len(hist) /\ (p <= saved \/ Passed(p))
  <2>1. Settled(p) \/ p \in InQueue
    BY <1>2 DEF PassedAccounted, Accounted
  <2> QED
    BY <1>2, <2>1, StepContinues, SettledStays
<1> QED
  BY <1>1, <1>2

\* ... when the cursors and the queue stay.
LEMMA PassedUnmoved ==
  ASSUME BridgeTyped, BridgeTyped', PassedAccounted, Next, UNCHANGED <<saved, sub>>,
         \A p \in 1..Len(hist) : p \in InQueue => Settled(p)' \/ p \in InQueue'
  PROVE  PassedAccounted'
<1>1. \A p \in 1..Len(hist)' : p <= saved' \/ Passed(p)' =>
        p \in 1..Len(hist) /\ (p <= saved \/ Passed(p))
  <2> SUFFICES ASSUME NEW p \in 1..Len(hist)', p <= saved' \/ Passed(p)'
               PROVE  p \in 1..Len(hist) /\ (p <= saved \/ Passed(p))
    OBVIOUS
  <2>1. p <= saved \/ Passed(p)
    BY DEF Passed
  <2>2. saved \in NoCursor..Len(hist) /\ sub.cursor \in NoCursor..Len(hist)
        /\ sub.pos \in 0..Len(hist) /\ Len(hist) \in Nat
    <3>1. saved \in NoCursor..Len(hist)
      BY DEF BridgeTyped, TypeOK
    <3> QED
      BY <3>1, SubTyped, HistoryTyped
  <2>3. p \in Nat /\ p >= 1
    <3>1. Len(hist)' \in Nat
      BY DEF BridgeTyped, TypeOK
    <3> QED
      BY <3>1
  <2>4. p <= Len(hist)
    BY <2>1, <2>2, <2>3 DEF Passed, NoCursor
  <2> QED
    BY <2>1, <2>2, <2>3, <2>4
<1> QED
  BY <1>1, PassedKept

LEMMA SubscriberAccounts ==
  ASSUME "tags" \notin Env, BridgeTyped, BridgeTyped', PassedAccounted, Subscriber
  PROVE  PassedAccounted'
<1>1. Next /\ UNCHANGED hist
  BY DEF Next, Subscriber, LoadCursor, Subscribe, StreamFails, NextEvent, HandleEvent,
     DescribeFails, EmitFromSubscriber, PersistCursor, engine
<1>2. /\ saved \in Int /\ sub.cursor \in Int /\ sub.pos \in Nat
      /\ sub.cursor <= Len(hist) /\ Len(hist) \in Nat /\ sub.pos <= Len(hist)
      /\ sub \in SubSet
  <2>1. saved \in NoCursor..Len(hist)
    BY DEF BridgeTyped, TypeOK
  <2>2. saved \in Int /\ sub.cursor <= Len(hist) /\ sub.pos <= Len(hist)
    BY <2>1, SubTyped, HistoryTyped DEF NoCursor
  <2>3. sub.cursor \in Int /\ sub.pos \in Nat /\ sub \in SubSet
    BY SubTyped
  <2>4. Len(hist) \in Nat
    BY HistoryTyped
  <2> QED
    BY <2>2, <2>3, <2>4
<1>3. ASSUME UNCHANGED <<queue, con>>,
             \A p \in 1..Len(hist) : p <= saved' \/ Passed(p)' =>
               p <= saved \/ Passed(p) \/ Settled(p)' \/ p \in InQueue'
      PROVE  PassedAccounted'
  BY <1>1, <1>3, QueueKept, PassedKept
<1>4. CASE LoadCursor
  <2>1. UNCHANGED <<queue, con, saved>> /\ sub'.pc = "subscribe" /\ sub.pc = "load"
        /\ sub'.cursor \in {sub.cursor, saved}
    BY <1>2, <1>4 DEF LoadCursor, store, SubSet
  <2> QED
    BY <1>2, <1>3, <2>1 DEF Passed
<1>5. CASE Subscribe
  <2>1. UNCHANGED <<queue, con, saved, dur>> /\ sub'.pc = "next"
        /\ sub'.cursor = sub.cursor /\ lost' = lost \cup Skipped
        /\ sub'.pos = IF sub.cursor = NoCursor THEN Len(hist) ELSE sub.cursor
    BY <1>2, <1>5 DEF Subscribe, store, SubSet
  <2>2. CASE sub.cursor # NoCursor
    BY <1>2, <1>3, <2>1, <2>2 DEF Passed
  <2>3. CASE sub.cursor = NoCursor
    <3> SUFFICES ASSUME NEW p \in 1..Len(hist)
                 PROVE  Settled(p)' \/ p \in InQueue'
      BY <1>3, <2>1
    <3>1. CASE p \in Range(dur)
      BY <2>1, <3>1 DEF Settled
    <3>2. CASE p \in InQueue
      BY <2>1, <3>2, QueueKept
    <3>3. CASE p \in {l[1] : l \in lost}
      <4>1. PICK l \in lost : p = l[1]
        BY <3>3
      <4>2. l \in (1..Len(hist)) \X Losses
        BY DEF BridgeTyped, TypeOK
      <4>3. <<p, l[2]>> \in lost' /\ l[2] \in Losses
        BY <2>1, <4>1, <4>2
      <4> QED
        BY <4>3 DEF Settled
    <3>4. CASE p \notin Range(dur) \cup InQueue \cup {l[1] : l \in lost}
      <4> DEFINE why == IF sub.first THEN "tail" ELSE "reopened"
      <4>1. <<p, why>> \in Skipped /\ why \in Losses
        BY <2>3, <3>4 DEF Skipped, Losses
      <4> HIDE DEF why
      <4>2. <<p, why>> \in lost'
        BY <2>1, <4>1
      <4> QED
        BY <4>1, <4>2 DEF Settled
    <3> QED
      BY <3>1, <3>2, <3>3, <3>4
  <2> QED
    BY <2>2, <2>3
<1>6. CASE StreamFails
  <2>1. UNCHANGED <<queue, con, saved>> /\ sub.pc \in {"subscribe", "next"}
    BY <1>6 DEF StreamFails, store
  <2>2. \/ sub.pc = "next" /\ Backoff(sub.pos)
        \/ Backoff(sub.cursor)
        \/ sub' = [sub EXCEPT !.pc = "stopped"]
    BY <1>6, <2>1 DEF StreamFails
  <2>3. /\ sub'.pc \in {"subscribe", "stopped"}
        /\ sub'.cursor # sub.cursor => sub.pc = "next" /\ sub'.cursor = sub.pos
    <3>1. ASSUME NEW cursor \in Int, Backoff(cursor)
          PROVE  sub'.pc \in {"subscribe", "stopped"} /\ sub'.cursor = cursor
      BY <1>2, <3>1 DEF Backoff, SubSet
    <3>2. CASE sub' = [sub EXCEPT !.pc = "stopped"]
      BY <1>2, <3>2 DEF SubSet
    <3> QED
      BY <1>2, <2>2, <3>1, <3>2
  <2> QED
    BY <1>2, <1>3, <2>1, <2>3 DEF Passed
<1>7. CASE NextEvent
  <2>1. UNCHANGED <<queue, con, saved>> /\ sub.pc = "next" /\ sub'.pc = "handle"
        /\ sub'.pos = sub.pos + 1 /\ sub'.cursor = sub.cursor
    BY <1>2, <1>7 DEF NextEvent, store, SubSet
  <2> QED
    BY <1>2, <1>3, <2>1 DEF Passed
<1>8. CASE HandleEvent
  <2>1. UNCHANGED <<queue, con, saved, eng>> /\ sub.pc = "handle"
        /\ sub'.pos = sub.pos /\ sub'.cursor = sub.cursor /\ sub.pos \in 1..Len(hist)
    BY <1>2, <1>8 DEF HandleEvent, store, engine, SubSet, BridgeTyped
  <2>2. \/ sub'.pc = "emit"
        \/ sub'.pc = "persist" /\ (~Dispatched(hist[sub.pos]) \/ eng[hist[sub.pos].exec] = "purged")
    BY <1>2, <1>8 DEF HandleEvent, TagsRead, SubSet
  <2>3. sub'.pc = "persist" => Settled(sub.pos)'
    BY <1>1, <2>1, <2>2 DEF Settled, Dispatched
  <2>4. \A p \in 1..Len(hist) : Passed(p)' => Passed(p) \/ (sub'.pc = "persist" /\ p = sub.pos)
    BY <1>2, <2>1, <2>2 DEF Passed
  <2> QED
    BY <1>3, <2>1, <2>3, <2>4
<1>9. CASE DescribeFails
  <2>1. UNCHANGED <<queue, con, saved>> /\ Backoff(sub.cursor)
    BY <1>9 DEF DescribeFails, store
  <2>2. sub'.pc \in {"subscribe", "stopped"} /\ sub'.cursor = sub.cursor
    BY <1>2, <2>1 DEF Backoff, SubSet
  <2> QED
    BY <1>2, <1>3, <2>1, <2>2 DEF Passed
<1>10. CASE EmitFromSubscriber
  <2>1. UNCHANGED <<con, saved>> /\ sub.pc = "emit" /\ sub'.pc = "persist"
        /\ sub'.pos = sub.pos /\ sub'.cursor = sub.cursor /\ sub.pos \in 1..Len(hist)
        /\ Send(LeaseReport(sub.pos))
    BY <1>2, <1>10 DEF EmitFromSubscriber, store, SubSet, BridgeTyped
  <2>2. InQueue \subseteq InQueue' /\ sub.pos \in InQueue'
    BY <2>1, LeaseReportTyped, SentHeld, QueueAfterArrival
  <2>3. \A p \in 1..Len(hist) : Passed(p)' => Passed(p) \/ p = sub.pos
    BY <1>2, <2>1 DEF Passed
  <2> QED
    BY <1>1, <2>1, <2>2, <2>3, PassedKept
<1>11. CASE PersistCursor
  <2>1. UNCHANGED <<queue, con>> /\ sub.pc = "persist" /\ sub'.pc = "next"
        /\ sub'.pos = sub.pos /\ sub'.cursor = sub.pos /\ saved' \in {saved, sub.pos}
    BY <1>2, <1>11 DEF PersistCursor, SubSet
  <2> QED
    BY <1>2, <1>3, <2>1 DEF Passed
<1> QED
  BY <1>4, <1>5, <1>6, <1>7, <1>8, <1>9, <1>10, <1>11 DEF Subscriber

\* What a failed attempt gives up is durable or lost.
LEMMA RetryAccounts ==
  ASSUME BridgeTyped, BridgeTyped', con # NoEvent, NEW written \in BOOLEAN, Retry(written),
         UNCHANGED queue, NEW p \in 1..Len(hist), p \in InQueue,
         written /\ p = con.ev[1].pos => p \in Range(dur)'
  PROVE  Settled(p)' \/ p \in InQueue'
<1>1. CASE con'.ev = con.ev
  <2>1. Held' = Held
    BY <1>1, InHandKept
  <2> QED
    BY <2>1, HeldPositions, HeldPositionsNext
<1>2. CASE con'.ev # con.ev
  <2>1. FirstLeaves
        /\ (written \/ lost' = lost \cup (({con.ev[1].pos} \ {0}) \X {"dropped"}))
    BY <1>2, RetryTyped
  <2>2. p \in InQueue' \/ p = con.ev[1].pos
    BY <2>1, QueueAfterFirst
  <2>3. CASE p = con.ev[1].pos
    <3>1. p # 0
      BY HistoryTyped
    <3>2. p \in Range(dur)' \/ <<p, "dropped">> \in lost'
      BY <2>1, <2>3, <3>1
    <3> QED
      BY <3>2 DEF Settled, Losses
  <2> QED
    BY <2>2, <2>3
<1> QED
  BY <1>1, <1>2

LEMMA ConsumerAccounts ==
  ASSUME BridgeTyped, BridgeTyped', WrittenIsDurable, PassedAccounted, Consumer
  PROVE  PassedAccounted'
<1>1. Next /\ UNCHANGED <<saved, sub>>
  BY DEF Next, Consumer, Receive, AppendEvent, Save, WriteFails, AnswerLost, WriteRefused, store
<1>2. ASSUME NEW p \in 1..Len(hist), p \in InQueue
      PROVE  Settled(p)' \/ p \in InQueue'
  <2>1. p # 0
    BY HistoryTyped
  <2>2. CASE Receive \/ AppendEvent
    <3>1. Held' = Held
      <4>1. CASE AppendEvent
        <5>1. con'.ev = con.ev /\ UNCHANGED queue
          BY <4>1 DEF AppendEvent, BridgeTyped, Attempts
        <5> QED
          BY <5>1, InHandKept
      <4> QED
        BY <2>2, <4>1, ReceiveHeld
    <3> QED
      BY <1>2, <3>1, HeldPositions, HeldPositionsNext
  <2>3. CASE Save
    <3>1. FirstLeaves /\ Write
      BY <2>3, WriteTyped, ConsumedHeld DEF Save
    <3>2. p \in InQueue' \/ p \in Range(dur)'
      BY <1>2, <2>1, <3>1, QueueAfterFirst, WriteAdds
    <3> QED
      BY <3>2 DEF Settled
  <2>4. CASE WriteFails
    BY <1>2, <2>4, RetryAccounts, ConTyped DEF WriteFails
  <2>5. CASE AnswerLost
    <3>1. Write /\ Retry(TRUE) /\ UNCHANGED queue
      BY <2>5 DEF AnswerLost
    <3>2. p = con.ev[1].pos => p \in Range(dur)'
      BY <2>1, <3>1, WriteAdds
    <3> QED
      BY <1>2, <3>1, <3>2, RetryAccounts, WriteTyped
  <2>6. CASE WriteRefused
    <3>1. con # NoEvent /\ con.written /\ Retry(TRUE) /\ UNCHANGED <<queue, dur>>
      BY <2>6, ConTyped DEF WriteRefused, store
    <3>2. 1 \in 1..Len(con.ev)
      BY <3>1, InHandTyped
    <3>3. p = con.ev[1].pos => p \in Range(dur)'
      BY <2>1, <3>1, <3>2 DEF WrittenIsDurable
    <3> QED
      BY <1>2, <3>1, <3>3, RetryAccounts
  <2> QED
    BY <2>2, <2>3, <2>4, <2>5, <2>6 DEF Consumer
<1> QED
  BY <1>1, <1>2, PassedUnmoved

\* A new process has passed nothing: its cursor is gone.
LEMMA ProcessAccounts ==
  ASSUME BridgeTyped, BridgeTyped', PassedAccounted, Crash \/ Shutdown \/ Drained
  PROVE  PassedAccounted'
<1>1. CASE Started
  <2>1. sub' = StartSub /\ saved' = NoCursor /\ UNCHANGED hist
    BY <1>1 DEF Started, engine
  <2> QED
    BY <2>1, HistoryTyped DEF PassedAccounted, Passed, StartSub, NoCursor
<1>2. CASE Shutdown
  <2>1. Next /\ UNCHANGED <<hist, saved>> /\ saved \in Int /\ Len(hist) \in Nat
    BY <1>2, HistoryTyped DEF Next, Shutdown, engine, store, BridgeTyped, TypeOK, NoCursor
  <2>2. UNCHANGED <<queue, con>> /\ sub'.pc = "stopped" /\ sub'.cursor = sub.cursor
    BY <1>2, SubTyped DEF Shutdown, SubSet
  <2> QED
    BY <2>1, <2>2, QueueKept, PassedKept DEF Passed
<1> QED
  BY <1>1, <1>2 DEF Crash, Drained

LEMMA PassedKeeps ==
  ASSUME "tags" \notin Env, BridgeTyped, BridgeTyped', WrittenIsDurable, PassedAccounted,
         [Next]_vars
  PROVE  PassedAccounted'
<1>1. CASE UNCHANGED vars
  BY <1>1 DEF vars, engine, store, history, PassedAccounted, Accounted, Settled, Dispatched,
     Passed, InQueue
<1>2. CASE EngineStep
  <2>1. Next /\ UNCHANGED <<saved, sub, queue, con>>
    BY <1>2 DEF Next, EngineStep, Purge, LeaseEvent, store
  <2> QED
    BY <2>1, QueueKept, PassedUnmoved
<1>3. ASSUME NEW c \in Callers, Service(c) PROVE PassedAccounted'
  <2>1. Next /\ UNCHANGED <<saved, sub>>
    BY <1>3 DEF Next, Service, CallEngine, ReadRecord, ReadRecordFails, EmitFromService, store
  <2>2. InQueue \subseteq InQueue'
    <3>1. CASE UNCHANGED <<queue, con>>
      BY <3>1, QueueKept
    <3>2. CASE EmitFromService(c) /\ open
      <4>1. call[c].ev \in EventSet /\ Send(call[c].ev) /\ UNCHANGED con
        BY <3>2, CallTyped DEF EmitFromService
      <4> QED
        BY <4>1, SentHeld, QueueAfterArrival
    <3> QED
      BY <1>3, <3>1, <3>2 DEF Service, CallEngine, ReadRecord, ReadRecordFails,
         EmitFromService
  <2> QED
    BY <2>1, <2>2, PassedUnmoved
<1> QED
  BY <1>1, <1>2, <1>3, ConsumerAccounts, SubscriberAccounts, ProcessAccounts DEF Next

LEMMA PassedInit == Init => PassedAccounted
<1> SUFFICES ASSUME Init PROVE PassedAccounted
  OBVIOUS
<1>1. hist = <<>>
  BY DEF Init
<1> QED
  BY <1>1 DEF PassedAccounted

\* As long as describe_execution reads the tags of an execution whenever there
\* is one, the cursor of a process, in the worker or in the store's map, never
\* passes a lease event that was not handed to the bridge: what is before it is
\* in the durable log, in the bridge's hands, not reported, or lost in a way the
\* code allows for, whatever the stream, the cursor store and failing or
\* repeated appends do.  (The cursor dies with the process, and what a restart
\* leaves behind the tail of the history is one of those losses.)
THEOREM CursorNeverSkips ==
  ASSUME "tags" \notin Env
  PROVE  Spec => []CursorPassesNothing
<1>1. PassedAccounted /\ WrittenIsDurable /\ BridgeTyped /\ BridgeTyped' /\ [Next]_vars
        => PassedAccounted'
  BY PassedKeeps
<1>2. PassedAccounted => CursorPassesNothing
  BY DEF PassedAccounted, Passed, Accounted, CursorPassesNothing
<1> QED
  BY <1>1, <1>2, PassedInit, WrittenInvariant, TypesInvariant, PTL DEF Spec

-----------------------------------------------------------------------------
(* The order of the events.                                                *)

LEMMA LastTyped ==
  ASSUME BridgeTyped
  PROVE  /\ last \in 0..Len(hist) /\ last \in Nat
         /\ dur \in Seq(1..Len(hist)) /\ Len(dur) \in Nat
         /\ \A k \in 1..Len(dur) : dur[k] \in 1..Len(hist) /\ dur[k] \in Nat
<1>1. dur \in Seq(1..Len(hist)) /\ Len(hist) \in Nat /\ last \in 0..Len(hist)
  BY HistoryTyped DEF BridgeTyped, TypeOK
<1>2. Len(dur) \in Nat /\ \A k \in 1..Len(dur) : dur[k] \in 1..Len(hist)
  BY <1>1
<1> QED
  BY <1>1, <1>2

\* What was emitted is in the history.
LEMMA EmittedInHistory == ASSUME BridgeTyped PROVE UpTo(Len(hist)) /\ Emitted \in Int
<1>1. UpTo(Len(hist))
  BY LastTyped, HistoryTyped DEF UpTo, BridgeTyped
<1> QED
  BY <1>1, SubTyped, HistoryTyped DEF Emitted

LEMMA UpToMore ==
  ASSUME BridgeTyped, NEW m \in Int, NEW n \in Int, m <= n, UpTo(m)
  PROVE  UpTo(n)
<1>1. last \in Int /\ last <= n
  BY LastTyped DEF UpTo
<1>2. ASSUME NEW k \in 1..Len(dur) PROVE dur[k] <= n
  <2>1. dur[k] \in Int /\ dur[k] <= m
    BY LastTyped DEF UpTo
  <2> QED
    BY <2>1
<1>3. ASSUME NEW i \in 1..Len(Held) PROVE Held[i].pos <= n
  <2>1. Held[i].pos \in Int /\ Held[i].pos <= m
    BY HeldTyped DEF UpTo
  <2> QED
    BY <2>1
<1> QED
  BY <1>1, <1>2, <1>3 DEF UpTo

\* A step that leaves the events, the memory and the durable log alone.
LEMMA IncreasingKept ==
  ASSUME BridgeTyped, Increasing, UNCHANGED <<Held, con, last, dur>>
  PROVE  Increasing' /\ \A n : UpTo(n) => UpTo(n)'
BY DEF Increasing, UpTo

\* What the durable log is after a write: its order is kept, and it is still
\* behind all that is held but the event in hand.
LEMMA WriteInOrder ==
  ASSUME BridgeTyped, Increasing, Write
  PROVE  /\ \A i, j \in 1..Len(dur)' : i < j => dur'[i] < dur'[j]
         /\ \A k \in 1..Len(dur)', j \in 1..Len(Held) :
              j > 1 /\ Held[j].pos # 0 => dur'[k] < Held[j].pos
         /\ \A n : UpTo(n) => \A k \in 1..Len(dur)' : dur'[k] <= n
<1> DEFINE p == con.ev[1].pos
<1>1. dur' = IF p = 0 THEN dur ELSE Append(dur, p)
  BY DEF Write
<1>2. /\ Len(con.ev) = 1 /\ 1 \in 1..Len(Held) /\ Held[1].pos = p /\ ~con.written
      /\ p \in 0..Len(hist)
  BY WriteTyped, InHandTyped DEF Write
<1>3. Len(dur) \in Nat /\ Len(Held) \in Nat /\ dur \in Seq(1..Len(hist))
      /\ \A k \in 1..Len(dur) : dur[k] \in Nat
  BY LastTyped, HeldTyped
<1> HIDE DEF p
<1>4. \A k \in 1..Len(dur), j \in 1..Len(Held) : Held[j].pos # 0 => dur[k] < Held[j].pos
  BY <1>2 DEF Increasing
<1>5. CASE p = 0
  BY <1>1, <1>4, <1>5 DEF Increasing, UpTo
<1>6. CASE p # 0
  <2>1. p \in 1..Len(hist) /\ p \in Nat
    BY <1>2, <1>6, HistoryTyped
  <2>2. Len(dur)' = Len(dur) + 1 /\ dur'[Len(dur) + 1] = p
        /\ \A k \in 1..Len(dur) : dur'[k] = dur[k]
    BY <1>1, <1>3, <1>6, <2>1
  <2>3. \A k \in 1..Len(dur)' :
          \/ k \in 1..Len(dur) /\ dur'[k] = dur[k]
          \/ k = Len(dur) + 1 /\ dur'[k] = p
    BY <1>3, <2>2
  <2>4. \A k \in 1..Len(dur) : dur[k] < p
    BY <1>2, <1>4, <1>6
  <2>5. \A j \in 1..Len(Held) : j > 1 /\ Held[j].pos # 0 => p < Held[j].pos
    BY <1>2, <1>3 DEF Increasing
  <2>6. ASSUME NEW i \in 1..Len(dur)', NEW j \in 1..Len(dur)', i < j
        PROVE  dur'[i] < dur'[j]
    <3>1. i \in 1..Len(dur) /\ dur'[i] = dur[i]
      BY <1>3, <2>2, <2>3, <2>6
    <3>2. CASE j \in 1..Len(dur) /\ dur'[j] = dur[j]
      BY <2>6, <3>1, <3>2 DEF Increasing
    <3>3. CASE dur'[j] = p
      BY <2>4, <3>1, <3>3
    <3> QED
      BY <2>3, <3>2, <3>3
  <2>7. ASSUME NEW k \in 1..Len(dur)', NEW j \in 1..Len(Held), j > 1, Held[j].pos # 0
        PROVE  dur'[k] < Held[j].pos
    BY <1>4, <2>3, <2>5, <2>7
  <2>8. ASSUME NEW n, UpTo(n), NEW k \in 1..Len(dur)'
        PROVE  dur'[k] <= n
    BY <1>2, <2>3, <2>8 DEF UpTo
  <2> QED
    BY <2>6, <2>7, <2>8
<1> QED
  BY <1>5, <1>6

\* The durable log after a step of the consumer, kept or written.
DurableNext ==
  /\ \A i, j \in 1..Len(dur)' : i < j => dur'[i] < dur'[j]
  /\ \A k \in 1..Len(dur)', j \in 1..Len(Held) :
       j > 1 /\ Held[j].pos # 0 => dur'[k] < Held[j].pos
  /\ \A n : UpTo(n) => \A k \in 1..Len(dur)' : dur'[k] <= n

LEMMA DurableKept ==
  ASSUME BridgeTyped, Increasing, con # NoEvent, UNCHANGED dur
  PROVE  DurableNext
<1>1. Len(con.ev) = 1
  BY InHandTyped
<1> QED
  BY <1>1 DEF DurableNext, Increasing, UpTo

LEMMA DurableWritten ==
  ASSUME BridgeTyped, Increasing, Write
  PROVE  DurableNext
BY WriteInOrder DEF DurableNext

\* The consumer keeps the event in hand ...
LEMMA IncreasingInHand ==
  ASSUME BridgeTyped, Increasing, con # NoEvent, con'.ev = con.ev, UNCHANGED <<queue, last>>,
         DurableNext, con'.written \/ (~con.written /\ UNCHANGED dur)
  PROVE  Increasing' /\ \A n : UpTo(n) => UpTo(n)'
<1>1. Held' = Held /\ Len(con.ev) = 1
  BY InHandKept, InHandTyped
<1>2. \A n : UpTo(n) => UpTo(n)'
  BY <1>1 DEF UpTo, DurableNext
<1>3. ASSUME NEW j \in 1..Len(Held), Held[j].pos # 0,
             j > Len(con.ev) \/ ~con'.written, NEW k \in 1..Len(dur)'
      PROVE  dur'[k] < Held[j].pos
  <2>1. CASE j > 1
    BY <1>3, <2>1 DEF DurableNext
  <2>2. CASE ~con'.written
    BY <1>3, <2>2 DEF Increasing
  <2> QED
    BY <1>1, <1>3, <2>1, <2>2
<1>4. Increasing'
  BY <1>1, <1>3 DEF Increasing, DurableNext
<1> QED
  BY <1>2, <1>4

\* ... or is done with it ...
LEMMA IncreasingAfterFirst ==
  ASSUME BridgeTyped, Increasing, con # NoEvent, con' = NoEvent, UNCHANGED <<queue, last>>,
         DurableNext
  PROVE  Increasing' /\ \A n : UpTo(n) => UpTo(n)'
<1>1. Len(Held) \in Nat /\ 1 \in 1..Len(Held) /\ last \in Nat
      /\ FirstLeaves /\ Len(con.ev) = 1
      /\ \A i \in 1..Len(Held) : Held[i].pos \in Nat
  BY HeldTyped, LastTyped, ConsumedHeld, InHandTyped
<1>2. \A i \in 1..Len(Held)' : /\ i + 1 \in 1..Len(Held) /\ Held'[i] = Held[i + 1]
                                /\ i + 1 > 1 /\ i \in Nat
  BY <1>1 DEF FirstLeaves
<1>3. ASSUME NEW j \in 1..Len(Held)', Held'[j].pos # 0
      PROVE  /\ last' <= Held'[j].pos /\ last' < Held'[j].pos
             /\ \A k \in 1..Len(dur)' : dur'[k] < Held'[j].pos
  <2>1. j + 1 \in 1..Len(Held) /\ Held'[j] = Held[j + 1] /\ j + 1 > 1
    BY <1>2
  <2>2. last < Held[j + 1].pos
    BY <1>1, <1>3, <2>1 DEF Increasing
  <2>3. \A k \in 1..Len(dur)' : dur'[k] < Held[j + 1].pos
    BY <1>3, <2>1 DEF DurableNext
  <2> QED
    BY <1>1, <2>1, <2>2, <2>3
<1>4. ASSUME NEW i \in 1..Len(Held)', NEW j \in 1..Len(Held)', i < j, Held'[j].pos # 0
      PROVE  Held'[i].pos < Held'[j].pos
  <2>1. /\ i + 1 \in 1..Len(Held) /\ j + 1 \in 1..Len(Held) /\ i + 1 < j + 1
        /\ Held'[i] = Held[i + 1] /\ Held'[j] = Held[j + 1]
    BY <1>2, <1>4
  <2> QED
    BY <1>4, <2>1 DEF Increasing
<1>5. Increasing'
  BY <1>3, <1>4 DEF Increasing, DurableNext
<1>6. ASSUME NEW n, UpTo(n) PROVE UpTo(n)'
  BY <1>1, <1>2, <1>6 DEF UpTo, DurableNext
<1> QED
  BY <1>5, <1>6

\* ... or has one more attempt at it in memory ...
LEMMA IncreasingApplied ==
  ASSUME BridgeTyped, Increasing, AppendEvent
  PROVE  Increasing' /\ \A n : UpTo(n) => UpTo(n)'
<1>1. con # NoEvent /\ con' = [con EXCEPT !.pc = "write"] /\ UNCHANGED <<queue, dur>>
      /\ last' = IF con.ev[1].pos = 0 THEN last ELSE con.ev[1].pos
  BY DEF AppendEvent
<1>2. con'.ev = con.ev /\ con'.written = con.written
  BY <1>1 DEF BridgeTyped, Attempts
<1>3. Held' = Held /\ Len(con.ev) = 1 /\ 1 \in 1..Len(Held) /\ Held[1] = con.ev[1]
  BY <1>1, <1>2, InHandKept, InHandTyped
<1>4. last \in Nat /\ \A i \in 1..Len(Held) : Held[i].pos \in Nat
  BY HeldTyped, LastTyped
<1>5. ASSUME NEW j \in 1..Len(Held), Held[j].pos # 0
      PROVE  last' <= Held[j].pos /\ (j > Len(con.ev) => last' < Held[j].pos)
  <2>1. CASE Held[1].pos = 0
    BY <1>1, <1>3, <1>5, <2>1 DEF Increasing
  <2>2. CASE Held[1].pos # 0 /\ j = 1
    BY <1>1, <1>3, <1>4, <2>2
  <2>3. CASE Held[1].pos # 0 /\ j # 1
    <3>1. 1 < j /\ last' = Held[1].pos
      BY <1>1, <1>3, <2>3
    <3>2. Held[1].pos < Held[j].pos
      BY <1>3, <1>5, <3>1 DEF Increasing
    <3> QED
      BY <1>4, <1>3, <3>1, <3>2
  <2> QED
    BY <2>1, <2>2, <2>3
<1>6. Increasing'
  BY <1>1, <1>2, <1>3, <1>5 DEF Increasing
<1>7. ASSUME NEW n, UpTo(n) PROVE UpTo(n)'
  BY <1>1, <1>3, <1>7 DEF UpTo
<1> QED
  BY <1>6, <1>7

\* ... or takes the next one from the channel.
LEMMA IncreasingReceived ==
  ASSUME BridgeTyped, Increasing, Receive
  PROVE  Increasing' /\ \A n : UpTo(n) => UpTo(n)'
<1>1. Held' = Held /\ con = NoEvent /\ UNCHANGED <<last, dur>>
  BY ReceiveHeld DEF Receive, store, history
<1>2. Len(con.ev) = 0
  BY <1>1 DEF NoEvent
<1>3. \A j \in 1..Len(Held) : j > Len(con.ev)
  BY <1>2, HeldTyped
<1> QED
  BY <1>1, <1>3 DEF Increasing, UpTo

\* An event is sent that reports no position, or one above those before it.
LEMMA IncreasingAfterArrival ==
  ASSUME BridgeTyped, Increasing, NEW ev \in EventSet, Arrives(ev),
         UNCHANGED <<con, last, dur>>,
         ev.pos = 0 \/ UpTo(ev.pos - 1)
  PROVE  Increasing' /\ \A n \in Int : UpTo(n) /\ ev.pos <= n => UpTo(n)'
<1>1. /\ Len(Held) \in Nat /\ Len(Held)' = Len(Held) + 1
      /\ last \in Nat /\ ev.pos \in Nat
      /\ \A i \in 1..Len(Held) : Held[i].pos \in Nat
      /\ \A k \in 1..Len(dur) : dur[k] \in Nat
  BY HeldTyped, LastTyped, BridgeConstants DEF Arrives, EventSet
<1>2. \A i \in 1..Len(Held)' :
        \/ i \in 1..Len(Held) /\ Held'[i] = Held[i]
        \/ i = Len(Held) + 1 /\ Held'[i] = ev
  BY HeldAfterArrival
<1>3. ASSUME NEW j \in 1..Len(Held)', Held'[j].pos # 0
      PROVE  /\ last <= Held'[j].pos
             /\ j > Len(con.ev) => last < Held'[j].pos
             /\ j > Len(con.ev) \/ ~con.written =>
                  \A k \in 1..Len(dur) : dur[k] < Held'[j].pos
  <2>1. CASE j \in 1..Len(Held) /\ Held'[j] = Held[j]
    BY <1>3, <2>1 DEF Increasing
  <2>2. CASE Held'[j] = ev
    <3>1. last <= ev.pos - 1 /\ \A k \in 1..Len(dur) : dur[k] <= ev.pos - 1
      BY <1>3, <2>2 DEF UpTo
    <3>2. last < ev.pos /\ \A k \in 1..Len(dur) : dur[k] < ev.pos
      BY <1>1, <3>1
    <3> QED
      BY <1>1, <2>2, <3>2
  <2> QED
    BY <1>2, <2>1, <2>2
<1>4. \A i, j \in 1..Len(Held)' :
        i < j /\ Held'[j].pos # 0 => Held'[i].pos < Held'[j].pos
  <2> SUFFICES ASSUME NEW i \in 1..Len(Held)', NEW j \in 1..Len(Held)', i < j,
                      Held'[j].pos # 0
               PROVE  Held'[i].pos < Held'[j].pos
    OBVIOUS
  <2>1. i \in 1..Len(Held) /\ Held'[i] = Held[i]
    BY <1>1, <1>2
  <2>2. CASE j \in 1..Len(Held) /\ Held'[j] = Held[j]
    BY <2>1, <2>2 DEF Increasing
  <2>3. CASE Held'[j] = ev
    BY <1>1, <2>1, <2>3 DEF UpTo
  <2> QED
    BY <1>2, <2>2, <2>3
<1>5. Increasing'
  BY <1>3, <1>4 DEF Increasing
<1>6. ASSUME NEW n \in Int, UpTo(n), ev.pos <= n PROVE UpTo(n)'
  BY <1>1, <1>2, <1>6 DEF UpTo
<1> QED
  BY <1>5, <1>6

\* A step that leaves the subscriber alone.
LEMMA OthersInOrder ==
  ASSUME BridgeTyped, BridgeTyped', InOrder, UNCHANGED <<sub, saved>>, Increasing',
         Len(hist) <= Len(hist)', \A n \in Int : UpTo(n) /\ n >= 0 => UpTo(n)'
  PROVE  InOrder'
<1>1. Emitted \in Int /\ UpTo(Emitted) /\ Emitted >= 0
  <2>1. last \in Nat /\ Emitted \in Int
    BY EmittedInHistory, LastTyped
  <2> QED
    BY <2>1 DEF InOrder, UpTo
<1>2. UpTo(Emitted)' /\ Continued'
  <2>1. CASE Emitted' = Emitted
    BY <1>1, <2>1 DEF InOrder, UpTo, Continued
  <2>2. CASE Emitted' # Emitted
    <3>1. Emitted' = Len(hist)' /\ sub.pc \notin {"next", "handle"}
      BY <2>2, SubTyped DEF Emitted
    <3>2. UpTo(Len(hist))'
      <4>1. last' <= Len(hist)'
        BY DEF BridgeTyped, TypeOK
      <4>2. \A i \in 1..Len(Held)' : Held'[i].pos <= Len(hist)'
        BY DEF BridgeTyped
      <4>3. \A k \in 1..Len(dur)' : dur'[k] <= Len(hist)'
        <5>1. dur' \in Seq(1..Len(hist)') /\ Len(hist)' \in Nat
          BY DEF BridgeTyped, TypeOK
        <5> QED
          BY <5>1
      <4> QED
        BY <4>1, <4>2, <4>3 DEF UpTo
    <3> QED
      BY <3>1, <3>2 DEF InOrder, UpTo, Continued
  <2> QED
    BY <2>1, <2>2
<1> QED
  BY <1>2 DEF InOrder

LEMMA ConsumerInOrder ==
  ASSUME BridgeTyped, BridgeTyped', InOrder, Consumer
  PROVE  InOrder'
<1>1. UNCHANGED <<sub, saved, hist>> /\ Increasing
  BY DEF InOrder, Consumer, Receive, AppendEvent, Save, WriteFails, AnswerLost, WriteRefused,
     engine, store
<1>2. Increasing' /\ \A n : UpTo(n) => UpTo(n)'
  <2>1. CASE Receive \/ AppendEvent
    BY <1>1, <2>1, IncreasingReceived, IncreasingApplied
  <2>2. CASE Save
    <3>1. Write /\ con' = NoEvent /\ UNCHANGED <<queue, last>>
      BY <2>2 DEF Save, history
    <3> QED
      BY <1>1, <3>1, WriteTyped, DurableWritten, IncreasingAfterFirst
  <2>3. CASE WriteFails
    <3>1. con # NoEvent /\ ~con.written /\ Retry(FALSE) /\ UNCHANGED <<queue, last, dur>>
      BY <2>3, ConTyped DEF WriteFails, store
    <3>2. DurableNext /\ (con' = NoEvent \/ con'.ev = con.ev)
      BY <1>1, <3>1, DurableKept, RetryTyped
    <3> QED
      BY <1>1, <3>1, <3>2, IncreasingInHand, IncreasingAfterFirst
  <2>4. CASE AnswerLost
    <3>1. con # NoEvent /\ Write /\ Retry(TRUE) /\ UNCHANGED <<queue, last>>
      BY <2>4, WriteTyped DEF AnswerLost
    <3>2. DurableNext /\ (con' = NoEvent \/ (con'.ev = con.ev /\ con'.written))
      BY <1>1, <3>1, DurableWritten, RetryTyped
    <3> QED
      BY <1>1, <3>1, <3>2, IncreasingInHand, IncreasingAfterFirst
  <2>5. CASE WriteRefused
    <3>1. con # NoEvent /\ Retry(TRUE) /\ UNCHANGED <<queue, last, dur>>
      BY <2>5, ConTyped DEF WriteRefused, store
    <3>2. DurableNext /\ (con' = NoEvent \/ (con'.ev = con.ev /\ con'.written))
      BY <1>1, <3>1, DurableKept, RetryTyped
    <3> QED
      BY <1>1, <3>1, <3>2, IncreasingInHand, IncreasingAfterFirst
  <2> QED
    BY <2>1, <2>2, <2>3, <2>4, <2>5 DEF Consumer
<1>3. Len(hist) <= Len(hist)'
  BY <1>1, HistoryTyped
<1> QED
  BY <1>1, <1>2, <1>3, OthersInOrder

LEMMA ServiceInOrder ==
  ASSUME BridgeTyped, BridgeTyped', InOrder, NEW c \in Callers, Service(c)
  PROVE  InOrder'
<1>1. UNCHANGED <<sub, saved, hist, con, last, dur>> /\ Increasing
  BY DEF InOrder, Service, CallEngine, ReadRecord, ReadRecordFails, EmitFromService, engine,
     store, history
<1>2. Increasing' /\ \A n \in Int : UpTo(n) /\ n >= 0 => UpTo(n)'
  <2>1. CASE UNCHANGED queue
    BY <1>1, <2>1, QueueKept, IncreasingKept
  <2>2. CASE EmitFromService(c) /\ open
    <3>1. call[c].ev \in EventSet /\ call[c].ev.pos = 0 /\ Send(call[c].ev)
      BY <2>2, CallTyped DEF EmitFromService
    <3>2. Arrives(call[c].ev)
      BY <1>1, <3>1, SentHeld
    <3> QED
      BY <1>1, <3>1, <3>2, IncreasingAfterArrival
  <2> QED
    BY <2>1, <2>2 DEF Service, CallEngine, ReadRecord, ReadRecordFails, EmitFromService
<1>3. Len(hist) <= Len(hist)'
  BY <1>1, HistoryTyped
<1> QED
  BY <1>1, <1>2, <1>3, OthersInOrder

\* A step of the subscriber that emits nothing.
LEMMA SubMovedInOrder ==
  ASSUME BridgeTyped, BridgeTyped', InOrder, UNCHANGED <<hist, queue, con, last, dur>>,
         Emitted' \in {Emitted, Len(hist)}, Continued'
  PROVE  InOrder'
<1>1. Held' = Held
  BY QueueKept
<1>2. Increasing' /\ \A n : UpTo(n) => UpTo(n)'
  BY <1>1, IncreasingKept DEF InOrder
<1>3. UpTo(Emitted')
  BY EmittedInHistory DEF InOrder
<1>4. UpTo(Emitted)'
  BY <1>1, <1>3 DEF UpTo
<1> QED
  BY <1>2, <1>4 DEF InOrder

LEMMA BackoffInOrder ==
  ASSUME BridgeTyped, BridgeTyped', InOrder, UNCHANGED <<hist, queue, con, last, dur>>,
         NEW cursor \in NoCursor..Len(hist), cursor \in {NoCursor, Emitted}, Backoff(cursor)
  PROVE  InOrder'
<1>1. sub'.pc \in {"subscribe", "stopped"} /\ sub'.cursor = cursor
  BY BackoffTyped
<1>2. Emitted' \in {Emitted, Len(hist)} /\ Continued'
  BY <1>1 DEF Emitted, Continued
<1> QED
  BY <1>2, SubMovedInOrder

LEMMA SubscriberInOrder ==
  ASSUME BridgeTyped, BridgeTyped', InOrder, Subscriber
  PROVE  InOrder'
<1>1. /\ sub \in SubSet /\ sub.cursor \in NoCursor..Len(hist) /\ sub.pos \in NoCursor..Len(hist)
      /\ sub.cursor \in Int /\ sub.pos \in Int
      /\ Len(hist) \in Int /\ saved \in Int /\ UpTo(Emitted) /\ Continued /\ Increasing
      /\ UNCHANGED <<hist, con, last, dur>>
  <2>1. UNCHANGED <<hist, con, last, dur>>
    BY DEF Subscriber, LoadCursor, Subscribe, StreamFails, NextEvent, HandleEvent,
       DescribeFails, EmitFromSubscriber, PersistCursor, engine, store, history
  <2>2. Len(hist) \in Int /\ saved \in Int
    BY HistoryTyped DEF BridgeTyped, TypeOK, NoCursor
  <2> QED
    BY <2>1, <2>2, SubTyped, Positions DEF InOrder
<1>2. CASE LoadCursor
  <2>1. sub.pc = "load" /\ sub'.pc = "subscribe" /\ UNCHANGED queue
        /\ sub'.cursor = NoCursor
    BY <1>1, <1>2 DEF LoadCursor, SubSet, Continued
  <2>2. Emitted' = Len(hist) /\ Continued'
    BY <1>1, <2>1 DEF Emitted, Continued
  <2> QED
    BY <1>1, <2>1, <2>2, SubMovedInOrder
<1>3. CASE Subscribe
  <2>1. sub.pc = "subscribe" /\ sub'.pc = "next" /\ UNCHANGED queue
        /\ sub'.cursor = sub.cursor
        /\ sub'.pos = IF sub.cursor = NoCursor THEN Len(hist) ELSE sub.cursor
    BY <1>1, <1>3 DEF Subscribe, SubSet
  <2>2. Emitted' = Emitted /\ Continued'
    BY <1>1, <2>1 DEF Emitted, Continued
  <2> QED
    BY <1>1, <2>1, <2>2, SubMovedInOrder
<1>4. CASE StreamFails
  <2>1. sub.pc \in {"subscribe", "next"} /\ UNCHANGED queue
        /\ (\/ sub.pc = "next" /\ Backoff(sub.pos)
            \/ Backoff(sub.cursor)
            \/ sub' = [sub EXCEPT !.pc = "stopped"])
    BY <1>4 DEF StreamFails
  <2>2. sub.pc = "next" => sub.pos = Emitted
    BY DEF Emitted
  <2>3. sub.cursor \in {NoCursor, Emitted}
    BY <1>1, <2>1 DEF Emitted, Continued
  <2>4. CASE sub' = [sub EXCEPT !.pc = "stopped"]
    <3>1. sub'.pc = "stopped"
      BY <1>1, <2>4 DEF SubSet
    <3>2. Emitted' = Len(hist) /\ Continued'
      BY <1>1, <3>1 DEF Emitted, Continued
    <3> QED
      BY <1>1, <2>1, <3>2, SubMovedInOrder
  <2> QED
    BY <1>1, <2>1, <2>2, <2>3, <2>4, BackoffInOrder
<1>5. CASE NextEvent
  <2>1. sub.pc = "next" /\ sub'.pc = "handle" /\ UNCHANGED queue
        /\ sub'.cursor = sub.cursor /\ sub'.pos = sub.pos + 1
    BY <1>1, <1>5 DEF NextEvent, SubSet
  <2>2. Emitted' = Emitted
    BY <1>1, <2>1 DEF Emitted
  <2>3. Continued'
    BY <1>1, <2>1, <2>2 DEF Continued
  <2> QED
    BY <1>1, <2>1, <2>2, <2>3, SubMovedInOrder
<1>6. CASE HandleEvent
  <2>1. sub.pc = "handle" /\ sub'.pc \in {"emit", "persist"} /\ UNCHANGED queue
        /\ sub'.pos = sub.pos
    BY <1>1, <1>6 DEF HandleEvent, SubSet
  <2>2. Held' = Held /\ Increasing' /\ Continued'
    BY <1>1, <2>1, QueueKept, IncreasingKept DEF Continued
  <2>3. Emitted' \in Int /\ Emitted <= Emitted' /\ Emitted \in Int
    BY <1>1, <2>1 DEF Emitted
  <2>4. last \in Int /\ (\A i \in 1..Len(Held) : Held[i].pos \in Int)
        /\ \A k \in 1..Len(dur) : dur[k] \in Int
    BY HeldTyped, LastTyped
  <2>5. UpTo(Emitted)'
    BY <1>1, <2>2, <2>3, <2>4 DEF UpTo
  <2> QED
    BY <2>2, <2>5 DEF InOrder
<1>7. CASE DescribeFails
  <2>1. sub.pc = "handle" /\ UNCHANGED queue /\ Backoff(sub.cursor)
    BY <1>7 DEF DescribeFails
  <2>2. sub.cursor \in {NoCursor, Emitted}
    BY <1>1, <2>1 DEF Continued
  <2> QED
    BY <1>1, <2>1, <2>2, BackoffInOrder
<1>8. CASE EmitFromSubscriber
  <2>1. sub.pc = "emit" /\ sub'.pc = "persist" /\ sub'.pos = sub.pos
        /\ Send(LeaseReport(sub.pos)) /\ sub.pos \in 1..Len(hist)
    BY <1>1, <1>8, SubTyped DEF EmitFromSubscriber, SubSet, BridgeTyped
  <2> DEFINE ev == LeaseReport(sub.pos)
  <2>2. ev \in EventSet /\ ev.pos = sub.pos
    BY <2>1, LeaseReportTyped
  <2>3. Arrives(ev)
    BY <1>1, <2>1, <2>2, SentHeld
  <2>4. Emitted = sub.pos - 1 /\ Emitted' = sub.pos /\ Continued'
    BY <2>1 DEF Emitted, Continued
  <2> HIDE DEF ev
  <2>5. UpTo(sub.pos - 1) /\ UpTo(ev.pos - 1)
    BY <1>1, <2>2, <2>4
  <2>6. UpTo(sub.pos)
    <3>1. sub.pos - 1 \in Int /\ sub.pos - 1 <= sub.pos
      BY <1>1
    <3> QED
      BY <1>1, <2>5, <3>1, UpToMore
  <2>7. Increasing' /\ \A n \in Int : UpTo(n) /\ ev.pos <= n => UpTo(n)'
    BY <1>1, <2>2, <2>3, <2>5, IncreasingAfterArrival
  <2>8. \A i \in 1..Len(Held)' : Held'[i].pos <= sub.pos
    BY <1>1, <2>2, <2>3, <2>6, HeldAfterArrival DEF UpTo
  <2>9. UpTo(Emitted)'
    BY <1>1, <2>4, <2>6, <2>8 DEF UpTo
  <2> QED
    BY <2>4, <2>7, <2>9 DEF InOrder
<1>9. CASE PersistCursor
  <2>1. sub.pc = "persist" /\ sub'.pc = "next" /\ UNCHANGED queue
        /\ sub'.pos = sub.pos /\ sub'.cursor = sub.pos
    BY <1>1, <1>9 DEF PersistCursor, SubSet
  <2>2. Emitted' = Emitted /\ Continued'
    BY <2>1 DEF Emitted, Continued
  <2> QED
    BY <1>1, <2>1, <2>2, SubMovedInOrder
<1> QED
  BY <1>2, <1>3, <1>4, <1>5, <1>6, <1>7, <1>8, <1>9 DEF Subscriber

LEMMA ProcessInOrder ==
  ASSUME BridgeTyped, BridgeTyped', InOrder, Crash \/ Shutdown \/ Drained
  PROVE  InOrder'
<1>1. CASE Started
  <2>1. Held' = <<>> /\ last' = 0 /\ sub' = StartSub /\ saved' = NoCursor
        /\ UNCHANGED <<hist, dur>>
    BY <1>1, StartedHeld DEF Started, engine
  <2>2. Emitted' = Len(hist) /\ Continued'
    BY <2>1 DEF Emitted, Continued, StartSub
  <2>3. UpTo(Emitted)' /\ Increasing'
    BY <2>1, <2>2, HistoryTyped, LastTyped DEF UpTo, InOrder, Increasing
  <2> QED
    BY <2>2, <2>3 DEF InOrder
<1>2. CASE Shutdown
  <2>1. UNCHANGED <<hist, queue, con, last, dur>> /\ sub'.pc = "stopped"
    BY <1>2, SubTyped DEF Shutdown, SubSet, engine, store, history
  <2>2. Emitted' = Len(hist) /\ Continued'
    BY <2>1 DEF Emitted, Continued
  <2> QED
    BY <2>1, <2>2, SubMovedInOrder
<1> QED
  BY <1>1, <1>2 DEF Crash, Drained

LEMMA InOrderKept ==
  ASSUME BridgeTyped, BridgeTyped', InOrder, [Next]_vars
  PROVE  InOrder'
<1>1. CASE UNCHANGED vars
  BY <1>1 DEF vars, engine, store, history, InOrder, Increasing, UpTo, Continued, Held, Emitted
<1>2. CASE EngineStep
  <2>1. UNCHANGED <<sub, saved, queue, con, last, dur>>
    BY <1>2 DEF EngineStep, Purge, LeaseEvent, store, history
  <2>2. Increasing' /\ \A n : UpTo(n) => UpTo(n)'
    BY <2>1, QueueKept, IncreasingKept DEF InOrder
  <2>3. Len(hist) <= Len(hist)'
    <3>1. Next
      BY <1>2 DEF Next
    <3>2. Len(hist) \in Nat /\ Len(hist)' \in Nat
      BY DEF BridgeTyped, TypeOK
    <3>3. Len(hist) = 0 \/ Len(hist) \in 1..Len(hist)
      BY <3>2
    <3> QED
      BY <3>1, <3>2, <3>3, StepContinues DEF Continues
  <2> QED
    BY <2>1, <2>2, <2>3, OthersInOrder
<1> QED
  BY <1>1, <1>2, ConsumerInOrder, ServiceInOrder, SubscriberInOrder, ProcessInOrder DEF Next

LEMMA InOrderInit == Init => InOrder
<1> SUFFICES ASSUME Init PROVE InOrder
  OBVIOUS
<1>1. /\ Held = <<>> /\ last = 0 /\ sub = StartSub /\ saved = NoCursor
      /\ hist = <<>> /\ dur = <<>>
  BY DEF Init, Held, NoEvent
<1>2. Emitted = 0 /\ Continued
  BY <1>1 DEF Emitted, Continued, StartSub
<1> QED
  BY <1>1, <1>2 DEF InOrder, Increasing, UpTo

\* What is waiting for the durable log is held.
LEMMA WaitingHeld ==
  ASSUME BridgeTyped
  PROVE  /\ Waiting \in Seq(EventSet)
         /\ \E skip \in 0..1 :
              /\ Len(Waiting) + skip = Len(Held)
              /\ \A i \in 1..Len(Waiting) :
                   /\ i + skip \in 1..Len(Held) /\ Waiting[i] = Held[i + skip]
                   /\ i + skip > Len(con.ev) \/ ~con.written
<1>1. queue \in Seq(EventSet) /\ con.ev \in Seq(EventSet) /\ Len(Held) \in Nat
  BY HeldTyped
<1>2. CASE con.written
  <2>1. con # NoEvent
    BY <1>2 DEF NoEvent
  <2>2. PICK e \in EventSet : con.ev = <<e>>
    BY <2>1, ConTyped
  <2>3. Waiting = queue /\ Held = <<e>> \o queue
    <3>1. Waiting = <<>> \o queue
      BY <1>2 DEF Waiting
    <3>2. <<>> \o queue = queue
      BY <1>1
    <3> QED
      BY <2>2, <3>1, <3>2 DEF Held
  <2>4. Len(Held) = Len(queue) + 1 /\ Len(con.ev) = 1
        /\ \A i \in 1..Len(queue) : Held[i + 1] = queue[i]
    BY <1>1, <2>2, <2>3
  <2>5. \A i \in 1..Len(queue) : i + 1 \in 1..Len(Held) /\ i + 1 > Len(con.ev)
    BY <1>1, <2>4
  <2> QED
    BY <1>1, <2>3, <2>4, <2>5
<1>3. CASE ~con.written
  <2>1. Waiting = Held /\ Held \in Seq(EventSet)
    BY <1>3, HeldTyped DEF Waiting, Held
  <2>2. /\ Len(Held) + 0 = Len(Held)
        /\ \A i \in 1..Len(Held) : i + 0 \in 1..Len(Held) /\ Held[i] = Held[i + 0]
    BY <1>1
  <2>3. 0 \in 0..1
    OBVIOUS
  <2>4. /\ Len(Waiting) + 0 = Len(Held)
        /\ \A i \in 1..Len(Waiting) :
             /\ i + 0 \in 1..Len(Held) /\ Waiting[i] = Held[i + 0]
             /\ i + 0 > Len(con.ev) \/ ~con.written
    BY <1>3, <2>1, <2>2
  <2> QED
    BY <2>1, <2>3, <2>4, Zenon
<1> QED
  BY <1>2, <1>3

\* The sequence that BridgeKeepsOrder speaks of is the durable log and what is
\* waiting for it.
LEMMA FlowInOrder ==
  ASSUME BridgeTyped, Increasing,
         NEW flow, flow = dur \o [i \in DOMAIN Waiting |-> Waiting[i].pos],
         NEW i \in DOMAIN flow, NEW j \in DOMAIN flow, i < j, flow[i] # 0, flow[j] # 0
  PROVE  flow[i] < flow[j]
<1> DEFINE positions == [k \in DOMAIN Waiting |-> Waiting[k].pos]
<1>1. Waiting \in Seq(EventSet) /\ \A k \in 1..Len(Waiting) : Waiting[k].pos \in Nat
  <2>1. Waiting \in Seq(EventSet)
    BY WaitingHeld
  <2>2. \A k \in 1..Len(Waiting) : Waiting[k] \in EventSet
    BY <2>1
  <2>3. \A e \in EventSet : e.pos \in Nat
    BY BridgeConstants DEF EventSet
  <2> QED
    BY <2>1, <2>2, <2>3
<1>2. positions \in Seq(Nat) /\ Len(positions) = Len(Waiting)
      /\ \A k \in 1..Len(Waiting) : positions[k] = Waiting[k].pos
  <2>1. DOMAIN Waiting = 1..Len(Waiting) /\ Len(Waiting) \in Nat
    BY <1>1
  <2>2. positions \in [1..Len(Waiting) -> Nat]
    BY <1>1, <2>1
  <2> HIDE DEF positions
  <2>3. positions \in Seq(Nat)
    <3>1. \E n \in Nat : positions \in [1..n -> Nat]
      BY <2>1, <2>2
    <3> QED
      BY <3>1, SeqDef, Zenon
  <2>4. Len(positions) = Len(Waiting)
    BY <2>1, <2>2, <2>3, LenProperties
  <2> QED
    BY <2>1, <2>3, <2>4 DEF positions
<1>3. PICK skip \in 0..1 :
        /\ Len(Waiting) + skip = Len(Held)
        /\ \A k \in 1..Len(Waiting) :
             /\ k + skip \in 1..Len(Held) /\ Waiting[k] = Held[k + skip]
             /\ k + skip > Len(con.ev) \/ ~con.written
  BY WaitingHeld
<1>4. dur \in Seq(Nat) /\ Len(dur) \in Nat /\ Len(Waiting) \in Nat
  BY <1>1, LastTyped, SequenceIn
<1>5. flow = dur \o positions
  OBVIOUS
<1> HIDE DEF positions
<1>6. /\ DOMAIN flow = 1..(Len(dur) + Len(Waiting))
      /\ \A k \in 1..Len(dur) : flow[k] = dur[k]
      /\ \A k \in 1..Len(Waiting) : flow[Len(dur) + k] = Waiting[k].pos
  <2>1. Len(flow) = Len(dur) + Len(positions) /\ DOMAIN flow = 1..Len(flow)
    <3>1. dur \o positions \in Seq(Nat) /\ Len(dur \o positions) = Len(dur) + Len(positions)
      BY <1>2, <1>4, ConcatProperties
    <3> QED
      BY <1>5, <3>1, LenProperties
  <2>2. \A k \in 1..Len(dur) : flow[k] = dur[k]
    BY <1>2, <1>4, <1>5
  <2>3. \A k \in 1..Len(positions) : flow[Len(dur) + k] = positions[k]
    BY <1>2, <1>4, <1>5
  <2> QED
    BY <1>2, <2>1, <2>2, <2>3
<1>7. CASE j <= Len(dur)
  <2>1. i \in 1..Len(dur) /\ j \in 1..Len(dur)
    BY <1>4, <1>6, <1>7
  <2> QED
    BY <1>6, <2>1 DEF Increasing
<1>8. CASE ~(j <= Len(dur))
  <2> DEFINE h == j - Len(dur)
  <2>1. h \in 1..Len(Waiting) /\ Len(dur) + h = j
    BY <1>4, <1>6, <1>8
  <2>2. flow[j] = Held[h + skip].pos /\ h + skip \in 1..Len(Held)
        /\ (h + skip > Len(con.ev) \/ ~con.written)
    BY <1>3, <1>6, <2>1
  <2>3. CASE i <= Len(dur)
    <3>1. i \in 1..Len(dur)
      BY <1>4, <1>6, <2>3
    <3> QED
      BY <1>6, <2>2, <3>1 DEF Increasing
  <2>4. CASE ~(i <= Len(dur))
    <3> DEFINE g == i - Len(dur)
    <3>1. g \in 1..Len(Waiting) /\ Len(dur) + g = i /\ g < h
      BY <1>4, <1>6, <2>1, <2>4
    <3>2. flow[i] = Held[g + skip].pos /\ g + skip \in 1..Len(Held)
      BY <1>3, <1>6, <3>1
    <3>3. g + skip < h + skip
      BY <2>1, <3>1
    <3> HIDE DEF g, h
    <3> QED
      BY <2>2, <3>2, <3>3 DEF Increasing
  <2> QED
    BY <2>3, <2>4
<1> QED
  BY <1>4, <1>6, <1>7, <1>8

LEMMA IncreasingIsOrder == ASSUME BridgeTyped, Increasing PROVE BridgeKeepsOrder
<1>1. queue \in Seq(EventSet) /\ con.ev \in Seq(EventSet)
  BY HeldTyped
<1>2. /\ Len(Held) = Len(con.ev) + Len(queue) /\ Len(con.ev) \in Nat /\ Len(queue) \in Nat
      /\ \A i \in 1..Len(queue) : Held[Len(con.ev) + i] = queue[i]
      /\ \A i \in 1..Len(con.ev) : Held[i] = con.ev[i]
  BY <1>1 DEF Held
<1>3. ASSUME NEW ev \in Range(queue), ev.pos # 0
      PROVE  last < ev.pos
  <2>1. PICK i \in 1..Len(queue) : queue[i] = ev
    BY <1>1, <1>3 DEF Range
  <2>2. Len(con.ev) + i \in 1..Len(Held) /\ Len(con.ev) + i > Len(con.ev)
        /\ Held[Len(con.ev) + i] = ev
    BY <1>2, <2>1
  <2> QED
    BY <1>3, <2>2 DEF Increasing
<1>4. ASSUME NEW ev \in Range(con.ev), ev.pos # 0
      PROVE  last <= ev.pos
  <2>1. PICK i \in 1..Len(con.ev) : con.ev[i] = ev
    BY <1>1, <1>4 DEF Range
  <2>2. i \in 1..Len(Held) /\ Held[i] = ev
    BY <1>2, <2>1
  <2> QED
    BY <1>4, <2>2 DEF Increasing
<1> DEFINE flow == dur \o [i \in DOMAIN Waiting |-> Waiting[i].pos]
<1>5. \A i, j \in DOMAIN flow : i < j /\ flow[i] # 0 /\ flow[j] # 0 => flow[i] < flow[j]
  BY FlowInOrder
<1> QED
  BY <1>3, <1>4, <1>5 DEF BridgeKeepsOrder

\* The durable log has the lease events in the order of the history and none
\* twice, and what the bridge still holds will not change that: the subscriber,
\* which may open the stream again at its cursor after it has emitted, the
\* consumer's retries of an envelope the log may have already, and restarts
\* neither reorder nor repeat events, also when tags cannot be read.  In memory
\* an event can come again, but only while the consumer has it in hand.
THEOREM EventsStayInOrder == Spec => []BridgeKeepsOrder
<1>1. InOrder /\ BridgeTyped /\ BridgeTyped' /\ [Next]_vars => InOrder'
  BY InOrderKept
<1>2. BridgeTyped /\ InOrder => BridgeKeepsOrder
  BY IncreasingIsOrder DEF InOrder
<1> QED
  BY <1>1, <1>2, InOrderInit, TypesInvariant, PTL DEF Spec
=============================================================================
