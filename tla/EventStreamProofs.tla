-------------------------- MODULE EventStreamProofs --------------------------
(***************************************************************************)
(* Proofs about the event log and the streams of EventStream.              *)
(*                                                                         *)
(* Each property rests on an inductive invariant of its own:               *)
(*   StreamTyped  TypeOK, the frame in hand and the cursor of the replay;  *)
(*   LogInv       the memory against the durable log, and where every      *)
(*                request stands between the two;                          *)
(*   SocketOK     what a WebSocket was sent;                               *)
(*   FramesInv    numbers, the order of push and broadcast, and what every *)
(*                client has or will have;                                 *)
(*   OwnInv       where the event of a service request is on its way to    *)
(*                its frame.                                               *)
(* Kept and Applied are recursive functions; StepsExist gives the function *)
(* they choose, and UpToHolds what holds of each of its values.            *)
(***************************************************************************)
EXTENDS EventStream, SequenceTheorems, FiniteSetTheorems, WellFoundedInduction,
        NaturalsInduction, TLAPS

-----------------------------------------------------------------------------
(* The invariants.                                                         *)

EntrySet == [writer : Writers, derived : BOOLEAN]

InFrames(w) == req[w].pc \in {"push", "send"}

\* TypeOK with what it rests on: a frame in hand is that of the first event to
\* be published, and the replay reads positions there are.
StreamTyped ==
  /\ TypeOK
  /\ up.after <= Len(durable)
  /\ \A w \in Writers : InFrames(w) =>
       /\ req[w].frame \in FrameSet /\ req[w].todo # <<>>
       /\ req[w].frame.writer = Head(req[w].todo).writer

\* A log has an event, has no event twice, has what is derived from an event
\* behind it.
InLog(m, w) == \E p \in 1..Len(m) : m[p] = Event(w)

NoRepeats(m) == \A p, q \in 1..Len(m) : m[p] = m[q] /\ ~m[p].derived => p = q

Complete(m) ==
  \A p \in 1..Len(m) : ~m[p].derived /\ load[m[p].writer].costs =>
    p + 1 \in 1..Len(m) /\ m[p + 1] = [writer |-> m[p].writer, derived |-> TRUE]

InDurable(w) == \E i \in 1..Len(durable) : durable[i] = w

Replayed(w) == \E i \in 1..up.after : durable[i] = w

\* The two logs: what was replayed is in memory, while the replay goes on there
\* is nothing else, and afterwards only raw events may be missing.
LogsOK ==
  /\ \A i, j \in 1..Len(durable) : durable[i] = durable[j] => i = j
  /\ NoRepeats(memory) /\ Complete(memory)
  /\ \A w \in Writers :
       /\ Replayed(w) => InLog(memory, w)
       /\ ~Serving /\ InLog(memory, w) => Replayed(w)
       /\ Serving /\ InDurable(w) => InLog(memory, w) \/ Kind(w) = "raw"
  /\ \A p \in 1..Len(memory) :
       Kind(memory[p].writer) = "raw" => InDurable(memory[p].writer)

\* Where a request stands says in which log its event is.
RequestOK(w) ==
  LET pc == req[w].pc IN
  /\ pc \notin {"start", "done"} => Serving
  /\ pc = "direct" => Kind(w) = "raw"
  /\ pc \in {"append", "second"} => Kind(w) \in {"service", "raw"}
  /\ pc = "read" => Kind(w) = "service"
  /\ pc \in {"frame", "push", "send"} => Kind(w) # "raw"
  /\ pc \in {"start", "direct", "append"} => ~InLog(memory, w)
  /\ pc \in {"start", "direct"} => ~InDurable(w)
  /\ pc = "second" => InLog(memory, w)
  /\ Kind(w) = "raw" /\ pc \in {"append", "second"} => InDurable(w)
  /\ Kind(w) = "service" /\ pc = "append" => ~InDurable(w)
  /\ Kind(w) = "service" /\ pc \in {"read", "frame", "push", "send"} => InDurable(w)
  /\ req[w].answer # "none" => pc = "done"
  /\ req[w].answer = "ok" /\ Kind(w) \in {"service", "raw"} => InDurable(w)
  /\ req[w].answer = "found" => \E v \in Writers : InDurable(v) /\ Cause(v) = Cause(w)

LogInv == LogsOK /\ \A w \in Writers : RequestOK(w)

SocketOK == (ws.pc # "off" => Serving) /\ HandshakeCoversLog

\* A frame is what it is by its process and its number.
Numbered ==
  /\ \A w \in Writers : InFrames(w) => req[w].frame.boot = boot /\ req[w].frame.seq < seq
  /\ \A v, w \in Writers :
       InFrames(v) /\ InFrames(w) /\ v # w => req[v].frame.seq # req[w].frame.seq
  /\ \A f \in sent : f.boot <= boot /\ (f.boot = boot => f.seq < seq)
  /\ \A f \in ToSet(buffer) : f.boot = boot

\* A frame enters the buffer before it is broadcast, so what is broadcast and
\* buffered later is in the queue of everybody who listens.
PushedFirst == \A w \in Writers : req[w].pc = "push" => req[w].frame \notin sent

Reached(c, f) ==
  f \in got[c] \cup skipped[c] \cup ToSet(client[c].replay) \cup ToSet(client[c].queue)

Covered(c) ==
  \A f \in sent \cap ToSet(buffer) : f.seq > client[c].from => Reached(c, f)

\* ReplayMeetsLive, and what a client has before it is sent the buffer.
ClientsOK ==
  \A c \in Clients :
    /\ client[c].pc = "on" => Covered(c)
    /\ client[c].pc # "on" => client[c].replay = <<>>
    /\ client[c].pc = "sub" => \/ client[c].id = 0 /\ Covered(c)
                               \/ client[c].id # 0 /\ client[c].from = client[c].id

FramesInv == Numbered /\ PushedFirst /\ ClientsOK

\* The event of a service request on its way to its frame.
OwnOK(w) ==
  LET r == req[w] IN
  Kind(w) = "service" =>
    /\ r.pc = "append" => r.before <= Len(memory)
    /\ r.pc \in {"second", "read"} =>
         r.pos \in (r.before + 1)..Len(memory) /\ memory[r.pos] = Event(w)
    /\ (/\ r.pc \in {"frame", "push", "send"} \/ r.answer = "ok"
        /\ HasFrame(Event(w)) /\ r.pos - r.before <= ReadLimit) =>
           \/ \E f \in sent : f.writer = w
           \/ r.pc # "done" /\ \E i \in 1..Len(r.todo) : r.todo[i].writer = w
OwnInv == \A w \in Writers : OwnOK(w)

-----------------------------------------------------------------------------
(* Sequences that are computed entry by entry.                             *)

LEMMA LeastNatural ==
  ASSUME NEW T, T \subseteq Nat, T # {}
  PROVE  \E x \in T : \A y \in T : x <= y
<1> DEFINE R == OpToRel(<, Nat)
<1>1. IsWellFoundedOn(R, Nat)
  BY NatLessThanWellFounded
<1>2. \A x, y \in Nat : y < x => <<y, x>> \in R
  BY DEF OpToRel
<1> HIDE DEF R
<1>3. PICK x \in T : \A y \in T : ~ (<<y, x>> \in R)
  BY <1>1, WFMin
<1>4. \A y \in T : x \in Nat /\ y \in Nat /\ ~(y < x)
  BY <1>2, <1>3
<1> QED
  BY <1>4

\* A set that holds 0 and each successor holds every natural number up to n.
LEMMA UpToHolds ==
  ASSUME NEW n \in Nat, NEW P, 0 \in P, \A i \in 1..n : i - 1 \in P => i \in P
  PROVE  \A i \in 0..n : i \in P
<1> DEFINE T == {i \in 0..n : i \notin P}
<1> SUFFICES ASSUME T # {} PROVE FALSE
  OBVIOUS
<1>1. PICK x \in T : \A y \in T : x <= y
  <2>1. T \subseteq Nat
    OBVIOUS
  <2> QED
    BY <2>1, LeastNatural
<1>2. x \in 1..n /\ x - 1 \in 0..n /\ ~(x <= x - 1)
  BY <1>1
<1>3. x - 1 \in P
  BY <1>1, <1>2
<1> QED
  BY <1>1, <1>2, <1>3

\* A recursion over positions: g says how the value at i follows from the one
\* before it.
Solves(k, n, A, a, g) ==
  /\ k \in [0..n -> A] /\ k[0] = a
  /\ \A i \in 1..n : k[i] = g[<<k[i - 1], i>>]

LEMMA StepsExist ==
  ASSUME NEW n \in Nat, NEW A, NEW a \in A, NEW g \in [A \X (1..n) -> A]
  PROVE  \E k : Solves(k, n, A, a, g)
<1> DEFINE P == {m \in 0..n : \E k : Solves(k, m, A, a, g)}
<1>1. 0 \in P
  <2>1. Solves([i \in 0..0 |-> a], 0, A, a, g)
    BY DEF Solves
  <2> QED
    BY <2>1
<1>2. ASSUME NEW m \in 1..n, m - 1 \in P
      PROVE  m \in P
  <2>1. PICK k : Solves(k, m - 1, A, a, g)
    BY <1>2
  <2> DEFINE last == g[<<k[m - 1], m>>]
             j == [i \in 0..m |-> IF i = m THEN last ELSE k[i]]
  <2>2. /\ k \in [0..(m - 1) -> A] /\ k[0] = a
        /\ \A i \in 1..(m - 1) : k[i] = g[<<k[i - 1], i>>]
    BY <2>1 DEF Solves
  <2>3. /\ m - 1 \in 0..(m - 1) /\ k[m - 1] \in A /\ last \in A
        /\ \A i \in 0..m : i # m => i \in 0..(m - 1)
    BY <2>2
  <2> HIDE DEF last
  <2>4. j \in [0..m -> A] /\ j[0] = a
    BY <2>2, <2>3
  <2>5. ASSUME NEW i \in 1..m PROVE j[i] = g[<<j[i - 1], i>>]
    <3>1. i - 1 \in 0..m /\ i - 1 # m /\ j[i - 1] = k[i - 1]
      OBVIOUS
    <3>2. CASE i = m
      BY <3>1, <3>2 DEF last
    <3>3. CASE i # m
      <4>1. i \in 1..(m - 1) /\ j[i] = k[i]
        BY <3>3
      <4> QED
        BY <2>2, <3>1, <4>1
    <3> QED
      BY <3>2, <3>3
  <2>6. Solves(j, m, A, a, g)
    BY <2>4, <2>5 DEF Solves
  <2> QED
    BY <2>6
<1>3. \A m \in 0..n : m \in P
  <2> HIDE DEF P
  <2> QED
    BY <1>1, <1>2, UpToHolds
<1> QED
  BY <1>3

\* The recursions behind Kept and Applied.
Keeps(k, s, S) ==
  [i \in 0..Len(s) |->
     IF i = 0 THEN <<>>
     ELSE IF s[i] \in S THEN Append(k[i - 1], s[i]) ELSE k[i - 1]]

Applies(k, m, batch) ==
  [i \in 0..Len(batch) |-> IF i = 0 THEN m ELSE k[i - 1] \o Entries(batch[i])]

LEMMA AppendedElements ==
  ASSUME NEW T, NEW s \in Seq(T), NEW x \in T
  PROVE  /\ Append(s, x) \in Seq(T)
         /\ ToSet(Append(s, x)) = ToSet(s) \cup {x}
<1> DEFINE t == Append(s, x)
<1>1. /\ t \in Seq(T) /\ Len(t) = Len(s) + 1 /\ t[Len(s) + 1] = x
      /\ DOMAIN t = 1..(Len(s) + 1) /\ DOMAIN s = 1..Len(s) /\ Len(s) \in Nat
      /\ \A i \in 1..Len(s) : t[i] = s[i]
  OBVIOUS
<1> HIDE DEF t
<1>2. Len(s) + 1 \in DOMAIN t /\ \A i \in DOMAIN t : i \in DOMAIN s \/ i = Len(s) + 1
  BY <1>1
<1>3. \A i \in DOMAIN s : i \in DOMAIN t /\ t[i] = s[i]
  BY <1>1
<1>4. ToSet(t) = ToSet(s) \cup {x}
  <2>1. ASSUME NEW y \in ToSet(t) PROVE y \in ToSet(s) \cup {x}
    <3>1. PICK i \in DOMAIN t : y = t[i]
      BY DEF ToSet
    <3> QED
      BY <1>1, <1>2, <1>3, <3>1 DEF ToSet
  <2>2. ASSUME NEW y \in ToSet(s) PROVE y \in ToSet(t)
    <3>1. PICK i \in DOMAIN s : y = s[i]
      BY DEF ToSet
    <3> QED
      BY <1>3, <3>1 DEF ToSet
  <2>3. x \in ToSet(t)
    BY <1>1, <1>2 DEF ToSet
  <2> QED
    BY <2>1, <2>2, <2>3
<1> QED
  BY <1>1, <1>4 DEF t

LEMMA KeptSteps ==
  ASSUME NEW T, NEW s \in Seq(T), NEW S
  PROVE  \E k : /\ k[0] = <<>> /\ Kept(s, S) = k[Len(s)]
                /\ \A i \in 1..Len(s) :
                     k[i] = IF s[i] \in S THEN Append(k[i - 1], s[i]) ELSE k[i - 1]
<1> DEFINE n == Len(s)
           g == [x \in Seq(T) \X (1..n) |->
                   IF s[x[2]] \in S THEN Append(x[1], s[x[2]]) ELSE x[1]]
<1>0. n \in Nat /\ 0 \in 0..n /\ n \in 0..n /\ \A i \in 1..n : i \in 0..n /\ i # 0
  OBVIOUS
<1>1. g \in [Seq(T) \X (1..n) -> Seq(T)]
  <2>1. ASSUME NEW x \in Seq(T) \X (1..n)
        PROVE  (IF s[x[2]] \in S THEN Append(x[1], s[x[2]]) ELSE x[1]) \in Seq(T)
    <3>1. x[1] \in Seq(T) /\ s[x[2]] \in T
      OBVIOUS
    <3>2. Append(x[1], s[x[2]]) \in Seq(T)
      BY <3>1
    <3> QED
      BY <3>1, <3>2
  <2> QED
    BY <2>1
<1>2. <<>> \in Seq(T)
  OBVIOUS
<1> HIDE DEF n
<1>3. PICK h : Solves(h, n, Seq(T), <<>>, g)
  <2> HIDE DEF g
  <2> QED
    BY <1>0, <1>1, <1>2, StepsExist
<1>4. /\ h \in [0..n -> Seq(T)] /\ h[0] = <<>>
      /\ \A i \in 1..n : h[i] = IF s[i] \in S THEN Append(h[i - 1], s[i]) ELSE h[i - 1]
  <2>1. /\ h \in [0..n -> Seq(T)] /\ h[0] = <<>>
        /\ \A i \in 1..n : h[i] = g[<<h[i - 1], i>>]
    BY <1>3 DEF Solves
  <2>2. ASSUME NEW i \in 1..n
        PROVE  h[i] = IF s[i] \in S THEN Append(h[i - 1], s[i]) ELSE h[i - 1]
    <3>1. i - 1 \in 0..n
      BY <1>0
    <3>2. <<h[i - 1], i>> \in Seq(T) \X (1..n)
      BY <2>1, <3>1
    <3> QED
      BY <2>1, <3>2
  <2> QED
    BY <2>1, <2>2
<1> HIDE DEF g
<1>5. h = Keeps(h, s, S)
  <2>1. h = [i \in 0..n |-> h[i]]
    BY <1>4
  <2>2. \A i \in 0..n : i # 0 => i \in 1..n
    BY <1>0
  <2> QED
    BY <1>4, <2>1, <2>2 DEF Keeps, n
<1> DEFINE k == CHOOSE f : f = Keeps(f, s, S)
<1>6. k = Keeps(k, s, S)
  BY <1>5
<1>7. Kept(s, S) = k[n]
  BY DEF Kept, Keeps, n
<1> HIDE DEF k
<1>8. k[0] = <<>>
  BY <1>0, <1>6 DEF Keeps, n
<1>9. ASSUME NEW i \in 1..n
      PROVE  k[i] = IF s[i] \in S THEN Append(k[i - 1], s[i]) ELSE k[i - 1]
  BY <1>0, <1>6 DEF Keeps, n
<1> QED
  BY <1>7, <1>8, <1>9 DEF n

\* Kept(s, S) has the elements of s that are in S.
LEMMA KeptElements ==
  ASSUME NEW T, NEW s \in Seq(T), NEW S
  PROVE  Kept(s, S) \in Seq(T) /\ ToSet(Kept(s, S)) = ToSet(s) \cap S
<1>1. PICK k : /\ k[0] = <<>> /\ Kept(s, S) = k[Len(s)]
               /\ \A i \in 1..Len(s) :
                    k[i] = IF s[i] \in S THEN Append(k[i - 1], s[i]) ELSE k[i - 1]
  BY KeptSteps
<1> DEFINE Upto(i) == {s[j] : j \in 1..i} \cap S
           P == {i \in 0..Len(s) : k[i] \in Seq(T) /\ ToSet(k[i]) = Upto(i)}
<1>2. 0 \in P
  <2>1. <<>> \in Seq(T) /\ ToSet(<<>>) = {} /\ 0 \in 0..Len(s) /\ 1..0 = {}
    BY DEF ToSet
  <2> QED
    BY <1>1, <2>1
<1>3. ASSUME NEW i \in 1..Len(s), i - 1 \in P
      PROVE  i \in P
  <2>1. /\ k[i - 1] \in Seq(T) /\ ToSet(k[i - 1]) = Upto(i - 1)
        /\ s[i] \in T /\ i \in 0..Len(s) /\ 1..i = 1..(i - 1) \cup {i}
    BY <1>3
  <2>2. {s[j] : j \in 1..i} = {s[j] : j \in 1..(i - 1)} \cup {s[i]}
    BY <2>1
  <2>3. CASE s[i] \in S
    <3>1. k[i] = Append(k[i - 1], s[i])
      BY <1>1, <2>3
    <3>2. k[i] \in Seq(T) /\ ToSet(k[i]) = ToSet(k[i - 1]) \cup {s[i]}
      BY <2>1, <3>1, AppendedElements
    <3> QED
      BY <2>1, <2>2, <2>3, <3>2
  <2>4. CASE s[i] \notin S
    <3>1. k[i] = k[i - 1]
      BY <1>1, <2>4
    <3> QED
      BY <2>1, <2>2, <2>4, <3>1
  <2> QED
    BY <2>3, <2>4
<1>4. Len(s) \in Nat /\ Len(s) \in 0..Len(s)
  OBVIOUS
<1>5. Len(s) \in P
  <2> HIDE DEF P
  <2> QED
    BY <1>2, <1>3, <1>4, UpToHolds
<1>6. ToSet(s) = {s[j] : j \in 1..Len(s)}
  BY DEF ToSet
<1> QED
  BY <1>1, <1>5, <1>6

-----------------------------------------------------------------------------
(* What an append of an event does to a log.                               *)

Derived(w) == [writer |-> w, derived |-> TRUE]

LEMMA EntriesTyped ==
  ASSUME NEW w \in Writers
  PROVE  /\ Event(w) \in EntrySet /\ Derived(w) \in EntrySet
         /\ Event(w).writer = w /\ Event(w).derived = FALSE
         /\ Derived(w).writer = w /\ Derived(w).derived = TRUE
         /\ Entries(w) \in Seq(EntrySet) /\ Entries(w)[1] = Event(w)
         /\ load[w].costs => Len(Entries(w)) = 2 /\ Entries(w)[2] = Derived(w)
         /\ ~load[w].costs => Len(Entries(w)) = 1
<1>1. /\ Event(w) \in EntrySet /\ Derived(w) \in EntrySet
      /\ Event(w).writer = w /\ Event(w).derived = FALSE
      /\ Derived(w).writer = w /\ Derived(w).derived = TRUE
  BY DEF Event, Derived, EntrySet
<1> DEFINE s == <<Event(w)>>
           t == IF load[w].costs THEN <<Derived(w)>> ELSE <<>>
<1>2. s \in Seq(EntrySet) /\ Len(s) = 1 /\ s[1] = Event(w)
  BY <1>1
<1>3. /\ t \in Seq(EntrySet)
      /\ load[w].costs => Len(t) = 1 /\ t[1] = Derived(w)
      /\ ~load[w].costs => Len(t) = 0
  BY <1>1
<1>4. Entries(w) = s \o t
  BY DEF Entries, Derived
<1> HIDE DEF s, t
<1>5. /\ s \o t \in Seq(EntrySet) /\ Len(s \o t) = Len(s) + Len(t)
      /\ \A i \in 1..(Len(s) + Len(t)) :
           (s \o t)[i] = IF i <= Len(s) THEN s[i] ELSE t[i - Len(s)]
  BY <1>2, <1>3, ConcatProperties
<1> QED
  BY <1>1, <1>2, <1>3, <1>4, <1>5

LEMMA EventOf ==
  ASSUME NEW e \in EntrySet
  PROVE  /\ e.writer \in Writers /\ e.derived \in BOOLEAN
         /\ ~e.derived => e = Event(e.writer)
         /\ e.derived => e = Derived(e.writer)
  BY DEF EntrySet, Event, Derived

\* r is m and what an append of the event of w adds to it.
Grown(m, w, r) ==
  /\ r \in Seq(EntrySet) /\ Len(m) \in Nat /\ Len(r) \in Nat
  /\ \A p \in 1..Len(m) : p \in 1..Len(r) /\ r[p] = m[p]
  /\ Len(m) + 1 \in 1..Len(r) /\ r[Len(m) + 1] = Event(w)
  /\ ~load[w].costs => Len(r) = Len(m) + 1
  /\ load[w].costs => Len(r) = Len(m) + 2 /\ r[Len(m) + 2] = Derived(w)

LEMMA EntriesAppended ==
  ASSUME NEW m \in Seq(EntrySet), NEW w \in Writers
  PROVE  Grown(m, w, m \o Entries(w))
<1> DEFINE t == Entries(w)
           r == m \o t
<1>1. /\ t \in Seq(EntrySet) /\ t[1] = Event(w)
      /\ load[w].costs => Len(t) = 2 /\ t[2] = Derived(w)
      /\ ~load[w].costs => Len(t) = 1
  BY EntriesTyped
<1> HIDE DEF t
<1>2. /\ r \in Seq(EntrySet) /\ Len(r) = Len(m) + Len(t)
      /\ \A i \in 1..(Len(m) + Len(t)) : r[i] = IF i <= Len(m) THEN m[i] ELSE t[i - Len(m)]
  BY <1>1, ConcatProperties
<1>3. Len(m) \in Nat
  OBVIOUS
<1> HIDE DEF r
<1>4. Grown(m, w, r)
  BY <1>1, <1>2, <1>3 DEF Grown
<1> QED
  BY <1>4 DEF r, t

\* The entries of r behind those of m are of w.
LEMMA EntriesBehind ==
  ASSUME NEW m, NEW w \in Writers, NEW r, Grown(m, w, r), NEW p \in 1..Len(r)
  PROVE  \/ p \in 1..Len(m) /\ r[p] = m[p]
         \/ p = Len(m) + 1 /\ r[p] = Event(w)
         \/ p = Len(m) + 2 /\ r[p] = Derived(w) /\ load[w].costs
<1>1. /\ Len(m) \in Nat
      /\ \/ load[w].costs /\ Len(r) = Len(m) + 2
         \/ ~load[w].costs /\ Len(r) = Len(m) + 1
  BY Zenon DEF Grown
<1>2. p = Len(m) + 1 \/ (p = Len(m) + 2 /\ load[w].costs) \/ p \in 1..Len(m)
  BY <1>1
<1> QED
  BY <1>2 DEF Grown

LEMMA LogGrows ==
  ASSUME NEW m, NEW w \in Writers, NEW r, Grown(m, w, r),
         ~InLog(m, w), NoRepeats(m), Complete(m)
  PROVE  /\ NoRepeats(r) /\ Complete(r)
         /\ \A v \in Writers : InLog(r, v) <=> InLog(m, v) \/ v = w
<1>1. /\ r \in Seq(EntrySet) /\ Len(m) \in Nat /\ Len(r) \in Nat
      /\ \A p \in 1..Len(m) : p \in 1..Len(r) /\ r[p] = m[p]
      /\ Len(m) + 1 \in 1..Len(r) /\ r[Len(m) + 1] = Event(w)
      /\ load[w].costs => Len(m) + 2 \in 1..Len(r) /\ r[Len(m) + 2] = Derived(w)
  BY DEF Grown
<1>2. ASSUME NEW p \in 1..Len(r)
      PROVE  \/ p \in 1..Len(m) /\ r[p] = m[p]
             \/ p = Len(m) + 1 /\ r[p] = Event(w)
             \/ p = Len(m) + 2 /\ r[p] = Derived(w)
  <2>1. \/ p \in 1..Len(m) /\ r[p] = m[p]
        \/ p = Len(m) + 1 /\ r[p] = Event(w)
        \/ p = Len(m) + 2 /\ r[p] = Derived(w) /\ load[w].costs
    BY EntriesBehind
  <2> QED
    BY <2>1
<1>3. ~Event(w).derived /\ Derived(w).derived /\ Event(w).writer = w
  BY EntriesTyped
<1>4. \A p \in 1..Len(m) : m[p] # Event(w)
  BY DEF InLog
<1>5. NoRepeats(r)
  <2> SUFFICES ASSUME NEW p \in 1..Len(r), NEW q \in 1..Len(r), r[p] = r[q], ~r[p].derived
               PROVE  p = q
    BY DEF NoRepeats
  <2>1. p \in 1..Len(m) \/ p = Len(m) + 1
    BY <1>2, <1>3
  <2>2. q \in 1..Len(m) \/ q = Len(m) + 1
    BY <1>2, <1>3
  <2>3. CASE p \in 1..Len(m) /\ q \in 1..Len(m)
    BY <1>1, <2>3 DEF NoRepeats
  <2> QED
    BY <1>1, <1>4, <2>1, <2>2, <2>3
<1>6. Complete(r)
  <2> SUFFICES ASSUME NEW p \in 1..Len(r), ~r[p].derived, load[r[p].writer].costs
               PROVE  /\ p + 1 \in 1..Len(r)
                      /\ r[p + 1] = [writer |-> r[p].writer, derived |-> TRUE]
    BY DEF Complete
  <2>1. CASE p \in 1..Len(m)
    BY <1>1, <2>1 DEF Complete
  <2>2. CASE p = Len(m) + 1
    <3>1. r[p].writer = w /\ load[w].costs
      BY <1>1, <1>3, <2>2
    <3>2. p + 1 = Len(m) + 2
      BY <1>1, <2>2
    <3> QED
      BY <1>1, <3>1, <3>2 DEF Derived
  <2> QED
    BY <1>2, <1>3, <2>1, <2>2
<1>7. ASSUME NEW v \in Writers
      PROVE  InLog(r, v) <=> InLog(m, v) \/ v = w
  <2>1. ASSUME InLog(m, v) PROVE InLog(r, v)
    BY <1>1, <2>1 DEF InLog
  <2>2. InLog(r, w)
    BY <1>1 DEF InLog
  <2>3. ASSUME InLog(r, v), v # w PROVE InLog(m, v)
    <3>1. PICK p \in 1..Len(r) : r[p] = Event(v)
      BY <2>3 DEF InLog
    <3>2. Event(v) # Event(w) /\ Event(v) # Derived(w)
      BY <2>3 DEF Event, Derived
    <3> QED
      BY <1>2, <3>1, <3>2 DEF InLog
  <2> QED
    BY <2>1, <2>2, <2>3
<1> QED
  BY <1>5, <1>6, <1>7

LEMMA AppliedSteps ==
  ASSUME NEW m \in Seq(EntrySet), NEW batch \in Seq(Writers)
  PROVE  \E k : /\ k \in [0..Len(batch) -> Seq(EntrySet)]
                /\ k[0] = m /\ Applied(m, batch) = k[Len(batch)]
                /\ \A i \in 1..Len(batch) : k[i] = k[i - 1] \o Entries(batch[i])
<1> DEFINE n == Len(batch)
           g == [x \in Seq(EntrySet) \X (1..n) |-> x[1] \o Entries(batch[x[2]])]
<1>0. n \in Nat /\ 0 \in 0..n /\ n \in 0..n /\ \A i \in 1..n : i \in 0..n /\ i # 0
  OBVIOUS
<1>1. g \in [Seq(EntrySet) \X (1..n) -> Seq(EntrySet)]
  <2>1. ASSUME NEW x \in Seq(EntrySet) \X (1..n)
        PROVE  x[1] \o Entries(batch[x[2]]) \in Seq(EntrySet)
    <3>1. x[1] \in Seq(EntrySet) /\ batch[x[2]] \in Writers
      OBVIOUS
    <3>2. Entries(batch[x[2]]) \in Seq(EntrySet)
      BY <3>1, EntriesTyped
    <3> QED
      BY <3>1, <3>2, ConcatProperties
  <2> QED
    BY <2>1
<1> HIDE DEF n
<1>3. PICK h : Solves(h, n, Seq(EntrySet), m, g)
  <2> HIDE DEF g
  <2> QED
    BY <1>0, <1>1, StepsExist
<1>4. /\ h \in [0..n -> Seq(EntrySet)] /\ h[0] = m
      /\ \A i \in 1..n : h[i] = h[i - 1] \o Entries(batch[i])
  <2>1. /\ h \in [0..n -> Seq(EntrySet)] /\ h[0] = m
        /\ \A i \in 1..n : h[i] = g[<<h[i - 1], i>>]
    BY <1>3 DEF Solves
  <2>2. ASSUME NEW i \in 1..n
        PROVE  h[i] = h[i - 1] \o Entries(batch[i])
    <3>1. i - 1 \in 0..n
      BY <1>0
    <3>2. <<h[i - 1], i>> \in Seq(EntrySet) \X (1..n)
      BY <2>1, <3>1
    <3> QED
      BY <2>1, <3>2
  <2> QED
    BY <2>1, <2>2
<1> HIDE DEF g
<1>5. h = Applies(h, m, batch)
  <2>1. h = [i \in 0..n |-> h[i]]
    BY <1>4
  <2>2. \A i \in 0..n : i # 0 => i \in 1..n
    BY <1>0
  <2> QED
    BY <1>4, <2>1, <2>2 DEF Applies, n
<1> DEFINE k == CHOOSE f : f = Applies(f, m, batch)
<1>6. k = Applies(k, m, batch)
  BY <1>5
<1>7. Applied(m, batch) = k[n]
  BY DEF Applied, Applies, n
<1> HIDE DEF k
<1>8. k[0] = m
  BY <1>0, <1>6 DEF Applies, n
<1>9. ASSUME NEW i \in 1..n
      PROVE  k[i] = k[i - 1] \o Entries(batch[i])
  BY <1>0, <1>6 DEF Applies, n
<1>10. k \in [0..n -> Seq(EntrySet)]
  <2>1. k = [i \in 0..n |-> k[i]]
    BY <1>6 DEF Applies, n
  <2> DEFINE P == {i \in 0..n : k[i] \in Seq(EntrySet)}
  <2>2. 0 \in P
    BY <1>0, <1>8
  <2>3. ASSUME NEW i \in 1..n, i - 1 \in P PROVE i \in P
    <3>1. batch[i] \in Writers /\ i \in 0..n
      BY <1>0 DEF n
    <3>2. Entries(batch[i]) \in Seq(EntrySet)
      BY <3>1, EntriesTyped
    <3>3. k[i - 1] \o Entries(batch[i]) \in Seq(EntrySet)
      BY <2>3, <3>2, ConcatProperties
    <3> QED
      BY <1>9, <3>1, <3>3
  <2>4. \A i \in 0..n : i \in P
    <3> HIDE DEF P
    <3> QED
      BY <1>0, <2>2, <2>3, UpToHolds
  <2> QED
    BY <2>1, <2>4
<1> QED
  BY <1>7, <1>8, <1>9, <1>10 DEF n

\* r is m and what the events of a batch add to it.
Extended(m, batch, r) ==
  /\ NoRepeats(r) /\ Complete(r)
  /\ \A v \in Writers :
       InLog(r, v) <=> InLog(m, v) \/ \E i \in 1..Len(batch) : batch[i] = v
  /\ \A p \in 1..Len(r) :
       \/ \E q \in 1..Len(m) : r[p].writer = m[q].writer
       \/ \E i \in 1..Len(batch) : r[p].writer = batch[i]

\* A batch of the replay appends events that are not there yet.
LEMMA AppliedLog ==
  ASSUME NEW m \in Seq(EntrySet), NEW batch \in Seq(Writers),
         NoRepeats(m), Complete(m),
         \A i \in 1..Len(batch) : ~InLog(m, batch[i]),
         \A i, j \in 1..Len(batch) : batch[i] = batch[j] => i = j
  PROVE  Extended(m, batch, Applied(m, batch))
<1> DEFINE n == Len(batch)
<1>1. PICK k : /\ k \in [0..n -> Seq(EntrySet)]
               /\ k[0] = m /\ Applied(m, batch) = k[n]
               /\ \A i \in 1..n : k[i] = k[i - 1] \o Entries(batch[i])
  BY AppliedSteps
<1>2. n \in Nat /\ n \in 0..n /\ 0 \in 0..n
  OBVIOUS
<1>3. \A i \in 1..n : batch[i] \in Writers /\ i \in 0..n /\ i - 1 \in 0..n
  OBVIOUS
<1> DEFINE Held(i) == \A v \in Writers :
             InLog(k[i], v) <=> InLog(m, v) \/ \E j \in 1..i : batch[j] = v
           From(i) == \A p \in 1..Len(k[i]) :
             \/ \E q \in 1..Len(m) : k[i][p].writer = m[q].writer
             \/ \E j \in 1..n : k[i][p].writer = batch[j]
           P == {i \in 0..n : NoRepeats(k[i]) /\ Complete(k[i]) /\ Held(i) /\ From(i)}
<1>4. 0 \in P
  <2>1. 1..0 = {}
    OBVIOUS
  <2> QED
    BY <1>1, <1>2, <2>1
<1>5. ASSUME NEW i \in 1..n, i - 1 \in P
      PROVE  i \in P
  <2> DEFINE w == batch[i]
  <2>1. /\ k[i - 1] \in Seq(EntrySet) /\ w \in Writers /\ i \in 0..n
        /\ k[i] = k[i - 1] \o Entries(w)
        /\ NoRepeats(k[i - 1]) /\ Complete(k[i - 1]) /\ Held(i - 1) /\ From(i - 1)
    BY <1>1, <1>3, <1>5
  <2>2. ~InLog(k[i - 1], w)
    <3>1. \A j \in 1..(i - 1) : batch[j] # batch[i]
      OBVIOUS
    <3> QED
      BY <2>1, <3>1
  <2>3. Grown(k[i - 1], w, k[i])
    BY <2>1, EntriesAppended
  <2>4. /\ NoRepeats(k[i]) /\ Complete(k[i])
        /\ \A v \in Writers : InLog(k[i], v) <=> InLog(k[i - 1], v) \/ v = w
    BY <2>1, <2>2, <2>3, LogGrows
  <2>5. Held(i)
    <3>1. 1..i = 1..(i - 1) \cup {i}
      OBVIOUS
    <3> QED
      BY <2>1, <2>4, <3>1
  <2>6. From(i)
    <3> SUFFICES ASSUME NEW p \in 1..Len(k[i])
                 PROVE  \/ \E q \in 1..Len(m) : k[i][p].writer = m[q].writer
                        \/ \E j \in 1..n : k[i][p].writer = batch[j]
      OBVIOUS
    <3> DEFINE o == k[i - 1]
    <3>1. \/ p \in 1..Len(o) /\ k[i][p] = o[p]
          \/ p = Len(o) + 1 /\ k[i][p] = Event(w)
          \/ p = Len(o) + 2 /\ k[i][p] = Derived(w) /\ load[w].costs
      <4> HIDE DEF w
      <4> DEFINE r == k[i]
      <4>1. p \in 1..Len(r) /\ Grown(o, w, r) /\ w \in Writers
        BY <2>1, <2>3
      <4> HIDE DEF o, r
      <4>2. \/ p \in 1..Len(o) /\ r[p] = o[p]
            \/ p = Len(o) + 1 /\ r[p] = Event(w)
            \/ p = Len(o) + 2 /\ r[p] = Derived(w) /\ load[w].costs
        BY <4>1, EntriesBehind
      <4> QED
        BY <4>2 DEF r
    <3>2. Event(w).writer = w /\ Derived(w).writer = w
      BY <2>1, EntriesTyped
    <3> QED
      BY <2>1, <3>1, <3>2
  <2> QED
    BY <2>1, <2>4, <2>5, <2>6
<1>6. n \in P
  <2> HIDE DEF P
  <2> QED
    BY <1>2, <1>4, <1>5, UpToHolds
<1>7. Applied(m, batch) = k[n] /\ k[n] \in Seq(EntrySet)
  BY <1>1, <1>2
<1>8. Extended(m, batch, k[n])
  BY <1>6 DEF Extended
<1> QED
  BY <1>7, <1>8

LEMMA AppliedTyped ==
  ASSUME NEW m \in Seq(EntrySet), NEW batch \in Seq(Writers)
  PROVE  Applied(m, batch) \in Seq(EntrySet)
<1>1. Len(batch) \in 0..Len(batch)
  OBVIOUS
<1>2. PICK k : /\ k \in [0..Len(batch) -> Seq(EntrySet)]
               /\ k[0] = m /\ Applied(m, batch) = k[Len(batch)]
               /\ \A i \in 1..Len(batch) : k[i] = k[i - 1] \o Entries(batch[i])
  BY AppliedSteps
<1> QED
  BY <1>1, <1>2

-----------------------------------------------------------------------------
(* Types.                                                                  *)

ClientSet == [pc : {"off", "sub", "on"}, id : Nat, since : Nat, from : Nat,
              replay : Seq(FrameSet), queue : Seq(FrameSet)]

\* What the requests contribute to StreamTyped.
Typed(w) ==
  /\ req[w] \in ReqSet
  /\ InFrames(w) =>
       /\ req[w].frame \in FrameSet /\ req[w].todo # <<>>
       /\ req[w].frame.writer = Head(req[w].todo).writer

RestTyped ==
  /\ load \in Loads
  /\ memory \in Seq(EntrySet)
  /\ durable \in Seq(Writers)
  /\ up \in [pc : {"replay", "up"}, after : Nat] /\ up.after <= Len(durable)
  /\ seq \in Nat \ {0} /\ buffer \in Seq(FrameSet) /\ Len(buffer) <= Capacity
  /\ client \in [Clients -> ClientSet]
  /\ \A c \in Clients : Len(client[c].queue) <= QueueCap
  /\ ws \in [pc : {"off", "sub", "on"}, head : Nat, got : SUBSET Nat]
  /\ boot \in Nat /\ sent \subseteq FrameSet
  /\ got \in [Clients -> SUBSET FrameSet] /\ skipped \in [Clients -> SUBSET FrameSet]
  /\ faults \in 0..MaxFaults

LEMMA TypedParts ==
  /\ StreamTyped <=> /\ req \in [Writers -> ReqSet] /\ RestTyped
                     /\ \A w \in Writers : Typed(w)
  /\ StreamTyped' <=> /\ req' \in [Writers -> ReqSet] /\ RestTyped'
                      /\ \A w \in Writers : Typed(w)'
BY Zenon DEF StreamTyped, TypeOK, RestTyped, Typed, ClientSet, EntrySet

LEMMA TypedInit ==
  ASSUME Init PROVE StreamTyped
<1>1. req \in [Writers -> ReqSet]
  <2>1. NewReq \in ReqSet
    BY DEF NewReq, ReqSet
  <2> QED
    BY <2>1 DEF Init
<1>2. \A w \in Writers : Typed(w)
  <2>1. \A w \in Writers : req[w] = NewReq
    BY DEF Init
  <2> QED
    BY <1>1, <2>1 DEF Typed, InFrames, NewReq
<1>3. RestTyped
  <2>1. Away(0, 0) \in ClientSet /\ Away(0, 0).queue = <<>>
    BY DEF Away, ClientSet
  <2>2. client \in [Clients -> ClientSet] /\ \A c \in Clients : Len(client[c].queue) <= QueueCap
    BY <2>1, StreamAssumption DEF Init
  <2>3. got \in [Clients -> SUBSET FrameSet] /\ skipped \in [Clients -> SUBSET FrameSet]
    BY DEF Init
  <2>4. ws \in [pc : {"off", "sub", "on"}, head : Nat, got : SUBSET Nat]
    BY DEF Init, NoSocket
  <2>5. faults \in 0..MaxFaults /\ boot \in Nat /\ sent \subseteq FrameSet /\ seq \in Nat \ {0}
    BY StreamAssumption DEF Init
  <2>6. /\ load \in Loads /\ memory \in Seq(EntrySet) /\ durable \in Seq(Writers)
        /\ buffer \in Seq(FrameSet) /\ Len(buffer) <= Capacity
        /\ up \in [pc : {"replay", "up"}, after : Nat] /\ up.after <= Len(durable)
    BY StreamAssumption DEF Init
  <2> QED
    BY <2>2, <2>3, <2>4, <2>5, <2>6 DEF RestTyped
<1> QED
  BY <1>1, <1>2, <1>3, TypedParts

\* A request that moves leaves the others as they are.
LEMMA OneRequest ==
  ASSUME req \in [Writers -> ReqSet], \A v \in Writers : Typed(v),
         NEW w \in Writers, NEW r \in ReqSet, req' = [req EXCEPT ![w] = r],
         r.pc \in {"push", "send"} =>
           r.frame \in FrameSet /\ r.todo # <<>> /\ r.frame.writer = Head(r.todo).writer
  PROVE  req' \in [Writers -> ReqSet] /\ \A v \in Writers : Typed(v)'
<1>1. req' \in [Writers -> ReqSet] /\ req'[w] = r /\ \A v \in Writers : v # w => req'[v] = req[v]
  OBVIOUS
<1>2. Typed(w)'
  BY <1>1 DEF Typed, InFrames
<1>3. ASSUME NEW v \in Writers, v # w PROVE Typed(v)'
  BY <1>1, <1>3 DEF Typed, InFrames
<1> QED
  BY <1>1, <1>2, <1>3

LEMMA WriteTyped ==
  ASSUME durable \in Seq(Writers), NEW w \in Writers,
         up \in [pc : {"replay", "up"}, after : Nat], up.after <= Len(durable),
         Write(w) \/ UNCHANGED durable
  PROVE  durable' \in Seq(Writers) /\ up.after <= Len(durable')
<1>1. CASE Write(w)
  <2>1. durable' = Append(durable, w)
    BY <1>1 DEF Write
  <2> QED
    BY <2>1
<1> QED
  BY <1>1

LEMMA FaultCounted ==
  ASSUME faults \in 0..MaxFaults, NEW kind, Fault(kind)
  PROVE  faults' \in 0..MaxFaults
BY StreamAssumption DEF Fault

\* The steps of a request at the logs.
LEMMA TypedLogs ==
  ASSUME StreamTyped, NEW w \in Writers,
         \/ ReadHead(w) \/ AppendMemory(w) \/ AppendSecond(w)
         \/ CheckCause(w) \/ WriteDirect(w) \/ Cancel(w)
  PROVE  StreamTyped'
<1>0. /\ req \in [Writers -> ReqSet] /\ RestTyped /\ \A v \in Writers : Typed(v)
      /\ req[w] \in ReqSet
      /\ \A a \in {"none", "ok", "error", "found"} : Answered(req[w], a) \in ReqSet
  <2>1. /\ req \in [Writers -> ReqSet] /\ RestTyped /\ \A v \in Writers : Typed(v)
    BY TypedParts
  <2>2. req[w] \in ReqSet
    BY <2>1
  <2>3. \A a \in {"none", "ok", "error", "found"} : Answered(req[w], a) \in ReqSet
    BY <2>2 DEF Answered, ReqSet
  <2> QED
    BY <2>1, <2>2, <2>3
<1>00. \A a \in {"none", "ok", "error", "found"} : Answered(req[w], a).pc = "done"
  BY <1>0 DEF Answered, ReqSet
<1> SUFFICES RestTyped' /\ \E r \in ReqSet :
               /\ req' = [req EXCEPT ![w] = r]
               /\ r.pc \notin {"push", "send"}
  <2>1. req' \in [Writers -> ReqSet] /\ \A v \in Writers : Typed(v)'
    <3>1. PICK r \in ReqSet : req' = [req EXCEPT ![w] = r] /\ r.pc \notin {"push", "send"}
      OBVIOUS
    <3> QED
      BY <1>0, <3>1, OneRequest
  <2>2. StreamTyped' <=> req' \in [Writers -> ReqSet] /\ RestTyped' /\ \A v \in Writers : Typed(v)'
    BY TypedParts
  <2> QED
    BY <2>1, <2>2
<1>1. CASE ReadHead(w)
  <2> DEFINE r == [req[w] EXCEPT !.pc = "append", !.before = Len(memory)]
  <2>1. r \in ReqSet /\ r.pc = "append"
    <3>1. Len(memory) \in Nat
      BY <1>0 DEF RestTyped
    <3> QED
      BY <1>0, <3>1 DEF ReqSet
  <2>2. req' = [req EXCEPT ![w] = r]
    BY <1>0, <1>1 DEF ReadHead
  <2>3. RestTyped'
    BY <1>0, <1>1 DEF ReadHead, RestTyped, logs, frames, streams
  <2> QED
    BY <2>1, <2>2, <2>3
<1>2. CASE AppendMemory(w)
  <2> DEFINE at == Len(memory) + 1
             r == [req[w] EXCEPT !.pc = "second", !.pos = at]
  <2>1. r \in ReqSet /\ r.pc = "second" /\ at \in Nat
    <3>1. at \in Nat
      BY <1>0 DEF RestTyped
    <3> QED
      BY <1>0, <3>1 DEF ReqSet
  <2>2. req' = [req EXCEPT ![w] = r]
    BY <1>0, <1>2 DEF AppendMemory
  <2>3. memory' \in Seq(EntrySet)
    <3>1. Entries(w) \in Seq(EntrySet) /\ memory \in Seq(EntrySet)
      BY <1>0, EntriesTyped DEF RestTyped
    <3> QED
      BY <1>2, <3>1, ConcatProperties DEF AppendMemory
  <2>4. ws' \in [pc : {"off", "sub", "on"}, head : Nat, got : SUBSET Nat]
    BY <1>0, <1>2, <2>1 DEF AppendMemory, RestTyped
  <2>5. RestTyped'
    BY <1>0, <1>2, <2>3, <2>4 DEF AppendMemory, RestTyped, frames, streams
  <2> QED
    BY <2>1, <2>2, <2>5
<1>3. CASE AppendSecond(w)
  <2>1. durable' \in Seq(Writers) /\ up.after <= Len(durable') /\ faults' \in 0..MaxFaults
    <3>1. Write(w) \/ UNCHANGED durable
      BY <1>3 DEF AppendSecond, WriteFails
    <3>2. faults' = faults \/ Fault("fail")
      BY <1>3 DEF AppendSecond, WriteFails
    <3> QED
      BY <1>0, <3>1, <3>2, WriteTyped, FaultCounted DEF RestTyped
  <2>2. RestTyped'
    BY <1>0, <1>3, <2>1 DEF AppendSecond, RestTyped, frames, streams
  <2> DEFINE r == [req[w] EXCEPT !.pc = "read"]
  <2>3. r \in ReqSet /\ r.pc = "read"
    BY <1>0 DEF ReqSet
  <2>4. \/ req' = [req EXCEPT ![w] = r]
        \/ \E a \in {"ok", "error"} : req' = [req EXCEPT ![w] = Answered(req[w], a)]
    BY <1>0, <1>3 DEF AppendSecond
  <2> QED
    BY <1>0, <1>00, <2>2, <2>3, <2>4
<1>4. CASE CheckCause(w)
  <2>1. RestTyped'
    BY <1>0, <1>4 DEF CheckCause, RestTyped, logs, frames, streams
  <2>2. CASE Cause(w) # NoCause /\ Caused(Cause(w)) # {}
    <3> DEFINE p == Min(Caused(Cause(w)))
               r == Answered([req[w] EXCEPT !.pos = p], "found")
    <3>1. p \in Nat
      <4>1. Caused(Cause(w)) \subseteq Nat
        BY <1>0 DEF Caused, RestTyped
      <4>2. \E x \in Caused(Cause(w)) : \A y \in Caused(Cause(w)) : x <= y
        BY <2>2, <4>1, LeastNatural
      <4>3. p \in Caused(Cause(w))
        BY <4>2 DEF Min
      <4> QED
        BY <4>1, <4>3
    <3> HIDE DEF p
    <3>2. r \in ReqSet /\ r.pc = "done"
      BY <1>0, <3>1 DEF ReqSet, Answered
    <3>3. req' = [req EXCEPT ![w] = r]
      BY <1>0, <1>4, <2>2 DEF CheckCause, p
    <3> QED
      BY <2>1, <3>2, <3>3
  <2>3. CASE ~(Cause(w) # NoCause /\ Caused(Cause(w)) # {})
    <3> DEFINE r == [req[w] EXCEPT !.pc = "direct"]
    <3>1. r \in ReqSet /\ r.pc = "direct"
      BY <1>0 DEF ReqSet
    <3>2. req' = [req EXCEPT ![w] = r]
      BY <1>0, <1>4, <2>3 DEF CheckCause
    <3> QED
      BY <2>1, <3>1, <3>2
  <2> QED
    BY <2>2, <2>3
<1>5. CASE WriteDirect(w)
  <2>1. durable' \in Seq(Writers) /\ up.after <= Len(durable') /\ faults' \in 0..MaxFaults
    <3>1. Write(w) \/ UNCHANGED durable
      BY <1>5 DEF WriteDirect, WriteFails
    <3>2. faults' = faults \/ Fault("fail")
      BY <1>5 DEF WriteDirect, WriteFails
    <3> QED
      BY <1>0, <3>1, <3>2, WriteTyped, FaultCounted DEF RestTyped
  <2>2. RestTyped'
    BY <1>0, <1>5, <2>1 DEF WriteDirect, RestTyped, frames, streams
  <2> DEFINE r == [req[w] EXCEPT !.pc = "append"]
  <2>3. r \in ReqSet /\ r.pc = "append"
    BY <1>0 DEF ReqSet
  <2>4. \/ req' = [req EXCEPT ![w] = r]
        \/ req' = [req EXCEPT ![w] = Answered(req[w], "error")]
    BY <1>0, <1>5 DEF WriteDirect
  <2> QED
    BY <1>0, <1>00, <2>2, <2>3, <2>4
<1>6. CASE Cancel(w)
  <2>1. durable' \in Seq(Writers) /\ up.after <= Len(durable') /\ faults' \in 0..MaxFaults
    <3>1. (Write(w) \/ UNCHANGED durable) /\ Fault("cancel")
      BY <1>6 DEF Cancel
    <3> QED
      BY <1>0, <3>1, WriteTyped, FaultCounted DEF RestTyped
  <2>2. RestTyped'
    BY <1>0, <1>6, <2>1 DEF Cancel, RestTyped, frames, streams
  <2>3. req' = [req EXCEPT ![w] = Answered(req[w], "none")]
    BY <1>6 DEF Cancel
  <2> QED
    BY <1>0, <1>00, <2>2, <2>3
<1> QED
  BY <1>1, <1>2, <1>3, <1>4, <1>5, <1>6

LEMMA MinOfTwo ==
  ASSUME NEW a \in Nat, NEW b \in Nat
  PROVE  Min({a, b}) \in {a, b} /\ Min({a, b}) <= a /\ Min({a, b}) <= b
<1>1. \E x \in {a, b} : \A y \in {a, b} : x <= y
  <2>1. a <= b \/ b <= a
    OBVIOUS
  <2> QED
    BY <2>1
<1>2. Min({a, b}) \in {a, b} /\ \A y \in {a, b} : Min({a, b}) <= y
  BY <1>1 DEF Min
<1> QED
  BY <1>2

\* t is the window of s behind position p, k elements long at most; it ends at
\* position n.
IsWindow(T, s, p, k, n, t) ==
  /\ n \in Nat /\ n <= Len(s) /\ t \in Seq(T)
  /\ \A i \in 1..Len(t) : p + i \in 1..n /\ t[i] = s[p + i]
  /\ p <= Len(s) => p <= n /\ Len(t) = n - p /\ (Len(t) < k => n = Len(s))
  /\ \A q \in (p + 1)..Len(s) : q <= p + k => q \in (p + 1)..n /\ q - p \in 1..Len(t)

LEMMA Window ==
  ASSUME NEW T, NEW s \in Seq(T), NEW p \in Nat, NEW k \in Nat, k # 0
  PROVE  IsWindow(T, s, p, k, Min({p + k, Len(s)}), SubSeq(s, p + 1, Min({p + k, Len(s)})))
<1> DEFINE n == Min({p + k, Len(s)})
           t == SubSeq(s, p + 1, n)
<1>1. p + k \in Nat /\ Len(s) \in Nat /\ p + 1 \in Int
  OBVIOUS
<1>2. n \in Nat /\ n <= p + k /\ n <= Len(s) /\ (n = p + k \/ n = Len(s))
  BY <1>1, MinOfTwo
<1> HIDE DEF n
<1>3. \A i \in (p + 1)..n : s[i] \in T
  BY <1>2
<1>4. /\ t \in Seq(T) /\ Len(t) = IF p + 1 <= n THEN n - (p + 1) + 1 ELSE 0
      /\ \A i \in 1..(n - (p + 1) + 1) : t[i] = s[p + 1 + i - 1]
  <2> DEFINE m == p + 1
  <2>1. n \in Int /\ m \in Int
    BY <1>1, <1>2
  <2>3. \A i \in m..n : s[i] \in T
    BY <1>3
  <2> HIDE DEF m
  <2>2. /\ SubSeq(s, m, n) \in Seq(T)
        /\ Len(SubSeq(s, m, n)) = IF m <= n THEN n - m + 1 ELSE 0
        /\ \A i \in 1..(n - m + 1) : SubSeq(s, m, n)[i] = s[m + i - 1]
    <3>1. SubSeq(s, m, n) \in Seq(T)
      BY <2>1, <2>3, SubSeqProperties
    <3>2. Len(SubSeq(s, m, n)) = IF m <= n THEN n - m + 1 ELSE 0
      BY <2>1, <2>3, SubSeqProperties
    <3>3. \A i \in 1..(n - m + 1) : SubSeq(s, m, n)[i] = s[m + i - 1]
      BY <2>1, <2>3, SubSeqProperties
    <3> QED
      BY <3>1, <3>2, <3>3
  <2> QED
    BY <2>2 DEF m
<1> HIDE DEF t
<1>5. ASSUME NEW i \in 1..Len(t) PROVE p + i \in 1..n /\ t[i] = s[p + i]
  <2>1. p + 1 <= n /\ i \in 1..(n - (p + 1) + 1) /\ p + 1 + i - 1 = p + i
    BY <1>2, <1>4
  <2> QED
    BY <1>2, <1>4, <2>1
<1>6. p <= Len(s) => p <= n /\ Len(t) = n - p /\ (Len(t) < k => n = Len(s))
  BY <1>2, <1>4
<1>7. \A q \in (p + 1)..Len(s) : q <= p + k => q \in (p + 1)..n /\ q - p \in 1..Len(t)
  BY <1>2, <1>4
<1>8. IsWindow(T, s, p, k, n, t)
  BY <1>2, <1>4, <1>5, <1>6, <1>7 DEF IsWindow
<1> QED
  BY <1>8 DEF n, t

LEMMA TailElements ==
  ASSUME NEW T, NEW s \in Seq(T), s # <<>>
  PROVE  /\ Head(s) \in T /\ Tail(s) \in Seq(T) /\ Len(Tail(s)) = Len(s) - 1
         /\ Head(s) = s[1] /\ Len(s) >= 1
         /\ ToSet(s) = {Head(s)} \cup ToSet(Tail(s))
<1>1. /\ Head(s) \in T /\ Tail(s) \in Seq(T) /\ Len(Tail(s)) = Len(s) - 1
      /\ Head(s) = s[1] /\ Len(s) \in Nat /\ Len(s) >= 1
      /\ \A i \in 1..(Len(s) - 1) : Tail(s)[i] = s[i + 1]
  OBVIOUS
<1>2. /\ ToSet(s) = {s[i] : i \in 1..Len(s)}
      /\ ToSet(Tail(s)) = {Tail(s)[i] : i \in 1..(Len(s) - 1)}
  <2>1. DOMAIN s = 1..Len(s) /\ DOMAIN Tail(s) = 1..Len(Tail(s))
    BY <1>1
  <2> QED
    BY <1>1, <2>1 DEF ToSet
<1>3. ASSUME NEW x \in ToSet(s) PROVE x \in {Head(s)} \cup ToSet(Tail(s))
  <2>1. PICK i \in 1..Len(s) : x = s[i]
    BY <1>2
  <2>2. i = 1 \/ (i - 1 \in 1..(Len(s) - 1) /\ Tail(s)[i - 1] = s[i])
    BY <1>1
  <2> QED
    BY <1>1, <1>2, <2>1, <2>2
<1>4. ASSUME NEW x \in ToSet(Tail(s)) PROVE x \in ToSet(s)
  <2>1. PICK i \in 1..(Len(s) - 1) : x = Tail(s)[i]
    BY <1>2
  <2>2. i + 1 \in 1..Len(s) /\ x = s[i + 1]
    BY <1>1, <2>1
  <2> QED
    BY <1>2, <2>2
<1>5. Head(s) \in ToSet(s)
  BY <1>1, <1>2
<1> QED
  BY <1>1, <1>3, <1>4, <1>5

\* The frames of a publication.
LEMMA TypedFrames ==
  ASSUME StreamTyped, NEW w \in Writers,
         \/ ReadEvents(w) \/ Progress(w) \/ TakeSeq(w) \/ PushFrame(w) \/ Finish(w)
  PROVE  StreamTyped'
<1>0. /\ req \in [Writers -> ReqSet] /\ RestTyped /\ \A v \in Writers : Typed(v)
      /\ req[w] \in ReqSet /\ Typed(w) /\ req[w].todo \in Seq(EntrySet)
  <2>1. /\ req \in [Writers -> ReqSet] /\ RestTyped /\ \A v \in Writers : Typed(v)
    BY TypedParts
  <2>2. req[w] \in ReqSet /\ Typed(w)
    BY <2>1
  <2>3. req[w].todo \in Seq(EntrySet)
    BY <2>2 DEF ReqSet, EntrySet
  <2> QED
    BY <2>1, <2>2, <2>3
<1> SUFFICES RestTyped' /\ \E r \in ReqSet :
               /\ req' = [req EXCEPT ![w] = r]
               /\ r.pc \in {"push", "send"} =>
                    r.frame \in FrameSet /\ r.todo # <<>> /\ r.frame.writer = Head(r.todo).writer
  <2>1. req' \in [Writers -> ReqSet] /\ \A v \in Writers : Typed(v)'
    <3>1. PICK r \in ReqSet :
               /\ req' = [req EXCEPT ![w] = r]
               /\ r.pc \in {"push", "send"} =>
                    r.frame \in FrameSet /\ r.todo # <<>> /\ r.frame.writer = Head(r.todo).writer
      OBVIOUS
    <3> QED
      BY <1>0, <3>1, OneRequest
  <2> QED
    BY <2>1, TypedParts
<1>1. CASE ReadEvents(w)
  <2> DEFINE t == Framed(EventsAfter(req[w].before))
             r == [req[w] EXCEPT !.pc = "frame", !.todo = t]
  <2>1. t \in Seq(EntrySet)
    <3>1. req[w].before \in Nat /\ memory \in Seq(EntrySet) /\ ReadLimit \in Nat /\ ReadLimit # 0
      BY <1>0, StreamAssumption DEF ReqSet, RestTyped
    <3>2. IsWindow(EntrySet, memory, req[w].before, ReadLimit,
                   Min({req[w].before + ReadLimit, Len(memory)}), EventsAfter(req[w].before))
      BY <3>1, Window DEF EventsAfter
    <3>3. EventsAfter(req[w].before) \in Seq(EntrySet)
      BY <3>2 DEF IsWindow
    <3> QED
      BY <3>3, KeptElements DEF Framed
  <2>2. req' = [req EXCEPT ![w] = r]
    BY <1>0, <1>1 DEF ReadEvents
  <2> HIDE DEF t
  <2>3. r \in ReqSet /\ r.pc = "frame"
    BY <1>0, <2>1 DEF ReqSet, EntrySet
  <2>4. RestTyped'
    BY <1>0, <1>1 DEF ReadEvents, RestTyped, logs, frames, streams
  <2> QED
    BY <2>2, <2>3, <2>4
<1>2. CASE Progress(w)
  <2> DEFINE r == [req[w] EXCEPT !.pc = "frame", !.todo = <<Event(w)>>]
  <2>1. <<Event(w)>> \in Seq(EntrySet)
    <3>1. Event(w) \in EntrySet
      BY EntriesTyped
    <3> QED
      BY <3>1
  <2>2. req' = [req EXCEPT ![w] = r]
    BY <1>0, <1>2 DEF Progress
  <2>3. r \in ReqSet /\ r.pc = "frame"
    BY <1>0, <2>1 DEF ReqSet, EntrySet
  <2>4. RestTyped'
    BY <1>0, <1>2 DEF Progress, RestTyped, logs, frames, streams
  <2> QED
    BY <2>2, <2>3, <2>4
<1>3. CASE TakeSeq(w)
  <2> DEFINE f == [seq |-> seq, writer |-> Head(req[w].todo).writer,
                   boot |-> boot, id |-> Kind(w) # "github"]
             r == [req[w] EXCEPT !.pc = "push", !.frame = f]
  <2>1. f \in FrameSet /\ f.writer = Head(req[w].todo).writer
    <3>1. Head(req[w].todo) \in EntrySet
      BY <1>0, <1>3, TailElements DEF TakeSeq
    <3>2. Head(req[w].todo).writer \in Writers
      BY <3>1, EventOf
    <3> QED
      BY <1>0, <3>2 DEF FrameSet, RestTyped
  <2>2. req' = [req EXCEPT ![w] = r]
    BY <1>0, <1>3 DEF TakeSeq
  <2> HIDE DEF f
  <2>3. r \in ReqSet /\ r.frame = f /\ r.todo = req[w].todo
    BY <1>0, <2>1 DEF ReqSet
  <2>4. RestTyped'
    <3>1. seq' \in Nat \ {0}
      BY <1>0, <1>3 DEF TakeSeq, RestTyped
    <3> QED
      BY <1>0, <1>3, <3>1 DEF TakeSeq, RestTyped, logs, streams
  <2>5. req[w].todo # <<>>
    BY <1>3 DEF TakeSeq
  <2> QED
    BY <2>1, <2>2, <2>3, <2>4, <2>5
<1>4. CASE PushFrame(w)
  <2> DEFINE r == [req[w] EXCEPT !.pc = "send"]
  <2>1. /\ r \in ReqSet /\ r.frame = req[w].frame /\ r.todo = req[w].todo
        /\ r.frame \in FrameSet /\ r.todo # <<>> /\ r.frame.writer = Head(r.todo).writer
    BY <1>0, <1>4 DEF ReqSet, PushFrame, Typed, InFrames
  <2>2. req' = [req EXCEPT ![w] = r]
    BY <1>0, <1>4 DEF PushFrame
  <2>3. buffer' \in Seq(FrameSet) /\ Len(buffer') <= Capacity
    <3>1. buffer \in Seq(FrameSet) /\ Len(buffer) <= Capacity /\ Capacity \in Nat \ {0}
      BY <1>0, StreamAssumption DEF RestTyped
    <3>2. Trimmed(buffer) \in Seq(FrameSet) /\ Len(Trimmed(buffer)) + 1 <= Capacity
      <4>1. CASE Len(buffer) >= Capacity
        <5>1. buffer # <<>>
          BY <3>1, <4>1
        <5>2. Tail(buffer) \in Seq(FrameSet) /\ Len(Tail(buffer)) = Len(buffer) - 1
          BY <3>1, <5>1, TailElements
        <5> QED
          BY <3>1, <4>1, <5>2 DEF Trimmed
      <4>2. CASE ~(Len(buffer) >= Capacity)
        BY <3>1, <4>2 DEF Trimmed
      <4> QED
        BY <4>1, <4>2
    <3>3. buffer' = Append(Trimmed(buffer), req[w].frame) /\ req[w].frame \in FrameSet
      BY <1>4, <2>1 DEF PushFrame
    <3> QED
      BY <3>2, <3>3, AppendProperties
  <2>4. RestTyped'
    BY <1>0, <1>4, <2>3 DEF PushFrame, RestTyped, logs, streams
  <2> QED
    BY <2>1, <2>2, <2>4
<1>5. CASE Finish(w)
  <2> DEFINE r == Answered(req[w], "ok")
  <2>1. r \in ReqSet /\ r.pc = "done"
    BY <1>0 DEF ReqSet, Answered
  <2>2. req' = [req EXCEPT ![w] = r]
    BY <1>5 DEF Finish
  <2>3. RestTyped'
    BY <1>0, <1>5 DEF Finish, RestTyped, logs, frames, streams
  <2> QED
    BY <2>1, <2>2, <2>3
<1> QED
  BY <1>1, <1>2, <1>3, <1>4, <1>5

\* A queue that takes a frame, and gives up its oldest if it is full.
Taken(q, f) == Append(IF Len(q) >= QueueCap THEN Tail(q) ELSE q, f)

LEMMA QueueTakes ==
  ASSUME NEW q \in Seq(FrameSet), Len(q) <= QueueCap, NEW f \in FrameSet
  PROVE  /\ Taken(q, f) \in Seq(FrameSet) /\ Len(Taken(q, f)) <= QueueCap
         /\ f \in ToSet(Taken(q, f))
         /\ Len(q) >= QueueCap =>
              Head(q) \in FrameSet /\ ToSet(q) \subseteq ToSet(Taken(q, f)) \cup {Head(q)}
         /\ ~(Len(q) >= QueueCap) => ToSet(q) \subseteq ToSet(Taken(q, f))
<1> DEFINE t == Taken(q, f)
<1>0. t = Append(IF Len(q) >= QueueCap THEN Tail(q) ELSE q, f)
  BY DEF Taken
<1> SUFFICES /\ t \in Seq(FrameSet) /\ Len(t) <= QueueCap /\ f \in ToSet(t)
             /\ Len(q) >= QueueCap =>
                  Head(q) \in FrameSet /\ ToSet(q) \subseteq ToSet(t) \cup {Head(q)}
             /\ ~(Len(q) >= QueueCap) => ToSet(q) \subseteq ToSet(t)
  OBVIOUS
<1> HIDE DEF t
<1>1. QueueCap \in Nat /\ QueueCap # 0 /\ Len(q) \in Nat
  BY StreamAssumption
<1>2. ASSUME NEW u \in Seq(FrameSet), t = Append(u, f)
      PROVE  t \in Seq(FrameSet) /\ Len(t) = Len(u) + 1 /\ ToSet(t) = ToSet(u) \cup {f}
  <2>1. Append(u, f) \in Seq(FrameSet) /\ ToSet(Append(u, f)) = ToSet(u) \cup {f}
    BY AppendedElements
  <2>2. Len(Append(u, f)) = Len(u) + 1
    BY AppendProperties
  <2> QED
    BY <1>2, <2>1, <2>2
<1>3. CASE Len(q) >= QueueCap
  <2> DEFINE u == Tail(q)
  <2>1. q # <<>> /\ t = Append(u, f)
    BY <1>0, <1>1, <1>3
  <2>2. /\ Head(q) \in FrameSet /\ u \in Seq(FrameSet) /\ Len(u) = Len(q) - 1
        /\ ToSet(q) = {Head(q)} \cup ToSet(u)
    BY <2>1, TailElements
  <2> HIDE DEF u
  <2>3. t \in Seq(FrameSet) /\ Len(t) = Len(u) + 1 /\ ToSet(t) = ToSet(u) \cup {f}
    BY <1>2, <2>1, <2>2
  <2>4. Len(t) <= QueueCap
    BY <1>1, <2>2, <2>3
  <2>5. ToSet(q) \subseteq ToSet(t) \cup {Head(q)}
    BY <2>2, <2>3
  <2> QED
    BY <1>3, <2>2, <2>3, <2>4, <2>5
<1>4. CASE ~(Len(q) >= QueueCap)
  <2>1. t = Append(q, f)
    BY <1>0, <1>4
  <2>2. t \in Seq(FrameSet) /\ Len(t) = Len(q) + 1 /\ ToSet(t) = ToSet(q) \cup {f}
    BY <1>2, <2>1
  <2>3. Len(t) <= QueueCap
    BY <1>1, <1>4, <2>2
  <2> QED
    BY <1>4, <2>2, <2>3
<1> QED
  BY <1>3, <1>4

\* What a broadcast does to a client.
LEMMA SendClient ==
  ASSUME StreamTyped, NEW w \in Writers, SendFrame(w), NEW c \in Clients
  PROVE  /\ client[c].pc = "off" => client'[c] = client[c] /\ skipped'[c] = skipped[c]
         /\ client[c].pc # "off" =>
              /\ client'[c] = [client[c] EXCEPT !.queue = Taken(client[c].queue, req[w].frame)]
              /\ skipped'[c] = IF Len(client[c].queue) >= QueueCap
                               THEN skipped[c] \cup {Head(client[c].queue)} ELSE skipped[c]
BY DEF SendFrame, Taken

LEMMA TypedSend ==
  ASSUME StreamTyped, NEW w \in Writers, SendFrame(w)
  PROVE  StreamTyped'
<1>0. /\ req \in [Writers -> ReqSet] /\ RestTyped /\ \A v \in Writers : Typed(v)
      /\ req[w] \in ReqSet /\ Typed(w)
  <2>1. /\ req \in [Writers -> ReqSet] /\ RestTyped /\ \A v \in Writers : Typed(v)
    BY TypedParts
  <2> QED
    BY <2>1
<1>1. req[w].frame \in FrameSet /\ req[w].todo # <<>> /\ req[w].todo \in Seq(EntrySet)
  BY <1>0 DEF SendFrame, Typed, InFrames, ReqSet, EntrySet
<1>2. req' \in [Writers -> ReqSet] /\ \A v \in Writers : Typed(v)'
  <2> DEFINE t == Tail(req[w].todo)
             r == [req[w] EXCEPT !.pc = "frame", !.todo = t, !.frame = NoFrame]
  <2>1. t \in Seq(EntrySet)
    BY <1>1, TailElements
  <2>2. req' = [req EXCEPT ![w] = r]
    BY <1>0 DEF SendFrame
  <2> HIDE DEF t
  <2>3. r \in ReqSet /\ r.pc = "frame"
    BY <1>0, <2>1 DEF ReqSet, EntrySet
  <2> QED
    BY <1>0, <2>2, <2>3, OneRequest
<1>3. ASSUME NEW c \in Clients
      PROVE  client'[c] \in ClientSet /\ Len(client'[c].queue) <= QueueCap
             /\ skipped'[c] \in SUBSET FrameSet
  <2>1. /\ client[c] \in ClientSet /\ client[c].queue \in Seq(FrameSet)
        /\ Len(client[c].queue) <= QueueCap /\ skipped[c] \in SUBSET FrameSet
    <3>1. /\ client[c] \in ClientSet /\ Len(client[c].queue) <= QueueCap
          /\ skipped[c] \in SUBSET FrameSet
      BY <1>0 DEF RestTyped
    <3> QED
      BY <3>1 DEF ClientSet
  <2>2. CASE client[c].pc = "off"
    BY <2>1, <2>2, SendClient
  <2>3. CASE client[c].pc # "off"
    <3> DEFINE q == Taken(client[c].queue, req[w].frame)
    <3>1. /\ q \in Seq(FrameSet) /\ Len(q) <= QueueCap
          /\ Len(client[c].queue) >= QueueCap => Head(client[c].queue) \in FrameSet
      BY <1>1, <2>1, QueueTakes
    <3> HIDE DEF q
    <3>2. /\ client'[c] = [client[c] EXCEPT !.queue = q]
          /\ skipped'[c] = IF Len(client[c].queue) >= QueueCap
                           THEN skipped[c] \cup {Head(client[c].queue)} ELSE skipped[c]
      BY <2>3, SendClient DEF q
    <3>3. client'[c] \in ClientSet /\ client'[c].queue = q
      BY <2>1, <3>1, <3>2 DEF ClientSet
    <3>4. skipped'[c] \in SUBSET FrameSet
      <4> HIDE DEF RestTyped
      <4> QED
        BY <2>1, <3>1, <3>2
    <3> QED
      BY <3>1, <3>3, <3>4
  <2> QED
    BY <2>2, <2>3
<1>4. client' \in [Clients -> ClientSet] /\ skipped' \in [Clients -> SUBSET FrameSet]
  <2>1. client' = [c \in Clients |-> client'[c]] /\ skipped' = [c \in Clients |-> skipped'[c]]
    BY DEF SendFrame
  <2> QED
    BY <1>3, <2>1
<1>5. RestTyped'
  <2>1. sent' \subseteq FrameSet
    BY <1>0, <1>1 DEF SendFrame, RestTyped
  <2> QED
    BY <1>0, <1>3, <1>4, <2>1 DEF SendFrame, RestTyped, logs
<1> QED
  BY <1>2, <1>5, TypedParts

LEMMA TypedClients ==
  ASSUME StreamTyped, NEW c \in Clients, ClientStep(c)
  PROVE  StreamTyped'
<1>0. /\ req \in [Writers -> ReqSet] /\ RestTyped /\ \A v \in Writers : Typed(v)
      /\ client \in [Clients -> ClientSet] /\ client[c] \in ClientSet
      /\ Len(client[c].queue) <= QueueCap /\ got \in [Clients -> SUBSET FrameSet]
  <2>1. /\ req \in [Writers -> ReqSet] /\ RestTyped /\ \A v \in Writers : Typed(v)
    BY TypedParts
  <2> QED
    BY <2>1 DEF RestTyped
<1>1. /\ client[c].replay \in Seq(FrameSet) /\ client[c].queue \in Seq(FrameSet)
      /\ client[c].id \in Nat /\ client[c].since \in Nat /\ client[c].from \in Nat
  BY <1>0 DEF ClientSet
<1>2. req' = req
  BY DEF ClientStep, Subscribe, ReadBuffer, Receive, Leave
<1>3. req' \in [Writers -> ReqSet] /\ \A v \in Writers : Typed(v)'
  BY <1>0, <1>2 DEF Typed, InFrames
<1> SUFFICES \E s \in ClientSet, g \in SUBSET FrameSet :
               /\ client' = [client EXCEPT ![c] = s] /\ Len(s.queue) <= QueueCap
               /\ got' = [got EXCEPT ![c] = g]
               /\ faults' \in 0..MaxFaults
  <2>1. PICK s \in ClientSet, g \in SUBSET FrameSet :
               /\ client' = [client EXCEPT ![c] = s] /\ Len(s.queue) <= QueueCap
               /\ got' = [got EXCEPT ![c] = g]
               /\ faults' \in 0..MaxFaults
    OBVIOUS
  <2>2. /\ client' \in [Clients -> ClientSet] /\ got' \in [Clients -> SUBSET FrameSet]
        /\ \A d \in Clients : Len(client'[d].queue) <= QueueCap
    BY <1>0, <2>1 DEF RestTyped
  <2>3. UNCHANGED <<load, memory, durable, up, seq, buffer, sent, skipped, ws, boot>>
    BY DEF ClientStep, Subscribe, ReadBuffer, Receive, Leave, logs, frames
  <2>4. RestTyped'
    BY <1>0, <2>1, <2>2, <2>3 DEF RestTyped
  <2> QED
    BY <1>3, <2>4, TypedParts
<1>g. got = [got EXCEPT ![c] = got[c]] /\ got[c] \in SUBSET FrameSet /\ faults \in 0..MaxFaults
  BY <1>0 DEF RestTyped
<1>4. CASE Subscribe(c)
  <2> DEFINE a == IF client[c].id = 0 THEN seq - 1 ELSE client[c].since
             b == IF client[c].id = 0 THEN seq - 1 ELSE client[c].id
             s == [client[c] EXCEPT !.pc = "sub", !.since = a, !.from = b]
  <2>1. a \in Nat /\ b \in Nat
    <3>1. seq \in Nat \ {0}
      BY <1>0 DEF RestTyped
    <3> QED
      BY <1>1, <3>1
  <2>2. client' = [client EXCEPT ![c] = s]
    BY <1>0, <1>4 DEF Subscribe
  <2> HIDE DEF a, b
  <2>3. s \in ClientSet /\ s.queue = client[c].queue
    BY <1>0, <2>1 DEF ClientSet
  <2> QED
    BY <1>0, <1>4, <1>g, <2>2, <2>3 DEF Subscribe
<1>5. CASE ReadBuffer(c)
  <2> DEFINE m == Missed(client[c].id)
             s == [client[c] EXCEPT !.pc = "on", !.replay = m]
  <2>1. m \in Seq(FrameSet)
    <3>1. buffer \in Seq(FrameSet) /\ <<>> \in Seq(FrameSet)
      BY <1>0 DEF RestTyped
    <3> QED
      BY <3>1, KeptElements DEF Missed
  <2>2. client' = [client EXCEPT ![c] = s]
    BY <1>0, <1>5 DEF ReadBuffer
  <2> HIDE DEF m
  <2>3. s \in ClientSet /\ s.queue = client[c].queue
    BY <1>0, <2>1 DEF ClientSet
  <2> QED
    BY <1>0, <1>5, <1>g, <2>2, <2>3 DEF ReadBuffer
<1>6. CASE Leave(c)
  <2> DEFINE s == Away(client[c].id, client[c].since)
  <2>1. s \in ClientSet /\ Len(s.queue) <= QueueCap
    BY <1>1, StreamAssumption DEF ClientSet, Away
  <2>2. client' = [client EXCEPT ![c] = s] /\ got' = got /\ Fault("leave")
    BY <1>6 DEF Leave
  <2>3. faults' \in 0..MaxFaults
    BY <1>g, <2>2, FaultCounted
  <2> QED
    BY <1>g, <2>1, <2>2, <2>3
<1>7. CASE Receive(c)
  <2>1. CASE client[c].replay # <<>>
    <3> DEFINE f == Head(client[c].replay)
               t == Tail(client[c].replay)
               s == [client[c] EXCEPT !.id = f.seq, !.replay = t]
               g == got[c] \cup {f}
    <3>1. f \in FrameSet /\ t \in Seq(FrameSet)
      BY <1>1, <2>1, TailElements
    <3>2. /\ client' = [client EXCEPT ![c] = s]
          /\ got' = [got EXCEPT ![c] = g] /\ faults' = faults
      BY <1>0, <1>7, <2>1 DEF Receive
    <3> HIDE DEF f, t
    <3>3. f.seq \in Nat
      BY <3>1 DEF FrameSet
    <3>4. s \in ClientSet /\ s.queue = client[c].queue
      BY <1>0, <3>1, <3>3 DEF ClientSet
    <3>5. g \in SUBSET FrameSet
      BY <1>g, <3>1
    <3> QED
      BY <1>0, <1>g, <3>2, <3>4, <3>5
  <2>2. CASE client[c].replay = <<>>
    <3> DEFINE f == Head(client[c].queue)
               t == Tail(client[c].queue)
               i == IF f.id THEN f.seq ELSE client[c].id
               s == [client[c] EXCEPT !.id = i, !.queue = t]
               g == got[c] \cup {f}
    <3>0. client[c].queue # <<>>
      BY <1>7, <2>2 DEF Receive
    <3>1. f \in FrameSet /\ t \in Seq(FrameSet) /\ Len(t) = Len(client[c].queue) - 1
      BY <1>1, <3>0, TailElements
    <3>2. /\ client' = [client EXCEPT ![c] = s]
          /\ got' = [got EXCEPT ![c] = g] /\ faults' = faults
      BY <1>0, <1>7, <2>2 DEF Receive
    <3> HIDE DEF f, t
    <3>3. i \in Nat
      BY <1>1, <3>1 DEF FrameSet
    <3> HIDE DEF i
    <3>4. s \in ClientSet /\ s.queue = t
      BY <1>0, <3>1, <3>3 DEF ClientSet
    <3>5. Len(t) <= QueueCap
      BY <1>0, <1>1, <3>1, StreamAssumption
    <3>6. g \in SUBSET FrameSet
      BY <1>g, <3>1
    <3> QED
      BY <1>g, <3>2, <3>4, <3>5, <3>6
  <2> QED
    BY <2>1, <2>2
<1> QED
  BY <1>4, <1>5, <1>6, <1>7 DEF ClientStep

\* A batch of the replay: what is read of the durable log, and where to.
LEMMA ReplayWindow ==
  ASSUME StreamTyped, Replay
  PROVE  \E n, batch :
           /\ IsWindow(Writers, durable, up.after, ReplayBatch, n, batch)
           /\ memory' = Applied(memory, batch) /\ up'.after = n
           /\ up'.pc = IF Len(batch) < ReplayBatch THEN "up" ELSE "replay"
<1> DEFINE n == Min({up.after + ReplayBatch, Len(durable)})
           batch == SubSeq(durable, up.after + 1, n)
<1>1. /\ memory' = Applied(memory, batch)
      /\ up' = [pc |-> IF Len(batch) < ReplayBatch THEN "up" ELSE "replay", after |-> n]
  BY DEF Replay
<1>2. up.after \in Nat /\ durable \in Seq(Writers) /\ ReplayBatch \in Nat /\ ReplayBatch # 0
  BY StreamAssumption DEF StreamTyped, TypeOK
<1>3. IsWindow(Writers, durable, up.after, ReplayBatch, n, batch)
  BY <1>2, Window
<1> HIDE DEF n, batch
<1> QED
  BY <1>1, <1>3

LEMMA TypedSystem ==
  ASSUME StreamTyped, SocketSubscribes \/ SocketReadsHead \/ Crash \/ Replay
  PROVE  StreamTyped'
<1>0. /\ req \in [Writers -> ReqSet] /\ RestTyped /\ \A v \in Writers : Typed(v)
  BY TypedParts
<1>1. CASE SocketSubscribes \/ SocketReadsHead
  <2>1. UNCHANGED <<load, memory, durable, up, req, seq, buffer, sent, client, got, skipped,
                    boot, faults>>
    BY <1>1 DEF SocketSubscribes, SocketReadsHead, logs, frames, streams
  <2>2. req' \in [Writers -> ReqSet] /\ \A v \in Writers : Typed(v)'
    BY <1>0, <2>1 DEF Typed, InFrames
  <2>3. ws' \in [pc : {"off", "sub", "on"}, head : Nat, got : SUBSET Nat]
    <3>1. ws \in [pc : {"off", "sub", "on"}, head : Nat, got : SUBSET Nat] /\ Len(memory) \in Nat
      BY <1>0 DEF RestTyped
    <3>2. CASE SocketSubscribes
      BY <3>2 DEF SocketSubscribes, NoSocket
    <3>3. CASE SocketReadsHead
      BY <3>1, <3>3 DEF SocketReadsHead
    <3> QED
      BY <1>1, <3>2, <3>3
  <2>4. RestTyped'
    BY <1>0, <2>1, <2>3 DEF RestTyped
  <2> QED
    BY <2>2, <2>4, TypedParts
<1>2. CASE Crash
  <2>1. ASSUME NEW v \in Writers
        PROVE  req'[v] \in ReqSet /\ req'[v].pc \in {"start", "done"}
    <3>1. req'[v] = IF req[v].pc \in {"start", "done"} THEN req[v] ELSE Answered(req[v], "none")
      BY <1>2 DEF Crash
    <3>2. req[v] \in ReqSet
      BY <1>0
    <3>3. Answered(req[v], "none") \in ReqSet /\ Answered(req[v], "none").pc = "done"
      BY <3>2 DEF Answered, ReqSet
    <3> QED
      BY <3>1, <3>2, <3>3
  <2>2. req' = [v \in Writers |-> req'[v]]
    BY <1>2 DEF Crash
  <2>3. req' \in [Writers -> ReqSet] /\ \A v \in Writers : Typed(v)'
    BY <2>1, <2>2 DEF Typed, InFrames
  <2>4. ASSUME NEW c \in Clients
        PROVE  Away(client[c].id, 0) \in ClientSet /\ Away(client[c].id, 0).queue = <<>>
    <3>1. client[c] \in ClientSet
      BY <1>0 DEF RestTyped
    <3> QED
      BY <3>1 DEF Away, ClientSet
  <2>5. client' \in [Clients -> ClientSet] /\ \A c \in Clients : Len(client'[c].queue) <= QueueCap
    BY <1>2, <2>4, StreamAssumption DEF Crash
  <2>6. ws' \in [pc : {"off", "sub", "on"}, head : Nat, got : SUBSET Nat]
    BY <1>2 DEF Crash, NoSocket
  <2>7. faults' \in 0..MaxFaults /\ boot' \in Nat
    <3>1. Fault("crash") /\ boot' = boot + 1
      BY <1>2 DEF Crash
    <3> QED
      BY <1>0, <3>1, FaultCounted DEF RestTyped
  <2>8. got' \in [Clients -> SUBSET FrameSet] /\ skipped' \in [Clients -> SUBSET FrameSet]
    BY <1>2 DEF Crash
  <2>9. /\ memory' \in Seq(EntrySet) /\ up' \in [pc : {"replay", "up"}, after : Nat]
        /\ up'.after <= Len(durable') /\ buffer' \in Seq(FrameSet) /\ Len(buffer') <= Capacity
        /\ seq' \in Nat \ {0} /\ durable' = durable /\ load' = load /\ sent' = sent
    BY <1>0, <1>2, StreamAssumption DEF Crash, RestTyped
  <2>10. RestTyped'
    BY <1>0, <2>5, <2>6, <2>7, <2>8, <2>9 DEF RestTyped
  <2> QED
    BY <2>3, <2>10, TypedParts
<1>3. CASE Replay
  <2>1. PICK n, batch :
           /\ IsWindow(Writers, durable, up.after, ReplayBatch, n, batch)
           /\ memory' = Applied(memory, batch) /\ up'.after = n
           /\ up'.pc = IF Len(batch) < ReplayBatch THEN "up" ELSE "replay"
    BY <1>3, ReplayWindow
  <2>2. UNCHANGED <<load, durable, req, seq, buffer, sent, client, got, skipped, ws, boot, faults>>
    BY <1>3 DEF Replay, frames, streams
  <2>3. req' \in [Writers -> ReqSet] /\ \A v \in Writers : Typed(v)'
    BY <1>0, <2>2 DEF Typed, InFrames
  <2>4. memory' \in Seq(EntrySet)
    BY <1>0, <2>1, AppliedTyped DEF RestTyped, IsWindow
  <2>5. up' \in [pc : {"replay", "up"}, after : Nat] /\ up'.after <= Len(durable)
    <3>1. n \in Nat /\ n <= Len(durable)
      BY <2>1 DEF IsWindow
    <3> QED
      BY <1>3, <2>1, <3>1 DEF Replay
  <2>6. RestTyped'
    BY <1>0, <2>2, <2>4, <2>5 DEF RestTyped
  <2> QED
    BY <2>3, <2>6, TypedParts
<1> QED
  BY <1>1, <1>2, <1>3

LEMMA TypedNext ==
  ASSUME StreamTyped, [Next]_vars
  PROVE  StreamTyped'
<1>1. ASSUME NEW w \in Writers, WriterStep(w) PROVE StreamTyped'
  BY <1>1, TypedLogs, TypedFrames, TypedSend DEF WriterStep
<1>2. ASSUME NEW c \in Clients, ClientStep(c) PROVE StreamTyped'
  BY <1>2, TypedClients
<1>3. CASE SocketSubscribes \/ SocketReadsHead \/ Crash \/ Replay
  BY <1>3, TypedSystem
<1>4. CASE UNCHANGED vars
  <2>1. UNCHANGED <<load, memory, durable, up, req, seq, buffer, sent, client, got, skipped,
                    ws, boot, faults>>
    BY <1>4 DEF vars, logs, frames, streams
  <2>2. /\ req \in [Writers -> ReqSet] /\ RestTyped /\ \A v \in Writers : Typed(v)
    BY TypedParts
  <2>3. req' \in [Writers -> ReqSet] /\ \A v \in Writers : Typed(v)'
    BY <2>1, <2>2 DEF Typed, InFrames
  <2>4. RestTyped'
    BY <2>1, <2>2 DEF RestTyped
  <2> QED
    BY <2>3, <2>4, TypedParts
<1> QED
  BY <1>1, <1>2, <1>3, <1>4 DEF Next

\* Every variable has its type, whatever fails, crashes, is cancelled or
\* leaves: the buffer and the queues of the receivers never hold more than
\* they may (PushFrame, SendFrame), and a frame is numbered and named after
\* an event (TakeSeq).
THEOREM StreamTypeCorrect == Spec => []TypeOK
<1>1. Init => StreamTyped
  BY TypedInit
<1>2. StreamTyped /\ [Next]_vars => StreamTyped'
  BY TypedNext
<1>3. StreamTyped => TypeOK
  BY DEF StreamTyped
<1> QED
  BY <1>1, <1>2, <1>3, PTL DEF Spec

-----------------------------------------------------------------------------
(* The two logs.                                                           *)

LEMMA LogInit ==
  ASSUME Init PROVE LogInv
<1>1. memory = <<>> /\ durable = <<>> /\ up.pc = "up" /\ up.after = 0
  BY DEF Init
<1>2. \A w \in Writers : ~InLog(memory, w) /\ ~InDurable(w) /\ ~Replayed(w)
  BY <1>1 DEF InLog, InDurable, Replayed
<1>3. NoRepeats(memory) /\ Complete(memory)
  BY <1>1 DEF NoRepeats, Complete
<1>4. LogsOK
  <2>1. 1..Len(memory) = {} /\ 1..Len(durable) = {}
    BY <1>1
  <2> QED
    BY <1>2, <1>3, <2>1 DEF LogsOK
<1>5. ASSUME NEW w \in Writers PROVE RequestOK(w)
  <2>1. req[w].pc = "start" /\ req[w].answer = "none"
    BY DEF Init, NewReq
  <2> QED
    BY <1>2, <2>1 DEF RequestOK
<1> QED
  BY <1>4, <1>5 DEF LogInv

\* A request that does not move still stands where it stood.
LEMMA RequestKept ==
  ASSUME NEW v \in Writers, RequestOK(v), req'[v] = req[v], load' = load,
         Serving => Serving', InLog(memory', v) <=> InLog(memory, v),
         InDurable(v)' <=> InDurable(v),
         \A u \in Writers : InDurable(u) => InDurable(u)'
  PROVE  RequestOK(v)'
<1>1. Kind(v)' = Kind(v) /\ \A u \in Writers : Cause(u)' = Cause(u)
  BY DEF Kind, Cause
<1> QED
  BY <1>1 DEF RequestOK

LEMMA SameLogs ==
  ASSUME UNCHANGED <<load, memory, durable, up>>
  PROVE  /\ LogsOK => LogsOK'
         /\ Serving' = Serving
         /\ \A v \in Writers : /\ Kind(v)' = Kind(v) /\ Cause(v)' = Cause(v)
                               /\ InDurable(v)' <=> InDurable(v)
         /\ \A v \in Writers : req'[v] = req[v] /\ RequestOK(v) => RequestOK(v)'
<1>1. /\ Serving' = Serving
      /\ \A v \in Writers : /\ Kind(v)' = Kind(v) /\ Cause(v)' = Cause(v)
                            /\ InDurable(v)' <=> InDurable(v)
  BY DEF Serving, Kind, Cause, InDurable
<1>2. LogsOK => LogsOK'
  BY DEF LogsOK, NoRepeats, Complete, Replayed, Serving, InDurable, Kind
<1>3. ASSUME NEW v \in Writers, req'[v] = req[v], RequestOK(v) PROVE RequestOK(v)'
  BY <1>1, <1>3, RequestKept
<1> QED
  BY <1>1, <1>2, <1>3

\* One request moves, the logs stay.
LEMMA LogRequests ==
  ASSUME StreamTyped, LogInv, NEW w \in Writers,
         \/ ReadHead(w) \/ CheckCause(w) \/ ReadEvents(w) \/ Progress(w)
         \/ TakeSeq(w) \/ PushFrame(w) \/ SendFrame(w) \/ Finish(w)
  PROVE  LogInv'
<1>1. UNCHANGED <<load, memory, durable, up>>
  BY DEF ReadHead, CheckCause, ReadEvents, Progress, TakeSeq, PushFrame, SendFrame,
         Finish, logs, frames
<1>2. /\ req \in [Writers -> ReqSet] /\ req[w] \in ReqSet /\ RequestOK(w) /\ LogsOK
      /\ load \in Loads
  BY DEF StreamTyped, TypeOK, LogInv
<1>3. \A v \in Writers : v # w => req'[v] = req[v]
  BY <1>2 DEF ReadHead, CheckCause, ReadEvents, Progress, TakeSeq, PushFrame, SendFrame,
              Finish
<1>4. \A v \in Writers : v # w => RequestOK(v)'
  BY <1>1, <1>3, SameLogs DEF LogInv
<1>5. LogsOK'
  BY <1>1, <1>2, SameLogs
<1>6. /\ Serving' = Serving /\ Kind(w)' = Kind(w) /\ (InLog(memory', w) <=> InLog(memory, w))
      /\ InDurable(w)' <=> InDurable(w)
  BY <1>1, SameLogs
<1> SUFFICES RequestOK(w)'
  BY <1>4, <1>5 DEF LogInv
<1>7. CASE ReadHead(w)
  <2>1. /\ req[w].pc = "start" /\ Kind(w) = "service" /\ Serving
        /\ req'[w].pc = "append" /\ req'[w].answer = req[w].answer
    BY <1>2, <1>7 DEF ReadHead, ReqSet
  <2> QED
    BY <1>2, <1>6, <2>1 DEF RequestOK
<1>8. CASE CheckCause(w)
  <2>1. req[w].pc = "start" /\ Kind(w) = "raw" /\ Serving
    BY <1>8 DEF CheckCause
  <2>2. CASE Cause(w) # NoCause /\ Caused(Cause(w)) # {}
    <3>1. PICK p \in 1..Len(memory) : ~memory[p].derived /\ Cause(memory[p].writer) = Cause(w)
      <4>1. memory \in Seq(EntrySet)
        BY TypedParts DEF RestTyped
      <4> QED
        BY <2>2, <4>1 DEF Caused
    <3>2. PICK v \in Writers : v = memory[p].writer /\ Cause(v) = Cause(w)
      <4>1. memory[p] \in EntrySet
        BY TypedParts DEF RestTyped
      <4> QED
        BY <3>1, <4>1, EventOf
    <3>3. Kind(v) = "raw"
      BY <1>2, <2>2, <3>2, StreamAssumption DEF Cause, Kind
    <3>4. InDurable(v)
      BY <1>2, <3>2, <3>3 DEF LogsOK
    <3>5. InDurable(v)' /\ Cause(v)' = Cause(w)'
      BY <1>1, <3>2, <3>4, SameLogs
    <3>6. req'[w].pc = "done" /\ req'[w].answer = "found"
      BY <1>2, <1>8, <2>2 DEF CheckCause, Answered, ReqSet
    <3> QED
      BY <1>6, <2>1, <3>2, <3>5, <3>6 DEF RequestOK
  <2>3. CASE ~(Cause(w) # NoCause /\ Caused(Cause(w)) # {})
    <3>1. req'[w].pc = "direct" /\ req'[w].answer = req[w].answer
      BY <1>2, <1>8, <2>3 DEF CheckCause, ReqSet
    <3> QED
      BY <1>2, <1>6, <2>1, <3>1 DEF RequestOK
  <2> QED
    BY <2>2, <2>3
<1>9. CASE ReadEvents(w)
  <2>1. /\ req[w].pc = "read" /\ req'[w].pc = "frame" /\ req'[w].answer = req[w].answer
    BY <1>2, <1>9 DEF ReadEvents, ReqSet
  <2> QED
    BY <1>2, <1>6, <2>1 DEF RequestOK
<1>10. CASE Progress(w)
  <2>1. /\ req[w].pc = "start" /\ Kind(w) \in {"progress", "github"} /\ Serving
        /\ req'[w].pc = "frame" /\ req'[w].answer = req[w].answer
    BY <1>2, <1>10 DEF Progress, ReqSet
  <2> QED
    BY <1>2, <1>6, <2>1 DEF RequestOK
<1>11. CASE TakeSeq(w) \/ PushFrame(w) \/ SendFrame(w)
  <2>1. /\ req[w].pc \in {"frame", "push", "send"} /\ req'[w].pc \in {"frame", "push", "send"}
        /\ req'[w].answer = req[w].answer
    <3>1. CASE TakeSeq(w)
      BY <1>2, <3>1 DEF TakeSeq, ReqSet
    <3>2. CASE PushFrame(w)
      BY <1>2, <3>2 DEF PushFrame, ReqSet
    <3>3. CASE SendFrame(w)
      <4>1. req[w].pc = "send" /\ req'[w].pc = "frame" /\ req'[w].answer = req[w].answer
        BY <1>2, <3>3 DEF SendFrame, ReqSet
      <4> QED
        BY <4>1
    <3> QED
      BY <1>11, <3>1, <3>2, <3>3
  <2> QED
    BY <1>2, <1>6, <2>1 DEF RequestOK
<1>12. CASE Finish(w)
  <2>1. req[w].pc = "frame" /\ req'[w].pc = "done" /\ req'[w].answer = "ok"
    BY <1>2, <1>12 DEF Finish, Answered, ReqSet
  <2> QED
    BY <1>2, <1>6, <2>1 DEF RequestOK
<1> QED
  BY <1>7, <1>8, <1>9, <1>10, <1>11, <1>12

LEMMA LogAppend ==
  ASSUME StreamTyped, LogInv, NEW w \in Writers, AppendMemory(w)
  PROVE  LogInv'
<1>1. /\ req[w].pc = "append" /\ memory' = memory \o Entries(w)
      /\ UNCHANGED <<load, durable, up>>
  BY DEF AppendMemory
<1>2. /\ req \in [Writers -> ReqSet] /\ req[w] \in ReqSet /\ RequestOK(w) /\ LogsOK
      /\ memory \in Seq(EntrySet)
  <2>1. memory \in Seq(EntrySet)
    BY TypedParts DEF RestTyped
  <2> QED
    BY <2>1 DEF StreamTyped, TypeOK, LogInv
<1>3. /\ req'[w].pc = "second" /\ req'[w].answer = req[w].answer
      /\ \A v \in Writers : v # w => req'[v] = req[v]
  BY <1>2 DEF AppendMemory, ReqSet
<1>4. /\ Serving /\ ~InLog(memory, w) /\ Kind(w) \in {"service", "raw"} /\ req[w].answer = "none"
      /\ Kind(w) = "raw" => InDurable(w)
  BY <1>1, <1>2 DEF RequestOK
<1>5. /\ Serving' = Serving
      /\ \A v \in Writers : /\ Kind(v)' = Kind(v) /\ Cause(v)' = Cause(v)
                            /\ (InDurable(v)' <=> InDurable(v))
                            /\ (Replayed(v)' <=> Replayed(v))
  BY <1>1 DEF Serving, Kind, Cause, InDurable, Replayed
<1>6. Grown(memory, w, memory')
  BY <1>1, <1>2, EntriesAppended
<1>7. /\ NoRepeats(memory') /\ Complete(memory')
      /\ \A v \in Writers : InLog(memory', v) <=> InLog(memory, v) \/ v = w
  <2>1. NoRepeats(memory) /\ Complete(memory)
    BY <1>2 DEF LogsOK
  <2> QED
    BY <1>4, <1>6, <2>1, LogGrows
<1>8. Complete(memory)'
  BY <1>1, <1>7 DEF Complete
<1>9. ASSUME NEW p \in 1..Len(memory'), Kind(memory[p].writer)' = "raw"
      PROVE  InDurable(memory[p].writer)'
  <2>1. \/ p \in 1..Len(memory) /\ memory'[p] = memory[p]
        \/ p = Len(memory) + 1 /\ memory'[p] = Event(w)
        \/ p = Len(memory) + 2 /\ memory'[p] = Derived(w) /\ load[w].costs
    BY <1>6, EntriesBehind
  <2>2. Event(w).writer = w /\ Derived(w).writer = w
    BY EntriesTyped
  <2>3. \A q \in 1..Len(memory) : memory[q].writer \in Writers
    BY <1>2, EventOf
  <2>4. \A q \in 1..Len(memory) : Kind(memory[q].writer) = "raw" => InDurable(memory[q].writer)
    BY <1>2 DEF LogsOK
  <2>5. PICK v \in Writers : memory'[p].writer = v
    BY <2>1, <2>2, <2>3
  <2>6. Kind(v) = "raw"
    BY <1>5, <1>9, <2>5 DEF Kind
  <2>7. InDurable(v)
    BY <1>4, <2>1, <2>2, <2>4, <2>5, <2>6
  <2>8. InDurable(v)'
    BY <1>5, <2>7
  <2> QED
    BY <2>5, <2>8 DEF InDurable
<1>10. LogsOK'
  <2>1. \A i, j \in 1..Len(durable') : durable'[i] = durable'[j] => i = j
    BY <1>1, <1>2 DEF LogsOK
  <2>2. ASSUME NEW v \in Writers
        PROVE  /\ Replayed(v)' => InLog(memory', v)
               /\ ~Serving' /\ InLog(memory', v) => Replayed(v)'
               /\ Serving' /\ InDurable(v)' => InLog(memory', v) \/ Kind(v)' = "raw"
    BY <1>2, <1>4, <1>5, <1>7 DEF LogsOK
  <2> QED
    BY <1>7, <1>8, <1>9, <2>1, <2>2 DEF LogsOK
<1>11. RequestOK(w)'
  BY <1>3, <1>4, <1>5, <1>7 DEF RequestOK
<1>12. ASSUME NEW v \in Writers, v # w PROVE RequestOK(v)'
  <2>1. RequestOK(v) /\ req'[v] = req[v]
    BY <1>3, <1>12 DEF LogInv
  <2>2. InLog(memory', v) <=> InLog(memory, v)
    BY <1>7, <1>12
  <2>3. load' = load /\ (Serving => Serving') /\ (InDurable(v)' <=> InDurable(v))
        /\ \A u \in Writers : InDurable(u) => InDurable(u)'
    BY <1>1, <1>5
  <2> QED
    BY <2>1, <2>2, <2>3, RequestKept
<1> QED
  BY <1>10, <1>11, <1>12 DEF LogInv

\* What a write of the durable log changes.
LEMMA Written ==
  ASSUME StreamTyped, LogsOK, NEW w \in Writers, Write(w) \/ UNCHANGED durable,
         UNCHANGED <<load, memory, up>>,
         Write(w) => InLog(memory, w) \/ Kind(w) = "raw"
  PROVE  /\ LogsOK' /\ Serving' = Serving
         /\ \A v \in Writers : /\ Kind(v)' = Kind(v) /\ Cause(v)' = Cause(v)
                               /\ (InDurable(v)' <=> InDurable(v) \/ (v = w /\ Write(w)))
<1>1. /\ durable \in Seq(Writers) /\ memory \in Seq(EntrySet)
      /\ up.after \in Nat /\ up.after <= Len(durable)
  BY TypedParts DEF RestTyped
<1>2. CASE UNCHANGED durable
  <2>1. ~Write(w)
    <3> SUFFICES ASSUME Write(w) PROVE FALSE
      OBVIOUS
    <3>1. Len(Append(durable, w)) = Len(durable) + 1 /\ durable' = Append(durable, w)
      BY <1>1 DEF Write
    <3> QED
      BY <1>1, <1>2, <3>1
  <2> QED
    BY <1>2, <2>1, SameLogs
<1>3. CASE Write(w)
  <2> DEFINE d == Append(durable, w)
  <2>1. /\ durable' = d /\ Len(d) = Len(durable) + 1 /\ d[Len(durable) + 1] = w
        /\ \A i \in 1..Len(durable) : d[i] = durable[i]
    BY <1>1, <1>3 DEF Write
  <2> HIDE DEF d
  <2>2. \A i \in 1..Len(durable) : durable[i] # w
    BY <1>1, <1>3 DEF Write, ToSet
  <2>3. Len(durable) \in Nat /\ \A i \in 1..Len(d) : i \in 1..Len(durable) \/ i = Len(durable) + 1
    BY <1>1, <2>1
  <2>4. ASSUME NEW v \in Writers
        PROVE  InDurable(v)' <=> InDurable(v) \/ v = w
    <3>1. InDurable(v)' <=> \E i \in 1..Len(d) : d[i] = v
      BY <2>1 DEF InDurable
    <3>2. Len(durable) + 1 \in 1..Len(d) /\ \A i \in 1..Len(durable) : i \in 1..Len(d)
      BY <2>1, <2>3
    <3> QED
      BY <2>1, <2>3, <3>1, <3>2 DEF InDurable
  <2>5. ASSUME NEW v \in Writers
        PROVE  Replayed(v)' <=> Replayed(v)
    <3>1. \A i \in 1..up.after : i \in 1..Len(durable)
      BY <1>1
    <3> QED
      BY <2>1, <3>1 DEF Replayed
  <2>6. /\ Serving' = Serving /\ Complete(memory') /\ Complete(memory)'
        /\ \A v \in Writers : Kind(v)' = Kind(v) /\ Cause(v)' = Cause(v)
    BY DEF Serving, Kind, Cause, Complete, LogsOK
  <2>7. \A i, j \in 1..Len(d) : d[i] = d[j] => i = j
    BY <2>1, <2>2, <2>3 DEF LogsOK
  <2>8. ASSUME NEW v \in Writers
        PROVE  /\ Replayed(v)' => InLog(memory', v)
               /\ ~Serving' /\ InLog(memory', v) => Replayed(v)'
               /\ Serving' /\ InDurable(v)' => InLog(memory', v) \/ Kind(v)' = "raw"
    BY <1>3, <2>4, <2>5, <2>6 DEF LogsOK
  <2>9. ASSUME NEW p \in 1..Len(memory'), Kind(memory[p].writer)' = "raw"
        PROVE  InDurable(memory[p].writer)'
    <3>1. PICK v \in Writers : v = memory[p].writer
      <4>1. memory[p] \in EntrySet
        BY <1>1
      <4> QED
        BY <4>1, EventOf
    <3>2. Kind(v) = "raw"
      BY <2>6, <2>9, <3>1 DEF Kind
    <3>3. InDurable(v)
      BY <3>1, <3>2 DEF LogsOK
    <3>4. InDurable(v)'
      BY <2>4, <3>3
    <3> QED
      BY <3>1, <3>4 DEF InDurable
  <2>10. LogsOK'
    BY <2>1, <2>6, <2>7, <2>8, <2>9 DEF LogsOK
  <2> QED
    BY <1>3, <2>4, <2>6, <2>10
<1> QED
  BY <1>2, <1>3

\* The steps that write the durable log, and those that fail to.
LEMMA LogWrites ==
  ASSUME StreamTyped, LogInv, NEW w \in Writers,
         AppendSecond(w) \/ WriteDirect(w) \/ Cancel(w)
  PROVE  LogInv'
<1>1. /\ UNCHANGED <<load, memory, up>> /\ (Write(w) \/ UNCHANGED durable)
      /\ Write(w) => req[w].pc \in {"second", "direct"}
  <2>1. Write(w) => durable' # durable
    <3>1. durable \in Seq(Writers)
      BY TypedParts DEF RestTyped
    <3>2. Len(Append(durable, w)) # Len(durable)
      BY <3>1
    <3> QED
      BY <3>2 DEF Write
  <2> QED
    BY <2>1 DEF AppendSecond, WriteDirect, Cancel, WriteFails
<1>2. /\ req \in [Writers -> ReqSet] /\ req[w] \in ReqSet /\ RequestOK(w) /\ LogsOK
  BY DEF StreamTyped, TypeOK, LogInv
<1>3. \A v \in Writers : v # w => req'[v] = req[v]
  BY <1>2 DEF AppendSecond, WriteDirect, Cancel
<1>4. Write(w) => InLog(memory, w) \/ Kind(w) = "raw"
  BY <1>1, <1>2 DEF RequestOK
<1>5. /\ LogsOK' /\ Serving' = Serving
      /\ \A v \in Writers : /\ Kind(v)' = Kind(v) /\ Cause(v)' = Cause(v)
                            /\ (InDurable(v)' <=> InDurable(v) \/ (v = w /\ Write(w)))
  BY <1>1, <1>2, <1>4, Written
<1>6. ASSUME NEW v \in Writers, v # w PROVE RequestOK(v)'
  <2>1. RequestOK(v) /\ req'[v] = req[v]
    BY <1>3, <1>6 DEF LogInv
  <2>2. /\ load' = load /\ (Serving => Serving') /\ (InDurable(v)' <=> InDurable(v))
        /\ (InLog(memory', v) <=> InLog(memory, v))
        /\ \A u \in Writers : InDurable(u) => InDurable(u)'
    BY <1>1, <1>5, <1>6
  <2> QED
    BY <2>1, <2>2, RequestKept
<1> SUFFICES RequestOK(w)'
  BY <1>5, <1>6 DEF LogInv
<1>7. CASE AppendSecond(w)
  <2>1. req[w].pc = "second" /\ Kind(w) \in {"service", "raw"} /\ Serving
    BY <1>2, <1>7 DEF AppendSecond, RequestOK
  <2>2. \/ Write(w) /\ Kind(w) = "raw" /\ req'[w].pc = "done" /\ req'[w].answer = "ok"
        \/ Write(w) /\ Kind(w) = "service" /\ req'[w].pc = "read" /\ req'[w].answer = req[w].answer
        \/ req'[w].pc = "done" /\ req'[w].answer = "error"
    BY <1>2, <1>7, <2>1 DEF AppendSecond, Answered, ReqSet
  <2> QED
    BY <1>2, <1>5, <2>1, <2>2 DEF RequestOK
<1>8. CASE WriteDirect(w)
  <2>1. /\ req[w].pc = "direct" /\ Kind(w) = "raw" /\ Serving /\ ~InLog(memory, w)
    BY <1>2, <1>8 DEF WriteDirect, RequestOK
  <2>2. \/ Write(w) /\ req'[w].pc = "append" /\ req'[w].answer = req[w].answer
        \/ req'[w].pc = "done" /\ req'[w].answer = "error"
    BY <1>2, <1>8, <2>1 DEF WriteDirect, Answered, ReqSet
  <2>3. ~InLog(memory', w)
    BY <1>1, <2>1
  <2> QED
    BY <1>2, <1>5, <2>1, <2>2, <2>3 DEF RequestOK
<1>9. CASE Cancel(w)
  <2>1. req'[w].pc = "done" /\ req'[w].answer = "none"
    BY <1>2, <1>9 DEF Cancel, Answered, ReqSet
  <2> QED
    BY <2>1 DEF RequestOK
<1> QED
  BY <1>7, <1>8, <1>9

LEMMA LogCrash ==
  ASSUME StreamTyped, LogInv, Crash
  PROVE  LogInv'
<1>1. memory' = <<>> /\ up'.pc = "replay" /\ up'.after = 0 /\ UNCHANGED <<load, durable>>
  BY DEF Crash
<1>2. \A w \in Writers : ~InLog(memory', w) /\ ~Replayed(w)' /\ (InDurable(w)' <=> InDurable(w))
  BY <1>1 DEF InLog, Replayed, InDurable
<1>3. NoRepeats(memory') /\ Complete(memory)' /\ ~Serving'
  BY <1>1 DEF NoRepeats, Complete, Serving
<1>4. LogsOK'
  <2>1. 1..Len(memory') = {}
    BY <1>1
  <2>2. \A i, j \in 1..Len(durable') : durable'[i] = durable'[j] => i = j
    BY <1>1 DEF LogInv, LogsOK
  <2> QED
    BY <1>2, <1>3, <2>1, <2>2 DEF LogsOK
<1>5. ASSUME NEW w \in Writers PROVE RequestOK(w)'
  <2>1. req'[w] = IF req[w].pc \in {"start", "done"} THEN req[w] ELSE Answered(req[w], "none")
    BY DEF Crash
  <2>2. req[w] \in ReqSet /\ RequestOK(w)
    BY DEF StreamTyped, TypeOK, LogInv
  <2>3. CASE req[w].pc \in {"start", "done"}
    <3>1. req'[w] = req[w] /\ \A v \in Writers : Cause(v)' = Cause(v) /\ Kind(v)' = Kind(v)
      BY <1>1, <2>1, <2>3 DEF Cause, Kind
    <3> QED
      BY <1>2, <2>2, <2>3, <3>1 DEF RequestOK
  <2>4. CASE req[w].pc \notin {"start", "done"}
    <3>1. req'[w].pc = "done" /\ req'[w].answer = "none"
      BY <2>1, <2>2, <2>4 DEF Answered, ReqSet
    <3> QED
      BY <3>1 DEF RequestOK
  <2> QED
    BY <2>3, <2>4
<1> QED
  BY <1>4, <1>5 DEF LogInv

LEMMA LogReplay ==
  ASSUME StreamTyped, LogInv, Replay
  PROVE  LogInv'
<1>1. PICK n, batch :
         /\ IsWindow(Writers, durable, up.after, ReplayBatch, n, batch)
         /\ memory' = Applied(memory, batch) /\ up'.after = n
         /\ up'.pc = IF Len(batch) < ReplayBatch THEN "up" ELSE "replay"
  BY ReplayWindow
<1>2. /\ up.after \in Nat /\ up.after <= Len(durable) /\ durable \in Seq(Writers)
      /\ memory \in Seq(EntrySet) /\ LogsOK /\ ~Serving
      /\ UNCHANGED <<load, durable, req>>
  BY TypedParts DEF RestTyped, LogInv, Replay, Serving
<1>3. /\ n \in Nat /\ n <= Len(durable) /\ batch \in Seq(Writers) /\ up.after <= n
      /\ Len(batch) = n - up.after /\ (Len(batch) < ReplayBatch => n = Len(durable))
      /\ \A i \in 1..Len(batch) : up.after + i \in 1..n /\ batch[i] = durable[up.after + i]
  BY <1>1, <1>2 DEF IsWindow
<1>4. \A i, j \in 1..Len(batch) : batch[i] = batch[j] => i = j
  <2>1. \A i, j \in 1..Len(durable) : durable[i] = durable[j] => i = j
    BY <1>2 DEF LogsOK
  <2> SUFFICES ASSUME NEW i \in 1..Len(batch), NEW j \in 1..Len(batch), batch[i] = batch[j]
               PROVE  i = j
    OBVIOUS
  <2>2. /\ up.after + i \in 1..Len(durable) /\ batch[i] = durable[up.after + i]
        /\ up.after + j \in 1..Len(durable) /\ batch[j] = durable[up.after + j]
    BY <1>3
  <2>3. up.after + i = up.after + j
    BY <2>1, <2>2
  <2> QED
    BY <1>2, <2>3
<1>5. ASSUME NEW i \in 1..Len(batch)
      PROVE  batch[i] \in Writers /\ ~InLog(memory, batch[i])
  <2>1. batch[i] \in Writers
    BY <1>3
  <2>2. ~Replayed(batch[i])
    <3>1. up.after + i \in 1..Len(durable) /\ batch[i] = durable[up.after + i]
      BY <1>3
    <3>2. \A j \in 1..up.after : j \in 1..Len(durable) /\ j # up.after + i
      BY <1>2
    <3> QED
      BY <1>2, <3>1, <3>2 DEF Replayed, LogsOK
  <2> QED
    BY <1>2, <2>1, <2>2 DEF LogsOK
<1>6. /\ NoRepeats(memory') /\ Complete(memory')
      /\ \A v \in Writers :
           InLog(memory', v) <=> InLog(memory, v) \/ \E i \in 1..Len(batch) : batch[i] = v
      /\ \A p \in 1..Len(memory') :
           \/ \E q \in 1..Len(memory) : memory'[p].writer = memory[q].writer
           \/ \E i \in 1..Len(batch) : memory'[p].writer = batch[i]
  <2>1. NoRepeats(memory) /\ Complete(memory)
    BY <1>2 DEF LogsOK
  <2>2. Extended(memory, batch, Applied(memory, batch))
    BY <1>2, <1>3, <1>4, <1>5, <2>1, AppliedLog
  <2> QED
    BY <1>1, <2>2 DEF Extended
<1>7. ASSUME NEW v \in Writers
      PROVE  /\ Replayed(v)' <=> Replayed(v) \/ \E i \in 1..Len(batch) : batch[i] = v
             /\ InDurable(v)' <=> InDurable(v)
             /\ Kind(v)' = Kind(v)
             /\ InLog(memory', v) <=> Replayed(v)'
  <2>1. Replayed(v)' <=> \E i \in 1..n : durable[i] = v
    BY <1>1, <1>2 DEF Replayed
  <2>2. ASSUME NEW i \in 1..n, durable[i] = v
        PROVE  Replayed(v) \/ \E j \in 1..Len(batch) : batch[j] = v
    <3>1. i \in 1..up.after \/ (i - up.after \in 1..Len(batch) /\ up.after + (i - up.after) = i)
      BY <1>2, <1>3
    <3> QED
      BY <1>3, <2>2, <3>1 DEF Replayed
  <2>3. (\E j \in 1..Len(batch) : batch[j] = v) => \E i \in 1..n : durable[i] = v
    BY <1>3
  <2>4. Replayed(v) => \E i \in 1..n : durable[i] = v
    <3>1. \A i \in 1..up.after : i \in 1..n
      BY <1>2, <1>3
    <3> QED
      BY <3>1 DEF Replayed
  <2>5. Replayed(v)' <=> Replayed(v) \/ \E i \in 1..Len(batch) : batch[i] = v
    BY <2>1, <2>2, <2>3, <2>4
  <2>6. InLog(memory, v) <=> Replayed(v)
    BY <1>2 DEF LogsOK
  <2>7. (InDurable(v)' <=> InDurable(v)) /\ Kind(v)' = Kind(v)
    BY <1>2 DEF InDurable, Kind
  <2> QED
    BY <1>6, <2>5, <2>6, <2>7
<1>8. LogsOK'
  <2>1. \A i, j \in 1..Len(durable') : durable'[i] = durable'[j] => i = j
    BY <1>2 DEF LogsOK
  <2>2. Complete(memory)'
    BY <1>2, <1>6 DEF Complete
  <2>3. Serving' => n = Len(durable)
    BY <1>1, <1>3 DEF Serving
  <2>4. ASSUME NEW v \in Writers
        PROVE  /\ Replayed(v)' => InLog(memory', v)
               /\ ~Serving' /\ InLog(memory', v) => Replayed(v)'
               /\ Serving' /\ InDurable(v)' => InLog(memory', v) \/ Kind(v)' = "raw"
    <3>1. Serving' /\ InDurable(v)' => Replayed(v)'
      BY <1>1, <1>2, <2>3 DEF InDurable, Replayed
    <3> QED
      BY <1>7, <3>1
  <2>5. ASSUME NEW p \in 1..Len(memory'), Kind(memory[p].writer)' = "raw"
        PROVE  InDurable(memory[p].writer)'
    <3>1. CASE \E q \in 1..Len(memory) : memory'[p].writer = memory[q].writer
      <4>1. PICK q \in 1..Len(memory) : memory'[p].writer = memory[q].writer
        BY <3>1
      <4>2. InDurable(memory[q].writer)
        BY <1>2, <2>5, <4>1 DEF LogsOK, Kind
      <4> QED
        BY <1>2, <4>1, <4>2 DEF InDurable
    <3>2. CASE \E i \in 1..Len(batch) : memory'[p].writer = batch[i]
      <4>1. PICK i \in 1..Len(batch) : memory'[p].writer = batch[i]
        BY <3>2
      <4>2. up.after + i \in 1..Len(durable) /\ durable[up.after + i] = memory'[p].writer
        BY <1>3, <4>1
      <4> QED
        BY <1>2, <4>2 DEF InDurable
    <3> QED
      BY <1>6, <3>1, <3>2
  <2> QED
    BY <1>6, <2>1, <2>2, <2>4, <2>5 DEF LogsOK
<1>9. ASSUME NEW w \in Writers PROVE RequestOK(w)'
  <2>1. RequestOK(w) /\ req[w].pc \in {"start", "done"} /\ req'[w] = req[w]
    BY <1>2 DEF LogInv, RequestOK
  <2>2. \A v \in Writers : /\ Cause(v)' = Cause(v) /\ Kind(v)' = Kind(v)
                           /\ (InDurable(v)' <=> InDurable(v))
    BY <1>2 DEF Cause, Kind, InDurable
  <2>3. req[w].pc = "start" => ~InLog(memory', w)
    <3>1. Replayed(w)' => InDurable(w)
      BY <1>1, <1>2, <1>3 DEF Replayed, InDurable
    <3> QED
      BY <1>7, <2>1, <3>1 DEF RequestOK
  <2> QED
    BY <2>1, <2>2, <2>3 DEF RequestOK
<1> QED
  BY <1>8, <1>9 DEF LogInv

LEMMA LogNext ==
  ASSUME StreamTyped, LogInv, [Next]_vars
  PROVE  LogInv'
<1>1. ASSUME NEW w \in Writers, WriterStep(w) PROVE LogInv'
  BY <1>1, LogRequests, LogAppend, LogWrites DEF WriterStep
<1>2. CASE \/ \E c \in Clients : ClientStep(c)
           \/ SocketSubscribes \/ SocketReadsHead \/ UNCHANGED vars
  <2>1. UNCHANGED <<load, memory, durable, up, req>>
    BY <1>2 DEF ClientStep, Subscribe, ReadBuffer, Receive, Leave, SocketSubscribes,
                SocketReadsHead, vars, logs
  <2> QED
    BY <2>1, SameLogs DEF LogInv
<1> QED
  BY <1>1, <1>2, LogCrash, LogReplay DEF Next

LEMMA AckedFromLogs ==
  ASSUME StreamTyped, LogInv
  PROVE  AckedIsDurable
<1>1. durable \in Seq(Writers)
  BY TypedParts DEF RestTyped
<1>2. \A v \in Writers : InDurable(v) <=> v \in ToSet(durable)
  BY <1>1 DEF InDurable, ToSet
<1>3. ASSUME NEW w \in Writers
      PROVE  /\ req[w].answer = "ok" /\ Kind(w) \in {"service", "raw"} => w \in ToSet(durable)
             /\ req[w].answer = "found" => \E v \in ToSet(durable) : Cause(v) = Cause(w)
  <2>1. RequestOK(w)
    BY DEF LogInv
  <2>2. /\ req[w].answer = "ok" /\ Kind(w) \in {"service", "raw"} => InDurable(w)
        /\ req[w].answer = "found" => \E v \in Writers : InDurable(v) /\ Cause(v) = Cause(w)
    BY <2>1 DEF RequestOK
  <2> QED
    BY <1>2, <2>2
<1> QED
  BY <1>3 DEF AckedIsDurable

LEMMA ServedFromLogs ==
  ASSUME StreamTyped, LogInv
  PROVE  DurableIsServed
<1>1. /\ durable \in Seq(Writers) /\ memory \in Seq(EntrySet) /\ LogsOK
      /\ DOMAIN memory = 1..Len(memory) /\ Len(memory) \in Nat
  <2>1. durable \in Seq(Writers) /\ memory \in Seq(EntrySet) /\ LogsOK
    BY TypedParts DEF RestTyped, LogInv
  <2> QED
    BY <2>1
<1> SUFFICES ASSUME Serving, NEW w \in Writers, InDurable(w),
                    NEW at, at = {p \in DOMAIN memory : memory[p] = Event(w)}
             PROVE  \/ /\ Cardinality(at) = 1
                       /\ \A p \in at : SubSeq(memory, p, p + Len(Entries(w)) - 1) = Entries(w)
                    \/ Kind(w) = "raw" /\ at = {} /\ \A i \in 1..up.after : durable[i] # w
  <2>1. \A v \in ToSet(durable) : v \in Writers /\ InDurable(v)
    BY <1>1 DEF InDurable, ToSet
  <2> QED
    BY <2>1 DEF DurableIsServed
<1>2. CASE InLog(memory, w)
  <2>1. PICK p \in 1..Len(memory) : memory[p] = Event(w)
    BY <1>2 DEF InLog
  <2>2. ~memory[p].derived /\ memory[p].writer = w
    BY <2>1, EntriesTyped
  <2>3. at = {p}
    BY <1>1, <2>1, <2>2 DEF LogsOK, NoRepeats
  <2>4. Cardinality(at) = 1
    BY <2>3, FS_Singleton
  <2>5. SubSeq(memory, p, p + Len(Entries(w)) - 1) = Entries(w)
    <3> DEFINE t == Entries(w)
               n == p + Len(t) - 1
    <3>1. /\ t \in Seq(EntrySet) /\ t[1] = Event(w)
          /\ load[w].costs => Len(t) = 2 /\ t[2] = Derived(w)
          /\ ~load[w].costs => Len(t) = 1
      BY EntriesTyped
    <3> HIDE DEF t
    <3>2. load[w].costs => p + 1 \in 1..Len(memory) /\ memory[p + 1] = Derived(w)
      BY <1>1, <2>1, <2>2 DEF LogsOK, Complete, Derived
    <3>0. Len(t) = 1 \/ (Len(t) = 2 /\ load[w].costs)
      BY <3>1, Zenon
    <3>3. /\ p \in Int /\ n \in Int /\ p <= n /\ n - p + 1 = Len(t)
          /\ \A i \in p..n : i \in 1..Len(memory)
      <4>1. CASE Len(t) = 1
        BY <1>1, <4>1
      <4>2. CASE Len(t) = 2 /\ load[w].costs
        BY <1>1, <3>2, <4>2
      <4> QED
        BY <3>0, <4>1, <4>2
    <3>4. \A i \in 1..Len(t) : t[i] = memory[p + i - 1]
      <4>1. ASSUME NEW i \in 1..Len(t) PROVE t[i] = memory[p + i - 1]
        <5>1. i = 1 \/ (i = 2 /\ load[w].costs)
          BY <3>0
        <5>2. CASE i = 1
          BY <2>1, <3>1, <5>2
        <5>3. CASE i = 2 /\ load[w].costs
          <6>1. p + i - 1 = p + 1
            BY <5>3
          <6> QED
            BY <3>1, <3>2, <5>3, <6>1
        <5> QED
          BY <5>1, <5>2, <5>3
      <4> QED
        BY <4>1
    <3> HIDE DEF n
    <3>5. \A i \in p..n : memory[i] \in EntrySet
      BY <1>1, <3>3
    <3> DEFINE u == SubSeq(memory, p, n)
    <3>6. u \in Seq(EntrySet)
      BY <3>3, <3>5, SubSeqProperties
    <3>7. Len(u) = IF p <= n THEN n - p + 1 ELSE 0
      BY <3>3, <3>5, SubSeqProperties
    <3>8. \A i \in 1..(n - p + 1) : u[i] = memory[p + i - 1]
      BY <3>3, <3>5, SubSeqProperties
    <3> HIDE DEF u
    <3>9. Len(u) = Len(t) /\ \A i \in 1..Len(u) : u[i] = t[i]
      BY <3>3, <3>4, <3>7, <3>8
    <3>10. u = t
      BY <3>1, <3>6, <3>9, SeqEqual
    <3> QED
      BY <3>10 DEF u, n, t
  <2> QED
    BY <2>3, <2>4, <2>5
<1>3. CASE ~InLog(memory, w)
  <2>1. Kind(w) = "raw" /\ ~Replayed(w)
    BY <1>1, <1>3 DEF LogsOK
  <2>2. at = {}
    BY <1>1, <1>3 DEF InLog
  <2> QED
    BY <2>1, <2>2 DEF Replayed
<1> QED
  BY <1>2, <1>3

\* What was answered with success is in the durable log, and a repetition
\* points at an event that is: a crash right after the answer loses neither
\* (AppendSecond, CheckCause, the failing and cancelled writes included).
THEOREM AckedIsDurableAlways == Spec => []AckedIsDurable
<1>1. Init => StreamTyped /\ LogInv
  BY TypedInit, LogInit
<1>2. StreamTyped /\ LogInv /\ [Next]_vars => StreamTyped' /\ LogInv'
  BY TypedNext, LogNext
<1>3. StreamTyped /\ LogInv => AckedIsDurable
  BY AckedFromLogs
<1> QED
  BY <1>1, <1>2, <1>3, PTL DEF Spec

\* A process that serves has every event of the durable log exactly once, and
\* what is derived from it right behind it: neither the batches of Replay nor
\* failed, cancelled or repeated appends lose, repeat or split one.
THEOREM DurableIsServedAlways == Spec => []DurableIsServed
<1>1. Init => StreamTyped /\ LogInv
  BY TypedInit, LogInit
<1>2. StreamTyped /\ LogInv /\ [Next]_vars => StreamTyped' /\ LogInv'
  BY TypedNext, LogNext
<1>3. StreamTyped /\ LogInv => DurableIsServed
  BY ServedFromLogs
<1> QED
  BY <1>1, <1>2, <1>3, PTL DEF Spec

-----------------------------------------------------------------------------
(* The WebSocket.                                                          *)

LEMMA SocketNext ==
  ASSUME StreamTyped, LogInv, SocketOK, [Next]_vars
  PROVE  SocketOK'
<1>1. /\ memory \in Seq(EntrySet) /\ Len(memory) \in Nat
      /\ ws \in [pc : {"off", "sub", "on"}, head : Nat, got : SUBSET Nat]
  <2>1. /\ memory \in Seq(EntrySet)
        /\ ws \in [pc : {"off", "sub", "on"}, head : Nat, got : SUBSET Nat]
    BY TypedParts DEF RestTyped
  <2> QED
    BY <2>1
<1>2. CASE UNCHANGED <<memory, ws, up>>
  BY <1>2 DEF SocketOK, HandshakeCoversLog, Serving
<1>3. ASSUME NEW w \in Writers, AppendMemory(w) PROVE SocketOK'
  <2>1. /\ memory' = memory \o Entries(w) /\ up' = up
        /\ ws' = IF ws.pc = "off" THEN ws ELSE [ws EXCEPT !.got = @ \cup {Len(memory) + 1}]
    BY <1>3 DEF AppendMemory
  <2>2. Serving' <=> Serving
    BY <2>1 DEF Serving
  <2>3. Grown(memory, w, memory')
    BY <1>1, <2>1, EntriesAppended
  <2>4. CASE ws.pc = "on"
    <3>1. /\ ws'.pc = "on" /\ ws'.head = ws.head /\ ws'.got = ws.got \cup {Len(memory) + 1}
      BY <1>1, <2>1, <2>4
    <3>2. ASSUME NEW p \in (ws'.head + 1)..Len(memory'), ~memory'[p].derived
          PROVE  p \in ws'.got
      <4>1. p \in 1..Len(memory')
        BY <1>1, <2>3, <3>1 DEF Grown
      <4>2. \/ p \in 1..Len(memory) /\ memory'[p] = memory[p]
            \/ p = Len(memory) + 1 /\ memory'[p] = Event(w)
            \/ p = Len(memory) + 2 /\ memory'[p] = Derived(w) /\ load[w].costs
        BY <2>3, <4>1, EntriesBehind
      <4>3. Derived(w).derived
        BY EntriesTyped
      <4> QED
        BY <1>1, <2>4, <3>1, <3>2, <4>2, <4>3 DEF SocketOK, HandshakeCoversLog
    <3> QED
      BY <2>2, <2>4, <3>1, <3>2 DEF SocketOK, HandshakeCoversLog
  <2>5. CASE ws.pc # "on"
    <3>1. ws'.pc = ws.pc
      BY <1>1, <2>1
    <3> QED
      BY <2>2, <2>5, <3>1 DEF SocketOK, HandshakeCoversLog
  <2> QED
    BY <2>4, <2>5
<1>4. CASE SocketSubscribes
  <2>1. ws'.pc = "sub" /\ Serving /\ up' = up
    BY <1>4 DEF SocketSubscribes, NoSocket
  <2> QED
    BY <2>1 DEF SocketOK, HandshakeCoversLog, Serving
<1>5. CASE SocketReadsHead
  <2>1. ws.pc = "sub" /\ ws'.pc = "on" /\ ws'.head = Len(memory) /\ UNCHANGED <<memory, up>>
    BY <1>1, <1>5 DEF SocketReadsHead, logs
  <2>2. (Len(memory) + 1)..Len(memory) = {}
    BY <1>1
  <2> QED
    BY <2>1, <2>2 DEF SocketOK, HandshakeCoversLog, Serving
<1>6. CASE Crash
  <2>1. ws'.pc = "off"
    BY <1>6 DEF Crash, NoSocket
  <2> QED
    BY <2>1 DEF SocketOK, HandshakeCoversLog
<1>7. CASE Replay
  <2>1. ws.pc = "off" /\ ws' = ws
    BY <1>7 DEF Replay, SocketOK, Serving
  <2> QED
    BY <2>1 DEF SocketOK, HandshakeCoversLog
<1>8. ASSUME NEW w \in Writers, WriterStep(w), ~AppendMemory(w)
      PROVE  UNCHANGED <<memory, ws, up>>
  BY <1>8 DEF WriterStep, ReadHead, AppendSecond, CheckCause, WriteDirect, ReadEvents, Progress,
              TakeSeq, PushFrame, SendFrame, Finish, Cancel, logs
<1>9. ASSUME NEW c \in Clients, ClientStep(c)
      PROVE  UNCHANGED <<memory, ws, up>>
  BY <1>9 DEF ClientStep, Subscribe, ReadBuffer, Receive, Leave, logs
<1>10. CASE UNCHANGED vars
  BY <1>2, <1>10 DEF vars, logs
<1> QED
  BY <1>2, <1>3, <1>4, <1>5, <1>6, <1>7, <1>8, <1>9, <1>10 DEF Next

\* Between the head a WebSocket was told of and the end of the log it has been
\* sent every event: the broadcast under the lock of the store (AppendMemory)
\* leaves no gap between the subscription and the reading of the head.
THEOREM HandshakeCoversLogAlways == Spec => []HandshakeCoversLog
<1>1. Init => StreamTyped /\ LogInv /\ SocketOK
  <2>1. Init => SocketOK
    BY DEF Init, SocketOK, HandshakeCoversLog, NoSocket
  <2> QED
    BY <2>1, TypedInit, LogInit
<1>2. StreamTyped /\ LogInv /\ SocketOK /\ [Next]_vars => StreamTyped' /\ LogInv' /\ SocketOK'
  BY TypedNext, LogNext, SocketNext
<1>3. SocketOK => HandshakeCoversLog
  BY DEF SocketOK
<1> QED
  BY <1>1, <1>2, <1>3, PTL DEF Spec

-----------------------------------------------------------------------------
(* Frames.                                                                 *)

LEMMA FramesInit ==
  ASSUME Init PROVE FramesInv
<1>1. \A w \in Writers : req[w].pc = "start"
  BY DEF Init, NewReq
<1>2. Numbered /\ PushedFirst
  BY <1>1 DEF Init, Numbered, PushedFirst, InFrames, ToSet
<1>3. \A c \in Clients : client[c].pc = "off" /\ client[c].replay = <<>>
  BY DEF Init, Away
<1>4. ClientsOK
  BY <1>3 DEF ClientsOK
<1> QED
  BY <1>2, <1>4 DEF FramesInv

LEMMA FramesKept ==
  ASSUME FramesInv, UNCHANGED <<seq, buffer, sent, client, got, skipped, boot>>,
         \A v \in Writers : InFrames(v)' => req'[v] = req[v]
  PROVE  FramesInv'
<1>1. \A v \in Writers : InFrames(v)' => InFrames(v)
  BY DEF InFrames
<1>2. Numbered'
  BY <1>1 DEF FramesInv, Numbered
<1>3. PushedFirst'
  BY <1>1 DEF FramesInv, PushedFirst, InFrames
<1>4. ClientsOK'
  BY DEF FramesInv, ClientsOK, Covered, Reached
<1> QED
  BY <1>2, <1>3, <1>4 DEF FramesInv

LEMMA FramesApart ==
  ASSUME StreamTyped, FramesInv, NEW w \in Writers,
         \/ ReadHead(w) \/ AppendMemory(w) \/ AppendSecond(w) \/ CheckCause(w)
         \/ WriteDirect(w) \/ ReadEvents(w) \/ Progress(w) \/ Finish(w) \/ Cancel(w)
  PROVE  FramesInv'
<1>1. UNCHANGED <<seq, buffer, sent, client, got, skipped, boot>>
  BY DEF ReadHead, AppendMemory, AppendSecond, CheckCause, WriteDirect, ReadEvents, Progress,
         Finish, Cancel, frames, streams
<1>2. req \in [Writers -> ReqSet] /\ req[w] \in ReqSet
  BY DEF StreamTyped, TypeOK
<1>3. \A v \in Writers : v # w => req'[v] = req[v]
  BY <1>2 DEF ReadHead, AppendMemory, AppendSecond, CheckCause, WriteDirect, ReadEvents, Progress,
              Finish, Cancel
<1>4. ~InFrames(w)'
  <2>1. CASE ReadHead(w) \/ AppendMemory(w) \/ ReadEvents(w) \/ Progress(w)
    BY <1>2, <2>1 DEF ReadHead, AppendMemory, ReadEvents, Progress, ReqSet, InFrames
  <2>2. CASE Finish(w) \/ Cancel(w)
    BY <1>2, <2>2 DEF Finish, Cancel, Answered, ReqSet, InFrames
  <2>3. CASE AppendSecond(w) \/ WriteDirect(w)
    BY <1>2, <2>3 DEF AppendSecond, WriteDirect, Answered, ReqSet, InFrames
  <2>4. CASE CheckCause(w)
    <3>1. req'[w].pc \in {"done", "direct"}
      BY <1>2, <2>4 DEF CheckCause, Answered, ReqSet
    <3> QED
      BY <3>1 DEF InFrames
  <2> QED
    BY <2>1, <2>2, <2>3, <2>4
<1> QED
  BY <1>1, <1>3, <1>4, FramesKept

LEMMA FramesTake ==
  ASSUME StreamTyped, FramesInv, NEW w \in Writers, TakeSeq(w)
  PROVE  FramesInv'
<1>1. req \in [Writers -> ReqSet] /\ req[w] \in ReqSet /\ seq \in Nat /\ boot \in Nat
  BY DEF StreamTyped, TypeOK
<1>2. /\ UNCHANGED <<buffer, sent, client, got, skipped, boot>> /\ seq' = seq + 1
      /\ req'[w].pc = "push" /\ req'[w].frame.seq = seq /\ req'[w].frame.boot = boot
      /\ req[w].pc = "frame"
      /\ \A v \in Writers : v # w => req'[v] = req[v]
  BY <1>1 DEF TakeSeq, streams, ReqSet
<1>3. ASSUME NEW v \in Writers, v # w, InFrames(v)'
      PROVE  /\ InFrames(v) /\ req'[v] = req[v] /\ req[v].frame \in FrameSet
             /\ req[v].frame.boot = boot /\ req[v].frame.seq < seq /\ req[v].frame.seq \in Nat
  <2>1. InFrames(v) /\ req'[v] = req[v]
    BY <1>2, <1>3 DEF InFrames
  <2>2. req[v].frame \in FrameSet /\ req[v].frame.boot = boot /\ req[v].frame.seq < seq
    BY <2>1 DEF StreamTyped, FramesInv, Numbered
  <2> QED
    BY <2>1, <2>2 DEF FrameSet
<1>4. \A f \in sent : /\ f \in FrameSet /\ f.seq \in Nat
                       /\ f.boot <= boot /\ (f.boot = boot => f.seq < seq)
  <2>1. sent \subseteq FrameSet
    BY DEF StreamTyped, TypeOK
  <2> QED
    BY <2>1 DEF FramesInv, Numbered, FrameSet
<1>5. Numbered'
  <2>1. \A v \in Writers : InFrames(v)' => req'[v].frame.boot = boot' /\ req'[v].frame.seq < seq'
    BY <1>1, <1>2, <1>3
  <2>2. ASSUME NEW u \in Writers, NEW v \in Writers, InFrames(u)', InFrames(v)', u # v
        PROVE  req'[u].frame.seq # req'[v].frame.seq
    <3>1. CASE u = w
      BY <1>1, <1>2, <1>3, <2>2, <3>1
    <3>2. CASE v = w
      BY <1>1, <1>2, <1>3, <2>2, <3>2
    <3>3. CASE u # w /\ v # w
      BY <1>3, <2>2, <3>3 DEF FramesInv, Numbered
    <3> QED
      BY <3>1, <3>2, <3>3
  <2>3. \A f \in sent' : f.boot <= boot' /\ (f.boot = boot' => f.seq < seq')
    BY <1>1, <1>2, <1>4
  <2>4. \A f \in ToSet(buffer)' : f.boot = boot'
    BY <1>2 DEF FramesInv, Numbered
  <2> QED
    BY <2>1, <2>2, <2>3, <2>4 DEF Numbered
<1>6. PushedFirst'
  <2>1. req'[w].frame \notin sent
    BY <1>1, <1>2, <1>4
  <2>2. ASSUME NEW v \in Writers, v # w, req'[v].pc = "push"
        PROVE  req'[v].frame \notin sent
    BY <1>2, <2>2 DEF FramesInv, PushedFirst
  <2> QED
    BY <1>2, <2>1, <2>2 DEF PushedFirst
<1>7. ClientsOK'
  BY <1>2 DEF FramesInv, ClientsOK, Covered, Reached
<1> QED
  BY <1>5, <1>6, <1>7 DEF FramesInv

LEMMA FramesPush ==
  ASSUME StreamTyped, FramesInv, NEW w \in Writers, PushFrame(w)
  PROVE  FramesInv'
<1>1. req \in [Writers -> ReqSet] /\ req[w] \in ReqSet /\ buffer \in Seq(FrameSet)
  BY DEF StreamTyped, TypeOK
<1>2. /\ UNCHANGED <<seq, sent, client, got, skipped, boot>>
      /\ req[w].pc = "push" /\ req'[w].pc = "send" /\ req'[w].frame = req[w].frame
      /\ \A v \in Writers : v # w => req'[v] = req[v]
      /\ buffer' = Append(Trimmed(buffer), req[w].frame)
  BY <1>1 DEF PushFrame, streams, ReqSet
<1>3. req[w].frame \in FrameSet /\ req[w].frame \notin sent /\ req[w].frame.boot = boot
  BY <1>2 DEF StreamTyped, InFrames, FramesInv, Numbered, PushedFirst
<1>4. ToSet(buffer') \subseteq ToSet(buffer) \cup {req[w].frame}
  <2>1. Trimmed(buffer) \in Seq(FrameSet) /\ ToSet(Trimmed(buffer)) \subseteq ToSet(buffer)
    <3>1. CASE Len(buffer) >= Capacity
      <4>1. buffer # <<>> /\ Trimmed(buffer) = Tail(buffer)
        BY <1>1, <3>1, StreamAssumption DEF Trimmed
      <4> QED
        BY <1>1, <4>1, TailElements
    <3>2. CASE ~(Len(buffer) >= Capacity)
      BY <1>1, <3>2 DEF Trimmed
    <3> QED
      BY <3>1, <3>2
  <2> QED
    BY <1>2, <1>3, <2>1, AppendedElements
<1>5. \A v \in Writers : InFrames(v)' => InFrames(v) /\ req'[v].frame = req[v].frame
  BY <1>2 DEF InFrames
<1>6. Numbered'
  BY <1>2, <1>3, <1>4, <1>5 DEF FramesInv, Numbered
<1>7. PushedFirst'
  BY <1>2 DEF FramesInv, PushedFirst
<1>8. \A c \in Clients : Covered(c) => Covered(c)'
  BY <1>2, <1>3, <1>4 DEF Covered, Reached
<1>9. ClientsOK'
  BY <1>2, <1>8 DEF FramesInv, ClientsOK
<1> QED
  BY <1>6, <1>7, <1>9 DEF FramesInv

LEMMA FramesSend ==
  ASSUME StreamTyped, FramesInv, NEW w \in Writers, SendFrame(w)
  PROVE  FramesInv'
<1> DEFINE f == req[w].frame
<1>1. /\ req \in [Writers -> ReqSet] /\ req[w] \in ReqSet
      /\ client \in [Clients -> ClientSet]
      /\ \A c \in Clients : Len(client[c].queue) <= QueueCap
  BY DEF StreamTyped, TypeOK, ClientSet
<1>2. /\ UNCHANGED <<seq, buffer, got, boot>> /\ sent' = sent \cup {f}
      /\ req[w].pc = "send" /\ req'[w].pc = "frame"
      /\ \A v \in Writers : v # w => req'[v] = req[v]
  BY <1>1 DEF SendFrame, ReqSet
<1>3. f \in FrameSet /\ f.boot = boot /\ f.seq < seq /\ InFrames(w)
  BY <1>2 DEF StreamTyped, InFrames, FramesInv, Numbered
<1>4. \A v \in Writers : InFrames(v)' => v # w /\ InFrames(v) /\ req'[v] = req[v]
  BY <1>2 DEF InFrames
<1>5. Numbered'
  <2>1. \A g \in sent' : g.boot <= boot' /\ (g.boot = boot' => g.seq < seq')
    <3>1. boot \in Nat
      BY DEF StreamTyped, TypeOK
    <3> QED
      BY <1>2, <1>3, <3>1 DEF FramesInv, Numbered
  <2> QED
    BY <1>2, <1>4, <2>1 DEF FramesInv, Numbered
<1>6. PushedFirst'
  <2>1. ASSUME NEW v \in Writers, req'[v].pc = "push"
        PROVE  req'[v].frame \notin sent'
    <3>1. v # w /\ req'[v] = req[v] /\ InFrames(v)
      BY <1>4, <2>1 DEF InFrames
    <3>2. req[v].frame # f
      BY <1>3, <3>1 DEF FramesInv, Numbered
    <3> QED
      BY <1>2, <2>1, <3>1, <3>2 DEF FramesInv, PushedFirst
  <2> QED
    BY <2>1 DEF PushedFirst
<1>7. ASSUME NEW c \in Clients
      PROVE  /\ client'[c].pc = client[c].pc /\ client'[c].id = client[c].id
             /\ client'[c].from = client[c].from /\ client'[c].replay = client[c].replay
             /\ client[c].pc # "off" /\ Covered(c) => Covered(c)'
  <2>1. CASE client[c].pc = "off"
    BY <2>1, SendClient
  <2>2. CASE client[c].pc # "off"
    <3> DEFINE old == client[c].queue
               q == Taken(old, f)
    <3>1. client[c] \in ClientSet /\ old \in Seq(FrameSet) /\ Len(old) <= QueueCap
      BY <1>1 DEF ClientSet
    <3>2. /\ client'[c] = [client[c] EXCEPT !.queue = q]
          /\ skipped'[c] = IF Len(old) >= QueueCap
                           THEN skipped[c] \cup {Head(old)} ELSE skipped[c]
      BY <2>2, SendClient
    <3>3. /\ f \in ToSet(q)
          /\ Len(old) >= QueueCap => ToSet(old) \subseteq ToSet(q) \cup {Head(old)}
          /\ ~(Len(old) >= QueueCap) => ToSet(old) \subseteq ToSet(q)
      BY <1>3, <3>1, QueueTakes
    <3> HIDE DEF q
    <3>4. /\ client'[c].pc = client[c].pc /\ client'[c].id = client[c].id
          /\ client'[c].from = client[c].from /\ client'[c].replay = client[c].replay
          /\ client'[c].queue = q
      BY <3>1, <3>2 DEF ClientSet
    <3>5. ToSet(old) \cup skipped[c] \subseteq ToSet(q) \cup skipped'[c]
      BY <3>2, <3>3
    <3>6. Covered(c) => Covered(c)'
      <4> SUFFICES ASSUME Covered(c), NEW g \in sent' \cap ToSet(buffer)', g.seq > client'[c].from
                   PROVE  Reached(c, g)'
        BY DEF Covered
      <4>1. CASE g = f
        BY <3>3, <3>4, <4>1 DEF Reached
      <4>2. CASE g # f
        <5>1. g \in sent \cap ToSet(buffer) /\ g.seq > client[c].from
          BY <1>2, <3>4, <4>2
        <5>2. Reached(c, g)
          BY <5>1 DEF Covered
        <5> QED
          BY <1>2, <3>4, <3>5, <5>2 DEF Reached
      <4> QED
        BY <4>1, <4>2
    <3> QED
      BY <3>4, <3>6
  <2> QED
    BY <2>1, <2>2
<1>8. ClientsOK'
  BY <1>7 DEF FramesInv, ClientsOK
<1> QED
  BY <1>5, <1>6, <1>8 DEF FramesInv

\* A client that moves leaves the others, and the frames, as they are.
LEMMA OneClient ==
  ASSUME StreamTyped, FramesInv, NEW c \in Clients, NEW s, NEW g,
         client' = [client EXCEPT ![c] = s], got' = [got EXCEPT ![c] = g],
         UNCHANGED <<req, seq, buffer, sent, skipped, boot>>,
         s.pc = "on" => Covered(c)',
         s.pc # "on" => s.replay = <<>>,
         s.pc = "sub" => (s.id = 0 /\ Covered(c)') \/ (s.id # 0 /\ s.from = s.id)
  PROVE  FramesInv'
<1>1. client \in [Clients -> ClientSet] /\ got \in [Clients -> SUBSET FrameSet]
  BY TypedParts DEF RestTyped
<1>2. /\ client'[c] = s
      /\ \A d \in Clients : d # c => client'[d] = client[d] /\ got'[d] = got[d]
  BY <1>1
<1>3. Numbered' /\ PushedFirst'
  BY DEF FramesInv, Numbered, PushedFirst, InFrames
<1>4. ASSUME NEW d \in Clients
      PROVE  /\ client'[d].pc = "on" => Covered(d)'
             /\ client'[d].pc # "on" => client'[d].replay = <<>>
             /\ client'[d].pc = "sub" => \/ client'[d].id = 0 /\ Covered(d)'
                                         \/ client'[d].id # 0 /\ client'[d].from = client'[d].id
  <2>1. CASE d = c
    BY <1>2, <2>1
  <2>2. CASE d # c
    <3>1. client'[d] = client[d] /\ got'[d] = got[d]
      BY <1>2, <2>2
    <3>2. Covered(d)' <=> Covered(d)
      BY <3>1 DEF Covered, Reached
    <3> QED
      BY <3>1, <3>2 DEF FramesInv, ClientsOK
  <2> QED
    BY <2>1, <2>2
<1>5. ClientsOK'
  BY <1>4 DEF ClientsOK
<1> QED
  BY <1>3, <1>5 DEF FramesInv

LEMMA FramesClients ==
  ASSUME StreamTyped, FramesInv, NEW c \in Clients, ClientStep(c)
  PROVE  FramesInv'
<1>1. /\ client \in [Clients -> ClientSet] /\ client[c] \in ClientSet /\ seq \in Nat
      /\ buffer \in Seq(FrameSet) /\ got \in [Clients -> SUBSET FrameSet]
      /\ got = [got EXCEPT ![c] = got[c]]
  <2>1. /\ client \in [Clients -> ClientSet] /\ seq \in Nat
        /\ buffer \in Seq(FrameSet) /\ got \in [Clients -> SUBSET FrameSet]
    BY TypedParts DEF RestTyped
  <2> QED
    BY <2>1
<1>2. /\ client[c].replay \in Seq(FrameSet) /\ client[c].queue \in Seq(FrameSet)
      /\ client[c].id \in Nat /\ client[c].from \in Nat
  BY <1>1 DEF ClientSet
<1>3. UNCHANGED <<req, seq, buffer, sent, skipped, boot>>
  BY DEF ClientStep, Subscribe, ReadBuffer, Receive, Leave, frames
<1>4. \A f \in sent \cap ToSet(buffer) : f \in FrameSet /\ f.seq \in Nat /\ f.seq < seq
  <2>1. sent \subseteq FrameSet
    BY TypedParts DEF RestTyped
  <2> QED
    BY <2>1 DEF FramesInv, Numbered, FrameSet
<1>5. CASE Subscribe(c)
  <2> DEFINE a == IF client[c].id = 0 THEN seq - 1 ELSE client[c].since
             b == IF client[c].id = 0 THEN seq - 1 ELSE client[c].id
             s == [client[c] EXCEPT !.pc = "sub", !.since = a, !.from = b]
  <2>1. client' = [client EXCEPT ![c] = s] /\ got' = [got EXCEPT ![c] = got[c]]
    BY <1>1, <1>5 DEF Subscribe
  <2>2. /\ s.pc = "sub" /\ s.id = client[c].id /\ s.from = b /\ s.replay = client[c].replay
    BY <1>1 DEF ClientSet
  <2>3. client[c].pc # "on" /\ client[c].replay = <<>>
    BY <1>5 DEF Subscribe, FramesInv, ClientsOK
  <2>4. client'[c].from = b
    BY <1>1, <2>1, <2>2
  <2>5. client[c].id = 0 => Covered(c)'
    <3> SUFFICES ASSUME client[c].id = 0, NEW f \in sent' \cap ToSet(buffer)',
                        f.seq > client'[c].from
                 PROVE  FALSE
      BY DEF Covered
    <3>1. f.seq \in Nat /\ f.seq < seq
      BY <1>3, <1>4
    <3> QED
      BY <1>1, <2>4, <3>1
  <2>6. client[c].id # 0 => b = client[c].id
    OBVIOUS
  <2> HIDE DEF s, b
  <2> QED
    BY <1>3, <2>1, <2>2, <2>3, <2>5, <2>6, OneClient
<1>6. CASE ReadBuffer(c)
  <2> DEFINE m == Missed(client[c].id)
             s == [client[c] EXCEPT !.pc = "on", !.replay = m]
  <2>1. client' = [client EXCEPT ![c] = s] /\ got' = [got EXCEPT ![c] = got[c]]
    BY <1>1, <1>6 DEF ReadBuffer
  <2>2. client[c].pc = "sub" /\ client[c].replay = <<>>
    BY <1>6 DEF ReadBuffer, FramesInv, ClientsOK
  <2> HIDE DEF m
  <2>3. s.pc = "on" /\ s.replay = m /\ s.from = client[c].from /\ s.queue = client[c].queue
    BY <1>1 DEF ClientSet
  <2>4. client'[c] = s /\ got'[c] = got[c]
    BY <1>1, <2>1
  <2>5. Covered(c)'
    <3> SUFFICES ASSUME NEW f \in sent' \cap ToSet(buffer)', f.seq > client'[c].from
                 PROVE  Reached(c, f)'
      BY DEF Covered
    <3>1. f \in sent \cap ToSet(buffer) /\ f.seq > client[c].from
      BY <1>3, <2>3, <2>4
    <3>2. CASE client[c].id = 0 /\ Covered(c)
      <4>1. Reached(c, f) /\ f \notin ToSet(client[c].replay)
        BY <2>2, <3>1, <3>2 DEF Covered, ToSet
      <4> QED
        BY <1>3, <2>3, <2>4, <4>1 DEF Reached
    <3>3. CASE client[c].id # 0 /\ client[c].from = client[c].id
      <4>1. m = Kept(buffer, {g \in ToSet(buffer) : g.seq > client[c].id})
        BY <3>3 DEF m, Missed
      <4>2. f \in ToSet(m)
        BY <1>1, <3>1, <3>3, <4>1, KeptElements
      <4> QED
        BY <2>3, <2>4, <4>2 DEF Reached
    <3> QED
      BY <2>2, <3>2, <3>3 DEF FramesInv, ClientsOK
  <2> HIDE DEF s
  <2> QED
    BY <1>3, <2>1, <2>3, <2>5, OneClient
<1>7. CASE Leave(c)
  <2> DEFINE s == Away(client[c].id, client[c].since)
  <2>1. client' = [client EXCEPT ![c] = s] /\ got' = [got EXCEPT ![c] = got[c]]
    BY <1>1, <1>7 DEF Leave
  <2>2. s.pc = "off" /\ s.replay = <<>>
    BY DEF Away
  <2> HIDE DEF s
  <2> QED
    BY <1>3, <2>1, <2>2, OneClient
<1>8. CASE Receive(c)
  <2>0. client[c].pc = "on" /\ Covered(c)
    BY <1>8 DEF Receive, FramesInv, ClientsOK
  <2>1. ASSUME NEW s, NEW f, client' = [client EXCEPT ![c] = s],
               got' = [got EXCEPT ![c] = got[c] \cup {f}],
               s.pc = "on", s.from = client[c].from,
               ToSet(client[c].replay) \cup ToSet(client[c].queue)
                 \subseteq {f} \cup ToSet(s.replay) \cup ToSet(s.queue)
        PROVE  FramesInv'
    <3>1. client'[c] = s /\ got'[c] = got[c] \cup {f}
      BY <1>1, <2>1
    <3>2. ASSUME NEW x, Reached(c, x) PROVE Reached(c, x)'
      BY <1>3, <2>1, <3>1, <3>2 DEF Reached
    <3>3. Covered(c)'
      BY <1>3, <2>0, <2>1, <3>1, <3>2 DEF Covered
    <3> QED
      BY <1>3, <2>1, <3>3, OneClient
  <2>2. CASE client[c].replay # <<>>
    <3> DEFINE f == Head(client[c].replay)
               t == Tail(client[c].replay)
               s == [client[c] EXCEPT !.id = f.seq, !.replay = t]
    <3>1. ToSet(client[c].replay) = {f} \cup ToSet(t)
      BY <1>2, <2>2, TailElements
    <3>2. client' = [client EXCEPT ![c] = s] /\ got' = [got EXCEPT ![c] = got[c] \cup {f}]
      BY <1>1, <1>8, <2>2 DEF Receive
    <3> HIDE DEF f, t
    <3>3. s.pc = "on" /\ s.from = client[c].from /\ s.replay = t /\ s.queue = client[c].queue
      BY <1>1, <2>0 DEF ClientSet
    <3> HIDE DEF s
    <3> QED
      BY <2>1, <3>1, <3>2, <3>3
  <2>3. CASE client[c].replay = <<>>
    <3> DEFINE f == Head(client[c].queue)
               t == Tail(client[c].queue)
               i == IF f.id THEN f.seq ELSE client[c].id
               s == [client[c] EXCEPT !.id = i, !.queue = t]
    <3>1. ToSet(client[c].queue) = {f} \cup ToSet(t)
      BY <1>2, <1>8, <2>3, TailElements DEF Receive
    <3>2. client' = [client EXCEPT ![c] = s] /\ got' = [got EXCEPT ![c] = got[c] \cup {f}]
      BY <1>1, <1>8, <2>3 DEF Receive
    <3> HIDE DEF f, t, i
    <3>3. s.pc = "on" /\ s.from = client[c].from /\ s.replay = client[c].replay /\ s.queue = t
      BY <1>1, <2>0 DEF ClientSet
    <3> HIDE DEF s
    <3> QED
      BY <2>1, <3>1, <3>2, <3>3
  <2> QED
    BY <2>2, <2>3
<1> QED
  BY <1>5, <1>6, <1>7, <1>8 DEF ClientStep

LEMMA FramesCrash ==
  ASSUME StreamTyped, FramesInv, Crash
  PROVE  FramesInv'
<1>1. /\ seq' = 1 /\ buffer' = <<>> /\ boot' = boot + 1 /\ sent' = sent /\ boot \in Nat
      /\ sent \subseteq FrameSet
      /\ \A w \in Writers : req'[w] = IF req[w].pc \in {"start", "done"} THEN req[w]
                                      ELSE Answered(req[w], "none")
      /\ \A c \in Clients : client'[c] = Away(client[c].id, 0)
  BY DEF Crash, StreamTyped, TypeOK
<1>2. ASSUME NEW w \in Writers PROVE ~InFrames(w)'
  <2>1. req[w] \in ReqSet
    BY DEF StreamTyped, TypeOK
  <2>2. req'[w].pc \in {"start", "done"}
    BY <1>1, <2>1 DEF Answered, ReqSet
  <2> QED
    BY <2>2 DEF InFrames
<1>3. Numbered'
  <2>1. \A f \in sent : f.boot \in Nat /\ f.boot <= boot
    BY <1>1 DEF FramesInv, Numbered, FrameSet
  <2>2. \A f \in sent' : f.boot <= boot' /\ (f.boot = boot' => f.seq < seq')
    BY <1>1, <2>1
  <2>3. ToSet(buffer)' = {}
    BY <1>1 DEF ToSet
  <2> QED
    BY <1>2, <2>2, <2>3 DEF Numbered
<1>4. PushedFirst'
  BY <1>2 DEF PushedFirst, InFrames
<1>5. ClientsOK'
  <2>1. ASSUME NEW c \in Clients
        PROVE  client'[c].pc = "off" /\ client'[c].replay = <<>>
    <3>1. client'[c] = Away(client[c].id, 0)
      BY <1>1
    <3> QED
      BY <3>1 DEF Away
  <2> QED
    BY <2>1 DEF ClientsOK
<1> QED
  BY <1>3, <1>4, <1>5 DEF FramesInv

LEMMA FramesNext ==
  ASSUME StreamTyped, FramesInv, [Next]_vars
  PROVE  FramesInv'
<1>1. ASSUME NEW w \in Writers, WriterStep(w) PROVE FramesInv'
  BY <1>1, FramesApart, FramesTake, FramesPush, FramesSend DEF WriterStep
<1>2. ASSUME NEW c \in Clients, ClientStep(c) PROVE FramesInv'
  BY <1>2, FramesClients
<1>3. CASE SocketSubscribes \/ SocketReadsHead \/ Replay \/ UNCHANGED vars
  <2>1. UNCHANGED <<req, seq, buffer, sent, client, got, skipped, boot>>
    BY <1>3 DEF SocketSubscribes, SocketReadsHead, Replay, vars, frames, streams
  <2> QED
    BY <2>1, FramesKept
<1> QED
  BY <1>1, <1>2, <1>3, FramesCrash DEF Next

\* A stream that was resumed has every frame that was broadcast after the last
\* one its client had seen and is still buffered, or will be sent it, whatever
\* the order in which requests number, push and send their frames: a frame is
\* pushed before it is sent, and a client subscribes before it reads the
\* buffer (PushFrame, SendFrame, Subscribe, ReadBuffer).
THEOREM ReplayMeetsLiveAlways == Spec => []ReplayMeetsLive
<1>1. Init => StreamTyped /\ FramesInv
  BY TypedInit, FramesInit
<1>2. StreamTyped /\ FramesInv /\ [Next]_vars => StreamTyped' /\ FramesInv'
  BY TypedNext, FramesNext
<1>3. FramesInv => ReplayMeetsLive
  BY DEF FramesInv, ClientsOK, Covered, Reached, ReplayMeetsLive
<1> QED
  BY <1>1, <1>2, <1>3, PTL DEF Spec

-----------------------------------------------------------------------------
(* The frame of a request's own event.                                     *)

LEMMA OwnInit ==
  ASSUME Init PROVE OwnInv
<1>1. \A w \in Writers : req[w].pc = "start" /\ req[w].answer = "none"
  BY DEF Init, NewReq
<1> QED
  BY <1>1 DEF OwnInv, OwnOK

\* m is where the log was, or longer.
Extends(m, r) == Len(m) <= Len(r) /\ \A p \in 1..Len(m) : r[p] = m[p]

LEMMA OwnKept ==
  ASSUME StreamTyped, NEW v \in Writers, OwnOK(v), req'[v] = req[v], load' = load,
         sent \subseteq sent', Len(memory') \in Nat, Extends(memory, memory')
  PROVE  OwnOK(v)'
<1>1. Kind(v)' = Kind(v) /\ (HasFrame(Event(v))' <=> HasFrame(Event(v)))
  BY DEF Kind, HasFrame, Event
<1>2. req[v] \in ReqSet /\ Len(memory) \in Nat
  <2>1. memory \in Seq(EntrySet) /\ req[v] \in ReqSet
    BY TypedParts DEF RestTyped
  <2> QED
    BY <2>1
<1>3. req[v].before \in Nat
  BY <1>2 DEF ReqSet
<1> SUFFICES ASSUME Kind(v) = "service" PROVE OwnOK(v)'
  BY <1>1 DEF OwnOK
<1>4. req[v].pc = "append" => req[v].before <= Len(memory')
  BY <1>2, <1>3 DEF OwnOK, Extends
<1>5. req[v].pc \in {"second", "read"} =>
        req[v].pos \in (req[v].before + 1)..Len(memory') /\ memory'[req[v].pos] = Event(v)
  BY <1>2, <1>3 DEF OwnOK, Extends
<1>6. (/\ req[v].pc \in {"frame", "push", "send"} \/ req[v].answer = "ok"
       /\ HasFrame(Event(v)) /\ req[v].pos - req[v].before <= ReadLimit) =>
          \/ \E f \in sent' : f.writer = v
          \/ req[v].pc # "done" /\ \E i \in 1..Len(req[v].todo) : req[v].todo[i].writer = v
  BY DEF OwnOK
<1> QED
  BY <1>1, <1>4, <1>5, <1>6, Zenon DEF OwnOK

\* The steps of a request: where it is w that moves.
LEMMA OwnWriter ==
  ASSUME StreamTyped, LogInv, OwnInv, NEW w \in Writers, WriterStep(w)
  PROVE  OwnOK(w)'
<1>1. /\ req \in [Writers -> ReqSet] /\ req[w] \in ReqSet /\ memory \in Seq(EntrySet)
      /\ Len(memory) \in Nat /\ RequestOK(w) /\ OwnOK(w)
  <2>1. req \in [Writers -> ReqSet] /\ memory \in Seq(EntrySet) /\ RequestOK(w) /\ OwnOK(w)
    BY TypedParts DEF RestTyped, LogInv, OwnInv
  <2> QED
    BY <2>1
<1>2. req[w].before \in Nat /\ req[w].pos \in Nat /\ req[w].todo \in Seq(EntrySet)
  BY <1>1 DEF ReqSet, EntrySet
<1>3. load' = load
  BY DEF WriterStep, ReadHead, AppendMemory, AppendSecond, CheckCause, WriteDirect, ReadEvents,
         Progress, TakeSeq, PushFrame, SendFrame, Finish, Cancel
<1>4. Kind(w)' = Kind(w) /\ (HasFrame(Event(w))' <=> HasFrame(Event(w)))
  BY <1>3 DEF Kind, HasFrame, Event
<1> SUFFICES ASSUME Kind(w) = "service" PROVE OwnOK(w)'
  BY <1>4 DEF OwnOK
<1>5. CASE ReadHead(w)
  <2>1. /\ req'[w].pc = "append" /\ req'[w].before = Len(memory) /\ memory' = memory
        /\ req'[w].answer = "none"
    BY <1>1, <1>5 DEF ReadHead, ReqSet, logs, RequestOK
  <2> QED
    BY <1>1, <2>1 DEF OwnOK
<1>6. CASE AppendMemory(w)
  <2>1. /\ req[w].pc = "append" /\ req'[w].pc = "second" /\ req'[w].pos = Len(memory) + 1
        /\ req'[w].before = req[w].before /\ req'[w].answer = "none"
        /\ memory' = memory \o Entries(w)
    BY <1>1, <1>6 DEF AppendMemory, ReqSet, RequestOK
  <2>2. /\ Len(memory) + 1 \in 1..Len(memory') /\ memory'[Len(memory) + 1] = Event(w)
        /\ Len(memory') \in Nat
    BY <1>1, <2>1, EntriesAppended DEF Grown
  <2>3. req[w].before <= Len(memory)
    BY <1>1, <2>1 DEF OwnOK
  <2>4. req'[w].pos \in (req'[w].before + 1)..Len(memory') /\ memory'[req'[w].pos] = Event(w)
    BY <1>1, <1>2, <2>1, <2>2, <2>3
  <2> QED
    BY <2>1, <2>4 DEF OwnOK
<1>7. CASE AppendSecond(w)
  <2>1. /\ req[w].pc = "second" /\ memory' = memory
        /\ \/ /\ req'[w].pc = "read" /\ req'[w].pos = req[w].pos
              /\ req'[w].before = req[w].before /\ req'[w].answer = "none"
           \/ req'[w].pc = "done" /\ req'[w].answer = "error"
    <3>1. req[w].pc = "second" /\ memory' = memory /\ req[w].answer = "none"
      BY <1>1, <1>7 DEF AppendSecond, RequestOK
    <3>2. \/ req' = [req EXCEPT ![w] = [req[w] EXCEPT !.pc = "read"]]
          \/ req' = [req EXCEPT ![w] = Answered(req[w], "error")]
      BY <1>1, <1>7 DEF AppendSecond
    <3>3. CASE req' = [req EXCEPT ![w] = [req[w] EXCEPT !.pc = "read"]]
      BY <1>1, <3>1, <3>3 DEF ReqSet
    <3>4. CASE req' = [req EXCEPT ![w] = Answered(req[w], "error")]
      <4>1. req'[w] = Answered(req[w], "error")
        BY <1>1, <3>4
      <4> QED
        BY <1>1, <3>1, <4>1 DEF ReqSet, Answered
    <3> QED
      BY <3>2, <3>3, <3>4
  <2> QED
    BY <1>1, <2>1 DEF OwnOK
<1>8. CASE ReadEvents(w)
  <2> DEFINE t == EventsAfter(req[w].before)
             n == Min({req[w].before + ReadLimit, Len(memory)})
             S == {ev \in ToSet(t) : HasFrame(ev)}
  <2>1. /\ req[w].pc = "read" /\ req'[w].pc = "frame" /\ req'[w].todo = Kept(t, S)
        /\ req'[w].pos = req[w].pos /\ req'[w].before = req[w].before /\ req'[w].answer = "none"
        /\ memory' = memory /\ sent' = sent
    BY <1>1, <1>8 DEF ReadEvents, Framed, ReqSet, RequestOK, logs, frames
  <2>2. req[w].pos \in (req[w].before + 1)..Len(memory) /\ memory[req[w].pos] = Event(w)
    BY <1>1, <2>1 DEF OwnOK
  <2>3. IsWindow(EntrySet, memory, req[w].before, ReadLimit, n, t)
    <3>1. ReadLimit \in Nat /\ ReadLimit # 0
      BY StreamAssumption
    <3> QED
      BY <1>1, <1>2, <3>1, Window DEF EventsAfter
  <2> HIDE DEF t, n
  <2>4. ASSUME HasFrame(Event(w)), req[w].pos - req[w].before <= ReadLimit
        PROVE  \E i \in 1..Len(req'[w].todo) : req'[w].todo[i].writer = w
    <3> DEFINE k == req[w].pos - req[w].before
    <3>1. k \in 1..Len(t) /\ t[k] = Event(w) /\ t \in Seq(EntrySet)
      <4>1. req[w].pos <= req[w].before + ReadLimit /\ req[w].before + k = req[w].pos
        BY <1>2, <2>2, <2>4, StreamAssumption
      <4>2. k \in 1..Len(t)
        BY <2>2, <2>3, <4>1 DEF IsWindow
      <4>3. t[k] = memory[req[w].before + k] /\ t \in Seq(EntrySet)
        BY <2>3, <4>2 DEF IsWindow
      <4> QED
        BY <2>2, <4>1, <4>2, <4>3
    <3>2. Event(w) \in ToSet(t)
      <4>1. DOMAIN t = 1..Len(t)
        BY <3>1
      <4> QED
        BY <3>1, <4>1 DEF ToSet
    <3>3. Event(w) \in S
      BY <2>4, <3>2
    <3> HIDE DEF S
    <3> DEFINE u == Kept(t, S)
    <3>4. u \in Seq(EntrySet) /\ ToSet(u) = ToSet(t) \cap S
      BY <3>1, KeptElements
    <3> HIDE DEF u
    <3>5. PICK i \in DOMAIN u : u[i] = Event(w)
      BY <3>2, <3>3, <3>4 DEF ToSet
    <3>6. i \in 1..Len(u) /\ u[i].writer = w
      <4>1. DOMAIN u = 1..Len(u)
        BY <3>4
      <4>2. Event(w).writer = w
        BY EntriesTyped
      <4> QED
        BY <3>5, <4>1, <4>2
    <3> QED
      BY <2>1, <3>6 DEF u
  <2> HIDE DEF S
  <2>5. req'[w].pc # "done" /\ req'[w].pc # "append" /\ req'[w].pc \notin {"second", "read"}
    BY <2>1
  <2>6. (HasFrame(Event(w))' /\ req'[w].pos - req'[w].before <= ReadLimit) =>
          \E i \in 1..Len(req'[w].todo) : req'[w].todo[i].writer = w
    BY <1>4, <2>1, <2>4
  <2> QED
    BY <2>5, <2>6 DEF OwnOK
<1>9. CASE TakeSeq(w) \/ PushFrame(w)
  <2>1. /\ req[w].pc \in {"frame", "push"} /\ req'[w].pc \in {"push", "send"}
        /\ req'[w].pos = req[w].pos /\ req'[w].before = req[w].before
        /\ req'[w].answer = req[w].answer /\ req'[w].todo = req[w].todo
        /\ sent' = sent
    <3>1. CASE TakeSeq(w)
      BY <1>1, <3>1 DEF TakeSeq, ReqSet
    <3>2. CASE PushFrame(w)
      BY <1>1, <3>2 DEF PushFrame, ReqSet
    <3> QED
      BY <1>9, <3>1, <3>2
  <2> QED
    BY <1>1, <1>4, <2>1 DEF OwnOK
<1>10. CASE SendFrame(w)
  <2> DEFINE f == req[w].frame
             t == req[w].todo
  <2>1. /\ req[w].pc = "send" /\ req'[w].pc = "frame"
        /\ req'[w].pos = req[w].pos /\ req'[w].before = req[w].before
        /\ req'[w].answer = req[w].answer /\ req'[w].todo = Tail(t)
        /\ sent' = sent \cup {f}
    BY <1>1, <1>10 DEF SendFrame, ReqSet
  <2>2. t # <<>> /\ f.writer = Head(t).writer
    BY <2>1 DEF StreamTyped, InFrames
  <2>3. ASSUME NEW i \in 1..Len(t), t[i].writer = w
        PROVE  \/ \E g \in sent' : g.writer = w
               \/ \E j \in 1..Len(Tail(t)) : Tail(t)[j].writer = w
    <3>1. /\ Len(t) \in Nat /\ Head(t) = t[1] /\ Len(Tail(t)) = Len(t) - 1
          /\ \A j \in 1..(Len(t) - 1) : Tail(t)[j] = t[j + 1]
      <4>1. t \in Seq(EntrySet)
        BY <1>2
      <4> HIDE DEF t
      <4> QED
        BY <2>2, <4>1
    <3>2. CASE i = 1
      BY <2>1, <2>2, <2>3, <3>1, <3>2
    <3>3. CASE i # 1
      <4>1. i - 1 \in 1..(Len(t) - 1) /\ (i - 1) + 1 = i
        BY <3>1, <3>3
      <4> QED
        BY <2>3, <3>1, <4>1
    <3> QED
      BY <3>2, <3>3
  <2>4. ASSUME HasFrame(Event(w))', req'[w].pos - req'[w].before <= ReadLimit
        PROVE  \/ \E g \in sent' : g.writer = w
               \/ \E j \in 1..Len(req'[w].todo) : req'[w].todo[j].writer = w
    <3>1. HasFrame(Event(w)) /\ req[w].pos - req[w].before <= ReadLimit
      BY <1>4, <2>1, <2>4
    <3>2. (\E g \in sent : g.writer = w) \/ (\E i \in 1..Len(t) : t[i].writer = w)
      BY <1>1, <2>1, <3>1 DEF OwnOK
    <3> QED
      BY <2>1, <2>3, <3>2
  <2>5. req'[w].pc # "done" /\ req'[w].pc # "append" /\ req'[w].pc \notin {"second", "read"}
    BY <2>1
  <2> HIDE DEF t
  <2> QED
    BY <2>4, <2>5 DEF OwnOK
<1>11. CASE Finish(w)
  <2>1. /\ req[w].pc = "frame" /\ req'[w].pc = "done" /\ req[w].todo = <<>>
        /\ req'[w].pos = req[w].pos /\ req'[w].before = req[w].before /\ sent' = sent
    BY <1>1, <1>11 DEF Finish, Answered, ReqSet, frames
  <2>2. 1..Len(req[w].todo) = {}
    BY <2>1
  <2> QED
    BY <1>1, <1>4, <2>1, <2>2 DEF OwnOK
<1>12. CASE Cancel(w)
  <2>1. req'[w].pc = "done" /\ req'[w].answer = "none"
    BY <1>1, <1>12 DEF Cancel, Answered, ReqSet
  <2> QED
    BY <2>1 DEF OwnOK
<1>13. CASE CheckCause(w) \/ Progress(w)
  BY <1>13 DEF CheckCause, Progress
<1>14. CASE WriteDirect(w)
  BY <1>1, <1>14 DEF WriteDirect, RequestOK
<1> QED
  BY <1>5, <1>6, <1>7, <1>8, <1>9, <1>10, <1>11, <1>12, <1>13, <1>14 DEF WriterStep

LEMMA OwnNext ==
  ASSUME StreamTyped, LogInv, OwnInv, [Next]_vars
  PROVE  OwnInv'
<1>1. memory \in Seq(EntrySet) /\ Len(memory) \in Nat /\ req \in [Writers -> ReqSet]
  <2>1. memory \in Seq(EntrySet) /\ req \in [Writers -> ReqSet]
    BY TypedParts DEF RestTyped
  <2> QED
    BY <2>1
<1>2. Extends(memory, memory)
  BY <1>1 DEF Extends
<1>3. ASSUME NEW w \in Writers, WriterStep(w) PROVE OwnInv'
  <2>1. OwnOK(w)'
    BY <1>3, OwnWriter
  <2>2. load' = load /\ sent \subseteq sent' /\ \A v \in Writers : v # w => req'[v] = req[v]
    BY <1>1, <1>3 DEF WriterStep, ReadHead, AppendMemory, AppendSecond, CheckCause, WriteDirect,
         ReadEvents, Progress, TakeSeq, PushFrame, SendFrame, Finish, Cancel, frames
  <2>3. Len(memory') \in Nat /\ Extends(memory, memory')
    <3>1. CASE AppendMemory(w)
      <4>1. Grown(memory, w, memory')
        BY <1>1, <3>1, EntriesAppended DEF AppendMemory
      <4>2. /\ Len(memory') \in Nat /\ \A p \in 1..Len(memory) : memory'[p] = memory[p]
            /\ Len(memory) + 1 \in 1..Len(memory')
        BY <4>1 DEF Grown
      <4> QED
        BY <1>1, <4>2 DEF Extends
    <3>2. CASE ~AppendMemory(w)
      <4>1. memory' = memory
        BY <1>3, <3>2 DEF WriterStep, ReadHead, AppendSecond, CheckCause, WriteDirect,
         ReadEvents, Progress, TakeSeq, PushFrame, SendFrame, Finish, Cancel, logs
      <4> QED
        BY <1>1, <1>2, <4>1
    <3> QED
      BY <3>1, <3>2
  <2>4. ASSUME NEW v \in Writers, v # w PROVE OwnOK(v)'
    BY <2>2, <2>3, <2>4, OwnKept DEF OwnInv
  <2> QED
    BY <2>1, <2>4 DEF OwnInv
<1>4. CASE \/ \E c \in Clients : ClientStep(c)
           \/ SocketSubscribes \/ SocketReadsHead \/ UNCHANGED vars
  <2>1. UNCHANGED <<load, memory, req, sent>>
    BY <1>4 DEF ClientStep, Subscribe, ReadBuffer, Receive, Leave, SocketSubscribes,
                SocketReadsHead, vars, logs, frames
  <2> QED
    BY <1>1, <1>2, <2>1, OwnKept DEF OwnInv
<1>5. CASE Crash \/ Replay
  <2>1. ASSUME NEW w \in Writers
        PROVE  /\ req'[w].pc \in {"start", "done"}
               /\ req'[w].answer # "none" => req'[w] = req[w]
    <3>1. req[w] \in ReqSet /\ RequestOK(w)
      BY <1>1 DEF LogInv
    <3>2. CASE Crash
      <4>1. req'[w] = IF req[w].pc \in {"start", "done"} THEN req[w] ELSE Answered(req[w], "none")
        BY <3>2 DEF Crash
      <4> QED
        BY <3>1, <4>1 DEF Answered, ReqSet
    <3>3. CASE Replay
      BY <3>1, <3>3 DEF Replay, RequestOK, Serving
    <3> QED
      BY <1>5, <3>2, <3>3
  <2>2. load' = load /\ sent' = sent
    BY <1>5 DEF Crash, Replay, frames
  <2>3. ASSUME NEW w \in Writers PROVE OwnOK(w)'
    <3>1. Kind(w)' = Kind(w) /\ (HasFrame(Event(w))' <=> HasFrame(Event(w)))
      BY <2>2 DEF Kind, HasFrame, Event
    <3>2. OwnOK(w)
      BY DEF OwnInv
    <3>3. req'[w].pc \in {"start", "done"}
      BY <2>1
    <3>4. CASE req'[w].answer = "none"
      BY <3>3, <3>4 DEF OwnOK
    <3>5. CASE req'[w].answer # "none"
      <4>1. req'[w] = req[w]
        BY <2>1, <3>5
      <4> QED
        BY <2>2, <3>1, <3>2, <3>3, <4>1 DEF OwnOK
    <3> QED
      BY <3>4, <3>5
  <2> QED
    BY <2>3 DEF OwnInv
<1> QED
  BY <1>3, <1>4, <1>5 DEF Next

\* When a service request is answered, the frame of its event was broadcast,
\* by itself or by another request, as long as no more events than one
\* publication reads came between the head it noted and its own event
\* (ReadHead, ReadEvents, SendFrame, Finish).
THEOREM OwnFrameIsOutAlways == Spec => []OwnFrameIsOut
<1>1. Init => StreamTyped /\ LogInv /\ OwnInv
  BY TypedInit, LogInit, OwnInit
<1>2. StreamTyped /\ LogInv /\ OwnInv /\ [Next]_vars => StreamTyped' /\ LogInv' /\ OwnInv'
  BY TypedNext, LogNext, OwnNext
<1>3. StreamTyped /\ LogInv /\ OwnInv => OwnFrameIsOut
  <2> SUFFICES ASSUME LogInv, OwnInv, NEW w \in Writers, Kind(w) = "service", req[w].answer = "ok",
                      HasFrame(Event(w)), req[w].pos - req[w].before <= ReadLimit
               PROVE  \E f \in sent : f.writer = w
    BY DEF OwnFrameIsOut
  <2>1. req[w].pc = "done"
    BY DEF LogInv, RequestOK
  <2> QED
    BY <2>1 DEF OwnInv, OwnOK
<1> QED
  BY <1>1, <1>2, <1>3, PTL DEF Spec

=============================================================================
