----------------------------- MODULE EventStream -----------------------------
(***************************************************************************)
(* The event log and the streams that follow it.                           *)
(*                                                                         *)
(*   cairn-store/src/in_memory.rs   the log the services append to; an     *)
(*                                  append is then written a second time,  *)
(*                                  to the durable log;                    *)
(*   cairn-store/src/pg, sqlite     the durable log, one transaction for   *)
(*                                  an append, event ids unique;           *)
(*   cairn-app/src/main.rs          replays the durable log at startup;    *)
(*   cairn-app/src/handlers/sse.rs  turns new events into numbered frames, *)
(*                                  keeps the latest of them in a buffer   *)
(*                                  and broadcasts them; a client that     *)
(*                                  reconnects names the last frame it has *)
(*                                  seen and is first sent what it missed; *)
(*   cairn-app/src/bin_events.rs    the route that appends raw events;     *)
(*   cairn-app/src/bin_websocket.rs the stream of the events themselves.   *)
(*                                                                         *)
(* Each writer is a request that appends one event of its own, so a writer *)
(* stands for its event too; which requests come is chosen at the start.   *)
(* A position in a log is an index of it.  The tenant filter, the same for *)
(* replayed and for live frames, is left out.                              *)
(***************************************************************************)
EXTENDS Integers, Sequences, SequencesExt, FiniteSets, FiniteSetsExt

CONSTANTS
  Writers,      \* requests
  NoCause,      \* the causation id of an event without one
  Loads,        \* what may come; load[w] has
                \*   kind   "service", "raw" (POST /v1/events/append),
                \*          "progress" or "github" (a frame about no event; one
                \*          of GitHub progress is sent without its id), or "none"
                \*   costs  the event is a provider call: the projection
                \*          derives a cost event, and neither has a frame
                \*   cause  its causation id, or NoCause
  Clients,      \* SSE clients
  ReadLimit,    \* events one publication reads, 64
  Capacity,     \* SSE_BUFFER_CAPACITY
  QueueCap,     \* capacity of the broadcast channel, 256
  ReplayBatch,  \* REPLAY_BATCH
  Env,          \* what goes wrong, see below
  MaxFaults     \* bound on the number of faults

(***************************************************************************)
(* Env is a subset of                                                      *)
(*   "fail"    a write of the durable log fails; it may still have         *)
(*             committed when the answer is lost                           *)
(*   "crash"   the process stops and is started again                      *)
(*   "cancel"  a request is dropped where it awaits                        *)
(*   "leave"   a client loses its connection and connects again            *)
(***************************************************************************)

ASSUME StreamAssumption ==
  /\ \A l \in Loads, w \in Writers :
       /\ l[w].kind \in {"service", "raw", "progress", "github", "none"}
       /\ l[w].costs \in BOOLEAN
       /\ l[w].cause # NoCause => l[w].kind = "raw"
  /\ {ReadLimit, Capacity, QueueCap, ReplayBatch} \subseteq Nat \ {0}
  /\ Env \subseteq {"fail", "crash", "cancel", "leave"}
  /\ MaxFaults \in Nat

VARIABLES
  load,     \* the requests of this behaviour
  memory,   \* InMemoryStore: the events, [writer, derived]
  durable,  \* the durable log
  up,       \* the process: it replays the durable log, then serves
  req,      \* req[w]: the request and its locals
  seq,      \* sse_seq
  buffer,   \* sse_event_buffer
  client,   \* client[c]: the stream of c, its receiver and Last-Event-ID
  ws,       \* a WebSocket: its receiver and the head it was told of
  boot,     \* history: number of crashes
  sent,     \* history: the frames that were broadcast
  got,      \* history: got[c], the frames c received from this process
  skipped,  \* history: skipped[c], the frames the receiver of c overran
  faults    \* number of faults so far

logs == <<memory, durable>>
frames == <<seq, buffer, sent>>
streams == <<client, got, skipped>>
vars == <<load, logs, up, req, frames, streams, ws, boot, faults>>

Kind(w) == load[w].kind
Cause(w) == load[w].cause
Event(w) == [writer |-> w, derived |-> FALSE]
FrameSet == [seq : Nat \ {0}, writer : Writers, boot : Nat, id : BOOLEAN]
NoFrame == [seq |-> 0]

NewReq == [pc |-> "start", before |-> 0, pos |-> 0, todo |-> <<>>,
           frame |-> NoFrame, answer |-> "none"]
\* since: history, the last number taken when the client first connected
Away(id, since) == [pc |-> "off", id |-> id, since |-> since, from |-> 0,
                    replay |-> <<>>, queue |-> <<>>]
NoSocket == [pc |-> "off", head |-> 0, got |-> {}]
Serving == up.pc = "up"

Init ==
  /\ load \in Loads
  /\ memory = <<>> /\ durable = <<>>
  /\ up = [pc |-> "up", after |-> 0]
  /\ req = [w \in Writers |-> NewReq]
  /\ seq = 1 /\ buffer = <<>>
  /\ client = [c \in Clients |-> Away(0, 0)]
  /\ ws = NoSocket
  /\ boot = 0 /\ sent = {}
  /\ got = [c \in Clients |-> {}] /\ skipped = [c \in Clients |-> {}]
  /\ faults = 0

Fault(kind) == kind \in Env /\ faults < MaxFaults /\ faults' = faults + 1

Answered(r, a) == [r EXCEPT !.pc = "done", !.answer = a]

\* The elements of s that are in S, in their order.
Kept(s, S) ==
  LET kept[i \in 0..Len(s)] ==
        IF i = 0 THEN <<>>
        ELSE IF s[i] \in S THEN Append(kept[i - 1], s[i]) ELSE kept[i - 1]
  IN kept[Len(s)]

-----------------------------------------------------------------------------
(* The logs                                                                *)

\* What an append of the event of w leaves in the log: the projection of a
\* provider call pushes a derived event behind it, under the same lock.
Entries(w) ==
  <<Event(w)>> \o (IF load[w].costs THEN <<[writer |-> w, derived |-> TRUE]>> ELSE <<>>)

\* InMemoryStore::append up to the await: the event, its projection and the
\* broadcast to the WebSockets are one critical section.  Derived events are
\* not broadcast.
AppendMemory(w) ==
  LET at == Len(memory) + 1 IN
  /\ req[w].pc = "append"
  /\ memory' = memory \o Entries(w)
  /\ ws' = IF ws.pc = "off" THEN ws ELSE [ws EXCEPT !.got = @ \cup {at}]
  /\ req' = [req EXCEPT ![w].pc = "second", ![w].pos = at]
  /\ UNCHANGED <<load, durable, up, frames, streams, boot, faults>>

\* The write of the durable log: it refuses an event id it already has.
Write(w) == w \notin ToSet(durable) /\ durable' = Append(durable, w)
WriteFails(w) == Fault("fail") /\ (UNCHANGED durable \/ Write(w))

\* Mutant: a failed write of the durable log is logged and swallowed.
AppendSecondSwallows(w) ==
  /\ req[w].pc = "second"
  /\ \/ Write(w) /\ UNCHANGED faults
     \/ w \in ToSet(durable) /\ UNCHANGED <<durable, faults>>
     \/ WriteFails(w)
  /\ req' = [req EXCEPT ![w] = IF Kind(w) = "raw" THEN Answered(@, "ok")
                               ELSE [@ EXCEPT !.pc = "read"]]
  /\ UNCHANGED <<load, memory, up, frames, streams, ws, boot>>

\* InMemoryStore::append from the await on.  Failing closed, it answers an
\* error although memory keeps the event.
AppendSecond(w) ==
  /\ req[w].pc = "second"
  /\ \/ /\ Write(w)
        /\ req' = [req EXCEPT ![w] = IF Kind(w) = "raw" THEN Answered(@, "ok")
                                     ELSE [@ EXCEPT !.pc = "read"]]
        /\ UNCHANGED faults
     \/ /\ w \in ToSet(durable)
        /\ req' = [req EXCEPT ![w] = Answered(@, "error")]
        /\ UNCHANGED <<durable, faults>>
     \/ /\ WriteFails(w)
        /\ req' = [req EXCEPT ![w] = Answered(@, "error")]
  /\ UNCHANGED <<load, memory, up, frames, streams, ws, boot>>

-----------------------------------------------------------------------------
(* POST /v1/events/append: look for the causation id, write the durable    *)
(* log, then append to the store, which writes the durable log again.      *)

Caused(cause) == {p \in DOMAIN memory : /\ ~memory[p].derived
                                        /\ Cause(memory[p].writer) = cause}

CheckCause(w) ==
  /\ Serving /\ Kind(w) = "raw" /\ req[w].pc = "start"
  /\ req' = [req EXCEPT ![w] =
               IF Cause(w) # NoCause /\ Caused(Cause(w)) # {}
               THEN Answered([@ EXCEPT !.pos = Min(Caused(Cause(w)))], "found")
               ELSE [@ EXCEPT !.pc = "direct"]]
  /\ UNCHANGED <<load, logs, up, frames, streams, ws, boot, faults>>

WriteDirect(w) ==
  /\ req[w].pc = "direct"
  /\ \/ /\ Write(w)
        /\ req' = [req EXCEPT ![w].pc = "append"]
        /\ UNCHANGED faults
     \/ /\ WriteFails(w)
        /\ req' = [req EXCEPT ![w] = Answered(@, "error")]
  /\ UNCHANGED <<load, memory, up, frames, streams, ws, boot>>

-----------------------------------------------------------------------------
(* A service request: note the head of the log, call the service, publish  *)
(* what was appended since.                                                *)

ReadHead(w) ==
  /\ Serving /\ Kind(w) = "service" /\ req[w].pc = "start"
  /\ req' = [req EXCEPT ![w].pc = "append", ![w].before = Len(memory)]
  /\ UNCHANGED <<load, logs, up, frames, streams, ws, boot, faults>>

HasFrame(ev) == ~load[ev.writer].costs
Framed(events) == Kept(events, {ev \in ToSet(events) : HasFrame(ev)})

\* Mutant: a window that ends one event early.
EventsAfterShort(p) == SubSeq(memory, p + 1, Min({p + ReadLimit, Len(memory)}) - 1)

EventsAfter(p) == SubSeq(memory, p + 1, Min({p + ReadLimit, Len(memory)}))

\* publish_runtime_frames_since, before its loop
ReadEvents(w) ==
  /\ req[w].pc = "read"
  /\ req' = [req EXCEPT ![w].pc = "frame",
               ![w].todo = Framed(EventsAfter(req[w].before))]
  /\ UNCHANGED <<load, logs, up, frames, streams, ws, boot, faults>>

\* The emitters of progress, and emit_github_progress, make one frame.
Progress(w) ==
  /\ Serving /\ Kind(w) \in {"progress", "github"} /\ req[w].pc = "start"
  /\ req' = [req EXCEPT ![w].pc = "frame", ![w].todo = <<Event(w)>>]
  /\ UNCHANGED <<load, logs, up, frames, streams, ws, boot, faults>>

TakeSeq(w) ==
  /\ req[w].pc = "frame" /\ req[w].todo # <<>>
  /\ req' = [req EXCEPT ![w].pc = "push",
               ![w].frame = [seq |-> seq, writer |-> Head(req[w].todo).writer,
                             boot |-> boot, id |-> Kind(w) # "github"]]
  /\ seq' = seq + 1
  /\ UNCHANGED <<load, logs, up, buffer, sent, streams, ws, boot, faults>>

\* Mutant: the buffer is trimmed one frame late.
TrimmedLate(buf) == IF Len(buf) > Capacity THEN Tail(buf) ELSE buf

Trimmed(buf) == IF Len(buf) >= Capacity THEN Tail(buf) ELSE buf

PushFrame(w) ==
  /\ req[w].pc = "push"
  /\ buffer' = Append(Trimmed(buffer), req[w].frame)
  /\ req' = [req EXCEPT ![w].pc = "send"]
  /\ UNCHANGED <<load, logs, up, seq, sent, streams, ws, boot, faults>>

\* The broadcast: a receiver that is full loses its oldest frame.
SendFrame(w) ==
  LET f == req[w].frame
      full(c) == Len(client[c].queue) >= QueueCap
      listens(c) == client[c].pc # "off"
  IN
  /\ req[w].pc = "send"
  /\ client' = [c \in Clients |->
                  IF ~listens(c) THEN client[c]
                  ELSE [client[c] EXCEPT !.queue =
                          Append(IF full(c) THEN Tail(@) ELSE @, f)]]
  /\ skipped' = [c \in Clients |->
                   IF listens(c) /\ full(c)
                   THEN skipped[c] \cup {Head(client[c].queue)} ELSE skipped[c]]
  /\ sent' = sent \cup {f}
  /\ req' = [req EXCEPT ![w].pc = "frame", ![w].todo = Tail(@), ![w].frame = NoFrame]
  /\ UNCHANGED <<load, logs, up, seq, buffer, got, ws, boot, faults>>

Finish(w) ==
  /\ req[w].pc = "frame" /\ req[w].todo = <<>>
  /\ req' = [req EXCEPT ![w] = Answered(@, "ok")]
  /\ UNCHANGED <<load, logs, up, frames, streams, ws, boot, faults>>

\* The connection of the request is gone: its future is dropped at an await,
\* and the transaction it waited for may commit all the same.
Cancel(w) ==
  /\ Fault("cancel")
  /\ \/ req[w].pc \in {"direct", "second", "frame"} /\ UNCHANGED durable
     \/ req[w].pc \in {"direct", "second"} /\ Write(w)
  /\ req' = [req EXCEPT ![w] = Answered(@, "none")]
  /\ UNCHANGED <<load, memory, up, frames, streams, ws, boot>>

-----------------------------------------------------------------------------
(* runtime_stream_handler, and the client behind it                        *)

Subscribe(c) ==
  /\ Serving /\ client[c].pc = "off"
  /\ client' = [client EXCEPT ![c].pc = "sub",
                  ![c].since = IF client[c].id = 0 THEN seq - 1 ELSE @,
                  ![c].from = IF client[c].id = 0 THEN seq - 1 ELSE client[c].id]
  /\ UNCHANGED <<load, logs, up, req, frames, got, skipped, ws, boot, faults>>

\* Mutant: the replay starts behind the frame after the last one seen.
MissedOff(id) ==
  IF id = 0 THEN <<>> ELSE Kept(buffer, {f \in ToSet(buffer) : f.seq > id + 1})

\* The frames of the buffer after the Last-Event-ID, none without one
Missed(id) ==
  IF id = 0 THEN <<>> ELSE Kept(buffer, {f \in ToSet(buffer) : f.seq > id})

ReadBuffer(c) ==
  /\ client[c].pc = "sub"
  /\ client' = [client EXCEPT ![c].pc = "on",
                  ![c].replay = Missed(client[c].id)]
  /\ UNCHANGED <<load, logs, up, req, frames, got, skipped, ws, boot, faults>>

\* replay.chain(live): the client takes the next frame and remembers its id.
Receive(c) ==
  LET s == client[c]
      from == IF s.replay # <<>> THEN "replay" ELSE "queue"
  IN
  /\ s.pc = "on" /\ s[from] # <<>>
  /\ LET f == Head(s[from])
         id == IF from = "replay" \/ f.id THEN f.seq ELSE s.id
     IN  /\ client' = [client EXCEPT ![c].id = id, ![c][from] = Tail(@)]
         /\ got' = [got EXCEPT ![c] = @ \cup {f}]
  /\ UNCHANGED <<load, logs, up, req, frames, skipped, ws, boot, faults>>

Leave(c) ==
  /\ Fault("leave") /\ client[c].pc # "off"
  /\ client' = [client EXCEPT ![c] = Away(@.id, @.since)]
  /\ UNCHANGED <<load, logs, up, req, frames, got, skipped, ws, boot>>

-----------------------------------------------------------------------------
(* handle_ws_connection                                                    *)

SocketSubscribes ==
  /\ Serving /\ ws.pc = "off"
  /\ ws' = [NoSocket EXCEPT !.pc = "sub"]
  /\ UNCHANGED <<load, logs, up, req, frames, streams, boot, faults>>

\* Mutant: the socket is told the head of the durable log.
SocketReadsDurable ==
  /\ ws.pc = "sub"
  /\ ws' = [ws EXCEPT !.pc = "on", !.head = Len(durable)]
  /\ UNCHANGED <<load, logs, up, req, frames, streams, boot, faults>>

SocketReadsHead ==
  /\ ws.pc = "sub"
  /\ ws' = [ws EXCEPT !.pc = "on", !.head = Len(memory)]
  /\ UNCHANGED <<load, logs, up, req, frames, streams, boot, faults>>

-----------------------------------------------------------------------------
(* A crash, and the replay of the durable log at startup                   *)

\* What is in flight is lost; the clients keep their Last-Event-ID.
Crash ==
  /\ Fault("crash")
  /\ memory' = <<>> /\ up' = [pc |-> "replay", after |-> 0]
  /\ req' = [w \in Writers |->
               IF req[w].pc \in {"start", "done"} THEN req[w] ELSE Answered(req[w], "none")]
  /\ seq' = 1 /\ buffer' = <<>>
  /\ client' = [c \in Clients |-> Away(client[c].id, 0)]
  /\ got' = [c \in Clients |-> {}] /\ skipped' = [c \in Clients |-> {}]
  /\ ws' = NoSocket
  /\ boot' = boot + 1
  /\ UNCHANGED <<load, durable, sent>>

\* A batch goes through InMemoryStore::append, which derives again what it
\* derived before.
Applied(m, batch) ==
  LET log[i \in 0..Len(batch)] == IF i = 0 THEN m ELSE log[i - 1] \o Entries(batch[i])
  IN log[Len(batch)]

\* Mutant: the cursor is the position behind the last event of the batch.
ReplaySkips ==
  LET n == Min({up.after + ReplayBatch, Len(durable)})
      batch == SubSeq(durable, up.after + 1, n)
  IN
  /\ up.pc = "replay"
  /\ memory' = Applied(memory, batch)
  /\ up' = [pc |-> IF Len(batch) < ReplayBatch THEN "up" ELSE "replay", after |-> n + 1]
  /\ UNCHANGED <<load, durable, req, frames, streams, ws, boot, faults>>

\* The durable log is read in batches; one that is not full is the last.
Replay ==
  LET n == Min({up.after + ReplayBatch, Len(durable)})
      batch == SubSeq(durable, up.after + 1, n)
  IN
  /\ up.pc = "replay"
  /\ memory' = Applied(memory, batch)
  /\ up' = [pc |-> IF Len(batch) < ReplayBatch THEN "up" ELSE "replay", after |-> n]
  /\ UNCHANGED <<load, durable, req, frames, streams, ws, boot, faults>>

WriterStep(w) ==
  \/ ReadHead(w) \/ AppendMemory(w) \/ AppendSecond(w)
  \/ CheckCause(w) \/ WriteDirect(w)
  \/ ReadEvents(w) \/ Progress(w)
  \/ TakeSeq(w) \/ PushFrame(w) \/ SendFrame(w) \/ Finish(w)
  \/ Cancel(w)

ClientStep(c) == Subscribe(c) \/ ReadBuffer(c) \/ Receive(c) \/ Leave(c)

Next ==
  \/ \E w \in Writers : WriterStep(w)
  \/ \E c \in Clients : ClientStep(c)
  \/ SocketSubscribes \/ SocketReadsHead
  \/ Crash \/ Replay

Spec == Init /\ [][Next]_vars

-----------------------------------------------------------------------------
(* Properties                                                              *)

ReqSet == [pc : {"start", "append", "second", "direct", "read", "frame",
                 "push", "send", "done"},
           before : Nat, pos : Nat,
           todo : Seq([writer : Writers, derived : BOOLEAN]),
           frame : FrameSet \cup {NoFrame},
           answer : {"none", "ok", "error", "found"}]

\* Every variable has its type.
TypeOK ==
  /\ load \in Loads
  /\ memory \in Seq([writer : Writers, derived : BOOLEAN])
  /\ durable \in Seq(Writers)
  /\ up \in [pc : {"replay", "up"}, after : Nat]
  /\ req \in [Writers -> ReqSet]
  /\ seq \in Nat \ {0} /\ buffer \in Seq(FrameSet) /\ Len(buffer) <= Capacity
  /\ client \in [Clients -> [pc : {"off", "sub", "on"}, id : Nat, since : Nat, from : Nat,
                             replay : Seq(FrameSet), queue : Seq(FrameSet)]]
  /\ \A c \in Clients : Len(client[c].queue) <= QueueCap
  /\ ws \in [pc : {"off", "sub", "on"}, head : Nat, got : SUBSET Nat]
  /\ boot \in Nat /\ sent \subseteq FrameSet
  /\ got \in [Clients -> SUBSET FrameSet] /\ skipped \in [Clients -> SUBSET FrameSet]
  /\ faults \in 0..MaxFaults

\* An append that was answered with success is in the durable log, and an
\* append that was answered as a repetition has the event of its causation
\* id there: a crash right after the answer loses neither.
AckedIsDurable ==
  \A w \in Writers :
    /\ req[w].answer = "ok" /\ Kind(w) \in {"service", "raw"} => w \in ToSet(durable)
    /\ req[w].answer = "found" =>
         \E v \in ToSet(durable) : Cause(v) = Cause(w)

\* While it serves, the process has every event of the durable log exactly
\* once, and behind it the event derived from it: replay, failed writes and
\* appends in flight neither lose, repeat nor split one.  A raw event is
\* written to the durable log first, so it may be missing in the process
\* that wrote it.
DurableIsServed ==
  Serving => \A w \in ToSet(durable) :
    LET at == {p \in DOMAIN memory : memory[p] = Event(w)} IN
    \/ /\ Cardinality(at) = 1
       /\ \A p \in at : SubSeq(memory, p, p + Len(Entries(w)) - 1) = Entries(w)
    \/ Kind(w) = "raw" /\ at = {} /\ \A i \in 1..up.after : durable[i] # w

\* A stream that was resumed has or will have every frame that was broadcast
\* after the last one its client had seen, as long as the frame is in the
\* replay buffer, except what its own receiver overran: no frame falls
\* between the replay and the live stream, whatever order requests push and
\* send their frames in.
ReplayMeetsLive ==
  \A c \in Clients : client[c].pc = "on" =>
    \A f \in sent \cap ToSet(buffer) :
      f.seq > client[c].from =>
        f \in got[c] \cup skipped[c] \cup ToSet(client[c].replay)
                     \cup ToSet(client[c].queue)

\* When a service request is answered, the frame of its event was broadcast,
\* by the request itself or by another whose window had it, unless more
\* events than one publication reads were appended since the request noted
\* the head.
OwnFrameIsOut ==
  \A w \in Writers :
    (/\ Kind(w) = "service" /\ req[w].answer = "ok" /\ HasFrame(Event(w))
     /\ req[w].pos - req[w].before <= ReadLimit)
      => \E f \in sent : f.writer = w

\* A WebSocket has every event of a service or a raw append behind the head
\* it was told of.
HandshakeCoversLog ==
  ws.pc = "on" => \A p \in ws.head + 1 .. Len(memory) :
                    ~memory[p].derived => p \in ws.got

\* The route for raw events says of an envelope with no causation id in the
\* log that "the event is appended and its assigned position is returned"
\* (bin_events.rs:94): without a fault, no append is answered with an error.
AppendAnswersPosition ==
  \A w \in Writers : Kind(w) = "raw" /\ faults = 0 => req[w].answer # "error"

\* "the existing position is returned without re-appending"
\* (bin_events.rs:91-93): no two raw events in the log share a causation id.
NoRepeatedCause ==
  \A v, w \in ToSet(durable) : Cause(v) = Cause(w) /\ Cause(v) # NoCause => v = w

\* A client that connects again, "to resume from where it left off"
\* (sse.rs:42-43), and has taken in what it was sent, has every frame still
\* buffered that was broadcast since it first connected.
ResumeLosesNothing ==
  \A c \in Clients :
    (client[c].pc = "on" /\ client[c].replay = <<>> /\ client[c].queue = <<>>)
      => \A f \in sent \cap ToSet(buffer) :
           f.seq > client[c].since => f \in got[c] \cup skipped[c]

\* The durable log has the events in the order the projections saw them.
LogsAgree ==
  LET own == SelectSeq(memory, LAMBDA ev : ~ev.derived /\ ev.writer \in ToSet(durable))
      seen == [i \in DOMAIN own |-> own[i].writer]
  IN  Serving => seen = SelectSeq(durable, LAMBDA w : w \in ToSet(seen))

\* A position of the store is a cursor of GET /v1/events, which reads the
\* durable log: the event answered for w is at that position there.
PositionIsCursor ==
  \A w \in Writers : Kind(w) = "service" /\ req[w].answer = "ok" =>
    req[w].pos \in DOMAIN durable /\ durable[req[w].pos] = w

=============================================================================
