----------------------------- MODULE Connection -----------------------------
(***************************************************************************)
(* net::Connection, one direction: a sender that queues rpcs and writes    *)
(* them one at a time, the TCP stream, and a receiver that reads a header  *)
(* and then as many bytes as the header says.                              *)
(*                                                                         *)
(* Each side runs in one thread, so its handlers are atomic; the stream    *)
(* takes the bytes of a write little by little.  A message is two chunks,  *)
(* its header and its data; smaller pieces are put together by the loops   *)
(* inside boost's async_write and async_read.                              *)
(***************************************************************************)
EXTENDS Integers, Sequences

CONSTANTS
  Messages,    \* serialized rpcs
  Size,        \* Size[m]: the bytes of m, what its header says
  Malformed,   \* messages that receive_rpc cannot read a function index from
  ReadsOn,     \* the receiver reads on after one of these (pbr_ctrl does)
  CanBreak,    \* whether the connection may break
  MaxSent      \* bound on the messages sent

ASSUME SizeAssumption == Size \in [Messages -> Nat]
ASSUME MalformedAssumption == Malformed \subseteq Messages /\ ReadsOn \in BOOLEAN
ASSUME BreakAssumption == CanBreak \in BOOLEAN
ASSUME SentAssumption == MaxSent \in Nat

Header(m) == [part |-> "header", msg |-> m]
Data(m) == [part |-> "data", msg |-> m]
Chunk == [part : {"header", "data"}, msg : Messages]

VARIABLES
  queue,      \* msg_queue_: the front is being written
  inflight,   \* asynchronous writes not completed: chunks left, message of the handler
  stream,     \* chunks sent and not read
  up,         \* the connection works
  reading,    \* which asynchronous read is pending: "header", "data" or "none"
  inbound,    \* inbound_data_.size(): how many bytes the read of data waits for
  sent,       \* history: messages given to async_write
  received,   \* history: messages given to the receiver's handle_read
  failed      \* history: messages whose write handler was called with an error

sender == <<queue, inflight, sent, failed>>
receiver == <<reading, inbound, received>>
vars == <<sender, receiver, stream, up>>

Write == [left : Seq(Chunk), handler : Messages]

Init ==
  /\ queue = <<>> /\ inflight = {} /\ stream = <<>> /\ up = TRUE
  /\ reading = "header" /\ inbound = 0
  /\ sent = <<>> /\ received = <<>> /\ failed = <<>>

-----------------------------------------------------------------------------
\* The asynchronous write of the message at the front of q, with h's handler.
\* (Mutant first: the handler of the message is never stored.)
WriteFrontUnhandled(q, h) ==
  [left |-> <<Header(Head(q)), Data(Head(q))>>, handler |-> "no handler"]
WriteFront(q, h) == [left |-> <<Header(Head(q)), Data(Head(q))>>, handler |-> h]

\* async_write: queue the message; write it if no other is being written.
\* (Mutant first: without the test of is_write_in_progress.)
AsyncWriteAtOnce(m) ==
  /\ Len(sent) < MaxSent
  /\ sent' = Append(sent, m)
  /\ queue' = Append(queue, m)
  /\ inflight' = inflight \cup {WriteFront(queue', m)}
  /\ UNCHANGED <<receiver, stream, up, failed>>

AsyncWrite(m) ==
  /\ Len(sent) < MaxSent
  /\ sent' = Append(sent, m)
  /\ queue' = Append(queue, m)
  /\ inflight' = IF queue = <<>> THEN inflight \cup {WriteFront(<<m>>, m)} ELSE inflight
  /\ UNCHANGED <<receiver, stream, up, failed>>

\* The stream takes the next chunk of a write.
Transmit(w) ==
  /\ up /\ w.left # <<>>
  /\ stream' = Append(stream, Head(w.left))
  /\ inflight' = (inflight \ {w}) \cup {[left |-> Tail(w.left), handler |-> w.handler]}
  /\ UNCHANGED <<queue, sent, failed, receiver, up>>

\* async_write_handler: the front has been written; write the next one.
\* (Mutants first: the next one waits for the next async_write; the front is
\* written again.)
FrontWrittenNoNext(w) ==
  /\ w.left = <<>>
  /\ queue' = Tail(queue)
  /\ inflight' = inflight \ {w}
  /\ UNCHANGED <<sent, failed, receiver, stream, up>>

FrontWrittenNoPop(w) ==
  /\ w.left = <<>>
  /\ inflight' = (inflight \ {w}) \cup {WriteFront(queue, Head(queue))}
  /\ UNCHANGED <<queue, sent, failed, receiver, stream, up>>

FrontWritten(w) ==
  /\ w.left = <<>>
  /\ queue' = Tail(queue)
  /\ inflight' = (inflight \ {w}) \cup
                 (IF queue' = <<>> THEN {} ELSE {WriteFront(queue', Head(queue'))})
  /\ UNCHANGED <<sent, failed, receiver, stream, up>>

\* async_write_handler with an error: the handler is told, the front stays.
\* (Mutant first: the front is popped and the next one written all the same.)
WriteFailsPops(w) ==
  /\ ~up /\ w.left # <<>>
  /\ failed' = Append(failed, w.handler)
  /\ queue' = Tail(queue)
  /\ inflight' = (inflight \ {w}) \cup
                 (IF queue' = <<>> THEN {} ELSE {WriteFront(queue', Head(queue'))})
  /\ UNCHANGED <<sent, receiver, stream, up>>

WriteFails(w) ==
  /\ ~up /\ w.left # <<>>
  /\ failed' = Append(failed, w.handler)
  /\ inflight' = inflight \ {w}
  /\ UNCHANGED <<queue, sent, receiver, stream, up>>

-----------------------------------------------------------------------------
\* handle_read_header: the next bytes are a header; read as many more as it says.
HandleReadHeader ==
  /\ reading = "header" /\ stream # <<>> /\ Head(stream).part = "header"
  /\ inbound' = Size[Head(stream).msg]
  /\ reading' = "data"
  /\ stream' = Tail(stream)
  /\ UNCHANGED <<sender, received, up>>

\* handle_read_data, and the handle_read it calls: the rpc is dispatched, and the
\* next header is read, unless receive_rpc failed and the receiver stops then.
HandleReadData ==
  /\ reading = "data" /\ stream # <<>>
  /\ Head(stream).part = "data" /\ Size[Head(stream).msg] = inbound
  /\ LET m == Head(stream).msg
     IN /\ received' = Append(received, m)
        /\ reading' = IF m \in Malformed /\ ~ReadsOn THEN "none" ELSE "header"
  /\ stream' = Tail(stream)
  /\ UNCHANGED <<sender, inbound, up>>

\* Either read fails: handle_read with an error reads no more.
ReadFails ==
  /\ ~up /\ reading # "none"
  /\ reading' = "none"
  /\ UNCHANGED <<sender, inbound, received, stream, up>>

\* The peer is gone, or the network.  What it had sent may still be read.
Break ==
  /\ CanBreak /\ up
  /\ up' = FALSE
  /\ UNCHANGED <<sender, receiver, stream>>

-----------------------------------------------------------------------------
AsyncWriteHandler(w) == FrontWritten(w) \/ WriteFails(w)

Next ==
  \/ \E m \in Messages : AsyncWrite(m)
  \/ \E w \in inflight : Transmit(w) \/ AsyncWriteHandler(w)
  \/ HandleReadHeader \/ HandleReadData \/ ReadFails \/ Break

Spec == Init /\ [][Next]_vars

\* TCP transmits, and both io_services run the handlers that are ready.
FairSpec ==
  /\ Spec
  /\ WF_vars(\E w \in inflight : Transmit(w))
  /\ WF_vars(\E w \in inflight : AsyncWriteHandler(w))
  /\ WF_vars(HandleReadHeader) /\ WF_vars(HandleReadData)

-----------------------------------------------------------------------------
TypeOK ==
  /\ queue \in Seq(Messages) /\ sent \in Seq(Messages)
  /\ received \in Seq(Messages) /\ failed \in Seq(Messages)
  /\ inflight \subseteq Write /\ stream \in Seq(Chunk)
  /\ up \in BOOLEAN /\ inbound \in Nat
  /\ reading \in {"header", "data", "none"}

\* Writes do not overlap; until one fails, a message in the queue is never left
\* without a write under way (async_write starts none behind another, so
\* async_write_handler must); and that write has the handler of the front message.
OneWriteInFlight ==
  /\ \A v, w \in inflight : v = w
  /\ queue # <<>> /\ failed = <<>> => inflight # {}
  /\ \A w \in inflight : queue # <<>> /\ w.handler = Head(queue) /\ failed = <<>>

\* The receiver finds a header where it reads one, and behind it exactly the bytes
\* the header announced, so handle_read_header's error for a header that does
\* not parse (net.hpp:114) is never taken.
Framing ==
  stream # <<>> =>
    /\ reading = "header" => Head(stream).part = "header"
    /\ reading = "data" => Head(stream).part = "data" /\ Size[Head(stream).msg] = inbound

\* At most one write handler is ever told of an error: that of the oldest message
\* not written, which the receiver never gets (so disconnecting on it loses no
\* message twice); the messages behind it stay in the queue for ever.
FailedNotReceived ==
  failed # <<>> =>
    /\ Len(failed) = 1 /\ queue # <<>> /\ failed[1] = Head(queue)
    /\ Len(received) + Len(queue) <= Len(sent)

\* What these rest on: every message sent is either written (Popped of them), or
\* in the queue, in order; chunks leave a write front first; and the stream is
\* the part of header 1, data 1, header 2, data 2 ... from the first chunk not
\* read (Taken of them were) to the last one transmitted.
Popped == Len(sent) - Len(queue)
Taken == 2 * Len(received) + (IF reading = "data" THEN 1 ELSE 0)

QueueIsRest ==
  /\ Len(queue) <= Len(sent)
  /\ \A i \in DOMAIN queue : queue[i] = sent[Popped + i]

WritesFront ==
  \A w \in inflight :
    w.left \in {<<Header(Head(queue)), Data(Head(queue))>>, <<Data(Head(queue))>>, <<>>}

ReceivedBound ==
  /\ \A w \in inflight : Len(received) <= Popped + (IF w.left = <<>> THEN 1 ELSE 0)
  /\ inflight = {} => Len(received) <= Popped

ReceivedInOrder == \A i \in DOMAIN received : received[i] = sent[i]

StreamLength ==
  reading # "none" =>
    /\ \A w \in inflight : Taken + Len(stream) = 2 * Popped + 2 - Len(w.left)
    /\ inflight = {} => Taken + Len(stream) \in {2 * Popped, 2 * Popped + 1}
    /\ inflight = {} /\ failed = <<>> => Taken + Len(stream) = 2 * Popped

StreamChunks ==
  reading # "none" =>
    \A j \in DOMAIN sent :
      /\ 2 * j - 1 - Taken \in DOMAIN stream => stream[2 * j - 1 - Taken] = Header(sent[j])
      /\ 2 * j - Taken \in DOMAIN stream => stream[2 * j - Taken] = Data(sent[j])

InboundSize == reading = "data" => inbound = Size[sent[Len(received) + 1]]

OneFailure == failed # <<>> => Len(failed) = 1 /\ queue # <<>> /\ failed[1] = Head(queue)

\* The inductive invariant.
WrittenInOrder ==
  /\ TypeOK
  /\ OneWriteInFlight
  /\ QueueIsRest
  /\ WritesFront
  /\ ReceivedBound
  /\ ReceivedInOrder
  /\ StreamLength
  /\ StreamChunks
  /\ InboundSize
  /\ OneFailure

\* In transit is what was sent and not received.
AsChannel == INSTANCE Channel WITH transit <- SubSeq(sent, Len(received) + 1, Len(sent))

\* A connection is the FIFO channel that RenderFarm uses, also when it breaks.
ImplementsChannel == AsChannel!Spec

\* Every message given to async_write is delivered in the end, unless the connection
\* breaks or a malformed message stops the receiver: no queued message waits for a
\* write that nobody starts, whether or not another is ever sent.
DeliversAll ==
  \A n \in 1 .. MaxSent :
    (Len(sent) >= n) ~> (Len(received) >= n \/ ~up \/ reading = "none")
=============================================================================
