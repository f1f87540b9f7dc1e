-------------------------- MODULE ConnectionProofs --------------------------
(***************************************************************************)
(* A connection writes one message at a time, its stream stays framed, and *)
(* it implements the FIFO channel, for all messages and sizes and wherever *)
(* it breaks.                                                              *)
(***************************************************************************)
EXTENDS Connection, SequenceTheorems, TLAPS

\* A sequence with one more element, and one without its first.
LEMMA Appended ==
  ASSUME NEW S, NEW s \in Seq(S), NEW e \in S
  PROVE  /\ Append(s, e) \in Seq(S) /\ Len(Append(s, e)) = Len(s) + 1
         /\ DOMAIN Append(s, e) = 1 .. (Len(s) + 1) /\ DOMAIN s = 1 .. Len(s)
         /\ \A i \in 1 .. Len(s) : Append(s, e)[i] = s[i]
         /\ Append(s, e)[Len(s) + 1] = e
         /\ Append(s, e) # <<>> /\ (s # <<>> => Head(Append(s, e)) = Head(s))
<1>1. /\ Append(s, e) \in Seq(S) /\ Len(Append(s, e)) = Len(s) + 1
      /\ DOMAIN Append(s, e) = 1 .. (Len(s) + 1) /\ DOMAIN s = 1 .. Len(s)
      /\ \A i \in 1 .. Len(s) : Append(s, e)[i] = s[i]
      /\ Append(s, e)[Len(s) + 1] = e
  OBVIOUS
<1>2. Append(s, e) # <<>>
  BY <1>1
<1>3. s # <<>> => Head(Append(s, e)) = Head(s)
  <2>1. s # <<>> => 1 \in 1 .. Len(s) /\ Head(s) = s[1]
    OBVIOUS
  <2>2. Head(Append(s, e)) = Append(s, e)[1]
    BY <1>1, <1>2
  <2> QED
    BY <2>1, <2>2, <1>1
<1> QED
  BY <1>1, <1>2, <1>3

\* What is left of a sequence whose first element went.
LEMMA Dropped ==
  ASSUME NEW S, NEW s \in Seq(S), s # <<>>
  PROVE  /\ Tail(s) \in Seq(S) /\ Head(s) \in S /\ Head(s) = s[1]
         /\ Len(Tail(s)) = Len(s) - 1 /\ Len(s) \in Nat /\ Len(s) >= 1
         /\ DOMAIN Tail(s) = 1 .. (Len(s) - 1) /\ DOMAIN s = 1 .. Len(s)
         /\ \A i \in 1 .. (Len(s) - 1) : Tail(s)[i] = s[i + 1]
OBVIOUS

\* The chunks of a message.
LEMMA Chunks ==
  ASSUME NEW m \in Messages
  PROVE  /\ Header(m) \in Chunk /\ Data(m) \in Chunk
         /\ Header(m).part = "header" /\ Data(m).part = "data"
         /\ Header(m).msg = m /\ Data(m).msg = m
BY DEF Header, Data, Chunk

\* The write of a front message.
LEMMA WriteFrontType ==
  ASSUME NEW q \in Seq(Messages), q # <<>>, NEW h \in Messages
  PROVE  /\ WriteFront(q, h) \in Write
         /\ WriteFront(q, h).left = <<Header(Head(q)), Data(Head(q))>>
         /\ Len(WriteFront(q, h).left) = 2 /\ WriteFront(q, h).left # <<>>
         /\ WriteFront(q, h).handler = h
<1>1. Header(Head(q)) \in Chunk /\ Data(Head(q)) \in Chunk
  BY Chunks
<1> QED
  BY <1>1 DEF WriteFront, Write

\* Lengths and how they bound each other.
LEMMA Bounds ==
  ASSUME WrittenInOrder
  PROVE  /\ Len(sent) \in Nat /\ Len(queue) \in Nat /\ Len(received) \in Nat /\ Len(stream) \in Nat
         /\ DOMAIN sent = 1 .. Len(sent) /\ DOMAIN queue = 1 .. Len(queue)
         /\ DOMAIN received = 1 .. Len(received) /\ DOMAIN stream = 1 .. Len(stream)
         /\ Popped \in Nat /\ Taken \in Nat /\ Len(sent) = Popped + Len(queue)
         /\ queue = <<>> <=> Len(queue) = 0
         /\ queue # <<>> => Head(queue) = sent[Popped + 1] /\ Head(queue) \in Messages
         /\ \A w \in inflight : Len(w.left) \in 0 .. 2 /\ (w.left = <<>> <=> Len(w.left) = 0)
         /\ \A w \in inflight : Len(queue) >= 1
         /\ Len(received) <= Len(sent)
         /\ reading # "none" => Taken + Len(stream) <= 2 * Len(sent)
<1>1. /\ sent \in Seq(Messages) /\ queue \in Seq(Messages) /\ received \in Seq(Messages)
      /\ stream \in Seq(Chunk)
  BY DEF WrittenInOrder, TypeOK
<1>2. /\ Len(sent) \in Nat /\ Len(queue) \in Nat /\ Len(received) \in Nat /\ Len(stream) \in Nat
      /\ DOMAIN sent = 1 .. Len(sent) /\ DOMAIN queue = 1 .. Len(queue)
      /\ DOMAIN received = 1 .. Len(received) /\ DOMAIN stream = 1 .. Len(stream)
      /\ queue = <<>> <=> Len(queue) = 0
  BY <1>1
<1>3. Popped \in Nat /\ Taken \in Nat /\ Len(sent) = Popped + Len(queue)
  BY <1>2 DEF Popped, Taken, WrittenInOrder, QueueIsRest
<1>4. queue # <<>> => Head(queue) = sent[Popped + 1] /\ Head(queue) \in Messages
  <2> SUFFICES ASSUME queue # <<>> PROVE Head(queue) = sent[Popped + 1] /\ Head(queue) \in Messages
    OBVIOUS
  <2>1. Head(queue) = queue[1] /\ Head(queue) \in Messages /\ 1 \in DOMAIN queue
    BY <1>1, Dropped
  <2> QED
    BY <2>1 DEF WrittenInOrder, QueueIsRest
<1>5. \A w \in inflight : Len(w.left) \in 0 .. 2 /\ (w.left = <<>> <=> Len(w.left) = 0)
  <2> TAKE w \in inflight
  <2>1. w.left \in {<<Header(Head(queue)), Data(Head(queue))>>, <<Data(Head(queue))>>, <<>>}
    BY DEF WrittenInOrder, WritesFront
  <2> QED
    BY <2>1
<1>6. \A w \in inflight : Len(queue) >= 1
  BY <1>2 DEF WrittenInOrder, OneWriteInFlight
<1>7. Len(received) <= Len(sent)
  <2>1. CASE inflight = {}
    BY <2>1, <1>2, <1>3 DEF WrittenInOrder, ReceivedBound
  <2>2. ASSUME NEW w \in inflight PROVE Len(received) <= Len(sent)
    <3>1. Len(received) <= Popped + 1
      BY <1>2, <1>3 DEF WrittenInOrder, ReceivedBound
    <3> QED
      BY <3>1, <1>2, <1>3, <1>6
  <2> QED
    BY <2>1, <2>2
<1>8. ASSUME reading # "none" PROVE Taken + Len(stream) <= 2 * Len(sent)
  <2>1. CASE inflight = {} /\ queue = <<>>
    <3>1. Taken + Len(stream) = 2 * Popped
      BY <1>8, <2>1 DEF WrittenInOrder, StreamLength, OneFailure
    <3> QED
      BY <3>1, <2>1, <1>2, <1>3
  <2>2. CASE inflight = {} /\ queue # <<>>
    <3>1. Taken + Len(stream) <= 2 * Popped + 1
      BY <1>8, <2>2, <1>3 DEF WrittenInOrder, StreamLength
    <3> QED
      BY <3>1, <2>2, <1>2, <1>3
  <2>3. ASSUME NEW w \in inflight PROVE Taken + Len(stream) <= 2 * Len(sent)
    <3>1. Taken + Len(stream) = 2 * Popped + 2 - Len(w.left)
      BY <1>8 DEF WrittenInOrder, StreamLength
    <3>2. Len(w.left) \in 0 .. 2 /\ Len(queue) >= 1
      BY <1>5, <1>6
    <3>3. 2 * Popped + 2 - Len(w.left) <= 2 * (Popped + Len(queue))
      <4>1. \A p, q, n \in Int : q >= 1 /\ n >= 0 => 2 * p + 2 - n <= 2 * (p + q)
        OBVIOUS
      <4>2. Popped \in Int /\ Len(queue) \in Int /\ Len(w.left) \in Int /\ Len(w.left) >= 0
        BY <3>2, <1>2, <1>3
      <4> QED
        BY <4>1, <4>2, <3>2
    <3> QED
      BY <3>1, <3>3, <1>3
  <2> QED
    BY <2>1, <2>2, <2>3
<1> QED
  BY <1>2, <1>3, <1>4, <1>5, <1>6, <1>7, <1>8

\* async_write keeps the invariant: the message goes to the end of the queue, and
\* is written at once only if nothing else is.
LEMMA AsyncWriteStep ==
  ASSUME WrittenInOrder, NEW m \in Messages, AsyncWrite(m)
  PROVE  WrittenInOrder'
<1>1. /\ sent \in Seq(Messages) /\ queue \in Seq(Messages) /\ received \in Seq(Messages)
      /\ stream \in Seq(Chunk)
  BY DEF WrittenInOrder, TypeOK
<1>2. /\ sent' = Append(sent, m) /\ queue' = Append(queue, m)
      /\ inflight' = IF queue = <<>> THEN inflight \cup {WriteFront(<<m>>, m)} ELSE inflight
      /\ UNCHANGED <<reading, inbound, received, stream, up, failed>>
  BY DEF AsyncWrite, receiver
<1>3. /\ Len(sent') = Len(sent) + 1 /\ Len(queue') = Len(queue) + 1
      /\ sent' \in Seq(Messages) /\ queue' \in Seq(Messages)
      /\ \A i \in DOMAIN sent : sent'[i] = sent[i]
      /\ DOMAIN sent' = 1 .. (Len(sent) + 1) /\ DOMAIN queue' = 1 .. (Len(queue) + 1)
      /\ sent'[Len(sent) + 1] = m /\ queue'[Len(queue) + 1] = m
      /\ \A i \in 1 .. Len(queue) : queue'[i] = queue[i]
      /\ queue' # <<>>
  BY <1>1, <1>2, Appended
<1>4. Popped' = Popped /\ Taken' = Taken
  BY <1>2, <1>3, Bounds DEF Popped, Taken
<1>5. WriteFront(<<m>>, m) \in Write
      /\ WriteFront(<<m>>, m).left = <<Header(m), Data(m)>>
      /\ Len(WriteFront(<<m>>, m).left) = 2 /\ WriteFront(<<m>>, m).left # <<>>
      /\ WriteFront(<<m>>, m).handler = m
  <2>1. <<m>> \in Seq(Messages) /\ <<m>> # <<>> /\ Head(<<m>>) = m
    OBVIOUS
  <2> QED
    BY <2>1, WriteFrontType
<1>6. TypeOK'
  BY <1>2, <1>3, <1>5 DEF WrittenInOrder, TypeOK
<1>7. ASSUME queue = <<>>
      PROVE  OneWriteInFlight' /\ WritesFront' /\ ReceivedBound' /\ StreamLength' /\ OneFailure'
  <2>1. inflight = {} /\ failed = <<>>
    BY <1>7 DEF WrittenInOrder, OneWriteInFlight, OneFailure
  <2>2. inflight' = {WriteFront(<<m>>, m)}
    BY <1>2, <1>7, <2>1
  <2>3. Head(queue') = m /\ failed' = <<>>
    BY <1>2, <1>3, <1>7, <2>1, Bounds, Dropped
  <2>4. OneWriteInFlight' /\ WritesFront'
    BY <1>3, <1>5, <2>2, <2>3 DEF OneWriteInFlight, WritesFront
  <2>5. ReceivedBound'
    <3>1. Len(received) <= Popped
      BY <2>1 DEF WrittenInOrder, ReceivedBound
    <3> QED
      BY <3>1, <1>2, <1>4, <1>5, <2>2, Bounds DEF ReceivedBound
  <2>6. StreamLength'
    <3> SUFFICES ASSUME reading # "none", NEW w \in inflight'
                 PROVE  Taken + Len(stream) = 2 * Popped + 2 - Len(w.left)
      BY <1>2, <1>4, <2>2 DEF StreamLength
    <3>1. Taken + Len(stream) = 2 * Popped
      BY <2>1 DEF WrittenInOrder, StreamLength
    <3>2. Len(w.left) = 2
      BY <1>5, <2>2
    <3> QED
      BY <3>1, <3>2, Bounds
  <2>7. OneFailure'
    BY <2>3 DEF OneFailure
  <2> QED
    BY <2>4, <2>5, <2>6, <2>7
<1>8. ASSUME queue # <<>>
      PROVE  OneWriteInFlight' /\ WritesFront' /\ ReceivedBound' /\ StreamLength' /\ OneFailure'
  <2>1. Head(queue') = Head(queue) /\ inflight' = inflight
    BY <1>1, <1>2, <1>8, Appended
  <2>2. OneWriteInFlight' /\ WritesFront' /\ OneFailure'
    BY <1>2, <1>3, <1>8, <2>1 DEF WrittenInOrder, OneWriteInFlight, WritesFront, OneFailure
  <2>3. ReceivedBound' /\ StreamLength'
    BY <1>2, <1>4, <2>1 DEF WrittenInOrder, ReceivedBound, StreamLength
  <2> QED
    BY <2>2, <2>3
<1>9. QueueIsRest'
  <2>1. ASSUME NEW i \in DOMAIN queue' PROVE queue'[i] = sent'[Popped + i]
    <3>1. CASE i = Len(queue) + 1
      BY <3>1, <1>3, Bounds
    <3>2. CASE i \in 1 .. Len(queue)
      <4>1. queue[i] = sent[Popped + i] /\ Popped + i \in DOMAIN sent
        BY <3>2, Bounds DEF WrittenInOrder, QueueIsRest
      <4> QED
        BY <4>1, <3>2, <1>3
    <3> QED
      BY <3>1, <3>2, <1>3, Bounds
  <2> QED
    BY <1>3, <1>4, <2>1, Bounds DEF QueueIsRest
<1>10. ReceivedInOrder'
  BY <1>2, <1>3, Bounds DEF WrittenInOrder, ReceivedInOrder
<1>11. StreamChunks'
  <2> SUFFICES ASSUME reading # "none", NEW j \in DOMAIN sent'
               PROVE  /\ 2 * j - 1 - Taken \in DOMAIN stream =>
                           stream[2 * j - 1 - Taken] = Header(sent'[j])
                      /\ 2 * j - Taken \in DOMAIN stream => stream[2 * j - Taken] = Data(sent'[j])
    BY <1>2, <1>4 DEF StreamChunks
  <2>1. CASE j \in DOMAIN sent
    BY <2>1, <1>3 DEF WrittenInOrder, StreamChunks
  <2>2. CASE j = Len(sent) + 1
    BY <2>2, Bounds
  <2> QED
    BY <2>1, <2>2, <1>3, Bounds
<1>12. InboundSize'
  <2> SUFFICES ASSUME reading = "data" PROVE Len(received) + 1 \in DOMAIN sent
    BY <1>2, <1>3 DEF WrittenInOrder, InboundSize
  <2> QED
    BY Bounds DEF Taken
<1> QED
  BY <1>6, <1>7, <1>8, <1>9, <1>10, <1>11, <1>12 DEF WrittenInOrder

\* Taking the first chunk of the two or the one that are left.
LEMMA LeftChunks ==
  ASSUME NEW x, NEW y
  PROVE  /\ Len(<<x, y>>) = 2 /\ Head(<<x, y>>) = x /\ Tail(<<x, y>>) = <<y>>
         /\ Len(<<y>>) = 1 /\ Head(<<y>>) = y /\ Tail(<<y>>) = <<>>
         /\ Len(<<>>) = 0 /\ <<y>> # <<>> /\ <<x, y>> # <<>>
OBVIOUS

\* Where the chunks of message j are in a stream of n chunks that begins after t
\* chunks, when p messages are written and one or no chunk of the next is.
LEMMA Parity ==
  \A j, t, n, p \in Int :
    /\ t + n = 2 * p + 2 - 2 => (2 * j - 1 - t = n + 1 => j = p + 1) /\ 2 * j - t # n + 1
    /\ t + n = 2 * p + 2 - 1 => (2 * j - t = n + 1 => j = p + 1) /\ 2 * j - 1 - t # n + 1
OBVIOUS

\* The only write under way is that of the front message.
LEMMA TheWrite ==
  ASSUME WrittenInOrder, NEW w \in inflight
  PROVE  /\ inflight = {w} /\ queue # <<>> /\ w.handler = Head(queue) /\ failed = <<>>
         /\ w \in Write /\ w.left \in Seq(Chunk) /\ w.handler \in Messages
         /\ w = [left |-> w.left, handler |-> w.handler]
<1>1. w \in Write
  BY DEF WrittenInOrder, TypeOK
<1> QED
  BY <1>1 DEF WrittenInOrder, OneWriteInFlight, Write

\* The stream takes a chunk of the front message: it is the next of the sequence.
LEMMA TransmitStep ==
  ASSUME WrittenInOrder, NEW w \in inflight, Transmit(w)
  PROVE  WrittenInOrder'
<1> DEFINE v == [left |-> Tail(w.left), handler |-> w.handler]
           c == Head(w.left)
           f == Head(queue)
<1>1. /\ stream' = Append(stream, c) /\ inflight' = (inflight \ {w}) \cup {v} /\ w.left # <<>>
      /\ UNCHANGED <<queue, sent, failed, reading, inbound, received, up>>
  BY DEF Transmit, receiver
<1>2. inflight' = {v} /\ v.left = Tail(w.left) /\ v.handler = w.handler
      /\ v = [left |-> v.left, handler |-> v.handler]
  <2>1. inflight' = {v}
    BY <1>1, TheWrite
  <2>2. v.left = Tail(w.left) /\ v.handler = w.handler
    OBVIOUS
  <2> QED
    BY <2>1, <2>2
<1>c. c = Head(w.left)
  OBVIOUS
<1>3. f \in Messages /\ f = sent[Popped + 1] /\ Header(f) \in Chunk /\ Data(f) \in Chunk
      /\ f = Head(queue)
  <2>1. queue # <<>>
    BY TheWrite
  <2>2. f \in Messages /\ f = sent[Popped + 1]
    BY <2>1, Bounds
  <2> QED
    BY <2>2, Chunks
<1> HIDE DEF v, c, f
<1>4. \/ w.left = <<Header(f), Data(f)>> /\ c = Header(f) /\ v.left = <<Data(f)>>
         /\ Len(w.left) = 2 /\ Len(v.left) = 1
      \/ w.left = <<Data(f)>> /\ c = Data(f) /\ v.left = <<>>
         /\ Len(w.left) = 1 /\ Len(v.left) = 0
  <2>1. w.left = <<Header(f), Data(f)>> \/ w.left = <<Data(f)>>
    BY <1>1, <1>3 DEF WrittenInOrder, WritesFront
  <2>2. CASE w.left = <<Header(f), Data(f)>>
    BY <2>2, <1>2, <1>c, LeftChunks
  <2>3. CASE w.left = <<Data(f)>>
    BY <2>3, <1>2, <1>c, LeftChunks
  <2> QED
    BY <2>1, <2>2, <2>3
<1>n. \/ Len(w.left) = 2 /\ Len(v.left) = 1 /\ v.left # <<>>
      \/ Len(w.left) = 1 /\ Len(v.left) = 0
  BY <1>4, LeftChunks, Zenon
<1>5. v \in Write /\ c \in Chunk
  <2>1. v.left \in Seq(Chunk)
    <3>1. <<Data(f)>> \in Seq(Chunk) /\ <<>> \in Seq(Chunk)
      BY <1>3
    <3> QED
      BY <3>1, <1>4
  <2>2. v.handler \in Messages
    BY <1>2, TheWrite
  <2>3. [left |-> v.left, handler |-> v.handler] \in Write
    BY <2>1, <2>2 DEF Write
  <2> QED
    BY <1>2, <1>3, <1>4, <2>3
<1>6. stream \in Seq(Chunk) /\ stream' \in Seq(Chunk) /\ Len(stream') = Len(stream) + 1
      /\ DOMAIN stream' = 1 .. (Len(stream) + 1) /\ stream'[Len(stream) + 1] = c
      /\ \A i \in 1 .. Len(stream) : stream'[i] = stream[i]
  <2>1. stream \in Seq(Chunk)
    BY DEF WrittenInOrder, TypeOK
  <2> QED
    BY <2>1, <1>1, <1>5, Appended
<1>7. Popped' = Popped /\ Taken' = Taken
  BY <1>1 DEF Popped, Taken
<1>8. TypeOK'
  BY <1>1, <1>2, <1>5, <1>6 DEF WrittenInOrder, TypeOK
<1>9. OneWriteInFlight' /\ OneFailure'
  BY <1>1, <1>2, TheWrite DEF OneWriteInFlight, OneFailure
<1>10. QueueIsRest' /\ ReceivedInOrder' /\ InboundSize'
  BY <1>1, <1>7 DEF WrittenInOrder, QueueIsRest, ReceivedInOrder, InboundSize
<1>11. WritesFront'
  <2>1. queue' = queue /\ \A x \in inflight' : x = v
    BY <1>1, <1>2
  <2>2. v.left \in {<<Data(f)>>, <<>>}
    BY <1>4
  <2> QED
    BY <2>1, <2>2, <1>3 DEF WritesFront
<1>12. ReceivedBound'
  <2>1. Len(received) <= Popped
    BY <1>1, Bounds DEF WrittenInOrder, ReceivedBound
  <2> QED
    <3>1. \A x \in inflight' : x = v
      BY <1>2
    <3>2. Popped \in Int /\ Len(received) \in Int /\ received' = received
      BY <1>1, Bounds
    <3>3. inflight' # {}
      BY <1>2
    <3> QED
      BY <2>1, <3>1, <3>2, <3>3, <1>7 DEF ReceivedBound
<1>13. reading # "none" => Taken + Len(stream) = 2 * Popped + 2 - Len(w.left)
  BY DEF WrittenInOrder, StreamLength
<1>14. StreamLength'
  <2> SUFFICES ASSUME reading # "none"
               PROVE  Taken + (Len(stream) + 1) = 2 * Popped + 2 - Len(v.left)
    BY <1>1, <1>2, <1>6, <1>7 DEF StreamLength
  <2> DEFINE k == Len(w.left)
             l == Len(v.left)
  <2>1. (k = 2 /\ l = 1) \/ (k = 1 /\ l = 0)
    BY <1>n
  <2>2. Taken + Len(stream) = 2 * Popped + 2 - k
    BY <1>13
  <2>3. \A t, n, p \in Int : /\ t + n = 2 * p + 2 - 2 => t + (n + 1) = 2 * p + 2 - 1
                            /\ t + n = 2 * p + 2 - 1 => t + (n + 1) = 2 * p + 2 - 0
    OBVIOUS
  <2>4. Taken \in Int /\ Len(stream) \in Int /\ Popped \in Int
    BY Bounds
  <2> HIDE DEF k, l
  <2>5. Taken + (Len(stream) + 1) = 2 * Popped + 2 - l
    BY <2>1, <2>2, <2>3, <2>4
  <2> QED
    BY <2>5 DEF l
<1>15. StreamChunks'
  <2> SUFFICES ASSUME reading # "none", NEW j \in DOMAIN sent
               PROVE  /\ 2 * j - 1 - Taken \in DOMAIN stream' =>
                           stream'[2 * j - 1 - Taken] = Header(sent[j])
                      /\ 2 * j - Taken \in DOMAIN stream' => stream'[2 * j - Taken] = Data(sent[j])
    BY <1>1, <1>7 DEF StreamChunks
  <2>1. /\ 2 * j - 1 - Taken \in DOMAIN stream => stream[2 * j - 1 - Taken] = Header(sent[j])
        /\ 2 * j - Taken \in DOMAIN stream => stream[2 * j - Taken] = Data(sent[j])
    BY DEF WrittenInOrder, StreamChunks
  <2>2. j \in Int /\ Taken \in Int /\ Popped \in Int /\ Len(stream) \in Int
    BY Bounds
  <2>p. /\ Len(w.left) = 2 => (2 * j - 1 - Taken = Len(stream) + 1 => j = Popped + 1)
                             /\ 2 * j - Taken # Len(stream) + 1
        /\ Len(w.left) = 1 => (2 * j - Taken = Len(stream) + 1 => j = Popped + 1)
                             /\ 2 * j - 1 - Taken # Len(stream) + 1
    <3>1. Taken + Len(stream) = 2 * Popped + 2 - Len(w.left)
      BY <1>13
    <3>2. Len(w.left) = 2 => Taken + Len(stream) = 2 * Popped + 2 - 2
      BY <3>1
    <3>3. Len(w.left) = 1 => Taken + Len(stream) = 2 * Popped + 2 - 1
      BY <3>1
    <3> HIDE DEF Taken, Popped
    <3> QED
      BY <3>2, <3>3, <2>2, Parity
  <2>3. 2 * j - 1 - Taken = Len(stream) + 1 => stream'[2 * j - 1 - Taken] = Header(sent[j])
    <3> SUFFICES ASSUME 2 * j - 1 - Taken = Len(stream) + 1 PROVE c = Header(sent[j])
      BY <1>6
    <3>1. CASE Len(w.left) = 2
      <4>1. j = Popped + 1
        BY <3>1, <2>p
      <4> QED
        BY <4>1, <3>1, <1>3, <1>4
    <3>2. CASE Len(w.left) = 1
      BY <3>2, <2>p
    <3> QED
      BY <3>1, <3>2, <1>4
  <2>4. 2 * j - Taken = Len(stream) + 1 => stream'[2 * j - Taken] = Data(sent[j])
    <3> SUFFICES ASSUME 2 * j - Taken = Len(stream) + 1 PROVE c = Data(sent[j])
      BY <1>6
    <3>1. CASE Len(w.left) = 2
      BY <3>1, <2>p
    <3>2. CASE Len(w.left) = 1
      <4>1. j = Popped + 1
        BY <3>2, <2>p
      <4> QED
        BY <4>1, <3>2, <1>3, <1>4
    <3> QED
      BY <3>1, <3>2, <1>4
  <2>5. \A i \in DOMAIN stream' : i \in DOMAIN stream \/ i = Len(stream) + 1
    BY <1>6, Bounds
  <2>6. \A i \in DOMAIN stream : stream'[i] = stream[i]
    BY <1>6, Bounds
  <2> QED
    BY <2>1, <2>3, <2>4, <2>5, <2>6
<1> QED
  BY <1>8, <1>9, <1>10, <1>11, <1>12, <1>14, <1>15 DEF WrittenInOrder

\* async_write_handler writes the next message, with its own handler.
LEMMA FrontWrittenStep ==
  ASSUME WrittenInOrder, NEW w \in inflight, FrontWritten(w)
  PROVE  WrittenInOrder'
<1> DEFINE v == WriteFront(queue', Head(queue'))
<1>1. /\ queue' = Tail(queue) /\ w.left = <<>>
      /\ inflight' = (inflight \ {w}) \cup (IF queue' = <<>> THEN {} ELSE {v})
      /\ UNCHANGED <<sent, failed, reading, inbound, received, stream, up>>
  BY DEF FrontWritten, receiver
<1>2. inflight = {w} /\ queue # <<>> /\ failed = <<>> /\ queue \in Seq(Messages)
  BY TheWrite DEF WrittenInOrder, TypeOK
<1>3. /\ queue' \in Seq(Messages) /\ Len(queue') = Len(queue) - 1
      /\ DOMAIN queue' = 1 .. (Len(queue) - 1)
      /\ \A i \in 1 .. (Len(queue) - 1) : queue'[i] = queue[i + 1]
      /\ Len(queue) >= 1
  BY <1>1, <1>2, Dropped
<1>4. /\ queue' = <<>> => inflight' = {}
      /\ queue' # <<>> => inflight' = {v}
  BY <1>1, <1>2
<1>5. ASSUME queue' # <<>>
      PROVE  /\ v \in Write /\ v.left = <<Header(Head(queue')), Data(Head(queue'))>>
             /\ Len(v.left) = 2 /\ v.left # <<>> /\ v.handler = Head(queue')
  <2>1. Head(queue') \in Messages
    BY <1>3, <1>5, Dropped
  <2> QED
    BY <2>1, <1>3, <1>5, WriteFrontType
<1> HIDE DEF v
<1>6. Popped' = Popped + 1 /\ Taken' = Taken
  BY <1>1, <1>3, Bounds DEF Popped, Taken
<1>7. TypeOK'
  <2>1. inflight' \subseteq Write
    BY <1>4, <1>5
  <2> QED
    BY <2>1, <1>1, <1>3 DEF WrittenInOrder, TypeOK
<1>8. OneWriteInFlight' /\ WritesFront' /\ OneFailure'
  BY <1>1, <1>2, <1>4, <1>5 DEF OneWriteInFlight, WritesFront, OneFailure
<1>9. QueueIsRest'
  <2>1. ASSUME NEW i \in 1 .. (Len(queue) - 1) PROVE queue'[i] = sent[(Popped + 1) + i]
    <3>1. i + 1 \in DOMAIN queue /\ Popped + (i + 1) = (Popped + 1) + i
      BY Bounds
    <3>2. queue[i + 1] = sent[Popped + (i + 1)]
      BY <3>1 DEF WrittenInOrder, QueueIsRest
    <3> QED
      BY <3>1, <3>2, <1>3
  <2>2. Len(queue') <= Len(sent)
    BY <1>3, Bounds
  <2> QED
    BY <2>1, <2>2, <1>1, <1>3, <1>6 DEF QueueIsRest
<1>10. ReceivedBound'
  <2>1. Len(received) <= Popped + 1
    BY <1>1, Bounds DEF WrittenInOrder, ReceivedBound
  <2>2. \A x \in inflight' : x.left # <<>>
    BY <1>4, <1>5
  <2>3. Popped + 1 \in Int /\ received' = received
    BY <1>1, Bounds
  <2> QED
    BY <2>1, <2>2, <2>3, <1>6 DEF ReceivedBound
<1>11. StreamLength'
  <2> SUFFICES ASSUME reading # "none"
               PROVE  /\ \A x \in inflight' : Taken + Len(stream) = 2 * (Popped + 1) + 2 - Len(x.left)
                      /\ Taken + Len(stream) = 2 * (Popped + 1)
    BY <1>1, <1>6 DEF StreamLength
  <2>1. Taken + Len(stream) = 2 * Popped + 2 - 0
    <3>1. Len(w.left) = 0
      BY <1>1, Bounds
    <3> QED
      BY <3>1 DEF WrittenInOrder, StreamLength
  <2>2. \A x \in inflight' : Len(x.left) = 2
    BY <1>4, <1>5
  <2>3. \A p \in Int : 2 * p + 2 - 0 = 2 * (p + 1) /\ 2 * p + 2 - 0 = 2 * (p + 1) + 2 - 2
    OBVIOUS
  <2>4. Popped \in Int
    BY Bounds
  <2>5. Taken + Len(stream) = 2 * (Popped + 1) + 2 - 2
    BY <2>1, <2>3, <2>4
  <2>6. Taken + Len(stream) = 2 * (Popped + 1)
    BY <2>1, <2>3, <2>4
  <2> QED
    BY <2>2, <2>5, <2>6
<1>12. ReceivedInOrder' /\ StreamChunks' /\ InboundSize'
  BY <1>1, <1>6 DEF WrittenInOrder, ReceivedInOrder, StreamChunks, InboundSize
<1> QED
  BY <1>7, <1>8, <1>9, <1>10, <1>11, <1>12 DEF WrittenInOrder

\* async_write_handler with an error leaves the message that failed at the front.
LEMMA WriteFailsStep ==
  ASSUME WrittenInOrder, NEW w \in inflight, WriteFails(w)
  PROVE  WrittenInOrder'
<1>1. /\ inflight' = inflight \ {w} /\ w.left # <<>> /\ failed' = Append(failed, w.handler)
      /\ UNCHANGED <<queue, sent, reading, inbound, received, stream, up>>
  BY DEF WriteFails, receiver
<1>2. /\ inflight' = {} /\ failed = <<>> /\ queue # <<>>
      /\ w.handler = Head(queue) /\ w.handler \in Messages
  BY <1>1, TheWrite
<1>3. /\ failed' \in Seq(Messages) /\ failed' # <<>> /\ Len(failed') = 1
      /\ failed'[1] = Head(queue)
  <2>1. <<>> \in Seq(Messages) /\ Len(<<>>) = 0
    OBVIOUS
  <2> QED
    BY <2>1, <1>1, <1>2, Appended
<1>4. Popped' = Popped /\ Taken' = Taken
  BY <1>1 DEF Popped, Taken
<1>5. TypeOK' /\ OneWriteInFlight' /\ WritesFront' /\ OneFailure'
  BY <1>1, <1>2, <1>3 DEF WrittenInOrder, TypeOK, OneWriteInFlight, WritesFront, OneFailure
<1>6. QueueIsRest' /\ ReceivedInOrder' /\ StreamChunks' /\ InboundSize'
  BY <1>1, <1>4 DEF WrittenInOrder, QueueIsRest, ReceivedInOrder, StreamChunks, InboundSize
<1>7. ReceivedBound'
  BY <1>1, <1>2, <1>4, Bounds DEF WrittenInOrder, ReceivedBound
<1>8. StreamLength'
  <2> SUFFICES ASSUME reading # "none"
               PROVE  Taken + Len(stream) \in {2 * Popped, 2 * Popped + 1}
    BY <1>1, <1>2, <1>3, <1>4 DEF StreamLength
  <2> DEFINE k == Len(w.left)
  <2>1. Taken + Len(stream) = 2 * Popped + 2 - k
    BY DEF WrittenInOrder, StreamLength
  <2>2. k \in 1 .. 2 /\ Popped \in Int
    BY <1>1, Bounds
  <2> HIDE DEF k
  <2>3. k = 1 \/ k = 2
    BY <2>2
  <2>4. \A p \in Int : 2 * p + 2 - 1 = 2 * p + 1 /\ 2 * p + 2 - 2 = 2 * p
    OBVIOUS
  <2> QED
    BY <2>1, <2>2, <2>3, <2>4
<1> QED
  BY <1>5, <1>6, <1>7, <1>8 DEF WrittenInOrder

\* The chunk to be read next is the next of the sequence: this is the framing.
LEMMA NextChunk ==
  ASSUME WrittenInOrder, reading # "none", stream # <<>>
  PROVE  /\ Len(received) + 1 \in DOMAIN sent /\ sent[Len(received) + 1] \in Messages
         /\ reading = "header" => Head(stream) = Header(sent[Len(received) + 1])
         /\ reading = "data" => Head(stream) = Data(sent[Len(received) + 1])
<1> DEFINE j == Len(received) + 1
<1>1. /\ stream \in Seq(Chunk) /\ sent \in Seq(Messages)
      /\ reading \in {"header", "data"}
  BY DEF WrittenInOrder, TypeOK
<1>2. Head(stream) = stream[1] /\ 1 \in DOMAIN stream /\ Len(stream) >= 1
  BY <1>1, Dropped
<1>3. j \in DOMAIN sent /\ sent[j] \in Messages
  <2>1. Taken + Len(stream) <= 2 * Len(sent) /\ DOMAIN sent = 1 .. Len(sent)
    BY Bounds
  <2>2. Taken >= 2 * Len(received)
    BY Bounds DEF Taken
  <2>3. Len(received) \in Nat /\ Len(stream) \in Nat /\ Len(sent) \in Nat /\ Taken \in Nat
    BY Bounds
  <2>4. j \in 1 .. Len(sent)
    BY <2>1, <2>2, <2>3, <1>2
  <2> QED
    BY <2>1, <2>4, <1>1
<1>4. CASE reading = "header"
  <2>1. 2 * j - 1 - Taken = 1
    BY <1>4, Bounds DEF Taken
  <2> QED
    BY <2>1, <1>2, <1>3, <1>4 DEF WrittenInOrder, StreamChunks
<1>5. CASE reading = "data"
  <2>1. 2 * j - Taken = 1
    BY <1>5, Bounds DEF Taken
  <2> QED
    BY <2>1, <1>2, <1>3, <1>5 DEF WrittenInOrder, StreamChunks
<1> QED
  BY <1>1, <1>3, <1>4, <1>5

\* Reading a chunk moves the stream on by one place of the sequence, and leaves
\* what the sender knows as it was.
LEMMA ChunkRead ==
  ASSUME WrittenInOrder, reading # "none", stream # <<>>,
         stream' = Tail(stream), Taken' = Taken + 1, UNCHANGED sender
  PROVE  /\ OneWriteInFlight' /\ QueueIsRest' /\ WritesFront' /\ OneFailure'
         /\ StreamLength' /\ StreamChunks' /\ stream' \in Seq(Chunk) /\ Popped' = Popped
<1>1. UNCHANGED <<queue, inflight, sent, failed>>
  BY DEF sender
<1>2. Popped' = Popped
  BY <1>1 DEF Popped
<1>3. /\ stream' \in Seq(Chunk) /\ Len(stream') = Len(stream) - 1
      /\ DOMAIN stream' = 1 .. (Len(stream) - 1) /\ DOMAIN stream = 1 .. Len(stream)
      /\ \A i \in 1 .. (Len(stream) - 1) : stream'[i] = stream[i + 1]
  <2>1. stream \in Seq(Chunk)
    BY DEF WrittenInOrder, TypeOK
  <2> QED
    BY <2>1, Dropped
<1>4. OneWriteInFlight' /\ QueueIsRest' /\ WritesFront' /\ OneFailure'
  BY <1>1, <1>2 DEF WrittenInOrder, OneWriteInFlight, QueueIsRest, WritesFront, OneFailure
<1>5. Taken \in Int /\ Len(stream) \in Int /\ Taken' + Len(stream') = Taken + Len(stream)
  BY <1>3, Bounds
<1>6. StreamLength'
  BY <1>1, <1>2, <1>5 DEF WrittenInOrder, StreamLength
<1>7. StreamChunks'
  <2> SUFFICES ASSUME NEW j \in DOMAIN sent
               PROVE  /\ 2 * j - 1 - (Taken + 1) \in DOMAIN stream' =>
                           stream'[2 * j - 1 - (Taken + 1)] = Header(sent[j])
                      /\ 2 * j - (Taken + 1) \in DOMAIN stream' =>
                           stream'[2 * j - (Taken + 1)] = Data(sent[j])
    BY <1>1 DEF StreamChunks
  <2>1. /\ 2 * j - 1 - Taken \in DOMAIN stream => stream[2 * j - 1 - Taken] = Header(sent[j])
        /\ 2 * j - Taken \in DOMAIN stream => stream[2 * j - Taken] = Data(sent[j])
    BY DEF WrittenInOrder, StreamChunks
  <2>2. j \in Int
    BY Bounds
  <2>3. /\ 2 * j - 1 - (Taken + 1) + 1 = 2 * j - 1 - Taken
        /\ 2 * j - (Taken + 1) + 1 = 2 * j - Taken
        /\ 2 * j - 1 - Taken \in Int /\ 2 * j - Taken \in Int
        /\ 2 * j - 1 - (Taken + 1) \in Int /\ 2 * j - (Taken + 1) \in Int
    BY <2>2, <1>5
  <2>4. \A i \in Int : i \in DOMAIN stream' => i + 1 \in DOMAIN stream /\ stream'[i] = stream[i + 1]
    BY <1>3, <1>5
  <2> QED
    BY <2>1, <2>3, <2>4
<1> QED
  BY <1>2, <1>3, <1>4, <1>6, <1>7

\* The size a header announces is that of the message read next.
LEMMA HandleReadHeaderStep ==
  ASSUME WrittenInOrder, HandleReadHeader
  PROVE  WrittenInOrder'
<1>1. /\ reading = "header" /\ stream # <<>> /\ stream' = Tail(stream) /\ reading' = "data"
      /\ inbound' = Size[Head(stream).msg] /\ UNCHANGED <<sender, received, up>>
  BY DEF HandleReadHeader
<1>2. /\ sent[Len(received) + 1] \in Messages
      /\ Head(stream) = Header(sent[Len(received) + 1])
  BY <1>1, NextChunk
<1>3. inbound' = Size[sent[Len(received) + 1]] /\ inbound' \in Nat
  BY <1>1, <1>2, SizeAssumption, Chunks
<1>4. Taken' = Taken + 1
  BY <1>1, Bounds DEF Taken
<1>5. /\ OneWriteInFlight' /\ QueueIsRest' /\ WritesFront' /\ OneFailure'
      /\ StreamLength' /\ StreamChunks' /\ stream' \in Seq(Chunk) /\ Popped' = Popped
  BY <1>1, <1>4, ChunkRead
<1>6. TypeOK'
  BY <1>1, <1>3, <1>5 DEF WrittenInOrder, TypeOK, sender
<1>7. ReceivedBound' /\ ReceivedInOrder'
  BY <1>1, <1>5 DEF WrittenInOrder, ReceivedBound, ReceivedInOrder, sender
<1>8. InboundSize'
  BY <1>1, <1>3 DEF InboundSize, sender
<1> QED
  BY <1>5, <1>6, <1>7, <1>8 DEF WrittenInOrder

\* What is received is the message that was sent next.
LEMMA HandleReadDataStep ==
  ASSUME WrittenInOrder, HandleReadData
  PROVE  WrittenInOrder'
<1> DEFINE r == Len(received)
           m == sent[r + 1]
<1>1. /\ reading = "data" /\ stream # <<>> /\ stream' = Tail(stream)
      /\ received' = Append(received, Head(stream).msg)
      /\ reading' \in {"header", "none"} /\ UNCHANGED <<sender, inbound, up>>
  BY DEF HandleReadData
<1>2. m \in Messages /\ r + 1 \in DOMAIN sent /\ Head(stream).msg = m /\ received \in Seq(Messages)
  BY <1>1, NextChunk, Chunks DEF WrittenInOrder, TypeOK
<1>3. /\ received' \in Seq(Messages) /\ Len(received') = r + 1
      /\ DOMAIN received' = 1 .. (r + 1) /\ DOMAIN received = 1 .. r
      /\ \A i \in 1 .. r : received'[i] = received[i]
      /\ received'[r + 1] = m
  BY <1>1, <1>2, Appended
<1>4. Taken = 2 * r + 1 /\ Taken' = Taken + 1 /\ r \in Nat
  <2>1. r \in Nat
    BY Bounds
  <2>2. reading = "data" /\ reading' # "data"
    BY <1>1
  <2>3. Taken = 2 * r + 1
    BY <2>2 DEF Taken
  <2>4. Taken' = 2 * (r + 1) + 0
    BY <2>2, <1>3 DEF Taken
  <2> QED
    BY <2>1, <2>3, <2>4
<1>5. /\ OneWriteInFlight' /\ QueueIsRest' /\ WritesFront' /\ OneFailure'
      /\ StreamLength' /\ StreamChunks' /\ stream' \in Seq(Chunk) /\ Popped' = Popped
  BY <1>1, <1>4, ChunkRead
<1>6. TypeOK'
  BY <1>1, <1>3, <1>5 DEF WrittenInOrder, TypeOK, sender
<1>7. ReceivedBound'
  <2>1. Len(stream) >= 1 /\ Len(stream) \in Int /\ Popped \in Int
    BY <1>1, Bounds, Dropped DEF WrittenInOrder, TypeOK
  <2>2. ASSUME NEW w \in inflight PROVE r + 1 <= Popped + (IF w.left = <<>> THEN 1 ELSE 0)
    <3> DEFINE k == Len(w.left)
    <3>1. Taken + Len(stream) = 2 * Popped + 2 - k
      BY <1>1 DEF WrittenInOrder, StreamLength
    <3>2. k \in 0 .. 2 /\ (w.left = <<>> <=> k = 0)
      BY Bounds
    <3> HIDE DEF k
    <3>3. \A n, p, l \in Int : n >= 1 /\ (2 * r + 1) + n = 2 * p + 2 - l =>
              /\ l = 0 => r + 1 <= p + 1
              /\ l >= 1 => r + 1 <= p
      BY <1>4
    <3>4. /\ k = 0 => r + 1 <= Popped + 1
          /\ k >= 1 => r + 1 <= Popped
      BY <2>1, <3>1, <3>2, <3>3, <1>4
    <3> QED
      BY <2>1, <3>2, <3>4
  <2>3. ASSUME inflight = {} PROVE r + 1 <= Popped
    <3>1. Taken + Len(stream) <= 2 * Popped + 1
      BY <1>1, <2>1, <2>3 DEF WrittenInOrder, StreamLength
    <3> QED
      BY <2>1, <3>1, <1>4
  <2>4. inflight' = inflight
    BY <1>1 DEF sender
  <2> HIDE DEF m
  <2> QED
    BY <2>2, <2>3, <2>4, <1>3, <1>5 DEF ReceivedBound
<1>8. ReceivedInOrder'
  <2>1. sent' = sent /\ \A i \in 1 .. r : received[i] = sent[i]
    BY <1>1, <1>3 DEF WrittenInOrder, ReceivedInOrder, sender
  <2>2. \A i \in 1 .. (r + 1) : i \in 1 .. r \/ i = r + 1
    BY <1>4
  <2> QED
    BY <2>1, <2>2, <1>3 DEF ReceivedInOrder
<1>9. InboundSize'
  BY <1>1 DEF InboundSize
<1> QED
  BY <1>5, <1>6, <1>7, <1>8, <1>9 DEF WrittenInOrder

\* After a read error nothing more is read; a break changes nothing else.
LEMMA StopStep ==
  ASSUME WrittenInOrder, ReadFails \/ Break \/ UNCHANGED vars
  PROVE  WrittenInOrder'
<1>1. UNCHANGED <<sender, inbound, received, stream>> /\ up' \in BOOLEAN
      /\ (reading' = reading \/ reading' = "none")
  BY DEF ReadFails, Break, vars, receiver, WrittenInOrder, TypeOK
<1>2. UNCHANGED <<queue, inflight, sent, failed, inbound, received, stream>>
  BY <1>1 DEF sender
<1>3. Popped' = Popped /\ (reading' # "none" => Taken' = Taken)
  BY <1>1, <1>2 DEF Popped, Taken
<1>4. TypeOK' /\ OneWriteInFlight' /\ WritesFront' /\ OneFailure'
  BY <1>1, <1>2 DEF WrittenInOrder, TypeOK, OneWriteInFlight, WritesFront, OneFailure
<1>5. QueueIsRest' /\ ReceivedInOrder' /\ ReceivedBound' /\ InboundSize'
  BY <1>1, <1>2, <1>3 DEF WrittenInOrder, QueueIsRest, ReceivedInOrder, ReceivedBound, InboundSize
<1>6. StreamLength' /\ StreamChunks'
  BY <1>1, <1>2, <1>3 DEF WrittenInOrder, StreamLength, StreamChunks
<1> QED
  BY <1>4, <1>5, <1>6 DEF WrittenInOrder

\* A new connection has sent nothing and waits for a header.
LEMMA InitOrder == Init => WrittenInOrder
<1> SUFFICES ASSUME Init PROVE WrittenInOrder
  OBVIOUS
<1>1. /\ queue = <<>> /\ inflight = {} /\ stream = <<>> /\ up = TRUE
      /\ reading = "header" /\ inbound = 0
      /\ sent = <<>> /\ received = <<>> /\ failed = <<>>
  BY DEF Init
<1>2. Len(queue) = 0 /\ Len(sent) = 0 /\ Len(stream) = 0 /\ Len(received) = 0
      /\ DOMAIN queue = {} /\ DOMAIN sent = {} /\ DOMAIN received = {}
  BY <1>1
<1>3. TypeOK /\ OneWriteInFlight /\ WritesFront /\ OneFailure /\ InboundSize
  BY <1>1 DEF TypeOK, OneWriteInFlight, WritesFront, OneFailure, InboundSize
<1>4. Popped = 0 /\ Taken = 0
  BY <1>1, <1>2 DEF Popped, Taken
<1>5. QueueIsRest /\ ReceivedBound /\ ReceivedInOrder /\ StreamChunks
  BY <1>1, <1>2, <1>4 DEF QueueIsRest, ReceivedBound, ReceivedInOrder, StreamChunks
<1>6. StreamLength
  BY <1>1, <1>2, <1>4 DEF StreamLength
<1> QED
  BY <1>3, <1>5, <1>6 DEF WrittenInOrder

\* Every step of the connection keeps the order of what is written.
LEMMA NextOrder ==
  ASSUME WrittenInOrder, [Next]_vars
  PROVE  WrittenInOrder'
<1>1. ASSUME NEW m \in Messages, AsyncWrite(m) PROVE WrittenInOrder'
  BY <1>1, AsyncWriteStep
<1>2. ASSUME NEW w \in inflight, Transmit(w) PROVE WrittenInOrder'
  BY <1>2, TransmitStep
<1>3. ASSUME NEW w \in inflight, AsyncWriteHandler(w) PROVE WrittenInOrder'
  BY <1>3, FrontWrittenStep, WriteFailsStep DEF AsyncWriteHandler
<1>4. CASE HandleReadHeader \/ HandleReadData
  BY <1>4, HandleReadHeaderStep, HandleReadDataStep
<1>5. CASE ReadFails \/ Break \/ UNCHANGED vars
  BY <1>5, StopStep
<1> QED
  BY <1>1, <1>2, <1>3, <1>4, <1>5 DEF Next

\* Every message is written once, whole and in the order of async_write, and the
\* stream holds headers and data in turn (net.hpp:45-87).
THEOREM WrittenInOrderHolds == Spec => []WrittenInOrder
<1>1. WrittenInOrder /\ [Next]_vars => WrittenInOrder'
  BY NextOrder
<1> QED
  BY InitOrder, <1>1, PTL DEF Spec

\* async_write and async_write_handler between them keep exactly one write under
\* way while messages are queued, until one fails (net.hpp:59-87).
THEOREM OneWriteInFlightHolds == Spec => []OneWriteInFlight
<1>1. WrittenInOrder => OneWriteInFlight
  BY DEF WrittenInOrder
<1> QED
  BY <1>1, WrittenInOrderHolds, PTL

\* handle_read_header always finds a header, and handle_read_data exactly the bytes
\* it announced (net.hpp:89-147).
THEOREM FramingHolds == Spec => []Framing
<1>1. ASSUME WrittenInOrder PROVE Framing
  <2> SUFFICES ASSUME stream # <<>>, reading # "none"
               PROVE  /\ reading = "header" => Head(stream).part = "header"
                      /\ reading = "data" => Head(stream).part = "data"
                                             /\ Size[Head(stream).msg] = inbound
    BY DEF Framing
  <2>1. sent[Len(received) + 1] \in Messages
    BY <1>1, NextChunk
  <2>2. ASSUME reading = "header" PROVE Head(stream).part = "header"
    BY <1>1, <2>1, <2>2, NextChunk, Chunks
  <2>3. ASSUME reading = "data"
        PROVE  Head(stream).part = "data" /\ Size[Head(stream).msg] = inbound
    <3>1. Head(stream) = Data(sent[Len(received) + 1])
      BY <1>1, <2>3, NextChunk
    <3>2. inbound = Size[sent[Len(received) + 1]]
      BY <1>1, <2>3 DEF WrittenInOrder, InboundSize
    <3> QED
      BY <3>1, <3>2, <2>1, Chunks
  <2> QED
    BY <2>2, <2>3
<1>2. WrittenInOrder => Framing
  BY <1>1
<1> QED
  BY <1>2, WrittenInOrderHolds, PTL

\* The message whose write failed is not one the receiver has (net.hpp:85).
THEOREM FailedNotReceivedHolds == Spec => []FailedNotReceived
<1>1. ASSUME WrittenInOrder PROVE FailedNotReceived
  <2> SUFFICES ASSUME failed # <<>> PROVE Len(received) + Len(queue) <= Len(sent)
    BY <1>1 DEF WrittenInOrder, OneFailure, FailedNotReceived
  <2>1. inflight = {}
    BY <1>1 DEF WrittenInOrder, OneWriteInFlight
  <2>2. Len(received) <= Popped
    BY <1>1, <2>1 DEF WrittenInOrder, ReceivedBound
  <2> QED
    BY <1>1, <2>2, Bounds
<1>2. WrittenInOrder => FailedNotReceived
  BY <1>1
<1> QED
  BY <1>2, WrittenInOrderHolds, PTL

\* async_write puts one more message in transit.
LEMMA AsyncWriteSends ==
  ASSUME WrittenInOrder, NEW m \in Messages, AsyncWrite(m)
  PROVE  AsChannel!Send(m)
<1> DEFINE r == Len(received)
           n == Len(sent)
<1>1. sent \in Seq(Messages) /\ r \in Nat /\ n \in Nat /\ r <= n
  BY Bounds DEF WrittenInOrder, TypeOK
<1>2. /\ sent' = Append(sent, m) /\ received' = received
  BY DEF AsyncWrite, receiver
<1>3. /\ sent' \in Seq(Messages) /\ Len(sent') = n + 1
      /\ \A i \in 1 .. n : sent'[i] = sent[i]
      /\ sent'[n + 1] = m
  BY <1>1, <1>2, Appended
<1>4. SubSeq(sent', r + 1, n + 1) = Append(SubSeq(sent, r + 1, n), m)
  <2> DEFINE a == SubSeq(sent', r + 1, n + 1)
             t == SubSeq(sent, r + 1, n)
             b == Append(t, m)
  <2>1. /\ a \in Seq(Messages) /\ Len(a) = (n - r) + 1
        /\ \A i \in 1 .. ((n - r) + 1) : a[i] = sent'[r + i]
    <3>1. \A i \in (r + 1) .. (n + 1) : sent'[i] \in Messages
      BY <1>1, <1>3
    <3>2. r + 1 \in Int /\ n + 1 \in Int /\ r + 1 <= n + 1
      BY <1>1
    <3>3. /\ a \in Seq(Messages)
          /\ Len(a) = IF r + 1 <= n + 1 THEN (n + 1) - (r + 1) + 1 ELSE 0
          /\ \A i \in 1 .. ((n + 1) - (r + 1) + 1) : a[i] = sent'[(r + 1) + i - 1]
      BY <3>1, <3>2, SubSeqProperties
    <3>4. (n + 1) - (r + 1) + 1 = (n - r) + 1 /\ \A i \in Int : (r + 1) + i - 1 = r + i
      BY <1>1
    <3> HIDE DEF a
    <3> QED
      BY <3>2, <3>3, <3>4
  <2>2. /\ t \in Seq(Messages) /\ Len(t) = n - r
        /\ \A i \in 1 .. (n - r) : t[i] = sent[r + i]
    <3>1. \A i \in (r + 1) .. n : sent[i] \in Messages
      BY <1>1
    <3>2. r + 1 \in Int /\ n \in Int
      BY <1>1
    <3>3. /\ t \in Seq(Messages)
          /\ Len(t) = IF r + 1 <= n THEN n - (r + 1) + 1 ELSE 0
          /\ \A i \in 1 .. (n - (r + 1) + 1) : t[i] = sent[(r + 1) + i - 1]
      BY <3>1, <3>2, SubSeqProperties
    <3>4. n - (r + 1) + 1 = n - r /\ \A i \in Int : (r + 1) + i - 1 = r + i
      BY <1>1
    <3>5. (IF r + 1 <= n THEN n - (r + 1) + 1 ELSE 0) = n - r
      BY <1>1
    <3> HIDE DEF t
    <3>6. Len(t) = n - r
      BY <3>3, <3>5
    <3>7. ASSUME NEW i \in 1 .. (n - r) PROVE t[i] = sent[r + i]
      <4>1. i \in Int /\ i \in 1 .. (n - (r + 1) + 1)
        BY <3>4
      <4> QED
        BY <4>1, <3>3, <3>4
    <3> QED
      BY <3>3, <3>6, <3>7
  <2> HIDE DEF t
  <2>3. /\ b \in Seq(Messages) /\ Len(b) = (n - r) + 1
        /\ \A i \in 1 .. (n - r) : b[i] = sent[r + i]
        /\ b[(n - r) + 1] = m
    BY <2>2, Appended
  <2> HIDE DEF a, b
  <2>4. ASSUME NEW i \in 1 .. ((n - r) + 1) PROVE a[i] = b[i]
    <3>1. CASE i = (n - r) + 1
      BY <3>1, <2>1, <2>3, <1>1, <1>3
    <3>2. CASE i \in 1 .. (n - r)
      <4>1. r + i \in 1 .. n
        BY <3>2, <1>1
      <4> QED
        BY <4>1, <3>2, <2>1, <2>3, <1>3
    <3> QED
      BY <3>1, <3>2, <1>1
  <2>5. a = b
    BY <2>1, <2>3, <2>4, SeqEqual
  <2> QED
    BY <2>5 DEF a, b, t
<1> QED
  BY <1>2, <1>3, <1>4 DEF AsChannel!Send

\* handle_read_data takes the oldest message in transit.
LEMMA HandleReadDataReceives ==
  ASSUME WrittenInOrder, HandleReadData
  PROVE  AsChannel!Receive
<1> DEFINE r == Len(received)
           n == Len(sent)
<1>1. sent \in Seq(Messages) /\ r \in Nat /\ n \in Nat /\ received \in Seq(Messages)
  BY Bounds DEF WrittenInOrder, TypeOK
<1>2. /\ received' = Append(received, Head(stream).msg) /\ sent' = sent
      /\ reading = "data" /\ stream # <<>>
  BY DEF HandleReadData, sender
<1>3. r + 1 \in 1 .. n /\ Head(stream).msg = sent[r + 1] /\ sent[r + 1] \in Messages
  BY <1>1, <1>2, NextChunk, Bounds, Chunks
<1>4. Len(received') = r + 1
  BY <1>1, <1>2, <1>3, Appended
<1>5. /\ Head(SubSeq(sent, r + 1, n)) = sent[r + 1]
      /\ Tail(SubSeq(sent, r + 1, n)) = SubSeq(sent, (r + 1) + 1, n)
  BY <1>1, <1>3, HeadTailOfSubSeq
<1>6. SubSeq(sent, r + 1, n) # <<>>
  <2>1. \A i \in (r + 1) .. n : sent[i] \in Messages
    BY <1>1
  <2>2. Len(SubSeq(sent, r + 1, n)) = IF r + 1 <= n THEN n - (r + 1) + 1 ELSE 0
    BY <2>1, <1>1, SubSeqProperties
  <2>3. Len(SubSeq(sent, r + 1, n)) # 0
    BY <2>2, <1>1, <1>3
  <2>4. Len(<<>>) = 0
    OBVIOUS
  <2> QED
    BY <2>3, <2>4, Zenon
<1> QED
  BY <1>2, <1>3, <1>4, <1>5, <1>6 DEF AsChannel!Receive

\* The connection implements the FIFO channel, for all messages and however it
\* breaks: no rpc is lost, doubled or overtaken between async_write and dispatch
\* (net.hpp:45-147), only never delivered.
THEOREM ConnectionIsChannel == Spec => ImplementsChannel
<1> DEFINE transit == SubSeq(sent, Len(received) + 1, Len(sent))
<1>1. Init => AsChannel!Init
  <2> SUFFICES ASSUME Init PROVE AsChannel!Init
    OBVIOUS
  <2>1. sent = <<>> /\ received = <<>> /\ Len(sent) = 0 /\ Len(received) = 0
    BY DEF Init
  <2>2. SubSeq(sent, 0 + 1, 0) = <<>>
    BY SubSeqEmpty
  <2> QED
    BY <2>1, <2>2 DEF AsChannel!Init
<1>2. WrittenInOrder /\ [Next]_vars => [AsChannel!Next]_<<transit, received>>
  <2> SUFFICES ASSUME WrittenInOrder, [Next]_vars
               PROVE  AsChannel!Next \/ UNCHANGED <<sent, received>>
    OBVIOUS
  <2>1. ASSUME NEW m \in Messages, AsyncWrite(m) PROVE AsChannel!Next
    BY <2>1, AsyncWriteSends DEF AsChannel!Next
  <2>2. CASE HandleReadData
    BY <2>2, HandleReadDataReceives DEF AsChannel!Next
  <2>3. ASSUME NEW w \in inflight, Transmit(w) \/ AsyncWriteHandler(w)
        PROVE  UNCHANGED <<sent, received>>
    BY <2>3 DEF Transmit, AsyncWriteHandler, FrontWritten, WriteFails, receiver
  <2>4. CASE HandleReadHeader \/ ReadFails \/ Break \/ UNCHANGED vars
    BY <2>4 DEF HandleReadHeader, ReadFails, Break, vars, sender, receiver
  <2> QED
    BY <2>1, <2>2, <2>3, <2>4 DEF Next
<1> QED
  BY <1>1, <1>2, WrittenInOrderHolds, PTL DEF Spec, ImplementsChannel, AsChannel!Spec
=============================================================================
