----------------------------- MODULE SocketProofs -----------------------------
(***************************************************************************)
(* Proofs that the safety properties of Socket hold for packets of any     *)
(* sizes, any send buffer, and any order in which the network thread and   *)
(* another thread of the application send and close; and those of its      *)
(* receive buffer (ReceiveBuffer), for every size of the buffer, every     *)
(* length of a message that fits into it, and every number of bytes.       *)
(***************************************************************************)
EXTENDS Socket, ReceiveBuffer, SequenceTheorems, TLAPS

USE SizesAssumption, SendBufferAssumption, EarlyCloseAssumption

Packets == Seq(1..MaxBytes)
Places == {"out", "handle", "popped", "delay", "close", "shutdown"}

\* The packets of q hold the bytes that follow byte number first, up to byte number last,
\* in order; f[k] is the number of the last byte before packet k.
Numbered(q, first, last) ==
    \E f \in [1..(Len(q) + 1) -> 0..MaxBytes] :
        /\ f[1] = first /\ f[Len(q) + 1] = last
        /\ \A k \in 1..Len(q) : /\ f[k + 1] = f[k] + Len(q[k])
                                /\ \A j \in 1..Len(q[k]) : q[k][j] = f[k] + j

\* As long as writes succeed, the queue holds exactly what the operating system has not taken.
QueueInv == broken \/ shut \/ Numbered(sendQueue_, Len(wire), queued)

\* The thread that found closed_ clear is the one that shuts down, and it has not yet.
CloseInv ==
    /\ closed_ <=> shut \/ \E th \in Threads : pc[th] = "shutdown"
    /\ \A th \in Threads : pc[th] = "shutdown" =>
          ~shut /\ \A other \in Threads : pc[other] = "shutdown" => other = th
    /\ closes = IF shut THEN 1 ELSE 0

\* Whoever closes, other than abruptly, does it for a delayed close whose data has been sent.
DelayInv ==
    /\ due <= queued
    /\ \A th \in Threads : pc[th] = "delay" => closing_
    /\ ~abrupt /\ (closed_ \/ \E th \in Threads : pc[th] = "close") =>
          closing_ /\ (broken \/ Len(wire) >= due)

\* A socket is dropped by its network thread only once it is closed.
PlaceInv ==
    EarlyClose \/ /\ closing_ => place # "new"
                  /\ place = "gone" => closed_

IInv ==
    /\ TypeOK /\ StreamPrefix /\ OneWriteUnderWay
    /\ QueueInv /\ CloseInv /\ DelayInv /\ PlaceInv

------------------------------------------------------------------------------
\* An empty queue holds nothing; a packet of the next bytes goes to its end.

LEMMA NumberedEmpty ==
    ASSUME NEW first, NEW last, first \in 0..MaxBytes
    PROVE  Numbered(<<>>, first, last) <=> first = last
  <1>1. Numbered(<<>>, first, last) => first = last
    BY DEF Numbered
  <1>2. Numbered(<<>>, first, first)
    <2> DEFINE f == [k \in 1..1 |-> first]
    <2>1. f \in [1..1 -> 0..MaxBytes] /\ f[1] = first
      OBVIOUS
    <2> HIDE DEF f
    <2>2. Len(<<>>) = 0 /\ Len(<<>>) + 1 = 1
      OBVIOUS
    <2> QED BY <2>1, <2>2 DEF Numbered
  <1> QED BY <1>1, <1>2

LEMMA NumberedAppend ==
    ASSUME NEW q \in Seq(Packets), NEW first, NEW last, NEW p \in Packets,
           Numbered(q, first, last), last + Len(p) <= MaxBytes,
           \A j \in 1..Len(p) : p[j] = last + j
    PROVE  Numbered(Append(q, p), first, last + Len(p))
  <1>1. PICK f \in [1..(Len(q) + 1) -> 0..MaxBytes] :
           /\ f[1] = first /\ f[Len(q) + 1] = last
           /\ \A k \in 1..Len(q) : /\ f[k + 1] = f[k] + Len(q[k])
                                   /\ \A j \in 1..Len(q[k]) : q[k][j] = f[k] + j
    BY DEF Numbered
  <1> DEFINE a == Append(q, p)
             g == [k \in 1..(Len(a) + 1) |-> IF k = Len(q) + 2 THEN last + Len(p) ELSE f[k]]
  <1>2. /\ Len(q) \in Nat /\ Len(a) = Len(q) + 1 /\ Len(p) \in Nat
        /\ a[Len(q) + 1] = p /\ \A k \in 1..Len(q) : a[k] = q[k]
    BY DEF Packets
  <1> HIDE DEF a
  <1>3. last \in 0..MaxBytes /\ last + Len(p) \in 0..MaxBytes
    BY <1>1, <1>2
  <1>4. g \in [1..(Len(a) + 1) -> 0..MaxBytes]
    BY <1>1, <1>2, <1>3
  <1>5. /\ \A k \in 1..(Len(q) + 1) : g[k] = f[k]
        /\ g[Len(a) + 1] = last + Len(p)
    BY <1>2
  <1> HIDE DEF g
  <1>6. \A k \in 1..Len(a) : /\ g[k + 1] = g[k] + Len(a[k])
                             /\ \A j \in 1..Len(a[k]) : a[k][j] = g[k] + j
    <2> TAKE k \in 1..Len(a)
    <2>1. CASE k = Len(q) + 1
      <3>1. g[k] = last /\ a[k] = p /\ g[k + 1] = last + Len(p)
        BY <1>1, <1>2, <1>5, <2>1
      <3> QED BY <3>1
    <2>2. CASE k # Len(q) + 1
      <3>1. k \in 1..Len(q) /\ k + 1 \in 1..(Len(q) + 1) /\ k \in 1..(Len(q) + 1)
        BY <1>2, <2>2
      <3>2. g[k] = f[k] /\ a[k] = q[k] /\ g[k + 1] = f[k + 1]
        BY <1>2, <1>5, <3>1
      <3> QED BY <1>1, <3>1, <3>2
    <2> QED BY <2>1, <2>2
  <1>7. g[1] = first
    BY <1>1, <1>2, <1>5
  <1> QED BY <1>4, <1>5, <1>6, <1>7 DEF Numbered, a

\* The packet in front holds the next bytes, and what stays after it, or after n bytes
\* of it, is numbered on from there.
LEMMA NumberedFront ==
    ASSUME NEW q \in Seq(Packets), q # <<>>, NEW first, NEW last, Numbered(q, first, last)
    PROVE  /\ \A j \in 1..Len(Head(q)) : Head(q)[j] = first + j
           /\ first + Len(Head(q)) <= MaxBytes
           /\ Numbered(Tail(q), first + Len(Head(q)), last)
  <1>1. PICK f \in [1..(Len(q) + 1) -> 0..MaxBytes] :
           /\ f[1] = first /\ f[Len(q) + 1] = last
           /\ \A k \in 1..Len(q) : /\ f[k + 1] = f[k] + Len(q[k])
                                   /\ \A j \in 1..Len(q[k]) : q[k][j] = f[k] + j
    BY DEF Numbered
  <1> DEFINE t == Tail(q)
             g == [k \in 1..(Len(t) + 1) |-> f[k + 1]]
  <1>2. /\ Len(q) \in Nat /\ 1 \in 1..Len(q) /\ Len(t) = Len(q) - 1 /\ Head(q) = q[1]
        /\ \A k \in 1..Len(t) : t[k] = q[k + 1]
    OBVIOUS
  <1> HIDE DEF t
  <1>3. f[2] = first + Len(Head(q)) /\ 2 \in 1..(Len(q) + 1)
    BY <1>1, <1>2
  <1>4. /\ g \in [1..(Len(t) + 1) -> 0..MaxBytes]
        /\ \A k \in 1..(Len(t) + 1) : g[k] = f[k + 1]
    BY <1>1, <1>2
  <1> HIDE DEF g
  <1>5. g[1] = f[2] /\ g[Len(t) + 1] = last
    BY <1>1, <1>2, <1>4
  <1>6. \A k \in 1..Len(t) : /\ g[k + 1] = g[k] + Len(t[k])
                             /\ \A j \in 1..Len(t[k]) : t[k][j] = g[k] + j
    <2> TAKE k \in 1..Len(t)
    <2>1. k + 1 \in 1..Len(q) /\ k \in 1..(Len(t) + 1) /\ k + 1 \in 1..(Len(t) + 1)
      BY <1>2
    <2>2. t[k] = q[k + 1] /\ g[k] = f[k + 1] /\ g[k + 1] = f[(k + 1) + 1]
      BY <1>2, <1>4, <2>1
    <2> QED BY <1>1, <2>1, <2>2
  <1>7. Numbered(t, first + Len(Head(q)), last)
    BY <1>3, <1>4, <1>5, <1>6 DEF Numbered
  <1>8. first + Len(Head(q)) <= MaxBytes
    BY <1>1, <1>3
  <1> QED BY <1>1, <1>2, <1>7, <1>8 DEF t

LEMMA NumberedCut ==
    ASSUME NEW q \in Seq(Packets), q # <<>>, NEW first, NEW last, Numbered(q, first, last),
           NEW n \in 1..(Len(Head(q)) - 1)
    PROVE  Numbered(<<SubSeq(Head(q), n + 1, Len(Head(q)))>> \o Tail(q), first + n, last)
  <1>1. PICK f \in [1..(Len(q) + 1) -> 0..MaxBytes] :
           /\ f[1] = first /\ f[Len(q) + 1] = last
           /\ \A k \in 1..Len(q) : /\ f[k + 1] = f[k] + Len(q[k])
                                   /\ \A j \in 1..Len(q[k]) : q[k][j] = f[k] + j
    BY DEF Numbered
  <1> DEFINE h == Head(q)
             r == SubSeq(h, n + 1, Len(h))
             c == <<r>> \o Tail(q)
             g == [f EXCEPT ![1] = first + n]
  <1>2. /\ Len(q) \in Nat /\ 1 \in 1..Len(q) /\ h = q[1] /\ h \in Packets
        /\ Tail(q) \in Seq(Packets) /\ Len(Tail(q)) = Len(q) - 1
        /\ \A k \in 1..Len(Tail(q)) : Tail(q)[k] = q[k + 1]
    OBVIOUS
  <1>3. /\ Len(h) \in Nat /\ n \in Nat /\ Len(r) = Len(h) - n
        /\ \A j \in 1..Len(r) : r[j] = h[n + j] /\ n + j \in 1..Len(h)
    BY <1>2, SubSeqProperties DEF Packets
  <1>4. Len(c) = Len(q) /\ c[1] = r /\ \A k \in 2..Len(q) : c[k] = q[k]
    <2> HIDE DEF r
    <2>1. Len(<<r>>) = 1 /\ Len(c) = 1 + Len(Tail(q)) /\ c[1] = r
      BY <1>2
    <2>2. \A k \in 2..Len(q) : c[k] = Tail(q)[k - 1]
      BY <1>2
    <2> QED BY <1>2, <2>1, <2>2
  <1> HIDE DEF r, c
  <1>5. first + n \in 0..MaxBytes
    <2>1. 1 \in 1..(Len(q) + 1) /\ 2 \in 1..(Len(q) + 1) /\ 1 + 1 = 2
      BY <1>2
    <2>2. f[2] = first + Len(h) /\ f[1] = first
      BY <1>1, <1>2, <2>1
    <2>3. f[2] \in 0..MaxBytes /\ f[1] \in 0..MaxBytes
      BY <1>1, <2>1
    <2> QED BY <1>3, <2>2, <2>3
  <1>6. /\ g \in [1..(Len(c) + 1) -> 0..MaxBytes]
        /\ g[1] = first + n /\ \A k \in 2..(Len(q) + 1) : g[k] = f[k]
    BY <1>2, <1>4, <1>5
  <1> HIDE DEF g
  <1>7. \A k \in 1..Len(c) : /\ g[k + 1] = g[k] + Len(c[k])
                             /\ \A j \in 1..Len(c[k]) : c[k][j] = g[k] + j
    <2> TAKE k \in 1..Len(c)
    <2>1. CASE k = 1
      <3>1. /\ g[2] = first + Len(h) /\ g[1] = first + n /\ c[1] = r
            /\ \A j \in 1..Len(h) : h[j] = first + j
        BY <1>1, <1>2, <1>4, <1>6
      <3>2. first \in Nat
        BY <1>1
      <3>3. \A j \in 1..Len(r) : r[j] = first + n + j
        <4> TAKE j \in 1..Len(r)
        <4>1. n + j \in 1..Len(h) /\ r[j] = h[n + j] /\ j \in Int
          BY <1>3
        <4>2. h[n + j] = first + (n + j)
          BY <3>1, <4>1
        <4> QED BY <1>3, <3>2, <4>1, <4>2
      <3>4. g[2] = g[1] + Len(r)
        <4>1. Len(r) = Len(h) - n /\ Len(h) \in Nat /\ n \in Nat
          BY <1>3
        <4>2. g[2] = first + Len(h) /\ g[1] = first + n
          BY <3>1
        <4> HIDE DEF h
        <4> QED BY <3>2, <4>1, <4>2
      <3> QED BY <2>1, <3>1, <3>3, <3>4
    <2>2. CASE k # 1
      <3>1. k \in 2..Len(q) /\ k \in 2..(Len(q) + 1) /\ k + 1 \in 2..(Len(q) + 1) /\ k \in 1..Len(q)
        BY <1>2, <1>4, <2>2
      <3>2. g[k] = f[k] /\ g[k + 1] = f[k + 1] /\ c[k] = q[k]
        BY <1>4, <1>6, <3>1
      <3> QED BY <1>1, <3>1, <3>2
    <2> QED BY <2>1, <2>2
  <1>8. g[Len(c) + 1] = last
    BY <1>1, <1>2, <1>4, <1>6
  <1>9. Numbered(c, first + n, last)
    BY <1>6, <1>7, <1>8 DEF Numbered
  <1> QED BY <1>9 DEF c, r

\* What the operating system takes of a packet of the next bytes continues the stream.
LEMMA StreamGoesOn ==
    ASSUME StreamPrefix, wire \in Seq(1..MaxBytes), NEW p \in Packets, NEW n \in 0..Len(p),
           \A j \in 1..Len(p) : p[j] = Len(wire) + j,
           wire' = wire \o SubSeq(p, 1, n)
    PROVE  /\ StreamPrefix' /\ wire' \in Seq(1..MaxBytes)
           /\ Len(wire') = Len(wire) + n
  <1> DEFINE s == SubSeq(p, 1, n)
  <1>1. /\ s \in Seq(1..MaxBytes) /\ Len(s) = n /\ n \in Nat
        /\ \A j \in 1..n : s[j] = p[j] /\ j \in 1..Len(p)
    <2>1. p \in Seq(1..MaxBytes) /\ Len(p) \in Nat /\ n \in Int /\ 1 \in Int /\ 1 <= n + 1 /\ n <= Len(p)
      BY DEF Packets
    <2>2. /\ s \in Seq(1..MaxBytes) /\ Len(s) = IF 1 <= n THEN n - 1 + 1 ELSE 0
          /\ \A j \in 1..(n - 1 + 1) : s[j] = p[1 + j - 1]
      BY <2>1, SubSeqProperties
    <2> QED BY <2>1, <2>2
  <1> HIDE DEF s
  <1>2. /\ wire' \in Seq(1..MaxBytes) /\ Len(wire') = Len(wire) + n /\ Len(wire) \in Nat
        /\ \A i \in 1..(Len(wire) + n) :
              wire'[i] = IF i <= Len(wire) THEN wire[i] ELSE s[i - Len(wire)]
    BY <1>1 DEF s
  <1>3. \A i \in 1..Len(wire') : wire'[i] = i
    <2> TAKE i \in 1..Len(wire')
    <2>1. CASE i <= Len(wire)
      BY <1>2, <2>1 DEF StreamPrefix
    <2>2. CASE ~(i <= Len(wire))
      <3>1. i - Len(wire) \in 1..n
        BY <1>1, <1>2, <2>2
      <3>2. wire'[i] = p[i - Len(wire)]
        BY <1>1, <1>2, <2>2, <3>1
      <3> QED BY <1>1, <1>2, <3>1, <3>2
    <2> QED BY <2>1, <2>2
  <1> QED BY <1>2, <1>3 DEF StreamPrefix

------------------------------------------------------------------------------
LEMMA InitIInv == Init => IInv
  <1> SUFFICES ASSUME Init PROVE IInv
    OBVIOUS
  <1>1. TypeOK
    <2>1. /\ sendQueue_ \in Seq(Seq(1..MaxBytes)) /\ Len(sendQueue_) <= MaxQueue
          /\ wire \in Seq(1..MaxBytes)
      BY DEF Init
    <2>2. \A b \in {isWritingAsync_, closed_, closing_, reading, looping, broken, shut, abrupt} :
             b \in BOOLEAN
      BY DEF Init
    <2>3. /\ armed \in Nat /\ closes \in Nat
          /\ queued \in 0..MaxBytes /\ due \in 0..MaxBytes /\ room \in 0..SendBuffer
      BY DEF Init
    <2>4. /\ place \in {"new", "conns", "gone"}
          /\ pc \in [Threads -> {"out", "handle", "popped", "delay", "close", "shutdown"}]
      BY DEF Init
    <2> QED BY <2>1, <2>2, <2>3, <2>4 DEF TypeOK
  <1>2. StreamPrefix /\ OneWriteUnderWay /\ CloseInv /\ DelayInv /\ PlaceInv
    BY DEF Init, StreamPrefix, OneWriteUnderWay, CloseInv, DelayInv, PlaceInv
  <1>3. QueueInv
    <2>1. sendQueue_ = <<>> /\ Len(wire) = 0 /\ queued = 0 /\ 0 \in 0..MaxBytes
      BY DEF Init
    <2> QED BY <2>1, NumberedEmpty DEF QueueInv
  <1> QED BY <1>1, <1>2, <1>3 DEF IInv

LEMMA GotoIs ==
    ASSUME pc \in [Threads -> Places], NEW th \in Threads, NEW next \in Places, Goto(th, next)
    PROVE  /\ pc' \in [Threads -> Places] /\ pc'[th] = next
           /\ \A other \in Threads \ {th} : pc'[other] = pc[other]
  BY DEF Goto

\* The parts of the invariant that a step leaves alone.
LEMMA CloseStays ==
    ASSUME CloseInv, UNCHANGED <<closed_, shut, closes>>,
           \A th \in Threads : pc'[th] = "shutdown" <=> pc[th] = "shutdown"
    PROVE  CloseInv'
  BY DEF CloseInv

LEMMA DelayStays ==
    ASSUME TypeOK, TypeOK', DelayInv, UNCHANGED <<closed_, closing_, due, abrupt, broken>>,
           queued' >= queued, Len(wire') >= Len(wire),
           \A th \in Threads : pc'[th] \in {"delay", "close"} => pc'[th] = pc[th]
    PROVE  DelayInv'
  <1>1. Len(wire) \in Nat /\ Len(wire') \in Nat /\ due \in Nat /\ queued \in Nat /\ queued' \in Nat
    BY DEF TypeOK
  <1>2. due' <= queued'
    BY <1>1 DEF DelayInv
  <1>3. \A th \in Threads : pc'[th] = "delay" => closing_'
    BY DEF DelayInv
  <1>4. ~abrupt' /\ (closed_' \/ \E th \in Threads : pc'[th] = "close") =>
           closing_' /\ (broken' \/ Len(wire') >= due')
    BY <1>1 DEF DelayInv
  <1> QED BY <1>2, <1>3, <1>4 DEF DelayInv

\* With nothing left in the queue, everything queued has been sent, as long as writes
\* succeeded; after the shutdown, what matters was sent before it.
LEMMA EmptyMeansSent ==
    ASSUME IInv, sendQueue_ = <<>>, closing_, ~abrupt
    PROVE  broken \/ Len(wire) >= due
  <1>1. Len(wire) \in Nat /\ due \in Nat /\ queued \in 0..MaxBytes /\ due <= queued
    BY DEF IInv, TypeOK, DelayInv
  <1>2. CASE shut
    BY <1>2 DEF IInv, CloseInv, DelayInv
  <1>3. CASE ~shut /\ ~broken
    <2>1. Numbered(<<>>, Len(wire), queued)
      BY <1>3 DEF IInv, QueueInv
    <2>2. Len(wire) \in 0..MaxBytes
      BY <2>1, <1>1 DEF Numbered
    <2>3. Len(wire) = queued
      BY <2>1, <2>2, NumberedEmpty
    <2> QED BY <1>1, <2>3
  <1> QED BY <1>2, <1>3

------------------------------------------------------------------------------
\* closeSocket and delayCloseSocket.

LEMMA CloseSocketKeeps ==
    ASSUME IInv, NEW th \in Threads, CloseSocket(th)
    PROVE  IInv'
  <1> USE DEF IInv
  <1>1. /\ pc[th] = "close" /\ closed_' = TRUE
        /\ Goto(th, IF closed_ THEN "out" ELSE "shutdown")
        /\ UNCHANGED <<queueVars, osVars, closing_, shut, due, abrupt, closes, reading, place, looping>>
    BY DEF CloseSocket, AfterClosedExchange
  <1>2. /\ pc' \in [Threads -> Places]
        /\ pc'[th] = IF closed_ THEN "out" ELSE "shutdown"
        /\ \A other \in Threads \ {th} : pc'[other] = pc[other]
    BY <1>1, GotoIs DEF TypeOK, Places
  <1>3. TypeOK' /\ StreamPrefix' /\ OneWriteUnderWay' /\ QueueInv'
    BY <1>1, <1>2 DEF TypeOK, Places, StreamPrefix, OneWriteUnderWay, QueueInv, queueVars, osVars
  <1>4. CloseInv'
    <2>1. CASE closed_
      BY <1>1, <1>2, <2>1, CloseStays
    <2>2. CASE ~closed_
      BY <1>1, <1>2, <2>2 DEF CloseInv
    <2> QED BY <2>1, <2>2
  <1>5. DelayInv'
    BY <1>1, <1>2 DEF DelayInv, queueVars, osVars
  <1>6. PlaceInv'
    BY <1>1 DEF PlaceInv
  <1> QED BY <1>3, <1>4, <1>5, <1>6

LEMMA ShutdownKeeps ==
    ASSUME IInv, NEW th \in Threads, Shutdown(th)
    PROVE  IInv'
  <1> USE DEF IInv
  <1>1. /\ pc[th] = "shutdown" /\ shut' = TRUE /\ closes' = closes + 1
        /\ Goto(th, "out")
        /\ UNCHANGED <<queueVars, osVars, closed_, closing_, due, abrupt, reading, place, looping>>
    BY DEF Shutdown
  <1>2. /\ pc' \in [Threads -> Places] /\ pc'[th] = "out"
        /\ \A other \in Threads \ {th} : pc'[other] = pc[other]
    BY <1>1, GotoIs DEF TypeOK, Places
  <1>3. TypeOK' /\ StreamPrefix' /\ OneWriteUnderWay' /\ QueueInv'
    BY <1>1, <1>2 DEF TypeOK, Places, StreamPrefix, OneWriteUnderWay, QueueInv, queueVars, osVars
  <1>4. CloseInv'
    BY <1>1, <1>2 DEF CloseInv
  <1>5. DelayInv'
    BY <1>1, <1>2 DEF DelayInv, queueVars, osVars
  <1>6. PlaceInv'
    BY <1>1 DEF PlaceInv
  <1> QED BY <1>3, <1>4, <1>5, <1>6

LEMMA DelayTestKeeps ==
    ASSUME IInv, NEW th \in Threads, DelayTest(th)
    PROVE  IInv'
  <1> USE DEF IInv
  <1>1. /\ pc[th] = "delay" /\ Goto(th, IF sendQueue_ = <<>> THEN "close" ELSE "out")
        /\ UNCHANGED <<queueVars, closeVars, osVars, reading, place, looping>>
    BY DEF DelayTest
  <1>2. /\ pc' \in [Threads -> Places]
        /\ pc'[th] = IF sendQueue_ = <<>> THEN "close" ELSE "out"
        /\ \A other \in Threads \ {th} : pc'[other] = pc[other]
    BY <1>1, GotoIs DEF TypeOK, Places
  <1>3. TypeOK' /\ StreamPrefix' /\ OneWriteUnderWay' /\ QueueInv'
    BY <1>1, <1>2
    DEF TypeOK, Places, StreamPrefix, OneWriteUnderWay, QueueInv, queueVars, closeVars, osVars
  <1>4. CloseInv'
    BY <1>1, <1>2, CloseStays DEF closeVars
  <1>5. closing_ /\ (sendQueue_ = <<>> /\ ~abrupt => broken \/ Len(wire) >= due)
    BY <1>1, EmptyMeansSent DEF DelayInv
  <1>6. DelayInv'
    BY <1>1, <1>2, <1>5 DEF DelayInv, queueVars, closeVars, osVars
  <1>7. PlaceInv'
    BY <1>1 DEF PlaceInv, closeVars
  <1> QED BY <1>3, <1>4, <1>6, <1>7

\* A delayed close is asked for once, and before anything but abrupt closes.
LEMMA AppDelayCloseKeeps ==
    ASSUME IInv, AppDelayClose
    PROVE  IInv'
  <1> USE DEF IInv
  <1>1. /\ pc["app"] = "out" /\ ~closing_ /\ (EarlyClose \/ place # "new")
        /\ closing_' = TRUE /\ Goto("app", "delay") /\ due' = queued
        /\ UNCHANGED <<queueVars, osVars, closed_, shut, abrupt, closes, reading, place, looping>>
    BY DEF AppDelayClose, MayDelayClose, BeginDelayClose, AfterExchange
  <1>2. /\ pc' \in [Threads -> Places] /\ pc'["app"] = "delay"
        /\ \A other \in Threads \ {"app"} : pc'[other] = pc[other]
    BY <1>1, GotoIs DEF TypeOK, Places, Threads
  <1>3. TypeOK' /\ StreamPrefix' /\ OneWriteUnderWay' /\ QueueInv'
    BY <1>1, <1>2 DEF TypeOK, Places, StreamPrefix, OneWriteUnderWay, QueueInv, queueVars, osVars
  <1>4. CloseInv'
    BY <1>1, <1>2, CloseStays
  <1>5. DelayInv'
    BY <1>1, <1>2 DEF DelayInv, TypeOK, queueVars, osVars
  <1>6. PlaceInv'
    BY <1>1 DEF PlaceInv
  <1> QED BY <1>3, <1>4, <1>5, <1>6

LEMMA AppCloseKeeps ==
    ASSUME IInv, AppClose
    PROVE  IInv'
  <1> USE DEF IInv
  <1>1. /\ pc["app"] = "out" /\ Goto("app", "close") /\ abrupt' = TRUE
        /\ UNCHANGED <<queueVars, osVars, closed_, closing_, shut, due, closes, reading, place, looping>>
    BY DEF AppClose
  <1>2. /\ pc' \in [Threads -> Places] /\ pc'["app"] = "close"
        /\ \A other \in Threads \ {"app"} : pc'[other] = pc[other]
    BY <1>1, GotoIs DEF TypeOK, Places, Threads
  <1>3. TypeOK' /\ StreamPrefix' /\ OneWriteUnderWay' /\ QueueInv'
    BY <1>1, <1>2 DEF TypeOK, Places, StreamPrefix, OneWriteUnderWay, QueueInv, queueVars, osVars
  <1>4. CloseInv'
    BY <1>1, <1>2, CloseStays
  <1>5. DelayInv'
    BY <1>1, <1>2 DEF DelayInv, queueVars
  <1>6. PlaceInv'
    BY <1>1 DEF PlaceInv
  <1> QED BY <1>3, <1>4, <1>5, <1>6

------------------------------------------------------------------------------
\* The read completion.

LEMMA ReadHandlerKeeps ==
    ASSUME IInv, ReadHandler
    PROVE  IInv'
  <1> USE DEF IInv
  <1>1. /\ pc["net"] = "out" /\ reading' \in {FALSE, IsOpen}
        /\ UNCHANGED <<isWritingAsync_, armed, osVars, closed_, shut, closes, place, looping>>
    BY DEF ReadHandler
  <1>2. /\ sendQueue_' \in Seq(Packets) /\ Len(sendQueue_') <= MaxQueue
        /\ queued' \in 0..MaxBytes /\ queued' >= queued
        /\ QueueInv'
    <2>1. CASE QueueNothing
      BY <1>1, <2>1 DEF QueueNothing, QueueInv, TypeOK, Packets, osVars
    <2>2. ASSUME NEW size \in Sizes, CanQueue(size), QueuePacket(size)
          PROVE  /\ sendQueue_' \in Seq(Packets) /\ Len(sendQueue_') <= MaxQueue
                 /\ queued' \in 0..MaxBytes /\ queued' >= queued
                 /\ QueueInv'
      <3> DEFINE p == Packet(size)
      <3>1. /\ size \in Nat /\ queued \in Nat /\ queued + size <= MaxBytes
            /\ Len(sendQueue_) < MaxQueue /\ sendQueue_ \in Seq(Packets)
            /\ sendQueue_' = Append(sendQueue_, p) /\ queued' = queued + size
        <4>1. size \in Nat /\ queued \in Nat /\ sendQueue_ \in Seq(Packets)
          BY DEF TypeOK, Packets
        <4>2. queued + size <= MaxBytes /\ Len(sendQueue_) < MaxQueue
          BY <2>2 DEF CanQueue
        <4>3. sendQueue_' = Append(sendQueue_, p) /\ queued' = queued + size
          BY <2>2 DEF QueuePacket
        <4> QED BY <4>1, <4>2, <4>3
      <3>2. /\ p \in Packets /\ Len(p) = size
            /\ \A j \in 1..Len(p) : p[j] = queued + j
        <4>1. p \in [1..size -> 1..MaxBytes] /\ \A j \in 1..size : p[j] = queued + j
          BY <3>1 DEF Packet
        <4> QED BY <3>1, <4>1 DEF Packets
      <3> HIDE DEF p
      <3>3. /\ sendQueue_' \in Seq(Packets) /\ Len(sendQueue_') = Len(sendQueue_) + 1
            /\ Len(sendQueue_) \in Nat
        BY <3>1, <3>2
      <3>4. queued' \in 0..MaxBytes /\ queued' >= queued /\ Len(sendQueue_') <= MaxQueue
        BY <3>1, <3>3
      <3>5. QueueInv'
        <4>1. CASE broken \/ shut
          BY <1>1, <4>1 DEF QueueInv, osVars
        <4>2. CASE ~broken /\ ~shut
          <5>1. Numbered(Append(sendQueue_, p), Len(wire), queued + Len(p))
            BY <3>1, <3>2, <4>2, NumberedAppend DEF QueueInv
          <5> QED BY <1>1, <3>1, <3>2, <5>1 DEF QueueInv, osVars
        <4> QED BY <4>1, <4>2
      <3> QED BY <3>3, <3>4, <3>5
    <2> QED BY <2>1, <2>2 DEF ReadHandler
  <1>3. \/ UNCHANGED <<pc, closing_, due, abrupt>>
        \/ /\ ~closing_ /\ (EarlyClose \/ place # "new")
           /\ closing_' = TRUE /\ Goto("net", "delay")
           /\ due' = queued' /\ UNCHANGED abrupt
        \/ Goto("net", "close") /\ abrupt' = TRUE /\ UNCHANGED <<closing_, due>>
    BY DEF ReadHandler, MayDelayClose, BeginDelayClose, AfterExchange
  <1>4. /\ pc' \in [Threads -> Places]
        /\ \A th \in Threads : pc'[th] = "shutdown" <=> pc[th] = "shutdown"
    <2>1. CASE UNCHANGED pc
      BY <2>1 DEF TypeOK, Places
    <2>2. ASSUME NEW next \in {"delay", "close"}, Goto("net", next)
          PROVE  /\ pc' \in [Threads -> Places]
                 /\ \A th \in Threads : pc'[th] = "shutdown" <=> pc[th] = "shutdown"
      BY <1>1, <2>2, GotoIs DEF TypeOK, Places, Threads
    <2> QED BY <1>3, <2>1, <2>2
  <1>5. TypeOK'
    <2>1. /\ reading' \in BOOLEAN /\ closing_' \in BOOLEAN /\ abrupt' \in BOOLEAN
          /\ due' \in 0..MaxBytes
      BY <1>1, <1>2, <1>3 DEF TypeOK, IsOpen
    <2> QED BY <1>1, <1>2, <1>4, <2>1 DEF TypeOK, Places, Packets, osVars
  <1>6. StreamPrefix' /\ OneWriteUnderWay' /\ CloseInv'
    BY <1>1, <1>4, CloseStays DEF StreamPrefix, OneWriteUnderWay, osVars
  <1>7. DelayInv'
    <2>1. CASE UNCHANGED <<pc, closing_, due, abrupt>>
      BY <1>1, <1>2, <1>5, <2>1, DelayStays DEF osVars
    <2>2. CASE ~closing_ /\ closing_' = TRUE /\ Goto("net", "delay") /\ due' = queued' /\ UNCHANGED abrupt
      <3>1. /\ pc' \in [Threads -> Places] /\ pc'["net"] = "delay"
            /\ \A other \in Threads \ {"net"} : pc'[other] = pc[other]
        BY <2>2, GotoIs DEF TypeOK, Places, Threads
      <3>2. due' <= queued'
        BY <1>2, <2>2
      <3> QED BY <1>1, <2>2, <3>1, <3>2 DEF DelayInv
    <2>3. CASE Goto("net", "close") /\ abrupt' = TRUE /\ UNCHANGED <<closing_, due>>
      <3>1. /\ pc' \in [Threads -> Places] /\ pc'["net"] = "close"
            /\ \A other \in Threads \ {"net"} : pc'[other] = pc[other]
        BY <2>3, GotoIs DEF TypeOK, Places, Threads
      <3>2. due' <= queued'
        BY <1>2, <2>3 DEF TypeOK, DelayInv
      <3> QED BY <2>3, <3>1, <3>2 DEF DelayInv
    <2> QED BY <1>3, <2>1, <2>2, <2>3
  <1>8. PlaceInv'
    BY <1>1, <1>3 DEF PlaceInv
  <1> QED BY <1>2, <1>5, <1>6, <1>7, <1>8

LEMMA ReadErrorKeeps ==
    ASSUME IInv, ReadError
    PROVE  IInv'
  <1> USE DEF IInv
  <1>1. /\ pc["net"] = "out" /\ Goto("net", "close")
        /\ reading' = FALSE /\ abrupt' = (abrupt \/ ~closed_)
        /\ UNCHANGED <<queueVars, osVars, closed_, closing_, shut, due, closes, place, looping>>
    BY DEF ReadError
  <1>2. /\ pc' \in [Threads -> Places] /\ pc'["net"] = "close"
        /\ \A other \in Threads \ {"net"} : pc'[other] = pc[other]
    BY <1>1, GotoIs DEF TypeOK, Places, Threads
  <1>3. TypeOK' /\ StreamPrefix' /\ OneWriteUnderWay' /\ QueueInv'
    <2>1. abrupt' \in BOOLEAN
      BY <1>1
    <2> QED BY <1>1, <1>2, <2>1
        DEF TypeOK, Places, StreamPrefix, OneWriteUnderWay, QueueInv, queueVars, osVars
  <1>4. CloseInv'
    BY <1>1, <1>2, CloseStays
  <1>5. DelayInv'
    BY <1>1, <1>2 DEF DelayInv, queueVars, osVars
  <1>6. PlaceInv'
    BY <1>1 DEF PlaceInv
  <1> QED BY <1>3, <1>4, <1>5, <1>6

\* NetworkThread::update: the socket is dropped only when it is closed.
LEMMA UpdateKeeps ==
    ASSUME IInv, Register \/ UpdateRemoves \/ UpdateSends
    PROVE  IInv'
  <1> USE DEF IInv
  <1>1. /\ UNCHANGED <<queueVars, closeVars, osVars, reading>>
        /\ pc["net"] = "out" /\ (UNCHANGED pc \/ Goto("net", "handle"))
    BY DEF Register, UpdateRemoves, UpdateSends
  <1>2. /\ place' \in {"new", "conns", "gone"} /\ looping' \in BOOLEAN
        /\ PlaceInv'
    BY DEF Register, UpdateRemoves, UpdateSends, TypeOK, PlaceInv, IsOpen, closeVars
  <1>3. /\ pc' \in [Threads -> Places]
        /\ \A th \in Threads : pc'[th] = pc[th] \/ (pc[th] = "out" /\ pc'[th] = "handle")
    <2>1. CASE UNCHANGED pc
      BY <2>1 DEF TypeOK, Places
    <2>2. CASE Goto("net", "handle")
      BY <1>1, <2>2, GotoIs DEF TypeOK, Places, Threads
    <2> QED BY <1>1, <2>1, <2>2
  <1>4. TypeOK'
    BY <1>1, <1>2, <1>3 DEF TypeOK, Places, queueVars, closeVars, osVars
  <1>5. StreamPrefix' /\ OneWriteUnderWay' /\ QueueInv'
    BY <1>1 DEF StreamPrefix, OneWriteUnderWay, QueueInv, queueVars, closeVars, osVars
  <1>6. CloseInv'
    BY <1>1, <1>3, CloseStays DEF closeVars
  <1>7. DelayInv'
    <2>1. queued' >= queued /\ Len(wire') >= Len(wire)
      BY <1>1 DEF TypeOK, queueVars, osVars
    <2> QED BY <1>1, <1>3, <1>4, <2>1, DelayStays DEF closeVars, osVars
  <1> QED BY <1>2, <1>4, <1>5, <1>6, <1>7

------------------------------------------------------------------------------
\* handleQueue.

\* A wait for the send buffer is begun only when none is under way.
LEMMA OneWaitOnly ==
    ASSUME TypeOK, OneWriteUnderWay, AsyncProcessSendQueue
    PROVE  armed' \in Nat /\ isWritingAsync_' \in BOOLEAN /\ OneWriteUnderWay'
  <1>1. isWritingAsync_ \in BOOLEAN /\ armed \in Nat
    BY DEF TypeOK
  <1>2. CASE isWritingAsync_
    <2>1. armed' = armed /\ isWritingAsync_' = isWritingAsync_
      BY <1>2 DEF AsyncProcessSendQueue
    <2> QED BY <1>1, <2>1 DEF OneWriteUnderWay
  <1>3. CASE ~isWritingAsync_
    <2>1. armed' = armed + 1 /\ isWritingAsync_' = TRUE /\ armed = 0
      BY <1>3 DEF AsyncProcessSendQueue, OneWriteUnderWay
    <2>2. isWritingAsync_' /\ armed' = 1
      BY <2>1
    <2> QED BY <2>1, <2>2 DEF OneWriteUnderWay
  <1> QED BY <1>2, <1>3

LEMMA WaitKeeps ==
    ASSUME IInv, HandleEmpty \/ WouldBlock \/ WriteHandler
    PROVE  IInv'
  <1> USE DEF IInv
  <1>1. /\ UNCHANGED <<sendQueue_, queued, closeVars, osVars, reading, place>>
        /\ pc["net"] \in {"handle", "out"} /\ \E next \in {"out", "handle"} : Goto("net", next)
    BY DEF HandleEmpty, WouldBlock, WriteHandler, Handling, queueVars
  <1>2. armed' \in Nat /\ isWritingAsync_' \in BOOLEAN /\ OneWriteUnderWay' /\ looping' \in BOOLEAN
    <2>1. CASE HandleEmpty
      BY <2>1 DEF HandleEmpty, queueVars, OneWriteUnderWay, TypeOK
    <2>2. CASE WouldBlock
      BY <2>2, OneWaitOnly DEF WouldBlock, TypeOK
    <2>3. CASE WriteHandler
      <3>1. armed = 1
        BY <2>3 DEF WriteHandler, OneWriteUnderWay
      <3>2. armed' = 0 /\ ~isWritingAsync_' /\ isWritingAsync_' \in BOOLEAN /\ looping' \in BOOLEAN
        <4>1. armed' = armed - 1 /\ isWritingAsync_' = FALSE /\ looping' = FALSE
          BY <2>3 DEF WriteHandler
        <4>2. armed' = 0
          BY <3>1, <4>1
        <4>3. ~isWritingAsync_'
          BY <4>1
        <4> QED BY <4>1, <4>2, <4>3
      <3> QED BY <3>2 DEF OneWriteUnderWay
    <2> QED BY <2>1, <2>2, <2>3
  <1>3. /\ pc' \in [Threads -> Places]
        /\ \A th \in Threads : /\ pc'[th] \in {"delay", "close"} => pc'[th] = pc[th]
                               /\ pc'[th] = "shutdown" <=> pc[th] = "shutdown"
    <2>1. PICK next \in {"out", "handle"} : Goto("net", next)
      BY <1>1
    <2>2. /\ pc' \in [Threads -> Places] /\ pc'["net"] = next
          /\ \A other \in Threads \ {"net"} : pc'[other] = pc[other]
      BY <2>1, GotoIs DEF TypeOK, Places, Threads
    <2> QED BY <1>1, <2>2
  <1>4. TypeOK'
    BY <1>1, <1>2, <1>3 DEF TypeOK, Places, closeVars, osVars
  <1>5. StreamPrefix' /\ QueueInv' /\ PlaceInv'
    BY <1>1 DEF StreamPrefix, QueueInv, PlaceInv, closeVars, osVars
  <1>6. CloseInv'
    BY <1>1, <1>3, CloseStays DEF closeVars
  <1>7. DelayInv'
    <2>1. queued' >= queued /\ Len(wire') >= Len(wire)
      BY <1>1 DEF TypeOK, osVars
    <2> QED BY <1>1, <1>3, <1>4, <2>1, DelayStays DEF closeVars, osVars
  <1> QED BY <1>2, <1>4, <1>5, <1>6, <1>7

\* What a write leaves in the queue is what the operating system has not taken.
LEMMA WriteKeeps ==
    ASSUME IInv, WriteFails \/ WriteNothing \/ WritePart \/ WriteAll
    PROVE  IInv'
  <1> USE DEF IInv
  <1>1. /\ pc["net"] = "handle" /\ sendQueue_ # <<>>
        /\ UNCHANGED <<queued, closeVars, broken, reading, place>>
        /\ \E next \in {"popped", "out"} : Goto("net", next)
    BY DEF WriteFails, WriteNothing, WritePart, WriteAll, Handling, Accept, osVars
  <1>2. /\ sendQueue_ \in Seq(Packets) /\ Bytes \in Packets
        /\ Tail(sendQueue_) \in Seq(Packets) /\ Len(Tail(sendQueue_)) = Len(sendQueue_) - 1
        /\ Len(sendQueue_) \in Nat /\ Len(Bytes) \in Nat /\ Len(wire) \in Nat
        /\ Len(sendQueue_) <= MaxQueue
    BY <1>1 DEF TypeOK, Packets, Bytes
  <1>3. ~broken /\ ~shut =>
           /\ \A j \in 1..Len(Bytes) : Bytes[j] = Len(wire) + j
           /\ Numbered(Tail(sendQueue_), Len(wire) + Len(Bytes), queued)
           /\ \A n \in 1..(Len(Bytes) - 1) : Numbered(AfterReadCommit(n), Len(wire) + n, queued)
    BY <1>1, <1>2, NumberedFront, NumberedCut DEF QueueInv, Bytes, AfterReadCommit
  <1>4. /\ sendQueue_' \in Seq(Packets) /\ Len(sendQueue_') <= MaxQueue
        /\ wire' \in Seq(1..MaxBytes) /\ Len(wire') >= Len(wire)
        /\ StreamPrefix' /\ QueueInv' /\ room' \in 0..SendBuffer
    <2>1. CASE WriteFails
      <3>1. /\ sendQueue_' = Tail(sendQueue_) /\ UNCHANGED <<wire, room, broken, shut, queued>>
            /\ broken \/ shut
        BY <2>1 DEF WriteFails, WriteFailing, closeVars, osVars
      <3> QED BY <1>2, <3>1 DEF QueueInv, StreamPrefix, TypeOK
    <2>2. CASE WriteNothing
      <3>1. /\ sendQueue_' = Tail(sendQueue_) /\ UNCHANGED <<wire, room, broken, shut, queued>>
            /\ Len(Bytes) = 0
        BY <2>2 DEF WriteNothing, closeVars, osVars
      <3>2. Len(wire) + Len(Bytes) = Len(wire)
        BY <1>2, <3>1
      <3>3. QueueInv'
        BY <1>3, <3>1, <3>2 DEF QueueInv
      <3> QED BY <1>2, <3>1, <3>3 DEF StreamPrefix, TypeOK
    <2>3. CASE WritePart
      <3>1. PICK n \in 1..(Len(Bytes) - 1) : Accept(n) /\ sendQueue_' = AfterReadCommit(n)
        BY <2>3 DEF WritePart
      <3>2. ~broken /\ ~shut /\ n \in 0..Len(Bytes) /\ n \in Nat /\ n <= Len(Bytes)
        BY <1>2, <2>3 DEF WritePart, WriteFailing
      <3>3. /\ StreamPrefix' /\ wire' \in Seq(1..MaxBytes) /\ Len(wire') = Len(wire) + n
        BY <1>2, <1>3, <3>1, <3>2, StreamGoesOn DEF Accept, TypeOK
      <3>4. room' \in 0..SendBuffer
        BY <3>1, <3>2 DEF Accept, TypeOK
      <3>5. sendQueue_' \in Seq(Packets) /\ Len(sendQueue_') = Len(sendQueue_)
        <4>1. SubSeq(Bytes, n + 1, Len(Bytes)) \in Packets
          BY <1>2, <3>2, SubSeqProperties DEF Packets
        <4> QED BY <1>2, <3>1, <4>1 DEF AfterReadCommit
      <3>6. QueueInv'
        BY <1>1, <1>3, <3>1, <3>2, <3>3 DEF QueueInv
      <3> QED BY <1>2, <3>2, <3>3, <3>4, <3>5, <3>6
    <2>4. CASE WriteAll
      <3>1. ~broken /\ ~shut /\ Accept(Len(Bytes)) /\ sendQueue_' = Tail(sendQueue_)
        BY <2>4 DEF WriteAll, WriteFailing
      <3>2. Len(Bytes) \in 0..Len(Bytes)
        BY <1>2
      <3>3. StreamPrefix' /\ wire' \in Seq(1..MaxBytes) /\ Len(wire') = Len(wire) + Len(Bytes)
        BY <1>2, <1>3, <3>1, <3>2, StreamGoesOn DEF Accept, TypeOK
      <3>4. room' \in 0..SendBuffer
        BY <1>2, <3>1 DEF Accept, TypeOK
      <3>5. QueueInv'
        BY <1>1, <1>3, <3>1, <3>3 DEF QueueInv
      <3> QED BY <1>2, <3>1, <3>3, <3>4, <3>5
    <2> QED BY <2>1, <2>2, <2>3, <2>4
  <1>5. armed' \in Nat /\ isWritingAsync_' \in BOOLEAN /\ OneWriteUnderWay' /\ looping' \in BOOLEAN
    <2>1. CASE WriteFails \/ WriteNothing \/ WriteAll
      <3>1. UNCHANGED <<armed, isWritingAsync_>> /\ (UNCHANGED looping \/ looping' = FALSE)
        BY <2>1 DEF WriteFails, WriteNothing, WriteAll
      <3>2. armed \in Nat /\ isWritingAsync_ \in BOOLEAN /\ looping \in BOOLEAN
        BY DEF TypeOK
      <3> QED BY <3>1, <3>2 DEF OneWriteUnderWay
    <2>2. CASE WritePart
      BY <2>2, OneWaitOnly DEF WritePart, TypeOK
    <2> QED BY <2>1, <2>2
  <1>6. /\ pc' \in [Threads -> Places]
        /\ \A th \in Threads : /\ pc'[th] \in {"delay", "close"} => pc'[th] = pc[th]
                               /\ pc'[th] = "shutdown" <=> pc[th] = "shutdown"
    <2>1. PICK next \in {"popped", "out"} : Goto("net", next)
      BY <1>1
    <2>2. /\ pc' \in [Threads -> Places] /\ pc'["net"] = next
          /\ \A other \in Threads \ {"net"} : pc'[other] = pc[other]
      BY <2>1, GotoIs DEF TypeOK, Places, Threads
    <2> QED BY <1>1, <2>2
  <1>7. TypeOK'
    BY <1>1, <1>4, <1>5, <1>6 DEF TypeOK, Places, Packets, closeVars
  <1>8. CloseInv'
    BY <1>1, <1>6, CloseStays DEF closeVars
  <1>9. DelayInv'
    <2>1. queued' >= queued
      BY <1>1 DEF TypeOK
    <2> QED BY <1>1, <1>4, <1>6, <1>7, <2>1, DelayStays DEF closeVars
  <1>10. PlaceInv'
    BY <1>1 DEF PlaceInv, closeVars
  <1> QED BY <1>4, <1>5, <1>7, <1>8, <1>9, <1>10

\* After the last packet of a closing socket, everything queued has been sent.
LEMMA TestAfterPopKeeps ==
    ASSUME IInv, TestAfterPop
    PROVE  IInv'
  <1> USE DEF IInv
  <1>1. /\ pc["net"] = "popped" /\ Goto("net", AfterPop)
        /\ UNCHANGED <<queueVars, closeVars, osVars, reading, place, looping>>
    BY DEF TestAfterPop
  <1>2. /\ AfterPop \in {"close", "handle", "out"}
        /\ AfterPop = "close" => closing_ /\ sendQueue_ = <<>>
    BY DEF AfterPop
  <1>3. /\ pc' \in [Threads -> Places] /\ pc'["net"] = AfterPop
        /\ \A other \in Threads \ {"net"} : pc'[other] = pc[other]
    BY <1>1, <1>2, GotoIs DEF TypeOK, Places, Threads
  <1>4. TypeOK' /\ StreamPrefix' /\ OneWriteUnderWay' /\ QueueInv'
    BY <1>1, <1>3
    DEF TypeOK, Places, StreamPrefix, OneWriteUnderWay, QueueInv, queueVars, closeVars, osVars
  <1>5. CloseInv'
    BY <1>1, <1>2, <1>3, CloseStays DEF closeVars
  <1>6. DelayInv'
    BY <1>1, <1>2, <1>3, EmptyMeansSent DEF DelayInv, queueVars, closeVars, osVars
  <1>7. PlaceInv'
    BY <1>1 DEF PlaceInv, closeVars
  <1> QED BY <1>4, <1>5, <1>6, <1>7

\* The peer, and steps that change nothing.
LEMMA PeerKeeps ==
    ASSUME IInv, PeerReads \/ PeerResets \/ UNCHANGED vars
    PROVE  IInv'
  <1> USE DEF IInv
  <1>1. /\ UNCHANGED <<queueVars, closeVars, wire, reading, place, pc, looping>>
        /\ room' \in 0..SendBuffer /\ broken' \in BOOLEAN /\ (broken => broken')
    <2>1. room \in 0..SendBuffer /\ SendBuffer \in 0..SendBuffer /\ broken \in BOOLEAN
      BY DEF TypeOK
    <2>2. CASE PeerReads
      BY <2>1, <2>2 DEF PeerReads
    <2>3. CASE PeerResets
      BY <2>1, <2>3 DEF PeerResets
    <2>4. CASE UNCHANGED vars
      BY <2>1, <2>4 DEF vars, osVars
    <2> QED BY <2>2, <2>3, <2>4
  <1>2. TypeOK' /\ StreamPrefix' /\ OneWriteUnderWay' /\ QueueInv'
    BY <1>1 DEF TypeOK, StreamPrefix, OneWriteUnderWay, QueueInv, queueVars, closeVars
  <1>3. CloseInv' /\ DelayInv' /\ PlaceInv'
    BY <1>1 DEF CloseInv, DelayInv, PlaceInv, queueVars, closeVars
  <1> QED BY <1>2, <1>3

LEMMA StepIInv == IInv /\ [Next]_vars => IInv'
  BY CloseSocketKeeps, ShutdownKeeps, DelayTestKeeps, AppDelayCloseKeeps, AppCloseKeeps,
     ReadHandlerKeeps, ReadErrorKeeps, UpdateKeeps, WaitKeeps, WriteKeeps, TestAfterPopKeeps,
     PeerKeeps
  DEF Next, Closing, HandleQueue

\* In every execution of the two threads, the peer and the socket the invariant holds.
THEOREM Invariance == Spec => []IInv
  BY InitIInv, StepIInv, PTL DEF Spec

------------------------------------------------------------------------------
\* Every byte on its way is one that was queued, and no counter leaves its range.
THEOREM TypeCorrect == Spec => []TypeOK
  <1>1. IInv => TypeOK
    BY DEF IInv
  <1> QED BY <1>1, Invariance, PTL

\* The peer receives a prefix of what was queued, byte for byte, however the writes of
\* handleQueue are split and whoever closes the socket meanwhile.
THEOREM StreamIsAPrefix == Spec => []StreamPrefix
  <1>1. IInv => StreamPrefix
    BY DEF IInv
  <1> QED BY <1>1, Invariance, PTL

\* update() and the write handler never begin a second asynchronous wait.
THEOREM NeverTwoWrites == Spec => []OneWriteUnderWay
  <1>1. IInv => OneWriteUnderWay
    BY DEF IInv
  <1> QED BY <1>1, Invariance, PTL

\* onClose is called at most once, whichever threads close the socket in whichever ways.
THEOREM ClosedOnlyOnce == Spec => []OnCloseOnce
  <1>1. IInv => OnCloseOnce
    BY DEF IInv, CloseInv, OnCloseOnce
  <1> QED BY <1>1, Invariance, PTL

\* A delayed close ends the connection only when everything queued before it was sent,
\* unless the application may ask for it before the socket is registered.
THEOREM DelayedCloseSendsAll == Spec => [](EarlyClose \/ DelayedCloseKeepsData)
  <1>1. IInv => EarlyClose \/ DelayedCloseKeepsData
    <2> SUFFICES ASSUME IInv, ~EarlyClose, closing_, shut \/ Abandoned, ~abrupt, ~broken
                 PROVE  Len(wire) >= due
      BY DEF DelayedCloseKeepsData
    <2>1. closed_
      BY DEF IInv, PlaceInv, CloseInv, Abandoned
    <2> QED BY <2>1 DEF IInv, DelayInv
  <1> QED BY <1>1, Invariance, PTL


------------------------------------------------------------------------------
\* The receive buffer.

\* The inductive invariant.
ReceiveInv == ReceiveTypeOK /\ UnreadIntact /\ RoomToRead

\* normalize moves the unread bytes to the front, in their order, and leaves room
\* for what is missing of a message.
LEMMA NormalizeKeeps ==
    ASSUME ReceiveTypeOK, UnreadIntact, getActiveSize < Message
    PROVE  /\ MoveUnread \in [0..(Size - 1) -> 0..MaxReceived]
           /\ NewWritePosition \in 0..(Size - 1)
           /\ \A b \in 0..(NewWritePosition - 1) : MoveUnread[b] = consumed + b + 1
<1> USE SizeAssumption, BytesAssumption
<1>1. getActiveSize \in 0..(Size - 1) /\ getActiveSize = NewWritePosition
    BY DEF ReceiveTypeOK, getActiveSize, NewWritePosition
<1>2. ASSUME NEW b \in 0..(Size - 1), b < getActiveSize
      PROVE  rPos_ + b \in rPos_..(wPos_ - 1) /\ rPos_ + b \in 0..(Size - 1)
    BY <1>2 DEF ReceiveTypeOK, getActiveSize
<1>3. MoveUnread \in [0..(Size - 1) -> 0..MaxReceived]
    BY <1>2 DEF MoveUnread, ReceiveTypeOK
<1>4. ASSUME NEW b \in 0..(NewWritePosition - 1)
      PROVE  MoveUnread[b] = consumed + b + 1
    <2>1. b \in 0..(Size - 1) /\ b < getActiveSize
        BY <1>1
    <2>2. MoveUnread[b] = buffer_[rPos_ + b]
        BY <2>1 DEF MoveUnread
    <2>3. buffer_[rPos_ + b] = consumed + ((rPos_ + b) - rPos_) + 1
        BY <2>1, <1>2 DEF UnreadIntact
    <2> QED
        BY <2>2, <2>3, <2>1 DEF ReceiveTypeOK
<1> QED
    BY <1>1, <1>3, <1>4

\* Initially nothing is unread, and no read is under way.
LEMMA InitReceiveInv == ReceiveInit => ReceiveInv
<1> SUFFICES ASSUME ReceiveInit PROVE ReceiveInv
    OBVIOUS
<1> USE SizeAssumption, BytesAssumption
<1>1. ReceiveTypeOK
    <2>1. buffer_ \in [0..(Size - 1) -> 0..MaxReceived]
        BY DEF ReceiveInit
    <2>2. wPos_ \in 0..Size /\ rPos_ \in 0..wPos_ /\ received \in 0..MaxReceived /\ consumed \in 0..received
        BY DEF ReceiveInit
    <2> QED
        BY <2>1, <2>2 DEF ReceiveInit, ReceiveTypeOK
<1>2. UnreadIntact
    <2>1. rPos_..(wPos_ - 1) = {}
        BY DEF ReceiveInit
    <2> QED
        BY <2>1 DEF ReceiveInit, UnreadIntact, getActiveSize
<1>3. RoomToRead
    BY DEF ReceiveInit, RoomToRead
<1> QED
    BY <1>1, <1>2, <1>3 DEF ReceiveInv

\* Every step keeps the inductive invariant.
LEMMA StepReceiveInv == ReceiveInv /\ [ReceiveNext]_receiveVars => ReceiveInv'
<1> SUFFICES ASSUME ReceiveInv, [ReceiveNext]_receiveVars PROVE ReceiveInv'
    OBVIOUS
<1> USE SizeAssumption, BytesAssumption DEF ReceiveInv
<1>1. ASSUME NEW n \in 0..Size, Take(n) PROVE ReceiveInv'
    <2>1. ReceiveTypeOK'
        <3>1. n \in 1..(wPos_ - rPos_) /\ wPos_ - rPos_ = received - consumed
            BY <1>1 DEF Take, UnreadIntact, getActiveSize
        <3>2. rPos_' \in 0..wPos_ /\ consumed' \in 0..received
            BY <1>1, <3>1 DEF Take, ReceiveTypeOK
        <3> QED
            BY <1>1, <3>2 DEF Take, ReceiveTypeOK
    <2>2. UnreadIntact'
        <3>1. getActiveSize' = received' - consumed'
            BY <1>1 DEF Take, UnreadIntact, ReceiveTypeOK, getActiveSize
        <3>2. ASSUME NEW b \in rPos_'..(wPos_' - 1)
              PROVE  buffer_'[b] = consumed' + (b - rPos_') + 1
            <4>1. b \in rPos_..(wPos_ - 1)
                BY <1>1 DEF Take, ReceiveTypeOK
            <4>2. buffer_[b] = consumed + (b - rPos_) + 1
                BY <4>1 DEF UnreadIntact
            <4> QED
                BY <1>1, <4>2, <4>1 DEF Take, ReceiveTypeOK
        <3> QED
            BY <3>1, <3>2 DEF UnreadIntact
    <2>3. RoomToRead'
        BY <1>1 DEF Take, RoomToRead
    <2> QED
        BY <2>1, <2>2, <2>3
<1>2. ASSUME NEW n \in 0..Size, ReadDone(n) PROVE ReceiveInv'
    <2>1. n \in 0..(Size - wPos_) /\ received + n \in 0..MaxReceived
        BY <1>2 DEF ReadDone, ReceiveTypeOK, getRemainingSpace
    <2>2. ReceiveTypeOK'
        <3>1. \A b \in wPos_..(wPos_ + n - 1) : received + (b - wPos_) + 1 \in 0..MaxReceived
            BY <2>1 DEF ReceiveTypeOK
        <3>2. buffer_' \in [0..(Size - 1) -> 0..MaxReceived]
            BY <1>2, <3>1 DEF ReadDone, ReceiveTypeOK
        <3> QED
            BY <1>2, <2>1, <3>2 DEF ReadDone, ReceiveTypeOK
    <2>3. UnreadIntact'
        <3>1. getActiveSize' = received' - consumed'
            BY <1>2, <2>1 DEF ReadDone, UnreadIntact, ReceiveTypeOK, getActiveSize
        <3>2. ASSUME NEW b \in rPos_'..(wPos_' - 1)
              PROVE  buffer_'[b] = consumed' + (b - rPos_') + 1
            <4>1. b \in 0..(Size - 1) /\ b \in rPos_..(wPos_ + n - 1)
                BY <1>2, <2>1 DEF ReadDone, ReceiveTypeOK
            <4>2. CASE b \in wPos_..(wPos_ + n - 1)
                <5>1. buffer_'[b] = received + (b - wPos_) + 1
                    BY <1>2, <4>1, <4>2 DEF ReadDone
                <5>2. received = consumed + (wPos_ - rPos_)
                    BY DEF UnreadIntact, ReceiveTypeOK, getActiveSize
                <5> QED
                    BY <1>2, <5>1, <5>2, <4>1 DEF ReadDone, ReceiveTypeOK
            <4>3. CASE b \in rPos_..(wPos_ - 1)
                <5>1. b \notin wPos_..(wPos_ + n - 1)
                    BY <4>3 DEF ReceiveTypeOK
                <5>2. buffer_'[b] = buffer_[b]
                    BY <1>2, <4>1, <5>1 DEF ReadDone
                <5> QED
                    BY <1>2, <5>2, <4>3 DEF ReadDone, UnreadIntact
            <4> QED
                BY <4>1, <4>2, <4>3 DEF ReceiveTypeOK
        <3> QED
            BY <3>1, <3>2 DEF UnreadIntact
    <2>4. RoomToRead'
        BY <1>2 DEF ReadDone, RoomToRead
    <2> QED
        BY <2>2, <2>3, <2>4
<1>3. CASE AsyncRead
    <2>1. /\ MoveUnread \in [0..(Size - 1) -> 0..MaxReceived]
          /\ NewWritePosition \in 0..(Size - 1)
          /\ \A b \in 0..(NewWritePosition - 1) : MoveUnread[b] = consumed + b + 1
        BY <1>3, NormalizeKeeps DEF AsyncRead
    <2>2. /\ buffer_' = MoveUnread /\ wPos_' = NewWritePosition /\ rPos_' = 0
          /\ received' = received /\ consumed' = consumed
        <3>1. CASE HasGap
            BY <1>3, <3>1 DEF AsyncRead
        <3>2. CASE ~HasGap
            <4>1. MoveUnread = buffer_ /\ NewWritePosition = wPos_ /\ rPos_ = 0
                BY <3>2 DEF HasGap, MoveUnread, NewWritePosition, ReceiveTypeOK
            <4> QED
                BY <1>3, <3>2, <4>1 DEF AsyncRead, buffer
        <3> QED
            BY <3>1, <3>2
    <2>3. ReceiveTypeOK'
        BY <1>3, <2>1, <2>2 DEF AsyncRead, ReceiveTypeOK
    <2>4. UnreadIntact'
        <3>1. getActiveSize' = received' - consumed'
            BY <2>2 DEF UnreadIntact, ReceiveTypeOK, getActiveSize, NewWritePosition
        <3>2. ASSUME NEW b \in rPos_'..(wPos_' - 1)
              PROVE  buffer_'[b] = consumed' + (b - rPos_') + 1
            <4>1. b \in 0..(NewWritePosition - 1)
                BY <2>2
            <4> QED
                BY <2>1, <2>2, <4>1
        <3> QED
            BY <3>1, <3>2 DEF UnreadIntact
    <2>5. RoomToRead'
        BY <2>1, <2>2 DEF RoomToRead, getRemainingSpace
    <2> QED
        BY <2>3, <2>4, <2>5
<1>4. CASE StopReading \/ ReadFails \/ Close \/ UNCHANGED receiveVars
    <2>1. /\ UNCHANGED <<buffer, received, consumed>>
          /\ at' = at \/ at' = "stopped"
          /\ isOpen' \in BOOLEAN
        BY <1>4 DEF StopReading, ReadFails, Close, receiveVars, ReceiveTypeOK
    <2> QED
        BY <2>1 DEF buffer, ReceiveTypeOK, UnreadIntact, RoomToRead, getActiveSize, getRemainingSpace
<1> QED
    BY <1>1, <1>2, <1>3, <1>4 DEF ReceiveNext

\* In every execution the invariant holds.
THEOREM ReceiveInvariance == ReceiveSpec => []ReceiveInv
BY InitReceiveInv, StepReceiveInv, PTL DEF ReceiveSpec

\* The positions stay ordered and inside the buffer (MessageBuffer.h:69-98).
THEOREM PositionsOrdered == ReceiveSpec => []ReceiveTypeOK
<1>1. ReceiveInv => ReceiveTypeOK
    BY DEF ReceiveInv
<1> QED
    BY ReceiveInvariance, <1>1, PTL

\* No byte is lost, repeated or reordered between the read and the handler
\* (MessageBuffer.h:89-98).
THEOREM NothingLost == ReceiveSpec => []UnreadIntact
<1>1. ReceiveInv => UnreadIntact
    BY DEF ReceiveInv
<1> QED
    BY ReceiveInvariance, <1>1, PTL

\* No read is started on a full buffer (Socket.h:85-93).
THEOREM AlwaysRoom == ReceiveSpec => []RoomToRead
<1>1. ReceiveInv => RoomToRead
    BY DEF ReceiveInv
<1> QED
    BY ReceiveInvariance, <1>1, PTL
==============================================================================
