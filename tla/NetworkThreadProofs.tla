-------------------------- MODULE NetworkThreadProofs --------------------------
(***************************************************************************)
(* Proofs that the safety properties of NetworkThread hold for any number  *)
(* of network threads and any finite number of connections.                *)
(***************************************************************************)
EXTENDS NetworkThread, FiniteSetTheorems, TLAPS

USE ThreadCountAssumption

\* What a thread has was accepted, and what it has still to visit it has adopted.
HomeInv ==
    /\ OneHome
    /\ \A t \in NetThreads : \A s \in Home(t) : sock[s] # "none"
    /\ \A t \in NetThreads : scan[t] \subseteq conns_[t] /\ (~tick[t] => scan[t] = {})

\* The acceptor's thread has a socket in its hands only between the accept and
\* addNewSocket, and has done with accepting when it stops a thread; a thread leaves
\* only after that, and without sockets.
ManagerInv ==
    /\ mgr = "add" => accepted \in Socks /\ sock[accepted] # "none"
    /\ mgr # "add" => accepted = NoSock
    /\ \A t \in NetThreads : stopped_[t] => mgr \in {"stop", "join", "stopped"}
    /\ \A t \in exited : stopped_[t] /\ ~tick[t] /\ newConns_[t] = {} /\ conns_[t] = {}

\* minId has the fewest connections of the threads it was compared with, until the next
\* choice.
MinInv ==
    ~departed =>
        /\ mgr = "choose" => \A t \in NetThreads : t < i => connsCount_[minId] <= connsCount_[t]
        /\ mgr \in {"armed", "add"} => \A t \in NetThreads : connsCount_[minId] <= connsCount_[t]

IInv ==
    /\ TypeOK /\ HomeInv /\ ManagerInv /\ CountIsExact
    /\ NoSocketLost /\ MinInv /\ Balanced

------------------------------------------------------------------------------
\* The lists are finite, and taking the living out of one into the other, adding and
\* removing a socket count as the code counts.
LEMMA ListsFinite ==
    ASSUME TypeOK, NEW t \in NetThreads
    PROVE  /\ IsFiniteSet(newConns_[t]) /\ IsFiniteSet(conns_[t])
           /\ Cardinality(newConns_[t]) \in Nat /\ Cardinality(conns_[t]) \in Nat
  <1>1. newConns_[t] \in SUBSET Socks /\ conns_[t] \in SUBSET Socks
    BY DEF TypeOK
  <1>2. IsFiniteSet(newConns_[t]) /\ IsFiniteSet(conns_[t])
    BY <1>1, SocksAssumption, FS_Subset
  <1> QED BY <1>2, FS_CardinalityType

LEMMA AdoptCounts ==
    ASSUME TypeOK, OneHome, NEW t \in NetThreads
    PROVE  /\ Cardinality(Dead(t)) \in Nat
           /\ Cardinality(Adopt(t)) + Cardinality(Dead(t))
                = Cardinality(newConns_[t]) + Cardinality(conns_[t])
           /\ Cardinality(Adopt(t)) \in Nat
           /\ Dead(t) = {} => Cardinality(Dead(t)) = 0
  <1> DEFINE new == newConns_[t]
             living == newConns_[t] \ Dead(t)
  <1>1. IsFiniteSet(new) /\ IsFiniteSet(conns_[t])
    BY ListsFinite
  <1>2. Dead(t) \subseteq new /\ new \cap Dead(t) = Dead(t)
    BY DEF Dead
  <1>3. IsFiniteSet(Dead(t)) /\ Cardinality(Dead(t)) \in Nat
    BY <1>1, <1>2, FS_Subset, FS_CardinalityType
  <1>4. IsFiniteSet(living) /\ Cardinality(living) = Cardinality(new) - Cardinality(Dead(t))
    BY <1>1, <1>2, FS_Difference
  <1>5. conns_[t] \cap living = {}
    BY DEF OneHome
  <1>6. Cardinality(Adopt(t)) = Cardinality(conns_[t]) + Cardinality(living) - 0
    BY <1>1, <1>4, <1>5, FS_Union, FS_EmptySet DEF Adopt
  <1>7. IsFiniteSet(Adopt(t))
    BY <1>1, <1>4, FS_Union DEF Adopt
  <1>8. Cardinality(new) \in Nat /\ Cardinality(conns_[t]) \in Nat /\ Cardinality(Adopt(t)) \in Nat
    BY <1>1, <1>7, FS_CardinalityType
  <1> QED BY <1>3, <1>4, <1>6, <1>8, FS_EmptySet

LEMMA RemoveCounts ==
    ASSUME TypeOK, NEW t \in NetThreads, NEW s \in conns_[t]
    PROVE  /\ Cardinality(conns_[t] \ {s}) = Cardinality(conns_[t]) - 1
           /\ Cardinality(conns_[t]) > 0
  <1>1. IsFiniteSet(conns_[t]) /\ Cardinality(conns_[t]) \in Nat
    BY ListsFinite
  <1>2. Cardinality(conns_[t] \ {s}) = Cardinality(conns_[t]) - 1
    BY <1>1, FS_RemoveElement
  <1>3. Cardinality(conns_[t]) # 0
    BY <1>1, FS_EmptySet
  <1> QED BY <1>1, <1>2, <1>3

LEMMA AddCounts ==
    ASSUME TypeOK, NEW t \in NetThreads, NEW s, s \notin newConns_[t]
    PROVE  Cardinality(newConns_[t] \cup {s}) = Cardinality(newConns_[t]) + 1
  BY ListsFinite, FS_AddElement

------------------------------------------------------------------------------
LEMMA InitIInv == Init => IInv
  <1> SUFFICES ASSUME Init PROVE IInv
    OBVIOUS
  <1>1. 0 \in NetThreads
    BY DEF NetThreads
  <1>2. TypeOK
    <2>1. 0 \in 0..ThreadCount /\ 0 \in Nat
      OBVIOUS
    <2> QED BY <1>1, <2>1 DEF Init, TypeOK
  <1>3. HomeInv
    BY SocksAssumption DEF Init, HomeInv, OneHome, Home
  <1>4. ManagerInv
    BY DEF Init, ManagerInv
  <1>5. CountIsExact
    BY FS_EmptySet DEF Init, CountIsExact
  <1>6. NoSocketLost
    BY DEF Init, NoSocketLost
  <1>7. MinInv /\ Balanced
    <2>1. \A t \in NetThreads : connsCount_[t] = 0 /\ 0 <= t
      BY DEF Init, NetThreads
    <2> QED BY <1>1, <2>1 DEF Init, MinInv, Balanced, NetThreads
  <1> QED BY <1>2, <1>3, <1>4, <1>5, <1>6, <1>7 DEF IInv

\* A socket closes, or asks for it, at any time.
LEMMA SocketKeeps ==
    ASSUME IInv, NEW s \in Socks, CloseSocket(s) \/ DelayCloseSocket(s)
    PROVE  IInv'
  <1> USE DEF IInv
  <1>1. UNCHANGED <<threadVars, mgrVars, departed>>
    BY DEF CloseSocket, DelayCloseSocket
  <1>2. PICK how \in {"closing", "closed"} : sock' = [sock EXCEPT ![s] = how]
    BY DEF CloseSocket, DelayCloseSocket
  <1>3. sock' \in [Socks -> {"none", "open", "closing", "closed"}]
    BY <1>2 DEF TypeOK
  <1>4. \A r \in Socks : /\ sock[r] # "none" => sock'[r] # "none"
                         /\ sock'[r] = "open" => sock[r] = "open"
    BY <1>2 DEF TypeOK
  <1>5. TypeOK'
    BY <1>1, <1>3 DEF TypeOK, threadVars, mgrVars
  <1>6. HomeInv'
    <2>1. \A t \in NetThreads : Home(t)' = Home(t) /\ Home(t) \subseteq Socks
      BY <1>1 DEF TypeOK, Home, threadVars
    <2>2. OneHome'
      BY <1>1, <2>1 DEF HomeInv, OneHome, threadVars, mgrVars
    <2> QED BY <1>1, <1>4, <2>1, <2>2 DEF HomeInv, threadVars
  <1>7. ManagerInv'
    BY <1>1, <1>4 DEF ManagerInv, threadVars, mgrVars
  <1>8. NoSocketLost'
    BY <1>1, <1>4 DEF NoSocketLost, Home, threadVars, mgrVars
  <1>9. CountIsExact' /\ MinInv' /\ Balanced'
    BY <1>1 DEF CountIsExact, MinInv, Balanced, threadVars, mgrVars
  <1> QED BY <1>5, <1>6, <1>7, <1>8, <1>9

------------------------------------------------------------------------------
\* The acceptor's thread while it touches neither lists nor counters.

LEMMA CompareKeeps ==
    ASSUME IInv, Compare
    PROVE  IInv'
  <1> USE DEF IInv
  <1>1. /\ mgr = "choose" /\ i < ThreadCount /\ i' = i + 1
        /\ minId' = IF connsCount_[i] < connsCount_[minId] THEN i ELSE minId
        /\ UNCHANGED <<sock, threadVars, mgr, accepted, stopped_, departed>>
    BY DEF Compare, FewerConnections
  <1>2. i \in NetThreads /\ i' \in 0..ThreadCount
    BY <1>1 DEF TypeOK, NetThreads
  <1>3. TypeOK'
    BY <1>1, <1>2 DEF TypeOK, threadVars
  <1>4. HomeInv' /\ ManagerInv' /\ CountIsExact' /\ NoSocketLost' /\ Balanced'
    BY <1>1 DEF HomeInv, OneHome, Home, ManagerInv, CountIsExact, NoSocketLost, Balanced, threadVars
  <1>5. MinInv'
    <2>1. connsCount_ \in [NetThreads -> Nat] /\ minId \in NetThreads
      BY DEF TypeOK
    <2>2. ASSUME ~departed, NEW t \in NetThreads, t < i + 1
          PROVE  connsCount_[minId'] <= connsCount_[t]
      <3>1. t < i => connsCount_[minId] <= connsCount_[t]
        BY <1>1, <2>2 DEF MinInv
      <3>2. t < i \/ t = i
        BY <1>2, <2>2 DEF NetThreads
      <3>3. connsCount_[t] \in Nat /\ connsCount_[i] \in Nat /\ connsCount_[minId] \in Nat
        BY <1>2, <2>1
      <3>4. CASE connsCount_[i] < connsCount_[minId]
        BY <1>1, <3>1, <3>2, <3>3, <3>4
      <3>5. CASE ~(connsCount_[i] < connsCount_[minId])
        BY <1>1, <3>1, <3>2, <3>3, <3>5
      <3> QED BY <3>4, <3>5
    <2> QED BY <1>1, <2>2 DEF MinInv, threadVars
  <1> QED BY <1>3, <1>4, <1>5

LEMMA ArmKeeps ==
    ASSUME IInv, Arm
    PROVE  IInv'
  <1> USE DEF IInv
  <1>1. /\ mgr = "choose" /\ i = ThreadCount /\ mgr' = "armed"
        /\ UNCHANGED <<sock, threadVars, i, minId, accepted, stopped_, departed>>
    BY DEF Arm
  <1>2. TypeOK' /\ HomeInv' /\ CountIsExact' /\ NoSocketLost' /\ Balanced'
    BY <1>1 DEF TypeOK, HomeInv, OneHome, Home, CountIsExact, NoSocketLost, Balanced, threadVars
  <1>3. ManagerInv'
    BY <1>1 DEF ManagerInv, threadVars
  <1>4. MinInv'
    <2>1. \A t \in NetThreads : t < i
      BY <1>1 DEF NetThreads
    <2> QED BY <1>1, <2>1 DEF MinInv, threadVars
  <1> QED BY <1>2, <1>3, <1>4

LEMMA AcceptFailsKeeps ==
    ASSUME IInv, AcceptFails
    PROVE  IInv'
  <1> USE DEF IInv
  <1>1. /\ mgr = "armed" /\ mgr' = "choose" /\ i' = 0 /\ minId' = 0
        /\ UNCHANGED <<sock, threadVars, accepted, stopped_, departed>>
    BY DEF AcceptFails, ChooseAgain
  <1>2. \A t \in NetThreads : ~(t < 0)
    BY DEF NetThreads
  <1>3. TypeOK'
    <2>1. 0 \in NetThreads /\ 0 \in 0..ThreadCount
      BY DEF NetThreads
    <2> QED BY <1>1, <2>1 DEF TypeOK, threadVars
  <1>4. HomeInv' /\ CountIsExact' /\ NoSocketLost' /\ Balanced' /\ ManagerInv'
    BY <1>1 DEF HomeInv, OneHome, Home, CountIsExact, NoSocketLost, Balanced, ManagerInv, threadVars
  <1>5. MinInv'
    BY <1>1, <1>2 DEF MinInv
  <1> QED BY <1>3, <1>4, <1>5

LEMMA AcceptKeeps ==
    ASSUME IInv, NEW s \in Socks, Accept(s)
    PROVE  IInv'
  <1> USE DEF IInv
  <1>1. /\ mgr = "armed" /\ mgr' = "add" /\ sock[s] = "none" /\ accepted' = s
        /\ sock' = [sock EXCEPT ![s] = "open"]
        /\ UNCHANGED <<threadVars, i, minId, stopped_, departed>>
    BY DEF Accept
  <1>2. \A r \in Socks : sock'[r] = IF r = s THEN "open" ELSE sock[r]
    BY <1>1 DEF TypeOK
  <1>3. \A t \in NetThreads : Home(t)' = Home(t) /\ Home(t) \subseteq Socks /\ s \notin Home(t)
    BY <1>1 DEF TypeOK, HomeInv, Home, threadVars
  <1>4. TypeOK'
    BY <1>1 DEF TypeOK, threadVars
  <1>5. HomeInv'
    <2>1. OneHome'
      BY <1>1, <1>3 DEF HomeInv, OneHome, threadVars
    <2>2. \A t \in NetThreads : \A r \in Home(t)' : sock'[r] # "none"
      BY <1>2, <1>3 DEF HomeInv
    <2> QED BY <1>1, <2>1, <2>2 DEF HomeInv, threadVars
  <1>6. ManagerInv'
    BY <1>1, <1>2 DEF ManagerInv, threadVars
  <1>7. NoSocketLost'
    <2>1. accepted = NoSock /\ NoSock \notin Socks
      BY <1>1, SocksAssumption DEF ManagerInv
    <2> QED BY <1>1, <1>2, <1>3, <2>1 DEF NoSocketLost
  <1>8. CountIsExact' /\ MinInv' /\ Balanced'
    BY <1>1 DEF CountIsExact, MinInv, Balanced, threadVars
  <1> QED BY <1>4, <1>5, <1>6, <1>7, <1>8

LEMMA StoppingKeeps ==
    ASSUME IInv, BeginStop \/ StopThread \/ JoinThread
    PROVE  IInv'
  <1> USE DEF IInv
  <1>1. /\ mgr \in {"armed", "stop", "join"} /\ mgr' \in {"stop", "join", "stopped"}
        /\ UNCHANGED <<sock, threadVars, minId, accepted, departed>>
    BY DEF BeginStop, StopThread, JoinThread
  <1>2. /\ i' \in 0..ThreadCount /\ stopped_' \in [NetThreads -> BOOLEAN]
        /\ \A t \in NetThreads : stopped_[t] => stopped_'[t]
    <2>1. i \in 0..ThreadCount /\ stopped_ \in [NetThreads -> BOOLEAN]
      BY DEF TypeOK
    <2>2. i < ThreadCount => i + 1 \in 0..ThreadCount
      BY <2>1
    <2>3. CASE BeginStop
      BY <2>1, <2>3 DEF BeginStop
    <2>4. CASE StopThread
      <3>1. CASE i < ThreadCount
        BY <2>1, <2>2, <2>4, <3>1 DEF StopThread
      <3>2. CASE ~(i < ThreadCount)
        BY <2>1, <2>4, <3>2 DEF StopThread
      <3> QED BY <3>1, <3>2
    <2>5. CASE JoinThread
      BY <2>1, <2>2, <2>5 DEF JoinThread
    <2> QED BY <2>3, <2>4, <2>5
  <1>3. TypeOK'
    BY <1>1, <1>2 DEF TypeOK, threadVars
  <1>4. HomeInv' /\ CountIsExact' /\ Balanced'
    BY <1>1 DEF HomeInv, OneHome, Home, CountIsExact, Balanced, threadVars
  <1>5. ManagerInv'
    BY <1>1, <1>2 DEF ManagerInv, TypeOK, threadVars
  <1>6. NoSocketLost'
    BY <1>1, <1>2 DEF NoSocketLost, Home, threadVars
  <1>7. MinInv'
    BY <1>1 DEF MinInv
  <1> QED BY <1>3, <1>4, <1>5, <1>6, <1>7

------------------------------------------------------------------------------
\* The acceptor's thread hands a socket over.
LEMMA OnSocketOpenKeeps ==
    ASSUME IInv, OnSocketOpen
    PROVE  IInv'
  <1> USE DEF IInv
  <1>1. /\ mgr = "add" /\ mgr' = "choose" /\ i' = 0 /\ minId' = 0 /\ accepted' = NoSock
        /\ newConns_' = [newConns_ EXCEPT ![minId] = newConns_[minId] \cup {accepted}]
        /\ connsCount_' = [connsCount_ EXCEPT ![minId] = connsCount_[minId] + 1]
        /\ UNCHANGED <<sock, conns_, tick, scan, exited, stopped_, departed>>
    BY DEF OnSocketOpen, ChooseAgain, AddNewSocket
  <1>2. /\ minId \in NetThreads /\ accepted \in Socks /\ sock[accepted] # "none"
        /\ NoSock \notin Socks
    BY <1>1, SocksAssumption DEF TypeOK, ManagerInv
  <1>3. \A t \in NetThreads :
           /\ newConns_'[t] = IF t = minId THEN newConns_[t] \cup {accepted} ELSE newConns_[t]
           /\ connsCount_'[t] = IF t = minId THEN connsCount_[t] + 1 ELSE connsCount_[t]
           /\ connsCount_[t] \in Nat
    BY <1>1 DEF TypeOK
  <1>4. \A t \in NetThreads : ~stopped_[t] /\ t \notin exited
    BY <1>1 DEF ManagerInv
  <1>5. TypeOK'
    <2>1. 0 \in NetThreads /\ 0 \in 0..ThreadCount
      BY DEF NetThreads
    <2>2. newConns_' \in [NetThreads -> SUBSET Socks] /\ connsCount_' \in [NetThreads -> Nat]
      BY <1>1, <1>2 DEF TypeOK
    <2> QED BY <1>1, <2>1, <2>2 DEF TypeOK
  <1>6. HomeInv'
    <2>1. \A t \in NetThreads : Home(t)' = IF t = minId THEN Home(t) \cup {accepted} ELSE Home(t)
      BY <1>1, <1>3 DEF Home
    <2>2. \A t \in NetThreads : accepted \notin Home(t) /\ NoSock \notin Home(t)
      BY <1>2 DEF HomeInv, OneHome, Home, TypeOK
    <2>3. \A t \in NetThreads : newConns_'[t] \cap conns_'[t] = {}
      BY <1>1, <1>3, <2>2 DEF HomeInv, OneHome, Home
    <2>4. \A t, u \in NetThreads : t # u => Home(t)' \cap Home(u)' = {}
      BY <2>1, <2>2 DEF HomeInv, OneHome
    <2>5. \A t \in NetThreads : accepted' \notin Home(t)'
      BY <1>1, <1>2, <2>1, <2>2
    <2>6. \A t \in NetThreads : \A s \in Home(t)' : sock'[s] # "none"
      BY <1>1, <1>2, <2>1 DEF HomeInv
    <2>7. OneHome'
      BY <2>3, <2>4, <2>5 DEF OneHome
    <2> QED BY <1>1, <2>6, <2>7 DEF HomeInv
  <1>7. ManagerInv'
    BY <1>1, <1>4 DEF ManagerInv, TypeOK
  <1>8. CountIsExact'
    <2>1. ASSUME NEW t \in NetThreads
          PROVE  connsCount_'[t] = Cardinality(newConns_'[t]) + Cardinality(conns_'[t])
      <3>1. connsCount_[t] = Cardinality(newConns_[t]) + Cardinality(conns_[t])
        BY <1>4 DEF CountIsExact
      <3>2. Cardinality(newConns_[t]) \in Nat /\ Cardinality(conns_[t]) \in Nat
        BY ListsFinite
      <3>3. CASE t = minId
        <4>1. accepted \notin newConns_[t]
          BY DEF HomeInv, OneHome, Home
        <4>2. Cardinality(newConns_'[t]) = Cardinality(newConns_[t]) + 1
          BY <1>3, <3>3, <4>1, AddCounts
        <4>3. conns_'[t] = conns_[t] /\ connsCount_'[t] = connsCount_[t] + 1
          BY <1>1, <1>3, <3>3
        <4> QED BY <3>1, <3>2, <4>2, <4>3
      <3>4. CASE t # minId
        <4>1. /\ newConns_'[t] = newConns_[t] /\ conns_'[t] = conns_[t]
              /\ connsCount_'[t] = connsCount_[t]
          BY <1>1, <1>3, <3>4
        <4> QED BY <3>1, <4>1
      <3> QED BY <3>3, <3>4
    <2> QED BY <1>1, <2>1 DEF CountIsExact
  <1>9. NoSocketLost'
    <2>1. ASSUME NEW s \in Socks, sock'[s] = "open"
          PROVE  \E t \in NetThreads : s \in Home(t)'
      <3>1. s = accepted \/ \E t \in NetThreads : s \in Home(t)
        BY <1>1, <1>4, <2>1 DEF NoSocketLost
      <3>2. CASE s = accepted
        BY <1>2, <1>3, <3>2 DEF Home
      <3>3. ASSUME NEW t \in NetThreads, s \in Home(t) PROVE s \in Home(t)'
        BY <1>1, <1>3, <3>3 DEF Home
      <3> QED BY <3>1, <3>2, <3>3
    <2> QED BY <2>1 DEF NoSocketLost
  <1>10. MinInv'
    BY <1>1 DEF MinInv, NetThreads
  <1>11. Balanced'
    <2>1. ASSUME ~departed, NEW t \in NetThreads, NEW u \in NetThreads
          PROVE  connsCount_'[t] <= connsCount_'[u] + 1
      <3>1. connsCount_[minId] <= connsCount_[u] /\ connsCount_[t] <= connsCount_[u] + 1
        BY <1>1, <2>1 DEF MinInv, Balanced
      <3>2. connsCount_[minId] \in Nat /\ connsCount_[t] \in Nat /\ connsCount_[u] \in Nat
        BY <1>2, <1>3
      <3>3. connsCount_'[u] \in {connsCount_[u], connsCount_[u] + 1}
        BY <1>3
      <3>4. connsCount_'[t] = IF t = minId THEN connsCount_[minId] + 1 ELSE connsCount_[t]
        BY <1>3
      <3> QED BY <3>1, <3>2, <3>3, <3>4
    <2> QED BY <1>1, <2>1 DEF Balanced
  <1> QED BY <1>5, <1>6, <1>7, <1>8, <1>9, <1>10, <1>11

------------------------------------------------------------------------------
\* A network thread.

\* While nobody has left, the counters are as they were.
LEMMA CountersKept ==
    ASSUME MinInv, Balanced, UNCHANGED <<mgr, i, minId>>, departed => departed',
           ~departed' => UNCHANGED connsCount_
    PROVE  MinInv' /\ Balanced'
  BY DEF MinInv, Balanced

LEMMA BeginUpdateKeeps ==
    ASSUME IInv, NEW t \in NetThreads, BeginUpdate(t)
    PROVE  IInv'
  <1> USE DEF IInv
  <1>1. /\ t \notin exited /\ ~tick[t] /\ ~stopped_[t]
        /\ connsCount_' = [connsCount_ EXCEPT ![t] = connsCount_[t] - Cardinality(Dead(t))]
        /\ conns_' = [conns_ EXCEPT ![t] = Adopt(t)]
        /\ scan' = [scan EXCEPT ![t] = conns_'[t]]
        /\ newConns_' = [newConns_ EXCEPT ![t] = {}]
        /\ tick' = [tick EXCEPT ![t] = TRUE]
        /\ departed' = (departed \/ Dead(t) # {})
        /\ UNCHANGED <<sock, mgrVars, exited>>
    BY DEF BeginUpdate, DropDead, AfterAdopt
  <1>2. \A u \in NetThreads :
           /\ newConns_'[u] = IF u = t THEN {} ELSE newConns_[u]
           /\ conns_'[u] = IF u = t THEN Adopt(t) ELSE conns_[u]
           /\ scan'[u] = IF u = t THEN Adopt(t) ELSE scan[u]
           /\ tick'[u] = IF u = t THEN TRUE ELSE tick[u]
           /\ connsCount_'[u] = IF u = t THEN connsCount_[t] - Cardinality(Dead(t))
                                         ELSE connsCount_[u]
    BY <1>1 DEF TypeOK
  <1>3. /\ Cardinality(Dead(t)) \in Nat /\ Cardinality(Adopt(t)) \in Nat
        /\ connsCount_[t] - Cardinality(Dead(t)) = Cardinality(Adopt(t))
        /\ Dead(t) = {} => Cardinality(Dead(t)) = 0
    <2>1. connsCount_[t] = Cardinality(newConns_[t]) + Cardinality(conns_[t])
      BY <1>1 DEF CountIsExact
    <2>2. Cardinality(newConns_[t]) \in Nat /\ Cardinality(conns_[t]) \in Nat
      BY ListsFinite
    <2> QED BY <2>1, <2>2, AdoptCounts DEF HomeInv
  <1>4. Adopt(t) \subseteq Socks /\ Adopt(t) \subseteq Home(t) /\ Home(t) \ Dead(t) \subseteq Adopt(t)
    BY DEF Adopt, Home, TypeOK
  <1>5. TypeOK'
    <2>1. /\ newConns_' \in [NetThreads -> SUBSET Socks]
          /\ conns_' \in [NetThreads -> SUBSET Socks]
          /\ scan' \in [NetThreads -> SUBSET Socks]
          /\ tick' \in [NetThreads -> BOOLEAN]
      BY <1>1, <1>4 DEF TypeOK
    <2>2. connsCount_' \in [NetThreads -> Nat]
      BY <1>1, <1>3 DEF TypeOK
    <2> QED BY <1>1, <2>1, <2>2 DEF TypeOK, mgrVars
  <1>6. HomeInv'
    <2>1. \A u \in NetThreads : Home(u)' \subseteq Home(u)
      BY <1>2, <1>4 DEF Home
    <2>2. \A u \in NetThreads : newConns_'[u] \cap conns_'[u] = {}
      BY <1>2 DEF HomeInv, OneHome
    <2>3. OneHome'
      BY <1>1, <2>1, <2>2 DEF HomeInv, OneHome, mgrVars
    <2>4. \A u \in NetThreads : scan'[u] \subseteq conns_'[u] /\ (~tick'[u] => scan'[u] = {})
      BY <1>2 DEF HomeInv
    <2> QED BY <1>1, <2>1, <2>3, <2>4 DEF HomeInv
  <1>7. ManagerInv'
    BY <1>1, <1>2 DEF ManagerInv, TypeOK, mgrVars
  <1>8. CountIsExact'
    <2>1. connsCount_'[t] = Cardinality(newConns_'[t]) + Cardinality(conns_'[t])
      <3>1. /\ newConns_'[t] = {} /\ conns_'[t] = Adopt(t)
            /\ connsCount_'[t] = Cardinality(Adopt(t))
        BY <1>2, <1>3
      <3>2. Cardinality({}) = 0
        BY FS_EmptySet
      <3> QED BY <1>3, <3>1, <3>2
    <2> QED BY <1>1, <1>2, <2>1 DEF CountIsExact
  <1>9. NoSocketLost'
    <2>1. ASSUME NEW s \in Socks, sock[s] = "open", NEW u \in NetThreads, s \in Home(u)
          PROVE  s \in Home(u)'
      <3>1. CASE u = t
        BY <1>2, <1>4, <2>1, <3>1 DEF Home, Dead
      <3>2. CASE u # t
        BY <1>2, <2>1, <3>2 DEF Home
      <3> QED BY <3>1, <3>2
    <2> QED BY <1>1, <2>1 DEF NoSocketLost, mgrVars
  <1>10. MinInv' /\ Balanced'
    <2>1. ~departed' => connsCount_' = connsCount_
      <3> SUFFICES ASSUME ~departed' PROVE connsCount_' = connsCount_
        OBVIOUS
      <3>1. Cardinality(Dead(t)) = 0 /\ connsCount_[t] \in Nat
        BY <1>1, <1>3 DEF TypeOK
      <3>2. connsCount_[t] - Cardinality(Dead(t)) = connsCount_[t]
        BY <3>1
      <3> QED BY <1>1, <3>2 DEF TypeOK
    <2> QED BY <1>1, <2>1, CountersKept DEF mgrVars
  <1> QED BY <1>5, <1>6, <1>7, <1>8, <1>9, <1>10

LEMMA RemoveClosedKeeps ==
    ASSUME IInv, NEW t \in NetThreads, NEW s \in Socks, RemoveClosed(t, s)
    PROVE  IInv'
  <1> USE DEF IInv
  <1>1. /\ s \in scan[t] /\ sock[s] = "closed"
        /\ scan' = [scan EXCEPT ![t] = scan[t] \ {s}]
        /\ conns_' = [conns_ EXCEPT ![t] = conns_[t] \ {s}]
        /\ connsCount_' = [connsCount_ EXCEPT ![t] = connsCount_[t] - 1]
        /\ departed' = TRUE
        /\ UNCHANGED <<sock, newConns_, tick, exited, mgrVars>>
    BY DEF RemoveClosed, UpdateReturnsFalse
  <1>2. s \in conns_[t] /\ tick[t] /\ t \notin exited
    BY <1>1 DEF HomeInv, ManagerInv, TypeOK
  <1>3. \A u \in NetThreads :
           /\ conns_'[u] = IF u = t THEN conns_[t] \ {s} ELSE conns_[u]
           /\ scan'[u] = IF u = t THEN scan[t] \ {s} ELSE scan[u]
           /\ connsCount_'[u] = IF u = t THEN connsCount_[t] - 1 ELSE connsCount_[u]
    BY <1>1 DEF TypeOK
  <1>4. /\ connsCount_[t] - 1 = Cardinality(newConns_[t]) + Cardinality(conns_[t] \ {s})
        /\ connsCount_[t] - 1 \in Nat
    <2>1. connsCount_[t] = Cardinality(newConns_[t]) + Cardinality(conns_[t])
      BY <1>2 DEF CountIsExact
    <2>2. Cardinality(newConns_[t]) \in Nat /\ Cardinality(conns_[t]) \in Nat
      BY ListsFinite
    <2>3. /\ Cardinality(conns_[t] \ {s}) = Cardinality(conns_[t]) - 1
          /\ Cardinality(conns_[t]) > 0
      BY <1>2, RemoveCounts
    <2> QED BY <2>1, <2>2, <2>3
  <1>5. TypeOK'
    <2>1. connsCount_' \in [NetThreads -> Nat]
      BY <1>1, <1>4 DEF TypeOK
    <2>2. conns_' \in [NetThreads -> SUBSET Socks] /\ scan' \in [NetThreads -> SUBSET Socks]
      BY <1>1 DEF TypeOK
    <2> QED BY <1>1, <2>1, <2>2 DEF TypeOK, mgrVars
  <1>6. HomeInv'
    <2>1. \A u \in NetThreads : Home(u)' \subseteq Home(u)
      BY <1>1, <1>3 DEF Home
    <2>2. \A u \in NetThreads : newConns_'[u] \cap conns_'[u] = {}
      BY <1>1, <1>3 DEF HomeInv, OneHome
    <2>3. OneHome'
      BY <1>1, <2>1, <2>2 DEF HomeInv, OneHome, mgrVars
    <2>4. \A u \in NetThreads : scan'[u] \subseteq conns_'[u] /\ (~tick'[u] => scan'[u] = {})
      BY <1>1, <1>3 DEF HomeInv
    <2> QED BY <1>1, <2>1, <2>3, <2>4 DEF HomeInv
  <1>7. ManagerInv'
    <2>1. \A u \in exited : u \in NetThreads /\ u # t
      BY <1>2 DEF TypeOK
    <2> QED BY <1>1, <1>3, <2>1 DEF ManagerInv, mgrVars
  <1>8. CountIsExact'
    BY <1>1, <1>3, <1>4 DEF CountIsExact
  <1>9. NoSocketLost'
    <2>1. ASSUME NEW r \in Socks, sock[r] = "open", NEW u \in NetThreads, r \in Home(u)
          PROVE  r \in Home(u)'
      BY <1>1, <1>3, <2>1 DEF Home
    <2> QED BY <1>1, <2>1 DEF NoSocketLost, mgrVars
  <1>10. MinInv' /\ Balanced'
    BY <1>1 DEF MinInv, Balanced
  <1> QED BY <1>5, <1>6, <1>7, <1>8, <1>9, <1>10

LEMMA ScanKeeps ==
    ASSUME IInv, NEW t \in NetThreads, (\E s \in Socks : SkipOpen(t, s)) \/ EndUpdate(t)
    PROVE  IInv'
  <1> USE DEF IInv
  <1>1. UNCHANGED <<sock, newConns_, conns_, connsCount_, exited, mgrVars, departed>>
    BY DEF SkipOpen, EndUpdate
  <1>2. /\ scan' \in [NetThreads -> SUBSET Socks] /\ tick' \in [NetThreads -> BOOLEAN]
        /\ \A u \in NetThreads : /\ scan'[u] \subseteq scan[u]
                                 /\ ~tick'[u] => scan'[u] = {}
                                 /\ ~tick[u] => ~tick'[u]
    <2>1. ASSUME NEW s \in Socks, SkipOpen(t, s)
          PROVE  tick' = tick /\ scan' = [scan EXCEPT ![t] = scan[t] \ {s}]
      BY <2>1 DEF SkipOpen
    <2>2. CASE \E s \in Socks : SkipOpen(t, s)
      BY <2>1, <2>2 DEF TypeOK, HomeInv
    <2>3. CASE EndUpdate(t)
      BY <2>3 DEF EndUpdate, TypeOK, HomeInv
    <2> QED BY <2>2, <2>3
  <1>3. TypeOK'
    BY <1>1, <1>2 DEF TypeOK, mgrVars
  <1>4. HomeInv'
    <2>1. OneHome' /\ \A u \in NetThreads : Home(u)' = Home(u)
      BY <1>1 DEF HomeInv, OneHome, Home, mgrVars
    <2> QED BY <1>1, <1>2, <2>1 DEF HomeInv
  <1>5. ManagerInv'
    BY <1>1, <1>2 DEF ManagerInv, TypeOK, mgrVars
  <1>6. CountIsExact' /\ NoSocketLost' /\ MinInv' /\ Balanced'
    BY <1>1 DEF CountIsExact, NoSocketLost, Home, MinInv, Balanced, mgrVars
  <1> QED BY <1>3, <1>4, <1>5, <1>6

LEMMA ExitKeeps ==
    ASSUME IInv, NEW t \in NetThreads, Exit(t)
    PROVE  IInv'
  <1> USE DEF IInv
  <1>1. /\ stopped_[t] /\ ~tick[t] /\ t \notin exited
        /\ newConns_' = [newConns_ EXCEPT ![t] = {}]
        /\ conns_' = [conns_ EXCEPT ![t] = {}]
        /\ exited' = exited \cup {t}
        /\ UNCHANGED <<sock, connsCount_, tick, scan, mgrVars, departed>>
    BY DEF Exit, MayExit, ClearAll
  <1>2. \A u \in NetThreads : /\ newConns_'[u] = IF u = t THEN {} ELSE newConns_[u]
                              /\ conns_'[u] = IF u = t THEN {} ELSE conns_[u]
    BY <1>1 DEF TypeOK
  <1>3. TypeOK'
    BY <1>1 DEF TypeOK, mgrVars
  <1>4. HomeInv'
    <2>1. \A u \in NetThreads : Home(u)' \subseteq Home(u)
      BY <1>2 DEF Home
    <2>2. \A u \in NetThreads : newConns_'[u] \cap conns_'[u] = {}
      BY <1>2 DEF HomeInv, OneHome
    <2>3. OneHome'
      BY <1>1, <2>1, <2>2 DEF HomeInv, OneHome, mgrVars
    <2>4. \A u \in NetThreads : scan'[u] \subseteq conns_'[u] /\ (~tick'[u] => scan'[u] = {})
      BY <1>1, <1>2 DEF HomeInv
    <2> QED BY <1>1, <2>1, <2>3, <2>4 DEF HomeInv
  <1>5. ManagerInv'
    BY <1>1, <1>2 DEF ManagerInv, TypeOK, mgrVars
  <1>6. CountIsExact'
    BY <1>1, <1>2 DEF CountIsExact
  <1>7. NoSocketLost'
    BY <1>1 DEF NoSocketLost, mgrVars
  <1>8. MinInv' /\ Balanced'
    BY <1>1, CountersKept DEF mgrVars
  <1> QED BY <1>3, <1>4, <1>5, <1>6, <1>7, <1>8

LEMMA StutterKeeps ==
    ASSUME IInv, UNCHANGED vars
    PROVE  IInv'
  BY DEF IInv, vars, threadVars, mgrVars, TypeOK, HomeInv, OneHome, Home, ManagerInv,
     CountIsExact, NoSocketLost, MinInv, Balanced

------------------------------------------------------------------------------
LEMMA StepIInv == IInv /\ [Next]_vars => IInv'
  BY SocketKeeps, CompareKeeps, ArmKeeps, AcceptFailsKeeps, AcceptKeeps, StoppingKeeps,
     OnSocketOpenKeeps, BeginUpdateKeeps, RemoveClosedKeeps, ScanKeeps, ExitKeeps, StutterKeeps
  DEF Next, Choosing, Stopping, Run

\* The invariant from which the theorems below follow.
THEOREM Invariance == Spec => []IInv
  BY InitIInv, StepIInv, PTL DEF Spec

\* The variables keep their types; the counters never fall below zero, where the code's
\* would wrap (NetworkThread.h:90, 118, 173).
THEOREM CountersNeverWrap == Spec => []TypeOK
  <1>1. IInv => TypeOK
    BY DEF IInv
  <1> QED BY <1>1, Invariance, PTL

\* Every socket has one home (SocketMgr.h:105, NetworkThread.h:104-125).
THEOREM SocketsHaveOneHome == Spec => []OneHome
  <1>1. IInv => OneHome
    BY DEF IInv, HomeInv
  <1> QED BY <1>1, Invariance, PTL

\* The counters are exact through every add and every removal.
THEOREM CountersAreExact == Spec => []CountIsExact
  <1>1. IInv => CountIsExact
    BY DEF IInv
  <1> QED BY <1>1, Invariance, PTL

\* No open socket is dropped before the network stops.
THEOREM OpenSocketsAreKept == Spec => []NoSocketLost
  <1>1. IInv => NoSocketLost
    BY DEF IInv
  <1> QED BY <1>1, Invariance, PTL

\* Choosing the thread with the fewest connections balances them, although the choice
\* is made when the accept is armed (SocketMgr.h:119-132, AsyncAcceptor.h:59-77).
THEOREM LoadIsBalanced == Spec => []Balanced
  <1>1. IInv => Balanced
    BY DEF IInv
  <1> QED BY <1>1, Invariance, PTL
==============================================================================
