------------------------- MODULE MysqlConnectionProofs -------------------------
(***************************************************************************)
(* Proofs that the safety properties of MysqlConnection hold for any       *)
(* statements, any number of attempts and any number of crashes, and what  *)
(* the connection string yields for any fields (ConnectionInfo).           *)
(***************************************************************************)
EXTENDS MysqlConnection, ConnectionInfo, SequenceTheorems, WellFoundedInduction, TLAPS

\* The thread is past the test of the handle and has not returned yet.
Busy == at \in {"run", "reopen", "prepare"}

\* A statement that is being run has not returned.
BusyInv == Busy => current \in Statements /\ outcome[current] = "none"

\* A session is there also between its opening and the return of _HandleMySQLErrno.
HandleInv == opened /\ at \in {"idle", "run", "prepare"} => handle # "null"

IInv ==
    /\ TypeOK /\ BusyInv /\ HandleInv
    /\ AppliedAsReported /\ StatementsFollowSession

------------------------------------------------------------------------------
\* Where no statement returns or is applied, its count is as it was.
LEMMA CountKept ==
    ASSUME AppliedAsReported, UNCHANGED statementVars
    PROVE  AppliedAsReported'
  BY DEF AppliedAsReported, statementVars

\* A statement that has not returned may return false if it has not been applied since.
LEMMA ReturnFalseKeepsCount ==
    ASSUME TypeOK, AppliedAsReported, NEW s \in Statements, outcome[s] = "none",
           Return(s, "false"), UNCHANGED <<applied, unheard>>
    PROVE  AppliedAsReported'
  <1>1. outcome' = [outcome EXCEPT ![s] = "false"]
    BY DEF Return
  <1> QED BY <1>1 DEF AppliedAsReported, TypeOK

------------------------------------------------------------------------------
LEMMA InitIInv == Init => IInv
  <1> SUFFICES ASSUME Init PROVE IInv
    OBVIOUS
  <1>1. TypeOK
    <2>1. 0 \in Nat /\ Attempts \in 1..Attempts
      BY BoundsAssumption
    <2> QED BY <2>1 DEF Init, TypeOK
  <1>2. BusyInv /\ HandleInv /\ StatementsFollowSession
    BY DEF Init, Busy, BusyInv, HandleInv, StatementsFollowSession
  <1>3. AppliedAsReported
    <2> SUFFICES ASSUME NEW s \in Statements
                 PROVE  /\ applied[s] = unheard[s] /\ applied[s] <= unheard[s] + 1
                        /\ outcome[s] = "none"
      BY DEF AppliedAsReported
    <2>1. applied[s] = 0 /\ unheard[s] = 0 /\ outcome[s] = "none"
      BY DEF Init
    <2> QED BY <2>1
  <1> QED BY <1>1, <1>2, <1>3 DEF IInv

\* The steps of the environment and of the owner: no statement returns.
LEMMA OutsideKeeps ==
    ASSUME IInv, ServerCrashes \/ ServerRestarts \/ OpenFirst \/ OwnerPrepareFails
    PROVE  IInv'
  <1> USE DEF IInv
  <1>1. UNCHANGED statementVars /\ UNCHANGED <<at, current, detached, reprepares, attempts>>
    BY DEF ServerCrashes, ServerRestarts, OpenFirst, OwnerPrepareFails, connVars, environment
  <1>2. TypeOK'
    <2>1. ASSUME ServerCrashes PROVE TypeOK'
      BY <2>1 DEF ServerCrashes, TypeOK, statementVars
    <2>2. ASSUME ServerRestarts PROVE TypeOK'
      BY <2>2 DEF ServerRestarts, TypeOK, connVars, statementVars
    <2>3. ASSUME OpenFirst PROVE TypeOK'
      BY <2>3 DEF OpenFirst, Open, TypeOK, environment, statementVars
    <2>4. ASSUME OwnerPrepareFails PROVE TypeOK'
      BY <2>4 DEF OwnerPrepareFails, TypeOK, environment, statementVars
    <2> QED BY <2>1, <2>2, <2>3, <2>4
  <1>3. BusyInv' /\ StatementsFollowSession'
    BY <1>1 DEF Busy, BusyInv, StatementsFollowSession, statementVars
  <1>4. HandleInv'
    BY <1>1 DEF HandleInv, ServerCrashes, ServerRestarts, OpenFirst, Open,
       OwnerPrepareFails, connVars, environment
  <1> QED BY <1>1, <1>2, <1>3, <1>4, CountKept

LEMMA BeginKeeps ==
    ASSUME IInv, NEW s \in Statements, Begin(s)
    PROVE  IInv'
  <1> USE DEF IInv
  <1>1. /\ at = "idle" /\ outcome[s] = "none"
        /\ UNCHANGED <<connVars, environment, applied, unheard, attempts>>
    BY DEF Begin
  <1>2. CASE handle = "null" /\ Return(s, "false")
    <2>1. TypeOK'
      BY <1>1, <1>2 DEF TypeOK, Return, connVars, environment
    <2>2. BusyInv' /\ StatementsFollowSession' /\ HandleInv'
      BY <1>1, <1>2 DEF Busy, BusyInv, StatementsFollowSession, HandleInv, Return,
         connVars, environment
    <2> QED BY <1>1, <1>2, <2>1, <2>2, ReturnFalseKeepsCount
  <1>3. CASE handle # "null" /\ at' = "run" /\ current' = s /\ UNCHANGED outcome
    <2>1. TypeOK'
      BY <1>1, <1>3 DEF TypeOK, connVars, environment
    <2>2. BusyInv' /\ StatementsFollowSession' /\ HandleInv'
      BY <1>1, <1>3 DEF Busy, BusyInv, StatementsFollowSession, HandleInv,
         connVars, environment
    <2> QED BY <1>1, <1>3, <2>1, <2>2, CountKept DEF statementVars
  <1> QED BY <1>2, <1>3 DEF Begin

\* The two ways a statement returns after it has reached the connection.
LEMMA SucceedKeeps ==
    ASSUME IInv, Succeed
    PROVE  IInv'
  <1> USE DEF IInv
  <1>1. /\ at = "run" /\ handle = "live" /\ current \in Statements
        /\ outcome[current] = "none"
        /\ applied' = [applied EXCEPT ![current] = applied[current] + 1]
        /\ UNCHANGED <<connVars, environment, unheard, attempts>>
    BY DEF Succeed, Running, Apply, BusyInv, Busy
  <1>2. PICK value \in {"true", "false"} :
           /\ value = "false" => current \in Queries
           /\ Return(current, value)
    BY DEF Succeed
  <1>3. outcome' = [outcome EXCEPT ![current] = value] /\ at' = "idle" /\ current' = NoStatement
    BY <1>2 DEF Return
  <1>4. TypeOK'
    BY <1>1, <1>3 DEF TypeOK, connVars, environment
  <1>5. BusyInv' /\ StatementsFollowSession' /\ HandleInv'
    BY <1>1, <1>3 DEF Busy, BusyInv, StatementsFollowSession, HandleInv, connVars, environment
  <1>6. AppliedAsReported'
    BY <1>1, <1>2, <1>3 DEF AppliedAsReported, TypeOK
  <1> QED BY <1>4, <1>5, <1>6

LEMMA RefuseKeeps ==
    ASSUME IInv, Refuse
    PROVE  IInv'
  <1> USE DEF IInv
  <1>1. /\ at = "run" /\ current \in Statements /\ outcome[current] = "none"
        /\ Return(current, "false")
        /\ UNCHANGED <<connVars, environment, applied, unheard, attempts>>
    BY DEF Refuse, BusyInv, Busy
  <1>2. TypeOK'
    BY <1>1 DEF TypeOK, Return, connVars, environment
  <1>3. BusyInv' /\ StatementsFollowSession' /\ HandleInv'
    BY <1>1 DEF Busy, BusyInv, StatementsFollowSession, HandleInv, Return, connVars, environment
  <1> QED BY <1>1, <1>2, <1>3, ReturnFalseKeepsCount

LEMMA LoseConnectionKeeps ==
    ASSUME IInv, LoseConnection
    PROVE  IInv'
  <1> USE DEF IInv
  <1>1. /\ at = "run" /\ at' = "reopen" /\ handle' = "null" /\ attempts' = Attempts
        /\ current \in Statements /\ outcome[current] = "none" /\ detached' = TRUE
        /\ UNCHANGED <<prepareError_, opened, environment, outcome, current>>
    BY DEF LoseConnection, Running, BusyInv, Busy
  <1>2. \/ UNCHANGED <<applied, unheard>>
        \/ /\ applied' = [applied EXCEPT ![current] = applied[current] + 1]
           /\ unheard' = [unheard EXCEPT ![current] = unheard[current] + 1]
    BY DEF LoseConnection, Apply
  <1>3. TypeOK'
    BY <1>1, <1>2, BoundsAssumption DEF TypeOK, environment
  <1>4. BusyInv' /\ StatementsFollowSession' /\ HandleInv'
    BY <1>1 DEF Busy, BusyInv, StatementsFollowSession, HandleInv
  <1>5. AppliedAsReported'
    BY <1>1, <1>2 DEF AppliedAsReported, TypeOK
  <1> QED BY <1>3, <1>4, <1>5

\* The rest of _HandleMySQLErrno, and a statement that does not fit the schema.
LEMMA HandleKeeps ==
    ASSUME IInv, Mismatch \/ ReopenFails \/ Reopen \/ Prepare \/ PrepareFails
    PROVE  IInv'
  <1> USE DEF IInv
  <1>1. UNCHANGED statementVars /\ UNCHANGED <<current, opened, environment>>
    BY DEF Mismatch, ReopenFails, Reopen, Prepare, PrepareFails, AfterReconnect,
       connVars, statementVars
  <1>2. TypeOK'
    <2>1. ASSUME Mismatch PROVE TypeOK'
      BY <2>1 DEF Mismatch, TypeOK, connVars, environment, statementVars
    <2>2. ASSUME ReopenFails PROVE TypeOK'
      <3>1. attempts' \in 1..Attempts
        BY <2>2, BoundsAssumption DEF ReopenFails, AfterFailure, TypeOK
      <3> QED BY <2>2, <3>1 DEF ReopenFails, Open, AfterFailure, TypeOK, environment, statementVars
    <2>3. ASSUME Reopen PROVE TypeOK'
      BY <2>3 DEF Reopen, Open, TypeOK, environment, statementVars
    <2>4. ASSUME Prepare PROVE TypeOK'
      BY <2>4 DEF Prepare, AfterReconnect, DetachedAfterPrepare, TypeOK, environment
    <2>5. ASSUME PrepareFails PROVE TypeOK'
      BY <2>5 DEF PrepareFails, TypeOK, environment, statementVars
    <2> QED BY <2>1, <2>2, <2>3, <2>4, <2>5
  <1>3. BusyInv'
    BY <1>1 DEF Busy, BusyInv, Mismatch, ReopenFails, Reopen, Prepare, PrepareFails,
       Running, AfterFailure, AfterReconnect, statementVars
  <1>4. HandleInv'
    BY <1>1 DEF HandleInv, Mismatch, ReopenFails, Reopen, Open, Prepare, PrepareFails,
       AfterFailure, AfterReconnect
  <1>5. StatementsFollowSession'
    BY <1>1 DEF StatementsFollowSession, Mismatch, ReopenFails, Reopen, Prepare, PrepareFails,
       AfterFailure, AfterReconnect, DetachedAfterPrepare, environment
  <1> QED BY <1>1, <1>2, <1>3, <1>4, <1>5, CountKept

LEMMA StepIInv == IInv /\ [Next]_vars => IInv'
  <1> SUFFICES ASSUME IInv, [Next]_vars PROVE IInv'
    OBVIOUS
  <1>1. CASE UNCHANGED vars
    BY <1>1 DEF vars, connVars, environment, statementVars, IInv, TypeOK, Busy, BusyInv,
       HandleInv, AppliedAsReported, StatementsFollowSession
  <1>2. CASE Next
    BY <1>2, OutsideKeeps, BeginKeeps, SucceedKeeps, RefuseKeeps, LoseConnectionKeeps,
       HandleKeeps DEF Next, Run, Handle
  <1> QED BY <1>1, <1>2

\* The invariant from which the theorems below follow.
THEOREM Invariance == Spec => []IInv
  BY InitIInv, StepIInv, PTL DEF Spec

\* The connection's variables keep their types; in particular the attempts never run
\* below one (MySQLConnection.cpp:578-591).
THEOREM TypeCorrect == Spec => []TypeOK
  <1>1. IInv => TypeOK
    BY DEF IInv
  <1> QED BY <1>1, Invariance, PTL

\* After the first successful open() no statement finds a null handle, however often the
\* server crashes (MySQLConnection.cpp:541-592).
THEOREM AlwaysASession == Spec => []SessionKept
  <1>1. IInv => SessionKept
    BY DEF IInv, HandleInv, SessionKept
  <1> QED BY <1>1, Invariance, PTL

\* What a statement returns says how often it was applied, up to the replies that were
\* lost (MySQLConnection.cpp:180-183 and its likes).
THEOREM RetriesOnlyLostReplies == Spec => []AppliedAsReported
  <1>1. IInv => AppliedAsReported
    BY DEF IInv
  <1> QED BY <1>1, Invariance, PTL

\* With doPrepareStatements overridden, no statement of a closed session is run
\* (MySQLConnection.cpp:560-566).
THEOREM PreparedInThisSession == Spec => []StatementsFollowSession
  <1>1. IInv => StatementsFollowSession
    BY DEF IInv
  <1> QED BY <1>1, Invariance, PTL

------------------------------------------------------------------------------
(* The connection string, by induction over positions and fields. *)

\* The least element of a set of natural numbers.
LEMMA LeastElement ==
    ASSUME NEW T \in SUBSET Nat, T # {}
    PROVE  \E n \in T : \A m \in T : n <= m
<1> DEFINE Less == OpToRel(<, Nat)
<1>1. \E n \in T : \A m \in T : <<m, n>> \notin Less
    <2>1. IsWellFoundedOn(Less, Nat)
        BY NatLessThanWellFounded
    <2> HIDE DEF Less
    <2> QED
        BY <2>1, WFMin
<1>2. ASSUME NEW n \in T, NEW m \in T, <<m, n>> \notin Less
      PROVE  n <= m
    BY <1>2 DEF OpToRel
<1> QED
    BY <1>1, <1>2

\* A set that contains 0 and with a number the next one contains every number.
LEMMA InductionUpTo ==
    ASSUME NEW S, NEW last \in Nat, 0 \in S,
           \A n \in 0..(last - 1) : n \in S => n + 1 \in S
    PROVE  0..last \subseteq S
<1> DEFINE Rest == (0..last) \ S
<1> SUFFICES ASSUME Rest # {} PROVE FALSE
    OBVIOUS
<1>1. PICK n \in Rest : \A m \in Rest : n <= m
    <2>1. Rest \in SUBSET Nat
        OBVIOUS
    <2> HIDE DEF Rest
    <2> QED
        BY <2>1, LeastElement
<1>2. n # 0 /\ n \in 0..last
    OBVIOUS
<1>3. n - 1 \in 0..(last - 1) /\ n - 1 \notin Rest
    BY <1>1, <1>2
<1> QED
    BY <1>1, <1>3

------------------------------------------------------------------------------
\* One step of a recursion that goes up: the part of a place, and what comes after it.
Onward(part, next, f, s) == IF next[s] = 0 THEN part[s] ELSE part[s] \o f[next[s]]

IsUpwards(f, N, part, next) == f = [s \in 1..N |-> Onward(part, next, f, s)]

\* Such a recursion defines a function, and its values are sequences.
LEMMA RecursionUpwards ==
    ASSUME NEW T, NEW N \in Nat, NEW part \in [1..N -> Seq(T)], NEW next \in [1..N -> 0..N],
           \A s \in 1..N : next[s] = 0 \/ next[s] > s
    PROVE  /\ \E f : IsUpwards(f, N, part, next)
           /\ \A f : IsUpwards(f, N, part, next) => f \in [1..N -> Seq(T)]
<1> DEFINE Works(f, n) == \A s \in ((N - n) + 1)..N : f[s] = Onward(part, next, f, s)
           Reached == {n \in 0..N : \E f \in [1..N -> Seq(T)] : Works(f, n)}
<1>1. ASSUME NEW f, NEW s \in 1..N, next[s] # 0 => f[next[s]] \in Seq(T)
      PROVE  Onward(part, next, f, s) \in Seq(T)
    <2>1. CASE next[s] = 0
        BY <2>1 DEF Onward
    <2>2. CASE next[s] # 0
        BY <2>2, <1>1, ConcatProperties DEF Onward
    <2> QED
        BY <2>1, <2>2
<1>2. 0 \in Reached
    <2>1. Works(part, 0)
        OBVIOUS
    <2> QED
        BY <2>1
<1>3. ASSUME NEW n \in 0..(N - 1), n \in Reached
      PROVE  n + 1 \in Reached
    <2>1. PICK f \in [1..N -> Seq(T)] : Works(f, n)
        BY <1>3
    <2> DEFINE last == N - n
               g == [f EXCEPT ![last] = Onward(part, next, f, last)]
    <2>2. last \in 1..N /\ (N - (n + 1)) + 1 = last
        OBVIOUS
    <2>3. Onward(part, next, f, last) \in Seq(T)
        BY <2>2, <1>1
    <2>4. g \in [1..N -> Seq(T)]
        BY <2>3
    <2>5. ASSUME NEW s \in last..N PROVE g[s] = Onward(part, next, g, s)
        <3>1. next[s] # 0 => g[next[s]] = f[next[s]]
            BY <2>2
        <3>2. Onward(part, next, g, s) = Onward(part, next, f, s)
            BY <3>1 DEF Onward
        <3>3. g[s] = Onward(part, next, f, s)
            BY <2>1, <2>2
        <3> QED
            BY <3>2, <3>3
    <2> HIDE DEF g
    <2>6. Works(g, n + 1)
        BY <2>2, <2>5
    <2> HIDE DEF Works
    <2> QED
        BY <2>4, <2>6
<1>4. N \in Reached
    <2>1. \A n \in 0..(N - 1) : n \in Reached => n + 1 \in Reached
        BY <1>3
    <2> HIDE DEF Reached, Works
    <2>2. 0..N \subseteq Reached
        BY <2>1, <1>2, InductionUpTo
    <2> QED
        BY <2>2
<1>5. PICK f \in [1..N -> Seq(T)] : Works(f, N)
    BY <1>4
<1>6. f = [s \in 1..N |-> Onward(part, next, f, s)]
    BY <1>5
<1>7. ASSUME NEW h, h = [s \in 1..N |-> Onward(part, next, h, s)]
      PROVE  h \in [1..N -> Seq(T)]
    <2>0. \A s \in 1..N : h[s] = Onward(part, next, h, s)
        <3> HIDE DEF Works, Reached
        <3> DEFINE step(s) == Onward(part, next, h, s)
        <3>1. h = [s \in 1..N |-> step(s)]
            BY <1>7
        <3> HIDE DEF step
        <3>2. \A s \in 1..N : h[s] = step(s)
            BY <3>1
        <3> QED
            BY <3>2 DEF step
    <2> DEFINE Typed == {n \in 0..N : \A s \in ((N - n) + 1)..N : h[s] \in Seq(T)}
    <2>1. 0 \in Typed
        OBVIOUS
    <2>2. ASSUME NEW n \in 0..(N - 1), n \in Typed
          PROVE  n + 1 \in Typed
        <3>1. ASSUME NEW s \in ((N - (n + 1)) + 1)..N PROVE h[s] \in Seq(T)
            <4>1. next[s] # 0 => h[next[s]] \in Seq(T)
                BY <2>2
            <4>2. h[s] = Onward(part, next, h, s)
                BY <2>0
            <4> QED
                BY <4>1, <4>2, <1>1
        <3> QED
            BY <3>1
    <2>3. N \in Typed
        <3> HIDE DEF Typed
        <3>1. 0..N \subseteq Typed
            BY <2>1, <2>2, InductionUpTo
        <3> QED
            BY <3>1
    <2>4. DOMAIN h = 1..N
        BY <1>7
    <2>5. \A s \in 1..N : h[s] \in Seq(T)
        BY <2>3
    <2>6. h = [s \in 1..N |-> h[s]]
        BY <1>7
    <2> QED
        BY <2>5, <2>6
<1> QED
    BY <1>6, <1>7 DEF IsUpwards

------------------------------------------------------------------------------
\* find returns the first separator, or a place past the end.
IsFound(str, start, e) ==
    /\ e \in start..(Len(str) + 1)
    /\ e = Len(str) + 1 \/ str[e] = Sep
    /\ \A k \in start..(e - 1) : str[k] # Sep

LEMMA FindIs ==
    ASSUME NEW C, NEW str \in Seq(C), NEW start \in 1..(Len(str) + 1)
    PROVE  /\ IsFound(str, start, Find(str, start))
           /\ \A e : IsFound(str, start, e) => Find(str, start) = e
<1> DEFINE Ends == {e \in start..(Len(str) + 1) : e = Len(str) + 1 \/ str[e] = Sep}
<1>1. Len(str) \in Nat /\ Len(str) + 1 \in Ends /\ Ends \in SUBSET Nat
    BY LenProperties
<1>2. PICK first \in Ends : \A m \in Ends : first <= m
    <2> HIDE DEF Ends
    <2> QED
        BY <1>1, LeastElement
<1>3. IsFound(str, start, first)
    BY <1>1, <1>2 DEF IsFound
<1>4. ASSUME NEW d, NEW e, IsFound(str, start, d), IsFound(str, start, e)
      PROVE  d = e
    BY <1>1, <1>4 DEF IsFound
<1>5. Find(str, start) = CHOOSE e \in start..(Len(str) + 1) : IsFound(str, start, e)
    BY DEF Find, IsFound
<1>6. first \in start..(Len(str) + 1)
    BY <1>3 DEF IsFound
<1>7. IsFound(str, start, Find(str, start))
    BY <1>3, <1>5, <1>6
<1> QED
    BY <1>4, <1>7

\* The recursion of stringSplit.
LEMMA PiecesAre ==
    ASSUME NEW C, NEW str \in Seq(C), NEW keepEmpty \in BOOLEAN, NEW start \in 1..(Len(str) + 1)
    PROVE  /\ Pieces(str, keepEmpty)[start] \in Seq(Seq(C))
           /\ Pieces(str, keepEmpty)[start] =
                 IF Find(str, start) > Len(str) THEN Piece(str, keepEmpty, start)
                 ELSE Piece(str, keepEmpty, start) \o Pieces(str, keepEmpty)[Find(str, start) + 1]
<1> DEFINE N == Len(str) + 1
           part == [s \in 1..N |-> Piece(str, keepEmpty, s)]
           next == [s \in 1..N |-> IF Find(str, s) > Len(str) THEN 0 ELSE Find(str, s) + 1]
           step(f, s) == IF Find(str, s) > Len(str) THEN Piece(str, keepEmpty, s)
                         ELSE Piece(str, keepEmpty, s) \o f[Find(str, s) + 1]
<1>1. N \in Nat /\ Len(str) \in Nat
    BY LenProperties
<1>2. ASSUME NEW s \in 1..N PROVE Find(str, s) \in s..N
    BY <1>2, FindIs DEF IsFound
<1>3. ASSUME NEW s \in 1..N PROVE Piece(str, keepEmpty, s) \in Seq(Seq(C))
    <2>1. \A k \in s..(Find(str, s) - 1) : str[k] \in C
        BY <1>1, <1>2
    <2>2. SubSeq(str, s, Find(str, s) - 1) \in Seq(C)
        BY <2>1, <1>1, <1>2, SubSeqProperties
    <2> QED
        BY <2>2 DEF Piece
<1>4. /\ part \in [1..N -> Seq(Seq(C))]
      /\ next \in [1..N -> 0..N]
      /\ \A s \in 1..N : next[s] = 0 \/ next[s] > s
    <2>1. part \in [1..N -> Seq(Seq(C))]
        BY <1>3
    <2>2. ASSUME NEW s \in 1..N PROVE next[s] \in 0..N /\ (next[s] = 0 \/ next[s] > s)
        <3>1. Find(str, s) \in s..N
            BY <1>2
        <3> QED
            BY <3>1, <1>1
    <2> QED
        BY <2>1, <2>2
<1>5. ASSUME NEW f, NEW s \in 1..N PROVE Onward(part, next, f, s) = step(f, s)
    BY <1>1, <1>2 DEF Onward
<1>6. ASSUME NEW f
      PROVE  [s \in 1..N |-> Onward(part, next, f, s)] = [s \in 1..N |-> step(f, s)]
    BY <1>5
<1> HIDE DEF part, next, N
<1>7. /\ \E f : f = [s \in 1..N |-> step(f, s)]
      /\ \A f : f = [s \in 1..N |-> step(f, s)] => f \in [1..N -> Seq(Seq(C))]
    <2> DEFINE steps(f) == [s \in 1..N |-> step(f, s)]
    <2>1. /\ \E f : IsUpwards(f, N, part, next)
          /\ \A f : IsUpwards(f, N, part, next) => f \in [1..N -> Seq(Seq(C))]
        <3> HIDE DEF step
        <3> QED
            BY <1>1, <1>4, RecursionUpwards
    <2>2. ASSUME NEW f PROVE IsUpwards(f, N, part, next) <=> f = steps(f)
        BY <1>6 DEF IsUpwards
    <2> HIDE DEF steps
    <2>3. (\E f : f = steps(f)) /\ \A f : f = steps(f) => f \in [1..N -> Seq(Seq(C))]
        BY <2>1, <2>2
    <2> QED
        BY <2>3 DEF steps
<1>8. Pieces(str, keepEmpty) = CHOOSE f : f = [s \in 1..N |-> step(f, s)]
    BY DEF Pieces, N
<1> HIDE DEF step
<1>9. Pieces(str, keepEmpty) = [s \in 1..N |-> step(Pieces(str, keepEmpty), s)]
    BY <1>7, <1>8
<1>10. Pieces(str, keepEmpty) \in [1..N -> Seq(Seq(C))]
    BY <1>7, <1>9
<1>11. start \in 1..N
    BY DEF N
<1>12. Pieces(str, keepEmpty)[start] = step(Pieces(str, keepEmpty), start)
    <2> DEFINE p == Pieces(str, keepEmpty)
               value(s) == step(p, s)
    <2>1. p = [s \in 1..N |-> value(s)]
        BY <1>9
    <2> HIDE DEF p, value
    <2>2. p[start] = value(start)
        BY <2>1, <1>11
    <2> QED
        BY <2>2 DEF p, value
<1> QED
    BY <1>10, <1>11, <1>12 DEF step

\* The recursion of the string of the fields.
LEMMA JoinedIs ==
    ASSUME NEW C, Sep \in C, NEW fields \in Seq(Seq(C)), NEW k \in 1..Len(fields)
    PROVE  /\ Joined(fields)[k] \in Seq(C)
           /\ Joined(fields)[k] =
                 IF k = Len(fields) THEN fields[k] ELSE fields[k] \o <<Sep>> \o Joined(fields)[k + 1]
<1> DEFINE N == Len(fields)
           part == [n \in 1..N |-> IF n = N THEN fields[n] ELSE fields[n] \o <<Sep>>]
           next == [n \in 1..N |-> IF n = N THEN 0 ELSE n + 1]
           step(f, n) == IF n = N THEN fields[n] ELSE fields[n] \o <<Sep>> \o f[n + 1]
<1>1. N \in Nat
    BY LenProperties
<1>2. ASSUME NEW n \in 1..N PROVE fields[n] \o <<Sep>> \in Seq(C)
    BY <1>1, ConcatProperties
<1>3. /\ part \in [1..N -> Seq(C)]
      /\ next \in [1..N -> 0..N]
      /\ \A n \in 1..N : next[n] = 0 \/ next[n] > n
    BY <1>1, <1>2
<1>4. ASSUME NEW f, NEW n \in 1..N PROVE Onward(part, next, f, n) = step(f, n)
    BY <1>1 DEF Onward
<1>5. ASSUME NEW f
      PROVE  [n \in 1..N |-> Onward(part, next, f, n)] = [n \in 1..N |-> step(f, n)]
    BY <1>4
<1> HIDE DEF part, next
<1>6. /\ \E f : f = [n \in 1..N |-> step(f, n)]
      /\ \A f : f = [n \in 1..N |-> step(f, n)] => f \in [1..N -> Seq(C)]
    <2> DEFINE steps(f) == [n \in 1..N |-> step(f, n)]
    <2>1. /\ \E f : IsUpwards(f, N, part, next)
          /\ \A f : IsUpwards(f, N, part, next) => f \in [1..N -> Seq(C)]
        <3> HIDE DEF step, N
        <3> QED
            BY <1>1, <1>3, RecursionUpwards
    <2>2. ASSUME NEW f PROVE IsUpwards(f, N, part, next) <=> f = steps(f)
        BY <1>5 DEF IsUpwards
    <2> HIDE DEF steps
    <2>3. (\E f : f = steps(f)) /\ \A f : f = steps(f) => f \in [1..N -> Seq(C)]
        BY <2>1, <2>2
    <2> QED
        BY <2>3 DEF steps
<1>7. Joined(fields) = CHOOSE f : f = [n \in 1..N |-> step(f, n)]
    BY DEF Joined
<1> HIDE DEF step
<1>8. Joined(fields) = [n \in 1..N |-> step(Joined(fields), n)]
    BY <1>6, <1>7
<1>9. Joined(fields) \in [1..N -> Seq(C)]
    BY <1>6, <1>8
<1>10. Joined(fields)[k] = step(Joined(fields), k)
    <2> DEFINE j == Joined(fields)
               value(n) == step(j, n)
    <2>1. j = [n \in 1..N |-> value(n)]
        BY <1>8
    <2> HIDE DEF j, value
    <2>2. j[k] = value(k)
        BY <2>1
    <2> QED
        BY <2>2 DEF j, value
<1> QED
    BY <1>9, <1>10 DEF step

\* The recursion of the fields that are kept.
LEMMA KeptAre ==
    ASSUME NEW C, NEW fields \in Seq(Seq(C)), NEW keepEmpty \in BOOLEAN, NEW k \in 1..Len(fields)
    PROVE  /\ KeptField(fields, keepEmpty, k) \in Seq(Seq(C))
           /\ Kept(fields, keepEmpty)[k] \in Seq(Seq(C))
           /\ Kept(fields, keepEmpty)[k] =
                 IF k = Len(fields) THEN KeptField(fields, keepEmpty, k)
                 ELSE KeptField(fields, keepEmpty, k) \o Kept(fields, keepEmpty)[k + 1]
<1> DEFINE N == Len(fields)
           own(n) == KeptField(fields, keepEmpty, n)
           part == [n \in 1..N |-> own(n)]
           next == [n \in 1..N |-> IF n = N THEN 0 ELSE n + 1]
           step(f, n) == IF n = N THEN own(n) ELSE own(n) \o f[n + 1]
<1>1. N \in Nat
    BY LenProperties
<1>2. ASSUME NEW n \in 1..N PROVE own(n) \in Seq(Seq(C))
    BY <1>1 DEF KeptField
<1> HIDE DEF own
<1>3. /\ part \in [1..N -> Seq(Seq(C))]
      /\ next \in [1..N -> 0..N]
      /\ \A n \in 1..N : next[n] = 0 \/ next[n] > n
    BY <1>1, <1>2
<1>4. ASSUME NEW f, NEW n \in 1..N PROVE Onward(part, next, f, n) = step(f, n)
    BY <1>1 DEF Onward
<1>5. ASSUME NEW f
      PROVE  [n \in 1..N |-> Onward(part, next, f, n)] = [n \in 1..N |-> step(f, n)]
    BY <1>4
<1> HIDE DEF part, next
<1>6. /\ \E f : f = [n \in 1..N |-> step(f, n)]
      /\ \A f : f = [n \in 1..N |-> step(f, n)] => f \in [1..N -> Seq(Seq(C))]
    <2> DEFINE steps(f) == [n \in 1..N |-> step(f, n)]
    <2>1. /\ \E f : IsUpwards(f, N, part, next)
          /\ \A f : IsUpwards(f, N, part, next) => f \in [1..N -> Seq(Seq(C))]
        <3> HIDE DEF step, N
        <3> QED
            BY <1>1, <1>3, RecursionUpwards
    <2>2. ASSUME NEW f PROVE IsUpwards(f, N, part, next) <=> f = steps(f)
        BY <1>5 DEF IsUpwards
    <2> HIDE DEF steps
    <2>3. (\E f : f = steps(f)) /\ \A f : f = steps(f) => f \in [1..N -> Seq(Seq(C))]
        BY <2>1, <2>2
    <2> QED
        BY <2>3 DEF steps
<1>7. Kept(fields, keepEmpty) = CHOOSE f : f = [n \in 1..N |-> step(f, n)]
    BY DEF Kept, own
<1> HIDE DEF step
<1>8. Kept(fields, keepEmpty) = [n \in 1..N |-> step(Kept(fields, keepEmpty), n)]
    BY <1>6, <1>7
<1>9. Kept(fields, keepEmpty) \in [1..N -> Seq(Seq(C))]
    BY <1>6, <1>8
<1>10. Kept(fields, keepEmpty)[k] = step(Kept(fields, keepEmpty), k)
    <2> DEFINE j == Kept(fields, keepEmpty)
               value(n) == step(j, n)
    <2>1. j = [n \in 1..N |-> value(n)]
        BY <1>8
    <2> HIDE DEF j, value
    <2>2. j[k] = value(k)
        BY <2>1
    <2> QED
        BY <2>2 DEF j, value
<1> QED
    BY <1>2, <1>9, <1>10 DEF step, own

------------------------------------------------------------------------------
\* Fields without a separator, of characters that include it.
Fields(C) ==
    {fields \in Seq(Seq(C)) :
        /\ fields # <<>>
        /\ \A n \in 1..Len(fields) : \A i \in 1..Len(fields[n]) : fields[n][i] # Sep}

\* Where the n-th field begins in the string.
Start(fields, n) == Len(Join(fields)) - Len(Joined(fields)[n]) + 1

Before(field, rest) == field \o <<Sep>> \o rest

\* A field, the separator and the rest, place by place.
IsBefore(all, field, rest) ==
    /\ Len(all) = Len(field) + 1 + Len(rest)
    /\ \A i \in 1..Len(field) : all[i] = field[i]
    /\ all[Len(field) + 1] = Sep
    /\ \A i \in 1..Len(rest) : all[Len(field) + 1 + i] = rest[i]

LEMMA FieldFirst ==
    ASSUME NEW C, Sep \in C, NEW field \in Seq(C), NEW rest \in Seq(C),
           NEW all, all = Before(field, rest)
    PROVE  IsBefore(all, field, rest)
<1> DEFINE first == field \o <<Sep>>
<1>1. <<Sep>> \in Seq(C) /\ Len(<<Sep>>) = 1 /\ <<Sep>>[1] = Sep
    OBVIOUS
<1>2. /\ first \in Seq(C) /\ Len(first) = Len(field) + 1
      /\ \A i \in 1..Len(field) : first[i] = field[i]
      /\ first[Len(field) + 1] = Sep
    <2> HIDE DEF first
    <2>1. /\ first \in Seq(C) /\ Len(first) = Len(field) + 1
          /\ \A i \in 1..(Len(field) + 1) : first[i] =
                IF i <= Len(field) THEN field[i] ELSE <<Sep>>[i - Len(field)]
        BY <1>1, ConcatProperties DEF first
    <2>2. Len(field) \in Nat
        BY LenProperties
    <2> QED
        BY <1>1, <2>1, <2>2
<1>3. Len(field) \in Nat /\ Len(rest) \in Nat
    BY LenProperties
<1>0. all = first \o rest
    BY DEF Before
<1> HIDE DEF first
<1>4. /\ Len(all) = Len(first) + Len(rest)
      /\ \A i \in 1..(Len(first) + Len(rest)) : all[i] =
            IF i <= Len(first) THEN first[i] ELSE rest[i - Len(first)]
    <2> DEFINE both == first \o rest
    <2>1. /\ Len(both) = Len(first) + Len(rest)
          /\ \A i \in 1..(Len(first) + Len(rest)) : both[i] =
                IF i <= Len(first) THEN first[i] ELSE rest[i - Len(first)]
        BY <1>2, ConcatProperties
    <2> HIDE DEF both
    <2>2. all = both
        BY <1>0 DEF both
    <2> QED
        BY <2>1, <2>2
<1>5. ASSUME NEW i \in 1..Len(rest) PROVE all[Len(field) + 1 + i] = rest[i]
    <2>1. Len(field) + 1 + i \in 1..(Len(first) + Len(rest)) /\ ~(Len(field) + 1 + i <= Len(first))
        BY <1>2, <1>3
    <2>2. (Len(field) + 1 + i) - Len(first) = i
        BY <1>2, <1>3
    <2> QED
        BY <1>4, <2>1, <2>2
<1>6. /\ Len(all) = Len(field) + 1 + Len(rest)
      /\ \A i \in 1..Len(field) : all[i] = field[i]
      /\ all[Len(field) + 1] = Sep
    BY <1>2, <1>3, <1>4
<1> QED
    BY <1>5, <1>6 DEF IsBefore

\* The fields from the n-th on are the end of the string.
LEMMA JoinedIsTheEnd ==
    ASSUME NEW C, Sep \in C, NEW fields \in Fields(C), NEW n \in 1..Len(fields)
    PROVE  LET rest == Joined(fields)[n] IN
           /\ Start(fields, n) \in 1..(Len(Join(fields)) + 1)
           /\ \A i \in 1..Len(rest) : Join(fields)[(Start(fields, n) - 1) + i] = rest[i]
<1> DEFINE N == Len(fields)
           str == Join(fields)
           rest(k) == Joined(fields)[k]
           IsEnd(k) == /\ Len(rest(k)) <= Len(str)
                       /\ \A i \in 1..Len(rest(k)) : str[(Len(str) - Len(rest(k))) + i] = rest(k)[i]
           Ends == {k \in 0..(N - 1) : IsEnd(k + 1)}
<1>1. /\ fields \in Seq(Seq(C)) /\ N \in Nat /\ N >= 1
    BY EmptySeq, LenProperties DEF Fields
<1>2. /\ \A k \in 1..N : rest(k) \in Seq(C) /\ Len(rest(k)) \in Nat
      /\ \A k \in 1..N : fields[k] \in Seq(C) /\ Len(fields[k]) \in Nat
      /\ str = rest(1)
    <2>1. ASSUME NEW k \in 1..N PROVE rest(k) \in Seq(C)
        BY <1>1, JoinedIs
    <2>2. ASSUME NEW k \in 1..N PROVE fields[k] \in Seq(C)
        BY <1>1
    <2> HIDE DEF rest, N
    <2>3. \A k \in 1..N : Len(rest(k)) \in Nat /\ Len(fields[k]) \in Nat
        BY <2>1, <2>2, LenProperties
    <2> QED
        BY <2>1, <2>2, <2>3 DEF Join, rest
<1>3. ASSUME NEW k \in 1..(N - 1)
      PROVE  rest(k) = Before(fields[k], rest(k + 1))
    <2>1. k \in 1..N /\ k # N
        BY <1>1
    <2> QED
        BY <1>1, <2>1, JoinedIs DEF Before
<1> HIDE DEF rest, str, N
<1>4. 0 \in Ends
    BY <1>1, <1>2
<1>5. ASSUME NEW k \in 0..((N - 1) - 1), k \in Ends
      PROVE  k + 1 \in Ends
    <2> DEFINE own == fields[k + 1]
               a == rest(k + 1)
               b == rest(k + 1 + 1)
    <2>1. k + 1 \in 1..(N - 1) /\ k + 1 \in 1..N /\ k + 1 + 1 \in 1..N
        BY <1>1
    <2>2. /\ own \in Seq(C) /\ b \in Seq(C)
          /\ Len(own) \in Nat /\ Len(a) \in Nat /\ Len(b) \in Nat /\ Len(str) \in Nat
        BY <1>1, <1>2, <2>1
    <2>3. a = Before(own, b)
        BY <1>3, <2>1
    <2>4. IsEnd(k + 1)
        BY <1>5
    <2>5. Len(a) <= Len(str) /\ \A i \in 1..Len(a) : str[(Len(str) - Len(a)) + i] = a[i]
        BY <2>4
    <2> HIDE DEF own, b, a
    <2>6. /\ Len(a) = Len(own) + 1 + Len(b)
          /\ \A i \in 1..Len(b) : a[Len(own) + 1 + i] = b[i]
        <3>1. IsBefore(a, own, b)
            BY <2>2, <2>3, FieldFirst
        <3> QED
            BY <3>1 DEF IsBefore
    <2>7. ASSUME NEW i \in 1..Len(b) PROVE str[(Len(str) - Len(b)) + i] = b[i]
        <3>1. Len(own) + 1 + i \in 1..Len(a)
            BY <2>2, <2>6
        <3>2. (Len(str) - Len(a)) + (Len(own) + 1 + i) = (Len(str) - Len(b)) + i
            BY <2>2, <2>6
        <3>3. str[(Len(str) - Len(a)) + (Len(own) + 1 + i)] = a[Len(own) + 1 + i]
            BY <2>5, <3>1
        <3> QED
            BY <3>2, <3>3, <2>6
    <2>8. Len(b) <= Len(str)
        BY <2>2, <2>5, <2>6
    <2> QED
        BY <2>1, <2>7, <2>8, <1>1 DEF b
<1>6. 0..(N - 1) \subseteq Ends
    <2>1. N - 1 \in Nat
        BY <1>1
    <2> HIDE DEF Ends
    <2> QED
        BY <2>1, <1>4, <1>5, InductionUpTo
<1>7. IsEnd(n)
    <2>1. n - 1 \in 0..(N - 1) /\ (n - 1) + 1 = n
        BY <1>1 DEF N
    <2>2. n - 1 \in Ends
        BY <2>1, <1>6
    <2>3. IsEnd((n - 1) + 1)
        BY <2>2
    <2> QED
        BY <2>1, <2>3
<1>8. /\ n \in 1..N /\ Len(rest(n)) \in Nat /\ Len(str) \in Nat
      /\ Start(fields, n) = Len(str) - Len(rest(n)) + 1
    BY <1>1, <1>2 DEF Start, str, rest, N
<1>9. /\ Start(fields, n) \in 1..(Len(str) + 1)
      /\ Start(fields, n) - 1 = Len(str) - Len(rest(n))
    BY <1>7, <1>8
<1> QED
    BY <1>7, <1>9 DEF str, rest

\* At the n-th field find stops behind it, and stringSplit pushes it, if it is kept.
LEMMA FieldIsFound ==
    ASSUME NEW C, Sep \in C, NEW fields \in Fields(C), NEW n \in 1..Len(fields),
           NEW keepEmpty \in BOOLEAN
    PROVE  LET str == Join(fields)
               start == Start(fields, n)
           IN /\ start \in 1..(Len(str) + 1)
              /\ Piece(str, keepEmpty, start) = KeptField(fields, keepEmpty, n)
              /\ n = Len(fields) => Find(str, start) = Len(str) + 1
              /\ n # Len(fields) => /\ Find(str, start) <= Len(str)
                                    /\ Find(str, start) + 1 = Start(fields, n + 1)
<1> DEFINE str == Join(fields)
           start == Start(fields, n)
           field == fields[n]
           rest == Joined(fields)[n]
           next == Joined(fields)[n + 1]
           end == start + Len(field)
<1>1. /\ fields \in Seq(Seq(C)) /\ Len(fields) \in Nat /\ 1 \in 1..Len(fields)
      /\ \A i \in 1..Len(field) : field[i] # Sep
    BY EmptySeq, LenProperties DEF Fields
<1>2. /\ str \in Seq(C) /\ Len(str) \in Nat
      /\ rest \in Seq(C) /\ Len(rest) \in Nat
      /\ field \in Seq(C) /\ Len(field) \in Nat
    <2>1. str \in Seq(C) /\ rest \in Seq(C)
        BY <1>1, JoinedIs DEF Join
    <2>2. field \in Seq(C)
        BY <1>1
    <2> HIDE DEF str, rest, field
    <2> QED
        BY <2>1, <2>2, LenProperties
<1>3. /\ start \in 1..(Len(str) + 1) /\ start = Len(str) - Len(rest) + 1
      /\ \A i \in 1..Len(rest) : str[(start - 1) + i] = rest[i]
    BY JoinedIsTheEnd DEF Start
<1>4. n = Len(fields) => rest = field
    BY <1>1, JoinedIs
<1>5. ASSUME n # Len(fields)
      PROVE  /\ n + 1 \in 1..Len(fields)
             /\ Len(next) \in Nat
             /\ IsBefore(rest, field, next)
    <2>1. n + 1 \in 1..Len(fields)
        BY <1>1, <1>5
    <2>2. next \in Seq(C)
        BY <1>1, <2>1, JoinedIs
    <2>3. rest = Before(field, next)
        BY <1>1, <1>5, JoinedIs DEF Before
    <2> HIDE DEF rest, field, next
    <2> QED
        BY <1>2, <2>1, <2>2, <2>3, FieldFirst, LenProperties
<1> HIDE DEF str, start, field, rest, next
<1>6. /\ Len(field) <= Len(rest) /\ \A i \in 1..Len(field) : rest[i] = field[i]
      /\ n = Len(fields) => Len(rest) = Len(field)
      /\ n # Len(fields) => /\ Len(next) \in Nat
                            /\ Len(rest) = Len(field) + 1 + Len(next)
                            /\ rest[Len(field) + 1] = Sep
    <2>1. CASE n = Len(fields)
        BY <1>2, <1>4, <2>1
    <2>2. CASE n # Len(fields)
        <3>1. Len(next) \in Nat /\ IsBefore(rest, field, next)
            BY <1>5, <2>2
        <3> QED
            BY <1>2, <2>2, <3>1 DEF IsBefore
    <2> QED
        BY <2>1, <2>2
<1>7. /\ end \in start..(Len(str) + 1)
      /\ n = Len(fields) => end = Len(str) + 1
      /\ n # Len(fields) => end <= Len(str) /\ str[end] = Sep
    <2>1. start \in Nat /\ end \in Nat /\ start <= end /\ end <= Len(str) + 1
        BY <1>2, <1>3, <1>6
    <2>2. ASSUME n # Len(fields) PROVE end <= Len(str) /\ str[end] = Sep
        <3>1. Len(field) + 1 \in 1..Len(rest)
            BY <2>2, <1>2, <1>6
        <3>2. (start - 1) + (Len(field) + 1) = end
            BY <1>2, <2>1
        <3> QED
            BY <2>2, <2>1, <3>1, <3>2, <1>2, <1>3, <1>6
    <2>3. ASSUME n = Len(fields) PROVE end = Len(str) + 1
        <3>1. Len(rest) = Len(field)
            BY <1>6, <2>3
        <3>2. start = Len(str) - Len(rest) + 1
            BY <1>3
        <3> QED
            BY <1>2, <3>1, <3>2
    <2> QED
        BY <1>2, <2>1, <2>2, <2>3
<1>8. ASSUME NEW i \in 1..Len(field) PROVE str[(start - 1) + i] = field[i]
    BY <1>2, <1>3, <1>6
<1>9. Find(str, start) = end
    <2>1. ASSUME NEW k \in start..(end - 1) PROVE str[k] # Sep
        <3>1. k - (start - 1) \in 1..Len(field) /\ (start - 1) + (k - (start - 1)) = k
            BY <1>2, <1>3
        <3>2. str[k] = field[k - (start - 1)]
            BY <3>1, <1>8
        <3> QED
            BY <3>1, <3>2, <1>1
    <2>2. IsFound(str, start, end)
        BY <1>7, <2>1 DEF IsFound
    <2> HIDE DEF end
    <2> QED
        BY <1>2, <1>3, <2>2, FindIs
<1>10. SubSeq(str, start, end - 1) = field
    <2>1. /\ start \in Int /\ end - 1 \in Int
          /\ \A k \in start..(end - 1) : str[k] \in C
        BY <1>2, <1>3, <1>7
    <2> DEFINE sub == SubSeq(str, start, end - 1)
    <2>2. /\ sub \in Seq(C)
          /\ Len(sub) = IF start <= end - 1 THEN (end - 1) - start + 1 ELSE 0
          /\ \A i \in 1..((end - 1) - start + 1) : sub[i] = str[start + i - 1]
        <3> HIDE DEF end
        <3> QED
            BY <2>1, SubSeqProperties
    <2> HIDE DEF sub
    <2>3. Len(sub) = Len(field) /\ (end - 1) - start + 1 = Len(field)
        BY <1>2, <1>3, <2>2
    <2>4. ASSUME NEW i \in 1..Len(field) PROVE sub[i] = field[i]
        <3>1. start + i - 1 = (start - 1) + i
            BY <1>3
        <3> QED
            BY <2>2, <2>3, <3>1, <1>8
    <2>5. sub = field
        BY <1>2, <2>2, <2>3, <2>4, SeqEqual
    <2> QED
        BY <2>5 DEF sub
<1>11. start < end <=> field # <<>>
    <2>1. Len(field) = 0 <=> field = <<>>
        BY <1>2, EmptySeq
    <2> QED
        BY <1>2, <1>3, <2>1
<1>12. Piece(str, keepEmpty, start) = KeptField(fields, keepEmpty, n)
    BY <1>9, <1>10, <1>11 DEF Piece, KeptField, field
<1>13. ASSUME n # Len(fields) PROVE end + 1 = Start(fields, n + 1)
    <2>1. Start(fields, n + 1) = Len(str) - Len(next) + 1
        BY DEF Start, str, next
    <2>2. Len(next) \in Nat /\ Len(rest) = Len(field) + 1 + Len(next)
        BY <1>6, <1>13
    <2>3. start = Len(str) - Len(rest) + 1
        BY <1>3
    <2> QED
        BY <1>2, <2>1, <2>2, <2>3
<1> QED
    BY <1>3, <1>7, <1>9, <1>12, <1>13 DEF str, start

\* What is pushed from the n-th field on is what is kept of the fields from there on.
LEMMA PushesWhatIsKept ==
    ASSUME NEW C, Sep \in C, NEW fields \in Fields(C), NEW keepEmpty \in BOOLEAN
    PROVE  stringSplit(Join(fields), keepEmpty) = Kept(fields, keepEmpty)[1]
<1> DEFINE str == Join(fields)
           N == Len(fields)
           pushed(n) == Pieces(str, keepEmpty)[Start(fields, n)]
           kept(n) == Kept(fields, keepEmpty)[n]
           Same == {m \in 0..(N - 1) : pushed(N - m) = kept(N - m)}
<1>1. fields \in Seq(Seq(C)) /\ N \in Nat /\ N >= 1
    BY EmptySeq, LenProperties DEF Fields
<1>2. str \in Seq(C) /\ Len(str) \in Nat
    <2>1. str \in Seq(C)
        <3>1. 1 \in 1..Len(fields)
            BY <1>1
        <3> QED
            BY <1>1, <3>1, JoinedIs DEF Join
    <2> HIDE DEF str
    <2> QED
        BY <2>1, LenProperties
<1>3. ASSUME NEW n \in 1..N
      PROVE  pushed(n) = IF n = N THEN KeptField(fields, keepEmpty, n)
                         ELSE KeptField(fields, keepEmpty, n) \o pushed(n + 1)
    <2> DEFINE start == Start(fields, n)
    <2>1. /\ start \in 1..(Len(str) + 1)
          /\ Piece(str, keepEmpty, start) = KeptField(fields, keepEmpty, n)
          /\ n = N => Find(str, start) = Len(str) + 1
          /\ n # N => /\ Find(str, start) <= Len(str)
                      /\ Find(str, start) + 1 = Start(fields, n + 1)
        BY FieldIsFound
    <2> HIDE DEF str, start, N
    <2>2. pushed(n) =
            IF Find(str, start) > Len(str) THEN Piece(str, keepEmpty, start)
            ELSE Piece(str, keepEmpty, start) \o Pieces(str, keepEmpty)[Find(str, start) + 1]
        BY <1>2, <2>1, PiecesAre DEF start
    <2>3. CASE n = N
        <3>1. Find(str, start) > Len(str)
            BY <1>2, <2>1, <2>3
        <3> QED
            BY <2>1, <2>2, <2>3, <3>1
    <2>4. CASE n # N
        <3>1. ~(Find(str, start) > Len(str))
            <4>1. Find(str, start) \in Nat
                BY <1>2, <2>1, FindIs DEF IsFound
            <4> QED
                BY <1>2, <2>1, <2>4, <4>1
        <3> QED
            BY <2>1, <2>2, <2>4, <3>1
    <2> QED
        BY <2>3, <2>4
<1>4. ASSUME NEW n \in 1..N
      PROVE  kept(n) = IF n = N THEN KeptField(fields, keepEmpty, n)
                       ELSE KeptField(fields, keepEmpty, n) \o kept(n + 1)
    BY <1>1, KeptAre
<1> HIDE DEF pushed, kept, str, N
<1>5. 0 \in Same
    <2>1. N \in 1..N /\ N - 0 = N /\ 0 \in 0..(N - 1)
        BY <1>1
    <2> QED
        BY <1>3, <1>4, <2>1
<1>6. ASSUME NEW m \in 0..((N - 1) - 1), m \in Same
      PROVE  m + 1 \in Same
    <2>1. /\ N - (m + 1) \in 1..N /\ N - (m + 1) # N
          /\ (N - (m + 1)) + 1 = N - m /\ m + 1 \in 0..(N - 1)
        BY <1>1
    <2>2. pushed(N - m) = kept(N - m)
        BY <1>6
    <2>3. pushed(N - (m + 1)) = kept(N - (m + 1))
        BY <1>3, <1>4, <2>1, <2>2
    <2> QED
        BY <2>1, <2>3
<1>7. 0..(N - 1) \subseteq Same
    <2>1. N - 1 \in Nat
        BY <1>1
    <2> HIDE DEF Same
    <2> QED
        BY <2>1, <1>5, <1>6, InductionUpTo
<1>8. pushed(1) = kept(1)
    <2>1. N - 1 \in 0..(N - 1) /\ N - (N - 1) = 1
        BY <1>1
    <2>2. N - 1 \in Same
        BY <1>7, <2>1
    <2>3. pushed(N - (N - 1)) = kept(N - (N - 1))
        BY <2>2
    <2> QED
        BY <2>1, <2>3
<1>9. Start(fields, 1) = 1
    <2>1. Start(fields, 1) = Len(str) - Len(str) + 1
        BY DEF Start, Join, str
    <2> QED
        BY <1>2, <2>1
<1> QED
    BY <1>8, <1>9 DEF stringSplit, pushed, kept, str

\* With keepEmpty everything is kept.
LEMMA EverythingIsKept ==
    ASSUME NEW C, NEW fields \in Seq(Seq(C)), fields # <<>>
    PROVE  Kept(fields, TRUE)[1] = fields
<1> DEFINE N == Len(fields)
           kept(n) == Kept(fields, TRUE)[n]
           All == {m \in 0..(N - 1) : kept(N - m) = SubSeq(fields, N - m, N)}
<1>1. N \in Nat /\ N >= 1
    BY EmptySeq, LenProperties
<1>2. ASSUME NEW n \in 1..N
      PROVE  kept(n) = IF n = N THEN <<fields[n]>> ELSE <<fields[n]>> \o kept(n + 1)
    <2>1. KeptField(fields, TRUE, n) = <<fields[n]>>
        BY DEF KeptField
    <2>2. TRUE \in BOOLEAN
        OBVIOUS
    <2>3. kept(n) = IF n = N THEN KeptField(fields, TRUE, n)
                    ELSE KeptField(fields, TRUE, n) \o kept(n + 1)
        BY <2>2, KeptAre
    <2> QED
        BY <2>1, <2>3
<1>3. ASSUME NEW n \in 1..N
      PROVE  SubSeq(fields, n, N) = <<fields[n]>> \o SubSeq(fields, n + 1, N)
    BY <1>1, SubSeqRecursiveFirst
<1> HIDE DEF kept, N
<1>4. 0 \in All
    <2>1. N \in 1..N /\ N - 0 = N /\ 0 \in 0..(N - 1) /\ N \in Int /\ N + 1 \in Int /\ N < N + 1
        BY <1>1
    <2>2. SubSeq(fields, N + 1, N) = <<>>
        BY <2>1, SubSeqEmpty
    <2>3. fields[N] \in Seq(C)
        BY <2>1 DEF N
    <2>4. SubSeq(fields, N, N) = <<fields[N]>>
        <3>1. <<fields[N]>> \in Seq(Seq(C))
            BY <2>3
        <3>2. <<fields[N]>> \o <<>> = <<fields[N]>>
            BY <3>1, ConcatEmptySeq
        <3> QED
            BY <2>1, <2>2, <1>3, <3>2
    <2> QED
        BY <1>2, <2>1, <2>4
<1>5. ASSUME NEW m \in 0..((N - 1) - 1), m \in All
      PROVE  m + 1 \in All
    <2>1. /\ N - (m + 1) \in 1..N /\ N - (m + 1) # N
          /\ (N - (m + 1)) + 1 = N - m /\ m + 1 \in 0..(N - 1)
        BY <1>1
    <2>2. kept(N - m) = SubSeq(fields, N - m, N)
        BY <1>5
    <2>3. kept(N - (m + 1)) = SubSeq(fields, N - (m + 1), N)
        BY <1>2, <1>3, <2>1, <2>2
    <2> QED
        BY <2>1, <2>3
<1>6. 0..(N - 1) \subseteq All
    <2>1. N - 1 \in Nat
        BY <1>1
    <2> HIDE DEF All
    <2> QED
        BY <2>1, <1>4, <1>5, InductionUpTo
<1>7. kept(1) = SubSeq(fields, 1, N)
    <2>1. N - 1 \in 0..(N - 1) /\ N - (N - 1) = 1
        BY <1>1
    <2>2. N - 1 \in All
        BY <1>6, <2>1
    <2>3. kept(N - (N - 1)) = SubSeq(fields, N - (N - 1), N)
        BY <2>2
    <2> QED
        BY <2>1, <2>3
<1> QED
    BY <1>7, SubSeqFull DEF kept, N

\* Splitting a string at its separators undoes joining, for any fields: with keepEmpty all of
\* them come back, without it, as in the connection string, those that are not empty
\* (Util.cpp:13-38).
THEOREM SplitUndoesJoin ==
    ASSUME NEW C, Sep \in C, NEW fields \in Fields(C)
    PROVE  SplitsAsJoined(fields)
<1>1. fields \in Seq(Seq(C)) /\ fields # <<>>
    BY DEF Fields
<1> QED
    BY <1>1, PushesWhatIsKept, EverythingIsKept DEF SplitsAsJoined, NonEmpty

------------------------------------------------------------------------------
\* From the n-th field on m are kept, and they are the next m.
Follow(fields, n, m) ==
    LET kept == Kept(fields, FALSE)[n] IN
    Len(kept) = m /\ \A i \in 1..m : kept[i] = fields[(n - 1) + i]

\* An empty field is left out, any other one comes first.
LEMMA KeptStep ==
    ASSUME NEW C, NEW fields \in Seq(Seq(C)), NEW n \in 1..Len(fields)
    PROVE  /\ Len(Kept(fields, FALSE)[n]) =
                 (IF fields[n] = <<>> THEN 0 ELSE 1) +
                 (IF n = Len(fields) THEN 0 ELSE Len(Kept(fields, FALSE)[n + 1]))
           /\ Len(Kept(fields, FALSE)[n]) \in Nat
           /\ fields[n] # <<>> /\ n = Len(fields) => Follow(fields, n, 1)
           /\ \A m \in Nat : fields[n] # <<>> /\ n # Len(fields) /\ Follow(fields, n + 1, m)
                                => Follow(fields, n, m + 1)
<1> DEFINE N == Len(fields)
           kept(k) == Kept(fields, FALSE)[k]
           own == KeptField(fields, FALSE, n)
           rest == IF n = N THEN <<>> ELSE kept(n + 1)
<1>1. N \in Nat /\ FALSE \in BOOLEAN
    BY LenProperties
<1>2. own \in Seq(Seq(C)) /\ kept(n) \in Seq(Seq(C))
    BY <1>1, KeptAre
<1>3. ASSUME n # N PROVE kept(n + 1) \in Seq(Seq(C))
    <2>1. n + 1 \in 1..Len(fields)
        BY <1>1, <1>3
    <2> QED
        BY <1>1, <2>1, KeptAre
<1>4. rest \in Seq(Seq(C)) /\ Len(rest) \in Nat
    <2>1. rest \in Seq(Seq(C))
        BY <1>3, EmptySeq
    <2> HIDE DEF rest
    <2> QED
        BY <2>1, LenProperties
<1>5. kept(n) = own \o rest
    <2>1. kept(n) = IF n = N THEN own ELSE own \o kept(n + 1)
        BY <1>1, KeptAre
    <2> HIDE DEF own, kept, N
    <2>2. own \o <<>> = own
        BY <1>2, ConcatEmptySeq
    <2> QED
        BY <2>1, <2>2
<1>6. /\ fields[n] = <<>> => own = <<>>
      /\ fields[n] # <<>> => Len(own) = 1 /\ own[1] = fields[n]
    BY DEF KeptField
<1>7. Len(own) = IF fields[n] = <<>> THEN 0 ELSE 1
    BY <1>6
<1> DEFINE k == kept(n)
<1>8. k = own \o rest /\ k \in Seq(Seq(C))
    BY <1>2, <1>5
<1> HIDE DEF own, rest, k
<1>9. /\ Len(k) = Len(own) + Len(rest)
      /\ \A i \in 1..(Len(own) + Len(rest)) : k[i] =
            IF i <= Len(own) THEN own[i] ELSE rest[i - Len(own)]
    BY <1>2, <1>4, <1>8, ConcatProperties
<1>10. ASSUME fields[n] # <<>>
       PROVE  /\ k[1] = fields[n]
              /\ \A i \in 1..Len(rest) : k[i + 1] = rest[i]
    <2>1. Len(own) = 1 /\ own[1] = fields[n]
        BY <1>6, <1>10
    <2>2. k[1] = fields[n]
        BY <1>4, <1>9, <2>1
    <2>3. ASSUME NEW i \in 1..Len(rest) PROVE k[i + 1] = rest[i]
        BY <1>4, <1>9, <2>1
    <2> QED
        BY <2>2, <2>3
<1>11. fields[n] # <<>> /\ n = N => Follow(fields, n, 1)
    <2> SUFFICES ASSUME fields[n] # <<>>, n = N PROVE Follow(fields, n, 1)
        OBVIOUS
    <2>1. Len(rest) = 0
        BY DEF rest
    <2>2. Len(k) = 1 /\ k[1] = fields[n]
        BY <1>7, <1>9, <1>10, <2>1
    <2>3. \A i \in 1..1 : k[i] = fields[(n - 1) + i]
        BY <2>2
    <2> QED
        BY <2>2, <2>3 DEF Follow, k
<1>12. ASSUME NEW m \in Nat, fields[n] # <<>>, n # N, Follow(fields, n + 1, m)
       PROVE  Follow(fields, n, m + 1)
    <2>1. rest = kept(n + 1)
        BY <1>12 DEF rest
    <2>2. Len(rest) = m /\ \A i \in 1..m : rest[i] = fields[n + i]
        <3>1. Len(rest) = m /\ \A i \in 1..m : rest[i] = fields[((n + 1) - 1) + i]
            BY <1>12, <2>1 DEF Follow
        <3>2. (n + 1) - 1 = n
            BY <1>1
        <3> QED
            BY <3>1, <3>2
    <2>3. Len(k) = m + 1
        BY <1>7, <1>9, <1>12, <2>2
    <2>4. ASSUME NEW i \in 1..(m + 1) PROVE k[i] = fields[(n - 1) + i]
        <3>1. CASE i = 1
            BY <3>1, <1>1, <1>10, <1>12
        <3>2. CASE i # 1
            <4>1. i - 1 \in 1..m /\ (i - 1) + 1 = i /\ n + (i - 1) = (n - 1) + i
                BY <3>2, <1>1
            <4>2. k[(i - 1) + 1] = rest[i - 1]
                BY <4>1, <1>10, <1>12, <2>2
            <4> QED
                BY <4>1, <4>2, <2>2
        <3> QED
            BY <3>1, <3>2
    <2> QED
        BY <2>3, <2>4 DEF Follow, k
<1>13. Len(k) = Len(own) + Len(rest) /\ Len(k) \in Nat
    BY <1>4, <1>7, <1>9
<1>14. Len(rest) = IF n = N THEN 0 ELSE Len(kept(n + 1))
    BY DEF rest
<1> QED
    BY <1>7, <1>11, <1>12, <1>13, <1>14 DEF k

\* Five or six fields of which the first five are not empty are all kept, up to an empty sixth.
LEMMA CompleteIsKept ==
    ASSUME NEW C, NEW fields \in Seq(Seq(C)), Len(fields) \in {5, 6},
           \A k \in 1..5 : fields[k] # <<>>
    PROVE  \/ Follow(fields, 1, Len(fields))
           \/ Len(fields) = 6 /\ fields[6] = <<>> /\ Follow(fields, 1, 5)
<1>0. Len(fields) = 5 \/ Len(fields) = 6
    OBVIOUS
<1>1. ASSUME NEW n \in 1..5, n # Len(fields), NEW m \in Nat, Follow(fields, n + 1, m)
      PROVE  Follow(fields, n, m + 1)
    <2>1. n \in 1..Len(fields)
        OBVIOUS
    <2>2. fields[n] # <<>>
        OBVIOUS
    <2> QED
        BY <1>1, <2>1, <2>2, KeptStep
<1>2. ASSUME NEW m \in Nat, Follow(fields, 5, m)
      PROVE  Follow(fields, 1, m + 4)
    <2>1. Follow(fields, 4, m + 1)
        <3>1. 4 # 5 /\ 4 # 6
            OBVIOUS
        <3>2. 4 \in 1..5 /\ 4 + 1 = 5
            OBVIOUS
        <3>3. 4 # Len(fields)
            BY <3>1, <1>0, Zenon
        <3> QED
            BY <1>1, <1>2, <3>2, <3>3
    <2>2. Follow(fields, 3, (m + 1) + 1)
        <3>1. 3 # 5 /\ 3 # 6
            OBVIOUS
        <3>2. 3 \in 1..5 /\ 3 + 1 = 4 /\ m + 1 \in Nat
            OBVIOUS
        <3>3. 3 # Len(fields)
            BY <3>1, <1>0, Zenon
        <3> QED
            BY <1>1, <2>1, <3>2, <3>3
    <2>3. Follow(fields, 2, ((m + 1) + 1) + 1)
        <3>1. 2 # 5 /\ 2 # 6
            OBVIOUS
        <3>2. 2 \in 1..5 /\ 2 + 1 = 3 /\ (m + 1) + 1 \in Nat
            OBVIOUS
        <3>3. 2 # Len(fields)
            BY <3>1, <1>0, Zenon
        <3> QED
            BY <1>1, <2>2, <3>2, <3>3
    <2>4. Follow(fields, 1, (((m + 1) + 1) + 1) + 1)
        <3>1. 1 # 5 /\ 1 # 6
            OBVIOUS
        <3>2. 1 \in 1..5 /\ 1 + 1 = 2 /\ ((m + 1) + 1) + 1 \in Nat
            OBVIOUS
        <3>3. 1 # Len(fields)
            BY <3>1, <1>0, Zenon
        <3> QED
            BY <1>1, <2>3, <3>2, <3>3
    <2>5. (((m + 1) + 1) + 1) + 1 = m + 4
        OBVIOUS
    <2> QED
        BY <2>4, <2>5
<1>3. CASE Len(fields) = 5
    <2>1. Follow(fields, 5, 1)
        <3>1. 5 \in 1..Len(fields) /\ 5 = Len(fields) /\ fields[5] # <<>>
            BY <1>3
        <3> QED
            BY <3>1, KeptStep
    <2> QED
        BY <1>2, <1>3, <2>1
<1>4. CASE Len(fields) = 6 /\ fields[6] # <<>>
    <2>1. Follow(fields, 6, 1)
        <3>1. 6 \in 1..Len(fields) /\ 6 = Len(fields) /\ fields[6] # <<>>
            BY <1>4
        <3> QED
            BY <3>1, KeptStep
    <2>2. Follow(fields, 5, 2)
        <3>1. 5 \in 1..5 /\ 5 # Len(fields) /\ 5 + 1 = 6 /\ 1 + 1 = 2 /\ 1 \in Nat
            BY <1>4
        <3> QED
            BY <1>1, <2>1, <3>1
    <2> QED
        BY <1>2, <1>4, <2>2
<1>5. CASE Len(fields) = 6 /\ fields[6] = <<>>
    <2>1. Len(Kept(fields, FALSE)[6]) = 0
        <3>1. 6 \in 1..Len(fields) /\ 6 = Len(fields) /\ fields[6] = <<>>
            BY <1>5
        <3>2. Len(Kept(fields, FALSE)[6]) =
                (IF fields[6] = <<>> THEN 0 ELSE 1) +
                (IF 6 = Len(fields) THEN 0 ELSE Len(Kept(fields, FALSE)[6 + 1]))
            BY <3>1, KeptStep
        <3>3. /\ (IF fields[6] = <<>> THEN 0 ELSE 1) = 0
              /\ (IF 6 = Len(fields) THEN 0 ELSE Len(Kept(fields, FALSE)[6 + 1])) = 0
            BY <3>1
        <3>4. 0 + 0 = 0
            OBVIOUS
        <3> QED
            BY <3>2, <3>3, <3>4, Zenon
    <2>2. Follow(fields, 6, 0)
        <3> DEFINE kept == Kept(fields, FALSE)[6]
        <3>1. Len(kept) = 0
            BY <2>1
        <3> HIDE DEF kept
        <3>2. Len(kept) = 0 /\ \A i \in 1..0 : kept[i] = fields[(6 - 1) + i]
            BY <3>1
        <3> QED
            BY <3>2 DEF Follow, kept
    <2>3. Follow(fields, 5, 1)
        <3>1. 5 \in 1..5 /\ 5 # Len(fields) /\ 5 + 1 = 6 /\ 0 + 1 = 1 /\ 0 \in Nat
            BY <1>5
        <3> QED
            BY <1>1, <2>2, <3>1
    <2> QED
        BY <1>2, <1>5, <2>3
<1> QED
    BY <1>3, <1>4, <1>5

\* If one of the first five is empty, at least one field is missing, and two if the sixth is, too.
LEMMA IncompleteIsShort ==
    ASSUME NEW C, NEW fields \in Seq(Seq(C)), Len(fields) \in {5, 6},
           NEW j \in 1..5, fields[j] = <<>>
    PROVE  LET length == Len(Kept(fields, FALSE)[1]) IN
           /\ length \in 0..(Len(fields) - 1)
           /\ Len(fields) = 6 /\ fields[6] = <<>> => length <= 4
<1> DEFINE length(n) == Len(Kept(fields, FALSE)[n])
           own(n) == IF fields[n] = <<>> THEN 0 ELSE 1
<1>1. ASSUME NEW n \in 1..Len(fields)
      PROVE  /\ length(n) \in Nat
             /\ length(n) = own(n) + (IF n = Len(fields) THEN 0 ELSE length(n + 1))
    BY KeptStep
<1>2. \A n \in 1..6 : own(n) \in 0..1
    OBVIOUS
<1>3. own(j) = 0
    OBVIOUS
<1>4. fields[6] = <<>> => own(6) = 0
    OBVIOUS
<1> HIDE DEF length, own
<1>5. /\ length(1) = own(1) + length(2) /\ length(2) = own(2) + length(3)
      /\ length(3) = own(3) + length(4) /\ length(4) = own(4) + length(5)
    <2>1. ASSUME NEW n \in 1..4 PROVE length(n) = own(n) + length(n + 1)
        <3>1. CASE Len(fields) = 5
            BY <1>1, <3>1
        <3>2. CASE Len(fields) = 6
            BY <1>1, <3>2
        <3> QED
            BY <3>1, <3>2
    <2>2. 1 + 1 = 2 /\ 2 + 1 = 3 /\ 3 + 1 = 4 /\ 4 + 1 = 5
        OBVIOUS
    <2>3. 1 \in 1..4 /\ 2 \in 1..4 /\ 3 \in 1..4 /\ 4 \in 1..4
        OBVIOUS
    <2> QED
        BY <2>1, <2>2, <2>3
<1>6. length(5) = own(5) + (IF Len(fields) = 5 THEN 0 ELSE own(6))
    <2>1. CASE Len(fields) = 5
        BY <2>1, <1>1
    <2>2. CASE Len(fields) = 6
        <3>1. length(5) = own(5) + length(6) /\ length(6) = own(6) + 0
            BY <1>1, <2>2
        <3> QED
            BY <2>2, <3>1, <1>2
    <2> QED
        BY <2>1, <2>2
<1>7. own(1) + own(2) + own(3) + own(4) + own(5) \in 0..4
    BY <1>2, <1>3
<1>8. length(1) = own(1) + own(2) + own(3) + own(4) + own(5) + (IF Len(fields) = 5 THEN 0 ELSE own(6))
    BY <1>2, <1>5, <1>6
<1>9. own(6) \in 0..1
    BY <1>2
<1>10. length(1) \in 0..(Len(fields) - 1) /\ (Len(fields) = 6 /\ fields[6] = <<>> => length(1) <= 4)
    <2> DEFINE sum == own(1) + own(2) + own(3) + own(4) + own(5)
    <2>1. sum \in 0..4
        BY <1>7
    <2>2. length(1) = sum + (IF Len(fields) = 5 THEN 0 ELSE own(6))
        BY <1>8
    <2> HIDE DEF sum
    <2>3. CASE Len(fields) = 5
        BY <2>1, <2>2, <2>3
    <2>4. CASE Len(fields) = 6
        BY <1>4, <1>9, <2>1, <2>2, <2>4
    <2> QED
        BY <2>3, <2>4
<1> QED
    BY <1>10 DEF length

\* Five or six fields, the first not empty, are the members of MysqlConnectionInfo if and only
\* if none of the first five is empty (MySQLConnection.cpp:22-42).
THEOREM MembersReached ==
    ASSUME NEW C, Sep \in C, NEW fields \in Fields(C)
    PROVE  MembersAsWritten(fields)
<1> DEFINE info == MysqlConnectionInfo(Join(fields))
           written == [k \in 1..6 |-> IF k <= Len(fields) THEN fields[k] ELSE <<>>]
           complete == \A k \in 1..5 : fields[k] # <<>>
           result == Kept(fields, FALSE)[1]
           taken == CASE Len(result) < 5 -> 0
                      [] Len(result) = 6 -> 6
                      [] OTHER -> 5
<1> SUFFICES ASSUME Len(fields) \in {5, 6}, fields[1] # <<>>
             PROVE  complete <=> info = written
    BY DEF MembersAsWritten
<1>1. fields \in Seq(Seq(C))
    BY DEF Fields
<1>2. info = [k \in 1..6 |-> IF k <= taken THEN result[k] ELSE <<>>]
    BY PushesWhatIsKept DEF MysqlConnectionInfo
<1>3. ASSUME NEW n \in {5, 6}, Len(result) = n PROVE taken = n
    <2> HIDE DEF result
    <2> QED
        BY <1>3
<1>4. ASSUME NEW n \in 0..4, Len(result) = n PROVE taken = 0
    <2>1. n < 5 /\ n # 6
        OBVIOUS
    <2> HIDE DEF result
    <2> QED
        BY <2>1, <1>4
<1>5. ASSUME NEW n \in {5, 6}, Follow(fields, 1, n)
      PROVE  info = [k \in 1..6 |-> IF k <= n THEN fields[k] ELSE <<>>]
    <2>1. Len(result) = n /\ \A k \in 1..n : result[k] = fields[(1 - 1) + k]
        BY <1>5 DEF Follow
    <2>2. taken = n
        BY <1>3, <2>1
    <2> HIDE DEF result, taken, info
    <2>3. ASSUME NEW k \in 1..n PROVE result[k] = fields[k]
        BY <2>1
    <2> QED
        BY <1>2, <2>2, <2>3
<1>6. ASSUME complete PROVE info = written
    <2>1. CASE Follow(fields, 1, Len(fields))
        BY <1>5, <2>1
    <2>2. CASE Len(fields) = 6 /\ fields[6] = <<>> /\ Follow(fields, 1, 5)
        <3>1. info = [k \in 1..6 |-> IF k <= 5 THEN fields[k] ELSE <<>>]
            BY <1>5, <2>2
        <3> HIDE DEF info
        <3>2. ASSUME NEW k \in 1..6
              PROVE  (IF k <= 5 THEN fields[k] ELSE <<>>) =
                     (IF k <= Len(fields) THEN fields[k] ELSE <<>>)
            BY <2>2
        <3> QED
            BY <3>1, <3>2
    <2> QED
        BY <1>1, <1>6, <2>1, <2>2, CompleteIsKept
<1>7. ASSUME NEW j \in 1..5, fields[j] = <<>> PROVE info # written
    <2>1. /\ Len(result) \in 0..(Len(fields) - 1)
          /\ Len(fields) = 6 /\ fields[6] = <<>> => Len(result) <= 4
        BY <1>1, <1>7, IncompleteIsShort
    <2>2. CASE Len(result) \in 0..4
        <3>1. taken = 0
            <4> HIDE DEF taken, result
            <4> QED
                BY <1>4, <2>2
        <3> HIDE DEF taken, result, info
        <3>2. info[1] = <<>> /\ written[1] = fields[1]
            BY <1>2, <3>1
        <3> QED
            BY <3>2
    <2>3. CASE Len(result) = 5
        <3>1. taken = 5
            BY <1>3, <2>3
        <3> HIDE DEF taken, result, info
        <3>2. Len(fields) = 6 /\ fields[6] # <<>>
            BY <2>1, <2>3
        <3>3. info[6] = <<>> /\ written[6] = fields[6]
            BY <1>2, <3>1, <3>2
        <3> QED
            BY <3>2, <3>3
    <2>4. Len(result) \in 0..4 \/ Len(result) = 5
        <3> HIDE DEF result
        <3>1. CASE Len(fields) = 5
            BY <2>1, <3>1
        <3>2. CASE Len(fields) = 6
            BY <2>1, <3>2
        <3> QED
            BY <3>1, <3>2
    <2> HIDE DEF result, info, written
    <2> QED
        BY <2>2, <2>3, <2>4
<1> QED
    BY <1>6, <1>7
==============================================================================
