----------------------- MODULE PreparedStatementsProofs -----------------------
(***************************************************************************)
(* Proofs that the safety properties of PreparedStatements hold for any    *)
(* indices, parameters and values and any number of calls and sessions.    *)
(***************************************************************************)
EXTENDS PreparedStatements, TLAPS

USE DataAssumption, BoundsAssumption

Counted(param) == [buffer |-> One(param.buffer), length |-> One(param.length)]

\* What is live is what the bindings refer to.
LiveInv ==
    \A i \in Indices, p \in Parameters : live[i][p] = Counted(bind_[i][p])

\* Only the statement being run has something bound: what the base holds, or, between
\* two attempts, nothing if the statement has been prepared anew.
BindInv ==
    /\ at = "idle" => \A i \in Indices, p \in Parameters : bind_[i][p] = Cleared
    /\ at \in {"bound", "reprepare"} =>
          \A i \in Indices \ {run.index}, p \in Parameters : bind_[i][p] = Cleared
    /\ at = "bound" => \A p \in Parameters : bind_[run.index][p] = SetParameter(base[p])
    /\ at = "reprepare" =>
          \A p \in Parameters : bind_[run.index][p] \in {Cleared, SetParameter(base[p])}

\* The first n of some calls leave a statement at index i, or mention it.
Prepared(s, i, n) ==
    \E k \in 1..n : /\ s[k].index = i /\ s[k].matching
                    /\ \A j \in (k + 1)..n : s[j].index # i
Mentioned(s, i, n) == \E k \in 1..n : s[k].index = i

\* The table is what the calls have made of it: all of them, and after a reconnection
\* those that have been repeated, in this session.
TableInv ==
    /\ Len(calls) <= MaxCalls
    /\ at \in {"bound", "reprepare"} => Prepared(calls, run.index, Len(calls))
    /\ at = "bound" => run.stmt = table[run.index]
    /\ at \in {"idle", "bound"} => \A i \in Indices :
          /\ table[i] # 0 <=> Prepared(calls, i, Len(calls))
          /\ reprepares => table[i] \in {0, session}
    /\ at = "reprepare" =>
          /\ next <= Len(calls) + 1
          /\ ~reprepares => next = Len(calls) + 1
    /\ at = "reprepare" => \A i \in Indices :
          IF reprepares /\ Mentioned(calls, i, next - 1)
          THEN (table[i] # 0 <=> Prepared(calls, i, next - 1)) /\ table[i] \in {0, session}
          ELSE table[i] # 0 <=> Prepared(calls, i, Len(calls))

\* Every index of a call that did not overrun the table is inside it.
SizeInv ==
    /\ at # "overrun" => \A k \in 1..Len(calls) : calls[k].index < size
    /\ GaplessIsSafe

IInv == TypeOK /\ LiveInv /\ BindInv /\ TableInv /\ SizeInv

------------------------------------------------------------------------------
\* The functions on one parameter keep its count.

LEMMA Kinds ==
    ASSUME NEW d \in Data
    PROVE  \/ /\ d = Null /\ d \notin Numbers
              /\ SetParameter(d) = [data |-> d, buffer |-> FALSE, length |-> FALSE]
           \/ /\ d # Null /\ d \in Numbers /\ d \notin Texts
              /\ SetParameter(d) = [data |-> d, buffer |-> TRUE, length |-> FALSE]
           \/ /\ d # Null /\ d \in Texts /\ d \notin Numbers
              /\ SetParameter(d) = [data |-> d, buffer |-> TRUE, length |-> TRUE]
  <1>1. CASE d = Null
    <2>1. d \notin Numbers /\ (d # Null) = FALSE /\ (d \in Texts) = FALSE
      BY <1>1
    <2> QED BY <1>1, <2>1 DEF SetParameter
  <1>2. CASE d \in Numbers
    <2>1. d \notin Texts /\ (d # Null) = TRUE /\ (d \in Texts) = FALSE
      BY <1>2
    <2> QED BY <1>2, <2>1 DEF SetParameter
  <1>3. CASE d \in Texts
    <2>1. d \notin Numbers /\ (d # Null) = TRUE /\ (d \in Texts) = TRUE
      BY <1>3
    <2> QED BY <1>3, <2>1 DEF SetParameter
  <1> QED BY <1>1, <1>2, <1>3 DEF Data

LEMMA SetCounts ==
    ASSUME NEW d \in Data, NEW param \in {Cleared, SetParameter(d)}
    PROVE  LiveAfterSet(Counted(param), param, d) = Counted(SetParameter(d))
  <1>1. \/ param.buffer = FALSE /\ param.length = FALSE
        \/ param = SetParameter(d)
    BY DEF Cleared
  <1>2. CASE d = Null /\ SetParameter(d) = [data |-> d, buffer |-> FALSE, length |-> FALSE]
    BY <1>1, <1>2 DEF LiveAfterSet, Counted, One
  <1>3. CASE /\ d # Null /\ d \in Numbers /\ d \notin Texts
             /\ SetParameter(d) = [data |-> d, buffer |-> TRUE, length |-> FALSE]
    BY <1>1, <1>3 DEF LiveAfterSet, Counted, One
  <1>4. CASE /\ d # Null /\ d \in Texts /\ d \notin Numbers
             /\ SetParameter(d) = [data |-> d, buffer |-> TRUE, length |-> TRUE]
    BY <1>1, <1>4 DEF LiveAfterSet, Counted, One
  <1> QED BY <1>2, <1>3, <1>4, Kinds

LEMMA ClearCounts ==
    ASSUME NEW param
    PROVE  LiveAfterClear(Counted(param), param) = Counted(Cleared)
  BY DEF LiveAfterClear, Counted, Cleared, One

\* Binding and clearing, for one statement.
LEMMA BindKeeps ==
    ASSUME TypeOK, LiveInv, NEW i \in Indices, BindParameters(i),
           \A p \in Parameters : bind_[i][p] \in {Cleared, SetParameter(base[p])}
    PROVE  /\ LiveInv'
           /\ bind_' \in [Indices -> [Parameters ->
                    [data : Data \cup {NoData}, buffer : BOOLEAN, length : BOOLEAN]]]
           /\ live' \in [Indices -> [Parameters -> [buffer : Int, length : Int]]]
           /\ \A p \in Parameters : bind_'[i][p] = SetParameter(base[p])
           /\ \A j \in Indices \ {i} : bind_'[j] = bind_[j]
  <1>1. /\ bind_' = [bind_ EXCEPT ![i] = [p \in Parameters |-> SetParameter(base[p])]]
        /\ live' = [live EXCEPT ![i] =
              [p \in Parameters |-> LiveAfterSet(live[i][p], bind_[i][p], base[p])]]
    BY DEF BindParameters
  <1>2. \A j \in Indices \ {i} : bind_'[j] = bind_[j] /\ live'[j] = live[j]
    BY <1>1 DEF TypeOK
  <1>3. \A p \in Parameters : bind_'[i][p] = SetParameter(base[p])
    BY <1>1 DEF TypeOK
  <1>4. \A p \in Parameters : live'[i][p] = Counted(bind_'[i][p])
    <2> TAKE p \in Parameters
    <2>1. live'[i][p] = LiveAfterSet(Counted(bind_[i][p]), bind_[i][p], base[p])
      BY <1>1 DEF TypeOK, LiveInv
    <2>2. base[p] \in Data
      BY DEF TypeOK
    <2> QED BY <2>1, <2>2, <1>3, SetCounts
  <1>5. LiveInv'
    BY <1>2, <1>4 DEF LiveInv
  <1>6. \A p \in Parameters :
           SetParameter(base[p]) \in [data : Data \cup {NoData}, buffer : BOOLEAN, length : BOOLEAN]
    BY DEF TypeOK, SetParameter
  <1>7. \A p \in Parameters : LiveAfterSet(live[i][p], bind_[i][p], base[p]) \in [buffer : Int, length : Int]
    <2> TAKE p \in Parameters
    <2>1. live[i][p] \in [buffer : Int, length : Int]
      BY DEF TypeOK
    <2> QED BY <2>1 DEF LiveAfterSet, One
  <1>8. /\ bind_' \in [Indices -> [Parameters ->
                [data : Data \cup {NoData}, buffer : BOOLEAN, length : BOOLEAN]]]
        /\ live' \in [Indices -> [Parameters -> [buffer : Int, length : Int]]]
    BY <1>1, <1>6, <1>7 DEF TypeOK
  <1> QED BY <1>2, <1>3, <1>5, <1>8

LEMMA ClearKeeps ==
    ASSUME TypeOK, LiveInv, NEW i \in Indices, ClearParameters(i)
    PROVE  /\ LiveInv'
           /\ bind_' \in [Indices -> [Parameters ->
                    [data : Data \cup {NoData}, buffer : BOOLEAN, length : BOOLEAN]]]
           /\ live' \in [Indices -> [Parameters -> [buffer : Int, length : Int]]]
           /\ \A p \in Parameters : bind_'[i][p] = Cleared
           /\ \A j \in Indices \ {i} : bind_'[j] = bind_[j]
  <1>1. /\ bind_' = [bind_ EXCEPT ![i] = [p \in Parameters |-> Cleared]]
        /\ live' = [live EXCEPT ![i] =
              [p \in Parameters |-> LiveAfterClear(live[i][p], bind_[i][p])]]
    BY DEF ClearParameters
  <1>2. \A j \in Indices \ {i} : bind_'[j] = bind_[j] /\ live'[j] = live[j]
    BY <1>1 DEF TypeOK
  <1>3. \A p \in Parameters : bind_'[i][p] = Cleared
    BY <1>1 DEF TypeOK
  <1>4. \A p \in Parameters : live'[i][p] = Counted(bind_'[i][p])
    <2> TAKE p \in Parameters
    <2>1. live'[i][p] = LiveAfterClear(Counted(bind_[i][p]), bind_[i][p])
      BY <1>1 DEF TypeOK, LiveInv
    <2> QED BY <2>1, <1>3, ClearCounts
  <1>5. LiveInv'
    BY <1>2, <1>4 DEF LiveInv
  <1>6. Cleared \in [data : Data \cup {NoData}, buffer : BOOLEAN, length : BOOLEAN]
    BY DEF Cleared
  <1>7. \A p \in Parameters : LiveAfterClear(live[i][p], bind_[i][p]) \in [buffer : Int, length : Int]
    <2> TAKE p \in Parameters
    <2>1. live[i][p] \in [buffer : Int, length : Int]
      BY DEF TypeOK
    <2> QED BY <2>1 DEF LiveAfterClear, One
  <1>8. /\ bind_' \in [Indices -> [Parameters ->
                [data : Data \cup {NoData}, buffer : BOOLEAN, length : BOOLEAN]]]
        /\ live' \in [Indices -> [Parameters -> [buffer : Int, length : Int]]]
    BY <1>1, <1>6, <1>7 DEF TypeOK
  <1> QED BY <1>2, <1>3, <1>5, <1>8

------------------------------------------------------------------------------
\* What one more call makes of the calls before it.

LEMMA OneMore ==
    ASSUME NEW s \in Seq(Calls), NEW i \in Indices, NEW n \in 1..Len(s)
    PROVE  /\ Mentioned(s, i, n) <=> s[n].index = i \/ Mentioned(s, i, n - 1)
           /\ Prepared(s, i, n) <=> IF s[n].index = i THEN s[n].matching
                                                     ELSE Prepared(s, i, n - 1)
  <1>1. 1..n = 1..(n - 1) \cup {n} /\ n \notin 1..(n - 1)
    OBVIOUS
  <1>2. Mentioned(s, i, n) <=> s[n].index = i \/ Mentioned(s, i, n - 1)
    BY <1>1 DEF Mentioned
  <1>3. \A k \in 1..(n - 1) : n \in (k + 1)..n /\ (k + 1)..n = (k + 1)..(n - 1) \cup {n}
    OBVIOUS
  <1>4. \A j \in (n + 1)..n : s[j].index # i
    OBVIOUS
  <1>5. CASE s[n].index = i
    <2>1. \A k \in 1..(n - 1) : ~\A j \in (k + 1)..n : s[j].index # i
      BY <1>3, <1>5
    <2> QED BY <1>1, <1>2, <1>4, <1>5, <2>1 DEF Prepared
  <1>6. CASE s[n].index # i
    <2>1. \A k \in 1..(n - 1) :
             (\A j \in (k + 1)..n : s[j].index # i) <=> \A j \in (k + 1)..(n - 1) : s[j].index # i
      BY <1>3, <1>6
    <2> QED BY <1>1, <1>2, <1>6, <2>1 DEF Prepared
  <1> QED BY <1>5, <1>6

LEMMA SameBefore ==
    ASSUME NEW s \in Seq(Calls), NEW call \in Calls, NEW i \in Indices
    PROVE  Prepared(Append(s, call), i, Len(s)) <=> Prepared(s, i, Len(s))
  <1>1. \A k \in 1..Len(s) : Append(s, call)[k] = s[k]
    OBVIOUS
  <1>2. \A k \in 1..Len(s) : \A j \in (k + 1)..Len(s) : Append(s, call)[j] = s[j]
    OBVIOUS
  <1> QED BY <1>1, <1>2 DEF Prepared

LEMMA AfterAppend ==
    ASSUME NEW s \in Seq(Calls), NEW call \in Calls, NEW i \in Indices
    PROVE  Prepared(Append(s, call), i, Len(s) + 1) <=>
              IF call.index = i THEN call.matching ELSE Prepared(s, i, Len(s))
  <1> DEFINE t == Append(s, call)
  <1>1. t \in Seq(Calls) /\ Len(t) = Len(s) + 1 /\ t[Len(s) + 1] = call
    OBVIOUS
  <1>2. Len(s) + 1 \in 1..Len(t) /\ (Len(s) + 1) - 1 = Len(s)
    BY <1>1
  <1> HIDE DEF t
  <1>3. Prepared(t, i, Len(s) + 1) <=> IF t[Len(s) + 1].index = i
                                       THEN t[Len(s) + 1].matching
                                       ELSE Prepared(t, i, (Len(s) + 1) - 1)
    BY <1>1, <1>2, OneMore
  <1>4. Prepared(t, i, Len(s)) <=> Prepared(s, i, Len(s))
    BY SameBefore DEF t
  <1>5. Prepared(t, i, Len(s) + 1) <=>
           IF call.index = i THEN call.matching ELSE Prepared(s, i, Len(s))
    BY <1>1, <1>2, <1>3, <1>4
  <1> QED BY <1>5 DEF t

------------------------------------------------------------------------------
\* A call that does not overrun the table changes one entry, and its bindings at
\* most to nothing.
LEMMA PrepareKeeps ==
    ASSUME TypeOK, LiveInv, NEW call \in Calls, Prepare(call), ~Overruns(call)
    PROVE  /\ LiveInv'
           /\ bind_' \in [Indices -> [Parameters ->
                    [data : Data \cup {NoData}, buffer : BOOLEAN, length : BOOLEAN]]]
           /\ live' \in [Indices -> [Parameters -> [buffer : Int, length : Int]]]
           /\ table' \in [Indices -> 0..MaxSessions]
           /\ size' \in Nat /\ size <= size' /\ call.index < size'
           /\ table'[call.index] = IF call.matching THEN session ELSE 0
           /\ \A i \in Indices \ {call.index} :
                 table'[i] = table[i] /\ bind_'[i] = bind_[i]
           /\ \/ bind_'[call.index] = bind_[call.index]
              \/ \A p \in Parameters : bind_'[call.index][p] = Cleared
  <1> DEFINE c == call.index
             stmt == IF call.matching THEN session ELSE 0
  <1>1. c \in Indices /\ c \in Nat /\ size \in Nat /\ stmt \in 0..MaxSessions
    BY DEF Calls, Indices, TypeOK
  <1>2. size' \in Nat /\ size <= size' /\ c < size'
    <2>1. size' = SizeFor(call) /\ ~(c >= SizeFor(call))
      BY DEF Prepare, Overruns
    <2>2. SizeFor(call) \in Nat /\ size <= SizeFor(call)
      BY <1>1 DEF SizeFor, Grown
    <2> QED BY <1>1, <2>1, <2>2
  <1>3. table' = [table EXCEPT ![c] = stmt]
    BY DEF Prepare, Replace
  <1>4. table' \in [Indices -> 0..MaxSessions] /\ table'[c] = stmt
    BY <1>1, <1>3 DEF TypeOK
  <1>5. \A i \in Indices \ {c} : table'[i] = table[i]
    BY <1>3 DEF TypeOK
  <1>6. CASE UNCHANGED <<bind_, live>>
    <2>1. LiveInv' /\ bind_' = bind_ /\ live' = live
      BY <1>6 DEF LiveInv
    <2> QED BY <1>2, <1>4, <1>5, <2>1 DEF TypeOK
  <1>7. CASE ClearParameters(c)
    BY <1>1, <1>2, <1>4, <1>5, <1>7, ClearKeeps
  <1> QED BY <1>6, <1>7 DEF Prepare, Replace

------------------------------------------------------------------------------
\* The invariant holds at first.
LEMMA InitIInv == Init => IInv
  <1> SUFFICES ASSUME Init PROVE IInv
    OBVIOUS
  <1>1. TypeOK
    BY DEF Init, TypeOK, Cleared, Data, Indices
  <1>2. LiveInv
    BY DEF Init, LiveInv, Counted, Cleared, One
  <1>3. BindInv
    BY DEF Init, BindInv
  <1>4. TableInv
    BY DEF Init, TableInv, Prepared
  <1>5. SizeInv
    BY DEF Init, SizeInv, GaplessIsSafe
  <1> QED BY <1>1, <1>2, <1>3, <1>4, <1>5 DEF IInv

\* A call by the owner.  If there has been no gap before it, the one growth suffices.
LEMMA CallKeeps ==
    ASSUME IInv, NEW call \in Calls, PreparedStatement(call)
    PROVE  IInv'
  <1>1. /\ at = "idle" /\ Len(calls) < MaxCalls /\ Prepare(call)
        /\ calls' = Append(calls, call)
        /\ at' = IF Overruns(call) THEN "overrun" ELSE "idle"
        /\ base' = base /\ session' = session /\ reprepares' = reprepares
        /\ run' = run /\ next' = next
    BY DEF PreparedStatement
  <1>2. TypeOK /\ LiveInv /\ BindInv /\ TableInv /\ SizeInv
    BY DEF IInv
  <1>3. calls \in Seq(Calls) /\ Len(calls) \in Nat
    BY <1>2 DEF TypeOK, Calls
  <1>4. /\ calls' \in Seq(Calls) /\ Len(calls') = Len(calls) + 1
        /\ calls'[Len(calls) + 1] = call
        /\ \A k \in 1..Len(calls) : calls'[k] = calls[k]
    BY <1>1, <1>3
  <1>5. CASE Overruns(call)
    <2>1. /\ table' = table /\ bind_' = bind_ /\ live' = live
          /\ size' = SizeFor(call) /\ at' = "overrun"
      BY <1>1, <1>5 DEF Prepare
    <2>2. size \in Nat /\ call.index \in Nat /\ call.matching \in BOOLEAN
      BY <1>2 DEF TypeOK, Calls, Indices
    <2>3. TypeOK'
      <3>1. size' \in Nat
        BY <2>1, <2>2 DEF SizeFor, Grown
      <3> QED BY <1>1, <1>2, <1>4, <2>1, <3>1 DEF TypeOK, Calls
    <2>4. LiveInv'
      BY <1>2, <2>1 DEF LiveInv
    <2>5. BindInv' /\ TableInv'
      BY <1>1, <1>3, <1>4, <2>1 DEF BindInv, TableInv, BoundsAssumption
    <2>6. ~Gapless'
      <3> SUFFICES ASSUME Gapless' PROVE FALSE
        OBVIOUS
      <3>1. Len(calls) + 1 \in 1..Len(calls')
        BY <1>3, <1>4
      <3>2. /\ call.matching
            /\ \A i \in 0..(call.index - 1) :
                  \E j \in 1..((Len(calls) + 1) - 1) : calls'[j].index = i
        BY <1>4, <3>1 DEF Gapless
      <3>3. \A i \in 0..(call.index - 1) : i < size
        <4> TAKE i \in 0..(call.index - 1)
        <4>1. PICK j \in 1..Len(calls) : calls[j].index = i
          BY <1>3, <1>4, <3>2
        <4> QED BY <1>1, <1>2, <4>1 DEF SizeInv
      <3>4. call.index <= size
        BY <2>2, <3>3
      <3> QED BY <1>5, <2>2, <3>2, <3>4 DEF Overruns, SizeFor, Grown
    <2>7. SizeInv'
      BY <2>1, <2>6 DEF SizeInv, GaplessIsSafe
    <2> QED BY <2>3, <2>4, <2>5, <2>7 DEF IInv
  <1>6. CASE ~Overruns(call)
    <2>1. /\ LiveInv'
          /\ bind_' \in [Indices -> [Parameters ->
                   [data : Data \cup {NoData}, buffer : BOOLEAN, length : BOOLEAN]]]
          /\ live' \in [Indices -> [Parameters -> [buffer : Int, length : Int]]]
          /\ table' \in [Indices -> 0..MaxSessions]
          /\ size' \in Nat /\ size <= size' /\ call.index < size'
          /\ table'[call.index] = IF call.matching THEN session ELSE 0
          /\ \A i \in Indices \ {call.index} :
                table'[i] = table[i] /\ bind_'[i] = bind_[i]
          /\ \/ bind_'[call.index] = bind_[call.index]
             \/ \A p \in Parameters : bind_'[call.index][p] = Cleared
      BY <1>1, <1>2, <1>6, PrepareKeeps
    <2>2. at' = "idle"
      BY <1>1, <1>6
    <2>3. TypeOK'
      BY <1>1, <1>2, <1>4, <2>1, <2>2 DEF TypeOK, Calls
    <2>4. BindInv'
      <3>1. \A i \in Indices, p \in Parameters : bind_[i][p] = Cleared
        BY <1>1, <1>2 DEF BindInv
      <3>2. call.index \in Indices
        BY DEF Calls
      <3>3. \A i \in Indices, p \in Parameters : bind_'[i][p] = Cleared
        <4> TAKE i \in Indices, p \in Parameters
        <4>1. CASE i = call.index
          BY <2>1, <3>1, <3>2, <4>1
        <4>2. CASE i # call.index
          BY <2>1, <3>1, <4>2
        <4> QED BY <4>1, <4>2
      <3> QED BY <2>2, <3>3 DEF BindInv
    <2>5. TableInv'
      <3>1. session \in 1..MaxSessions /\ session # 0
        BY <1>2 DEF TypeOK
      <3>2. \A i \in Indices :
               Prepared(calls', i, Len(calls')) <=>
                  IF call.index = i THEN call.matching ELSE Prepared(calls, i, Len(calls))
        BY <1>1, <1>3, <1>4, AfterAppend
      <3>3. \A i \in Indices :
               /\ table'[i] # 0 <=> Prepared(calls', i, Len(calls'))
               /\ reprepares' => table'[i] \in {0, session'}
        <4> TAKE i \in Indices
        <4>1. CASE call.index = i
          BY <1>1, <2>1, <3>1, <3>2, <4>1
        <4>2. CASE call.index # i
          BY <1>1, <1>2, <2>1, <3>2, <4>2 DEF TableInv
        <4> QED BY <4>1, <4>2
      <3> QED BY <1>1, <1>3, <1>4, <2>2, <3>3 DEF TableInv
    <2>6. SizeInv'
      <3>1. \A k \in 1..Len(calls') : calls'[k].index < size'
        <4> TAKE k \in 1..Len(calls')
        <4>1. CASE k = Len(calls) + 1
          BY <1>4, <2>1, <4>1
        <4>2. CASE k \in 1..Len(calls)
          <5>1. calls[k].index < size /\ calls[k] \in Calls
            BY <1>1, <1>2, <1>3, <4>2 DEF SizeInv
          <5>2. calls[k].index \in Int /\ size \in Int /\ size' \in Int
            BY <1>2, <2>1, <5>1 DEF TypeOK, Calls, Indices
          <5> QED BY <1>4, <2>1, <4>2, <5>1, <5>2
        <4> QED BY <1>3, <1>4, <4>1, <4>2
      <3> QED BY <2>2, <3>1 DEF SizeInv, GaplessIsSafe
    <2> QED BY <2>1, <2>3, <2>4, <2>5, <2>6 DEF IInv
  <1> QED BY <1>5, <1>6

\* A repeated call.  It cannot overrun the table, which the first call made fit.
LEMMA PrepareAgainKeeps ==
    ASSUME IInv, PrepareAgain
    PROVE  IInv'
  <1> DEFINE call == calls[next]
  <1>1. /\ at = "reprepare" /\ next <= Len(calls) /\ next' = next + 1
        /\ base' = base /\ session' = session /\ reprepares' = reprepares
        /\ calls' = calls /\ run' = run
    BY DEF PrepareAgain
  <1>2. TypeOK /\ LiveInv /\ BindInv /\ TableInv /\ SizeInv
    BY DEF IInv
  <1>3. /\ calls \in Seq(Calls) /\ Len(calls) \in Nat /\ Len(calls) <= MaxCalls
        /\ next \in 1..Len(calls) /\ next' \in 1..(MaxCalls + 1)
    BY <1>1, <1>2 DEF TypeOK, Calls, TableInv
  <1>4. call \in Calls /\ call.index \in Indices /\ call.index < size
    <2>1. call \in Calls
      BY <1>3
    <2>2. call.index < size
      BY <1>1, <1>2, <1>3 DEF SizeInv
    <2> QED BY <2>1, <2>2 DEF Calls
  <1>5. ~Overruns(call)
    <2>1. size \in Nat /\ call.index \in Nat /\ call.matching \in BOOLEAN
      BY <1>2, <1>4 DEF TypeOK, Calls, Indices
    <2> QED BY <1>4, <2>1 DEF Overruns, SizeFor
  <1>6. CASE at' = "ended" /\ UNCHANGED tableVars
    <2>1. TypeOK'
      BY <1>1, <1>2, <1>3, <1>6 DEF TypeOK, tableVars
    <2>2. LiveInv'
      BY <1>2, <1>6 DEF LiveInv, tableVars
    <2>3. BindInv' /\ TableInv'
      BY <1>1, <1>2, <1>6 DEF BindInv, TableInv
    <2>4. SizeInv'
      BY <1>1, <1>2, <1>6 DEF SizeInv, GaplessIsSafe, tableVars
    <2> QED BY <2>1, <2>2, <2>3, <2>4 DEF IInv
  <1>7. CASE Prepare(call) /\ at' = "reprepare"
    <2> HIDE DEF call
    <2>1. /\ LiveInv'
          /\ bind_' \in [Indices -> [Parameters ->
                   [data : Data \cup {NoData}, buffer : BOOLEAN, length : BOOLEAN]]]
          /\ live' \in [Indices -> [Parameters -> [buffer : Int, length : Int]]]
          /\ table' \in [Indices -> 0..MaxSessions]
          /\ size' \in Nat /\ size <= size' /\ call.index < size'
          /\ table'[call.index] = IF call.matching THEN session ELSE 0
          /\ \A i \in Indices \ {call.index} :
                table'[i] = table[i] /\ bind_'[i] = bind_[i]
          /\ \/ bind_'[call.index] = bind_[call.index]
             \/ \A p \in Parameters : bind_'[call.index][p] = Cleared
      BY <1>2, <1>4, <1>5, <1>7, PrepareKeeps
    <2>2. TypeOK'
      BY <1>1, <1>2, <1>3, <1>7, <2>1 DEF TypeOK
    <2>3. BindInv'
      <3>1. \A i \in Indices : \/ bind_'[i] = bind_[i]
                               \/ \A p \in Parameters : bind_'[i][p] = Cleared
        BY <2>1
      <3>2. \A i \in Indices \ {run.index}, p \in Parameters : bind_'[i][p] = Cleared
        BY <1>1, <1>2, <3>1 DEF BindInv
      <3>3. \A p \in Parameters : bind_'[run.index][p] \in {Cleared, SetParameter(base[p])}
        <4>1. run.index \in Indices
          BY <1>2 DEF TypeOK
        <4> QED BY <1>1, <1>2, <3>1, <4>1 DEF BindInv
      <3>4. \A p \in Parameters : SetParameter(base[p])' = SetParameter(base[p])
        BY <1>1 DEF SetParameter
      <3> QED BY <1>1, <1>7, <3>2, <3>3, <3>4 DEF BindInv
    <2>4. TableInv'
      <3>1. reprepares /\ reprepares' /\ next' - 1 = next /\ session # 0
        BY <1>1, <1>2, <1>3 DEF TableInv, TypeOK
      <3>2. \A i \in Indices :
               /\ Mentioned(calls, i, next) <=> call.index = i \/ Mentioned(calls, i, next - 1)
               /\ Prepared(calls, i, next) <=>
                     IF call.index = i THEN call.matching ELSE Prepared(calls, i, next - 1)
        BY <1>3, OneMore DEF call
      <3>3. \A i \in Indices :
               IF reprepares /\ Mentioned(calls, i, next)
               THEN (table'[i] # 0 <=> Prepared(calls, i, next)) /\ table'[i] \in {0, session}
               ELSE table'[i] # 0 <=> Prepared(calls, i, Len(calls))
        <4> TAKE i \in Indices
        <4>1. CASE call.index = i
          BY <2>1, <3>1, <3>2, <4>1
        <4>2. CASE call.index # i
          <5>1. table'[i] = table[i]
            BY <2>1, <4>2
          <5>2. IF reprepares /\ Mentioned(calls, i, next - 1)
                THEN (table[i] # 0 <=> Prepared(calls, i, next - 1)) /\ table[i] \in {0, session}
                ELSE table[i] # 0 <=> Prepared(calls, i, Len(calls))
            BY <1>1, <1>2 DEF TableInv
          <5> QED BY <3>2, <4>2, <5>1, <5>2
        <4> QED BY <4>1, <4>2
      <3>4. Prepared(calls, run.index, Len(calls))
        BY <1>1, <1>2 DEF TableInv
      <3>5. next' <= Len(calls) + 1
        BY <1>1, <1>3
      <3> QED BY <1>1, <1>3, <1>7, <3>1, <3>3, <3>4, <3>5 DEF TableInv
    <2>5. SizeInv'
      <3>1. \A k \in 1..Len(calls) : calls[k].index < size'
        <4> TAKE k \in 1..Len(calls)
        <4>1. calls[k].index < size /\ calls[k] \in Calls
          BY <1>1, <1>2, <1>3 DEF SizeInv
        <4>2. calls[k].index \in Int
          BY <4>1 DEF Calls, Indices
        <4>3. size \in Int /\ size' \in Int
          BY <1>2, <2>1 DEF TypeOK
        <4> QED BY <2>1, <4>1, <4>2, <4>3
      <3> QED BY <1>1, <1>7, <3>1 DEF SizeInv, GaplessIsSafe
    <2> QED BY <2>1, <2>2, <2>3, <2>4, <2>5 DEF IInv
  <1> QED BY <1>1, <1>5, <1>6, <1>7 DEF PrepareAgain

------------------------------------------------------------------------------
\* The other steps.

LEMMA PrepareFailsKeeps ==
    ASSUME IInv, NEW call \in Calls, PrepareFails(call)
    PROVE  IInv'
  <1>1. size' = SizeFor(call)
        /\ UNCHANGED <<table, bind_, live, base, session, reprepares, calls, at, run, next>>
    BY DEF PrepareFails
  <1>2. TypeOK /\ LiveInv /\ BindInv /\ TableInv /\ SizeInv
    BY DEF IInv
  <1>3. size \in Nat /\ size' \in Nat /\ size <= size'
    BY <1>1, <1>2 DEF TypeOK, SizeFor, Grown, Calls, Indices
  <1>4. TypeOK'
    BY <1>1, <1>2, <1>3 DEF TypeOK
  <1>5. LiveInv' /\ BindInv'
    BY <1>1, <1>2 DEF LiveInv, BindInv
  <1>6. TableInv'
    BY <1>1, <1>2 DEF TableInv
  <1>7. SizeInv'
    <2>1. ASSUME at # "overrun", NEW k \in 1..Len(calls)
          PROVE  calls[k].index < size'
      <3>1. calls \in Seq(Calls)
        BY <1>2 DEF TypeOK, Calls
      <3>2. calls[k].index < size /\ calls[k] \in Calls
        BY <1>2, <2>1, <3>1 DEF SizeInv
      <3>3. calls[k].index \in Int
        BY <3>2 DEF Calls, Indices
      <3> QED BY <1>3, <3>2, <3>3
    <2> QED BY <1>1, <1>2, <2>1 DEF SizeInv, GaplessIsSafe, Gapless
  <1> QED BY <1>4, <1>5, <1>6, <1>7 DEF IInv

LEMMA SetDataKeeps ==
    ASSUME IInv, NEW p \in Parameters, NEW d \in Data, SetData(p, d)
    PROVE  IInv'
  <1>1. /\ at = "idle" /\ base' = [base EXCEPT ![p] = d]
        /\ UNCHANGED <<size, table, bind_, live, session, reprepares, calls, at, run, next>>
    BY DEF SetData, tableVars
  <1>2. TypeOK /\ LiveInv /\ BindInv /\ TableInv /\ SizeInv
    BY DEF IInv
  <1>3. TypeOK'
    BY <1>1, <1>2 DEF TypeOK
  <1>4. LiveInv' /\ BindInv'
    BY <1>1, <1>2 DEF LiveInv, BindInv
  <1>5. TableInv' /\ SizeInv'
    BY <1>1, <1>2 DEF TableInv, SizeInv, GaplessIsSafe, Gapless
  <1> QED BY <1>3, <1>4, <1>5 DEF IInv

\* Run and Retry: whatever is bound, it is nothing or what will be bound.
LEMMA AttemptKeeps ==
    ASSUME IInv, at \in {"idle", "reprepare"}, NEW i \in Indices, BeginAttempt(i),
           UNCHANGED <<size, table, base, session, reprepares, calls, next>>,
           Prepared(calls, i, Len(calls)),
           at = "reprepare" => i = run.index /\ next = Len(calls) + 1
    PROVE  IInv'
  <1>1. run' = [index |-> i, stmt |-> table[i]] /\ BindParameters(i) /\ at' = "bound"
    BY DEF BeginAttempt
  <1>2. TypeOK /\ LiveInv /\ BindInv /\ TableInv /\ SizeInv
    BY DEF IInv
  <1>3. \A p \in Parameters : bind_[i][p] \in {Cleared, SetParameter(base[p])}
    BY <1>2 DEF BindInv
  <1>4. /\ LiveInv'
        /\ bind_' \in [Indices -> [Parameters ->
                 [data : Data \cup {NoData}, buffer : BOOLEAN, length : BOOLEAN]]]
        /\ live' \in [Indices -> [Parameters -> [buffer : Int, length : Int]]]
        /\ \A p \in Parameters : bind_'[i][p] = SetParameter(base[p])
        /\ \A j \in Indices \ {i} : bind_'[j] = bind_[j]
    BY <1>1, <1>2, <1>3, BindKeeps
  <1>5. TypeOK'
    BY <1>1, <1>2, <1>4 DEF TypeOK
  <1>6. BindInv'
    <2>1. \A j \in Indices \ {i}, p \in Parameters : bind_[j][p] = Cleared
      BY <1>2 DEF BindInv
    <2>2. \A j \in Indices \ {i}, p \in Parameters : bind_'[j][p] = Cleared
      BY <1>4, <2>1
    <2>3. \A p \in Parameters : SetParameter(base[p])' = SetParameter(base[p])
      BY DEF SetParameter
    <2> QED BY <1>1, <1>4, <2>2, <2>3 DEF BindInv
  <1>7. TableInv'
    <2>1. \A j \in Indices : /\ table[j] # 0 <=> Prepared(calls, j, Len(calls))
                             /\ reprepares => table[j] \in {0, session}
      <3>1. CASE at = "idle"
        BY <1>2, <3>1 DEF TableInv
      <3>2. CASE at = "reprepare"
        <4>1. next - 1 = Len(calls) /\ Len(calls) \in Nat
          BY <1>2, <3>2 DEF TypeOK
        <4>2. \A j \in Indices :
                 IF reprepares /\ Mentioned(calls, j, Len(calls))
                 THEN (table[j] # 0 <=> Prepared(calls, j, Len(calls))) /\ table[j] \in {0, session}
                 ELSE table[j] # 0 <=> Prepared(calls, j, Len(calls))
          BY <1>2, <3>2, <4>1 DEF TableInv
        <4>3. \A j \in Indices : Prepared(calls, j, Len(calls)) => Mentioned(calls, j, Len(calls))
          BY DEF Prepared, Mentioned
        <4> QED BY <4>2, <4>3
      <3> QED BY <3>1, <3>2
    <2>2. run'.index = i /\ run'.stmt = table[i]
      BY <1>1
    <2>3. Len(calls) <= MaxCalls
      BY <1>2 DEF TableInv
    <2> QED BY <1>1, <2>1, <2>2, <2>3 DEF TableInv
  <1>8. SizeInv'
    BY <1>1, <1>2 DEF SizeInv, GaplessIsSafe
  <1> QED BY <1>4, <1>5, <1>6, <1>7, <1>8 DEF IInv

LEMMA ReturnKeeps ==
    ASSUME IInv, Return
    PROVE  IInv'
  <1>1. /\ at = "bound" /\ at' = "idle" /\ ClearParameters(run.index)
        /\ UNCHANGED <<size, table, base, session, reprepares, calls, run, next>>
    BY DEF Return, ClearWhenDone
  <1>2. TypeOK /\ LiveInv /\ BindInv /\ TableInv /\ SizeInv
    BY DEF IInv
  <1>3. run.index \in Indices
    BY <1>2 DEF TypeOK
  <1>4. /\ LiveInv'
        /\ bind_' \in [Indices -> [Parameters ->
                 [data : Data \cup {NoData}, buffer : BOOLEAN, length : BOOLEAN]]]
        /\ live' \in [Indices -> [Parameters -> [buffer : Int, length : Int]]]
        /\ \A p \in Parameters : bind_'[run.index][p] = Cleared
        /\ \A j \in Indices \ {run.index} : bind_'[j] = bind_[j]
    BY <1>1, <1>2, <1>3, ClearKeeps
  <1>5. TypeOK'
    BY <1>1, <1>2, <1>4 DEF TypeOK
  <1>6. BindInv'
    <2>1. \A j \in Indices \ {run.index}, p \in Parameters : bind_[j][p] = Cleared
      BY <1>1, <1>2 DEF BindInv
    <2>2. \A j \in Indices, p \in Parameters : bind_'[j][p] = Cleared
      <3> TAKE j \in Indices, p \in Parameters
      <3>1. CASE j = run.index
        BY <1>4, <3>1
      <3>2. CASE j # run.index
        BY <1>4, <2>1, <3>2
      <3> QED BY <3>1, <3>2
    <2> QED BY <1>1, <2>2 DEF BindInv
  <1>7. TableInv' /\ SizeInv'
    BY <1>1, <1>2 DEF TableInv, SizeInv, GaplessIsSafe
  <1> QED BY <1>4, <1>5, <1>6, <1>7 DEF IInv

LEMMA LoseSessionKeeps ==
    ASSUME IInv, LoseSession
    PROVE  IInv'
  <1>1. /\ at = "bound"
        /\ UNCHANGED <<size, table, bind_, live, base, reprepares, calls, run>>
    BY DEF LoseSession, tableVars
  <1>2. TypeOK /\ LiveInv /\ BindInv /\ TableInv /\ SizeInv
    BY DEF IInv
  <1>3. Len(calls) \in Nat /\ Len(calls) <= MaxCalls /\ session \in 1..MaxSessions
    BY <1>2 DEF TypeOK, TableInv
  <1>4. \/ /\ at' = "ended" /\ session' = session /\ next' = next
        \/ /\ at' = "reprepare" /\ session' \in 1..MaxSessions
           /\ next' = IF reprepares THEN 1 ELSE Len(calls) + 1
    BY <1>3 DEF LoseSession
  <1>5. next' \in 1..(MaxCalls + 1) /\ session' \in 1..MaxSessions
    BY <1>2, <1>3, <1>4 DEF TypeOK
  <1>6. TypeOK'
    BY <1>1, <1>2, <1>4, <1>5 DEF TypeOK
  <1>7. LiveInv'
    BY <1>1, <1>2 DEF LiveInv
  <1>8. BindInv'
    <2>1. \A p \in Parameters : SetParameter(base[p])' = SetParameter(base[p])
      BY <1>1 DEF SetParameter
    <2>2. /\ \A i \in Indices \ {run.index}, p \in Parameters : bind_[i][p] = Cleared
          /\ \A p \in Parameters : bind_[run.index][p] = SetParameter(base[p])
      BY <1>1, <1>2 DEF BindInv
    <2> QED BY <1>1, <1>4, <2>1, <2>2 DEF BindInv
  <1>9. TableInv'
    <2>1. \A i \in Indices : ~Mentioned(calls, i, 0)
      BY DEF Mentioned
    <2>2. /\ Prepared(calls, run.index, Len(calls))
          /\ \A i \in Indices : table[i] # 0 <=> Prepared(calls, i, Len(calls))
      BY <1>1, <1>2 DEF TableInv
    <2>3. reprepares /\ at' = "reprepare" => next' - 1 = 0
      BY <1>4
    <2>4. ~reprepares /\ at' = "reprepare" => next' = Len(calls) + 1
      BY <1>4
    <2>5. at' = "reprepare" => next' <= Len(calls) + 1
      BY <1>3, <1>4
    <2>6. at' \in {"ended", "reprepare"}
      BY <1>4
    <2> QED BY <1>1, <1>3, <2>1, <2>2, <2>3, <2>4, <2>5, <2>6 DEF TableInv
  <1>10. SizeInv'
    BY <1>1, <1>2, <1>4 DEF SizeInv, GaplessIsSafe
  <1> QED BY <1>6, <1>7, <1>8, <1>9, <1>10 DEF IInv

LEMMA StutterKeeps ==
    ASSUME IInv, UNCHANGED vars
    PROVE  IInv'
  <1>1. UNCHANGED <<size, table, bind_, live, base, session, reprepares, calls, at, run, next>>
    BY DEF vars, tableVars
  <1>2. TypeOK' /\ LiveInv' /\ BindInv'
    BY <1>1 DEF IInv, TypeOK, LiveInv, BindInv
  <1>3. TableInv' /\ SizeInv'
    BY <1>1 DEF IInv, TableInv, SizeInv, GaplessIsSafe, Gapless
  <1> QED BY <1>2, <1>3 DEF IInv

------------------------------------------------------------------------------
\* Every step keeps the invariant.
LEMMA StepIInv == IInv /\ [Next]_vars => IInv'
  <1> SUFFICES ASSUME IInv, [Next]_vars PROVE IInv'
    OBVIOUS
  <1>1. ASSUME NEW call \in Calls, PreparedStatement(call) PROVE IInv'
    BY <1>1, CallKeeps
  <1>2. ASSUME NEW call \in Calls, PrepareFails(call) PROVE IInv'
    BY <1>2, PrepareFailsKeeps
  <1>3. ASSUME NEW p \in Parameters, NEW d \in Data, SetData(p, d) PROVE IInv'
    BY <1>3, SetDataKeeps
  <1>4. ASSUME NEW i \in Indices, Run(i) PROVE IInv'
    <2>1. /\ at = "idle" /\ table[i] # 0 /\ BeginAttempt(i)
          /\ UNCHANGED <<size, table, base, session, reprepares, calls, next>>
      BY <1>4 DEF Run
    <2>2. Prepared(calls, i, Len(calls))
      BY <2>1 DEF IInv, TableInv
    <2> QED BY <2>1, <2>2, AttemptKeeps
  <1>5. ASSUME Retry PROVE IInv'
    <2>1. /\ at = "reprepare" /\ next = Len(calls) + 1 /\ BeginAttempt(run.index)
          /\ UNCHANGED <<size, table, base, session, reprepares, calls, next>>
      BY <1>5 DEF Retry, NextAttempt
    <2>2. run.index \in Indices /\ Prepared(calls, run.index, Len(calls))
      BY <2>1 DEF IInv, TypeOK, TableInv
    <2> QED BY <2>1, <2>2, AttemptKeeps
  <1> QED BY <1>1, <1>2, <1>3, <1>4, <1>5, ReturnKeeps, LoseSessionKeeps,
             PrepareAgainKeeps, StutterKeeps DEF Next

\* The invariant, of which the theorems below are parts: the table holds what the calls
\* have made of it, and only the statement being run has something bound.
THEOREM Invariance == Spec => []IInv
  BY InitIInv, StepIInv, PTL DEF Spec

\* The variables keep their types: the vector, its entries, the bindings and the counts.
THEOREM TypeCorrect == Spec => []TypeOK
  <1>1. IInv => TypeOK
    BY DEF IInv
  <1> QED BY <1>1, Invariance, PTL

\* mysql_stmt_bind_param gets the statement of the table with the values the owner set,
\* also in a retry that has replaced the statement (MySQLConnection.cpp:337-372).
THEOREM RunsWhatWasSet == Spec => []BoundAsSet
  <1>1. IInv => BoundAsSet
    <2> SUFFICES ASSUME IInv, at = "bound" PROVE BoundAsSet
      BY DEF BoundAsSet
    <2>1. run.index \in Indices /\ Prepared(calls, run.index, Len(calls))
      BY DEF IInv, TypeOK, TableInv
    <2>2. run.stmt = table[run.index] /\ run.stmt # 0
      BY <2>1 DEF IInv, TableInv
    <2>3. reprepares => run.stmt = session
      BY <2>1, <2>2 DEF IInv, TableInv
    <2>4. \A p \in Parameters : bind_[run.index][p] = SetParameter(base[p])
      BY DEF IInv, BindInv
    <2>5. \A d \in Data : SetParameter(d).data = d
      BY DEF SetParameter
    <2>6. \A p \in Parameters : bind_[run.index][p].data = base[p]
      BY <2>4, <2>5 DEF IInv, TypeOK
    <2> QED BY <2>2, <2>3, <2>6 DEF BoundAsSet
  <1> QED BY <1>1, Invariance, PTL

\* What setParameter allocates is freed once, and nothing is left bound between calls,
\* for any values in any order (MySQLPreparedStatement.cpp:28-138).
THEOREM MemoryIsReturned == Spec => []NothingLeaks
  <1>1. IInv => NothingLeaks
    BY DEF IInv, LiveInv, BindInv, Counted, NothingLeaks
  <1> QED BY <1>1, Invariance, PTL

\* An owner that takes indices into use one after the other never writes past the end
\* of preparedStatements_, however many it uses (MySQLConnection.cpp:385-402).
THEOREM GrowsEnough == Spec => []GaplessIsSafe
  <1>1. IInv => GaplessIsSafe
    BY DEF IInv, SizeInv
  <1> QED BY <1>1, Invariance, PTL
==============================================================================
