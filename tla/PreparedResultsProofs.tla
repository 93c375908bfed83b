------------------------ MODULE PreparedResultsProofs ------------------------
(***************************************************************************)
(* Proofs about PreparedResults, for any layouts, lengths of texts, rows   *)
(* and results: the values of a prepared result stay where their fields    *)
(* say, the getters of the guideline read them, and everything is freed    *)
(* exactly once.                                                           *)
(*                                                                         *)
(* Where a column lies is a sum over the columns before it, so the proofs  *)
(* begin with induction, from the least element of a set of numbers.       *)
(***************************************************************************)
EXTENDS PreparedResults, WellFoundedInduction, TLAPS

\* The results are constructed one after the other, and the statement's arrays are one's.
OneAtATime ==
    /\ \A r \in Results : r > made <=> state[r] = "none"
    /\ \A r \in Results : state[r] = "filling" => r = made /\ rowPos_[r] <= rowCount_[r]
    /\ \A r \in Results : state[r] = "none" => ~bind_[r] /\ rowPos_[r] = 0
    /\ arrays <= made /\ (arrays # 0 => bind_[arrays])

\* A result that is filled has the statement's arrays and its own binding.
FillingOwns ==
    \A r \in Results : state[r] = "filling" => bind_[r] /\ arrays = r /\ ~closed

\* A place for a value of column c of result r: k rows behind the first.
Place(r, c, k) == Offset(maxLength[r], c) + k * rowSize(r)

\* The values of a result lie at places of their columns, below the next one while rows come.
CellInv(r, cell) ==
    LET field == rows_[r][cell] IN
    /\ state[r] \in {"filling", "ready"}
    /\ \E k \in 0..(rowCount_[r] - 1) : field.value = Place(r, cell[2], k)
    /\ field.length \in Lengths(r, cell[2])
    /\ \A b \in Span(field.value, Written(r, cell[2], field.length)) :
          b \in DOMAIN data[r] /\ data[r][b] = cell
    /\ state[r] = "filling" => field.value + rowSize(r) <= target[cell[2]]

CellsInv == \A r \in Results, cell \in Cells : HasValue(r, cell) => CellInv(r, cell)

\* While rows come, the binding of a column is at a place for the next row, or for an earlier
\* one if there were NULLs.
TargetInv ==
    \A r \in Results : state[r] = "filling" =>
        \A c \in Columns : \E k \in 0..rowPos_[r] : target[c] = Place(r, c, k)

IInv == TypeOK /\ OneAtATime /\ FillingOwns /\ FreedOnce /\ CellsInv /\ TargetInv

------------------------------------------------------------------------------
\* Induction.

\* The least element of a set of natural numbers.
LEMMA LeastElement ==
    ASSUME NEW T \in SUBSET Nat, T # {}
    PROVE  \E n \in T : \A m \in T : n <= m
<1> DEFINE Less == OpToRel(<, Nat)
<1>1. \E n \in T : \A m \in T : <<m, n>> \notin Less
    <2>1. IsWellFoundedOn(Less, Nat)
        BY NatLessThanWellFounded
    <2> HIDE DEF Less
    <2> QED
        BY <2>1, WFMin
<1>2. ASSUME NEW n \in T, NEW m \in T, <<m, n>> \notin Less
      PROVE  n <= m
    BY <1>2 DEF OpToRel
<1> QED
    BY <1>1, <1>2

\* A set that contains 0 and with a number the next one contains every number.
LEMMA InductionUpTo ==
    ASSUME NEW S, NEW last \in Nat, 0 \in S,
           \A n \in 0..(last - 1) : n \in S => n + 1 \in S
    PROVE  0..last \subseteq S
<1> DEFINE Rest == (0..last) \ S
<1> SUFFICES ASSUME Rest # {} PROVE FALSE
    OBVIOUS
<1>1. PICK n \in Rest : \A m \in Rest : n <= m
    <2>1. Rest \in SUBSET Nat
        OBVIOUS
    <2> HIDE DEF Rest
    <2> QED
        BY <2>1, LeastElement
<1>2. n # 0 /\ n \in 0..last
    OBVIOUS
<1>3. n - 1 \in 0..(last - 1) /\ n - 1 \notin Rest
    BY <1>1, <1>2
<1> QED
    BY <1>1, <1>3

------------------------------------------------------------------------------
\* The layout of a row.

Widths(layout) == [1..Len(layout) -> Nat]

\* Every type has a size.
LEMMA SizeIsNat ==
    ASSUME NEW type, NEW max \in Nat
    PROVE  SizeForType(type, max) \in Nat
BY BoundsAssumption DEF SizeForType

\* The recursive definition of the offsets defines a function.
LEMMA OffsetsDefined ==
    ASSUME NEW layout \in Seq(STRING), NEW max \in Widths(layout)
    PROVE  /\ Offsets(layout, max) =
                [c \in 1..(Len(layout) + 1) |->
                    IF c = 1 THEN 0
                    ELSE Offsets(layout, max)[c - 1] + SizeForType(layout[c - 1], max[c - 1])]
           /\ \A c \in 1..(Len(layout) + 1) : Offsets(layout, max)[c] \in Nat
<1> DEFINE Last == Len(layout)
           Before(c) == SizeForType(layout[c - 1], max[c - 1])
           Works(f, n) == f[1] = 0 /\ \A c \in 2..(n + 1) : f[c] = f[c - 1] + Before(c)
           Reached == {n \in 0..Last : \E f \in [1..(Last + 1) -> Nat] : Works(f, n)}
<1>1. Last \in Nat /\ \A c \in 2..(Last + 1) : Before(c) \in Nat
    BY SizeIsNat DEF Widths
<1> HIDE DEF Before
<1>2. 0 \in Reached
    <2>1. Works([c \in 1..(Last + 1) |-> 0], 0)
        BY <1>1
    <2> QED
        BY <1>1, <2>1
<1>3. ASSUME NEW n \in 0..(Last - 1), n \in Reached
      PROVE  n + 1 \in Reached
    <2>1. PICK f \in [1..(Last + 1) -> Nat] : Works(f, n)
        BY <1>3
    <2> DEFINE g == [f EXCEPT ![n + 2] = f[n + 1] + Before(n + 2)]
    <2>2. g \in [1..(Last + 1) -> Nat]
        BY <1>1
    <2>3. Works(g, n + 1)
        BY <2>1, <1>1
    <2> HIDE DEF Works, g
    <2> QED
        BY <2>2, <2>3, <1>1
<1>4. Last \in Reached
    <2>1. Last \in Nat /\ \A n \in 0..(Last - 1) : n \in Reached => n + 1 \in Reached
        BY <1>1, <1>3
    <2> HIDE DEF Reached, Last, Works
    <2>2. 0..Last \subseteq Reached
        BY <2>1, <1>2, InductionUpTo
    <2> QED
        BY <2>1, <2>2
<1>5. PICK f \in [1..(Last + 1) -> Nat] : Works(f, Last)
    BY <1>4
<1>6. f = [c \in 1..(Last + 1) |-> IF c = 1 THEN 0 ELSE f[c - 1] + Before(c)]
    BY <1>5, <1>1
<1>7. Offsets(layout, max) =
        [c \in 1..(Last + 1) |-> IF c = 1 THEN 0 ELSE Offsets(layout, max)[c - 1] + Before(c)]
    BY <1>6 DEF Offsets, Before
<1>8. \A c \in 1..(Last + 1) : Offsets(layout, max)[c] \in Nat
    <2> DEFINE o == Offsets(layout, max)
               Natural == {n \in 0..Last : o[n + 1] \in Nat}
    <2>1. o = [c \in 1..(Last + 1) |-> IF c = 1 THEN 0 ELSE o[c - 1] + Before(c)]
        BY <1>7
    <2> HIDE DEF o, Last
    <2>2. o[1] = 0 /\ \A n \in 0..(Last - 1) : o[n + 2] = o[n + 1] + Before(n + 2)
        BY <2>1, <1>1
    <2>3. 0 \in Natural /\ \A n \in 0..(Last - 1) : n \in Natural => n + 1 \in Natural
        BY <2>2, <1>1
    <2>4. 0..Last \subseteq Natural
        <3> HIDE DEF Natural
        <3> QED
            BY <2>3, <1>1, InductionUpTo
    <2>5. ASSUME NEW c \in 1..(Last + 1) PROVE o[c] \in Nat
        <3>1. c - 1 \in 0..Last /\ c = (c - 1) + 1
            BY <1>1
        <3> QED
            BY <3>1, <2>4
    <2> QED
        BY <2>5 DEF o
<1> QED
    BY <1>7, <1>8 DEF Before

\* The columns of a row lie one behind the other.
LEMMA OffsetsGrow ==
    ASSUME NEW layout \in Seq(STRING), NEW max \in Widths(layout),
           NEW c \in 1..Len(layout), NEW d \in (c + 1)..(Len(layout) + 1)
    PROVE  Offsets(layout, max)[c] + SizeForType(layout[c], max[c]) <= Offsets(layout, max)[d]
<1> DEFINE o == Offsets(layout, max)
           Last == Len(layout)
           SizeOf(k) == SizeForType(layout[k], max[k])
           Behind == {n \in 0..(Last - c) : o[c] + SizeOf(c) <= o[c + 1 + n]}
<1>1. Last \in Nat /\ \A k \in 1..Last : SizeOf(k) \in Nat
    BY SizeIsNat DEF Widths
<1>2. o = [k \in 1..(Last + 1) |-> IF k = 1 THEN 0 ELSE o[k - 1] + SizeOf(k - 1)]
    BY OffsetsDefined
<1>3. \A k \in 1..(Last + 1) : o[k] \in Nat
    BY OffsetsDefined
<1> HIDE DEF o, SizeOf
<1>4. \A k \in 1..Last : o[k + 1] = o[k] + SizeOf(k)
    BY <1>1, <1>2
<1>5. 0 \in Behind
    BY <1>1, <1>3, <1>4
<1>6. ASSUME NEW n \in 0..((Last - c) - 1), n \in Behind
      PROVE  n + 1 \in Behind
    <2>1. c + 1 + n \in 1..Last
        BY <1>1
    <2>2. o[(c + 1 + n) + 1] = o[c + 1 + n] + SizeOf(c + 1 + n)
        BY <2>1, <1>4
    <2>3. o[c + 1 + (n + 1)] = o[c + 1 + n] + SizeOf(c + 1 + n)
        <3>1. c + 1 + (n + 1) = (c + 1 + n) + 1
            BY <1>1
        <3> QED
            BY <2>2, <3>1
    <2>4. o[c] \in Nat /\ o[c + 1 + n] \in Nat /\ SizeOf(c) \in Nat /\ SizeOf(c + 1 + n) \in Nat
        BY <1>1, <1>3, <2>1
    <2>5. o[c] + SizeOf(c) <= o[c + 1 + n] /\ n + 1 \in 0..(Last - c)
        BY <1>6, <1>1
    <2> QED
        BY <2>3, <2>4, <2>5
<1>7. 0..(Last - c) \subseteq Behind
    <2>1. Last - c \in Nat /\ \A n \in 0..((Last - c) - 1) : n \in Behind => n + 1 \in Behind
        BY <1>1, <1>6
    <2> HIDE DEF Behind, Last
    <2> QED
        BY <2>1, <1>5, InductionUpTo
<1>8. d - (c + 1) \in 0..(Last - c) /\ c + 1 + (d - (c + 1)) = d
    BY <1>1
<1>9. o[c] + SizeOf(c) <= o[d]
    BY <1>7, <1>8
<1> QED
    BY <1>9 DEF o, SizeOf

\* A row further down begins behind all of an earlier one.
LEMMA RowsGrow ==
    ASSUME NEW size \in Nat, NEW k \in Nat, NEW l \in Nat, k < l
    PROVE  k * size + size <= l * size
<1>1. (l - k) - 1 \in Nat
    OBVIOUS
<1>2. ((l - k) - 1) * size \in Nat
    BY <1>1
<1>3. l * size = k * size + size + ((l - k) - 1) * size
    OBVIOUS
<1>4. k * size \in Nat /\ l * size \in Nat
    OBVIOUS
<1> QED
    BY <1>2, <1>3, <1>4

\* What the invariant says of the columns, in short.
LEMMA Layout ==
    ASSUME TypeOK
    PROVE  /\ types \in Seq(STRING) /\ Len(types) \in Nat /\ Columns = 1..Len(types)
           /\ \A r \in Results : /\ maxLength[r] \in Widths(types)
                                 /\ rowSize(r) \in Nat
                                 /\ \A c \in Columns :
                                      /\ maxLength[r][c] \in Nat
                                      /\ Offset(maxLength[r], c) \in Nat
                                      /\ Size(maxLength[r], c) \in Nat
                                      /\ Offset(maxLength[r], c) + Size(maxLength[r], c) <= rowSize(r)
<1>1. types \in Seq(STRING) /\ Len(types) \in Nat /\ Columns = 1..Len(types)
    BY LayoutsAssumption DEF TypeOK, Columns
<1>2. ASSUME NEW r \in Results
      PROVE  maxLength[r] \in Widths(types) /\ \A c \in Columns : maxLength[r][c] \in Nat
    <2>1. maxLength[r] \in [Columns -> 0..MaxLength] /\ 0..MaxLength \subseteq Nat
        BY BoundsAssumption DEF TypeOK
    <2> QED
        BY <1>1, <2>1 DEF Widths
<1>3. ASSUME NEW r \in Results
      PROVE  \A c \in 1..(Len(types) + 1) : Offset(maxLength[r], c) \in Nat
    BY <1>1, <1>2, OffsetsDefined DEF Offset
<1>4. ASSUME NEW r \in Results, NEW c \in Columns
      PROVE  Size(maxLength[r], c) \in Nat
    BY <1>2, SizeIsNat DEF Size
<1>5. ASSUME NEW r \in Results, NEW c \in Columns
      PROVE  Offset(maxLength[r], c) + Size(maxLength[r], c) <= rowSize(r)
    <2>1. Len(types) + 1 \in (c + 1)..(Len(types) + 1)
        BY <1>1
    <2> QED
        BY <2>1, <1>1, <1>2, OffsetsGrow DEF Offset, Size, rowSize
<1>6. ASSUME NEW r \in Results PROVE rowSize(r) \in Nat
    BY <1>1, <1>3 DEF rowSize
<1> QED
    BY <1>1, <1>2, <1>3, <1>4, <1>5, <1>6

\* A place lies in the rows it is counted from.
LEMMA PlaceInside ==
    ASSUME TypeOK, NEW r \in Results, NEW c \in Columns, NEW k \in Nat
    PROVE  /\ Place(r, c, k) \in Nat
           /\ Place(r, c, k) + rowSize(r) = Place(r, c, k + 1)
           /\ \A n \in Nat : k < n => Place(r, c, k) + Size(maxLength[r], c) <= rowSize(r) * n
<1> DEFINE size == rowSize(r)
           offset == Offset(maxLength[r], c)
           width == Size(maxLength[r], c)
<1>1. size \in Nat /\ offset \in Nat /\ width \in Nat /\ offset + width <= size
    BY Layout
<1>2. Place(r, c, k) = offset + k * size /\ Place(r, c, k + 1) = offset + (k + 1) * size
    BY DEF Place
<1> HIDE DEF size, offset, width
<1>3. k * size \in Nat /\ (k + 1) * size = k * size + size
    BY <1>1
<1>4. ASSUME NEW n \in Nat, k < n
      PROVE  Place(r, c, k) + width <= size * n
    <2>1. k * size + size <= n * size /\ n * size = size * n /\ n * size \in Nat
        BY <1>1, <1>4, RowsGrow
    <2> QED
        BY <1>1, <1>2, <1>3, <2>1
<1> QED
    BY <1>1, <1>2, <1>3, <1>4 DEF size, width

\* No two places have a byte in common.
LEMMA Apart ==
    ASSUME TypeOK, NEW r \in Results, NEW c \in Columns, NEW d \in Columns,
           NEW k \in Nat, NEW l \in Nat,
           NEW b \in Span(Place(r, c, k), Size(maxLength[r], c)),
           b \in Span(Place(r, d, l), Size(maxLength[r], d))
    PROVE  c = d /\ k = l
<1> DEFINE size == rowSize(r)
           offset(x) == Offset(maxLength[r], x)
           width(x) == Size(maxLength[r], x)
<1>1. /\ size \in Nat
      /\ \A x \in {c, d} : offset(x) \in Nat /\ width(x) \in Nat /\ offset(x) + width(x) <= size
    BY Layout
<1>2. c < d => offset(c) + width(c) <= offset(d)
    BY Layout, OffsetsGrow DEF Offset, Size
<1>3. d < c => offset(d) + width(d) <= offset(c)
    BY Layout, OffsetsGrow DEF Offset, Size
<1>4. c \in Int /\ d \in Int
    BY Layout
<1>5. /\ b \in Int
      /\ offset(c) + k * size <= b /\ b < offset(c) + k * size + width(c)
      /\ offset(d) + l * size <= b /\ b < offset(d) + l * size + width(d)
    <2>1. k * size \in Nat /\ l * size \in Nat
        BY <1>1
    <2> QED
        BY <2>1, <1>1 DEF Span, Place
<1> HIDE DEF size, offset, width
<1>6. k < l => k * size + size <= l * size
    BY <1>1, RowsGrow
<1>7. l < k => l * size + size <= k * size
    BY <1>1, RowsGrow
<1>8. k * size \in Nat /\ l * size \in Nat
    BY <1>1
<1>9. k = l
    BY <1>1, <1>5, <1>6, <1>7, <1>8
<1> QED
    BY <1>1, <1>2, <1>3, <1>4, <1>5, <1>8, <1>9

\* A number takes as many bytes as its column has.
LEMMA NumberFits ==
    ASSUME NEW type \in DOMAIN Number, NEW max
    PROVE  /\ Number[type] \in {"int", "float", "double"} \X Nat
           /\ Number[type][2] = SizeForType(type, max)
<1>1. type \in {"TINY", "SHORT", "YEAR", "INT24", "LONG", "LONGLONG", "FLOAT", "DOUBLE"}
    BY DEF Number
<1>2. CASE type = "TINY"
    BY <1>2 DEF Number, SizeForType, TextTypes, Blobs, Strings, Decimals, Times
<1>3. CASE type \in {"SHORT", "YEAR"}
    BY <1>3 DEF Number, SizeForType, TextTypes, Blobs, Strings, Decimals, Times
<1>4. CASE type \in {"INT24", "LONG", "FLOAT"}
    BY <1>4 DEF Number, SizeForType, TextTypes, Blobs, Strings, Decimals, Times
<1>5. CASE type \in {"LONGLONG", "DOUBLE"}
    BY <1>5 DEF Number, SizeForType, TextTypes, Blobs, Strings, Decimals, Times
<1> QED
    BY <1>1, <1>2, <1>3, <1>4, <1>5

\* The bytes a value takes with its NUL, if it has one.
Needed(type, length) == IF type \in Strings \cup Decimals THEN length + 1 ELSE length

\* What is written for a value fits into the place of its column, and is all that the value
\* needs if the place has room for it.
LEMMA WrittenFits ==
    ASSUME TypeOK, NEW r \in Results, NEW c \in Columns, NEW length \in Lengths(r, c)
    PROVE  /\ length \in Nat
           /\ Written(r, c, length) \in Nat
           /\ Written(r, c, length) <= Size(maxLength[r], c)
           /\ Needed(types[c], length) <= Size(maxLength[r], c)
                => Written(r, c, length) = Needed(types[c], length)
<1> DEFINE size == Size(maxLength[r], c)
           needed == Needed(types[c], length)
<1>1. maxLength[r][c] \in Nat /\ size \in Nat
    BY Layout
<1>2. length \in Nat
    <2>1. types[c] \in DOMAIN Number => Number[types[c]][2] \in Nat
        BY NumberFits
    <2> QED
        BY <1>1, <2>1, BoundsAssumption DEF Lengths
<1>3. needed \in Nat
    BY <1>2 DEF Needed
<1>4. Written(r, c, length) = Min({size, needed})
    BY DEF Written, Needed
<1> HIDE DEF size, needed
<1>5. Min({size, needed}) = IF needed <= size THEN needed ELSE size
    <2>1. \A x \in {size, needed} : (\A y \in {size, needed} : x <= y)
                                      <=> x = IF needed <= size THEN needed ELSE size
        BY <1>1, <1>3
    <2> QED
        BY <2>1 DEF Min
<1> QED
    BY <1>1, <1>2, <1>3, <1>4, <1>5 DEF size, needed

------------------------------------------------------------------------------
\* The invariant.

Whats == {"arrays", "bind", "data"}

LEMMA InitIInv == Init => IInv
<1> SUFFICES ASSUME Init PROVE IInv
    OBVIOUS
<1> USE BoundsAssumption DEF Init
<1>1. \A r \in Results, cell \in Cells : rows_[r][cell] = [value |-> Unset, length |-> 0]
    BY DEF NoRows
<1>2. TypeOK
    <2>1. rows_ \in [Results -> [Cells -> [value : Nat \cup {Null, Unset}, length : Nat]]]
        BY DEF NoRows
    <2>2. DOMAIN data = Results /\ \A r \in Results : DOMAIN data[r] = {}
        BY DEF NoData
    <2>3. /\ maxLength \in [Results -> [Columns -> 0..MaxLength]]
          /\ state \in [Results -> {"none", "filling", "ready", "deleted"}]
          /\ rowCount_ \in [Results -> 0..MaxRows] /\ rowPos_ \in [Results -> 0..MaxRows]
        OBVIOUS
    <2>4. bind_ \in [Results -> BOOLEAN] /\ closed \in BOOLEAN /\ failed \in BOOLEAN
        OBVIOUS
    <2>5. target \in [Columns -> Nat] /\ freed \in [{"arrays", "bind", "data"} -> [Results -> Nat]]
        OBVIOUS
    <2>6. made \in 0..MaxResults /\ arrays \in 0..MaxResults /\ types \in Layouts
        OBVIOUS
    <2> QED
        BY <2>1, <2>2, <2>3, <2>4, <2>5, <2>6 DEF TypeOK
<1>3. OneAtATime
    BY DEF OneAtATime, Results
<1>4. FillingOwns /\ TargetInv
    BY DEF FillingOwns, TargetInv
<1>5. FreedOnce
    BY DEF FreedOnce
<1>6. CellsInv
    BY <1>1 DEF CellsInv, HasValue
<1> QED
    BY <1>2, <1>3, <1>4, <1>5, <1>6 DEF IInv

\* A result whose rows, data and binding stay keeps its values.
LEMMA CellsKept ==
    ASSUME CellsInv, UNCHANGED types, NEW r \in Results,
           rows_'[r] = rows_[r], maxLength'[r] = maxLength[r], data'[r] = data[r],
           rowCount_'[r] = rowCount_[r],
           state[r] \in {"filling", "ready"} => state'[r] \in {"filling", "ready"},
           state'[r] = "filling" => state[r] = "filling" /\ UNCHANGED target
    PROVE  \A cell \in Cells' : HasValue(r, cell)' => CellInv(r, cell)'
<1> SUFFICES ASSUME NEW cell \in Cells', HasValue(r, cell)' PROVE CellInv(r, cell)'
    OBVIOUS
<1>1. cell \in Cells /\ HasValue(r, cell) /\ rows_'[r][cell] = rows_[r][cell]
    BY DEF Cells, Columns, HasValue
<1>2. CellInv(r, cell)
    BY <1>1 DEF CellsInv
<1>3. \A k : Place(r, cell[2], k)' = Place(r, cell[2], k)
    BY DEF Place, Offset, rowSize
<1>4. rowSize(r)' = rowSize(r)
    BY DEF Offset, rowSize
<1>5. Lengths(r, cell[2])' = Lengths(r, cell[2])
    BY DEF Lengths
<1>6. \A n : Written(r, cell[2], n)' = Written(r, cell[2], n)
    BY DEF Written, Size
<1> QED
    BY <1>1, <1>2, <1>3, <1>4, <1>5, <1>6 DEF CellInv

\* A result that is not there or is deleted has no values.
LEMMA NoValues ==
    ASSUME CellsInv, NEW r \in Results, state[r] \notin {"filling", "ready"}
    PROVE  \A cell \in Cells : ~HasValue(r, cell)
BY DEF CellsInv, CellInv

\* The next result is a new one.
LEMMA BeginsNew ==
    ASSUME IInv, NEW r \in Results, NEW ending \in {"filling", "ready"}, Begin(r, ending)
    PROVE  /\ made' \in 0..MaxResults /\ made' = made + 1 /\ r = made + 1 /\ ~closed
           /\ state' \in [Results -> {"none", "filling", "ready", "deleted"}]
           /\ state[r] = "none" /\ state'[r] = ending
           /\ \A q \in Results : /\ state[q] # "filling"
                                 /\ q # r => state'[q] = state[q]
                                 /\ q > made' <=> state'[q] = "none"
           /\ ~bind_[r] /\ arrays \in 0..made /\ UNCHANGED types
<1> USE BoundsAssumption DEF IInv, Begin
<1>1. made' \in 0..MaxResults /\ made' = made + 1 /\ r = made + 1 /\ ~closed
    BY DEF TypeOK, Results
<1>2. state[r] = "none" /\ ~bind_[r] /\ arrays \in 0..made
    BY <1>1 DEF OneAtATime, TypeOK, Results
<1>3. /\ state' \in [Results -> {"none", "filling", "ready", "deleted"}]
      /\ state'[r] = ending
      /\ \A q \in Results : state[q] # "filling" /\ (q # r => state'[q] = state[q])
    BY DEF TypeOK
<1>4. ASSUME NEW q \in Results PROVE q > made' <=> state'[q] = "none"
    BY <1>1, <1>3 DEF OneAtATime, TypeOK, Results
<1> QED
    BY <1>1, <1>2, <1>3, <1>4

\* The other results keep their values, and the new one has none yet.
LEMMA BeginKeepsCells ==
    ASSUME IInv, NEW r \in Results, NEW ending \in {"filling", "ready"}, Begin(r, ending),
           UNCHANGED <<rows_, data>>,
           \A q \in Results : q # r => maxLength'[q] = maxLength[q] /\ rowCount_'[q] = rowCount_[q]
    PROVE  CellsInv'
<1>1. ASSUME NEW q \in Results, q # r, NEW cell \in Cells', HasValue(q, cell)'
      PROVE  CellInv(q, cell)'
    <2>1. state'[q] = state[q] /\ state[q] # "filling" /\ UNCHANGED types
        BY <1>1, BeginsNew
    <2> QED
        BY <1>1, <2>1, CellsKept DEF IInv
<1>2. ASSUME NEW cell \in Cells' PROVE ~HasValue(r, cell)'
    <2>1. UNCHANGED types /\ \A x \in Cells : ~HasValue(r, x)
        BY BeginsNew, NoValues DEF IInv
    <2> QED
        BY <2>1 DEF HasValue, Cells, Columns
<1>3. Results' = Results
    BY DEF Results
<1> QED
    BY <1>1, <1>2, <1>3 DEF CellsInv

\* The arrays of the last result are freed once more, and nothing else.
LEMMA OldArrays ==
    ASSUME TypeOK
    PROVE  LET f == FreeOldArrays(freed) IN
           /\ f \in [Whats -> [Results -> Nat]]
           /\ f["bind"] = freed["bind"] /\ f["data"] = freed["data"]
           /\ \A q \in Results : f["arrays"][q] =
                 IF q = arrays THEN freed["arrays"][q] + 1 ELSE freed["arrays"][q]
<1> USE BoundsAssumption DEF TypeOK, FreeOldArrays, Whats
<1>1. CASE arrays = 0
    BY <1>1 DEF Results
<1>2. CASE arrays # 0
    <2>1. arrays \in Results
        BY <1>2 DEF Results
    <2> QED
        BY <1>2, <2>1
<1> QED
    BY <1>1, <1>2

\* The constructor, up to the first row: the result is the newest, and whatever it frees or
\* keeps, the others keep their values.
LEMMA ConstructEmptyKeeps ==
    ASSUME IInv, NEW r \in Results, ConstructEmpty(r)
    PROVE  IInv'
<1> USE DEF ConstructEmpty, resultVars
<1>1. Begin(r, "ready")
    OBVIOUS
<1>2. /\ made' \in 0..MaxResults /\ made' = made + 1 /\ r = made + 1
      /\ state' \in [Results -> {"none", "filling", "ready", "deleted"}]
      /\ state[r] = "none" /\ state'[r] = "ready"
      /\ \A q \in Results : /\ state[q] # "filling"
                            /\ q # r => state'[q] = state[q]
                            /\ q > made' <=> state'[q] = "none"
      /\ ~bind_[r] /\ arrays \in 0..made /\ UNCHANGED types
    BY <1>1, BeginsNew
<1>3. TypeOK'
    BY <1>2 DEF IInv, TypeOK, Cells, Columns
<1>4. OneAtATime'
    BY <1>2 DEF IInv, OneAtATime, TypeOK
<1>5. FillingOwns' /\ TargetInv'
    BY <1>2 DEF FillingOwns, TargetInv
<1>6. FreedOnce'
    BY <1>2 DEF IInv, FreedOnce
<1>7. CellsInv'
    BY <1>1, BeginKeepsCells
<1> QED
    BY <1>3, <1>4, <1>5, <1>6, <1>7 DEF IInv

LEMMA StoreFailsKeeps ==
    ASSUME IInv, NEW r \in Results, StoreFails(r)
    PROVE  IInv'
<1> USE DEF StoreFails
<1>1. Begin(r, "ready")
    OBVIOUS
<1>2. /\ made' \in 0..MaxResults /\ made' = made + 1 /\ r = made + 1
      /\ state' \in [Results -> {"none", "filling", "ready", "deleted"}]
      /\ state[r] = "none" /\ state'[r] = "ready"
      /\ \A q \in Results : /\ state[q] # "filling"
                            /\ q # r => state'[q] = state[q]
                            /\ q > made' <=> state'[q] = "none"
      /\ ~bind_[r] /\ arrays \in 0..made /\ UNCHANGED types
    BY <1>1, BeginsNew
<1>3. TypeOK'
    <2>1. freed' \in [{"arrays", "bind", "data"} -> [Results -> Nat]]
        BY OldArrays DEF IInv, Whats
    <2>2. bind_' \in [Results -> BOOLEAN] /\ failed' \in BOOLEAN
        BY DEF IInv, TypeOK
    <2> QED
        BY <1>2, <2>1, <2>2 DEF IInv, TypeOK, Cells, Columns
<1>4. OneAtATime'
    <2>1. \A q \in Results : bind_'[q] = (bind_[q] \/ q = r)
        BY <1>2 DEF IInv, TypeOK
    <2>2. arrays # 0 => arrays \in Results
        BY BoundsAssumption DEF IInv, TypeOK, Results
    <2> QED
        BY <1>2, <2>1, <2>2 DEF IInv, OneAtATime, TypeOK
<1>5. FillingOwns' /\ TargetInv'
    BY <1>2 DEF FillingOwns, TargetInv
<1>6. FreedOnce'
    BY DEF FreedOnce
<1>7. CellsInv'
    BY <1>1, BeginKeepsCells
<1> QED
    BY <1>3, <1>4, <1>5, <1>6, <1>7 DEF IInv

LEMMA BindFailsKeeps ==
    ASSUME IInv, NEW r \in Results, BindFails(r)
    PROVE  IInv'
<1> USE DEF BindFails
<1>1. Begin(r, "ready")
    OBVIOUS
<1>2. /\ made' \in 0..MaxResults /\ made' = made + 1 /\ r = made + 1
      /\ state' \in [Results -> {"none", "filling", "ready", "deleted"}]
      /\ state[r] = "none" /\ state'[r] = "ready"
      /\ \A q \in Results : /\ state[q] # "filling"
                            /\ q # r => state'[q] = state[q]
                            /\ q > made' <=> state'[q] = "none"
      /\ ~bind_[r] /\ arrays \in 0..made /\ UNCHANGED types
    BY <1>1, BeginsNew
<1>0. rowCount_' \in [Results -> 0..MaxRows] /\ \A q \in Results : q # r => rowCount_'[q] = rowCount_[q]
    BY DEF IInv, TypeOK
<1>3. TypeOK'
    <2>1. freed' \in [{"arrays", "bind", "data"} -> [Results -> Nat]]
        BY OldArrays DEF IInv, Whats
    <2> QED
        BY <1>0, <1>2, <2>1 DEF IInv, TypeOK, Cells, Columns
<1>4. OneAtATime'
    BY <1>2 DEF IInv, OneAtATime, TypeOK
<1>5. FillingOwns' /\ TargetInv'
    BY <1>2 DEF FillingOwns, TargetInv
<1>6. FreedOnce'
    BY DEF FreedOnce
<1>7. CellsInv'
    BY <1>0, <1>1, BeginKeepsCells
<1> QED
    BY <1>3, <1>4, <1>5, <1>6, <1>7 DEF IInv

LEMMA ConstructKeeps ==
    ASSUME IInv, NEW r \in Results, Construct(r)
    PROVE  IInv'
<1>1. Begin(r, "filling")
    BY DEF Construct
<1>2. /\ made' \in 0..MaxResults /\ made' = made + 1 /\ r = made + 1 /\ ~closed
      /\ state' \in [Results -> {"none", "filling", "ready", "deleted"}]
      /\ state[r] = "none" /\ state'[r] = "filling"
      /\ \A q \in Results : /\ state[q] # "filling"
                            /\ q # r => state'[q] = state[q]
                            /\ q > made' <=> state'[q] = "none"
      /\ ~bind_[r] /\ arrays \in 0..made /\ UNCHANGED types
    BY <1>1, BeginsNew
<1>3. PICK max \in [Columns -> 0..MaxLength] :
        maxLength' = [maxLength EXCEPT ![r] = max] /\ target' = BindingOfFirstRow(max)
    BY DEF Construct
<1>4. /\ freed' = FreeOldArrays(freed) /\ arrays' = r
      /\ bind_' = [bind_ EXCEPT ![r] = TRUE]
      /\ UNCHANGED <<rowPos_, rows_, data, closed, failed>>
    BY DEF Construct
<1>5. /\ rowCount_' \in [Results -> 0..MaxRows]
      /\ \A q \in Results : q # r => rowCount_'[q] = rowCount_[q]
    BY DEF Construct, IInv, TypeOK
<1>6. /\ maxLength' \in [Results -> [Columns -> 0..MaxLength]]
      /\ maxLength'[r] = max
      /\ \A q \in Results : q # r => maxLength'[q] = maxLength[q]
    BY <1>3 DEF IInv, TypeOK
<1>7. bind_' \in [Results -> BOOLEAN] /\ \A q \in Results : bind_'[q] = (bind_[q] \/ q = r)
    BY <1>4 DEF IInv, TypeOK
<1>8. target' = [c \in Columns |-> Offset(max, c)] /\ target' \in [Columns -> Nat]
    <2>1. max \in Widths(types) /\ types \in Seq(STRING) /\ Columns = 1..Len(types)
        BY Layout, BoundsAssumption DEF Widths, IInv
    <2> QED
        BY <1>3, <2>1, OffsetsDefined DEF BindingOfFirstRow, Offset
<1>9. TypeOK'
    <2>1. freed' \in [{"arrays", "bind", "data"} -> [Results -> Nat]]
        BY <1>4, OldArrays DEF IInv, Whats
    <2>2. arrays' \in 0..MaxResults
        BY <1>4, BoundsAssumption DEF Results
    <2>3. Columns' = Columns /\ Cells' = Cells
        BY <1>2 DEF Columns, Cells
    <2> QED
        BY <1>2, <1>4, <1>5, <1>6, <1>7, <1>8, <2>1, <2>2, <2>3 DEF IInv, TypeOK
<1>10. OneAtATime'
    <2>1. rowPos_'[r] = 0 /\ rowCount_'[r] >= 0
        BY <1>2, <1>4, <1>5, BoundsAssumption DEF IInv, OneAtATime
    <2>2. ASSUME NEW q \in Results, state'[q] = "filling" PROVE q = r
        BY <1>2, <2>2
    <2>3. arrays' <= made' /\ bind_'[arrays']
        BY <1>2, <1>4, <1>7
    <2>4. ASSUME NEW q \in Results, state'[q] = "none" PROVE ~bind_'[q] /\ rowPos_'[q] = 0
        BY <1>2, <1>4, <1>7, <2>4 DEF IInv, OneAtATime
    <2> QED
        BY <1>2, <2>1, <2>2, <2>3, <2>4 DEF OneAtATime
<1>11. FillingOwns'
    BY <1>2, <1>4, <1>7 DEF FillingOwns
<1>12. TargetInv'
    <2>1. ASSUME NEW c \in Columns PROVE Place(r, c, 0)' = target'[c]
        <3>1. Offset(maxLength[r], c)' = Offset(max, c) /\ Offset(max, c) = target'[c]
            BY <1>2, <1>6, <1>8 DEF Offset
        <3>2. rowSize(r)' \in Nat /\ target'[c] \in Nat
            <4>1. max \in Widths(types) /\ types \in Seq(STRING)
                BY Layout, BoundsAssumption DEF Widths, IInv
            <4> QED
                BY <1>2, <1>6, <1>8, <4>1, OffsetsDefined DEF rowSize, Offset
        <3> QED
            BY <3>1, <3>2 DEF Place
    <2>2. ASSUME NEW q \in Results, state'[q] = "filling" PROVE q = r
        BY <1>2, <2>2
    <2>3. 0 \in 0..rowPos_'[r] /\ Columns' = Columns
        BY <1>2, <1>4 DEF IInv, OneAtATime, Columns
    <2> QED
        BY <2>1, <2>2, <2>3 DEF TargetInv
<1>13. FreedOnce'
    <2>1. /\ freed'["bind"] = freed["bind"] /\ freed'["data"] = freed["data"]
          /\ \A q \in Results : freed'["arrays"][q] =
                IF q = arrays THEN freed["arrays"][q] + 1 ELSE freed["arrays"][q]
        BY <1>4, OldArrays DEF IInv
    <2>2. SUFFICES ASSUME ~failed, NEW q \in Results
                   PROVE  /\ \A what \in {"bind", "data"} :
                                freed'[what][q] = IF bind_'[q] /\ state'[q] = "deleted" THEN 1 ELSE 0
                          /\ freed'["arrays"][q] = IF bind_'[q] /\ (arrays' # q \/ closed') THEN 1 ELSE 0
        BY <1>4 DEF FreedOnce, Results
    <2>3. /\ \A what \in {"bind", "data"} :
                freed[what][q] = IF bind_[q] /\ state[q] = "deleted" THEN 1 ELSE 0
          /\ freed["arrays"][q] = IF bind_[q] /\ (arrays # q \/ closed) THEN 1 ELSE 0
        BY <2>2 DEF IInv, FreedOnce
    <2>4. CASE q = r
        <3>1. arrays # r /\ arrays' = r /\ ~closed' /\ state'[r] # "deleted" /\ ~bind_[r]
            BY <1>2, <1>4, BoundsAssumption DEF IInv, TypeOK
        <3>2. freed'["arrays"][r] = 0
            BY <2>1, <2>3, <2>4, <3>1
        <3>3. freed'["bind"][r] = 0 /\ freed'["data"][r] = 0
            BY <2>1, <2>3, <2>4, <3>1
        <3> QED
            BY <2>4, <3>1, <3>2, <3>3
    <2>5. CASE q # r
        <3>1. q = arrays => bind_[q]
            BY DEF IInv, OneAtATime, Results
        <3>2. state'[q] = state[q] /\ bind_'[q] = bind_[q] /\ arrays' # q
            BY <1>2, <1>4, <1>7, <2>5 DEF IInv, TypeOK
        <3> QED
            BY <1>2, <1>4, <2>1, <2>3, <3>1, <3>2
    <2> QED
        BY <2>4, <2>5
<1>14. CellsInv'
    BY <1>1, <1>4, <1>5, <1>6, BeginKeepsCells
<1> QED
    BY <1>9, <1>10, <1>11, <1>12, <1>13, <1>14 DEF IInv

\* A row: the values go to places where no other value lies.
LEMMA FetchRowKeeps ==
    ASSUME IInv, NEW r \in Results, FetchRow(r)
    PROVE  IInv'
<1> DEFINE row == rowPos_[r] + 1
<1>1. /\ state[r] = "filling" /\ rowPos_[r] < rowCount_[r]
      /\ rowPos_' = [rowPos_ EXCEPT ![r] = @ + 1]
      /\ UNCHANGED <<types, maxLength, made, state, rowCount_, bind_, arrays, closed, freed, failed>>
    BY DEF FetchRow
<1>2. /\ row \in 1..rowCount_[r] /\ row \in 1..MaxRows
      /\ rowPos_[r] \in Nat /\ rowCount_[r] \in 0..MaxRows /\ rowCount_[r] \in Nat
    BY <1>1, BoundsAssumption DEF IInv, TypeOK
<1>3. PICK fetched \in Fetched(r) :
       LET present == {c \in Columns : fetched[c] # Null}
           bytes == [c \in present |-> Span(target[c], Written(r, c, fetched[c]))]
           wrote(b) == {c \in present : b \in bytes[c]}
       IN /\ data' = [data EXCEPT ![r] =
                [b \in DOMAIN @ \cup UNION {bytes[c] : c \in present} |->
                    IF wrote(b) = {} THEN @[b] ELSE <<row, Max(wrote(b))>>]]
          /\ rows_' = [rows_ EXCEPT ![r] =
                [cell \in Cells |->
                    IF cell[1] # row THEN @[cell]
                    ELSE IF cell[2] \in present
                    THEN [value |-> target[cell[2]], length |-> fetched[cell[2]]]
                    ELSE [value |-> Null, length |-> 0]]]
          /\ target' = [c \in Columns |->
                IF c \in present THEN target[c] + rowSize(r) ELSE target[c]]
    BY DEF FetchRow
<1> DEFINE present == {c \in Columns : fetched[c] # Null}
           bytes == [c \in present |-> Span(target[c], Written(r, c, fetched[c]))]
           wrote(b) == {c \in present : b \in bytes[c]}
           written == UNION {bytes[c] : c \in present}
<1>4. \A c \in present : fetched[c] \in Lengths(r, c)
    BY DEF Fetched
\* The state afterwards.
<1>5. /\ \A q \in Results : q # r => data'[q] = data[q] /\ rows_'[q] = rows_[q] /\ rowPos_'[q] = rowPos_[q]
      /\ rowPos_'[r] = row
      /\ DOMAIN data' = Results
      /\ data'[r] = [b \in DOMAIN data[r] \cup written |->
                        IF wrote(b) = {} THEN data[r][b] ELSE <<row, Max(wrote(b))>>]
      /\ rows_'[r] = [cell \in Cells |->
                        IF cell[1] # row THEN rows_[r][cell]
                        ELSE IF cell[2] \in present
                        THEN [value |-> target[cell[2]], length |-> fetched[cell[2]]]
                        ELSE [value |-> Null, length |-> 0]]
    BY <1>1, <1>3 DEF IInv, TypeOK
<1>6. \A c \in Columns : target[c] \in Nat /\ target'[c] =
            IF c \in present THEN target[c] + rowSize(r) ELSE target[c]
    BY <1>3 DEF IInv, TypeOK
<1>7. rowSize(r) \in Nat
    BY Layout DEF IInv
<1>8. \A c \in Columns : \E k \in 0..rowPos_[r] : target[c] = Place(r, c, k)
    BY <1>1 DEF IInv, TargetInv
<1> HIDE DEF row, present
\* What is written stays in its column's place.
<1>9. ASSUME NEW c \in present, NEW k \in Nat, target[c] = Place(r, c, k)
      PROVE  bytes[c] \subseteq Span(Place(r, c, k), Size(maxLength[r], c)) /\ bytes[c] \subseteq Nat
    <2>1. c \in Columns
        BY DEF present
    <2>2. Written(r, c, fetched[c]) \in Nat /\ Written(r, c, fetched[c]) <= Size(maxLength[r], c)
        BY <1>4, <2>1, WrittenFits DEF IInv
    <2>3. Size(maxLength[r], c) \in Nat /\ target[c] \in Nat
        BY <2>1, <1>6, Layout DEF IInv
    <2> QED
        BY <1>9, <2>2, <2>3 DEF Span
<1>10. ASSUME NEW c \in present, NEW b \in bytes[c]
       PROVE  b \in DOMAIN data'[r] /\ data'[r][b] = <<row, c>> /\ b \in Nat
    <2>1. c \in Columns
        BY DEF present
    <2>2. PICK k \in 0..rowPos_[r] : target[c] = Place(r, c, k)
        BY <1>8, <2>1
    <2>3. ASSUME NEW d \in present, b \in bytes[d] PROVE d = c
        <3>1. d \in Columns
            BY DEF present
        <3>2. PICK l \in 0..rowPos_[r] : target[d] = Place(r, d, l)
            BY <1>8, <3>1
        <3>3. /\ b \in Span(Place(r, c, k), Size(maxLength[r], c))
              /\ b \in Span(Place(r, d, l), Size(maxLength[r], d))
            BY <1>2, <1>9, <1>10, <2>2, <2>3, <3>2
        <3>4. k \in Nat /\ l \in Nat
            BY <1>2
        <3> QED
            BY <2>1, <3>1, <3>3, <3>4, Apart DEF IInv
    <2>4. wrote(b) = {c}
        BY <2>3, <1>10
    <2>5. Max({c}) = c
        <3>1. c \in Int
            BY <2>1, Layout DEF IInv
        <3> QED
            BY <3>1 DEF Max
    <2>6. b \in written
        BY <1>10
    <2>7. b \in Nat
        BY <1>2, <1>9, <1>10, <2>2
    <2>8. wrote(b) # {} /\ Max(wrote(b)) = c
        BY <2>4, <2>5
    <2> HIDE DEF wrote, written
    <2> QED
        BY <1>5, <2>6, <2>7, <2>8
\* No earlier value is touched.
<1>11. ASSUME NEW cell \in Cells, HasValue(r, cell),
              NEW b \in Span(rows_[r][cell].value, Written(r, cell[2], rows_[r][cell].length))
       PROVE  b \in DOMAIN data'[r] /\ data'[r][b] = cell
    <2> DEFINE c == cell[2]
    <2>1. CellInv(r, cell) /\ c \in Columns
        BY <1>11 DEF IInv, CellsInv, Cells
    <2>2. PICK k \in 0..(rowCount_[r] - 1) : rows_[r][cell].value = Place(r, c, k)
        BY <2>1 DEF CellInv
    <2>3. /\ rows_[r][cell].length \in Lengths(r, c)
          /\ b \in DOMAIN data[r] /\ data[r][b] = cell
          /\ Place(r, c, k) + rowSize(r) <= target[c]
        BY <1>1, <1>11, <2>1, <2>2 DEF CellInv
    <2>4. k \in Nat /\ Place(r, c, k) \in Nat
        BY <1>2, <2>1, PlaceInside DEF IInv
    <2>5. b \in Span(Place(r, c, k), Size(maxLength[r], c)) /\ Size(maxLength[r], c) >= 1
        <3>1. /\ Written(r, c, rows_[r][cell].length) \in Nat
              /\ Written(r, c, rows_[r][cell].length) <= Size(maxLength[r], c)
            BY <2>1, <2>3, WrittenFits DEF IInv
        <3>2. Size(maxLength[r], c) \in Nat
            BY <2>1, Layout DEF IInv
        <3> QED
            BY <1>11, <2>2, <2>4, <3>1, <3>2 DEF Span
    <2>6. rowSize(r) >= 1
        <3>1. /\ Offset(maxLength[r], c) \in Nat /\ Size(maxLength[r], c) \in Nat
              /\ Offset(maxLength[r], c) + Size(maxLength[r], c) <= rowSize(r)
            BY <2>1, Layout DEF IInv
        <3> QED
            BY <2>5, <3>1, <1>7
    <2>7. ASSUME NEW d \in present, b \in bytes[d] PROVE FALSE
        <3>1. d \in Columns
            BY DEF present
        <3>2. PICK l \in 0..rowPos_[r] : target[d] = Place(r, d, l)
            BY <1>8, <3>1
        <3>3. l \in Nat /\ b \in Span(Place(r, d, l), Size(maxLength[r], d))
            BY <1>2, <1>9, <2>7, <3>2
        <3>4. c = d /\ k = l
            BY <2>1, <2>4, <2>5, <3>1, <3>3, Apart DEF IInv
        <3>5. Place(r, c, k) + rowSize(r) <= Place(r, c, k)
            BY <2>3, <3>2, <3>4
        <3> QED
            BY <3>5, <2>4, <2>6, <1>7
    <2>8. wrote(b) = {}
        BY <2>7
    <2> QED
        BY <1>5, <2>3, <2>8
\* The type invariant.
<1>12. TypeOK'
    <2>1. Columns' = Columns /\ Cells' = Cells
        BY <1>1 DEF Columns, Cells
    <2>2. rowPos_' \in [Results -> 0..MaxRows]
        BY <1>1, <1>2 DEF IInv, TypeOK, row
    <2>3. target' \in [Columns -> Nat]
        <3>1. \A c \in Columns : target'[c] \in Nat
            BY <1>6, <1>7
        <3> QED
            BY <1>3, <3>1
    <2>4. rows_' \in [Results -> [Cells -> [value : Nat \cup {Null, Unset}, length : Nat]]]
        <3>1. ASSUME NEW cell \in Cells
              PROVE  rows_'[r][cell] \in [value : Nat \cup {Null, Unset}, length : Nat]
            <4>1. CASE cell[1] # row
                BY <1>5, <4>1 DEF IInv, TypeOK
            <4>2. CASE cell[1] = row /\ cell[2] \in present
                <5>1. cell[2] \in Columns /\ fetched[cell[2]] \in Nat
                    BY <1>4, <4>2, WrittenFits DEF IInv, present
                <5> QED
                    BY <1>5, <1>6, <4>2, <5>1
            <4>3. CASE cell[1] = row /\ cell[2] \notin present
                BY <1>5, <4>3
            <4> QED
                BY <4>1, <4>2, <4>3
        <3>2. rows_'[r] \in [Cells -> [value : Nat \cup {Null, Unset}, length : Nat]]
            <4>1. rows_'[r] = [cell \in Cells |-> rows_'[r][cell]]
                BY <1>5
            <4> HIDE <1>5
            <4> QED
                BY <3>1, <4>1
        <3>3. rows_' = [rows_ EXCEPT ![r] = rows_'[r]]
            BY <1>3 DEF IInv, TypeOK
        <3> QED
            BY <3>2, <3>3 DEF IInv, TypeOK
    <2>5. ASSUME NEW q \in Results, NEW b \in DOMAIN data'[q]
          PROVE  b \in Nat /\ data'[q][b] \in Cells
        <3>1. CASE q # r
            BY <1>5, <3>1 DEF IInv, TypeOK
        <3>2. CASE q = r /\ wrote(b) = {}
            <4>1. b \in DOMAIN data[r]
                <5>1. b \notin written
                    BY <3>2
                <5> HIDE DEF wrote, written
                <5> QED
                    BY <1>5, <3>2, <5>1
            <4> HIDE DEF wrote, written
            <4> QED
                BY <1>5, <3>2, <4>1 DEF IInv, TypeOK
        <3>3. CASE q = r /\ wrote(b) # {}
            <4>1. PICK c \in present : b \in bytes[c]
                BY <3>3
            <4>2. b \in Nat /\ data'[r][b] = <<row, c>>
                BY <1>10, <4>1
            <4> QED
                BY <1>2, <3>3, <4>2 DEF Cells, present
        <3> QED
            BY <3>1, <3>2, <3>3
    <2> QED
        BY <1>1, <1>5, <2>1, <2>2, <2>3, <2>4, <2>5 DEF IInv, TypeOK
<1>13. OneAtATime'
    BY <1>1, <1>2, <1>5 DEF IInv, OneAtATime, row
<1>14. FillingOwns' /\ FreedOnce'
    BY <1>1 DEF IInv, FillingOwns, FreedOnce
<1>15. \A c, k : Place(r, c, k)' = Place(r, c, k)
    BY <1>1 DEF Place, Offset, rowSize
<1>16. TargetInv'
    <2>1. \A q \in Results : state'[q] = "filling" => q = r
        BY <1>1 DEF IInv, OneAtATime
    <2>2. ASSUME NEW c \in Columns
          PROVE  \E k \in 0..rowPos_'[r] : target'[c] = Place(r, c, k)
        <3>1. PICK k \in 0..rowPos_[r] : target[c] = Place(r, c, k)
            BY <1>8
        <3>2. k \in 0..rowPos_'[r] /\ k + 1 \in 0..rowPos_'[r] /\ k \in Nat
            BY <1>2, <1>5 DEF row
        <3>3. Place(r, c, k) + rowSize(r) = Place(r, c, k + 1)
            BY <3>2, PlaceInside DEF IInv
        <3> QED
            BY <1>6, <3>1, <3>2, <3>3
    <2> QED
        BY <1>1, <1>15, <2>1, <2>2 DEF TargetInv, Columns
<1>17. CellsInv'
    <2>1. ASSUME NEW q \in Results, q # r, NEW cell \in Cells', HasValue(q, cell)'
          PROVE  CellInv(q, cell)'
        <3>1. state'[q] # "filling"
            BY <1>1, <2>1 DEF IInv, OneAtATime
        <3> QED
            BY <1>1, <1>5, <2>1, <3>1, CellsKept DEF IInv
    <2>2. ASSUME NEW cell \in Cells', HasValue(r, cell)' PROVE CellInv(r, cell)'
        <3> DEFINE c == cell[2]
        <3>1. cell \in Cells /\ c \in Columns /\ cell = <<cell[1], c>>
            BY <1>1 DEF Cells, Columns
        <3>2. /\ state'[r] = "filling" /\ rowSize(r)' = rowSize(r) /\ Lengths(r, c)' = Lengths(r, c)
              /\ \A n : Written(r, c, n)' = Written(r, c, n)
            BY <1>1 DEF rowSize, Offset, Lengths, Written, Size
        <3>3. CASE cell[1] # row
            <4>1. rows_'[r][cell] = rows_[r][cell]
                BY <1>5, <3>1, <3>3
            <4>2. HasValue(r, cell) /\ CellInv(r, cell)
                BY <2>2, <3>1, <4>1 DEF HasValue, IInv, CellsInv
            <4>3. rows_[r][cell].value + rowSize(r) <= target'[c]
                <5>1. rows_[r][cell].value + rowSize(r) <= target[c]
                    BY <1>1, <4>2 DEF CellInv
                <5>2. PICK k \in 0..(rowCount_[r] - 1) : rows_[r][cell].value = Place(r, c, k)
                    BY <4>2 DEF CellInv
                <5>3. rows_[r][cell].value \in Nat
                    BY <1>2, <3>1, <5>2, PlaceInside DEF IInv
                <5> QED
                    BY <1>6, <1>7, <3>1, <5>1, <5>3
            <4>4. \A b \in Span(rows_[r][cell].value, Written(r, c, rows_[r][cell].length)) :
                    b \in DOMAIN data'[r] /\ data'[r][b] = cell
                BY <1>11, <3>1, <4>2
            <4> QED
                BY <1>1, <1>15, <3>2, <4>1, <4>2, <4>3, <4>4 DEF CellInv
        <3>4. CASE cell[1] = row
            <4>1. c \in present
                BY <1>5, <2>2, <3>1, <3>4 DEF HasValue
            <4>2. rows_'[r][cell] = [value |-> target[c], length |-> fetched[c]]
                BY <1>5, <3>1, <3>4, <4>1
            <4>3. PICK k \in 0..rowPos_[r] : target[c] = Place(r, c, k)
                BY <1>8, <3>1
            <4>4. k \in 0..(rowCount_'[r] - 1)
                BY <1>1, <1>2
            <4>5. \A b \in Span(target[c], Written(r, c, fetched[c])) :
                    b \in DOMAIN data'[r] /\ data'[r][b] = cell
                BY <1>10, <3>1, <3>4, <4>1
            <4>6. target[c] + rowSize(r) <= target'[c]
                BY <1>6, <1>7, <3>1, <4>1
            <4>7. fetched[c] \in Lengths(r, c)
                BY <1>4, <4>1
            <4> QED
                BY <1>15, <3>2, <4>2, <4>3, <4>4, <4>5, <4>6, <4>7 DEF CellInv
        <3> QED
            BY <3>3, <3>4
    <2> QED
        BY <2>1, <2>2 DEF CellsInv, Results
<1> QED
    BY <1>12, <1>13, <1>14, <1>16, <1>17 DEF IInv

\* The end of the constructor, which also ends a fetch that failed.
LEMMA FinishKeeps ==
    ASSUME IInv, NEW r \in Results, Finish(r)
    PROVE  IInv'
<1>1. /\ state[r] = "filling" /\ failed' = (failed \/ rowPos_[r] < rowCount_[r])
      /\ state' = [state EXCEPT ![r] = "ready"]
      /\ rowPos_' = [rowPos_ EXCEPT ![r] = 0]
      /\ UNCHANGED <<types, maxLength, made, rowCount_, rows_, bind_, data, target, arrays, closed, freed>>
    BY DEF Finish
<1>2. /\ state'[r] = "ready" /\ rowPos_'[r] = 0
      /\ \A q \in Results : q # r => state'[q] = state[q] /\ rowPos_'[q] = rowPos_[q]
      /\ \A q \in Results : q # r => state[q] # "filling"
    BY <1>1 DEF IInv, TypeOK, OneAtATime
<1>3. TypeOK'
    <2>1. failed' \in BOOLEAN /\ rowPos_' \in [Results -> 0..MaxRows]
        BY <1>1, BoundsAssumption DEF IInv, TypeOK
    <2> QED
        BY <1>1, <2>1 DEF IInv, TypeOK, Cells, Columns
<1>4. OneAtATime'
    BY <1>1, <1>2 DEF IInv, OneAtATime
<1>5. FillingOwns' /\ TargetInv'
    BY <1>2 DEF FillingOwns, TargetInv
<1>6. FreedOnce'
    BY <1>1, <1>2 DEF IInv, FreedOnce
<1>7. CellsInv'
    <2>1. ASSUME NEW q \in Results, NEW cell \in Cells', HasValue(q, cell)' PROVE CellInv(q, cell)'
        <3>1. state'[q] # "filling"
            BY <1>2
        <3>2. state[q] \in {"filling", "ready"} => state'[q] \in {"filling", "ready"}
            BY <1>2
        <3> QED
            BY <1>1, <2>1, <3>1, <3>2, CellsKept DEF IInv
    <2> QED
        BY <2>1 DEF CellsInv, Results
<1> QED
    BY <1>3, <1>4, <1>5, <1>6, <1>7 DEF IInv

LEMMA NextRowKeeps ==
    ASSUME IInv, NEW r \in Results, NextRow(r)
    PROVE  IInv'
<1>1. /\ state[r] = "ready" /\ rowPos_[r] < rowCount_[r]
      /\ rowPos_' = [rowPos_ EXCEPT ![r] = @ + 1]
      /\ UNCHANGED <<types, maxLength, made, state, rowCount_, rows_, bind_, data, target, arrays, closed, freed, failed>>
    BY DEF NextRow
<1>2. \A q \in Results : q # r => rowPos_'[q] = rowPos_[q]
    BY <1>1 DEF IInv, TypeOK
<1>3. TypeOK'
    <2>1. rowPos_' \in [Results -> 0..MaxRows]
        BY <1>1, BoundsAssumption DEF IInv, TypeOK
    <2> QED
        BY <1>1, <2>1 DEF IInv, TypeOK, Cells, Columns
<1>4. OneAtATime'
    BY <1>1, <1>2 DEF IInv, OneAtATime
<1>5. FillingOwns' /\ FreedOnce'
    BY <1>1 DEF IInv, FillingOwns, FreedOnce
<1>6. TargetInv'
    <2>1. \A q, c, k : Place(q, c, k)' = Place(q, c, k)
        BY <1>1 DEF Place, Offset, rowSize
    <2> QED
        BY <1>1, <1>2, <2>1 DEF IInv, TargetInv, Columns
<1>7. CellsInv'
    <2>1. ASSUME NEW q \in Results, NEW cell \in Cells', HasValue(q, cell)' PROVE CellInv(q, cell)'
        BY <1>1, <2>1, CellsKept DEF IInv
    <2> QED
        BY <2>1 DEF CellsInv, Results
<1> QED
    BY <1>3, <1>4, <1>5, <1>6, <1>7 DEF IInv

LEMMA DeleteKeeps ==
    ASSUME IInv, NEW r \in Results, Delete(r)
    PROVE  IInv'
<1>1. /\ state[r] = "ready"
      /\ state' = [state EXCEPT ![r] = "deleted"]
      /\ rows_' = [rows_ EXCEPT ![r] = NoRows]
      /\ data' = [data EXCEPT ![r] = NoData]
      /\ UNCHANGED <<types, maxLength, made, rowCount_, rowPos_, bind_, target, arrays, closed, failed>>
    BY DEF Delete
<1>2. /\ state'[r] = "deleted" /\ rows_'[r] = NoRows /\ DOMAIN data'[r] = {} /\ DOMAIN data' = Results
      /\ \A q \in Results : q # r => state'[q] = state[q] /\ rows_'[q] = rows_[q] /\ data'[q] = data[q]
    BY <1>1 DEF IInv, TypeOK, NoData
<1>3. /\ freed' \in [Whats -> [Results -> Nat]]
      /\ freed'["arrays"] = freed["arrays"]
      /\ \A what \in {"bind", "data"}, q \in Results :
            freed'[what][q] = IF q = r /\ bind_[r] THEN freed[what][q] + 1 ELSE freed[what][q]
    <2>1. freed \in [Whats -> [Results -> Nat]]
        BY DEF IInv, TypeOK, Whats
    <2>2. CASE bind_[r]
        <3>1. freed' = [freed EXCEPT !["bind"][r] = @ + 1, !["data"][r] = @ + 1]
            BY <2>2 DEF Delete
        <3> QED
            BY <2>1, <2>2, <3>1 DEF Whats
    <2>3. CASE ~bind_[r]
        <3>1. freed' = freed
            BY <2>3 DEF Delete
        <3> QED
            BY <2>1, <2>3, <3>1
    <2> QED
        BY <2>2, <2>3
<1>4. TypeOK'
    <2>1. NoRows \in [Cells -> [value : Nat \cup {Null, Unset}, length : Nat]]
        BY DEF NoRows
    <2>2. rows_' \in [Results -> [Cells -> [value : Nat \cup {Null, Unset}, length : Nat]]]
        BY <1>1, <2>1 DEF IInv, TypeOK
    <2>3. \A q \in Results : \A b \in DOMAIN data'[q] : b \in Nat /\ data'[q][b] \in Cells
        BY <1>2 DEF IInv, TypeOK
    <2>4. state' \in [Results -> {"none", "filling", "ready", "deleted"}]
        BY <1>1 DEF IInv, TypeOK
    <2>5. Cells' = Cells /\ Columns' = Columns
        BY <1>1 DEF Cells, Columns
    <2> QED
        BY <1>1, <1>2, <1>3, <2>2, <2>3, <2>4, <2>5 DEF IInv, TypeOK, Whats
<1>5. OneAtATime'
    BY <1>1, <1>2 DEF IInv, OneAtATime
<1>6. FillingOwns'
    BY <1>1, <1>2 DEF IInv, FillingOwns
<1>7. TargetInv'
    <2>1. \A q, c, k : Place(q, c, k)' = Place(q, c, k)
        BY <1>1 DEF Place, Offset, rowSize
    <2> QED
        BY <1>1, <1>2, <2>1 DEF IInv, TargetInv, Columns
<1>8. FreedOnce'
    <2>1. SUFFICES ASSUME ~failed, NEW q \in Results
                   PROVE  /\ \A what \in {"bind", "data"} :
                                freed'[what][q] = IF bind_[q] /\ state'[q] = "deleted" THEN 1 ELSE 0
                          /\ freed'["arrays"][q] = IF bind_[q] /\ (arrays # q \/ closed) THEN 1 ELSE 0
        BY <1>1 DEF FreedOnce, Results
    <2>2. /\ \A what \in {"bind", "data"} :
                freed[what][q] = IF bind_[q] /\ state[q] = "deleted" THEN 1 ELSE 0
          /\ freed["arrays"][q] = IF bind_[q] /\ (arrays # q \/ closed) THEN 1 ELSE 0
        BY <2>1 DEF IInv, FreedOnce
    <2>3. CASE q = r
        BY <1>1, <1>2, <1>3, <2>2, <2>3
    <2>4. CASE q # r
        BY <1>2, <1>3, <2>2, <2>4
    <2> QED
        BY <2>3, <2>4
<1>9. CellsInv'
    <2>1. ASSUME NEW q \in Results, q # r, NEW cell \in Cells', HasValue(q, cell)'
          PROVE  CellInv(q, cell)'
        <3>1. state'[q] = state[q]
            BY <1>2, <2>1
        <3> QED
            BY <1>1, <1>2, <2>1, <3>1, CellsKept DEF IInv
    <2>2. ASSUME NEW cell \in Cells' PROVE ~HasValue(r, cell)'
        BY <1>1, <1>2 DEF HasValue, NoRows, Cells, Columns
    <2> QED
        BY <2>1, <2>2 DEF CellsInv, Results
<1> QED
    BY <1>4, <1>5, <1>6, <1>7, <1>8, <1>9 DEF IInv

\* The end of the statement frees the last arrays.
LEMMA CloseStatementKeeps ==
    ASSUME IInv, CloseStatement
    PROVE  IInv'
<1>1. /\ ~closed /\ closed' = TRUE /\ freed' = FreeOldArrays(freed)
      /\ \A q \in Results : state[q] # "filling"
      /\ UNCHANGED <<types, made, state, resultVars, target, arrays, failed>>
    BY DEF CloseStatement
<1>2. UNCHANGED <<maxLength, rowCount_, rowPos_, rows_, bind_, data>>
    BY <1>1 DEF resultVars
<1>3. /\ freed' \in [Whats -> [Results -> Nat]]
      /\ freed'["bind"] = freed["bind"] /\ freed'["data"] = freed["data"]
      /\ \A q \in Results : freed'["arrays"][q] =
            IF q = arrays THEN freed["arrays"][q] + 1 ELSE freed["arrays"][q]
    BY <1>1, OldArrays DEF IInv
<1>4. TypeOK'
    BY <1>1, <1>2, <1>3 DEF IInv, TypeOK, Whats, Cells, Columns
<1>5. OneAtATime'
    BY <1>1, <1>2 DEF IInv, OneAtATime
<1>6. FillingOwns' /\ TargetInv'
    BY <1>1 DEF FillingOwns, TargetInv
<1>7. FreedOnce'
    <2>1. SUFFICES ASSUME ~failed, NEW q \in Results
                   PROVE  /\ \A what \in {"bind", "data"} :
                                freed'[what][q] = IF bind_[q] /\ state[q] = "deleted" THEN 1 ELSE 0
                          /\ freed'["arrays"][q] = IF bind_[q] THEN 1 ELSE 0
        BY <1>1, <1>2 DEF FreedOnce, Results
    <2>2. /\ \A what \in {"bind", "data"} :
                freed[what][q] = IF bind_[q] /\ state[q] = "deleted" THEN 1 ELSE 0
          /\ freed["arrays"][q] = IF bind_[q] /\ arrays # q THEN 1 ELSE 0
        BY <1>1, <2>1 DEF IInv, FreedOnce
    <2>3. q = arrays => bind_[q]
        BY DEF IInv, OneAtATime, Results
    <2> QED
        BY <1>3, <2>2, <2>3
<1>8. CellsInv'
    <2>1. ASSUME NEW q \in Results, NEW cell \in Cells', HasValue(q, cell)' PROVE CellInv(q, cell)'
        BY <1>1, <1>2, <2>1, CellsKept DEF IInv
    <2> QED
        BY <2>1 DEF CellsInv, Results
<1> QED
    BY <1>4, <1>5, <1>6, <1>7, <1>8 DEF IInv

\* Every step keeps the inductive invariant.
LEMMA StepIInv == IInv /\ [Next]_vars => IInv'
<1> SUFFICES ASSUME IInv, [Next]_vars PROVE IInv'
    OBVIOUS
<1>1. ASSUME NEW r \in Results,
             \/ ConstructEmpty(r) \/ StoreFails(r) \/ BindFails(r) \/ Construct(r)
             \/ FetchRow(r) \/ Finish(r) \/ NextRow(r) \/ Delete(r)
      PROVE  IInv'
    BY <1>1, ConstructEmptyKeeps, StoreFailsKeeps, BindFailsKeeps, ConstructKeeps,
       FetchRowKeeps, FinishKeeps, NextRowKeeps, DeleteKeeps
<1>2. CASE UNCHANGED vars
    <2>1. UNCHANGED <<types, made, state, maxLength, rowCount_, rowPos_, rows_, bind_, data,
                      target, arrays, closed, freed, failed>>
        BY <1>2 DEF vars, resultVars
    <2>2. TypeOK'
        BY <2>1 DEF IInv, TypeOK, Cells, Columns
    <2>3. OneAtATime' /\ FillingOwns'
        BY <2>1 DEF IInv, OneAtATime, FillingOwns
    <2>4. FreedOnce'
        BY <2>1 DEF IInv, FreedOnce
    <2>5. TargetInv'
        BY <2>1 DEF IInv, TargetInv, Place, Offset, rowSize, Columns
    <2>6. ASSUME NEW q \in Results, NEW cell \in Cells', HasValue(q, cell)' PROVE CellInv(q, cell)'
        BY <2>1, <2>6, CellsKept DEF IInv
    <2>7. CellsInv'
        BY <2>6 DEF CellsInv, Results
    <2> QED
        BY <2>2, <2>3, <2>4, <2>5, <2>7 DEF IInv
<1> QED
    BY <1>1, <1>2, CloseStatementKeeps DEF Next

\* In every execution the invariant holds.
THEOREM Invariance == Spec => []IInv
BY InitIInv, StepIInv, PTL DEF Spec

------------------------------------------------------------------------------
\* The theorems.

\* As long as the client library does not fail, binding and data are freed exactly once, with
\* their result, and the arrays exactly once, with the next result or the statement
\* (QueryResult.cpp:267-271, 401-415).
THEOREM EverythingFreedOnce == Spec => []FreedOnce
<1>1. IInv => FreedOnce
    BY DEF IInv
<1> QED
    BY Invariance, <1>1, PTL

\* The bytes of every value stay where its Field says and inside the buffer, for any columns,
\* texts, NULLs and rows (QueryResult.cpp:317-324, 341-387).
THEOREM CellsStayIntact == Spec => []CellsIntact
<1>1. ASSUME IInv PROVE CellsIntact
    <2>1. SUFFICES ASSUME NEW r \in Results, NEW cell \in Cells, HasValue(r, cell),
                          NEW b \in Span(rows_[r][cell].value,
                                         Written(r, cell[2], rows_[r][cell].length))
                   PROVE  /\ b < rowSize(r) * rowCount_[r]
                          /\ b \in DOMAIN data[r] /\ data[r][b] = cell
        BY DEF CellsIntact
    <2> DEFINE c == cell[2]
    <2>2. CellInv(r, cell) /\ c \in Columns
        BY <1>1, <2>1 DEF IInv, CellsInv, Cells
    <2>3. PICK k \in 0..(rowCount_[r] - 1) : rows_[r][cell].value = Place(r, c, k)
        BY <2>2 DEF CellInv
    <2>4. k \in Nat /\ rowCount_[r] \in Nat /\ k < rowCount_[r]
        BY <1>1, BoundsAssumption DEF IInv, TypeOK
    <2>5. /\ Place(r, c, k) \in Nat /\ Size(maxLength[r], c) \in Nat
          /\ Place(r, c, k) + Size(maxLength[r], c) <= rowSize(r) * rowCount_[r]
        BY <1>1, <2>2, <2>4, PlaceInside, Layout DEF IInv
    <2>6. /\ Written(r, c, rows_[r][cell].length) \in Nat
          /\ Written(r, c, rows_[r][cell].length) <= Size(maxLength[r], c)
        BY <1>1, <2>2, WrittenFits DEF IInv, CellInv
    <2>7. rowSize(r) * rowCount_[r] \in Nat
        BY <1>1, <2>4, Layout DEF IInv
    <2>8. b < rowSize(r) * rowCount_[r]
        BY <2>1, <2>3, <2>5, <2>6, <2>7 DEF Span
    <2> QED
        BY <2>1, <2>2, <2>8 DEF CellInv
<1> QED
    BY Invariance, <1>1, PTL

\* What the guideline names, without what is not safe.
SafePairs == Guided \ (DecimalsAsDoubles \cup BlobsAsCStrings)

\* The getter of a number takes as many bytes, for the same kind of number, as were stored;
\* a text is only read as a text, and with a NUL behind it only if it is a string.
LEMMA GettersFollow ==
    ASSUME NEW pair \in SafePairs, NEW length
    PROVE  \/ /\ pair[1] \in DOMAIN Number
              /\ Getter(pair[2], length) = Number[pair[1]]
           \/ /\ pair[1] \in TextTypes \ DOMAIN Number
              /\ \/ Getter(pair[2], length) = <<"text", length>>
                 \/ pair[1] \in Strings /\ Getter(pair[2], length) = <<"text", length + 1>>
<1>1. PICK line \in Guideline : pair \in line[1] \X line[2]
    BY DEF SafePairs, Guided
<1>2. pair = <<pair[1], pair[2]>> /\ pair[1] \in line[1] /\ pair[2] \in line[2]
    BY <1>1 DEF Guideline
<1>3. pair \notin Decimals \X {"getDouble"} /\ pair \notin Blobs \X {"getCString"}
    BY DEF SafePairs, DecimalsAsDoubles, BlobsAsCStrings
<1>4. CASE line[1] \cap TextTypes = {}
    <2>1. \/ pair[1] = "TINY" /\ pair[2] = "getInt8"
          \/ pair[1] = "SHORT" /\ pair[2] = "getInt16"
          \/ pair[1] \in {"INT24", "LONG"} /\ pair[2] = "getInt32"
          \/ pair[1] = "LONGLONG" /\ pair[2] = "getInt64"
          \/ pair[1] = "FLOAT" /\ pair[2] = "getFloat"
          \/ pair[1] = "DOUBLE" /\ pair[2] = "getDouble"
        BY <1>1, <1>2, <1>3, <1>4 DEF Guideline, TextTypes, Blobs, Strings
    <2> QED
        BY <2>1 DEF Getter, Number
<1>5. CASE line[1] \in {Blobs, Strings}
    <2>1. pair[1] \in line[1] /\ pair[2] \in {"getCString", "getString", "getBinary"}
        BY <1>1, <1>2, <1>5 DEF Guideline, Blobs, Strings, Decimals
    <2>2. pair[2] = "getCString" => pair[1] \in Strings
        BY <1>2, <1>3, <1>5, <2>1 DEF Blobs, Strings
    <2>3. pair[1] \in TextTypes \ DOMAIN Number
        BY <1>5, <2>1 DEF TextTypes, Blobs, Strings, Number
    <2>4. IF pair[2] = "getCString" THEN Getter(pair[2], length) = <<"text", length + 1>>
                                    ELSE Getter(pair[2], length) = <<"text", length>>
        BY <2>1 DEF Getter
    <2> QED
        BY <2>2, <2>3, <2>4
<1>6. line[1] \cap TextTypes = {} \/ line[1] \in {Blobs, Strings}
    BY <1>1 DEF Guideline, TextTypes, Blobs, Strings, Decimals
<1> QED
    BY <1>4, <1>5, <1>6

\* The getters that the guideline names, but for a DECIMAL as a double and a blob as a C
\* string, read the value they are called for, all of it and nothing else
\* (Field.cpp:8-147, QueryResult.cpp:13-60, 355-369, 373).
THEOREM GuidelineIsSafe == Spec => []GuidelineReads
<1>1. ASSUME IInv PROVE GuidelineReads
    <2>1. SUFFICES ASSUME NEW r \in Results, NEW cell \in Cells, HasValue(r, cell),
                          NEW pair \in SafePairs, pair[1] = types[cell[2]]
                   PROVE  ReadsValue(pair[2], r, cell)
        BY DEF GuidelineReads, Safe, SafePairs
    <2> DEFINE c == cell[2]
               type == types[cell[2]]
               value == rows_[r][cell].value
               length == rows_[r][cell].length
               read == Getter(pair[2], length)
    <2>2. CellInv(r, cell) /\ c \in Columns
        BY <1>1, <2>1 DEF IInv, CellsInv, Cells
    <2>3. /\ length \in Lengths(r, c) /\ length \in Nat
          /\ Needed(type, length) <= Size(maxLength[r], c)
                => Written(r, c, length) = Needed(type, length)
        BY <1>1, <2>2, WrittenFits DEF IInv, CellInv
    <2>4. /\ read[1] = Stored(type, length)[1] /\ read[2] >= Stored(type, length)[2]
          /\ read[2] \in 0..Written(r, c, length)
        <3>1. CASE type \in DOMAIN Number
            <4>1. read = Number[type]
                BY <2>1, <3>1, GettersFollow
            <4>2. /\ Number[type][2] \in Nat /\ length = Number[type][2]
                  /\ Size(maxLength[r], c) = Number[type][2]
                <5>1. Number[type][2] \in Nat /\ Number[type][2] = SizeForType(type, maxLength[r][c])
                    BY <3>1, NumberFits
                <5>2. length = Number[type][2]
                    <6>1. type \notin {"BIT", "NULL"} \cup Times \cup Decimals \cup TextTypes
                        BY <3>1 DEF Number, Times, Decimals, TextTypes, Blobs, Strings
                    <6> QED
                        BY <2>3, <3>1, <6>1 DEF Lengths
                <5>3. Size(maxLength[r], c) = SizeForType(type, maxLength[r][c])
                    BY DEF Size
                <5> QED
                    BY <5>1, <5>2, <5>3
            <4>3. type \notin Strings \cup Decimals
                BY <3>1 DEF Number, Strings, Decimals
            <4>4. Written(r, c, length) = length
                BY <2>3, <4>2, <4>3 DEF Needed
            <4> QED
                BY <3>1, <4>1, <4>2, <4>4 DEF Stored
        <3>2. CASE type \notin DOMAIN Number
            <4>1. /\ type \in TextTypes
                  /\ \/ read = <<"text", length>>
                     \/ type \in Strings /\ read = <<"text", length + 1>>
                BY <2>1, <3>2, GettersFollow
            <4>2. maxLength[r][c] \in Nat /\ length \in 0..maxLength[r][c]
                BY <1>1, <2>2, <2>3, <3>2, <4>1, Layout
                   DEF Lengths, IInv, TextTypes, Blobs, Strings, Decimals, Times
            <4>3. Size(maxLength[r], c) = maxLength[r][c] + 1
                BY <4>1 DEF Size, SizeForType, TextTypes, Blobs, Strings, Decimals, Times
            <4>4. Written(r, c, length) = Needed(type, length)
                BY <2>3, <4>2, <4>3 DEF Needed
            <4>5. Needed(type, length) \in {length, length + 1}
                  /\ (type \in Strings => Needed(type, length) = length + 1)
                BY DEF Needed
            <4>6. Stored(type, length) = <<"text", length>>
                BY <3>2 DEF Stored
            <4> QED
                BY <2>3, <4>1, <4>4, <4>5, <4>6
        <3> QED
            BY <3>1, <3>2
    <2>5. Written(r, c, length) \in Nat /\ value \in Nat
        <3>1. PICK k \in 0..(rowCount_[r] - 1) : value = Place(r, c, k)
            BY <2>2 DEF CellInv
        <3>2. k \in Nat
            BY <1>1 DEF IInv, TypeOK
        <3> QED
            BY <1>1, <2>2, <2>3, <3>1, <3>2, PlaceInside, WrittenFits DEF IInv
    <2>6. Span(value, read[2]) \subseteq Span(value, Written(r, c, length))
        BY <2>4, <2>5 DEF Span
    <2> QED
        BY <2>2, <2>4, <2>6 DEF ReadsValue, CellInv
<1> QED
    BY Invariance, <1>1, PTL
==============================================================================
