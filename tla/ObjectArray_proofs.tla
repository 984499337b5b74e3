------------------------- MODULE ObjectArray_proofs -------------------------
(***************************************************************************)
(* The arrays of objects are compact, leak nothing and implement the       *)
(* catalogue, for any IDs, addresses and chunk.                            *)
(***************************************************************************)
EXTENDS ObjectArray, TLAPS

\* The objects fill the first n of m slots, every live object is in one of
\* them, and no two have the same ID.
WellFormed(s, h, m, n) ==
    /\ n <= m
    /\ \A i \in 1..m : s[i] # NULL <=> i <= n
    /\ \A i \in 1..n : h[s[i]] # NULL
    /\ \A o \in Objects : h[o] # NULL => \E i \in 1..n : s[i] = o
    /\ \A i, j \in 1..n : h[s[i]] = h[s[j]] => i = j

ArrayInv == TypeOK /\ (fate = "Defined" => WellFormed(slots, heap, max, num))

Typed(s, h, m, n) ==
    /\ m \in Nat /\ n \in Nat
    /\ s \in [1..m -> Objects \cup {NULL}]
    /\ h \in [Objects -> Ids \cup {NULL}]

-----------------------------------------------------------------------------
\* The first of a set of numbers is the one that no other is below.
LEMMA FirstIs ==
    ASSUME NEW S \in SUBSET Nat, NEW e \in S, \A j \in S : e <= j
    PROVE  First(S) = e
  <1>1. First(S) \in S /\ \A j \in S : First(S) <= j
    BY Zenon DEF First
  <1>2. First(S) \in Nat /\ e \in Nat
    BY <1>1
  <1>3. First(S) <= e /\ e <= First(S)
    BY <1>1
  <1> HIDE DEF First
  <1> QED
    BY <1>2, <1>3

\* The filled slots of a well-formed array are the first n.
LEMMA FilledIs ==
    ASSUME NEW s, NEW h, NEW m, NEW n, Typed(s, h, m, n), WellFormed(s, h, m, n)
    PROVE  Filled(s) = 1..n
  BY DEF Typed, WellFormed, Filled

\* The slots that hold an ID are at most one.
LEMMA MatchingIs ==
    ASSUME NEW s, NEW h, NEW m, NEW n, Typed(s, h, m, n), WellFormed(s, h, m, n),
           NEW k \in Ids
    PROVE  /\ Matching(s, h, k) = {i \in 1..n : h[s[i]] = k}
           /\ \A i \in Matching(s, h, k) : First(Matching(s, h, k)) = i
  <1>1. Matching(s, h, k) = {i \in 1..n : h[s[i]] = k}
    BY FilledIs DEF Matching
  <1>2. SUFFICES ASSUME NEW i \in Matching(s, h, k)
                 PROVE  First(Matching(s, h, k)) = i
    BY <1>1
  <1>3. n \in Nat /\ \A j \in Matching(s, h, k) : j = i
    BY <1>1 DEF Typed, WellFormed
  <1>4. Matching(s, h, k) \in SUBSET Nat /\ \A j \in Matching(s, h, k) : i <= j
    BY <1>1, <1>3
  <1> QED
    BY <1>4, FirstIs

\* What is found under an ID is the object that lives under it.
LEMMA FindIs ==
    ASSUME NEW s, NEW h, NEW m, NEW n, Typed(s, h, m, n), WellFormed(s, h, m, n),
           NEW k \in Ids
    PROVE  /\ \A o \in Objects : h[o] = k => FindIn(s, h, k) = o
           /\ (\A o \in Objects : h[o] # k) => FindIn(s, h, k) = NULL
  <1>1. /\ Matching(s, h, k) = {i \in 1..n : h[s[i]] = k}
        /\ \A i \in Matching(s, h, k) : First(Matching(s, h, k)) = i
    BY MatchingIs
  <1>2. \A i \in 1..n : s[i] \in Objects
    BY DEF Typed, WellFormed
  <1>3. ASSUME NEW o \in Objects, h[o] = k
        PROVE  FindIn(s, h, k) = o
    <2>1. h[o] # NULL
      BY <1>3, ArrayAssumption
    <2>2. PICK i \in 1..n : s[i] = o
      BY <2>1 DEF WellFormed
    <2>3. i \in Matching(s, h, k)
      BY <1>1, <1>3, <2>2
    <2> QED
      BY <1>1, <2>2, <2>3 DEF FindIn
  <1>4. (\A o \in Objects : h[o] # k) => Matching(s, h, k) = {}
    BY <1>1, <1>2
  <1> QED
    BY <1>3, <1>4 DEF FindIn

-----------------------------------------------------------------------------
LEMMA InvTyped ==
    ASSUME ArrayInv, fate = "Defined"
    PROVE  Typed(slots, heap, max, num) /\ WellFormed(slots, heap, max, num)
  BY DEF ArrayInv, TypeOK, Typed

\* An ID that no slot holds is no live object's.
LEMMA Unused ==
    ASSUME ArrayInv, fate = "Defined", NEW k \in Ids, Matches(k) = {}
    PROVE  \A o \in Objects : heap[o] # k
  <1>1. {i \in 1..num : heap[slots[i]] = k} = {}
    BY InvTyped, MatchingIs DEF Matches
  <1> QED
    BY <1>1, InvTyped, ArrayAssumption DEF WellFormed

\* In a well-formed array a new object goes right after the others.
LEMMA InsertEffect ==
    ASSUME ArrayInv, fate = "Defined", NEW k \in Ids, NEW o \in Objects,
           Insert(k, o), fate' = "Defined"
    PROVE  /\ max' \in Nat /\ num' = num + 1 /\ num' <= max'
           /\ slots' \in [1..max' -> Objects \cup {NULL}]
           /\ \A i \in 1..max' : slots'[i] = IF i <= num THEN slots[i]
                                             ELSE IF i = num + 1 THEN o ELSE NULL
           /\ num <= max
           /\ heap' = [heap EXCEPT ![o] = k]
           /\ \A j \in Objects : heap[j] # k
  <1>1. /\ max \in Nat /\ num \in Nat /\ num <= max /\ Chunk \in Nat \ {0}
        /\ slots \in [1..max -> Objects \cup {NULL}]
        /\ \A i \in 1..max : slots[i] # NULL <=> i <= num
        /\ NULL \notin Objects
    BY ArrayAssumption DEF ArrayInv, TypeOK, WellFormed
  <1>2. /\ Room \in Nat \ {0} /\ num <= Room
        /\ Slots \in [1..Room -> Objects \cup {NULL}]
        /\ \A i \in 1..Room : Slots[i] = IF i <= num THEN slots[i] ELSE NULL
    BY <1>1 DEF Room, Slots
  <1>3. Filled(Slots) = 1..num
    BY <1>1, <1>2 DEF Filled
  <1>4. CASE num < Room
    <2>1. First((1..Room) \ Filled(Slots)) = num + 1
      <3>1. (1..Room) \ Filled(Slots) \in SUBSET Nat
        BY <1>2
      <3>2. num + 1 \in (1..Room) \ Filled(Slots)
        BY <1>1, <1>2, <1>3, <1>4
      <3>3. \A j \in (1..Room) \ Filled(Slots) : num + 1 <= j
        BY <1>1, <1>2, <1>3
      <3> HIDE DEF Filled
      <3> QED
        BY <3>1, <3>2, <3>3, FirstIs
    <2>2. Filled(Slots) # 1..Room
      BY <1>1, <1>2, <1>3, <1>4
    <2>3. slots' = [Slots EXCEPT ![num + 1] = o] /\ max' = Room
      BY <2>1, <2>2 DEF Insert
    <2> QED
      BY <1>1, <1>2, <1>4, <2>3, Unused DEF Insert
  <1>5. CASE num = Room
    <2>1. Filled(Slots) = 1..Room
      BY <1>3, <1>5
    <2>2. max = Room
      BY <1>1, <1>2, <1>5 DEF Room
    <2>3. /\ slots' = [i \in 1..(max + Chunk) |->
                         IF i <= max THEN slots[i] ELSE IF i = max + 1 THEN o ELSE NULL]
          /\ max' = max + Chunk
      BY <2>1 DEF Insert
    <2> QED
      BY <1>1, <1>5, <2>2, <2>3, Unused DEF Insert
  <1> QED
    BY <1>1, <1>2, <1>4, <1>5

\* In a well-formed array a new object takes the slot of the old one.
LEMMA ReplaceEffect ==
    ASSUME ArrayInv, fate = "Defined", NEW k \in Ids, NEW o \in Objects,
           heap[o] = NULL, Replace(k, o), fate' = "Defined"
    PROVE  \E at \in 1..num :
             /\ heap[slots[at]] = k
             /\ slots' = [slots EXCEPT ![at] = o]
             /\ heap' = [heap EXCEPT ![slots[at]] = NULL, ![o] = k]
             /\ max' = max /\ num' = num /\ num <= max
  <1>1. /\ max \in Nat /\ num \in Nat /\ num <= max
        /\ slots \in [1..max -> Objects \cup {NULL}]
        /\ \A i \in 1..max : slots[i] # NULL <=> i <= num
        /\ NULL \notin Objects
    BY ArrayAssumption DEF ArrayInv, TypeOK, WellFormed
  <1>2. /\ Matches(k) = {i \in 1..num : heap[slots[i]] = k}
        /\ \A i \in Matches(k) : First(Matches(k)) = i
    BY InvTyped, MatchingIs DEF Matches
  <1>3. PICK at \in 1..num : heap[slots[at]] = k /\ First(Matches(k)) = at
    BY <1>2 DEF Replace
  <1> DEFINE emptied == [slots EXCEPT ![at] = NULL]
  <1>4. First((1..max) \ Filled(emptied)) = at
    <2>1. Filled(emptied) = (1..num) \ {at}
      BY <1>1, <1>3 DEF Filled
    <2> HIDE DEF emptied
    <2>2. (1..max) \ Filled(emptied) \in SUBSET Nat /\ at \in (1..max) \ Filled(emptied)
      BY <1>1, <1>3, <2>1
    <2>3. ASSUME NEW j \in (1..max) \ Filled(emptied)
          PROVE  at <= j
      <3>1. j \in 1..max /\ (j > num \/ j = at)
        BY <1>1, <2>1
      <3> QED
        BY <1>1, <1>3, <3>1
    <2> QED
      BY <2>2, <2>3, FirstIs
  <1>5. slots' = [emptied EXCEPT ![at] = o]
    BY <1>3, <1>4 DEF Replace
  <1>6. slots' = [slots EXCEPT ![at] = o]
    BY <1>1, <1>5
  <1> QED
    BY <1>1, <1>3, <1>6 DEF Replace

-----------------------------------------------------------------------------
\* In every reachable state in which nothing undefined has happened the array
\* is well formed: the invariant behind the other theorems.
THEOREM ArraysAreWellFormed == Spec => []ArrayInv
  <1>1. Init => ArrayInv
    BY ArrayAssumption DEF Init, ArrayInv, TypeOK, WellFormed, NoSlots
  <1>2. ArrayInv /\ [Next]_vars => ArrayInv'
    <2> SUFFICES ASSUME ArrayInv, [Next]_vars
                 PROVE  ArrayInv'
      OBVIOUS
    <2>1. CASE UNCHANGED vars
      BY <2>1 DEF vars, ArrayInv, TypeOK, WellFormed
    <2>2. CASE Free
      <3>1. max' = 0 /\ num' = 0 /\ slots' = NoSlots /\ fate' = fate
        BY <2>2 DEF Free
      <3>2. heap' \in [Objects -> Ids \cup {NULL}] /\ \A o \in Objects : heap'[o] = NULL
        BY <2>2, ArrayAssumption DEF Free, ArrayInv, TypeOK, WellFormed
      <3>3. 1..max' = {} /\ 1..num' = {}
        BY <3>1
      <3>4. TypeOK'
        BY <3>1, <3>2, <3>3 DEF ArrayInv, TypeOK, NoSlots
      <3> QED
        BY <3>1, <3>2, <3>3, <3>4 DEF ArrayInv, WellFormed
    <2>3. ASSUME NEW k \in Ids, NEW o \in Objects, Add(k, o), Insert(k, o)
          PROVE  ArrayInv'
      <3>1. fate = "Defined" /\ heap[o] = NULL /\ heap' = [heap EXCEPT ![o] = k]
        BY <2>3 DEF Add, Insert
      <3>2. CASE fate' = "Defined"
        <4>1. /\ max' \in Nat /\ num' = num + 1 /\ num' <= max'
              /\ slots' \in [1..max' -> Objects \cup {NULL}]
              /\ \A i \in 1..max' : slots'[i] = IF i <= num THEN slots[i]
                                                ELSE IF i = num + 1 THEN o ELSE NULL
              /\ \A j \in Objects : heap[j] # k
          BY <2>3, <3>1, <3>2, InsertEffect
        <4>2. /\ num \in Nat /\ max \in Nat /\ heap \in [Objects -> Ids \cup {NULL}]
              /\ slots \in [1..max -> Objects \cup {NULL}] /\ num <= max
          BY <3>1 DEF ArrayInv, TypeOK, WellFormed
        <4>3. TypeOK'
          BY <3>1, <3>2, <4>1, <4>2 DEF TypeOK
        <4>4. /\ \A i \in 1..num : slots[i] \in Objects /\ slots[i] # o /\ slots'[i] = slots[i]
              /\ slots'[num + 1] = o
          BY <3>1, <4>1, <4>2 DEF ArrayInv, WellFormed
        <4>5. /\ \A i \in 1..num : heap'[slots'[i]] = heap[slots[i]] /\ heap[slots[i]] # k
              /\ heap'[slots'[num + 1]] = k
          BY <3>1, <4>1, <4>2, <4>4
        <4>6. \A i \in 1..max' : slots'[i] # NULL <=> i <= num'
          BY <4>1, <4>2, <3>1, ArrayAssumption DEF ArrayInv, WellFormed
        <4>7. \A i \in 1..num' : heap'[slots'[i]] # NULL
          BY <3>1, <4>1, <4>2, <4>5, ArrayAssumption DEF ArrayInv, WellFormed
        <4>8. \A p \in Objects : heap'[p] # NULL => \E i \in 1..num' : slots'[i] = p
          BY <3>1, <4>1, <4>2, <4>4 DEF ArrayInv, WellFormed
        <4>9. \A i, j \in 1..num' : heap'[slots'[i]] = heap'[slots'[j]] => i = j
          <5>1. \A i \in 1..num' : i \in 1..num \/ i = num + 1
            BY <4>1, <4>2
          <5>2. \A i, j \in 1..num : heap[slots[i]] = heap[slots[j]] => i = j
            BY <3>1 DEF ArrayInv, WellFormed
          <5> QED
            BY <5>1, <5>2, <4>5
        <4> QED
          BY <4>1, <4>3, <4>6, <4>7, <4>8, <4>9 DEF ArrayInv, WellFormed
      <3>3. CASE fate' # "Defined"
        <4>1. fate' = "ArrayLost" /\ slots' = slots /\ max' = max /\ num' = num + 1
          BY <2>3, <3>1, <3>3 DEF Insert
        <4> QED
          BY <3>1, <3>3, <4>1 DEF ArrayInv, TypeOK
      <3> QED
        BY <3>2, <3>3
    <2>4. ASSUME NEW k \in Ids, NEW o \in Objects, Add(k, o), Replace(k, o)
          PROVE  ArrayInv'
      <3>1. fate = "Defined" /\ heap[o] = NULL
        BY <2>4 DEF Add
      <3>2. CASE fate' = "Defined"
        <4>1. PICK at \in 1..num :
                /\ heap[slots[at]] = k
                /\ slots' = [slots EXCEPT ![at] = o]
                /\ heap' = [heap EXCEPT ![slots[at]] = NULL, ![o] = k]
                /\ max' = max /\ num' = num /\ num <= max
          BY <2>4, <3>1, <3>2, ReplaceEffect
        <4>2. /\ num \in Nat /\ max \in Nat /\ heap \in [Objects -> Ids \cup {NULL}]
              /\ slots \in [1..max -> Objects \cup {NULL}] /\ num <= max
          BY <3>1 DEF ArrayInv, TypeOK, WellFormed
        <4>3. TypeOK'
          BY <3>2, <4>1, <4>2 DEF TypeOK
        <4>4. \A i \in 1..num : /\ slots[i] \in Objects /\ slots[i] # o
                                /\ i # at => slots[i] # slots[at]
                                /\ slots'[i] = IF i = at THEN o ELSE slots[i]
          BY <3>1, <4>1, <4>2 DEF ArrayInv, WellFormed
        <4>5. \A i \in 1..num : heap'[slots'[i]] = heap[slots[i]]
          BY <4>1, <4>2, <4>4
        <4>6. \A i \in 1..max' : slots'[i] # NULL <=> i <= num'
          BY <3>1, <4>1, <4>2, ArrayAssumption DEF ArrayInv, WellFormed
        <4>7. \A i \in 1..num' : heap'[slots'[i]] # NULL
          BY <3>1, <4>1, <4>5 DEF ArrayInv, WellFormed
        <4>8. \A p \in Objects : heap'[p] # NULL => \E i \in 1..num' : slots'[i] = p
          <5> SUFFICES ASSUME NEW p \in Objects, heap'[p] # NULL
                       PROVE  \E i \in 1..num' : slots'[i] = p
            OBVIOUS
          <5>1. CASE p = o
            BY <4>1, <4>4, <5>1
          <5>2. CASE p # o
            <6>1. p # slots[at] /\ heap[p] # NULL
              BY <4>1, <4>2, <4>4, <5>2
            <6> QED
              BY <3>1, <4>1, <4>4, <6>1 DEF ArrayInv, WellFormed
          <5> QED
            BY <5>1, <5>2
        <4>9. \A i, j \in 1..num' : heap'[slots'[i]] = heap'[slots'[j]] => i = j
          BY <3>1, <4>1, <4>5 DEF ArrayInv, WellFormed
        <4> QED
          BY <4>1, <4>3, <4>6, <4>7, <4>8, <4>9 DEF ArrayInv, WellFormed
      <3>3. CASE fate' # "Defined"
        BY <2>4, <3>1, <3>3 DEF Replace, ArrayInv, TypeOK
      <3> QED
        BY <3>2, <3>3
    <2> QED
      BY <2>1, <2>2, <2>3, <2>4 DEF Next, Add
  <1> QED
    BY <1>1, <1>2, PTL DEF Spec

-----------------------------------------------------------------------------
\* A loop over the array meets every live object, and none twice.
THEOREM LoopsAreComplete == Spec => []LoopsMeetAll
  <1>1. ArrayInv => LoopsMeetAll
    <2> SUFFICES ASSUME ArrayInv, fate = "Defined"
                 PROVE  LoopsMeetAll
      BY DEF LoopsMeetAll
    <2>1. /\ max \in Nat /\ num \in Nat /\ num <= max
          /\ slots \in [1..max -> Objects \cup {NULL}]
          /\ \A i \in 1..max : slots[i] # NULL <=> i <= num
          /\ \A i \in 1..num : heap[slots[i]] # NULL
          /\ \A o \in Objects : heap[o] # NULL => \E i \in 1..num : slots[i] = o
          /\ \A i, j \in 1..num : heap[slots[i]] = heap[slots[j]] => i = j
      BY DEF ArrayInv, TypeOK, WellFormed
    <2>2. \A i \in {j \in 0..max : j < Size} :
            /\ i + 1 \in 1..num
            /\ Get(i) = slots[i + 1] /\ Get(i) \in Objects /\ heap[Get(i)] # NULL
      BY <2>1 DEF Get, Size
    <2>3. \A o \in Objects : heap[o] # NULL =>
            \E i \in {j \in 0..max : j < Size} : Get(i) = o
      <3> SUFFICES ASSUME NEW o \in Objects, heap[o] # NULL
                   PROVE  \E i \in {j \in 0..max : j < Size} : Get(i) = o
        OBVIOUS
      <3>1. PICK i \in 1..num : slots[i] = o
        BY <2>1
      <3>2. i - 1 \in {j \in 0..max : j < Size} /\ Get(i - 1) = o
        BY <2>1, <3>1 DEF Get, Size
      <3> QED
        BY <3>2
    <2>4. \A i, j \in 0..max : i < Size /\ j < Size /\ i # j => Get(i) # Get(j)
      BY <2>1, <2>2 DEF Size
    <2> HIDE DEF Get, Size
    <2>5. {Get(i) : i \in {j \in 0..max : j < Size}} = {o \in Objects : heap[o] # NULL}
      BY <2>2, <2>3
    <2> QED
      BY <2>4, <2>5 DEF LoopsMeetAll
  <1> QED
    BY <1>1, ArraysAreWellFormed, PTL

\* What is found before and after a step of ...sAdd.
LEMMA AddIsPut ==
    ASSUME ArrayInv, ArrayInv', NEW k \in Ids, NEW o \in Objects, Add(k, o),
           fate' = "Defined"
    PROVE  C!Put(k, o)
  <1>1. fate = "Defined" /\ heap[o] = NULL
    BY DEF Add
  <1>2. Typed(slots, heap, max, num) /\ WellFormed(slots, heap, max, num)
    BY <1>1, InvTyped
  <1>3. Typed(slots', heap', max', num') /\ WellFormed(slots', heap', max', num')
    BY DEF ArrayInv, TypeOK, Typed, WellFormed
  <1>4. /\ heap \in [Objects -> Ids \cup {NULL}] /\ heap' \in [Objects -> Ids \cup {NULL}]
        /\ NULL \notin Ids /\ NULL \notin Objects
    BY <1>2, <1>3, ArrayAssumption DEF Typed
  <1>5. heap'[o] = k /\ \A p \in Objects \ {o}, j \in Ids : heap'[p] = j <=> heap[p] = j /\ j # k
    <2>1. CASE Insert(k, o)
      BY <1>1, <1>4, <2>1, InsertEffect
    <2>2. CASE Replace(k, o)
      <3>1. PICK at \in 1..num : /\ heap[slots[at]] = k
                                /\ heap' = [heap EXCEPT ![slots[at]] = NULL, ![o] = k]
        BY <1>1, <2>2, ReplaceEffect
      <3>2. slots[at] \in Objects
        BY <1>2 DEF Typed, WellFormed
      <3>3. \A p \in Objects : heap[p] = k => p = slots[at]
        <4>1. \A p \in Objects : heap[p] = k => \E i \in 1..num : slots[i] = p /\ i = at
          BY <1>2, <1>4, <3>1 DEF WellFormed
        <4> QED
          BY <4>1
      <3> QED
        BY <1>1, <1>4, <3>1, <3>2, <3>3
    <2> QED
      BY <2>1, <2>2 DEF Add
  <1>6. Find(k)' = o
    BY <1>3, <1>5, FindIs DEF Find
  <1>7. ASSUME NEW j \in Ids, j # k
        PROVE  Find(j)' = Find(j)
    <2>1. CASE \E p \in Objects : heap[p] = j
      <3>1. PICK p \in Objects : heap[p] = j
        BY <2>1
      <3>2. heap'[p] = j
        BY <1>1, <1>4, <1>5, <1>7, <3>1
      <3> QED
        BY <1>2, <1>3, <3>1, <3>2, FindIs DEF Find
    <2>2. CASE \A p \in Objects : heap[p] # j
      <3>1. \A p \in Objects : heap'[p] # j
        BY <1>5, <1>7, <2>2
      <3> QED
        BY <1>2, <1>3, <2>2, <3>1, FindIs DEF Find
    <2> QED
      BY <2>1, <2>2
  <1>8. \A j \in Ids : Find(j) # o
    <2> SUFFICES ASSUME NEW j \in Ids
                 PROVE  Find(j) # o
      OBVIOUS
    <2>1. CASE \E p \in Objects : heap[p] = j
      BY <1>1, <1>2, <1>4, <2>1, FindIs DEF Find
    <2>2. CASE \A p \in Objects : heap[p] # j
      BY <1>2, <1>4, <2>2, FindIs DEF Find
    <2> QED
      BY <2>1, <2>2
  <1> HIDE DEF Find
  <1> QED
    BY <1>6, <1>7, <1>8 DEF C!Put

\* A step that ends undefined changes nothing that is found.
LEMMA LostFindsSame ==
    ASSUME ArrayInv, NEW k \in Ids, NEW o \in Objects, Add(k, o), fate' # "Defined",
           NEW j \in Ids
    PROVE  Find(j)' = Find(j)
  <1>1. fate = "Defined" /\ heap[o] = NULL /\ slots' = slots
    BY DEF Add, Insert, Replace
  <1>2. heap' = heap \/ heap' = [heap EXCEPT ![o] = k]
    BY DEF Add, Insert, Replace
  <1>3. \A i \in Filled(slots) : slots[i] \in Objects /\ slots[i] # o
    BY <1>1, InvTyped, FilledIs DEF ArrayInv, TypeOK, WellFormed
  <1>4. \A i \in Filled(slots) : heap'[slots[i]] = heap[slots[i]]
    BY <1>1, <1>2, <1>3 DEF ArrayInv, TypeOK
  <1>5. Matching(slots', heap', j) = Matching(slots, heap, j)
    BY <1>1, <1>4 DEF Matching
  <1> QED
    BY <1>1, <1>5 DEF Find, FindIn

\* ...sAdd is the catalogue's Put.
THEOREM AddsPut == Spec => AddPuts
  <1>1. ArrayInv /\ ArrayInv' /\ [Next]_vars =>
          [\A k \in Ids, o \in Objects : Add(k, o) /\ fate' = "Defined" => C!Put(k, o)]_vars
    BY AddIsPut
  <1> QED
    BY <1>1, ArraysAreWellFormed, PTL DEF Spec, AddPuts

\* The arrays implement the catalogue.
THEOREM CatalogueIsImplemented == Spec => ImplementsCatalogue
  <1> DEFINE entry == [k \in Ids |-> Find(k)]
  <1>1. Init => C!Init
    BY DEF Init, NoSlots, C!Init, Find, FindIn, Matching, Filled
  <1>2. ArrayInv /\ ArrayInv' /\ [Next]_vars => [C!Next]_entry
    <2> SUFFICES ASSUME ArrayInv, ArrayInv', [Next]_vars
                 PROVE  [C!Next]_entry
      OBVIOUS
    <2>1. CASE UNCHANGED vars
      BY <2>1 DEF vars, Find, FindIn, Matching
    <2>2. CASE Free
      <3>1. \A k \in Ids : Find(k)' = NULL
        BY <2>2 DEF Free, NoSlots, Find, FindIn, Matching, Filled
      <3> HIDE DEF Find
      <3> QED
        BY <3>1 DEF C!Next, C!Clear
    <2>3. ASSUME NEW k \in Ids, NEW o \in Objects, Add(k, o)
          PROVE  [C!Next]_entry
      <3>1. CASE fate' = "Defined"
        BY <2>3, <3>1, AddIsPut DEF C!Next
      <3>2. CASE fate' # "Defined"
        <4>1. \A j \in Ids : Find(j)' = Find(j)
          BY <2>3, <3>2, LostFindsSame
        <4> HIDE DEF Find
        <4> QED
          BY <4>1
      <3> QED
        BY <3>1, <3>2
    <2> QED
      BY <2>1, <2>2, <2>3 DEF Next
  <1> QED
    BY <1>1, <1>2, ArraysAreWellFormed, PTL DEF Spec, ImplementsCatalogue, C!Spec
=============================================================================
