---------------------------- MODULE FramesProofs ----------------------------
(***************************************************************************)
(* What Frames promises, for every limit, option and size of payload: the  *)
(* buffers never outgrow what can be counted, and a frame gives back the   *)
(* field it was made from.  And what DeltaFilter promises of the fields in *)
(* a frame, for every shape, mask, width and range of elements.            *)
(***************************************************************************)
EXTENDS Frames, DeltaFilter, TLAPS

Route4 == {"field", "channels", "index", "leaf"}
Reading == {"inspect", "decompress", "scatter", "decoded", "rejected"}

-----------------------------------------------------------------------------
(* Growing.                                                                *)

\* The store counts no more than it holds, and its bytes can be counted.
StoreOK ==
    /\ store \in [count : Nat, capacity : Nat, element : {1, ListElement}, bytes : Nat]
    /\ store.count <= store.capacity
    /\ store.bytes = store.capacity * store.element
    /\ store.bytes <= SizeMax
    /\ phase = "channels" => store.element = 1
    /\ phase = "index" => store.element = ListElement

Refused ==
    phase = "refused" /\ store.element > 1 => (store.count + 1) * store.element > SizeMax

\* The larger of two numbers is one of them and below neither.
LEMMA MostOfTwo ==
    ASSUME NEW a \in Nat, NEW b \in Nat
    PROVE  Most({a, b}) = IF a <= b THEN b ELSE a
<1>1. CASE a <= b
  <2>1. b \in {a, b} /\ \A u \in {a, b} : u <= b
    BY <1>1
  <2>2. \A v \in {a, b} : (\A u \in {a, b} : u <= v) => v = b
    BY <1>1
  <2>. QED BY <1>1, <2>1, <2>2 DEF Most
<1>2. CASE ~(a <= b)
  <2>1. a \in {a, b} /\ \A u \in {a, b} : u <= a
    BY <1>2
  <2>2. \A v \in {a, b} : (\A u \in {a, b} : u <= v) => v = a
    BY <1>2
  <2>. QED BY <1>2, <2>1, <2>2 DEF Most
<1>. QED BY <1>1, <1>2

\* What a quotient is at least.
LEMMA QuotientBound ==
    ASSUME NEW r \in Nat, NEW e \in Nat \ {0}, NEW n \in Nat
    PROVE  /\ r \div e \in Nat
           /\ n <= r \div e <=> n * e <= r
<1>. DEFINE q == r \div e
<1>1. q \in Nat /\ q * e <= r /\ r < (q + 1) * e
  <2>1. r = e * q + (r % e) /\ r % e \in 0 .. e - 1 /\ q \in Nat
    OBVIOUS
  <2>2. (q + 1) * e = e * q + e /\ q * e = e * q
    BY <2>1
  <2>. QED BY <2>1, <2>2
<1>. HIDE DEF q
<1>2. ASSUME n <= q PROVE n * e <= r
  <2>1. n * e <= q * e
    BY <1>1, <1>2
  <2>. QED BY <2>1, <1>1
<1>3. ASSUME n > q PROVE n * e > r
  <2>1. n >= q + 1
    BY <1>1, <1>3
  <2>2. n * e >= (q + 1) * e
    BY <1>1, <2>1
  <2>. QED BY <2>2, <1>1
<1>. QED BY <1>1, <1>2, <1>3 DEF q

\* A number of elements whose bytes can be counted, and no other, divides out.
LEMMA BytesCounted ==
    ASSUME NEW e \in Nat \ {0}, NEW n \in Nat
    PROVE  /\ SizeMax \div e \in Nat
           /\ n <= SizeMax \div e <=> n * e <= SizeMax
BY LimitAssumption, QuotientBound

\* An allocation of no more than can be counted does not wrap.
LEMMA AllocatedExactly ==
    ASSUME NEW s \in [count : Nat, capacity : Nat, element : {1, ListElement}, bytes : Nat],
           NEW capacity \in Nat, NEW count \in Nat,
           count <= capacity, capacity * s.element <= SizeMax
    PROVE  LET a == Allocated(s, capacity, count) IN
           /\ a \in [count : Nat, capacity : Nat, element : {1, ListElement}, bytes : Nat]
           /\ a.count = count /\ a.capacity = capacity /\ a.element = s.element
           /\ a.bytes = capacity * s.element
<1>1. capacity * s.element \in Nat /\ SizeMax \in Nat
  BY LimitAssumption
<1>2. (capacity * s.element) % (SizeMax + 1) = capacity * s.element
  <2>. DEFINE b == capacity * s.element
  <2>1. b \in Nat /\ b <= SizeMax
    BY <1>1
  <2>. HIDE DEF b
  <2>2. b % (SizeMax + 1) = b
    BY <2>1, <1>1
  <2>. QED BY <2>2 DEF b
<1>. QED BY <1>1, <1>2 DEF Allocated

\* A channel's buffer grows to what it must hold, within what can be counted.
LEMMA GrownHolds ==
    ASSUME NEW s \in [count : Nat, capacity : Nat, element : {1, ListElement}, bytes : Nat],
           s.count <= s.capacity, s.element = 1, s.bytes = s.capacity * s.element,
           s.bytes <= SizeMax, NEW count \in Nat, count <= SizeMax
    PROVE  LET a == Grown(s, count) IN
           /\ a \in [count : Nat, capacity : Nat, element : {1, ListElement}, bytes : Nat]
           /\ a.count = count /\ count <= a.capacity /\ a.element = s.element
           /\ a.bytes = a.capacity * a.element /\ a.bytes <= SizeMax
<1>1. CASE count <= s.capacity
  BY <1>1 DEF Grown
<1>2. CASE count > s.capacity
  <2>. DEFINE d == Doubled(s.capacity)
              m == Most({d, count})
  <2>1. SizeMax \in Nat
    BY LimitAssumption
  <2>2. d \in Nat /\ d <= SizeMax
    BY <2>1 DEF Doubled
  <2>3. m \in Nat /\ count <= m /\ m <= SizeMax
    <3>. HIDE DEF d
    <3>. QED BY <2>2, MostOfTwo
  <2>4. Grown(s, count) = Allocated(s, m, count)
    BY <1>2 DEF Grown
  <2>. HIDE DEF m
  <2>5. m * s.element <= SizeMax
    BY <2>3
  <2>. DEFINE a == Allocated(s, m, count)
  <2>6. /\ a \in [count : Nat, capacity : Nat, element : {1, ListElement}, bytes : Nat]
        /\ a.count = count /\ a.capacity = m /\ a.element = s.element
        /\ a.bytes = m * s.element
    BY <2>3, <2>5, AllocatedExactly
  <2>. HIDE DEF a
  <2>7. a.bytes <= SizeMax /\ a.bytes = a.capacity * a.element
    BY <2>5, <2>6
  <2>8. Grown(s, count) = a
    BY <2>4 DEF a
  <2>. QED BY <2>3, <2>6, <2>7, <2>8
<1>. QED BY <1>1, <1>2

\* So does a list, when it may grow at all.
LEMMA ReservedHolds ==
    ASSUME NEW s \in [count : Nat, capacity : Nat, element : {1, ListElement}, bytes : Nat],
           s.count <= s.capacity, s.bytes = s.capacity * s.element,
           s.bytes <= SizeMax, NEW count \in Nat, Reservable(s, count)
    PROVE  LET a == Reserved(s, count) IN
           /\ a \in [count : Nat, capacity : Nat, element : {1, ListElement}, bytes : Nat]
           /\ a.count = count /\ count <= a.capacity /\ a.element = s.element
           /\ a.bytes = a.capacity * a.element /\ a.bytes <= SizeMax
<1>1. CASE count <= s.capacity
  BY <1>1 DEF Reserved
<1>2. CASE count > s.capacity
  <2>. DEFINE next == Most({Doubled(s.capacity), count})
              r == Room(s, count)
              q == SizeMax \div s.element
  <2>1. SizeMax \in Nat /\ s.element \in Nat \ {0}
    BY LimitAssumption
  <2>2. q \in Nat
    BY <2>1, BytesCounted
  <2>3. Doubled(s.capacity) \in Nat
    BY <2>1 DEF Doubled
  <2>4. next \in Nat /\ count <= next
    BY <2>3, MostOfTwo
  <2>5. count <= q
    BY <1>2 DEF Reservable
  <2>6. r = IF next > q THEN count ELSE next
    BY DEF Room
  <2>7. Reserved(s, count) = Allocated(s, r, count)
    BY <1>2 DEF Reserved
  <2>. HIDE DEF next, r, q
  <2>8. r \in Nat /\ count <= r /\ r <= q
    BY <2>2, <2>4, <2>5, <2>6
  <2>9. r * s.element <= SizeMax
    BY <2>1, <2>8, BytesCounted DEF q
  <2>. DEFINE a == Allocated(s, r, count)
  <2>10. /\ a \in [count : Nat, capacity : Nat, element : {1, ListElement}, bytes : Nat]
        /\ a.count = count /\ a.capacity = r /\ a.element = s.element
        /\ a.bytes = r * s.element
    BY <2>8, <2>9, AllocatedExactly
  <2>. HIDE DEF a
  <2>11. a.bytes <= SizeMax /\ a.bytes = a.capacity * a.element
    BY <2>9, <2>10
  <2>12. Reserved(s, count) = a
    BY <2>7 DEF a
  <2>. QED BY <2>8, <2>10, <2>11, <2>12
<1>. QED BY <1>1, <1>2

-----------------------------------------------------------------------------
(* The buffers.                                                            *)

Phases == {"compress", "refused"} \cup Route4 \cup Reading

StoreInv ==
    /\ opt \in Options /\ phase \in Phases
    /\ phase = "compress" => store = EmptyStore
    /\ StoreOK
    /\ Refused

\* What a caller asks for, and the table that begins its frame, are numbers.
LEMMA OptionFacts ==
    ASSUME NEW o \in Options
    PROVE  /\ o \in [dims : Nat \X Nat \X Nat, channels : Nat, layout : Nat,
                     element : Nat, width : Nat, preset : Nat]
           /\ Voxels(o.dims) \in Nat /\ Count(o) \in Nat \ {0}
           /\ Bytes(o) \in Nat /\ TableBytes(o) \in Nat
<1>1. o \in [dims : Nat \X Nat \X Nat, channels : Nat, layout : Nat,
             element : Nat, width : Nat, preset : Nat]
  BY OptionsAssumption
<1>2. o.dims \in Nat \X Nat \X Nat /\ o.channels \in Nat /\ o.element \in Nat
  BY <1>1
<1>3. o.dims[1] \in Nat /\ o.dims[2] \in Nat /\ o.dims[3] \in Nat
  BY <1>2
<1>4. Voxels(o.dims) \in Nat
  BY <1>3 DEF Voxels
<1>5. Count(o) \in Nat \ {0}
  BY <1>2 DEF Count
<1>6. Bytes(o) \in Nat
  <2>1. o.element * Voxels(o.dims) \in Nat
    BY <1>2, <1>4
  <2>. QED BY <2>1, <1>5 DEF Bytes
<1>7. TableBytes(o) \in Nat
  BY <1>2, LimitAssumption DEF TableBytes
<1>. QED BY <1>1, <1>4, <1>5, <1>6, <1>7

\* A form of frame is one of four, and none of the other phases.
LEMMA RouteIsOne ==
    ASSUME NEW o
    PROVE  Route(o) \in Route4
BY DEF Route, Route4

\* The buffers are sound at the start.
LEMMA InitStores == Init => StoreInv
<1>1. SizeMax \in Nat
  BY LimitAssumption
<1>. QED BY <1>1 DEF Init, StoreInv, StoreOK, Refused, EmptyStore, Phases

\* Choosing a form leaves a buffer that fits it.
LEMMA CompressStores == StoreInv /\ Compress => StoreInv'
<1>. SUFFICES ASSUME StoreInv, Compress
              PROVE  StoreInv'
  OBVIOUS
<1>1. /\ SizeMax \in Nat /\ ListElement \in Nat \ {0} /\ ListElement <= SizeMax
      /\ opt' = opt /\ opt \in Options /\ TableBytes(opt) \in Nat
  BY LimitAssumption, OptionFacts DEF StoreInv, Compress
<1>2. \/ phase' = "refused"
      \/ phase' = Route(opt) /\ ~(phase' = "channels" /\ TableBytes(opt) > SizeMax)
  BY DEF Compress
<1>3. phase' \in Phases /\ phase' # "compress"
  BY <1>2, RouteIsOne DEF Phases, Route4
<1>4. store' = CASE phase' = "channels" ->
                      [count |-> TableBytes(opt), capacity |-> TableBytes(opt),
                       element |-> 1, bytes |-> TableBytes(opt)]
                 [] phase' = "index" -> [EmptyStore EXCEPT !.element = ListElement]
                 [] OTHER -> store
  BY DEF Compress
<1>5. store = EmptyStore
  BY DEF StoreInv, Compress
<1>6. CASE phase' = "channels"
  <2>1. store' = [count |-> TableBytes(opt), capacity |-> TableBytes(opt),
                  element |-> 1, bytes |-> TableBytes(opt)]
    BY <1>4, <1>6
  <2>2. TableBytes(opt) <= SizeMax
    BY <1>2, <1>1, <1>6
  <2>. QED BY <2>1, <2>2, <1>1, <1>3, <1>6 DEF StoreInv, StoreOK, Refused
<1>7. CASE phase' = "index"
  <2>1. store' = [count |-> 0, capacity |-> 0, element |-> ListElement, bytes |-> 0]
    BY <1>4, <1>7 DEF EmptyStore
  <2>. QED BY <2>1, <1>1, <1>3, <1>7 DEF StoreInv, StoreOK, Refused
<1>8. CASE phase' # "channels" /\ phase' # "index"
  <2>1. store' = [count |-> 0, capacity |-> 0, element |-> 1, bytes |-> 0]
    BY <1>4, <1>5, <1>8 DEF EmptyStore
  <2>. QED BY <2>1, <1>1, <1>3, <1>8 DEF StoreInv, StoreOK, Refused
<1>. QED BY <1>6, <1>7, <1>8

\* A channel is appended within what can be counted.
LEMMA ChannelStores == StoreInv /\ EncodeChannel => StoreInv'
<1>. SUFFICES ASSUME StoreInv, EncodeChannel
              PROVE  StoreInv'
  OBVIOUS
<1>1. PICK size \in Payloads :
          IF size > EntryMax \/ size > SizeMax - store.count
          THEN phase' = "refused" /\ UNCHANGED <<c, store, parts>>
          ELSE /\ store' = Grown(store, store.count + size)
               /\ parts' = Append(parts, Field(opt, c, size))
               /\ c' = c + 1
               /\ UNCHANGED phase
  BY DEF EncodeChannel
<1>2. /\ size \in Nat /\ SizeMax \in Nat /\ phase = "channels" /\ opt' = opt
      /\ store \in [count : Nat, capacity : Nat, element : {1, ListElement}, bytes : Nat]
      /\ store.element = 1 /\ store.count <= store.capacity
      /\ store.bytes = store.capacity * store.element /\ store.bytes <= SizeMax
  BY OptionsAssumption, LimitAssumption DEF EncodeChannel, StoreInv, StoreOK
<1>3. CASE size > EntryMax \/ size > SizeMax - store.count
  <2>1. phase' = "refused" /\ store' = store
    BY <1>1, <1>3
  <2>. QED BY <2>1, <1>2 DEF StoreInv, StoreOK, Refused, Phases
<1>4. CASE ~(size > EntryMax \/ size > SizeMax - store.count)
  <2>1. store' = Grown(store, store.count + size) /\ phase' = phase
    BY <1>1, <1>4
  <2>2. store.count + size \in Nat /\ store.count + size <= SizeMax
    BY <1>2, <1>4
  <2>3. /\ store' \in [count : Nat, capacity : Nat, element : {1, ListElement}, bytes : Nat]
        /\ store'.count <= store'.capacity /\ store'.element = 1
        /\ store'.bytes = store'.capacity * store'.element /\ store'.bytes <= SizeMax
    BY <2>1, <2>2, <1>2, GrownHolds
  <2>. QED BY <2>1, <2>3, <1>2 DEF StoreInv, StoreOK, Refused, Phases
<1>. QED BY <1>3, <1>4

\* A list is given another entry, or refused one that could not be counted.
LEMMA ListStores == StoreInv /\ ListEntry => StoreInv'
<1>. SUFFICES ASSUME StoreInv, ListEntry
              PROVE  StoreInv'
  OBVIOUS
<1>1. /\ SizeMax \in Nat /\ ListElement \in Nat \ {0} /\ phase = "index" /\ opt' = opt
      /\ store \in [count : Nat, capacity : Nat, element : {1, ListElement}, bytes : Nat]
      /\ store.element = ListElement /\ store.count <= store.capacity
      /\ store.bytes = store.capacity * store.element /\ store.bytes <= SizeMax
  BY LimitAssumption DEF ListEntry, StoreInv, StoreOK
<1>. DEFINE next == store.count + 1
<1>2. next \in Nat
  BY <1>1
<1>3. CASE Reservable(store, next)
  <2>1. store' = Reserved(store, next) /\ phase' = phase
    BY <1>3 DEF ListEntry
  <2>. HIDE DEF next
  <2>2. /\ store' \in [count : Nat, capacity : Nat, element : {1, ListElement}, bytes : Nat]
        /\ store'.count <= store'.capacity /\ store'.element = ListElement
        /\ store'.bytes = store'.capacity * store'.element /\ store'.bytes <= SizeMax
    BY <2>1, <1>1, <1>2, <1>3, ReservedHolds
  <2>. QED BY <2>1, <2>2, <1>1 DEF StoreInv, StoreOK, Refused, Phases, Route4
<1>4. CASE ~Reservable(store, next)
  <2>1. store' = store /\ phase' = "refused"
    BY <1>4 DEF ListEntry
  <2>2. ~(next <= SizeMax \div ListElement)
    BY <1>1, <1>4 DEF Reservable
  <2>3. ~(next * ListElement <= SizeMax)
    <3>. HIDE DEF next
    <3>. QED BY <2>2, <1>1, <1>2, BytesCounted
  <2>4. next * ListElement \in Nat
    BY <1>1, <1>2
  <2>5. (store.count + 1) * store.element > SizeMax
    BY <2>3, <2>4, <1>1
  <2>. QED BY <2>1, <2>5, <1>1 DEF StoreInv, StoreOK, Refused, Phases
<1>. QED BY <1>3, <1>4

\* The other steps leave the buffer alone and refuse nothing.
LEMMA OtherStores ==
    StoreInv /\ ( \/ EncodeField \/ EndChannels \/ EndIndex \/ EncodeLeaf \/ Rename
                  \/ Inspect \/ Decompress \/ DecodeChannel \/ EndScatter
                  \/ UNCHANGED vars )
    => StoreInv'
<1>. SUFFICES ASSUME StoreInv,
                     \/ EncodeField \/ EndChannels \/ EndIndex \/ EncodeLeaf \/ Rename
                     \/ Inspect \/ Decompress \/ DecodeChannel \/ EndScatter
                     \/ UNCHANGED vars
              PROVE  StoreInv'
  OBVIOUS
<1>1. store' = store /\ opt' = opt /\ (phase' = phase \/ phase' \in Reading)
  <2>1. CASE EncodeField
    BY <2>1 DEF EncodeField, Reading
  <2>2. CASE EndChannels
    BY <2>2 DEF EndChannels, Reading
  <2>3. CASE EndIndex
    BY <2>3 DEF EndIndex, Reading
  <2>4. CASE EncodeLeaf
    BY <2>4 DEF EncodeLeaf, Reading
  <2>5. CASE Rename
    BY <2>5 DEF Rename
  <2>6. CASE Inspect
    BY <2>6 DEF Inspect, Reading
  <2>7. CASE Decompress
    BY <2>7, Zenon DEF Decompress, Reading
  <2>8. CASE DecodeChannel
    BY <2>8 DEF DecodeChannel, Reading
  <2>9. CASE EndScatter
    BY <2>9 DEF EndScatter, Reading
  <2>10. CASE UNCHANGED vars
    BY <2>10 DEF vars
  <2>. QED BY <2>1, <2>2, <2>3, <2>4, <2>5, <2>6, <2>7, <2>8, <2>9, <2>10
<1>. QED BY <1>1 DEF StoreInv, StoreOK, Refused, Reading, Phases

\* The buffers are sound in every state.
THEOREM StoreInvariant == Spec => []StoreInv
<1>1. StoreInv /\ [Next]_vars => StoreInv'
  BY CompressStores, ChannelStores, ListStores, OtherStores DEF Next
<1>. QED BY InitStores, <1>1, PTL DEF Spec

\* What is in use of a growing buffer lies within what was allocated, although the
\* product given to realloc could wrap, and growth is refused only for what could
\* not be counted (vc_reserve; vc_legacy_encode).
THEOREM StoresStayInside == Spec => []StoresInside
<1>1. StoreInv => StoresInside
  <2>. SUFFICES ASSUME StoreInv PROVE StoresInside
    OBVIOUS
  <2>1. /\ store.count \in Nat /\ store.capacity \in Nat /\ store.element \in Nat
        /\ store.count <= store.capacity /\ store.bytes = store.capacity * store.element
    BY LimitAssumption DEF StoreInv, StoreOK
  <2>2. store.count * store.element <= store.capacity * store.element
    BY <2>1
  <2>. QED BY <2>1, <2>2 DEF StoreInv, Refused, StoresInside
<1>. QED BY StoreInvariant, <1>1, PTL

-----------------------------------------------------------------------------
(* Positions.                                                              *)

\* Division with remainder.
LEMMA Divided ==
    ASSUME NEW q \in Nat, NEW d \in Nat \ {0}
    PROVE  q = d * (q \div d) + (q % d) /\ q % d \in 0 .. d - 1 /\ q \div d \in Nat
<1>1. q = d * (q \div d) + (q % d) /\ q % d \in 0 .. d - 1
  OBVIOUS
<1>2. q \div d \in Nat
  OBVIOUS
<1>. QED BY <1>1, <1>2

\* Elements of n channels of v elements, taken either way, fill their range.
LEMMA PairsFill ==
    ASSUME NEW v \in Nat, NEW n \in Nat \ {0}
    PROVE  /\ \A k \in 0 .. n - 1, i \in 0 .. v - 1 :
                  i * n + k \in 0 .. v * n - 1 /\ k * v + i \in 0 .. v * n - 1
           /\ \A p \in 0 .. v * n - 1 :
                  /\ \E k \in 0 .. n - 1, i \in 0 .. v - 1 : p = i * n + k
                  /\ \E k \in 0 .. n - 1, i \in 0 .. v - 1 : p = k * v + i
<1>1. ASSUME NEW k \in 0 .. n - 1, NEW i \in 0 .. v - 1
      PROVE  i * n + k \in 0 .. v * n - 1 /\ k * v + i \in 0 .. v * n - 1
  <2>1. i \in Nat /\ k \in Nat /\ i + 1 <= v /\ k + 1 <= n
    OBVIOUS
  <2>2. (i + 1) * n <= v * n /\ (i + 1) * n = i * n + n /\ i * n \in Nat
    BY <2>1
  <2>3. (k + 1) * v <= n * v /\ (k + 1) * v = k * v + v /\ k * v \in Nat /\ n * v = v * n
    BY <2>1
  <2>4. v * n \in Nat
    OBVIOUS
  <2>. QED BY <2>1, <2>2, <2>3, <2>4
<1>2. ASSUME NEW q \in Nat, NEW d \in Nat \ {0}, NEW m \in Nat, q < m * d
      PROVE  /\ q \div d \in 0 .. m - 1 /\ q % d \in 0 .. d - 1
             /\ q = (q \div d) * d + (q % d)
  <2>1. q \div d \in Nat /\ q % d \in 0 .. d - 1 /\ q = (q \div d) * d + (q % d)
    <3>1. q = d * (q \div d) + (q % d) /\ q % d \in 0 .. d - 1 /\ q \div d \in Nat
      BY Divided
    <3>2. d * (q \div d) = (q \div d) * d
      BY <3>1
    <3>. QED BY <3>1, <3>2
  <2>. DEFINE h == q \div d
  <2>2. h < m
    <3>. SUFFICES ASSUME h >= m PROVE FALSE
      BY <2>1
    <3>. HIDE DEF h
    <3>1. h \in Nat
      BY <2>1 DEF h
    <3>2. h * d >= m * d
      BY <3>1
    <3>3. q >= h * d
      BY <2>1 DEF h
    <3>. QED BY <3>1, <3>2, <3>3, <1>2
  <2>. QED BY <2>1, <2>2
<1>3. ASSUME NEW p \in 0 .. v * n - 1
      PROVE  /\ \E k \in 0 .. n - 1, i \in 0 .. v - 1 : p = i * n + k
             /\ \E k \in 0 .. n - 1, i \in 0 .. v - 1 : p = k * v + i
  <2>1. p \in Nat /\ p < v * n /\ v # 0 /\ v * n = n * v /\ v * n \in Nat
    OBVIOUS
  <2>2. p \div n \in 0 .. v - 1 /\ p % n \in 0 .. n - 1 /\ p = (p \div n) * n + (p % n)
    BY <2>1, <1>2
  <2>3. p \div v \in 0 .. n - 1 /\ p % v \in 0 .. v - 1 /\ p = (p \div v) * v + (p % v)
    BY <2>1, <1>2
  <2>. QED BY <2>2, <2>3
<1>. QED BY <1>1, <1>3

\* The places of the first k channels.
Covered(o, k) == {Position(o, j, i) : j \in 0 .. k - 1, i \in 0 .. Voxels(o.dims) - 1}

\* All channels cover all places.
LEMMA AllCovered ==
    ASSUME NEW o \in Options
    PROVE  Covered(o, Count(o)) = 0 .. Voxels(o.dims) * Count(o) - 1
<1>. DEFINE v == Voxels(o.dims)
            n == Count(o)
<1>1. v \in Nat /\ n \in Nat \ {0}
  BY OptionFacts
<1>2. \A j, i : Position(o, j, i) = IF o.layout = 1 THEN i * n + j ELSE j * v + i
  BY DEF Position
<1>3. Covered(o, n) = {Position(o, j, i) : j \in 0 .. n - 1, i \in 0 .. v - 1}
  BY DEF Covered
<1>. HIDE DEF v, n
<1>7. \A j \in 0 .. n - 1, i \in 0 .. v - 1 :
          i * n + j \in 0 .. v * n - 1 /\ j * v + i \in 0 .. v * n - 1
  BY <1>1, PairsFill
<1>8. \A p \in 0 .. v * n - 1 :
          \E j \in 0 .. n - 1, i \in 0 .. v - 1 : p = i * n + j
  BY <1>1, PairsFill
<1>9. \A p \in 0 .. v * n - 1 :
          \E j \in 0 .. n - 1, i \in 0 .. v - 1 : p = j * v + i
  BY <1>1, PairsFill
<1>4. ASSUME NEW j \in 0 .. n - 1, NEW i \in 0 .. v - 1
      PROVE  Position(o, j, i) \in 0 .. v * n - 1
  <2>1. i * n + j \in 0 .. v * n - 1 /\ j * v + i \in 0 .. v * n - 1
    BY <1>7, Zenon
  <2>2. Position(o, j, i) = i * n + j \/ Position(o, j, i) = j * v + i
    BY <1>2
  <2>. QED BY <2>1, <2>2, Zenon
<1>5. ASSUME NEW p \in 0 .. v * n - 1
      PROVE  \E j \in 0 .. n - 1, i \in 0 .. v - 1 : p = Position(o, j, i)
  <2>1. CASE o.layout = 1
    <3>1. PICK j \in 0 .. n - 1, i \in 0 .. v - 1 : p = i * n + j
      BY <1>8
    <3>2. Position(o, j, i) = i * n + j
      BY <1>2, <2>1
    <3>3. p = Position(o, j, i)
      BY <3>1, <3>2, Zenon
    <3>4. j \in 0 .. n - 1 /\ i \in 0 .. v - 1
      OBVIOUS
    <3>. HIDE DEF Position
    <3>. QED BY <3>3, <3>4, Zenon
  <2>2. CASE o.layout # 1
    <3>1. PICK j \in 0 .. n - 1, i \in 0 .. v - 1 : p = j * v + i
      BY <1>9
    <3>2. Position(o, j, i) = j * v + i
      BY <1>2, <2>2
    <3>3. p = Position(o, j, i)
      BY <3>1, <3>2, Zenon
    <3>. QED BY <3>3
  <2>. QED BY <2>1, <2>2
<1>6. Covered(o, n) = 0 .. v * n - 1
  BY <1>3, <1>4, <1>5
<1>. QED BY <1>6 DEF v, n

\* A single field lies in the order of its elements.
LEMMA FieldInOrder ==
    ASSUME NEW o \in Options, o.channels = 0
    PROVE  /\ Count(o) = 1
           /\ Voxels(o.dims) * Count(o) = Voxels(o.dims)
           /\ Bytes(o) = o.element * Voxels(o.dims)
           /\ \A i \in Nat : Position(o, 0, i) = i
<1>1. Voxels(o.dims) \in Nat /\ Count(o) = 1 /\ o.element \in Nat
  BY OptionFacts DEF Count
<1>2. o.element * Voxels(o.dims) \in Nat
  BY <1>1
<1>3. 0 * Voxels(o.dims) = 0
  BY <1>1
<1>. QED BY <1>1, <1>2, <1>3 DEF Bytes, Position

-----------------------------------------------------------------------------
(* Frames.                                                                 *)

\* Where the parts so far begin: each after the one before, the last at the end of
\* the buffer.
Offsets(off, n) ==
    /\ off \in [0 .. n -> Nat]
    /\ off[0] = TableBytes(opt) /\ off[n] = store.count
    /\ \A k \in 1 .. n : off[k] = off[k - 1] + parts[k].size
    /\ \A k \in 0 .. n : off[k] <= off[n]

PartSet == {Field(opt, k, size) : k \in Nat, size \in Payloads}

\* The first n channels are encoded; a reader is at the part it decodes next.
Encoded(n) ==
    /\ parts \in Seq(PartSet) /\ Len(parts) = n
    /\ \A k \in 1 .. n : \E size \in Payloads : parts[k] = Field(opt, k - 1, size)
    /\ \E off : Offsets(off, n) /\ (phase = "scatter" => offset = off[c])

Ordered ==
    [i \in 0 .. Voxels(opt.dims) - 1 |-> [at |-> Position(opt, 0, i), width |-> opt.width]]

Named(form, size) ==
    [form |-> form, version |-> 1, element |-> opt.element, dims |-> opt.dims, size |-> size,
     width |-> opt.width, elements |-> Ordered]

Framed(form) ==
    [form |-> form, version |-> 2, element |-> opt.element, dims |-> opt.dims,
     size |-> store.count, width |-> opt.width, layout |-> opt.layout,
     channels |-> opt.channels, parts |-> parts]

Magics == {Magic, Foreign}

\* The frame is the one its form asks for, whatever its magic.
Filed ==
    /\ Route(opt) = "leaf" =>
          file = [form |-> "NCF1", bytes |-> Voxels(opt.dims), elements |-> Whole(opt)]
    /\ Route(opt) = "index" =>
          file = [form |-> "NGC2", channels |-> Count(opt), bytes |-> Bytes(opt),
                  elements |-> Whole(opt)]
    /\ Route(opt) = "field" => \E form \in Magics, size \in Payloads : file = Named(form, size)
    /\ Route(opt) = "channels" =>
          Encoded(opt.channels) /\ \E form \in Magics : file = Framed(form)

Restored(k) == [q \in Covered(opt, k) |-> [at |-> q, width |-> opt.width]]

FrameInv ==
    /\ opt \in Options /\ phase \in Phases
    /\ phase \in Route4 => Valid(opt) /\ Route(opt) = phase
    /\ phase \in {"compress", "field", "index", "leaf", "inspect", "decompress"} =>
          c = 0 /\ out = <<>>
    /\ phase = "compress" => parts = <<>>
    /\ phase \in {"compress", "inspect"} \cup Route4 => info = Unknown
    /\ phase = "channels" =>
          c \in 0 .. opt.channels /\ out = <<>> /\ Encoded(c)
    /\ phase \in Reading => Valid(opt) /\ Filed
    /\ phase = "scatter" =>
          Route(opt) = "channels" /\ c \in 0 .. opt.channels /\ out = Restored(c)
    /\ FrameRestored

\* A frame of each form is routed by these options.
LEMMA RouteFacts ==
    ASSUME opt \in Options
    PROVE  /\ Route(opt) = "leaf" =>
                opt.channels = 0 /\ opt.element = 1 /\ opt.width = 1
           /\ Route(opt) = "index" => opt.element = 1 /\ opt.width = 1
           /\ Route(opt) = "field" => opt.channels = 0
           /\ Route(opt) = "channels" => opt.channels # 0 /\ Count(opt) = opt.channels
BY DEF Route, Legacy, Indexed, Count

\* Nothing is encoded at the start.
LEMMA InitFrames == Init => FrameInv
BY DEF Init, FrameInv, FrameRestored, Phases, Route4, Reading, Unknown

\* Choosing a form; a frame of channels begins as a table with no parts.
LEMMA CompressFrames == StoreInv' /\ FrameInv /\ Compress => FrameInv'
<1>. SUFFICES ASSUME StoreInv', FrameInv, Compress
              PROVE  FrameInv'
  OBVIOUS
<1>1. /\ opt' = opt /\ opt \in Options /\ c = 0 /\ c' = 0 /\ out = <<>> /\ out' = <<>>
      /\ parts = <<>> /\ parts' = <<>> /\ info = Unknown /\ info' = Unknown
      /\ phase = "compress"
  BY DEF FrameInv, Compress
<1>2. \/ phase' = "refused"
      \/ phase' = Route(opt) /\ Valid(opt)
  BY DEF Compress
<1>3. phase' \in Phases \ {"compress"} /\ phase' \notin Reading
  BY <1>2, RouteIsOne DEF Phases, Route4, Reading
<1>4. phase' \in Route4 => Valid(opt') /\ Route(opt') = phase'
  BY <1>1, <1>2 DEF Route4
<1>5. ASSUME phase' = "channels"
      PROVE  c' \in 0 .. opt'.channels /\ Encoded(c)'
  <2>1. store' = [count |-> TableBytes(opt), capacity |-> TableBytes(opt),
                  element |-> 1, bytes |-> TableBytes(opt)]
    BY <1>5 DEF Compress
  <2>2. TableBytes(opt) \in Nat /\ opt.channels \in Nat
    BY <1>1, OptionFacts
  <2>. DEFINE off == [k \in 0 .. 0 |-> TableBytes(opt)]
  <2>3. /\ off \in [0 .. 0 -> Nat] /\ off[0] = TableBytes(opt)
        /\ \A k \in 0 .. 0 : off[k] <= off[0]
    BY <2>2
  <2>4. Offsets(off, 0)'
    BY <1>1, <2>1, <2>2, <2>3 DEF Offsets, TableBytes
  <2>5. Encoded(0)'
    BY <1>1, <1>5, <2>4 DEF Encoded
  <2>. QED BY <1>1, <2>2, <2>5
<1>6. FrameRestored'
  BY <1>1, <1>3 DEF FrameRestored, Unknown, Reading
<1>. QED BY <1>1, <1>2, <1>3, <1>4, <1>5, <1>6 DEF FrameInv, Reading, Phases, Route4

\* The frame of a single field, of an index and of a leaf.
LEMMA FieldFrames == FrameInv /\ EncodeField => FrameInv'
<1>. SUFFICES ASSUME FrameInv, EncodeField
              PROVE  FrameInv'
  OBVIOUS
<1>1. /\ opt' = opt /\ opt \in Options /\ c' = 0 /\ out' = <<>> /\ info' = Unknown
      /\ phase' = "inspect" /\ Route(opt) = "field" /\ Valid(opt)
  BY DEF FrameInv, EncodeField, Route4
<1>2. PICK size \in Payloads : file' = Field(opt, 0, size)
  BY DEF EncodeField
<1>3. file' = Named(Magic, size)
  BY <1>2 DEF Field, Named, Ordered
<1>4. Filed'
  <2>1. file' = Named(Magic, size)'
    BY <1>1, <1>3 DEF Named, Ordered
  <2>. QED BY <1>1, <2>1 DEF Filed, Magics
<1>. QED BY <1>1, <1>4 DEF FrameInv, FrameRestored, Unknown, Route4, Reading, Phases

\* Ending an index leaves a frame its reader will recognize.
LEMMA IndexFrames == FrameInv /\ EndIndex => FrameInv'
<1>. SUFFICES ASSUME FrameInv, EndIndex
              PROVE  FrameInv'
  OBVIOUS
<1>1. /\ opt' = opt /\ opt \in Options /\ c' = 0 /\ out' = <<>> /\ info' = Unknown
      /\ phase' = "inspect" /\ Route(opt) = "index" /\ Valid(opt)
  BY DEF FrameInv, EndIndex, Route4
<1>2. file' = [form |-> "NGC2", channels |-> Count(opt), bytes |-> Bytes(opt),
               elements |-> Whole(opt)]
  BY DEF EndIndex
<1>3. Filed'
  BY <1>1, <1>2 DEF Filed
<1>. QED BY <1>1, <1>3 DEF FrameInv, FrameRestored, Unknown, Route4, Reading, Phases

\* So does a frame of one leaf.
LEMMA LeafFrames == FrameInv /\ EncodeLeaf => FrameInv'
<1>. SUFFICES ASSUME FrameInv, EncodeLeaf
              PROVE  FrameInv'
  OBVIOUS
<1>1. /\ opt' = opt /\ opt \in Options /\ c' = 0 /\ out' = <<>> /\ info' = Unknown
      /\ phase' = "inspect" /\ Route(opt) = "leaf" /\ Valid(opt)
  BY DEF FrameInv, EncodeLeaf, Route4
<1>2. file' = [form |-> "NCF1", bytes |-> Voxels(opt.dims), elements |-> Whole(opt)]
  BY DEF EncodeLeaf
<1>3. Filed'
  BY <1>1, <1>2 DEF Filed
<1>. QED BY <1>1, <1>3 DEF FrameInv, FrameRestored, Unknown, Route4, Reading, Phases

\* One more channel starts where the buffer ended.
LEMMA ChannelFrames == StoreInv /\ FrameInv /\ EncodeChannel => FrameInv'
<1>. SUFFICES ASSUME StoreInv, FrameInv, EncodeChannel
              PROVE  FrameInv'
  OBVIOUS
<1>1. /\ opt' = opt /\ opt \in Options /\ opt.channels \in Nat /\ out = <<>> /\ out' = <<>>
      /\ phase = "channels" /\ Route(opt) = "channels" /\ Valid(opt)
      /\ info' = info /\ info = Unknown
      /\ c \in 0 .. opt.channels /\ c < opt.channels /\ Encoded(c)
  BY OptionFacts DEF FrameInv, EncodeChannel, Route4
<1>2. PICK size \in Payloads :
          IF size > EntryMax \/ size > SizeMax - store.count
          THEN phase' = "refused" /\ UNCHANGED <<c, store, parts>>
          ELSE /\ store' = Grown(store, store.count + size)
               /\ parts' = Append(parts, Field(opt, c, size))
               /\ c' = c + 1
               /\ UNCHANGED phase
  BY DEF EncodeChannel
<1>3. CASE phase' = "refused"
  BY <1>1, <1>3 DEF FrameInv, FrameRestored, Unknown, Route4, Reading, Phases
<1>4. CASE phase' # "refused"
  <2>1. /\ store' = Grown(store, store.count + size)
        /\ parts' = Append(parts, Field(opt, c, size)) /\ c' = c + 1
        /\ phase' = "channels"
    BY <1>1, <1>2, <1>4
  <2>2. /\ store.count \in Nat /\ size \in Nat
        /\ store \in [count : Nat, capacity : Nat, element : {1, ListElement}, bytes : Nat]
    BY OptionsAssumption DEF StoreInv, StoreOK
  <2>3. store'.count = store.count + size
    BY <2>1, <2>2 DEF Grown, Allocated
  <2>4. PICK off : Offsets(off, c)
    BY <1>1 DEF Encoded
  <2>5. /\ parts \in Seq(PartSet) /\ Len(parts) = c /\ c \in Nat
        /\ \A k \in 1 .. c : \E s \in Payloads : parts[k] = Field(opt, k - 1, s)
    BY <1>1 DEF Encoded
  <2>. DEFINE new == Field(opt, c, size)
  <2>6. new \in PartSet /\ new.size = size
    <3>1. new \in PartSet
      BY <2>5 DEF PartSet
    <3>2. new.size = size
      BY DEF Field
    <3>. QED BY <3>1, <3>2
  <2>. HIDE DEF new
  <2>7. /\ parts' \in Seq(PartSet) /\ Len(parts') = c + 1
        /\ \A k \in 1 .. c : parts'[k] = parts[k]
        /\ parts'[c + 1] = new
    BY <2>1, <2>5, <2>6 DEF new
  <2>8. \A k \in 1 .. c + 1 : \E s \in Payloads : parts'[k] = Field(opt, k - 1, s)
    <3>1. parts'[c + 1] = Field(opt, (c + 1) - 1, size)
      BY <2>5, <2>7 DEF new
    <3>2. \A k \in 1 .. c + 1 : k \in 1 .. c \/ k = c + 1
      BY <2>5
    <3>. QED BY <2>5, <2>7, <3>1, <3>2
  <2>. DEFINE next == [k \in 0 .. c + 1 |->
                          IF k = c + 1 THEN store.count + size ELSE off[k]]
  <2>9. /\ off \in [0 .. c -> Nat] /\ off[0] = TableBytes(opt) /\ off[c] = store.count
        /\ \A k \in 1 .. c : off[k] = off[k - 1] + parts[k].size
        /\ \A k \in 0 .. c : off[k] <= off[c]
    BY <2>4 DEF Offsets
  <2>10. /\ next \in [0 .. c + 1 -> Nat] /\ next[c + 1] = store.count + size
         /\ \A k \in 0 .. c : next[k] = off[k]
    BY <2>2, <2>5, <2>9
  <2>. HIDE DEF next
  <2>11. \A k \in 1 .. c + 1 : next[k] = next[k - 1] + parts'[k].size
    <3>1. next[c + 1] = next[(c + 1) - 1] + parts'[c + 1].size
      BY <2>2, <2>5, <2>6, <2>7, <2>9, <2>10
    <3>2. ASSUME NEW k \in 1 .. c
          PROVE  next[k] = next[k - 1] + parts'[k].size
      <4>1. k \in 0 .. c /\ k - 1 \in 0 .. c
        BY <2>5
      <4>2. next[k] = off[k] /\ next[k - 1] = off[k - 1]
        BY <2>10, <4>1
      <4>. QED BY <2>7, <2>9, <4>2
    <3>3. \A k \in 1 .. c + 1 : k \in 1 .. c \/ k = c + 1
      BY <2>5
    <3>. QED BY <3>1, <3>2, <3>3
  <2>12. \A k \in 0 .. c + 1 : next[k] <= next[c + 1]
    BY <2>2, <2>5, <2>9, <2>10
  <2>13. PICK m, later : m = c + 1 /\ later = next
    OBVIOUS
  <2>14. Encoded(c)'
    <3>1. /\ later[0] = TableBytes(opt') /\ later[m] = store'.count
          /\ m = c' /\ phase' # "scatter"
      BY <1>1, <2>1, <2>3, <2>5, <2>9, <2>10, <2>13
    <3>2. Offsets(later, m)'
      BY <2>10, <2>11, <2>12, <2>13, <3>1 DEF Offsets
    <3>3. \E off1 : Offsets(off1, c)' /\ (phase' = "scatter" => offset' = off1[c'])
      <4>1. Offsets(later, c)'
        BY <3>1, <3>2
      <4>. QED BY <3>1, <4>1
    <3>4. PartSet' = PartSet
      BY <1>1 DEF PartSet
    <3>5. \A k \in 1 .. c' : \E s \in Payloads : parts'[k] = Field(opt', k - 1, s)
      BY <1>1, <2>1, <2>8
    <3>6. parts' \in Seq(PartSet)' /\ Len(parts') = c'
      BY <2>1, <2>7, <3>4
    <3>. QED BY <3>3, <3>5, <3>6 DEF Encoded
  <2>15. c' \in 0 .. opt'.channels
    BY <1>1, <2>1
  <2>. QED BY <1>1, <2>1, <2>14, <2>15 DEF FrameInv, FrameRestored, Unknown, Route4, Reading, Phases
<1>. QED BY <1>3, <1>4

\* Parts stay encoded while they are not decoded.
LEMMA EncodedKept ==
    ASSUME Encoded(opt.channels), UNCHANGED <<opt, store, parts>>, phase' # "scatter"
    PROVE  Encoded(opt.channels)'
<1>1. /\ parts \in Seq(PartSet) /\ Len(parts) = opt.channels
      /\ \A k \in 1 .. opt.channels : \E size \in Payloads : parts[k] = Field(opt, k - 1, size)
      /\ \E off : Offsets(off, opt.channels)
  BY DEF Encoded
<1>2. PICK off : Offsets(off, opt.channels)
  BY <1>1
<1>3. Offsets(off, opt.channels)'
  BY <1>2 DEF Offsets
<1>4. PartSet' = PartSet
  BY DEF PartSet
<1>. QED BY <1>1, <1>3, <1>4 DEF Encoded

\* All channels, and the frame is put together.
LEMMA EndFrames == FrameInv /\ EndChannels => FrameInv'
<1>. SUFFICES ASSUME FrameInv, EndChannels
              PROVE  FrameInv'
  OBVIOUS
<1>1. /\ opt' = opt /\ opt \in Options /\ out' = <<>> /\ info' = Unknown
      /\ phase = "channels" /\ phase' = "inspect" /\ Route(opt) = "channels" /\ Valid(opt)
      /\ c = opt.channels /\ Encoded(opt.channels) /\ c' = 0
      /\ store' = store /\ parts' = parts
  BY DEF FrameInv, EndChannels, Route4
<1>2. file' = Framed(Magic)
  BY DEF EndChannels, Framed
<1>3. Encoded(opt.channels)'
  BY <1>1, EncodedKept
<1>4. Filed'
  <2>1. file' = Framed(Magic)'
    BY <1>1, <1>2 DEF Framed
  <2>. QED BY <1>1, <1>3, <2>1 DEF Filed, Magics
<1>. QED BY <1>1, <1>4 DEF FrameInv, FrameRestored, Unknown, Route4, Reading, Phases

\* What is filed stays, while options, buffer and parts do, and no part is decoded.
LEMMA FiledKept ==
    ASSUME Filed, UNCHANGED <<opt, store, parts, file>>, phase' # "scatter"
    PROVE  Filed'
<1>1. Encoded(opt.channels) => Encoded(opt.channels)'
  BY EncodedKept
<1>2. \A form, size : Named(form, size)' = Named(form, size) /\ Framed(form)' = Framed(form)
  BY DEF Named, Framed, Ordered
<1>. QED BY <1>1, <1>2 DEF Filed

\* A foreign magic changes nothing else of the frame.
LEMMA RenameFrames == FrameInv /\ Rename => FrameInv'
<1>. SUFFICES ASSUME FrameInv, Rename
              PROVE  FrameInv'
  OBVIOUS
<1>1. /\ UNCHANGED <<opt, phase, c, store, parts, info, ask, offset, out>>
      /\ phase = "inspect" /\ file.form = Magic /\ file' = [file EXCEPT !.form = Foreign]
      /\ opt \in Options /\ Valid(opt) /\ Filed /\ c = 0 /\ out = <<>> /\ info = Unknown
  BY DEF FrameInv, Rename, Reading
<1>2. Route(opt) # "leaf" /\ Route(opt) # "index"
  <2>1. Filed /\ file.form = "D3D1"
    BY <1>1 DEF Magic
  <2>2. Route(opt) = "leaf" => file.form = "NCF1"
    BY <2>1 DEF Filed
  <2>3. Route(opt) = "index" => file.form = "NGC2"
    BY <2>1 DEF Filed
  <2>. QED BY <2>1, <2>2, <2>3
<1>3. Route(opt) = "field" => \E size \in Payloads : file' = Named(Foreign, size)
  <2>1. \A form, size : [Named(form, size) EXCEPT !.form = Foreign] = Named(Foreign, size)
    BY DEF Named
  <2>2. Route(opt) = "field" =>
           \E form \in Magics, size \in Payloads : file = Named(form, size)
    BY <1>1 DEF Filed
  <2>. HIDE DEF Named
  <2>. QED BY <1>1, <2>1, <2>2
<1>4. Route(opt) = "channels" =>
         Encoded(opt.channels) /\ file' = Framed(Foreign)
  <2>1. \A form : [Framed(form) EXCEPT !.form = Foreign] = Framed(Foreign)
    BY DEF Framed
  <2>2. Route(opt) = "channels" =>
           Encoded(opt.channels) /\ \E form \in Magics : file = Framed(form)
    BY <1>1 DEF Filed
  <2>. QED BY <1>1, <2>1, <2>2
<1>5. \A form, size : Named(form, size)' = Named(form, size) /\ Framed(form)' = Framed(form)
  BY <1>1 DEF Named, Framed, Ordered
<1>6. Encoded(opt.channels) => Encoded(opt.channels)'
  BY <1>1, EncodedKept
<1>7. Filed'
  BY <1>1, <1>2, <1>3, <1>4, <1>5, <1>6 DEF Filed, Magics
<1>. QED BY <1>1, <1>7 DEF FrameInv, FrameRestored, Unknown, Route4, Reading, Phases

\* What a frame says of itself is what was asked for.
LEMMA FileFacts ==
    ASSUME opt \in Options, Filed, store.count \in Nat
    PROVE  /\ Route(opt) = "leaf" =>
                /\ file.form = "NCF1" /\ file.bytes = Bytes(opt)
                /\ Count(opt) = 1 /\ opt.width = 1
                /\ file.elements = Restored(Count(opt))
           /\ Route(opt) = "index" =>
                /\ file.form = "NGC2" /\ file.bytes = Bytes(opt)
                /\ file.channels = Count(opt) /\ opt.width = 1
                /\ file.elements = Restored(Count(opt))
           /\ Route(opt) = "field" =>
                /\ file.form \in Magics /\ file.version = 1 /\ file.width = opt.width
                /\ ProbedBytes(file) = Bytes(opt) /\ Count(opt) = 1
                /\ file.elements = Restored(Count(opt))
           /\ Route(opt) = "channels" =>
                /\ file.form \in Magics /\ file.version = 2 /\ file.width = opt.width
                /\ ProbedBytes(file) = Bytes(opt) /\ file.channels = Count(opt)
                /\ file.channels <= (file.size - HeaderBytes) \div EntryBytes
<1>1. /\ Voxels(opt.dims) \in Nat /\ Count(opt) \in Nat \ {0} /\ opt.channels \in Nat
      /\ opt.element \in Nat
      /\ Covered(opt, Count(opt)) = 0 .. Voxels(opt.dims) * Count(opt) - 1
  BY OptionFacts, AllCovered
<1>2. opt.width = 1 => Whole(opt) = Restored(Count(opt))
  BY <1>1 DEF Whole, Restored
<1>3. ASSUME Route(opt) = "leaf"
      PROVE  /\ file.form = "NCF1" /\ file.bytes = Bytes(opt)
             /\ Count(opt) = 1 /\ opt.width = 1
             /\ file.elements = Restored(Count(opt))
  <2>1. opt.channels = 0 /\ opt.element = 1 /\ opt.width = 1
    BY <1>3, RouteFacts
  <2>2. Count(opt) = 1 /\ Bytes(opt) = 1 * Voxels(opt.dims)
    BY <2>1, FieldInOrder
  <2>3. file = [form |-> "NCF1", bytes |-> Voxels(opt.dims), elements |-> Whole(opt)]
    BY <1>3 DEF Filed
  <2>. QED BY <1>1, <1>2, <2>1, <2>2, <2>3
<1>4. ASSUME Route(opt) = "index"
      PROVE  /\ file.form = "NGC2" /\ file.bytes = Bytes(opt)
             /\ file.channels = Count(opt) /\ opt.width = 1
             /\ file.elements = Restored(Count(opt))
  <2>1. opt.width = 1
    BY <1>4, RouteFacts
  <2>2. file = [form |-> "NGC2", channels |-> Count(opt), bytes |-> Bytes(opt),
                elements |-> Whole(opt)]
    BY <1>4 DEF Filed
  <2>. QED BY <1>2, <2>1, <2>2
<1>5. ASSUME Route(opt) = "field"
      PROVE  /\ file.form \in Magics /\ file.version = 1 /\ file.width = opt.width
             /\ ProbedBytes(file) = Bytes(opt) /\ Count(opt) = 1
             /\ file.elements = Restored(Count(opt))
  <2>1. opt.channels = 0
    BY <1>5, RouteFacts
  <2>2. /\ Count(opt) = 1 /\ Voxels(opt.dims) * Count(opt) = Voxels(opt.dims)
        /\ Bytes(opt) = opt.element * Voxels(opt.dims)
        /\ \A i \in Nat : Position(opt, 0, i) = i
    BY <2>1, FieldInOrder
  <2>3. PICK form \in Magics, size \in Payloads : file = Named(form, size)
    BY <1>5 DEF Filed
  <2>4. /\ file.form = form /\ file.version = 1 /\ file.width = opt.width
        /\ file.element = opt.element /\ file.dims = opt.dims
        /\ file.elements = [i \in 0 .. Voxels(opt.dims) - 1 |->
                               [at |-> Position(opt, 0, i), width |-> opt.width]]
    BY <2>3 DEF Named, Ordered
  <2>5. opt.element * Voxels(opt.dims) \in Nat
    BY <1>1
  <2>6. ProbedBytes(file) = Bytes(opt)
    BY <2>2, <2>4, <2>5 DEF ProbedBytes
  <2>7. file.elements = Restored(Count(opt))
    <3>1. Covered(opt, Count(opt)) = 0 .. Voxels(opt.dims) - 1
      BY <1>1, <2>2
    <3>2. \A i \in 0 .. Voxels(opt.dims) - 1 : Position(opt, 0, i) = i
      BY <2>2
    <3>3. Restored(Count(opt)) = [i \in 0 .. Voxels(opt.dims) - 1 |->
                                     [at |-> i, width |-> opt.width]]
      BY <3>1 DEF Restored
    <3>. QED BY <3>2, <3>3, <2>4
  <2>. QED BY <2>2, <2>4, <2>6, <2>7
<1>6. ASSUME Route(opt) = "channels"
      PROVE  /\ file.form \in Magics /\ file.version = 2 /\ file.width = opt.width
             /\ ProbedBytes(file) = Bytes(opt) /\ file.channels = Count(opt)
             /\ file.channels <= (file.size - HeaderBytes) \div EntryBytes
  <2>1. Count(opt) = opt.channels
    BY <1>6, RouteFacts
  <2>2. PICK form \in Magics : file = Framed(form)
    BY <1>6 DEF Filed
  <2>3. /\ file.form = form /\ file.version = 2 /\ file.width = opt.width
        /\ file.element = opt.element /\ file.dims = opt.dims
        /\ file.channels = opt.channels /\ file.size = store.count
    BY <2>2 DEF Framed
  <2>4. ProbedBytes(file) = Bytes(opt)
    BY <2>1, <2>3 DEF ProbedBytes, Bytes
  <2>5. PICK off : Offsets(off, opt.channels)
    BY <1>6 DEF Filed, Encoded
  <2>6. TableBytes(opt) <= store.count
    BY <1>1, <2>5 DEF Offsets
  <2>7. EntryBytes \in Nat \ {0} /\ HeaderBytes \in Nat
    BY LimitAssumption
  <2>. DEFINE rest == store.count - HeaderBytes
  <2>8. rest \in Nat /\ EntryBytes * opt.channels <= rest
    <3>1. EntryBytes * opt.channels \in Nat
      BY <1>1, <2>7
    <3>2. HeaderBytes + EntryBytes * opt.channels <= store.count
      BY <2>6 DEF TableBytes
    <3>. HIDE DEF TableBytes
    <3>. QED BY <3>1, <3>2, <2>7
  <2>9. opt.channels <= rest \div EntryBytes
    <3>. HIDE DEF rest
    <3>1. opt.channels * EntryBytes = EntryBytes * opt.channels
      BY <1>1, <2>7
    <3>. QED BY <1>1, <2>7, <2>8, <3>1, QuotientBound
  <2>. QED BY <2>1, <2>3, <2>4, <2>9
<1>. QED BY <1>3, <1>4, <1>5, <1>6

\* Inspection names the bytes, channels and width of the input.
LEMMA InspectFrames == StoreInv /\ FrameInv /\ Inspect => FrameInv'
<1>. SUFFICES ASSUME StoreInv, FrameInv, Inspect
              PROVE  FrameInv'
  OBVIOUS
<1>1. /\ UNCHANGED <<opt, c, store, parts, file, ask, offset, out>>
      /\ phase = "inspect" /\ phase' = "decompress"
      /\ opt \in Options /\ Valid(opt) /\ Filed /\ c = 0 /\ out = <<>>
  BY DEF FrameInv, Inspect, Reading
<1>2. Filed'
  BY <1>1, FiledKept
<1>3. store.count \in Nat
  BY DEF StoreInv, StoreOK
<1>4. info' = CASE file.form = "NGC2" -> Known(file.bytes, file.channels, 1, FALSE)
                [] file.form = "NCF1" -> Known(file.bytes, 1, 1, FALSE)
                [] Probed(file, Magic) ->
                      Known(ProbedBytes(file), IF file.version = 2 THEN file.channels ELSE 1,
                            file.width, file.version = 1)
                [] OTHER -> Unknown
  BY DEF Inspect
<1>5. info'.known =>
         info'.bytes = Bytes(opt) /\ info'.channels = Count(opt) /\ info'.width = opt.width
  <2>1. CASE Route(opt) = "leaf"
    <3>1. /\ file.form = "NCF1" /\ file.bytes = Bytes(opt) /\ Count(opt) = 1 /\ opt.width = 1
      BY <1>1, <1>3, <2>1, FileFacts
    <3>2. info' = Known(file.bytes, 1, 1, FALSE)
      BY <1>4, <3>1 DEF Probed, Magic
    <3>. QED BY <3>1, <3>2 DEF Known
  <2>2. CASE Route(opt) = "index"
    <3>1. /\ file.form = "NGC2" /\ file.bytes = Bytes(opt)
          /\ file.channels = Count(opt) /\ opt.width = 1
      BY <1>1, <1>3, <2>2, FileFacts
    <3>2. info' = Known(file.bytes, file.channels, 1, FALSE)
      BY <1>4, <3>1 DEF Probed, Magic
    <3>. QED BY <3>1, <3>2 DEF Known
  <2>3. CASE Route(opt) = "field" \/ Route(opt) = "channels"
    <3>1. /\ file.form \in Magics /\ file.width = opt.width
          /\ ProbedBytes(file) = Bytes(opt)
          /\ (IF file.version = 2 THEN file.channels ELSE 1) = Count(opt)
      BY <1>1, <1>3, <2>3, FileFacts
    <3>2. \/ info' = Known(ProbedBytes(file), IF file.version = 2 THEN file.channels ELSE 1,
                           file.width, file.version = 1)
          \/ info' = Unknown
      BY <1>4, <3>1 DEF Magics, Magic, Foreign
    <3>. QED BY <3>1, <3>2 DEF Known, Unknown
  <2>. QED BY <2>1, <2>2, <2>3, RouteIsOne DEF Route4
<1>6. FrameRestored'
  BY <1>1, <1>5 DEF FrameRestored
<1>. QED BY <1>1, <1>2, <1>6 DEF FrameInv, Route4, Reading, Phases

\* No channel, no places.
LEMMA NoneRestored ==
    ASSUME opt \in Options
    PROVE  Restored(0) = <<>>
<1>1. Covered(opt, 0) = {}
  BY DEF Covered
<1>. QED BY <1>1 DEF Restored

\* The right call is served and only wrong ones are rejected.
LEMMA DecompressFrames == StoreInv /\ FrameInv /\ Decompress => FrameInv'
<1>. SUFFICES ASSUME StoreInv, FrameInv, Decompress
              PROVE  FrameInv'
  OBVIOUS
<1>1. /\ UNCHANGED <<opt, c, store, parts, file, info>>
      /\ phase = "decompress"
      /\ opt \in Options /\ Valid(opt) /\ Filed /\ c = 0 /\ out = <<>> /\ FrameRestored
      /\ opt.channels \in Nat
  BY OptionFacts DEF FrameInv, Decompress, Reading
<1>2. store.count \in Nat
  BY DEF StoreInv, StoreOK
<1>3. PICK magic \in Magics, bytes \in {Bytes(opt), Bytes(opt) - 1} :
          /\ ask' = [magic |-> magic, bytes |-> bytes]
          /\ IF magic = Magic /\ file.form \in {"NGC2", "NCF1"}
             THEN IF bytes = file.bytes
                  THEN phase' = "decoded" /\ out' = file.elements
                  ELSE phase' = "rejected" /\ UNCHANGED out
             ELSE /\ phase' = IF ~Probed(file, magic) THEN "rejected"
                              ELSE IF ProbedBytes(file) # bytes THEN "rejected"
                              ELSE IF file.version = 1 THEN "decoded"
                              ELSE IF file.channels > (file.size - HeaderBytes) \div EntryBytes
                              THEN "rejected" ELSE "scatter"
                  /\ out' = IF phase' = "decoded" THEN file.elements ELSE out
  BY DEF Decompress, Magics
<1>4. ask'.magic = magic /\ ask'.bytes = bytes
  BY <1>3
<1>. DEFINE Wrong == \/ bytes # Bytes(opt)
                     \/ magic # (IF file.form \in {"NGC2", "NCF1"} THEN Magic ELSE file.form)
<1>5. /\ phase' \in {"decoded", "rejected", "scatter"}
      /\ phase' = "decoded" => out' = Restored(Count(opt))
      /\ phase' = "scatter" => Route(opt) = "channels" /\ out' = <<>>
      /\ phase' = "rejected" => Wrong
  <2>1. CASE Route(opt) = "leaf" \/ Route(opt) = "index"
    <3>1. /\ file.form \in {"NGC2", "NCF1"} /\ file.bytes = Bytes(opt)
          /\ file.elements = Restored(Count(opt))
      BY <1>1, <1>2, <2>1, FileFacts
    <3>2. CASE magic = Magic
      BY <1>3, <3>1, <3>2
    <3>3. CASE magic # Magic
      <4>1. magic = "VCZ1"
        BY <1>3, <3>3 DEF Magics, Foreign
      <4>2. phase' = "rejected"
        BY <1>3, <3>1, <3>3, <4>1 DEF Probed
      <4>. QED BY <3>1, <3>3, <4>2
    <3>. QED BY <3>2, <3>3
  <2>2. CASE Route(opt) = "field" \/ Route(opt) = "channels"
    <3>1. /\ file.form \in Magics /\ ProbedBytes(file) = Bytes(opt)
          /\ file.form \notin {"NGC2", "NCF1"}
      BY <1>1, <1>2, <2>2, FileFacts DEF Magics, Magic, Foreign
    <3>2. /\ phase' = IF ~Probed(file, magic) THEN "rejected"
                      ELSE IF ProbedBytes(file) # bytes THEN "rejected"
                      ELSE IF file.version = 1 THEN "decoded"
                      ELSE IF file.channels > (file.size - HeaderBytes) \div EntryBytes
                      THEN "rejected" ELSE "scatter"
          /\ out' = IF phase' = "decoded" THEN file.elements ELSE out
      BY <1>3, <3>1
    <3>3. CASE ~Probed(file, magic)
      BY <3>1, <3>2, <3>3 DEF Probed
    <3>4. CASE Probed(file, magic) /\ bytes # Bytes(opt)
      BY <3>1, <3>2, <3>4
    <3>5. CASE Probed(file, magic) /\ bytes = Bytes(opt) /\ Route(opt) = "field"
      <4>1. file.version = 1 /\ file.elements = Restored(Count(opt))
        BY <1>1, <1>2, <3>5, FileFacts
      <4>. QED BY <3>1, <3>2, <3>5, <4>1
    <3>6. CASE Probed(file, magic) /\ bytes = Bytes(opt) /\ Route(opt) = "channels"
      <4>1. /\ file.version = 2
            /\ file.channels <= (file.size - HeaderBytes) \div EntryBytes
            /\ file.channels \in Nat
        BY <1>1, <1>2, <3>6, FileFacts, OptionFacts
      <4>2. (file.size - HeaderBytes) \div EntryBytes \in Int
        <5>1. PICK form \in Magics : file = Framed(form)
          BY <1>1, <3>6 DEF Filed
        <5>2. file.size = store.count
          BY <5>1 DEF Framed
        <5>. QED BY <5>2, <1>2, LimitAssumption
      <4>3. ~(file.channels > (file.size - HeaderBytes) \div EntryBytes)
        BY <4>1, <4>2
      <4>4. phase' = "scatter" /\ out' = <<>>
        BY <1>1, <3>1, <3>2, <3>6, <4>1, <4>3
      <4>. QED BY <3>6, <4>4
    <3>. QED BY <2>2, <3>3, <3>4, <3>5, <3>6
  <2>. QED BY <2>1, <2>2, RouteIsOne DEF Route4
<1>6. Filed'
  <2>1. CASE phase' # "scatter"
    BY <1>1, <2>1, FiledKept
  <2>2. CASE phase' = "scatter"
    <3>1. Route(opt) = "channels"
      BY <1>5, <2>2
    <3>2. PICK form \in Magics : file = Framed(form)
      BY <1>1, <3>1 DEF Filed
    <3>3. file' = Framed(form)'
      BY <1>1, <3>2 DEF Framed
    <3>4. /\ parts \in Seq(PartSet) /\ Len(parts) = opt.channels
          /\ \A k \in 1 .. opt.channels :
                \E size \in Payloads : parts[k] = Field(opt, k - 1, size)
          /\ \E off : Offsets(off, opt.channels)
      BY <1>1, <3>1 DEF Filed, Encoded
    <3>5. PICK off : Offsets(off, opt.channels)
      BY <3>4
    <3>6. Offsets(off, opt.channels)'
      BY <1>1, <3>5 DEF Offsets
    <3>7. offset' = TableBytes(opt)
      <4>1. offset' = HeaderBytes + EntryBytes * file.channels
        BY <2>2 DEF Decompress
      <4>2. file.channels = opt.channels
        BY <3>2 DEF Framed
      <4>. QED BY <4>1, <4>2 DEF TableBytes
    <3>8. off[0] = TableBytes(opt)
      BY <3>5 DEF Offsets
    <3>9. PartSet' = PartSet
      BY <1>1 DEF PartSet
    <3>10. Encoded(opt.channels)'
      BY <1>1, <3>4, <3>6, <3>7, <3>8, <3>9 DEF Encoded
    <3>. QED BY <1>1, <3>1, <3>3, <3>10 DEF Filed
  <2>. QED BY <2>1, <2>2
<1>7. FrameRestored'
  <2>1. phase' = "decoded" =>
           out' = [p \in 0 .. Voxels(opt.dims) * Count(opt) - 1 |->
                      [at |-> p, width |-> opt.width]]
    BY <1>1, <1>5, AllCovered DEF Restored
  <2>2. phase' = "rejected" =>
           \/ ask'.bytes # Bytes(opt)
           \/ ask'.magic # (IF file.form \in {"NGC2", "NCF1"} THEN Magic ELSE file.form)
    BY <1>4, <1>5
  <2>. QED BY <1>1, <2>1, <2>2 DEF FrameRestored
<1>8. phase' = "scatter" =>
         Route(opt') = "channels" /\ c' \in 0 .. opt'.channels /\ out' = Restored(c)'
  <2>1. Restored(0)' = Restored(0)
    BY <1>1 DEF Restored, Covered
  <2>. QED BY <1>1, <1>5, <2>1, NoneRestored
<1>. QED BY <1>1, <1>5, <1>6, <1>7, <1>8 DEF FrameInv, Route4, Reading, Phases

\* One channel more covers its places as well.
LEMMA CoveredNext ==
    ASSUME NEW o, NEW k \in Nat
    PROVE  Covered(o, k + 1) =
              Covered(o, k) \cup {Position(o, k, i) : i \in 0 .. Voxels(o.dims) - 1}
<1>. DEFINE I == 0 .. Voxels(o.dims) - 1
            P(j, i) == Position(o, j, i)
<1>1. Covered(o, k) = {P(j, i) : j \in 0 .. k - 1, i \in I}
  BY DEF Covered
<1>2. Covered(o, k + 1) = {P(j, i) : j \in 0 .. (k + 1) - 1, i \in I}
  BY DEF Covered
<1>3. (k + 1) - 1 = k /\ 0 .. k = (0 .. k - 1) \cup {k}
  OBVIOUS
<1>. HIDE DEF I, P
<1>4. Covered(o, k + 1) = Covered(o, k) \cup {P(k, i) : i \in I}
  BY <1>1, <1>2, <1>3
<1>. QED BY <1>4 DEF I, P

\* No channel of the reader's own frame is rejected, and each lands in its places.
LEMMA DecodeFrames == StoreInv /\ FrameInv /\ DecodeChannel => FrameInv'
<1>. SUFFICES ASSUME StoreInv, FrameInv, DecodeChannel
              PROVE  FrameInv'
  OBVIOUS
<1>1. /\ UNCHANGED <<opt, store, parts, file, info, ask>>
      /\ phase = "scatter" /\ Route(opt) = "channels"
      /\ opt \in Options /\ Valid(opt) /\ Filed
      /\ c \in 0 .. opt.channels /\ c < file.channels
      /\ out = Restored(c) /\ FrameRestored
  BY DEF FrameInv, DecodeChannel, Reading
<1>2. PICK form \in Magics : file = Framed(form)
  BY <1>1 DEF Filed
<1>3. /\ file.channels = opt.channels /\ file.dims = opt.dims /\ file.element = opt.element
      /\ file.layout = opt.layout /\ file.size = store.count /\ file.parts = parts
  BY <1>2 DEF Framed
<1>4. /\ opt.channels \in Nat /\ Count(opt) = opt.channels /\ opt.channels # 0
      /\ Voxels(opt.dims) \in Nat /\ opt.layout \in {0, 1} /\ c \in Nat
  BY <1>1, OptionFacts, RouteFacts DEF Valid
<1>5. /\ parts \in Seq(PartSet) /\ Len(parts) = opt.channels
      /\ \A k \in 1 .. opt.channels :
            \E size \in Payloads : parts[k] = Field(opt, k - 1, size)
      /\ \E off : Offsets(off, opt.channels) /\ offset = off[c]
  BY <1>1 DEF Filed, Encoded
<1>6. c + 1 \in 1 .. opt.channels /\ (c + 1) - 1 = c
  BY <1>1, <1>3, <1>4
<1>7. PICK size \in Payloads : parts[c + 1] = Field(opt, c, size)
  BY <1>5, <1>6
<1>8. PICK off : Offsets(off, opt.channels) /\ offset = off[c]
  BY <1>5
<1>. DEFINE part == file.parts[c + 1]
            n == Voxels(file.dims)
            To(i) == IF file.layout = 1 /\ file.channels > 1 THEN i * file.channels + c
                     ELSE c * n + i
<1>9. /\ part = Field(opt, c, size)
      /\ part.form = Magic /\ part.version = 1 /\ part.element = opt.element
      /\ part.dims = opt.dims /\ part.size = size
      /\ part.elements = [i \in 0 .. Voxels(opt.dims) - 1 |->
                             [at |-> Position(opt, c, i), width |-> opt.width]]
  BY <1>3, <1>7 DEF Field
<1>10. size \in Nat /\ store.count \in Nat
  BY OptionsAssumption DEF StoreInv, StoreOK
<1>11. /\ off[c + 1] = off[c] + size /\ off[c + 1] <= store.count
       /\ off[c] \in Nat
  <2>1. c \in 0 .. opt.channels /\ c + 1 \in 0 .. opt.channels
    BY <1>4, <1>6
  <2>2. parts[c + 1].size = size
    BY <1>3, <1>9
  <2>. QED BY <1>6, <1>8, <2>1, <2>2 DEF Offsets
<1>12. ~(part.size > file.size - offset)
  BY <1>3, <1>8, <1>9, <1>10, <1>11
<1>13. /\ out' = [p \in (DOMAIN out) \cup {To(i) : i \in 0 .. n - 1} |->
                    IF \E i \in 0 .. n - 1 : To(i) = p
                    THEN part.elements[CHOOSE i \in 0 .. n - 1 : To(i) = p]
                    ELSE out[p]]
       /\ offset' = offset + part.size /\ c' = c + 1 /\ phase' = phase
  <2>. HIDE DEF part, n, To
  <2>1. ~( part.size > file.size - offset \/ ~Probed(part, Magic) \/ part.version # 1
           \/ part.element # file.element \/ part.dims # file.dims )
    BY <1>3, <1>9, <1>12 DEF Probed
  <2>. QED BY <2>1 DEF DecodeChannel, part, n, To
<1>14. \A i \in 0 .. n - 1 : To(i) = Position(opt, c, i)
  <2>1. n = Voxels(opt.dims)
    BY <1>3
  <2>. SUFFICES ASSUME NEW i \in 0 .. n - 1
                PROVE  To(i) = Position(opt, c, i)
    OBVIOUS
  <2>2. Position(opt, c, i) =
           IF opt.layout = 1 THEN i * opt.channels + c ELSE c * Voxels(opt.dims) + i
    BY <1>4 DEF Position
  <2>3. CASE opt.channels > 1
    BY <1>3, <2>1, <2>2, <2>3
  <2>4. CASE opt.channels = 1
    <3>1. c = 0 /\ i \in Nat
      BY <1>1, <1>3, <1>4, <2>4
    <3>2. c * Voxels(opt.dims) = 0 /\ i * opt.channels = i
      BY <1>4, <2>4, <3>1
    <3>3. To(i) = c * Voxels(opt.dims) + i
      BY <1>3, <2>1, <2>4
    <3>. QED BY <2>2, <3>1, <3>2, <3>3
  <2>. QED BY <1>4, <2>3, <2>4
<1>15. Covered(opt, c + 1) = (DOMAIN out) \cup {To(i) : i \in 0 .. n - 1}
  <2>1. n = Voxels(opt.dims)
    BY <1>3
  <2>2. Covered(opt, c + 1) = Covered(opt, c) \cup {Position(opt, c, i) : i \in 0 .. n - 1}
    BY <1>4, <2>1, CoveredNext
  <2>3. DOMAIN out = Covered(opt, c)
    BY <1>1 DEF Restored
  <2>. HIDE DEF n, To
  <2>4. {To(i) : i \in 0 .. n - 1} = {Position(opt, c, i) : i \in 0 .. n - 1}
    BY <1>14
  <2>. QED BY <2>2, <2>3, <2>4
<1>16. out' = Restored(c + 1)
  <2>. DEFINE new(p) == IF \E i \in 0 .. n - 1 : To(i) = p
                        THEN part.elements[CHOOSE i \in 0 .. n - 1 : To(i) = p]
                        ELSE out[p]
  <2>1. ASSUME NEW p \in Covered(opt, c + 1)
        PROVE  new(p) = [at |-> p, width |-> opt.width]
    <3>1. CASE \E i \in 0 .. n - 1 : To(i) = p
      <4>. DEFINE h == CHOOSE i \in 0 .. n - 1 : To(i) = p
      <4>. HIDE DEF part, n, To
      <4>1. h \in 0 .. n - 1 /\ To(h) = p
        BY <3>1
      <4>. HIDE DEF h
      <4>2. Position(opt, c, h) = p
        BY <1>14, <4>1
      <4>3. h \in 0 .. Voxels(opt.dims) - 1
        BY <1>3, <4>1 DEF n
      <4>4. part.elements[h] = [at |-> p, width |-> opt.width]
        BY <1>9, <4>2, <4>3
      <4>. QED BY <3>1, <4>4 DEF h
    <3>2. CASE ~\E i \in 0 .. n - 1 : To(i) = p
      <4>. HIDE DEF part, n, To
      <4>1. p \in DOMAIN out
        BY <1>15, <3>2
      <4>2. out[p] = [at |-> p, width |-> opt.width]
        BY <1>1, <4>1 DEF Restored
      <4>. QED BY <3>2, <4>2
    <3>. QED BY <3>1, <3>2
  <2>2. out' = [p \in (DOMAIN out) \cup {To(i) : i \in 0 .. n - 1} |-> new(p)]
    BY <1>13
  <2>. HIDE DEF new, part, n, To
  <2>3. out' = [p \in Covered(opt, c + 1) |-> [at |-> p, width |-> opt.width]]
    BY <1>15, <2>1, <2>2
  <2>. QED BY <2>3 DEF Restored
<1>17. Encoded(opt.channels)'
  <2>1. Offsets(off, opt.channels)'
    BY <1>1, <1>8 DEF Offsets
  <2>2. offset' = off[c']
    BY <1>8, <1>9, <1>11, <1>13
  <2>3. PartSet' = PartSet
    BY <1>1 DEF PartSet
  <2>. QED BY <1>1, <1>5, <2>1, <2>2, <2>3 DEF Encoded
<1>18. Filed'
  <2>1. file' = Framed(form)'
    BY <1>1, <1>2 DEF Framed
  <2>. QED BY <1>1, <1>17, <2>1 DEF Filed
<1>19. Restored(c)' = Restored(c')
  BY <1>1 DEF Restored, Covered
<1>20. c' \in 0 .. opt'.channels /\ out' = Restored(c)' /\ phase' = "scatter"
  BY <1>1, <1>6, <1>13, <1>16, <1>19
<1>21. FrameRestored'
  BY <1>1, <1>20 DEF FrameRestored
<1>. QED BY <1>1, <1>18, <1>20, <1>21 DEF FrameInv, Route4, Reading, Phases

\* After the last channel nothing of the frame is left.
LEMMA ScatterFrames == StoreInv /\ FrameInv /\ EndScatter => FrameInv'
<1>. SUFFICES ASSUME StoreInv, FrameInv, EndScatter
              PROVE  FrameInv'
  OBVIOUS
<1>1. /\ UNCHANGED <<opt, c, store, parts, file, info, ask, offset, out>>
      /\ phase = "scatter" /\ Route(opt) = "channels"
      /\ opt \in Options /\ Valid(opt) /\ Filed /\ c = file.channels
      /\ out = Restored(c) /\ FrameRestored
  BY DEF FrameInv, EndScatter, Reading
<1>2. PICK form \in Magics : file = Framed(form)
  BY <1>1 DEF Filed
<1>3. file.channels = opt.channels /\ file.size = store.count /\ Count(opt) = opt.channels
  BY <1>1, <1>2, RouteFacts DEF Framed
<1>4. PICK off : Offsets(off, opt.channels) /\ offset = off[c]
  BY <1>1 DEF Filed, Encoded
<1>5. offset = file.size
  BY <1>1, <1>3, <1>4 DEF Offsets
<1>6. phase' = "decoded"
  BY <1>5 DEF EndScatter
<1>7. Filed'
  BY <1>1, <1>6, FiledKept
<1>8. out' = [p \in 0 .. Voxels(opt.dims) * Count(opt) - 1 |->
                 [at |-> p, width |-> opt.width]]
  BY <1>1, <1>3, AllCovered DEF Restored
<1>9. FrameRestored'
  BY <1>1, <1>6, <1>8 DEF FrameRestored
<1>. QED BY <1>1, <1>6, <1>7, <1>9 DEF FrameInv, Route4, Reading, Phases

\* An entry of a list, or a refusal, is not part of any frame.
LEMMA ListFrames == FrameInv /\ ListEntry => FrameInv'
<1>. SUFFICES ASSUME FrameInv, ListEntry
              PROVE  FrameInv'
  OBVIOUS
<1>1. /\ UNCHANGED <<opt, c, parts, file, info, ask, offset, out>>
      /\ phase = "index" /\ phase' \in {"index", "refused"}
  BY DEF ListEntry
<1>. QED BY <1>1 DEF FrameInv, FrameRestored, Route4, Reading, Phases

\* A step that changes nothing keeps all of it.
LEMMA StutterFrames == FrameInv /\ UNCHANGED vars => FrameInv'
<1>. SUFFICES ASSUME FrameInv, UNCHANGED vars
              PROVE  FrameInv'
  OBVIOUS
<1>1. UNCHANGED <<opt, phase, c, store, parts, file, info, ask, offset, out>>
  BY DEF vars
<1>2. \A n : Encoded(n)' <=> Encoded(n)
  BY <1>1 DEF Encoded, Offsets, PartSet
<1>3. \A form, size : Named(form, size)' = Named(form, size) /\ Framed(form)' = Framed(form)
  BY <1>1 DEF Named, Framed, Ordered
<1>4. Filed => Filed'
  BY <1>1, <1>2, <1>3 DEF Filed
<1>5. Restored(c)' = Restored(c)
  BY <1>1 DEF Restored, Covered
<1>6. Encoded(c)' <=> Encoded(c)
  BY <1>1, <1>2
<1>7. FrameRestored => FrameRestored'
  BY <1>1 DEF FrameRestored
<1>. QED BY <1>1, <1>4, <1>5, <1>6, <1>7 DEF FrameInv

\* The frame is the one the options ask for, and what is decoded of it so far is right.
THEOREM FrameInvariant == Spec => []FrameInv
<1>1. Init => StoreInv /\ FrameInv
  BY InitStores, InitFrames, Zenon
<1>2. StoreInv /\ FrameInv /\ [Next]_vars => StoreInv' /\ FrameInv'
  <2>1. StoreInv /\ [Next]_vars => StoreInv'
    BY CompressStores, ChannelStores, ListStores, OtherStores DEF Next
  <2>. QED BY <2>1, ZenonT(60), CompressFrames, FieldFrames, ChannelFrames, EndFrames, ListFrames,
              IndexFrames, LeafFrames, RenameFrames, InspectFrames, DecompressFrames,
              DecodeFrames, ScatterFrames, StutterFrames DEF Next
<1>. QED BY <1>1, <1>2, PTL DEF Spec

\* Whatever form the options lead to, under either magic, inspection describes the
\* input, the right call gives every element back in its place and only calls for
\* other bytes or another magic are rejected (vc_compress, vc_frame_inspect,
\* vc_decompress_with_magic).
THEOREM FramesAlwaysRestored == Spec => []FrameRestored
<1>1. FrameInv => FrameRestored
  BY DEF FrameInv
<1>. QED BY FrameInvariant, <1>1, PTL

-----------------------------------------------------------------------------
(* The filter of one field (DeltaFilter): what its passes, in place and    *)
(* element by element, make of a field is known after every step, as the   *)
(* fields before and after the pass and the elements it has still to do.   *)

-----------------------------------------------------------------------------
(* Division. *)

\* A quotient and a rest with the right range are those of the division.
LEMMA DivisionIs ==
    ASSUME NEW i \in Nat, NEW b \in Nat \ {0}, NEW q \in Int, NEW r \in Int,
           i = b * q + r, 0 <= r, r < b
    PROVE  i \div b = q /\ i % b = r
<1>. DEFINE v == i \div b
            u == i % b
<1>1. i = b * v + u /\ u \in 0 .. b - 1 /\ v \in Nat
  OBVIOUS
<1>. HIDE DEF v, u
<1>2. b * (v - q) = r - u
  BY <1>1
<1>3. v - q >= 1 => b * (v - q) >= b
  BY <1>1
<1>4. v - q <= -1 => b * (v - q) <= -b
  BY <1>1
<1>5. v = q
  BY <1>1, <1>2, <1>3, <1>4
<1>6. u = r
  BY <1>1, <1>5
<1>. QED BY <1>5, <1>6 DEF v, u

\* What is s before an element of a block, that has so many before it, is in the
\* same block.
LEMMA SameBlock ==
    ASSUME NEW i \in Nat, NEW b \in Nat \ {0}, NEW s \in Nat, i % b >= s
    PROVE  /\ i - s \in Nat
           /\ (i - s) \div b = i \div b /\ (i - s) % b = (i % b) - s
<1>. DEFINE q == i \div b
            r == i % b
<1>1. i = b * q + r /\ r \in 0 .. b - 1 /\ q \in Nat
  OBVIOUS
<1>2. r >= s
  OBVIOUS
<1>. HIDE DEF q, r
<1>3. b * q >= 0
  BY <1>1
<1>4. i - s = b * q + (r - s) /\ i - s \in Nat /\ 0 <= r - s /\ r - s < b
  BY <1>1, <1>2, <1>3
<1>5. (i - s) \div b = q /\ (i - s) % b = r - s
  BY <1>1, <1>4, DivisionIs
<1>. QED BY <1>4, <1>5 DEF q, r

\* Adding what was taken away gives back the value, whatever wrapped in between.
LEMMA TakenBack ==
    ASSUME NEW n \in Nat, NEW u \in 0 .. n, NEW v \in 0 .. n
    PROVE  (((u - v) % (n + 1)) + v) % (n + 1) = u
<1>. DEFINE w == (u - v) % (n + 1)
<1>1. w = IF u >= v THEN u - v ELSE u - v + n + 1
  <2>1. CASE u >= v
    <3>1. u - v \in Nat /\ u - v = (n + 1) * 0 + (u - v) /\ u - v < n + 1
      BY <2>1
    <3>. QED BY <3>1, <2>1, DivisionIs
  <2>2. CASE u < v
    <3>1. u - v \in Int /\ u - v = (n + 1) * ((u - v) \div (n + 1)) + w /\ w \in 0 .. n
      OBVIOUS
    <3>. HIDE DEF w
    <3>2. PICK q \in Int : q = (u - v) \div (n + 1)
      OBVIOUS
    <3>3. u - v = (n + 1) * q + w
      BY <3>1, <3>2
    <3>4. q >= 0 => (n + 1) * q >= 0
      BY <3>2
    <3>5. q <= -2 => (n + 1) * q <= -2 * (n + 1)
      BY <3>2
    <3>6. q = -1
      BY <3>1, <3>2, <3>3, <3>4, <3>5, <2>2
    <3>. QED BY <3>3, <3>6, <2>2, <3>1
  <2>. QED BY <2>1, <2>2
<1>. HIDE DEF w
<1>2. w + v \in Nat /\ (w + v = (n + 1) * 0 + u \/ w + v = (n + 1) * 1 + u)
  BY <1>1
<1>3. (w + v) % (n + 1) = u
  BY <1>2, DivisionIs, SMTT(30)
<1>. QED BY <1>3 DEF w

-----------------------------------------------------------------------------
(* Differences.                                                            *)

Values == [Cells(field) -> 0 .. Top]

\* A field with differences along an axis, and a field after the pass of an axis.
Diffed(a, g) ==
    [i \in Cells(field) |->
        IF i \in Changing(a) THEN (g[i] - g[i - Stride(a)]) % (Top + 1) ELSE g[i]]
After(a, g) == IF a \in mask THEN Diffed(a, g) ELSE g

\* What the passes make of a field, one after the other.
Stage0 == Quantized(field.data, width)
Stage1 == After("z", Stage0)
Stage2 == After("y", Stage1)
Stage3 == After("x", Stage2)

\* A pass under way: of g what is still to do, of h the rest.
Mixture(S, g, h) == [i \in Cells(field) |-> IF i \in S THEN g[i] ELSE h[i]]

\* A filter pass has what comes later still before it.
Filtering(a, g) ==
    /\ a \in mask /\ todo \subseteq Changing(a)
    /\ \A i \in todo, j \in Changing(a) : Descending(a, i, j) => j \in todo
    /\ data = Mixture(todo, g, Diffed(a, g))

Unfiltering(a, g) ==
    /\ a \in mask /\ todo \subseteq Changing(a)
    /\ data = Mixture(todo, Diffed(a, g), g)

FilterStage ==
    \/ passes = <<"z">> \o Pass("y", mask) \o Pass("x", mask) /\ Filtering("z", Stage0)
    \/ passes = <<"y">> \o Pass("x", mask) /\ Filtering("y", Stage1)
    \/ passes = <<"x">> /\ Filtering("x", Stage2)
    \/ passes = <<>> /\ todo = {} /\ data = Stage3

UnfilterStage ==
    \/ passes = <<"x">> \o Pass("y", mask) \o Pass("z", mask) /\ Unfiltering("x", Stage2)
    \/ passes = <<"y">> \o Pass("z", mask) /\ Unfiltering("y", Stage1)
    \/ passes = <<"z">> /\ Unfiltering("z", Stage0)
    \/ passes = <<>> /\ todo = {} /\ data = Stage0

\* Rounding, the filter passes and their inverses, element by element.
FilterInv ==
    /\ pc \in {"idle", "mask", "filter", "unfilter"}
    /\ field \in Fields /\ width \in {1} \cup Widths /\ mask \subseteq Axes
    /\ pc \in {"idle", "mask"} => passes = <<>> /\ todo = {}
    /\ pc = "mask" => data = Stage0
    /\ pc = "filter" => FilterStage
    /\ pc = "unfilter" => UnfilterStage

LEMMA StrideFacts ==
    ASSUME field \in Fields, NEW a \in Axes
    PROVE  /\ Stride(a) \in Nat \ {0} /\ Block(a) \in Nat \ {0}
           /\ Cells(field) \subseteq Nat
           /\ \E n \in Nat \ {0} : Cells(field) = 0 .. n - 1
<1>1. PICK z \in Nat \ {0}, y \in Nat \ {0}, x \in Nat \ {0} :
          field.z = z /\ field.y = y /\ field.x = x
  BY FieldsAssumption
<1>2. y * x \in Nat \ {0}
  OBVIOUS
<1>3. z * y * x \in Nat \ {0}
  <2>1. PICK q \in Nat \ {0} : q = y * x
    BY <1>2
  <2>2. z * q \in Nat \ {0}
    BY <2>1
  <2>3. z * y * x = z * q
    BY <2>1
  <2>. QED BY <2>2, <2>3
<1>4. Stride(a) \in Nat \ {0} /\ Block(a) \in Nat \ {0}
  BY <1>1, <1>2, <1>3 DEF Stride, Block, Axes
<1>. QED BY <1>1, <1>3, <1>4 DEF Cells

\* The predecessor of an element that a pass changes is a cell of the same block.
LEMMA Predecessors ==
    ASSUME field \in Fields, NEW a \in Axes, NEW i \in Changing(a)
    PROVE  /\ i \in Cells(field) /\ i \in Nat
           /\ i - Stride(a) \in Cells(field) /\ i - Stride(a) < i
           /\ Descending(a, i, i - Stride(a))
<1>1. /\ Stride(a) \in Nat \ {0} /\ Block(a) \in Nat \ {0} /\ Cells(field) \subseteq Nat
  BY StrideFacts
<1>0. PICK n \in Nat \ {0} : Cells(field) = 0 .. n - 1
  BY StrideFacts
<1>2. i \in Cells(field) /\ i % Block(a) >= Stride(a)
  BY DEF Changing
<1>3. PICK s \in Nat \ {0}, b \in Nat \ {0} : s = Stride(a) /\ b = Block(a)
  BY <1>1
<1>4. i - s \in Nat /\ (i - s) \div b = i \div b
  BY <1>1, <1>2, <1>3, SameBlock
<1>5. i - s \in Cells(field) /\ i - s < i
  BY <1>0, <1>2, <1>4
<1>. QED BY <1>1, <1>2, <1>3, <1>4, <1>5 DEF Descending

LEMMA DiffedIsField ==
    ASSUME field \in Fields, NEW a \in Axes, NEW g \in Values
    PROVE  Diffed(a, g) \in Values
<1>1. \A i \in Changing(a) : (g[i] - g[i - Stride(a)]) % (Top + 1) \in 0 .. Top
  <2>. SUFFICES ASSUME NEW i \in Changing(a)
                PROVE  (g[i] - g[i - Stride(a)]) % (Top + 1) \in 0 .. Top
    OBVIOUS
  <2>1. i \in Cells(field) /\ i - Stride(a) \in Cells(field)
    BY Predecessors
  <2>2. PICK u \in 0 .. Top, v \in 0 .. Top : u = g[i] /\ v = g[i - Stride(a)]
    BY <2>1 DEF Values
  <2>3. (u - v) % (Top + 1) \in 0 .. Top
    BY <2>2, TopAssumption
  <2>. QED BY <2>2, <2>3
<1>. QED BY <1>1 DEF Diffed, Values

\* What rounding gives is an element.
LEMMA RoundedIsElement ==
    ASSUME NEW v \in 0 .. Top, NEW w \in {1} \cup Widths
    PROVE  /\ w \in Nat \ {0}
           /\ Rounded(v, w) = IF ((v + w \div 2) \div w) * w <= Top
                              THEN ((v + w \div 2) \div w) * w ELSE Top
           /\ Rounded(v, w) \in 0 .. Top
<1>1. w \in Nat \ {0}
  BY WidthsAssumption, TopAssumption
<1>2. PICK r \in Nat : r = ((v + w \div 2) \div w) * w
  <2>1. PICK h \in Nat : h = w \div 2
    BY <1>1
  <2>2. PICK n \in Nat : n = v + h
    BY <2>1
  <2>3. PICK q \in Nat : q = n \div w
    BY <2>2, <1>1
  <2>4. q * w \in Nat
    BY <2>3, <1>1
  <2>. QED BY <2>1, <2>2, <2>3, <2>4
<1>3. Min({r, Top}) = IF r <= Top THEN r ELSE Top
  <2>. DEFINE m == IF r <= Top THEN r ELSE Top
  <2>1. m \in {r, Top} /\ \A u \in {r, Top} : m <= u
    BY TopAssumption
  <2>2. \A u \in {r, Top} : (\A w_ \in {r, Top} : u <= w_) => u = m
    BY TopAssumption
  <2>. QED BY <2>1, <2>2 DEF Min
<1>. QED BY <1>1, <1>2, <1>3, TopAssumption DEF Rounded

LEMMA StagesAreFields ==
    ASSUME field \in Fields, width \in {1} \cup Widths
    PROVE  Stage0 \in Values /\ Stage1 \in Values /\ Stage2 \in Values /\ Stage3 \in Values
<1>1. field.data \in Values
  BY FieldsAssumption DEF Values
<1>2. Stage0 \in Values
  <2>1. \A i \in Cells(field) : Rounded(field.data[i], width) \in 0 .. Top
    BY <1>1, RoundedIsElement DEF Values
  <2>. QED BY <1>1, <2>1 DEF Stage0, Quantized, Values
<1>3. \A a \in Axes, g \in Values : After(a, g) \in Values
  BY DiffedIsField DEF After
<1>. QED BY <1>2, <1>3 DEF Stage1, Stage2, Stage3, Axes

-----------------------------------------------------------------------------
(* One step of a pass.                                                     *)

\* A pass begins with the field as it is.
LEMMA PassBegins ==
    ASSUME field \in Fields, NEW a \in Axes, NEW g \in Values
    PROVE  /\ Mixture(Changing(a), g, Diffed(a, g)) = g
           /\ Mixture(Changing(a), Diffed(a, g), g) = Diffed(a, g)
           /\ Mixture({}, g, Diffed(a, g)) = Diffed(a, g)
           /\ Mixture({}, Diffed(a, g), g) = g
BY DEF Mixture, Diffed, Values

\* Filtering one element that comes before all others to filter.
LEMMA FilterElement ==
    ASSUME field \in Fields, NEW a \in Axes, NEW g \in Values, Filtering(a, g),
           NEW i \in todo, \A j \in todo \ {i} : Descending(a, i, j)
    PROVE  /\ \A k \in todo \ {i}, j \in Changing(a) :
                  Descending(a, k, j) => j \in todo \ {i}
           /\ [data EXCEPT ![i] = (data[i] - data[i - Stride(a)]) % (Top + 1)]
                  = Mixture(todo \ {i}, g, Diffed(a, g))
<1>1. /\ i \in Changing(a) /\ i \in Cells(field) /\ i \in Nat
      /\ i - Stride(a) \in Cells(field) /\ i - Stride(a) < i /\ i - Stride(a) # i
      /\ Descending(a, i, i - Stride(a))
  <2>1. i \in Changing(a)
    BY DEF Filtering
  <2>2. Stride(a) \in Nat \ {0}
    BY StrideFacts
  <2>. QED BY <2>1, <2>2, Predecessors
<1>2. data[i] = g[i]
  BY <1>1 DEF Filtering, Mixture
<1>3. data[i - Stride(a)] = g[i - Stride(a)]
  <2>1. CASE i - Stride(a) \in Changing(a)
    BY <1>1, <2>1 DEF Filtering, Mixture
  <2>2. CASE i - Stride(a) \notin Changing(a)
    <3>1. data[i - Stride(a)] = Diffed(a, g)[i - Stride(a)]
      BY <1>1, <2>2 DEF Filtering, Mixture
    <3>. QED BY <1>1, <2>2, <3>1 DEF Diffed
  <2>. QED BY <2>1, <2>2
<1>4. (data[i] - data[i - Stride(a)]) % (Top + 1) = Diffed(a, g)[i]
  BY <1>1, <1>2, <1>3 DEF Diffed
<1>5. \A k \in todo \ {i}, j \in Changing(a) : Descending(a, k, j) => j \in todo \ {i}
  <2>. SUFFICES ASSUME NEW k \in todo \ {i}, NEW j \in Changing(a), Descending(a, k, j)
                PROVE  j # i
    BY DEF Filtering
  <2>1. Descending(a, i, k)
    OBVIOUS
  <2>2. k \in Nat
    BY Predecessors DEF Filtering
  <2>3. PICK b \in Nat \ {0} : b = Block(a)
    BY StrideFacts
  <2>4. PICK v \in Nat, w \in Nat : v = i \div b /\ w = k \div b
    BY <1>1, <2>2, <2>3
  <2>. QED BY <1>1, <2>1, <2>2, <2>3, <2>4 DEF Descending
<1>6. [data EXCEPT ![i] = (data[i] - data[i - Stride(a)]) % (Top + 1)]
          = Mixture(todo \ {i}, g, Diffed(a, g))
  <2>. DEFINE e == [data EXCEPT ![i] = Diffed(a, g)[i]]
              h == Diffed(a, g)
  <2>1. data = Mixture(todo, g, h)
    BY DEF Filtering
  <2>. HIDE DEF h
  <2>2. [Mixture(todo, g, h) EXCEPT ![i] = h[i]] = Mixture(todo \ {i}, g, h)
    BY <1>1 DEF Mixture
  <2>. QED BY <2>1, <2>2, <1>4 DEF h
<1>. QED BY <1>5, <1>6

\* Restoring one element, when none that comes before it is left.
LEMMA UnfilterElement ==
    ASSUME field \in Fields, NEW a \in Axes, NEW g \in Values, Unfiltering(a, g),
           NEW i \in todo, \A j \in todo \ {i} : Ascending(a, i, j)
    PROVE  [data EXCEPT ![i] = (data[i] + data[i - Stride(a)]) % (Top + 1)]
               = Mixture(todo \ {i}, Diffed(a, g), g)
<1>1. /\ i \in Changing(a) /\ i \in Cells(field) /\ i \in Nat
      /\ i - Stride(a) \in Cells(field) /\ i - Stride(a) < i
  BY Predecessors DEF Unfiltering
<1>2. i - Stride(a) \notin todo
  <2>1. i - Stride(a) \in Nat
    BY <1>1, StrideFacts
  <2>. QED BY <1>1, <2>1 DEF Ascending
<1>3. data[i] = (g[i] - g[i - Stride(a)]) % (Top + 1)
  BY <1>1 DEF Unfiltering, Mixture, Diffed
<1>4. data[i - Stride(a)] = g[i - Stride(a)]
  BY <1>1, <1>2 DEF Unfiltering, Mixture
<1>5. PICK u \in 0 .. Top, v \in 0 .. Top : u = g[i] /\ v = g[i - Stride(a)]
  BY <1>1 DEF Values
<1>6. (((u - v) % (Top + 1)) + v) % (Top + 1) = u
  BY TakenBack, TopAssumption
<1>7. (data[i] + data[i - Stride(a)]) % (Top + 1) = g[i]
  BY <1>3, <1>4, <1>5, <1>6
<1>8. [data EXCEPT ![i] = g[i]] = Mixture(todo \ {i}, Diffed(a, g), g)
  <2>. DEFINE h == Diffed(a, g)
  <2>1. data = Mixture(todo, h, g)
    BY DEF Unfiltering
  <2>. HIDE DEF h
  <2>2. [Mixture(todo, h, g) EXCEPT ![i] = g[i]] = Mixture(todo \ {i}, h, g)
    BY <1>1 DEF Mixture
  <2>. QED BY <2>1, <2>2 DEF h
<1>. QED BY <1>7, <1>8

-----------------------------------------------------------------------------
(* The invariant, step by step.                                            *)

LEMMA FirstPass ==
    ASSUME NEW a \in Axes, NEW s \in Seq(Axes)
    PROVE  /\ Head(<<a>> \o s) = a /\ Tail(<<a>> \o s) = s /\ <<a>> \o s # <<>>
<1>. DEFINE w == <<a>> \o s
<1>1. w \in Seq(Axes) /\ Len(w) = 1 + Len(s) /\ w[1] = a
  OBVIOUS
<1>2. \A i \in 1 .. Len(s) : w[i + 1] = s[i]
  OBVIOUS
<1>3. w # <<>>
  BY <1>1
<1>4. Tail(w) \in Seq(Axes) /\ Len(Tail(w)) = Len(s) /\ \A i \in 1 .. Len(s) : Tail(w)[i] = w[i + 1]
  BY <1>1, <1>3
<1>5. Tail(w) = s
  BY <1>2, <1>4
<1>6. Head(w) = w[1]
  BY <1>1, <1>3
<1>. QED BY <1>1, <1>3, <1>5, <1>6

LEMMA PassList ==
    ASSUME NEW m, NEW a \in Axes
    PROVE  Pass(a, m) \in Seq(Axes) /\ Pass(a, m) = IF a \in m THEN <<a>> ELSE <<>>
BY DEF Pass

\* The axes still to be gone along, in every place of the order.
LEMMA PassesAre ==
    ASSUME NEW m
    PROVE  /\ "z" \in Axes /\ "y" \in Axes /\ "x" \in Axes
           /\ Pass("y", m) \o Pass("x", m) \in Seq(Axes)
           /\ Pass("x", m) \in Seq(Axes)
           /\ Pass("y", m) \o Pass("z", m) \in Seq(Axes)
           /\ Pass("z", m) \in Seq(Axes)
           /\ FilterPasses(m) = IF "z" \in m THEN <<"z">> \o Pass("y", m) \o Pass("x", m)
                                ELSE Pass("y", m) \o Pass("x", m)
           /\ Pass("y", m) \o Pass("x", m) = IF "y" \in m THEN <<"y">> \o Pass("x", m)
                                             ELSE Pass("x", m)
           /\ UnfilterPasses(m) = IF "x" \in m THEN <<"x">> \o Pass("y", m) \o Pass("z", m)
                                  ELSE Pass("y", m) \o Pass("z", m)
           /\ Pass("y", m) \o Pass("z", m) = IF "y" \in m THEN <<"y">> \o Pass("z", m)
                                             ELSE Pass("z", m)
           /\ Pass("x", m) = IF "x" \in m THEN <<"x">> ELSE <<>>
           /\ Pass("z", m) = IF "z" \in m THEN <<"z">> ELSE <<>>
           /\ <<"z">> \o Pass("y", m) \o Pass("x", m)
                  = <<"z">> \o (Pass("y", m) \o Pass("x", m))
           /\ <<"x">> \o Pass("y", m) \o Pass("z", m)
                  = <<"x">> \o (Pass("y", m) \o Pass("z", m))
<1>1. "z" \in Axes /\ "y" \in Axes /\ "x" \in Axes
  BY DEF Axes
<1>2. \A a \in Axes : Pass(a, m) \in Seq(Axes) /\ Pass(a, m) = IF a \in m THEN <<a>> ELSE <<>>
  BY PassList
<1>3. \A s, w \in Seq(Axes) : s \o w \in Seq(Axes) /\ <<>> \o s = s
  OBVIOUS
<1>4. \A s, w, v \in Seq(Axes) : (s \o w) \o v = s \o (w \o v)
  <2>. SUFFICES ASSUME NEW s \in Seq(Axes), NEW w \in Seq(Axes), NEW v \in Seq(Axes)
                PROVE  (s \o w) \o v = s \o (w \o v)
    OBVIOUS
  <2>. QED OBVIOUS
<1>5. <<"z">> \in Seq(Axes) /\ <<"y">> \in Seq(Axes) /\ <<"x">> \in Seq(Axes)
  BY <1>1
<1>6. FilterPasses(m) = IF "z" \in m THEN <<"z">> \o Pass("y", m) \o Pass("x", m)
                        ELSE Pass("y", m) \o Pass("x", m)
  BY <1>1, <1>2, <1>3, <1>4 DEF FilterPasses
<1>7. UnfilterPasses(m) = IF "x" \in m THEN <<"x">> \o Pass("y", m) \o Pass("z", m)
                          ELSE Pass("y", m) \o Pass("z", m)
  BY <1>1, <1>2, <1>3, <1>4 DEF UnfilterPasses
<1>8. /\ <<"z">> \o Pass("y", m) \o Pass("x", m) = <<"z">> \o (Pass("y", m) \o Pass("x", m))
      /\ <<"x">> \o Pass("y", m) \o Pass("z", m) = <<"x">> \o (Pass("y", m) \o Pass("z", m))
  <2>1. PICK s \in Seq(Axes) : s = <<"z">>
    BY <1>5
  <2>2. PICK w \in Seq(Axes) : w = <<"x">>
    BY <1>5
  <2>3. PICK px \in Seq(Axes), py \in Seq(Axes), pz \in Seq(Axes) :
           px = Pass("x", m) /\ py = Pass("y", m) /\ pz = Pass("z", m)
    BY <1>1, <1>2
  <2>4. (s \o py) \o px = s \o (py \o px)
    OBVIOUS
  <2>5. (w \o py) \o pz = w \o (py \o pz)
    OBVIOUS
  <2>. QED BY <2>1, <2>2, <2>3, <2>4, <2>5
<1>9. /\ Pass("y", m) \o Pass("x", m) = IF "y" \in m THEN <<"y">> \o Pass("x", m)
                                         ELSE Pass("x", m)
      /\ Pass("y", m) \o Pass("z", m) = IF "y" \in m THEN <<"y">> \o Pass("z", m)
                                         ELSE Pass("z", m)
  BY <1>1, <1>2, <1>3
<1>10. /\ Pass("y", m) \o Pass("x", m) \in Seq(Axes) /\ Pass("x", m) \in Seq(Axes)
       /\ Pass("y", m) \o Pass("z", m) \in Seq(Axes) /\ Pass("z", m) \in Seq(Axes)
  BY <1>1, <1>2, <1>3
<1>11. /\ Pass("x", m) = IF "x" \in m THEN <<"x">> ELSE <<>>
       /\ Pass("z", m) = IF "z" \in m THEN <<"z">> ELSE <<>>
  BY <1>1, <1>2
<1>. QED BY <1>1, <1>6, <1>7, <1>8, <1>9, <1>10, <1>11

LEMMA StagesKept ==
    ASSUME field' = field, width' = width, mask' = mask
    PROVE  /\ Stage0' = Stage0 /\ Stage1' = Stage1 /\ Stage2' = Stage2 /\ Stage3' = Stage3
           /\ \A a, g : Diffed(a, g)' = Diffed(a, g)
           /\ \A a : Changing(a)' = Changing(a)
           /\ \A a : Stride(a)' = Stride(a)
           /\ \A a, i, j : Descending(a, i, j)' = Descending(a, i, j)
           /\ \A S, g, h : Mixture(S, g, h)' = Mixture(S, g, h)
<1>1. \A a : Stride(a)' = Stride(a) /\ Block(a)' = Block(a)
  BY DEF Stride, Block
<1>2. \A a : Changing(a)' = Changing(a)
  BY <1>1 DEF Changing, Cells
<1>3. \A a, g : Diffed(a, g)' = Diffed(a, g)
  BY <1>1, <1>2 DEF Diffed, Cells
<1>4. \A a, g : After(a, g)' = After(a, g)
  BY <1>3 DEF After
<1>5. Stage0' = Stage0
  BY DEF Stage0, Quantized
<1>6. Stage1' = Stage1
  BY <1>4, <1>5 DEF Stage1
<1>7. Stage2' = Stage2
  BY <1>4, <1>6 DEF Stage2
<1>8. Stage3' = Stage3
  BY <1>4, <1>7 DEF Stage3
<1>9. \A a, i, j : Descending(a, i, j)' = Descending(a, i, j)
  BY <1>1 DEF Descending
<1>10. \A S, g, h : Mixture(S, g, h)' = Mixture(S, g, h)
  BY DEF Mixture, Cells
<1>. QED BY <1>1, <1>2, <1>3, <1>5, <1>6, <1>7, <1>8, <1>9, <1>10

LEMMA FilterInitHolds == FilterInit => FilterInv
BY DEF FilterInit, FilterInv

LEMMA QuantizeFilters == FilterInv /\ Quantize => FilterInv'
<1>. SUFFICES ASSUME FilterInv, Quantize PROVE FilterInv'
  OBVIOUS
<1>1. field' = field /\ width' = width /\ mask' = mask
  BY DEF Quantize
<1>2. Stage0' = Stage0
  BY <1>1, StagesKept
<1>. QED BY <1>1, <1>2 DEF FilterInv, Quantize, Stage0

\* A pass is entered: it has everything still to do.
Entered(ps) ==
    /\ passes = ps
    /\ todo = IF ps = <<>> THEN {} ELSE Changing(Head(ps))

\* Entering the passes from one place of the order on: the next that the mask names
\* begins with the field as the earlier ones left it.
LEMMA FilterEnters ==
    ASSUME field \in Fields, NEW a \in Axes, a \in mask, NEW g \in Values,
           data = g, todo = Changing(a)
    PROVE  Filtering(a, g)
<1>1. data = Mixture(todo, g, Diffed(a, g))
  BY PassBegins
<1>. QED BY <1>1 DEF Filtering

LEMMA UnfilterEnters ==
    ASSUME field \in Fields, NEW a \in Axes, a \in mask, NEW g \in Values,
           data = Diffed(a, g), todo = Changing(a)
    PROVE  Unfiltering(a, g)
<1>1. data = Mixture(todo, Diffed(a, g), g)
  BY PassBegins
<1>. QED BY <1>1 DEF Unfiltering

-----------------------------------------------------------------------------
(* From one pass to the next.                                              *)

LEMMA FilterFromX ==
    /\ field \in Fields /\ width \in {1} \cup Widths
    /\ Entered(Pass("x", mask)) /\ data = Stage2
    => FilterStage
<1>. SUFFICES ASSUME field \in Fields, width \in {1} \cup Widths,
                     Entered(Pass("x", mask)), data = Stage2
              PROVE  FilterStage
  OBVIOUS
<1>1. /\ Stage0 \in Values /\ Stage1 \in Values /\ Stage2 \in Values
  BY StagesAreFields
<1>2. CASE "x" \in mask
  <2>1. passes = <<"x">> /\ passes # <<>> /\ Head(passes) = "x" /\ "x" \in Axes
    BY <1>2, PassesAre, FirstPass DEF Entered
  <2>2. todo = Changing("x")
    BY <2>1 DEF Entered
  <2>3. Filtering("x", Stage2)
    BY <1>1, <1>2, <2>1, <2>2, FilterEnters
  <2>. QED BY <2>1, <2>3 DEF FilterStage
<1>3. CASE "x" \notin mask
  <2>1. Stage3 = Stage2
    BY <1>3 DEF Stage3, After
  <2>2. passes = <<>> /\ todo = {}
    BY <1>3, PassesAre DEF Entered
  <2>. QED BY <2>1, <2>2 DEF FilterStage
<1>. QED BY <1>2, <1>3

LEMMA FilterFromY ==
    /\ field \in Fields /\ width \in {1} \cup Widths
    /\ Entered(Pass("y", mask) \o Pass("x", mask)) /\ data = Stage1
    => FilterStage
<1>. SUFFICES ASSUME field \in Fields, width \in {1} \cup Widths,
                     Entered(Pass("y", mask) \o Pass("x", mask)), data = Stage1
              PROVE  FilterStage
  OBVIOUS
<1>1. /\ Stage0 \in Values /\ Stage1 \in Values /\ Stage2 \in Values
  BY StagesAreFields
<1>2. CASE "y" \in mask
  <2>1. passes = <<"y">> \o Pass("x", mask) /\ passes # <<>> /\ Head(passes) = "y" /\ "y" \in Axes
    <3>1. passes = <<"y">> \o Pass("x", mask)
      BY <1>2, PassesAre DEF Entered
    <3>2. PICK s \in Seq(Axes) : s = Pass("x", mask)
      BY PassesAre
    <3>3. passes = <<"y">> \o s /\ "y" \in Axes
      BY <3>1, <3>2, PassesAre
    <3>. QED BY <3>1, <3>3, FirstPass
  <2>2. todo = Changing("y")
    BY <2>1 DEF Entered
  <2>3. Filtering("y", Stage1)
    BY <1>1, <1>2, <2>1, <2>2, FilterEnters
  <2>. QED BY <2>1, <2>3 DEF FilterStage
<1>3. CASE "y" \notin mask
  <2>1. Stage2 = Stage1
    BY <1>3 DEF Stage2, After
  <2>2. Entered(Pass("x", mask))
    BY <1>3, PassesAre DEF Entered
  <2>. QED BY <2>1, <2>2, FilterFromX
<1>. QED BY <1>2, <1>3

LEMMA FilterFromZ ==
    /\ field \in Fields /\ width \in {1} \cup Widths
    /\ Entered(FilterPasses(mask)) /\ data = Stage0
    => FilterStage
<1>. SUFFICES ASSUME field \in Fields, width \in {1} \cup Widths,
                     Entered(FilterPasses(mask)), data = Stage0
              PROVE  FilterStage
  OBVIOUS
<1>1. /\ Stage0 \in Values /\ Stage1 \in Values /\ Stage2 \in Values
  BY StagesAreFields
<1>2. CASE "z" \in mask
  <2>1. passes = <<"z">> \o Pass("y", mask) \o Pass("x", mask) /\ passes # <<>> /\ Head(passes) = "z" /\ "z" \in Axes
    <3>1. passes = <<"z">> \o Pass("y", mask) \o Pass("x", mask)
      BY <1>2, PassesAre DEF Entered
    <3>2. PICK s \in Seq(Axes) : s = Pass("y", mask) \o Pass("x", mask)
      BY PassesAre
    <3>3. passes = <<"z">> \o s /\ "z" \in Axes
      BY <3>1, <3>2, PassesAre
    <3>. QED BY <3>1, <3>3, FirstPass
  <2>2. todo = Changing("z")
    BY <2>1 DEF Entered
  <2>3. Filtering("z", Stage0)
    BY <1>1, <1>2, <2>1, <2>2, FilterEnters
  <2>. QED BY <2>1, <2>3 DEF FilterStage
<1>3. CASE "z" \notin mask
  <2>1. Stage1 = Stage0
    BY <1>3 DEF Stage1, After
  <2>2. Entered(Pass("y", mask) \o Pass("x", mask))
    BY <1>3, PassesAre DEF Entered
  <2>. QED BY <2>1, <2>2, FilterFromY
<1>. QED BY <1>2, <1>3

LEMMA UnfilterFromZ ==
    /\ field \in Fields /\ width \in {1} \cup Widths
    /\ Entered(Pass("z", mask)) /\ data = Stage1
    => UnfilterStage
<1>. SUFFICES ASSUME field \in Fields, width \in {1} \cup Widths,
                     Entered(Pass("z", mask)), data = Stage1
              PROVE  UnfilterStage
  OBVIOUS
<1>1. /\ Stage0 \in Values /\ Stage1 \in Values /\ Stage2 \in Values
  BY StagesAreFields
<1>2. CASE "z" \in mask
  <2>1. passes = <<"z">> /\ passes # <<>> /\ Head(passes) = "z" /\ "z" \in Axes
    BY <1>2, PassesAre, FirstPass DEF Entered
  <2>2. todo = Changing("z")
    BY <2>1 DEF Entered
  <2>3. Stage1 = Diffed("z", Stage0)
    BY <1>2 DEF Stage1, After
  <2>4. Unfiltering("z", Stage0)
    BY <1>1, <1>2, <2>1, <2>2, <2>3, UnfilterEnters
  <2>. QED BY <2>1, <2>4 DEF UnfilterStage
<1>3. CASE "z" \notin mask
  <2>1. Stage1 = Stage0
    BY <1>3 DEF Stage1, After
  <2>2. passes = <<>> /\ todo = {}
    BY <1>3, PassesAre DEF Entered
  <2>. QED BY <2>1, <2>2 DEF UnfilterStage
<1>. QED BY <1>2, <1>3

LEMMA UnfilterFromY ==
    /\ field \in Fields /\ width \in {1} \cup Widths
    /\ Entered(Pass("y", mask) \o Pass("z", mask)) /\ data = Stage2
    => UnfilterStage
<1>. SUFFICES ASSUME field \in Fields, width \in {1} \cup Widths,
                     Entered(Pass("y", mask) \o Pass("z", mask)), data = Stage2
              PROVE  UnfilterStage
  OBVIOUS
<1>1. /\ Stage0 \in Values /\ Stage1 \in Values /\ Stage2 \in Values
  BY StagesAreFields
<1>2. CASE "y" \in mask
  <2>1. passes = <<"y">> \o Pass("z", mask) /\ passes # <<>> /\ Head(passes) = "y" /\ "y" \in Axes
    <3>1. passes = <<"y">> \o Pass("z", mask)
      BY <1>2, PassesAre DEF Entered
    <3>2. PICK s \in Seq(Axes) : s = Pass("z", mask)
      BY PassesAre
    <3>3. passes = <<"y">> \o s /\ "y" \in Axes
      BY <3>1, <3>2, PassesAre
    <3>. QED BY <3>1, <3>3, FirstPass
  <2>2. todo = Changing("y")
    BY <2>1 DEF Entered
  <2>3. Stage2 = Diffed("y", Stage1)
    BY <1>2 DEF Stage2, After
  <2>4. Unfiltering("y", Stage1)
    BY <1>1, <1>2, <2>1, <2>2, <2>3, UnfilterEnters
  <2>. QED BY <2>1, <2>4 DEF UnfilterStage
<1>3. CASE "y" \notin mask
  <2>1. Stage2 = Stage1
    BY <1>3 DEF Stage2, After
  <2>2. Entered(Pass("z", mask))
    BY <1>3, PassesAre DEF Entered
  <2>. QED BY <2>1, <2>2, UnfilterFromZ
<1>. QED BY <1>2, <1>3

LEMMA UnfilterFromX ==
    /\ field \in Fields /\ width \in {1} \cup Widths
    /\ Entered(UnfilterPasses(mask)) /\ data = Stage3
    => UnfilterStage
<1>. SUFFICES ASSUME field \in Fields, width \in {1} \cup Widths,
                     Entered(UnfilterPasses(mask)), data = Stage3
              PROVE  UnfilterStage
  OBVIOUS
<1>1. /\ Stage0 \in Values /\ Stage1 \in Values /\ Stage2 \in Values
  BY StagesAreFields
<1>2. CASE "x" \in mask
  <2>1. passes = <<"x">> \o Pass("y", mask) \o Pass("z", mask) /\ passes # <<>> /\ Head(passes) = "x" /\ "x" \in Axes
    <3>1. passes = <<"x">> \o Pass("y", mask) \o Pass("z", mask)
      BY <1>2, PassesAre DEF Entered
    <3>2. PICK s \in Seq(Axes) : s = Pass("y", mask) \o Pass("z", mask)
      BY PassesAre
    <3>3. passes = <<"x">> \o s /\ "x" \in Axes
      BY <3>1, <3>2, PassesAre
    <3>. QED BY <3>1, <3>3, FirstPass
  <2>2. todo = Changing("x")
    BY <2>1 DEF Entered
  <2>3. Stage3 = Diffed("x", Stage2)
    BY <1>2 DEF Stage3, After
  <2>4. Unfiltering("x", Stage2)
    BY <1>1, <1>2, <2>1, <2>2, <2>3, UnfilterEnters
  <2>. QED BY <2>1, <2>4 DEF UnfilterStage
<1>3. CASE "x" \notin mask
  <2>1. Stage3 = Stage2
    BY <1>3 DEF Stage3, After
  <2>2. Entered(Pass("y", mask) \o Pass("z", mask))
    BY <1>3, PassesAre DEF Entered
  <2>. QED BY <2>1, <2>2, UnfilterFromY
<1>. QED BY <1>2, <1>3

-----------------------------------------------------------------------------
\* The lemmas above hold of the next state as of the present one.
LEMMA FilterNextStages ==
    /\ field \in Fields /\ field' = field /\ width \in {1} \cup Widths /\ width' = width
    => /\ Entered(FilterPasses(mask))' /\ (data = Stage0)' => FilterStage'
       /\ Entered(Pass("y", mask) \o Pass("x", mask))' /\ (data = Stage1)' => FilterStage'
       /\ Entered(Pass("x", mask))' /\ (data = Stage2)' => FilterStage'
       /\ Entered(UnfilterPasses(mask))' /\ (data = Stage3)' => UnfilterStage'
       /\ Entered(Pass("y", mask) \o Pass("z", mask))' /\ (data = Stage2)' => UnfilterStage'
       /\ Entered(Pass("z", mask))' /\ (data = Stage1)' => UnfilterStage'
<1>. DEFINE Typed == field \in Fields /\ width \in {1} \cup Widths
<1>1. (Typed /\ Entered(FilterPasses(mask)) /\ (data = Stage0) => FilterStage)'
  BY FilterFromZ, PTL
<1>2. (Typed /\ Entered(Pass("y", mask) \o Pass("x", mask)) /\ (data = Stage1) => FilterStage)'
  BY FilterFromY, PTL
<1>3. (Typed /\ Entered(Pass("x", mask)) /\ (data = Stage2) => FilterStage)'
  BY FilterFromX, PTL
<1>4. (Typed /\ Entered(UnfilterPasses(mask)) /\ (data = Stage3) => UnfilterStage)'
  BY UnfilterFromX, PTL
<1>5. (Typed /\ Entered(Pass("y", mask) \o Pass("z", mask)) /\ (data = Stage2) => UnfilterStage)'
  BY UnfilterFromY, PTL
<1>6. (Typed /\ Entered(Pass("z", mask)) /\ (data = Stage1) => UnfilterStage)'
  BY UnfilterFromZ, PTL
<1>. QED BY <1>1, <1>2, <1>3, <1>4, <1>5, <1>6

LEMMA SelectMaskFilters == FilterInv /\ SelectMask => FilterInv'
<1>. SUFFICES ASSUME FilterInv, SelectMask PROVE FilterInv'
  OBVIOUS
<1>1. /\ field \in Fields /\ width \in {1} \cup Widths /\ data = Stage0 /\ data' = data
      /\ field' = field /\ width' = width /\ mask' \subseteq Axes
      /\ Enter(FilterPasses(mask')) /\ pc' = "filter"
  BY DEF FilterInv, SelectMask, Masks
<1>2. Stage0' = Stage0
  BY <1>1 DEF Stage0, Quantized
<1>3. Entered(FilterPasses(mask))'
  BY <1>1 DEF Enter, Entered, Changing, Cells, Block, Stride, FilterPasses, Pass
<1>4. FilterStage'
  BY <1>1, <1>2, <1>3, FilterNextStages
<1>. QED BY <1>1, <1>4 DEF FilterInv

LEMMA NextPassFilters == FilterInv /\ NextPass => FilterInv'
<1>. SUFFICES ASSUME FilterInv, NextPass PROVE FilterInv'
  OBVIOUS
<1>1. /\ field \in Fields /\ width \in {1} \cup Widths /\ mask \subseteq Axes
      /\ pc' = pc /\ data' = data /\ field' = field /\ width' = width /\ mask' = mask
      /\ todo = {} /\ passes # <<>> /\ Enter(Tail(passes))
  BY DEF FilterInv, NextPass
<1>2. /\ Stage0' = Stage0 /\ Stage1' = Stage1 /\ Stage2' = Stage2 /\ Stage3' = Stage3
  BY <1>1, StagesKept
<1>3. /\ Stage0 \in Values /\ Stage1 \in Values /\ Stage2 \in Values /\ Stage3 \in Values
  BY <1>1, StagesAreFields
<1>4. \A s : Tail(passes) = s => /\ passes' = s
                                /\ todo' = IF s = <<>> THEN {} ELSE Changing(Head(s))'
  BY <1>1, StagesKept DEF Enter
<1>5. \A a \in Axes, g \in Values :
         /\ Filtering(a, g) => data = Diffed(a, g) /\ After(a, g) = Diffed(a, g)
         /\ Unfiltering(a, g) => data = g
  BY <1>1, PassBegins DEF Filtering, Unfiltering, After
<1>6. CASE pc = "filter"
  <2>1. CASE passes = <<"z">> \o Pass("y", mask) \o Pass("x", mask) /\ Filtering("z", Stage0)
    <3>1. data = Stage1
      BY <1>3, <1>5, <2>1, PassesAre DEF Stage1
    <3>2. Tail(passes) = Pass("y", mask) \o Pass("x", mask)
      <4>1. PICK s \in Seq(Axes) : s = Pass("y", mask) \o Pass("x", mask)
        BY PassesAre
      <4>2. passes = <<"z">> \o s /\ "z" \in Axes
        BY <2>1, <4>1, PassesAre
      <4>. QED BY <4>1, <4>2, FirstPass
    <3>3. Entered(Pass("y", mask) \o Pass("x", mask))'
      BY <1>1, <1>4, <3>2 DEF Entered, Pass
    <3>. QED BY <1>1, <1>2, <1>6, <3>1, <3>3, FilterNextStages DEF FilterInv
  <2>2. CASE passes = <<"y">> \o Pass("x", mask) /\ Filtering("y", Stage1)
    <3>1. data = Stage2
      BY <1>3, <1>5, <2>2, PassesAre DEF Stage2
    <3>2. Tail(passes) = Pass("x", mask)
      BY <2>2, PassesAre, FirstPass, SMTT(30)
    <3>3. Entered(Pass("x", mask))'
      BY <1>1, <1>4, <3>2 DEF Entered, Pass
    <3>. QED BY <1>1, <1>2, <1>6, <3>1, <3>3, FilterNextStages DEF FilterInv
  <2>3. CASE passes = <<"x">> /\ Filtering("x", Stage2)
    <3>1. data = Stage3
      BY <1>3, <1>5, <2>3, PassesAre DEF Stage3
    <3>2. Tail(passes) = <<>>
      BY <2>3
    <3>3. passes' = <<>> /\ todo' = {}
      BY <1>4, <3>2
    <3>. QED BY <1>1, <1>2, <1>6, <3>1, <3>3 DEF FilterInv, FilterStage
  <2>. QED BY <1>1, <1>6, <2>1, <2>2, <2>3 DEF FilterInv, FilterStage
<1>7. CASE pc = "unfilter"
  <2>1. CASE passes = <<"x">> \o Pass("y", mask) \o Pass("z", mask) /\ Unfiltering("x", Stage2)
    <3>1. data = Stage2
      BY <1>3, <1>5, <2>1, PassesAre
    <3>2. Tail(passes) = Pass("y", mask) \o Pass("z", mask)
      <4>1. PICK s \in Seq(Axes) : s = Pass("y", mask) \o Pass("z", mask)
        BY PassesAre
      <4>2. passes = <<"x">> \o s /\ "x" \in Axes
        BY <2>1, <4>1, PassesAre
      <4>. QED BY <4>1, <4>2, FirstPass
    <3>3. Entered(Pass("y", mask) \o Pass("z", mask))'
      BY <1>1, <1>4, <3>2 DEF Entered, Pass
    <3>. QED BY <1>1, <1>2, <1>7, <3>1, <3>3, FilterNextStages DEF FilterInv
  <2>2. CASE passes = <<"y">> \o Pass("z", mask) /\ Unfiltering("y", Stage1)
    <3>1. data = Stage1
      BY <1>3, <1>5, <2>2, PassesAre
    <3>2. Tail(passes) = Pass("z", mask)
      BY <2>2, PassesAre, FirstPass
    <3>3. Entered(Pass("z", mask))'
      BY <1>1, <1>4, <3>2 DEF Entered, Pass
    <3>. QED BY <1>1, <1>2, <1>7, <3>1, <3>3, FilterNextStages DEF FilterInv
  <2>3. CASE passes = <<"z">> /\ Unfiltering("z", Stage0)
    <3>1. data = Stage0
      BY <1>3, <1>5, <2>3, PassesAre
    <3>2. Tail(passes) = <<>>
      BY <2>3
    <3>3. passes' = <<>> /\ todo' = {}
      BY <1>4, <3>2
    <3>. QED BY <1>1, <1>2, <1>7, <3>1, <3>3 DEF FilterInv, UnfilterStage
  <2>. QED BY <1>1, <1>7, <2>1, <2>2, <2>3 DEF FilterInv, UnfilterStage
<1>. QED BY <1>1, <1>6, <1>7 DEF NextPass

LEMMA DecodeFilters == FilterInv /\ Decode => FilterInv'
<1>. SUFFICES ASSUME FilterInv, Decode PROVE FilterInv'
  OBVIOUS
<1>1. /\ field \in Fields /\ width \in {1} \cup Widths /\ mask \subseteq Axes
      /\ pc' = "unfilter" /\ data' = data /\ field' = field /\ width' = width /\ mask' = mask
      /\ Enter(UnfilterPasses(mask)) /\ pc = "filter" /\ passes = <<>>
  BY DEF FilterInv, Decode
<1>2. /\ Stage0' = Stage0 /\ Stage1' = Stage1 /\ Stage2' = Stage2 /\ Stage3' = Stage3
  BY <1>1, StagesKept
<1>3. data = Stage3
  <2>1. <<"z">> \o Pass("y", mask) \o Pass("x", mask) # <<>> /\ <<"y">> \o Pass("x", mask) # <<>>
    BY PassesAre, FirstPass
  <2>. QED BY <1>1, <2>1 DEF FilterInv, FilterStage
<1>4. Entered(UnfilterPasses(mask))'
  BY <1>1, StagesKept DEF Enter, Entered, UnfilterPasses, Pass
<1>. QED BY <1>1, <1>2, <1>3, <1>4, FilterNextStages DEF FilterInv

\* One element filtered, in the pass of an axis.
LEMMA FilterOnce ==
    ASSUME field \in Fields, NEW a \in Axes, NEW g \in Values, Filtering(a, g),
           Head(passes) = a, Filter
    PROVE  Filtering(a, g)'
<1>1. PICK i \in todo :
         /\ \A j \in todo \ {i} : FilterOrder(Head(passes), i, j)
         /\ Change(i, data[i] - Predecessor(i))
  BY DEF Filter
<1>2. /\ \A j \in todo \ {i} : Descending(a, i, j)
      /\ data' = [data EXCEPT ![i] = (data[i] - data[i - Stride(a)]) % (Top + 1)]
      /\ todo' = todo \ {i} /\ field' = field /\ width' = width /\ mask' = mask
  BY <1>1 DEF FilterOrder, Change, Predecessor
<1>3. /\ \A k \in todo \ {i}, j \in Changing(a) :
              Descending(a, k, j) => j \in todo \ {i}
      /\ [data EXCEPT ![i] = (data[i] - data[i - Stride(a)]) % (Top + 1)]
              = Mixture(todo \ {i}, g, Diffed(a, g))
  BY <1>2, FilterElement
<1>4. /\ Diffed(a, g)' = Diffed(a, g) /\ Changing(a)' = Changing(a)
      /\ \A i_, j_ : Descending(a, i_, j_)' = Descending(a, i_, j_)
      /\ \A S, u, w : Mixture(S, u, w)' = Mixture(S, u, w)
  BY <1>2, StagesKept
<1>5. a \in mask' /\ todo' \subseteq Changing(a)
  BY <1>2 DEF Filtering
<1>6. data' = Mixture(todo', g, Diffed(a, g))
  BY <1>2, <1>3
<1>7. \A k \in todo', j \in Changing(a) : Descending(a, k, j) => j \in todo'
  BY <1>2, <1>3
<1>. QED BY <1>4, <1>5, <1>6, <1>7 DEF Filtering

LEMMA UnfilterOnce ==
    ASSUME field \in Fields, NEW a \in Axes, NEW g \in Values, Unfiltering(a, g),
           Head(passes) = a, Unfilter
    PROVE  Unfiltering(a, g)'
<1>1. PICK i \in todo :
         /\ \A j \in todo \ {i} : UnfilterOrder(Head(passes), i, j)
         /\ Change(i, data[i] + Predecessor(i))
  BY DEF Unfilter
<1>2. /\ \A j \in todo \ {i} : Ascending(a, i, j)
      /\ data' = [data EXCEPT ![i] = (data[i] + data[i - Stride(a)]) % (Top + 1)]
      /\ todo' = todo \ {i} /\ field' = field /\ width' = width /\ mask' = mask
  BY <1>1 DEF UnfilterOrder, Change, Predecessor
<1>3. [data EXCEPT ![i] = (data[i] + data[i - Stride(a)]) % (Top + 1)]
          = Mixture(todo \ {i}, Diffed(a, g), g)
  BY <1>2, UnfilterElement
<1>4. /\ Diffed(a, g)' = Diffed(a, g) /\ Changing(a)' = Changing(a)
      /\ \A S, u, w : Mixture(S, u, w)' = Mixture(S, u, w)
  BY <1>2, StagesKept
<1>5. a \in mask' /\ todo' \subseteq Changing(a)
  BY <1>2 DEF Unfiltering
<1>6. data' = Mixture(todo', Diffed(a, g), g)
  BY <1>2, <1>3
<1>. QED BY <1>4, <1>5, <1>6 DEF Unfiltering

LEMMA FilterFilters == FilterInv /\ Filter => FilterInv'
<1>. SUFFICES ASSUME FilterInv, Filter PROVE FilterInv'
  OBVIOUS
<1>1. /\ field \in Fields /\ width \in {1} \cup Widths /\ mask \subseteq Axes
      /\ pc = "filter" /\ pc' = pc /\ field' = field /\ width' = width /\ mask' = mask
      /\ passes' = passes /\ todo # {} /\ FilterStage
  BY DEF FilterInv, Filter, Change
<1>2. Stage0' = Stage0 /\ Stage1' = Stage1 /\ Stage2' = Stage2
  BY <1>1, StagesKept
<1>3. PICK g0 \in Values, g1 \in Values, g2 \in Values :
         g0 = Stage0 /\ g1 = Stage1 /\ g2 = Stage2
  BY <1>1, StagesAreFields
<1>4. FilterStage'
  <2>1. CASE passes = <<"z">> \o Pass("y", mask) \o Pass("x", mask) /\ Filtering("z", Stage0)
    <3>1. Head(passes) = "z"
      <4>1. PICK s \in Seq(Axes) : s = Pass("y", mask) \o Pass("x", mask)
        BY PassesAre
      <4>2. passes = <<"z">> \o s /\ "z" \in Axes
        BY <2>1, <4>1, PassesAre
      <4>. QED BY <4>2, FirstPass
    <3>2. Filtering("z", g0)'
      BY <1>1, <1>3, <2>1, <3>1, FilterOnce, PassesAre
    <3>. QED BY <1>1, <1>2, <1>3, <2>1, <3>2 DEF FilterStage, Filtering, Pass
  <2>2. CASE passes = <<"y">> \o Pass("x", mask) /\ Filtering("y", Stage1)
    <3>1. Head(passes) = "y"
      BY <2>2, PassesAre, FirstPass
    <3>2. Filtering("y", g1)'
      BY <1>1, <1>3, <2>2, <3>1, FilterOnce, PassesAre
    <3>. QED BY <1>1, <1>2, <1>3, <2>2, <3>2 DEF FilterStage, Filtering, Pass
  <2>3. CASE passes = <<"x">> /\ Filtering("x", Stage2)
    <3>1. Filtering("x", g2)'
      BY <1>1, <1>3, <2>3, FilterOnce, PassesAre
    <3>. QED BY <1>1, <1>2, <1>3, <2>3, <3>1 DEF FilterStage, Filtering
  <2>. QED BY <1>1, <2>1, <2>2, <2>3 DEF FilterStage
<1>. QED BY <1>1, <1>4 DEF FilterInv

LEMMA UnfilterFilters == FilterInv /\ Unfilter => FilterInv'
<1>. SUFFICES ASSUME FilterInv, Unfilter PROVE FilterInv'
  OBVIOUS
<1>1. /\ field \in Fields /\ width \in {1} \cup Widths /\ mask \subseteq Axes
      /\ pc = "unfilter" /\ pc' = pc /\ field' = field /\ width' = width /\ mask' = mask
      /\ passes' = passes /\ todo # {} /\ UnfilterStage
  BY DEF FilterInv, Unfilter, Change
<1>2. Stage0' = Stage0 /\ Stage1' = Stage1 /\ Stage2' = Stage2
  BY <1>1, StagesKept
<1>3. PICK g0 \in Values, g1 \in Values, g2 \in Values :
         g0 = Stage0 /\ g1 = Stage1 /\ g2 = Stage2
  BY <1>1, StagesAreFields
<1>4. UnfilterStage'
  <2>1. CASE passes = <<"x">> \o Pass("y", mask) \o Pass("z", mask) /\ Unfiltering("x", Stage2)
    <3>1. Head(passes) = "x"
      <4>1. PICK s \in Seq(Axes) : s = Pass("y", mask) \o Pass("z", mask)
        BY PassesAre
      <4>2. passes = <<"x">> \o s /\ "x" \in Axes
        BY <2>1, <4>1, PassesAre
      <4>. QED BY <4>2, FirstPass
    <3>2. Unfiltering("x", g2)'
      BY <1>1, <1>3, <2>1, <3>1, UnfilterOnce, PassesAre
    <3>. QED BY <1>1, <1>2, <1>3, <2>1, <3>2 DEF UnfilterStage, Unfiltering, Pass
  <2>2. CASE passes = <<"y">> \o Pass("z", mask) /\ Unfiltering("y", Stage1)
    <3>1. Head(passes) = "y"
      BY <2>2, PassesAre, FirstPass
    <3>2. Unfiltering("y", g1)'
      BY <1>1, <1>3, <2>2, <3>1, UnfilterOnce, PassesAre
    <3>. QED BY <1>1, <1>2, <1>3, <2>2, <3>2 DEF UnfilterStage, Unfiltering, Pass
  <2>3. CASE passes = <<"z">> /\ Unfiltering("z", Stage0)
    <3>1. Unfiltering("z", g0)'
      BY <1>1, <1>3, <2>3, UnfilterOnce, PassesAre
    <3>. QED BY <1>1, <1>2, <1>3, <2>3, <3>1 DEF UnfilterStage, Unfiltering
  <2>. QED BY <1>1, <2>1, <2>2, <2>3 DEF UnfilterStage
<1>. QED BY <1>1, <1>4 DEF FilterInv

LEMMA StutterFilters == FilterInv /\ UNCHANGED filterVars => FilterInv'
<1>. SUFFICES ASSUME FilterInv, UNCHANGED filterVars PROVE FilterInv'
  OBVIOUS
<1>1. /\ pc' = pc /\ field' = field /\ width' = width /\ mask' = mask /\ data' = data
      /\ passes' = passes /\ todo' = todo
  BY DEF filterVars
<1>2. /\ Stage0' = Stage0 /\ Stage1' = Stage1 /\ Stage2' = Stage2 /\ Stage3' = Stage3
      /\ \A a, g : Diffed(a, g)' = Diffed(a, g)
      /\ \A a : Changing(a)' = Changing(a)
      /\ \A a, i, j : Descending(a, i, j)' = Descending(a, i, j)
      /\ \A S, g, h : Mixture(S, g, h)' = Mixture(S, g, h)
      /\ \A a : Pass(a, mask)' = Pass(a, mask)
  BY <1>1, StagesKept DEF Pass
<1>3. \A a, g : (Filtering(a, g) <=> Filtering(a, g)') /\ (Unfiltering(a, g) <=> Unfiltering(a, g)')
  BY <1>1, <1>2 DEF Filtering, Unfiltering
<1>4. FilterStage' = FilterStage
  BY <1>1, <1>2 DEF FilterStage, Filtering
<1>5. UnfilterStage' = UnfilterStage
  BY <1>1, <1>2 DEF UnfilterStage, Unfiltering
<1>. QED BY <1>1, <1>2, <1>4, <1>5 DEF FilterInv

\* Passes in place: rounding, differences and their inverse, element by element, for
\* every shape, mask and width.
THEOREM FilterInvariant == FilterSpec => []FilterInv
<1>1. FilterInit => FilterInv
  BY FilterInitHolds
<1>2. FilterInv /\ [FilterNext]_filterVars => FilterInv'
  BY QuantizeFilters, SelectMaskFilters, FilterFilters, UnfilterFilters, NextPassFilters,
     DecodeFilters, StutterFilters DEF FilterNext
<1>. QED BY <1>1, <1>2, PTL DEF FilterSpec

\* The decoder gives back the rounded field (vc_delta_unfilter_u8 undoes
\* vc_delta_filter_u8): every pass is the inverse of one, in the opposite order.
THEOREM FieldAlwaysRestored == FilterSpec => []FieldRestored
<1>1. FilterInv => FieldRestored
  <2>1. /\ <<"x">> \o Pass("y", mask) \o Pass("z", mask) # <<>>
        /\ <<"y">> \o Pass("z", mask) # <<>> /\ <<"z">> # <<>>
    BY PassesAre, FirstPass
  <2>. QED BY <2>1 DEF FilterInv, UnfilterStage, FieldRestored, Stage0
<1>. QED BY <1>1, FilterInvariant, PTL

-----------------------------------------------------------------------------
(* Rounding.                                                               *)

\* A number is so many times another and a rest.
LEMMA QuotientAndRest ==
    ASSUME NEW i \in Nat, NEW b \in Nat \ {0}
    PROVE  \E q \in Nat, u \in 0 .. b - 1 : i \div b = q /\ i = b * q + u
<1>1. i = b * (i \div b) + (i % b) /\ i % b \in 0 .. b - 1 /\ i \div b \in Nat
  OBVIOUS
<1>. QED BY <1>1

\* The nearest multiple of a width is within half of it, a multiple its own nearest,
\* and so is the top, when it is past a multiple that a lower value is rounded to.
LEMMA NearestMultiple ==
    ASSUME NEW v \in Nat, NEW w \in Nat \ {0}, NEW h \in Nat, 2 * h <= w, w <= 2 * h + 1,
           NEW n \in Nat, v <= n, NEW r \in Nat, r = ((v + h) \div w) * w
    PROVE  /\ r - v <= h /\ v - r <= h
           /\ ((r + h) \div w) * w = r
           /\ ((n + h) \div w) * w \in Nat /\ r <= ((n + h) \div w) * w
<1>1. PICK m \in Nat : m = v + h
  OBVIOUS
<1>2. PICK q \in Nat, u \in 0 .. w - 1 : m \div w = q /\ m = w * q + u
  BY QuotientAndRest
<1>3. r = w * q
  BY <1>1, <1>2
<1>4. r - v <= h /\ v - r <= h
  BY <1>1, <1>2, <1>3
<1>5. PICK m2 \in Nat : m2 = r + h
  OBVIOUS
<1>6. m2 = w * q + h /\ h < w
  BY <1>3, <1>5
<1>7. m2 \div w = q
  BY <1>6, DivisionIs
<1>8. PICK m3 \in Nat : m3 = n + h
  OBVIOUS
<1>9. PICK k \in Nat, x \in 0 .. w - 1 : m3 \div w = k /\ m3 = w * k + x
  BY QuotientAndRest
<1>10. w * (k - q) > -w
  BY <1>1, <1>2, <1>8, <1>9
<1>11. k - q <= -1 => w * (k - q) <= -w
  BY <1>9, <1>2
<1>12. k >= q
  BY <1>2, <1>9, <1>10, <1>11
<1>13. k * w >= w * q /\ k * w \in Nat
  BY <1>2, <1>9, <1>12
<1>. QED BY <1>3, <1>4, <1>5, <1>7, <1>8, <1>9, <1>13

\* Rounding moves a value by half the width at most, and a rounded one not at all.
LEMMA RoundedNear ==
    ASSUME NEW v \in 0 .. Top, NEW w \in {1} \cup Widths
    PROVE  /\ Rounded(v, w) - v <= w \div 2 /\ v - Rounded(v, w) <= w \div 2
           /\ Rounded(Rounded(v, w), w) = Rounded(v, w)
<1>1. w \in Nat \ {0} /\ Top \in Nat
  BY RoundedIsElement, TopAssumption
<1>2. PICK h \in Nat : h = w \div 2 /\ 2 * h <= w /\ w <= 2 * h + 1
  BY <1>1
<1>3. PICK r \in Nat : r = ((v + h) \div w) * w
  <2>1. PICK m \in Nat : m = v + h
    BY <1>2
  <2>2. PICK q \in Nat : q = m \div w
    BY <1>1, <2>1, QuotientAndRest
  <2>3. q * w \in Nat
    BY <1>1
  <2>. QED BY <2>1, <2>2, <2>3
<1>4. /\ r - v <= h /\ v - r <= h
      /\ ((r + h) \div w) * w = r
      /\ ((Top + h) \div w) * w \in Nat /\ r <= ((Top + h) \div w) * w
  BY <1>1, <1>2, <1>3, NearestMultiple, SMTT(30)
<1>5. Rounded(v, w) = IF r <= Top THEN r ELSE Top
  BY <1>2, <1>3, RoundedIsElement
<1>6. \A x \in 0 .. Top : Rounded(x, w) = IF ((x + h) \div w) * w <= Top
                                           THEN ((x + h) \div w) * w ELSE Top
  BY <1>2, RoundedIsElement
<1>7. CASE r <= Top
  <2>1. r \in 0 .. Top /\ Rounded(v, w) = r
    BY <1>1, <1>5, <1>7
  <2>2. Rounded(r, w) = r
    BY <1>4, <1>6, <1>7, <2>1
  <2>. QED BY <1>2, <1>4, <2>1, <2>2
<1>8. CASE r > Top
  <2>1. Top \in 0 .. Top /\ Rounded(v, w) = Top
    BY <1>1, <1>5, <1>8
  <2>2. Rounded(Top, w) = Top
    <3>1. PICK m \in Nat : m = ((Top + h) \div w) * w
      BY <1>4
    <3>2. m > Top
      BY <1>1, <1>4, <1>8, <3>1
    <3>3. Rounded(Top, w) = IF m <= Top THEN m ELSE Top
      BY <1>6, <2>1, <3>1
    <3>. QED BY <1>1, <3>2, <3>3
  <2>. QED BY <1>1, <1>2, <1>4, <1>8, <2>1, <2>2
<1>. QED BY <1>1, <1>7, <1>8

\* Rounding moves no element further than half the width, and what is rounded
\* already stays as it is.
THEOREM RoundingAlwaysStable == FilterSpec => []RoundingStable
<1>1. ASSUME FilterInv, pc = "mask" PROVE RoundingStable
  <2>1. /\ field \in Fields /\ width \in {1} \cup Widths /\ data = Stage0
    BY <1>1 DEF FilterInv
  <2>2. field.data \in Values
    BY <2>1, FieldsAssumption DEF Values
  <2>3. width \in Nat \ {0} /\ width \div 2 \in Nat
    <3>1. width \in Nat \ {0}
      BY <2>1, WidthsAssumption
    <3>. QED BY <3>1
  <2>4. \A i \in Cells(field) :
          /\ data[i] \in 0 .. Top /\ field.data[i] \in 0 .. Top
          /\ data[i] = IF width > 1 THEN Rounded(field.data[i], width) ELSE field.data[i]
    BY <2>1, <2>2, StagesAreFields DEF Stage0, Quantized, Values
  <2>5. \A i \in Cells(field) :
          /\ data[i] - field.data[i] <= width \div 2
          /\ field.data[i] - data[i] <= width \div 2
          /\ width > 1 => Rounded(data[i], width) = data[i]
    BY <2>1, <2>3, <2>4, RoundedNear, TopAssumption
  <2>6. data \in Values
    BY <2>1, StagesAreFields
  <2>7. Quantized(data, width) = data
    BY <2>5, <2>6 DEF Quantized, Values
  <2>. QED BY <2>5, <2>7 DEF RoundingStable
<1>2. FilterInv => RoundingStable
  BY <1>1 DEF RoundingStable
<1>. QED BY <1>2, FilterInvariant, PTL

-----------------------------------------------------------------------------
(* The passes one after the other, and the sum the mask was chosen by.     *)

\* Differences can be taken of what has wrapped.
LEMMA WrappedDifference ==
    ASSUME NEW n \in Nat \ {0}, NEW u \in Int, NEW v \in Int
    PROVE  ((u % n) - (v % n)) % n = (u - v) % n
<1>1. PICK q \in Int, a \in 0 .. n - 1 : u = n * q + a /\ u % n = a
  <2>1. u = n * (u \div n) + (u % n) /\ u % n \in 0 .. n - 1 /\ u \div n \in Int
    OBVIOUS
  <2>. QED BY <2>1
<1>2. PICK k \in Int, b \in 0 .. n - 1 : v = n * k + b /\ v % n = b
  <2>1. v = n * (v \div n) + (v % n) /\ v % n \in 0 .. n - 1 /\ v \div n \in Int
    OBVIOUS
  <2>. QED BY <2>1
<1>3. PICK w \in Int, x \in Int : w = u - v /\ x = a - b
  OBVIOUS
<1>4. PICK m \in Int, y \in 0 .. n - 1 : w = n * m + y /\ w % n = y
  <2>1. w = n * (w \div n) + (w % n) /\ w % n \in 0 .. n - 1 /\ w \div n \in Int
    OBVIOUS
  <2>. QED BY <2>1
<1>5. PICK l \in Int, z \in 0 .. n - 1 : x = n * l + z /\ x % n = z
  <2>1. x = n * (x \div n) + (x % n) /\ x % n \in 0 .. n - 1 /\ x \div n \in Int
    OBVIOUS
  <2>. QED BY <2>1
<1>6. n * (m - q + k - l) = z - y
  BY <1>1, <1>2, <1>3, <1>4, <1>5
<1>7. PICK d \in Int : d = m - q + k - l
  OBVIOUS
<1>8. n * d = z - y
  BY <1>6, <1>7
<1>9. (d >= 1 => n * d >= n) /\ (d <= -1 => n * d <= -n)
  OBVIOUS
<1>10. z = y
  BY <1>4, <1>5, <1>8, <1>9
<1>. QED BY <1>1, <1>2, <1>3, <1>4, <1>5, <1>10

\* An element is changed by the pass of an axis if there is one before it along the axis.
LEMMA AlongChanges ==
    ASSUME field \in Fields, NEW a \in Axes, NEW i \in Cells(field)
    PROVE  Along(a, i) >= 1 <=> i \in Changing(a)
<1>1. PICK z \in Nat \ {0}, y \in Nat \ {0}, x \in Nat \ {0} :
          field.z = z /\ field.y = y /\ field.x = x
  BY FieldsAssumption
<1>2. PICK s \in Nat \ {0} : s = y * x
  <2>1. y * x \in Nat \ {0}
    OBVIOUS
  <2>. QED BY <2>1
<1>3. PICK n \in Nat \ {0} : n = z * y * x
  <2>1. z * s \in Nat \ {0} /\ z * y * x = z * s
    BY <1>2
  <2>. QED BY <2>1
<1>4. i \in Nat /\ i < n
  BY <1>1, <1>3 DEF Cells
<1>5. CASE a = "x"
  <2>1. Along(a, i) = i % x /\ Block(a) = x /\ Stride(a) = 1
    BY <1>1, <1>5 DEF Along, Block, Stride
  <2>. QED BY <2>1 DEF Changing
<1>6. CASE a = "y"
  <2>1. Along(a, i) = (i \div x) % y /\ Block(a) = s /\ Stride(a) = x
    BY <1>1, <1>2, <1>6 DEF Along, Block, Stride
  <2>2. PICK k \in Nat, r \in 0 .. x - 1 : i \div x = k /\ i = x * k + r
    BY <1>4, QuotientAndRest
  <2>3. PICK q \in Nat, t \in 0 .. y - 1 : k \div y = q /\ k = y * q + t
    BY QuotientAndRest
  <2>4. k % y = t
    BY <2>3, DivisionIs
  <2>5. x * t >= 0 /\ x * t <= x * (y - 1) /\ (t >= 1 => x * t >= x)
    <3>1. \A j \in Nat : x * j >= 0 /\ (j >= 1 => x * j >= x)
      OBVIOUS
    <3>2. x * (y - 1 - t) >= 0
      BY <2>3, <3>1
    <3>. QED BY <2>3, <3>1, <3>2
  <2>6. PICK w \in Nat : w = x * t
    BY <2>5
  <2>7. x * y = s /\ x * (y - 1) = s - x
    BY <1>2
  <2>8. i = s * q + (w + r) /\ 0 <= w + r /\ w + r < s
    <3>1. x * k = x * (y * q) + x * t
      BY <2>3
    <3>2. x * (y * q) = s * q
      BY <1>2
    <3>3. i = s * q + (w + r)
      BY <2>2, <2>6, <3>1, <3>2
    <3>4. w + r <= (s - x) + (x - 1)
      BY <2>2, <2>5, <2>6, <2>7
    <3>. QED BY <2>2, <2>6, <3>3, <3>4
  <2>9. i % s = w + r
    <3>1. PICK e \in Nat : e = w + r
      BY <2>2, <2>6
    <3>2. i = s * q + e /\ e < s
      BY <2>8, <3>1
    <3>3. i \in Nat /\ q \in Int /\ e \in Int /\ 0 <= e
      BY <1>4, <2>3, <3>1
    <3>4. i % s = e
      BY <3>2, <3>3, DivisionIs
    <3>. QED BY <3>1, <3>4
  <2>10. i % s >= x <=> t >= 1
    BY <2>2, <2>3, <2>5, <2>6, <2>9
  <2>. QED BY <2>1, <2>2, <2>4, <2>10 DEF Changing
<1>7. CASE a = "z"
  <2>1. Along(a, i) = i \div s /\ Block(a) = n /\ Stride(a) = s
    BY <1>1, <1>2, <1>3, <1>7 DEF Along, Block, Stride
  <2>2. i % n = i
    <3>1. i = n * 0 + i
      BY <1>4
    <3>. QED BY <1>4, <3>1, DivisionIs
  <2>3. PICK k \in Nat, r \in 0 .. s - 1 : i \div s = k /\ i = s * k + r
    BY <1>4, QuotientAndRest
  <2>4. k >= 1 <=> i >= s
    <3>1. k >= 1 => s * k >= s
      BY <2>3
    <3>2. k = 0 => i < s
      BY <2>3
    <3>. QED BY <2>3, <3>1, <3>2
  <2>. QED BY <2>1, <2>2, <2>3, <2>4 DEF Changing
<1>. QED BY <1>5, <1>6, <1>7 DEF Axes

\* A pass changes an element whether or not the element is seen from one further
\* along an axis that is passed later.
LEMMA StrideChanges ==
    ASSUME field \in Fields, NEW a \in Axes, NEW b \in Axes,
           <<a, b>> \in {<<"x", "y">>, <<"x", "z">>, <<"y", "z">>},
           NEW i \in Changing(a)
    PROVE  i - Stride(a) \in Changing(b) <=> i \in Changing(b)
<1>1. PICK z \in Nat \ {0}, y \in Nat \ {0}, x \in Nat \ {0} :
          field.z = z /\ field.y = y /\ field.x = x
  BY FieldsAssumption
<1>2. PICK s \in Nat \ {0} : s = y * x
  <2>1. y * x \in Nat \ {0}
    OBVIOUS
  <2>. QED BY <2>1
<1>3. PICK j \in Nat : j = i - Stride(a)
  BY Predecessors, StrideFacts
<1>4. i \in Nat /\ i \in Cells(field) /\ j \in Cells(field)
  BY <1>3, Predecessors
<1>5. (Along(b, j) >= 1 <=> j \in Changing(b)) /\ (Along(b, i) >= 1 <=> i \in Changing(b))
  BY <1>4, AlongChanges
<1>6. CASE a = "x"
  <2>1. i % x >= 1 /\ j = i - 1
    BY <1>1, <1>3, <1>6 DEF Changing, Block, Stride
  <2>2. j \div x = i \div x
    BY <1>4, <2>1, SameBlock
  <2>3. CASE b = "y"
    BY <1>1, <1>3, <1>5, <2>2, <2>3 DEF Along
  <2>4. CASE b = "z"
    <3>1. i % s >= 1
      <4>1. PICK k \in Nat, r \in 0 .. s - 1 : i \div s = k /\ i = s * k + r
        BY <1>4, QuotientAndRest
      <4>2. i % s = r
        BY <1>4, <4>1, DivisionIs
      <4>3. r = 0 => i % x = 0
        <5>1. PICK m \in Nat : m = y * k
          <6>1. y * k \in Nat
            BY <4>1
          <6>. QED BY <6>1
        <5>2. s * k = x * m
          BY <1>2, <5>1
        <5>3. r = 0 => i = x * m + 0
          BY <4>1, <5>2
        <5>. QED BY <1>4, <5>3, DivisionIs
      <4>. QED BY <2>1, <4>1, <4>2, <4>3
    <3>2. j \div s = i \div s
      BY <1>4, <2>1, <3>1, SameBlock
    <3>. QED BY <1>1, <1>2, <1>3, <1>5, <2>4, <3>2 DEF Along
  <2>. QED BY <1>6, <2>3, <2>4
<1>7. CASE a = "y" /\ b = "z"
  <2>1. i % s >= x /\ j = i - x
    BY <1>1, <1>2, <1>3, <1>7 DEF Changing, Block, Stride
  <2>2. j \div s = i \div s
    BY <1>4, <2>1, SameBlock
  <2>. QED BY <1>1, <1>2, <1>3, <1>5, <1>7, <2>2 DEF Along
<1>. QED BY <1>6, <1>7

\* Differences of g along a, not wrapped, where the mask names a.
Unwrapped(a, g, i) ==
    IF a \in mask /\ i \in Changing(a) THEN g[i] - g[i - Stride(a)] ELSE g[i]

Whole1 == [i \in Cells(field) |-> Unwrapped("z", Stage0, i)]
Whole2 == [i \in Cells(field) |-> Unwrapped("y", Whole1, i)]
Whole3 == [i \in Cells(field) |-> Unwrapped("x", Whole2, i)]

LEMMA PassWraps ==
    ASSUME field \in Fields, NEW a \in Axes, NEW g \in Values,
           NEW w \in [Cells(field) -> Int], \A i \in Cells(field) : g[i] = w[i] % (Top + 1)
    PROVE  /\ [i \in Cells(field) |-> Unwrapped(a, w, i)] \in [Cells(field) -> Int]
           /\ \A i \in Cells(field) : After(a, g)[i] = Unwrapped(a, w, i) % (Top + 1)
<1>1. \A i \in Changing(a) : i - Stride(a) \in Cells(field) /\ i \in Cells(field)
  BY Predecessors
<1>2. \A i \in Cells(field) : Unwrapped(a, w, i) \in Int
  BY <1>1 DEF Unwrapped
<1>3. ASSUME NEW i \in Cells(field) PROVE After(a, g)[i] = Unwrapped(a, w, i) % (Top + 1)
  <2>1. CASE a \in mask /\ i \in Changing(a)
    <3>1. PICK u \in Int, v \in Int : u = w[i] /\ v = w[i - Stride(a)]
      BY <1>1, <2>1
    <3>2. ((u % (Top + 1)) - (v % (Top + 1))) % (Top + 1) = (u - v) % (Top + 1)
      <4>1. PICK n \in Nat \ {0} : n = Top + 1
        BY TopAssumption
      <4>2. ((u % n) - (v % n)) % n = (u - v) % n
        BY WrappedDifference
      <4>. QED BY <4>1, <4>2
    <3>3. After(a, g)[i] = (g[i] - g[i - Stride(a)]) % (Top + 1)
      BY <2>1 DEF After, Diffed
    <3>4. g[i] = u % (Top + 1) /\ g[i - Stride(a)] = v % (Top + 1)
      BY <1>1, <2>1, <3>1
    <3>. QED BY <2>1, <3>1, <3>2, <3>3, <3>4 DEF Unwrapped
  <2>2. CASE ~(a \in mask /\ i \in Changing(a))
    BY <2>2 DEF After, Diffed, Unwrapped
  <2>. QED BY <2>1, <2>2
<1>. QED BY <1>2, <1>3

\* The passes, not wrapped in between, add up to the alternating sum.
LEMMA WholeIsMixed ==
    ASSUME field \in Fields, Stage0 \in Values, NEW i \in Cells(field)
    PROVE  Whole3[i] % (Top + 1) = Mixed(Stage0, i)
<1>. DEFINE sx == Stride("x")
            sy == Stride("y")
            sz == Stride("z")
            bx == "x" \in mask /\ i \in Changing("x")
            by == "y" \in mask /\ i \in Changing("y")
            bz == "z" \in mask /\ i \in Changing("z")
            g == Stage0
            At(as, back) == IF as \subseteq mask /\ \A a \in as : Along(a, i) >= 1
                            THEN g[i - back] ELSE 0
<1>1. "x" \in Axes /\ "y" \in Axes /\ "z" \in Axes
  BY DEF Axes
<1>2. \A a \in Axes : Along(a, i) >= 1 <=> i \in Changing(a)
  BY AlongChanges
<1>3. sx \in Nat /\ sy \in Nat /\ sz \in Nat /\ i \in Nat
  BY <1>1, StrideFacts
<1>4. /\ i \in Changing("x") => i - sx \in Cells(field)
      /\ i \in Changing("y") => i - sy \in Cells(field)
      /\ i \in Changing("z") => i - sz \in Cells(field)
  BY <1>1, Predecessors
<1>5. \A j \in Cells(field) : Whole1[j] = Unwrapped("z", g, j)
  BY DEF Whole1
<1>6. \A j \in Cells(field) : Whole2[j] = Unwrapped("y", Whole1, j)
  BY DEF Whole2
<1>7. Whole3[i] = Unwrapped("x", Whole2, i)
  BY DEF Whole3
<1>8. /\ i \in Changing("x") => /\ i - sx \in Changing("y") <=> i \in Changing("y")
                                /\ i - sx \in Changing("z") <=> i \in Changing("z")
      /\ i \in Changing("y") => (i - sy \in Changing("z") <=> i \in Changing("z"))
  BY <1>1, StrideChanges
<1>9. bx /\ by => /\ i - sx \in Changing("y")
                  /\ i - (sx + sy) \in Cells(field)
                  /\ i - sx - sy = i - (sx + sy)
                  /\ i - (sx + sy) \in Changing("z") <=> i \in Changing("z")
  <2>. SUFFICES ASSUME bx, by
                PROVE  /\ i - sx \in Changing("y")
                       /\ i - (sx + sy) \in Cells(field)
                       /\ i - sx - sy = i - (sx + sy)
                       /\ i - (sx + sy) \in Changing("z") <=> i \in Changing("z")
    OBVIOUS
  <2>1. PICK j \in Changing("y") : j = i - sx
    BY <1>8
  <2>2. j - sy \in Cells(field) /\ (j - sy \in Changing("z") <=> j \in Changing("z"))
    BY <1>1, Predecessors, StrideChanges
  <2>3. j - sy = i - (sx + sy) /\ i - sx - sy = i - (sx + sy)
    BY <1>3, <2>1
  <2>. QED BY <1>8, <2>1, <2>2, <2>3
<1>10. At({}, 0) = g[i]
  BY <1>3
<1>11. /\ At({"x"}, sx) = IF bx THEN g[i - sx] ELSE 0
       /\ At({"y"}, sy) = IF by THEN g[i - sy] ELSE 0
       /\ At({"z"}, sz) = IF bz THEN g[i - sz] ELSE 0
       /\ At({"x", "y"}, sx + sy) = IF bx /\ by THEN g[i - (sx + sy)] ELSE 0
       /\ At({"x", "z"}, sx + sz) = IF bx /\ bz THEN g[i - (sx + sz)] ELSE 0
       /\ At({"y", "z"}, sy + sz) = IF by /\ bz THEN g[i - (sy + sz)] ELSE 0
  BY <1>1, <1>2
<1>12. At({"x", "y", "z"}, sx + sy + sz)
           = IF bx /\ by /\ bz THEN g[i - (sx + sy + sz)] ELSE 0
  <2>1. {"x", "y", "z"} \subseteq mask <=> "x" \in mask /\ "y" \in mask /\ "z" \in mask
    OBVIOUS
  <2>2. (\A a \in {"x", "y", "z"} : Along(a, i) >= 1)
           <=> i \in Changing("x") /\ i \in Changing("y") /\ i \in Changing("z")
    BY <1>1, <1>2
  <2>. QED BY <2>1, <2>2
<1>13. Mixed(g, i) =
          (At({}, 0) - At({"x"}, sx) - At({"y"}, sy) - At({"z"}, sz)
           + At({"x", "y"}, sx + sy) + At({"x", "z"}, sx + sz) + At({"y", "z"}, sy + sz)
           - At({"x", "y", "z"}, sx + sy + sz)) % (Top + 1)
  BY DEF Mixed
<1>. HIDE DEF At
<1>14. /\ Whole1[i] = IF bz THEN g[i] - g[i - sz] ELSE g[i]
       /\ bx => Whole1[i - sx] = IF bz THEN g[i - sx] - g[i - sx - sz] ELSE g[i - sx]
       /\ by => Whole1[i - sy] = IF bz THEN g[i - sy] - g[i - sy - sz] ELSE g[i - sy]
       /\ bx /\ by => Whole1[i - (sx + sy)]
             = IF bz THEN g[i - (sx + sy)] - g[i - (sx + sy) - sz] ELSE g[i - (sx + sy)]
  BY <1>4, <1>5, <1>8, <1>9 DEF Unwrapped
<1>15. /\ Whole2[i] = IF by THEN Whole1[i] - Whole1[i - sy] ELSE Whole1[i]
       /\ bx => Whole2[i - sx] = IF by THEN Whole1[i - sx] - Whole1[i - (sx + sy)]
                                      ELSE Whole1[i - sx]
  BY <1>4, <1>6, <1>8, <1>9 DEF Unwrapped
<1>16. Whole3[i] = IF bx THEN Whole2[i] - Whole2[i - sx] ELSE Whole2[i]
  BY <1>7 DEF Unwrapped
<1>17. /\ bx /\ bz => i - sx - sz \in Cells(field) /\ i - sx - sz = i - (sx + sz)
       /\ by /\ bz => i - sy - sz \in Cells(field) /\ i - sy - sz = i - (sy + sz)
       /\ bx /\ by /\ bz => /\ i - (sx + sy) - sz \in Cells(field)
                           /\ i - (sx + sy) - sz = i - (sx + sy + sz)
  <2>1. \A j \in Changing("z") : j - sz \in Cells(field)
    BY <1>1, Predecessors
  <2>. QED BY <1>3, <1>8, <1>9, <2>1
<1>18. \A j \in Cells(field) : g[j] \in Int
  BY TopAssumption DEF Values
<1>. HIDE DEF bx, by, bz, sx, sy, sz, g
<1>19. PICK v0 \in Int, vx \in Int, vy \in Int, vz \in Int, vxy \in Int, vxz \in Int, vyz \in Int,
            vxyz \in Int :
         /\ v0 = g[i]
         /\ bx => vx = g[i - sx]
         /\ by => vy = g[i - sy]
         /\ bz => vz = g[i - sz]
         /\ bx /\ by => vxy = g[i - (sx + sy)]
         /\ bx /\ bz => vxz = g[i - (sx + sz)]
         /\ by /\ bz => vyz = g[i - (sy + sz)]
         /\ bx /\ by /\ bz => vxyz = g[i - (sx + sy + sz)]
  <2>. DEFINE V(b, j) == IF b THEN g[j] ELSE 0
  <2>1. /\ V(TRUE, i) \in Int /\ V(bx, i - sx) \in Int /\ V(by, i - sy) \in Int
        /\ V(bz, i - sz) \in Int /\ V(bx /\ by, i - (sx + sy)) \in Int
        /\ V(bx /\ bz, i - (sx + sz)) \in Int /\ V(by /\ bz, i - (sy + sz)) \in Int
        /\ V(bx /\ by /\ bz, i - (sx + sy + sz)) \in Int
    BY <1>4, <1>9, <1>17, <1>18 DEF bx, by, bz
  <2>. QED BY <2>1
<1>20. /\ At({}, 0) = v0
       /\ At({"x"}, sx) = IF bx THEN vx ELSE 0
       /\ At({"y"}, sy) = IF by THEN vy ELSE 0
       /\ At({"z"}, sz) = IF bz THEN vz ELSE 0
       /\ At({"x", "y"}, sx + sy) = IF bx /\ by THEN vxy ELSE 0
       /\ At({"x", "z"}, sx + sz) = IF bx /\ bz THEN vxz ELSE 0
       /\ At({"y", "z"}, sy + sz) = IF by /\ bz THEN vyz ELSE 0
       /\ At({"x", "y", "z"}, sx + sy + sz) = IF bx /\ by /\ bz THEN vxyz ELSE 0
  BY <1>10, <1>11, <1>12, <1>19
<1>21. /\ Whole1[i] = IF bz THEN v0 - vz ELSE v0
       /\ bx => Whole1[i - sx] = IF bz THEN vx - vxz ELSE vx
       /\ by => Whole1[i - sy] = IF bz THEN vy - vyz ELSE vy
       /\ bx /\ by => Whole1[i - (sx + sy)] = IF bz THEN vxy - vxyz ELSE vxy
  BY <1>14, <1>17, <1>19
<1>22. /\ ~bx => Whole3[i] = Whole2[i]
       /\ bx => Whole3[i] = Whole2[i] - Whole2[i - sx]
       /\ ~by => Whole2[i] = Whole1[i] /\ (bx => Whole2[i - sx] = Whole1[i - sx])
       /\ by => /\ Whole2[i] = Whole1[i] - Whole1[i - sy]
                /\ bx => Whole2[i - sx] = Whole1[i - sx] - Whole1[i - (sx + sy)]
  BY <1>15, <1>16
<1>23. Whole3[i] = At({}, 0) - At({"x"}, sx) - At({"y"}, sy) - At({"z"}, sz)
           + At({"x", "y"}, sx + sy) + At({"x", "z"}, sx + sz) + At({"y", "z"}, sy + sz)
           - At({"x", "y", "z"}, sx + sy + sz)
  <2>1. CASE bx /\ by
    <3>1. CASE bz
      BY <1>20, <1>21, <1>22, <2>1, <3>1
    <3>2. CASE ~bz
      BY <1>20, <1>21, <1>22, <2>1, <3>2
    <3>. QED BY <3>1, <3>2
  <2>2. CASE bx /\ ~by
    <3>1. CASE bz
      BY <1>20, <1>21, <1>22, <2>2, <3>1
    <3>2. CASE ~bz
      BY <1>20, <1>21, <1>22, <2>2, <3>2
    <3>. QED BY <3>1, <3>2
  <2>3. CASE ~bx /\ by
    <3>1. CASE bz
      BY <1>20, <1>21, <1>22, <2>3, <3>1
    <3>2. CASE ~bz
      BY <1>20, <1>21, <1>22, <2>3, <3>2
    <3>. QED BY <3>1, <3>2
  <2>4. CASE ~bx /\ ~by
    <3>1. CASE bz
      BY <1>20, <1>21, <1>22, <2>4, <3>1
    <3>2. CASE ~bz
      BY <1>20, <1>21, <1>22, <2>4, <3>2
    <3>. QED BY <3>1, <3>2
  <2>. QED BY <2>1, <2>2, <2>3, <2>4
<1>. QED BY <1>13, <1>23 DEF g

\* The passes, in place and one after the other, make of every element just the
\* value whose distribution the mask was chosen by (vc_delta_select_mask).
THEOREM FilteredAlwaysAsSampled == FilterSpec => []FilteredAsSampled
<1>1. ASSUME FilterInv, pc = "filter", passes = <<>> PROVE FilteredAsSampled
  <2>1. field \in Fields /\ width \in {1} \cup Widths /\ data = Stage3
    <3>1. /\ <<"z">> \o Pass("y", mask) \o Pass("x", mask) # <<>>
          /\ <<"y">> \o Pass("x", mask) # <<>>
      BY PassesAre, FirstPass
    <3>. QED BY <1>1, <3>1 DEF FilterInv, FilterStage
  <2>2. Stage0 \in Values /\ Stage1 \in Values /\ Stage2 \in Values
    BY <2>1, StagesAreFields
  <2>3. "x" \in Axes /\ "y" \in Axes /\ "z" \in Axes
    BY DEF Axes
  <2>4. Stage0 \in [Cells(field) -> Int] /\ \A i \in Cells(field) : Stage0[i] = Stage0[i] % (Top + 1)
    <3>1. ASSUME NEW i \in Cells(field) PROVE Stage0[i] \in Int /\ Stage0[i] = Stage0[i] % (Top + 1)
      <4>1. PICK n \in Nat \ {0}, u \in Nat : n = Top + 1 /\ u = Stage0[i] /\ u < n
        <5>1. Stage0[i] \in 0 .. Top
          BY <2>2 DEF Values
        <5>2. Stage0[i] \in Nat /\ Top + 1 \in Nat \ {0} /\ Stage0[i] < Top + 1
          BY <5>1, TopAssumption
        <5>. QED BY <5>2
      <4>2. u = n * 0 + u
        OBVIOUS
      <4>3. u % n = u
        BY <4>1, <4>2, DivisionIs
      <4>. QED BY <4>1, <4>3
    <3>2. Stage0 \in [Cells(field) -> 0 .. Top]
      BY <2>2 DEF Values
    <3>. QED BY <3>1, <3>2
  <2>5. /\ Whole1 \in [Cells(field) -> Int]
        /\ \A i \in Cells(field) : Stage1[i] = Whole1[i] % (Top + 1)
    BY <2>1, <2>2, <2>3, <2>4, PassWraps DEF Whole1, Stage1
  <2>6. /\ Whole2 \in [Cells(field) -> Int]
        /\ \A i \in Cells(field) : Stage2[i] = Whole2[i] % (Top + 1)
    BY <2>1, <2>2, <2>3, <2>5, PassWraps DEF Whole2, Stage2
  <2>7. \A i \in Cells(field) : Stage3[i] = Whole3[i] % (Top + 1)
    BY <2>1, <2>2, <2>3, <2>6, PassWraps DEF Whole3, Stage3
  <2>8. \A i \in Cells(field) : data[i] = Mixed(Stage0, i)
    BY <2>1, <2>2, <2>7, WholeIsMixed
  <2>. QED BY <2>8 DEF FilteredAsSampled, Stage0
<1>2. FilterInv => FilteredAsSampled
  BY <1>1 DEF FilteredAsSampled
<1>. QED BY <1>2, FilterInvariant, PTL
=============================================================================
