-------------------------- MODULE FtlMappingProofs --------------------------
(* The entries of the mapping table do not disturb each other, for a table of *)
(* any even number of addresses and any entries written.                      *)
EXTENDS FtlMapping, TLAPS

(* Addresses come in twos that share three bytes.                             *)
Even(a) == a % 2 = 0
Base(a) == 3 * (a \div 2)

\* What read_mapping_table finds, in terms of the three bytes.
Seen(a) == IF Even(a) THEN table[Base(a)] + 256 * (table[Base(a) + 1] % 16)
                      ELSE table[Base(a) + 1] \div 16 + 16 * table[Base(a) + 2]

\* How much of the entry is there between the stores.
Halfway ==
    LET b == Base(write.addr)
    IN  IF Even(write.addr)
        THEN /\ write.step \in {2, 3} => table[b] = write.half % 256
             /\ write.step = 3 => table[b + 1] % 16 = 0
        ELSE /\ write.step = 2 => table[b + 1] < 16
             /\ write.step = 3 => table[b + 1] \div 16 = write.half % 16

OthersKept == \A a \in Index : ~Writing(a) => Seen(a) = entry[a]

MapInv == TypeOK /\ Halfway /\ OthersKept

-----------------------------------------------------------------------------
(* Where the entries are.                                                     *)

\* An even address starts at the first byte of its three, an odd one in the
\* middle of the second.
LEMMA Place ==
    ASSUME NEW a \in Index
    PROVE  /\ Even(a) => ByteIndex(a) = Base(a) /\ ByteOffset(a) = 0
           /\ ~Even(a) => ByteIndex(a) = Base(a) + 1 /\ ByteOffset(a) = 4
BY TableAssumption, SMTT(20) DEF Index, Even, Base, ByteIndex, ByteOffset, LOGIC_ADDR_MAP_BIT_NUM

\* The bytes of an entry are bytes of the table, and an even number of entries
\* fills whole bytes.
LEMMA Inside ==
    ASSUME Entries % 2 = 0, NEW a \in Index
    PROVE  /\ {Base(a), Base(a) + 1, Base(a) + 2} \subseteq Bytes
           /\ Base(a) \in Nat
           /\ \A i \in Bytes : i \in Nat /\ i < MAPPING_TABLE_SIZE
BY TableAssumption, SMTT(20)
   DEF Index, Base, Bytes, ByteIndex, MAPPING_TABLE_SIZE, LOGIC_ADDR_MAP_BIT_NUM

\* Two addresses share their three bytes, or none of them.
LEMMA Apart ==
    ASSUME NEW a \in Index, NEW b \in Index, a # b
    PROVE  \/ Base(a) = Base(b) /\ Even(a) # Even(b)
           \/ \A i, j \in 0 .. 2 : Base(a) + i # Base(b) + j
BY TableAssumption, SMTT(20) DEF Index, Even, Base

\* The shift and the mask of read_mapping_table take apart two bytes.
LEMMA Nibbles ==
    ASSUME NEW x \in Byte, NEW y \in Byte
    PROVE  /\ (x + 256 * y) % 4096 = x + 256 * (y % 16)
           /\ (x + 256 * y) \div 16 = x \div 16 + 16 * y
BY SMTT(20) DEF Byte

\* The bytes that the stores put together: nothing overflows a byte, and the two
\* parts of an entry make the whole.
LEMMA StoreOddBytes ==
    ASSUME write.half \in 0 .. 4095
    PROVE  /\ write.half \div 16 \in Byte
           /\ (write.half % 16) + 16 * (write.half \div 16) = write.half
           /\ \A x \in Byte : x < 16 =>
                 /\ x + 16 * (write.half % 16) \in Byte
                 /\ (x + 16 * (write.half % 16)) % 16 = x % 16
                 /\ (x + 16 * (write.half % 16)) \div 16 = write.half % 16
<1> DEFINE h == write.half
           r == h % 16
<1>1. h \in 0 .. 4095
  OBVIOUS
<1> HIDE DEF h
<1>2. h \div 16 \in Byte /\ r + 16 * (h \div 16) = h
  BY <1>1, SMTT(20) DEF Byte
<1>3. r \in 0 .. 15
  BY <1>1, SMTT(20)
<1> HIDE DEF r
<1>4. ASSUME NEW x \in Byte, x < 16
      PROVE  x + 16 * r \in Byte /\ (x + 16 * r) % 16 = x % 16 /\ (x + 16 * r) \div 16 = r
  BY <1>3, <1>4, SMTT(20) DEF Byte
<1> QED BY <1>2, <1>4 DEF h, r

\* The same for an even address.
LEMMA StoreEvenBytes ==
    ASSUME write.half \in 0 .. 4095
    PROVE  /\ write.half % 256 \in Byte
           /\ \A x \in Byte : x % 16 = 0 =>
                 /\ x + write.half \div 256 \in Byte
                 /\ (x + write.half \div 256) \div 16 = x \div 16
                 /\ (write.half % 256) + 256 * ((x + write.half \div 256) % 16) = write.half
<1> DEFINE h == write.half
           q == h \div 256
<1>1. h \in 0 .. 4095
  OBVIOUS
<1> HIDE DEF h
<1>2. q \in 0 .. 15 /\ h % 256 \in Byte /\ (h % 256) + 256 * q = h
  BY <1>1, SMTT(20) DEF Byte
<1> HIDE DEF q
<1>3. ASSUME NEW x \in Byte, x % 16 = 0
      PROVE  /\ x + q \in Byte /\ (x + q) \div 16 = x \div 16
             /\ (h % 256) + 256 * ((x + q) % 16) = h
  <2>1. x + q \in Byte /\ (x + q) \div 16 = x \div 16 /\ (x + q) % 16 = q
    BY <1>2, <1>3, SMTT(20) DEF Byte
  <2> QED BY <1>2, <2>1
<1> QED BY <1>2, <1>3 DEF h, q

\* read_mapping_table finds what Seen says.
LEMMA ReadIsSeen ==
    ASSUME Entries % 2 = 0, TypeOK, NEW a \in Index
    PROVE  read_mapping_table(a) = Seen(a)
<1>1. /\ Even(a) => ByteIndex(a) = Base(a) /\ ByteOffset(a) = 0
      /\ ~Even(a) => ByteIndex(a) = Base(a) + 1 /\ ByteOffset(a) = 4
  BY Place
<1>2. {Base(a), Base(a) + 1, Base(a) + 2} \subseteq Bytes /\ Base(a) \in Nat
  BY Inside
<1>3. table[Base(a)] \in Byte /\ table[Base(a) + 1] \in Byte /\ table[Base(a) + 2] \in Byte
  BY <1>2 DEF TypeOK
<1>4. CASE Even(a)
  <2>1. read_mapping_table(a) = (table[Base(a)] + 256 * table[Base(a) + 1]) % 4096
    BY <1>1, <1>4 DEF read_mapping_table
  <2> QED BY <2>1, <1>3, <1>4, Nibbles DEF Seen
<1>5. CASE ~Even(a)
  <2>1. Base(a) + 1 + 1 = Base(a) + 2
    BY <1>2
  <2>2. read_mapping_table(a) = (table[Base(a) + 1] + 256 * table[Base(a) + 2]) \div 16
    BY <1>1, <1>5, <2>1 DEF read_mapping_table
  <2> QED BY <2>2, <1>3, <1>5, Nibbles DEF Seen
<1> QED BY <1>4, <1>5

-----------------------------------------------------------------------------
(* A store changes one byte, and of a shared one only the half it owns.       *)

\* No other entry changes.
LEMMA StoreKeepsOthers ==
    ASSUME Entries % 2 = 0, TypeOK, NEW a \in Index, NEW b \in Index, b # a,
           NEW i, NEW v \in Byte, Put(i, v),
           Even(a) => \/ i = Base(a)
                      \/ i = Base(a) + 1 /\ v \div 16 = table[i] \div 16,
           ~Even(a) => \/ i = Base(a) + 2
                       \/ i = Base(a) + 1 /\ v % 16 = table[i] % 16
    PROVE  Seen(b)' = Seen(b)
<1>1. \/ Base(a) = Base(b) /\ Even(a) # Even(b)
      \/ \A k, l \in 0 .. 2 : Base(a) + k # Base(b) + l
  BY Apart
<1>2. /\ {Base(a), Base(a) + 1, Base(a) + 2} \subseteq Bytes /\ Base(a) \in Nat
      /\ {Base(b), Base(b) + 1, Base(b) + 2} \subseteq Bytes /\ Base(b) \in Nat
  BY Inside
<1>3. \A k \in Bytes : table'[k] = IF k = i THEN v ELSE table[k]
  BY DEF Put, TypeOK
<1>4. Seen(b)' = IF Even(b) THEN table'[Base(b)] + 256 * (table'[Base(b) + 1] % 16)
                            ELSE table'[Base(b) + 1] \div 16 + 16 * table'[Base(b) + 2]
  BY DEF Seen, Even, Base
<1>5. CASE Base(a) = Base(b) /\ Even(b) /\ ~Even(a)
  <2>1. table'[Base(b)] = table[Base(b)]
    BY <1>2, <1>3, <1>5
  <2>2. table'[Base(b) + 1] % 16 = table[Base(b) + 1] % 16
    BY <1>2, <1>3, <1>5
  <2> QED BY <2>1, <2>2, <1>4, <1>5 DEF Seen
<1>6. CASE Base(a) = Base(b) /\ ~Even(b) /\ Even(a)
  <2>1. table'[Base(b) + 2] = table[Base(b) + 2]
    BY <1>2, <1>3, <1>6
  <2>2. table'[Base(b) + 1] \div 16 = table[Base(b) + 1] \div 16
    BY <1>2, <1>3, <1>6
  <2> QED BY <2>1, <2>2, <1>4, <1>6 DEF Seen
<1>7. CASE \A k, l \in 0 .. 2 : Base(a) + k # Base(b) + l
  <2>1. i \in {Base(a), Base(a) + 1, Base(a) + 2}
    OBVIOUS
  <2>2. i # Base(b) /\ i # Base(b) + 1 /\ i # Base(b) + 2
    <3>1. Base(a) + 0 = Base(a) /\ Base(b) + 0 = Base(b)
      BY <1>2
    <3> QED BY <2>1, <1>7, <1>2, <3>1
  <2> QED BY <1>2, <1>3, <1>4, <2>2 DEF Seen
<1> QED BY <1>1, <1>5, <1>6, <1>7 DEF Even

-----------------------------------------------------------------------------
(* The invariant.                                                             *)

\* A zeroed table reads as if nothing was written.
LEMMA ZeroedReads ==
    ASSUME Entries % 2 = 0, \A i \in Bytes : i < MAPPING_TABLE_SIZE => table[i] = 0,
           NEW a \in Index
    PROVE  Seen(a) = 0
<1>1. table[Base(a)] = 0 /\ table[Base(a) + 1] = 0 /\ table[Base(a) + 2] = 0
  BY Inside
<1> QED BY <1>1, SMT DEF Seen

\* The invariant holds of the zeroed table.
LEMMA InitMap ==
    ASSUME Entries % 2 = 0, Init
    PROVE  MapInv
<1>1. 0 \in Index
  BY TableAssumption DEF Index
<1>2. TypeOK
  BY <1>1 DEF Init, TypeOK, NoWrite, Byte
<1>3. \A i \in Bytes : i < MAPPING_TABLE_SIZE => table[i] = 0
  BY DEF Init
<1>4. \A a \in Index : Seen(a) = 0
  BY <1>3, ZeroedReads
<1>5. OthersKept
  BY <1>4 DEF Init, OthersKept
<1>6. Halfway
  BY DEF Init, Halfway, NoWrite
<1> QED BY <1>2, <1>5, <1>6 DEF MapInv

\* What a step of a write needs to know.
LEMMA WriteShape ==
    ASSUME Entries % 2 = 0, TypeOK
    PROVE  /\ write = [addr |-> write.addr, half |-> write.half, step |-> write.step]
           /\ write.addr \in Index /\ write.half \in 0 .. 4095 /\ write.step \in 0 .. 3
           /\ Base(write.addr) \in Nat
           /\ {Base(write.addr), Base(write.addr) + 1, Base(write.addr) + 2} \subseteq Bytes
           /\ table[Base(write.addr)] \in Byte
           /\ table[Base(write.addr) + 1] \in Byte
           /\ table[Base(write.addr) + 2] \in Byte
<1>1. write.addr \in Index
  BY DEF TypeOK
<1>2. {Base(write.addr), Base(write.addr) + 1, Base(write.addr) + 2} \subseteq Bytes
      /\ Base(write.addr) \in Nat
  BY <1>1, Inside
<1> QED BY <1>1, <1>2 DEF TypeOK

\* A store that leaves the write under way.
LEMMA GoKeeps ==
    ASSUME Entries % 2 = 0, MapInv, write.step \in {1, 2}, Go,
           NEW i \in Bytes, NEW v \in Byte, Put(i, v),
           Even(write.addr) => \/ i = Base(write.addr)
                               \/ i = Base(write.addr) + 1 /\ v \div 16 = table[i] \div 16,
           ~Even(write.addr) => \/ i = Base(write.addr) + 2
                                \/ i = Base(write.addr) + 1 /\ v % 16 = table[i] % 16
    PROVE  /\ TypeOK' /\ OthersKept'
           /\ write' = [addr |-> write.addr, half |-> write.half, step |-> write.step + 1]
<1>1. TypeOK
  BY DEF MapInv
<1>2. /\ write = [addr |-> write.addr, half |-> write.half, step |-> write.step]
      /\ write.addr \in Index /\ write.half \in 0 .. 4095
  BY <1>1, WriteShape
<1>3. write' = [addr |-> write.addr, half |-> write.half, step |-> write.step + 1]
  BY <1>2 DEF Go
<1>4. TypeOK'
  <2>1. table' \in [Bytes -> Byte]
    BY <1>1 DEF TypeOK, Put
  <2>2. entry' \in [Index -> 0 .. 4095]
    BY <1>1 DEF TypeOK, Go
  <2>3. write.step + 1 \in 0 .. 3
    OBVIOUS
  <2>4. write' \in [addr : Index, half : 0 .. 4095, step : 0 .. 3]
    BY <1>2, <1>3, <2>3
  <2> QED BY <2>1, <2>2, <2>4 DEF TypeOK
<1>5. ASSUME NEW b \in Index, ~Writing(b)'
      PROVE  Seen(b)' = entry'[b]
  <2>1. b # write.addr
    BY <1>3, <1>5 DEF Writing
  <2>2. Seen(b)' = Seen(b)
    BY <1>1, <1>2, <2>1, StoreKeepsOthers
  <2>3. Seen(b) = entry[b]
    BY <2>1 DEF MapInv, OthersKept, Writing
  <2> QED BY <2>2, <2>3 DEF Go
<1> QED BY <1>3, <1>4, <1>5 DEF OthersKept, Index

\* The last store, after which the entry is there.
LEMMA LastKeeps ==
    ASSUME Entries % 2 = 0, MapInv, Last,
           NEW i \in Bytes, NEW v \in Byte, Put(i, v),
           Even(write.addr) => \/ i = Base(write.addr)
                               \/ i = Base(write.addr) + 1 /\ v \div 16 = table[i] \div 16,
           ~Even(write.addr) => \/ i = Base(write.addr) + 2
                                \/ i = Base(write.addr) + 1 /\ v % 16 = table[i] % 16,
           IF Even(write.addr)
           THEN table'[Base(write.addr)]
                + 256 * (table'[Base(write.addr) + 1] % 16) = write.half
           ELSE table'[Base(write.addr) + 1] \div 16
                + 16 * table'[Base(write.addr) + 2] = write.half
    PROVE  MapInv'
<1>1. TypeOK
  BY DEF MapInv
<1>2. write.addr \in Index /\ write.half \in 0 .. 4095
  BY <1>1, WriteShape
<1>3. TypeOK'
  <2>1. 0 \in Index
    BY TableAssumption DEF Index
  <2>2. table' \in [Bytes -> Byte]
    BY <1>1 DEF TypeOK, Put
  <2>3. entry' \in [Index -> 0 .. 4095]
    BY <1>1, <1>2 DEF TypeOK, Last
  <2>4. write' \in [addr : Index, half : 0 .. 4095, step : 0 .. 3]
    BY <2>1 DEF Last, NoWrite
  <2> QED BY <2>2, <2>3, <2>4 DEF TypeOK
<1>4. ASSUME NEW b \in Index
      PROVE  Seen(b)' = entry'[b]
  <2>1. CASE b = write.addr
    <3>1. Seen(b)' = write.half
      BY <2>1 DEF Seen, Even, Base
    <3> QED BY <1>1, <1>2, <2>1, <3>1 DEF TypeOK, Last
  <2>2. CASE b # write.addr
    <3>1. Seen(b)' = Seen(b)
      BY <1>1, <1>2, <2>2, StoreKeepsOthers
    <3>2. Seen(b) = entry[b]
      BY <2>2 DEF MapInv, OthersKept, Writing
    <3> QED BY <1>1, <2>2, <3>1, <3>2 DEF TypeOK, Last
  <2> QED BY <2>1, <2>2
<1>5. Halfway'
  BY DEF Halfway, Last, NoWrite
<1> QED BY <1>3, <1>4, <1>5 DEF MapInv, OthersKept, Index

-----------------------------------------------------------------------------
\* The three stores of an odd address.
LEMMA StoreOddKeeps ==
    ASSUME Entries % 2 = 0, MapInv, StoreOdd
    PROVE  MapInv'
<1> DEFINE a == write.addr
           i == Base(a) + 1
<1>1. TypeOK /\ Halfway
  BY DEF MapInv
<1>2. /\ a \in Index /\ write.half \in 0 .. 4095 /\ Base(a) \in Nat
      /\ {Base(a), Base(a) + 1, Base(a) + 2} \subseteq Bytes
      /\ table[Base(a)] \in Byte /\ table[i] \in Byte /\ table[Base(a) + 2] \in Byte
  BY <1>1, WriteShape
<1>3. ~Even(a) /\ ByteIndex(a) = i /\ i + 1 = Base(a) + 2
  BY <1>2, Place DEF StoreOdd
<1>4. CASE write.step = 1
  <2>1. Put(i, Low(table[i])) /\ Go
    BY <1>3, <1>4 DEF StoreOdd
  <2>2. Low(table[i]) \in Byte /\ Low(table[i]) % 16 = table[i] % 16 /\ Low(table[i]) < 16
    BY <1>2 DEF Low, Byte
  <2>3. /\ TypeOK' /\ OthersKept'
        /\ write' = [addr |-> a, half |-> write.half, step |-> 2]
    <3> HIDE DEF i
    <3> QED BY <1>2, <1>3, <1>4, <2>1, <2>2, GoKeeps DEF i
  <2>4. table'[i] < 16
    BY <1>1, <1>2, <2>1, <2>2 DEF Put, TypeOK
  <2>5. Halfway'
    BY <1>3, <2>3, <2>4 DEF Halfway, Even, Base
  <2> QED BY <2>3, <2>5 DEF MapInv
<1>5. CASE write.step = 2
  <2> DEFINE v == table[i] + 16 * (write.half % 16)
  <2>1. Put(i, v) /\ Go
    BY <1>3, <1>5 DEF StoreOdd
  <2>2. table[i] < 16
    BY <1>1, <1>3, <1>5 DEF Halfway
  <2>3. v \in Byte /\ v % 16 = table[i] % 16 /\ v \div 16 = write.half % 16
    BY <1>2, <2>2, StoreOddBytes
  <2> HIDE DEF v
  <2>4. /\ TypeOK' /\ OthersKept'
        /\ write' = [addr |-> a, half |-> write.half, step |-> 3]
    BY <1>2, <1>3, <1>5, <2>1, <2>3, GoKeeps
  <2>5. table'[i] \div 16 = write.half % 16
    BY <1>1, <1>2, <2>1, <2>3 DEF Put, TypeOK
  <2>6. Halfway'
    BY <1>3, <2>4, <2>5 DEF Halfway, Even, Base
  <2> QED BY <2>4, <2>6 DEF MapInv
<1>6. CASE write.step = 3
  <2> DEFINE v == write.half \div 16
  <2>1. Put(Base(a) + 2, v) /\ Last
    BY <1>3, <1>6 DEF StoreOdd
  <2>2. table[i] \div 16 = write.half % 16
    BY <1>1, <1>3, <1>6 DEF Halfway
  <2>3. v \in Byte /\ (write.half % 16) + 16 * v = write.half
    BY <1>2, StoreOddBytes
  <2> HIDE DEF v
  <2>4. table'[i] = table[i] /\ table'[Base(a) + 2] = v
    BY <1>1, <1>2, <2>1 DEF Put, TypeOK
  <2>5. table'[Base(a) + 1] \div 16 + 16 * table'[Base(a) + 2] = write.half
    BY <2>2, <2>3, <2>4
  <2> QED BY <1>2, <1>3, <2>1, <2>3, <2>5, LastKeeps
<1> QED BY <1>4, <1>5, <1>6 DEF StoreOdd

\* The three stores of an even address.
LEMMA StoreEvenKeeps ==
    ASSUME Entries % 2 = 0, MapInv, StoreEven
    PROVE  MapInv'
<1> DEFINE a == write.addr
           i == Base(a) + 1
<1>1. TypeOK /\ Halfway
  BY DEF MapInv
<1>2. /\ a \in Index /\ write.half \in 0 .. 4095 /\ Base(a) \in Nat
      /\ {Base(a), Base(a) + 1, Base(a) + 2} \subseteq Bytes
      /\ table[Base(a)] \in Byte /\ table[i] \in Byte /\ table[Base(a) + 2] \in Byte
  BY <1>1, WriteShape
<1>3. Even(a) /\ ByteIndex(a) = Base(a)
  BY <1>2, Place DEF StoreEven
<1>4. CASE write.step = 1
  <2> DEFINE v == write.half % 256
  <2>1. Put(Base(a), v) /\ Go
    BY <1>3, <1>4 DEF StoreEven
  <2>2. v \in Byte
    BY <1>2, StoreEvenBytes
  <2> HIDE DEF v
  <2>3. /\ TypeOK' /\ OthersKept'
        /\ write' = [addr |-> a, half |-> write.half, step |-> 2]
    BY <1>2, <1>3, <1>4, <2>1, <2>2, GoKeeps
  <2>4. table'[Base(a)] = v
    BY <1>1, <1>2, <2>1 DEF Put, TypeOK
  <2>5. Halfway'
    BY <1>3, <2>3, <2>4 DEF Halfway, Even, Base, v
  <2> QED BY <2>3, <2>5 DEF MapInv
<1>5. CASE write.step = 2
  <2> DEFINE v == High(table[i])
  <2>1. Put(i, v) /\ Go
    BY <1>3, <1>5 DEF StoreEven
  <2>2. table[Base(a)] = write.half % 256
    BY <1>1, <1>3, <1>5 DEF Halfway
  <2>3. v \in Byte /\ v \div 16 = table[i] \div 16 /\ v % 16 = 0
    BY <1>2 DEF Byte, High
  <2> HIDE DEF v
  <2>4. /\ TypeOK' /\ OthersKept'
        /\ write' = [addr |-> a, half |-> write.half, step |-> 3]
    BY <1>2, <1>3, <1>5, <2>1, <2>3, GoKeeps
  <2>5. table'[i] % 16 = 0 /\ table'[Base(a)] = table[Base(a)]
    BY <1>1, <1>2, <2>1, <2>3 DEF Put, TypeOK
  <2>6. Halfway'
    BY <1>3, <2>2, <2>4, <2>5 DEF Halfway, Even, Base
  <2> QED BY <2>4, <2>6 DEF MapInv
<1>6. CASE write.step = 3
  <2> DEFINE v == table[i] + write.half \div 256
  <2>1. Put(i, v) /\ Last
    BY <1>3, <1>6 DEF StoreEven
  <2>2. table[Base(a)] = write.half % 256 /\ table[i] % 16 = 0
    BY <1>1, <1>3, <1>6 DEF Halfway
  <2>3. /\ v \in Byte /\ v \div 16 = table[i] \div 16
        /\ (write.half % 256) + 256 * (v % 16) = write.half
    BY <1>2, <2>2, StoreEvenBytes
  <2> HIDE DEF v
  <2>4. table'[Base(a)] = table[Base(a)] /\ table'[i] = v
    BY <1>1, <1>2, <2>1 DEF Put, TypeOK
  <2>5. table'[Base(a)] + 256 * (table'[Base(a) + 1] % 16) = write.half
    BY <2>2, <2>3, <2>4
  <2> QED BY <1>2, <1>3, <2>1, <2>3, <2>5, LastKeeps
<1> QED BY <1>4, <1>5, <1>6 DEF StoreEven

\* The memset of FTL_IOCTL_CLEAR_ALL zeroes every byte of the table.
LEMMA ClearKeeps ==
    ASSUME Entries % 2 = 0, MapInv, Clear
    PROVE  MapInv'
<1>1. \A i \in Bytes : table'[i] = 0
  BY Inside, TableAssumption DEF Clear, Index
<1>2. \A a \in Index : Seen(a)' = 0
  <2>1. TAKE a \in Index
  <2>2. table'[Base(a)] = 0 /\ table'[Base(a) + 1] = 0 /\ table'[Base(a) + 2] = 0
    BY <1>1, Inside
  <2> QED BY <2>2, SMT DEF Seen, Even, Base
<1>3. TypeOK'
  BY DEF Clear, TypeOK, MapInv, Byte
<1>4. OthersKept'
  BY <1>2 DEF Clear, OthersKept, Index
<1>5. Halfway'
  BY DEF Clear, Halfway
<1> QED BY <1>3, <1>4, <1>5 DEF MapInv

\* A call of write_mapping_table leaves the table as it is.
LEMMA BeginKeeps ==
    ASSUME MapInv, NEW a \in Index, NEW h \in Halves, Begin(a, h)
    PROVE  MapInv'
<1>1. h \in 0 .. 4095
  BY TableAssumption
<1>2. TypeOK'
  BY <1>1 DEF Begin, TypeOK, MapInv
<1>3. \A b \in Index : Seen(b)' = Seen(b)
  BY DEF Begin, Seen, Even, Base
<1>4. OthersKept'
  BY <1>3 DEF Begin, OthersKept, MapInv, Writing, Index
<1>5. Halfway'
  BY DEF Begin, Halfway
<1> QED BY <1>2, <1>4, <1>5 DEF MapInv

\* In a table of an even number of addresses, of whatever size and whatever is
\* written, every address reads back what was last written for it, also between
\* the three stores of another one.
THEOREM EntriesKept == Entries % 2 = 0 /\ Spec => []EntriesAreKept
<1> SUFFICES ASSUME Entries % 2 = 0
             PROVE  Spec => []EntriesAreKept
  OBVIOUS
<1>1. Init => MapInv
  BY InitMap
<1>2. MapInv /\ [Next]_vars => MapInv'
  <2> SUFFICES ASSUME MapInv, [Next]_vars
               PROVE  MapInv'
    OBVIOUS
  <2>1. CASE \E a \in Index, h \in Halves : Begin(a, h)
    BY <2>1, BeginKeeps
  <2>2. CASE StoreOdd
    BY <2>2, StoreOddKeeps
  <2>3. CASE StoreEven
    BY <2>3, StoreEvenKeeps
  <2>4. CASE Clear
    BY <2>4, ClearKeeps
  <2>5. CASE UNCHANGED vars
    BY <2>5 DEF vars, MapInv, TypeOK, Halfway, OthersKept, Writing, Seen, Even, Base
  <2> QED BY <2>1, <2>2, <2>3, <2>4, <2>5 DEF Next
<1>3. MapInv => EntriesAreKept
  BY ReadIsSeen DEF MapInv, OthersKept, EntriesAreKept
<1> QED BY <1>1, <1>2, <1>3, PTL DEF Spec
=============================================================================
