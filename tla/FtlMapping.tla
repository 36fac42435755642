----------------------------- MODULE FtlMapping -----------------------------
(***************************************************************************)
(* The mapping table of ftl.c byte by byte: 12 bits for each logical       *)
(* address, so that two addresses share the middle one of three bytes.     *)
(* write_mapping_table stores an entry in three steps, and ftl_read may    *)
(* read the table between them.  Ftl takes the table for an array of       *)
(* entries; here is what that rests on.                                    *)
(*                                                                         *)
(* ftl_mapping_table_init allocates MAPPING_TABLE_SIZE bytes of zeroes;    *)
(* what lies behind them is not initialised.                               *)
(***************************************************************************)
EXTENDS Integers

CONSTANTS
    Entries,   \* logical addresses: MAX_logical_address_size / 4
    Halves     \* the entries written: word addresses divided by two

ASSUME TableAssumption == /\ Entries \in Nat \ {0}
                          /\ Halves \subseteq 0 .. 4095

VARIABLES
    table,   \* ftl_mapping_table and the byte behind it
    entry,   \* history: what was last written for each address, 0 if nothing
    write    \* the call of write_mapping_table in progress

vars == <<table, entry, write>>

LOGIC_ADDR_MAP_BIT_NUM == 12
MAPPING_TABLE_SIZE == (Entries * LOGIC_ADDR_MAP_BIT_NUM) \div 8

Index  == 0 .. Entries - 1
Byte   == 0 .. 255

ByteIndex(a)  == (a * LOGIC_ADDR_MAP_BIT_NUM) \div 8
ByteOffset(a) == (a * LOGIC_ADDR_MAP_BIT_NUM) % 8

\* The bytes some entry uses.
Bytes == 0 .. ByteIndex(Entries - 1) + 1

NoWrite == [addr |-> 0, half |-> 0, step |-> 0]

Init == /\ \E b \in Byte : table = [i \in Bytes |-> IF i < MAPPING_TABLE_SIZE THEN 0 ELSE b]
        /\ entry = [a \in Index |-> 0]
        /\ write = NoWrite

\* The 12 bits from the offset on; twice this is the word address.
read_mapping_table(a) ==
    LET two == table[ByteIndex(a)] + 256 * table[ByteIndex(a) + 1]
    IN  IF ByteOffset(a) = 4 THEN two \div 16 ELSE two % 4096

Low(b)  == b % 16            \* b & 0x0f
High(b) == 16 * (b \div 16)  \* b & 0xf0

Begin(a, h) ==
    /\ write.step = 0
    /\ write' = [addr |-> a, half |-> h, step |-> 1]
    /\ UNCHANGED <<table, entry>>

Put(i, b) == table' = [table EXCEPT ![i] = b]

Last  == /\ entry' = [entry EXCEPT ![write.addr] = write.half]
         /\ write' = NoWrite
Go    == write' = [write EXCEPT !.step = @ + 1] /\ UNCHANGED entry

\* Mutant: the nibble of the address before is not kept.
Mut_StoreOdd ==
    LET i == ByteIndex(write.addr)
    IN  /\ ByteOffset(write.addr) = 4
        /\ \/ write.step = 1 /\ Put(i, 0) /\ Go
           \/ write.step = 2 /\ Put(i, table[i] + 16 * (write.half % 16)) /\ Go
           \/ write.step = 3 /\ Put(i + 1, write.half \div 16) /\ Last

\* The entry starts in the upper half of its first byte: clear it, set it,
\* then the whole second byte.
StoreOdd ==
    LET i == ByteIndex(write.addr)
    IN  /\ ByteOffset(write.addr) = 4
        /\ \/ write.step = 1 /\ Put(i, Low(table[i])) /\ Go
           \/ write.step = 2 /\ Put(i, table[i] + 16 * (write.half % 16)) /\ Go
           \/ write.step = 3 /\ Put(i + 1, write.half \div 16) /\ Last

\* The entry ends in the lower half of its second byte.
StoreEven ==
    LET i == ByteIndex(write.addr)
    IN  /\ ByteOffset(write.addr) = 0
        /\ \/ write.step = 1 /\ Put(i, write.half % 256) /\ Go
           \/ write.step = 2 /\ Put(i + 1, High(table[i + 1])) /\ Go
           \/ write.step = 3 /\ Put(i + 1, table[i + 1] + write.half \div 256) /\ Last

\* The memset of FTL_IOCTL_CLEAR_ALL, which takes no ftl_sem; here no other task
\* is in ftl_write meanwhile.
Clear ==
    /\ write.step = 0
    /\ table' = [i \in Bytes |-> IF i < MAPPING_TABLE_SIZE THEN 0 ELSE table[i]]
    /\ entry' = [a \in Index |-> 0]
    /\ UNCHANGED write

Next == \/ \E a \in Index, h \in Halves : Begin(a, h)
        \/ StoreOdd \/ StoreEven
        \/ Clear

Spec == Init /\ [][Next]_vars

-----------------------------------------------------------------------------
(* Properties.                                                              *)

\* Type invariant.
TypeOK == /\ table \in [Bytes -> Byte]
          /\ entry \in [Index -> 0 .. 4095]
          /\ write \in [addr : Index, half : 0 .. 4095, step : 0 .. 3]

Writing(a) == write.step # 0 /\ write.addr = a

\* Every address reads back what was last written for it, also between the
\* three stores of another one: the neighbours in the table do not disturb each
\* other, not even for a reader that holds no lock.
EntriesAreKept ==
    \A a \in Index : ~Writing(a) => read_mapping_table(a) = entry[a]
=============================================================================
