------------------------------ MODULE MCPgmHex ------------------------------
(***************************************************************************)
(* The lines of the files PgmHex reads in its run: for each memory area    *)
(* records at the edges of blocks, of halves of blocks and of the area.    *)
(* Addresses are in bytes, twice the word address.                         *)
(***************************************************************************)
EXTENDS PgmHex

Record(word, length) == [kind |-> "data", address |-> 2 * word, length |-> length]

SerialRecords ==
  { Record(512, 16),     \* 0x0200, the first words
    Record(536, 32),     \* 0x0218, into the second block
    Record(552, 16),     \* 0x0228, in the second block
    Record(2552, 32) }   \* 0x09F8, over the end

FlashRecords ==
  { Record(11264, 16),   \* 0x2C00, licensed
    Record(14848, 32),   \* 0x3A00, the first half
    Record(14856, 32),   \* 0x3A08, across the halves
    Record(14872, 16),   \* 0x3A18, to the end of the block
    Record(14872, 32),   \* 0x3A18, out of the block
    Record(14880, 4),    \* 0x3A20, the next block
    Record(16376, 16) }  \* 0x3FF8, to the end of the area

(* With the extended address 0x0001. *)
InternalRecords ==
  { Record(28672, 16),   \* 0xF000
    Record(28920, 16) }  \* 0xF0F8, to the end of the area

(* Not of whole words. *)
OddRecords ==
  { [kind |-> "data", address |-> 29697, length |-> 7] }  \* in word 0x3A00

HexLines ==
  SerialRecords \cup FlashRecords \cup InternalRecords \cup OddRecords
    \cup {[kind |-> "address", high |-> h * 2^16] : h \in {0, 1, 2}}
    \cup {[kind |-> "other"]}
=============================================================================
