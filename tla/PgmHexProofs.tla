---------------------------- MODULE PgmHexProofs ----------------------------
(***************************************************************************)
(* What holds of PgmHex for any file.                                      *)
(***************************************************************************)
EXTENDS PgmHex, FiniteSetTheorems, TLAPS

(* The line in the buffer is the record read last.                         *)
InBuffer == DataInBufferReady /\ codeLine.kind = "data"

Last == records[Len(records)]

BufferInv ==
  /\ pc = "process" => DataInBufferReady /\ lastLine # "end"
  /\ pc = "read" => ~DataInBufferReady
  /\ lastLine = "end" => ~DataInBufferReady
  /\ InBuffer => /\ records # <<>>
                 /\ Last = [start |-> HiAddress + codeLine.address, length |-> codeLine.length]

(* What is uploaded has a packet to upload.                                *)
PacketInv ==
  /\ pc \in {"read", "process"} /\ block.number # 0 => block.processState # 0
  /\ pc = "upload" =>
       /\ block.processState # 0
       /\ OpResult \in {"FLASH_BLOCK_READY", "EEEPROM_BLOCK_READY", "EEPROM_BLOCK_READY"}
       /\ OpResult = "EEPROM_BLOCK_READY" => block.image[1] <= 32
  /\ OpResult \in {"SUCCESS", "ERROR"} => pc \in {"terminate", "done", "crashed"}

HexInv == TypeOK /\ BufferInv /\ PacketInv

-----------------------------------------------------------------------------
(* The image holds only bytes of the packets' own addresses, unless a      *)
(* record is of the unhandled kinds.                                       *)
Handled == \A i \in DOMAIN records : ~Unhandled(records[i])

At(image, at) == image[at] + 256 * image[at + 1]

Covers(image, at, area, first) ==
  \A i \in at + 2 .. at + 33 :
    IsData(image[i]) => Place(image[i] - DataBase) = <<area, first + i - at - 2>>

(* The head of block n of the serial EEPROM, counted as the program does.  *)
SerialHead(image, n) ==
  At(image, 0) = (n - 16) * 32 /\ Covers(image, 0, "EEEPROM", (n - 16) * 32)

EmptyImage(b) ==
  b.number = 0 /\ ~b.overflow /\ \A i \in Indexes : ~IsData(b.image[i])

OverflowImage(b) ==
  b.overflow => \E n \in 17 .. 79 : SerialHead(b.image, n)

SerialImage(b) ==
  /\ b.number \in 16 .. (IF b.overflow THEN 78 ELSE 79) /\ b.processState = 1
  /\ At(b.image, 34) = (b.number - 16) * 32
  /\ Covers(b.image, 34, "EEEPROM", (b.number - 16) * 32)
  /\ SerialHead(b.image, b.number + 1)

FlashImage(b) ==
  /\ b.number \in 352 .. 511 /\ ~b.overflow
  /\ At(b.image, 0) = b.number * 32 /\ At(b.image, 34) = b.number * 32 + 16
  /\ Covers(b.image, 0, "FLASH", b.number * 64)
  /\ Covers(b.image, 34, "FLASH", b.number * 64 + 32)

InternalImage(b) ==
  /\ b.number = 0 /\ ~b.overflow /\ b.processState = 1
  /\ b.image[0] \in 0 .. 255 /\ b.image[1] \in 0 .. 32
  /\ Covers(b.image, 0, "EEPROM", b.image[0])

ReadyImage(b) ==
  \/ EmptyImage(b)
  \/ b.number = 0 /\ b.overflow /\ OverflowImage(b)
  \/ SerialImage(b) /\ ~b.overflow
  \/ FlashImage(b) /\ b.processState = 2

UploadImage(b, opResult) ==
  \/ opResult = "EEEPROM_BLOCK_READY" /\ SerialImage(b)
  \/ opResult = "FLASH_BLOCK_READY" /\ FlashImage(b)
  \/ opResult = "EEPROM_BLOCK_READY" /\ InternalImage(b)

ImageInv ==
  Handled =>
    /\ pc \in {"start", "connect", "enter"} => ~block.overflow
    /\ pc = "prepare" => OverflowImage(block)
    /\ pc \in {"read", "process"} => ReadyImage(block)
    /\ pc = "upload" => UploadImage(block, OpResult)

-----------------------------------------------------------------------------
(* Of a sorted file whose calls all succeed, what was stored is in the     *)
(* image or in the device.                                                 *)
Block(b) == Word(b) \div 32

StoredRecords == 1 .. (IF InBuffer THEN Len(records) - 1 ELSE Len(records))

IsStored(b) == \E i \in StoredRecords : b \in Kept(records[i])

(* The records stored have come to block n, and those read beyond it.      *)
Reached(n) ==
  \E i \in StoredRecords : Block(records[i].start) >= n \/ Block(End(records[i]) - 1) >= n

Beyond(n) ==
  \/ Reached(n + 1)
  \/ InBuffer /\ Block(Last.start) > n
  \/ lastLine = "end"

InDevice(b) == Place(b) \in DOMAIN memory /\ memory[Place(b)] = Data(b)

Gone(b) ==
  /\ InDevice(b)
  /\ Word(b) \in PIC16LF1938_EEPROM \/ Beyond(Block(b))

ImageIndex(b) ==
  IF IsFlash(Word(b)) THEN (b % 64) + (IF b % 64 < 32 THEN 2 ELSE 4)
  ELSE (Word(b) % 32) + 36

OverflowBlock(b) == At(b.image, 0) \div 32 + 16

(* Where a byte stored waits to be uploaded; 0 is nowhere.                 *)
Waits(b, byte) ==
  IF b.number # 0 /\ Block(byte) = b.number THEN ImageIndex(byte)
  ELSE IF b.overflow /\ Block(byte) = OverflowBlock(b) THEN ImageIndex(byte) - 34
  ELSE 0

WaitsUpload(b, opResult, byte) ==
  CASE opResult = "EEPROM_BLOCK_READY" ->
         IF Word(byte) - 61440 - b.image[0] \in 0 .. b.image[1] - 1
           THEN Word(byte) - 61440 - b.image[0] + 2 ELSE 0
    [] opResult = "FLASH_BLOCK_READY" ->
         IF Block(byte) = b.number /\ (b.processState = 2 \/ byte % 64 >= 32)
           THEN ImageIndex(byte) ELSE 0
    [] OTHER -> Waits(b, byte)

Waiting(byte) ==
  CASE pc = "upload"  -> WaitsUpload(block, OpResult, byte)
    [] pc = "prepare" -> Waits([block EXCEPT !.number = 0], byte)
    [] OTHER          -> Waits(block, byte)

Careful == failures = 0 /\ Sorted /\ Handled

InLoop == pc \in {"prepare", "read", "process", "upload"}

StoredByte(byte) ==
  IF Waiting(byte) # 0 THEN block.image[Waiting(byte)] = Data(byte) ELSE Gone(byte)

StoredInv ==
  Careful =>
    /\ InLoop => \A byte \in Nat : IsStored(byte) => StoredByte(byte)
    /\ OpResult = "SUCCESS" =>
         ~DataInBufferReady /\ \A byte \in Nat : IsStored(byte) => InDevice(byte)

(* The image being filled is that of the block the records have come to;   *)
(* the one being uploaded is behind them.                                  *)
ReachedInv ==
  Careful =>
    /\ pc \in {"start", "connect", "enter"} => records = <<>>
    /\ InLoop =>
         /\ mode = "programming"
         /\ block.overflow => Reached(OverflowBlock(block))
    /\ pc \in {"read", "process"} /\ block.number # 0 => Reached(block.number)
    /\ pc = "upload" /\ block.number # 0 => Beyond(block.number)

-----------------------------------------------------------------------------
(* The counts of the program, and its addresses.                           *)

LEMMA ImageSize == Cardinality(Indexes) = 68
<1>1. \A a \in Int : Cardinality(0 .. a) = IF 0 > a THEN 0 ELSE a - 0 + 1
  BY FS_Interval, 0 \in Int, Zenon
<1>2. Cardinality(0 .. 67) = IF 0 > 67 THEN 0 ELSE 67 - 0 + 1
  BY <1>1, 67 \in Int, Zenon
<1> QED
  BY <1>2 DEF Indexes

LEMMA LoHi ==
  ASSUME NEW n \in Nat, n < 65536
  PROVE  Lo(n) + 256 * Hi(n) = n
<1>1. n \div 256 >= 0 /\ n \div 256 < 256 /\ n = 256 * (n \div 256) + (n % 256)
  OBVIOUS
<1>2. Hi(n) = n \div 256
  BY <1>1 DEF Hi
<1> QED
  BY <1>1, <1>2 DEF Lo

LEMMA DataIsData ==
  ASSUME NEW b \in Nat
  PROVE  Data(b) \in Nat /\ IsData(Data(b)) /\ Data(b) - DataBase = b
BY DEF Data, IsData, DataBase

LEMMA LoHiNat ==
  ASSUME NEW n \in Nat
  PROVE  Lo(n) \in 0 .. 255 /\ Hi(n) \in 0 .. 255
BY DEF Lo, Hi

-----------------------------------------------------------------------------
(* The image keeps its type.                                               *)

RecordType == [start : Nat, length : Lengths]

DataInBuffer == codeLine \in DataLine /\ HiAddress \in Nat

LEMMA OffsetsAndLengths ==
  /\ \A n \in Offsets : n \in Nat /\ n < 65536
  /\ \A n \in Lengths : n \in Nat /\ n <= 58
BY DEF Offsets, Lengths

LEMMA LineAddress ==
  ASSUME DataInBuffer
  PROVE  /\ Address \in Nat /\ Address < 65536
         /\ HiAddress + codeLine.address \in Nat
         /\ codeLine.length \in 0 .. 58 /\ codeLine.length \div 2 \in 0 .. 29
         /\ codeLine.kind = "data"
<1>0. codeLine.address \in Offsets /\ codeLine.length \in Lengths /\ codeLine.kind = "data"
  BY DEF DataInBuffer, DataLine
<1>1. HiAddress + codeLine.address \in Nat
  BY <1>0, OffsetsAndLengths DEF DataInBuffer
<1>2. (HiAddress + codeLine.address) \div 2 \in Nat
  BY <1>1
<1>3. Address \in Nat /\ Address < 65536
  BY <1>2 DEF Address
<1> QED
  BY <1>0, <1>1, <1>3 DEF Lengths

LEMMA LineData ==
  ASSUME DataInBuffer, NEW n \in Nat
  PROVE  WordData(n) \in Nat /\ ByteData(n) \in Nat
BY LineAddress DEF WordData, ByteData, Data, DataBase

LEMMA WithAddressesType ==
  ASSUME NEW image \in [Indexes -> Nat], NEW first \in Nat, NEW second \in Nat
  PROVE  /\ WithAddresses(image, first, second) \in [Indexes -> Nat]
         /\ \A i \in Indexes :
              WithAddresses(image, first, second)[i] =
                CASE i = 0  -> Lo(first)  [] i = 1  -> Hi(first)
                  [] i = 34 -> Lo(second) [] i = 35 -> Hi(second)
                  [] OTHER -> image[i]
BY LoHiNat DEF WithAddresses

LEMMA MovedType ==
  ASSUME NEW b \in BlockType
  PROVE  /\ MoveOverflowedData(b) \in BlockType
         /\ MoveOverflowedData(b).number # 0
         /\ MoveOverflowedData(b).processState = 1
         /\ ~MoveOverflowedData(b).overflow
<1>1. (b.image[0] + 256 * b.image[1]) \div 32 \in Nat
  BY DEF BlockType, Indexes
<1> DEFINE next == ((b.image[0] + 256 * b.image[1]) \div 32 + 1) * 32
<1>2. next \in Nat /\ Lo(next) \in Nat /\ Hi(next) \in Nat
  BY <1>1, LoHiNat
<1> HIDE DEF next
<1>3. [i \in Indexes |-> IF i >= 34 THEN b.image[i - 34]
                         ELSE IF i = 0 THEN Lo(next)
                         ELSE IF i = 1 THEN Hi(next)
                         ELSE 0] \in [Indexes -> Nat]
  BY <1>2 DEF BlockType, Indexes
<1> QED
  BY <1>1, <1>3 DEF MoveOverflowedData, BlockType, next

LEMMA CurrentType ==
  ASSUME block \in BlockType
  PROVE  /\ Current \in BlockType
         /\ ~Current.overflow
         /\ (block.number # 0 => block.processState # 0) =>
              (Current.number # 0 => Current.processState # 0)
BY MovedType DEF Current, BlockType

LEMMA NewSerialType ==
  ASSUME DataInBuffer, Address \in SERIAL_EEPROM
  PROVE  /\ NewSerialImage \in BlockType
         /\ NewSerialImage.number = Address \div 32 /\ NewSerialImage.number # 0
         /\ NewSerialImage.processState = 1
         /\ ~NewSerialImage.overflow
<1>1. ((Address - 512) \div 32) * 32 \in Nat
  BY DEF SERIAL_EEPROM, SERIAL_EEPROM_MIN_ADR, SERIAL_EEPROM_MAX_ADR
<1>2. Address \div 32 \in Nat \ {0}
  BY DEF SERIAL_EEPROM, SERIAL_EEPROM_MIN_ADR, SERIAL_EEPROM_MAX_ADR
<1> DEFINE memBlock == ((Address - 512) \div 32) * 32
           zero == [i \in Indexes |-> 0]
<1>3. zero \in [Indexes -> Nat] /\ memBlock \in Nat /\ memBlock + 32 \in Nat
  BY <1>1
<1>4. WithAddresses(zero, memBlock + 32, memBlock) \in [Indexes -> Nat]
  BY <1>3, WithAddressesType
<1> QED
  BY <1>2, <1>4 DEF NewSerialImage, BlockType

(* The word of the line that index i takes, if it is one of the count.     *)
SerialWord(i, to) == IF i >= to THEN i - to ELSE i - 2 + 68 - to

LEMMA PutSerialType ==
  ASSUME DataInBuffer, NEW b \in BlockType, NEW to \in 36 .. 67, NEW count \in 0 .. 29
  PROVE  /\ PutSerial(b, to, count) \in BlockType
         /\ PutSerial(b, to, count).number = b.number
         /\ PutSerial(b, to, count).processState = b.processState
         /\ PutSerial(b, to, count).overflow = (to + count > 68)
         /\ \A i \in Indexes : PutSerial(b, to, count).image[i] =
              IF SerialWord(i, to) \in 0 .. count - 1 /\ i # 0 /\ i # 1
                THEN WordData(SerialWord(i, to)) ELSE b.image[i]
<1> DEFINE image == [i \in Indexes |->
                       IF SerialWord(i, to) \in 0 .. count - 1 /\ i # 0 /\ i # 1
                         THEN WordData(SerialWord(i, to)) ELSE b.image[i]]
<1>1. ASSUME NEW i \in Indexes
      PROVE  (IF SerialWord(i, to) \in 0 .. count - 1 /\ i # 0 /\ i # 1
                THEN WordData(SerialWord(i, to)) ELSE b.image[i]) \in Nat
  <2>1. CASE SerialWord(i, to) \in 0 .. count - 1
    BY <2>1, LineData DEF BlockType
  <2>2. CASE SerialWord(i, to) \notin 0 .. count - 1
    BY <2>2 DEF BlockType
  <2> QED
    BY <2>1, <2>2
<1>2. image \in [Indexes -> Nat]
  BY <1>1
<1>3. PutSerial(b, to, count) = [b EXCEPT !.overflow = to + count > 68, !.image = image]
  BY ImageSize DEF PutSerial, SerialWord
<1>4. \A i \in Indexes : image[i] =
        IF SerialWord(i, to) \in 0 .. count - 1 /\ i # 0 /\ i # 1
          THEN WordData(SerialWord(i, to)) ELSE b.image[i]
  OBVIOUS
<1> HIDE DEF image
<1>5. (to + count > 68) \in BOOLEAN
  OBVIOUS
<1>6. /\ PutSerial(b, to, count) \in BlockType
      /\ PutSerial(b, to, count).number = b.number
      /\ PutSerial(b, to, count).processState = b.processState
      /\ PutSerial(b, to, count).image = image
  BY <1>2, <1>3, <1>5 DEF BlockType
<1>7. PutSerial(b, to, count).overflow = (to + count > 68)
  BY <1>3 DEF BlockType
<1> QED
  BY <1>4, <1>6, <1>7

LEMMA PutFlashType ==
  ASSUME DataInBuffer, NEW b \in BlockType, NEW to \in 2 .. 66, NEW count \in 0 .. 58
  PROVE  /\ PutFlash(b, to, count) \in BlockType
         /\ PutFlash(b, to, count).number = Address \div 32
         /\ PutFlash(b, to, count).processState = 2
         /\ PutFlash(b, to, count).overflow = b.overflow
         /\ \A i \in Indexes : PutFlash(b, to, count).image[i] =
              IF i - to \in 0 .. count - 1 THEN ByteData(i - to)
              ELSE WithAddresses(b.image, (Address \div 32) * 32, (Address \div 32) * 32 + 16)[i]
<1> DEFINE first == (Address \div 32) * 32
           image == [i \in Indexes |->
                       IF i - to \in 0 .. count - 1 THEN ByteData(i - to)
                       ELSE WithAddresses(b.image, first, first + 16)[i]]
<1>1. first \in Nat /\ first + 16 \in Nat /\ Address \div 32 \in Nat
  BY LineAddress
<1>2. WithAddresses(b.image, first, first + 16) \in [Indexes -> Nat]
  BY <1>1, WithAddressesType DEF BlockType
<1>3. ASSUME NEW i \in Indexes
      PROVE  (IF i - to \in 0 .. count - 1 THEN ByteData(i - to)
              ELSE WithAddresses(b.image, first, first + 16)[i]) \in Nat
  <2> HIDE DEF first
  <2>1. i - to \in 0 .. count - 1 => i - to \in Nat
    BY DEF Indexes
  <2> QED
    BY <1>2, <2>1, LineData
<1>4. image \in [Indexes -> Nat]
  BY <1>3
<1>5. PutFlash(b, to, count) =
        [b EXCEPT !.number = Address \div 32, !.processState = 2, !.image = image]
  BY DEF PutFlash, BlockType
<1>6. \A i \in Indexes : image[i] =
        IF i - to \in 0 .. count - 1 THEN ByteData(i - to)
        ELSE WithAddresses(b.image, (Address \div 32) * 32, (Address \div 32) * 32 + 16)[i]
  OBVIOUS
<1> HIDE DEF image
<1>7. /\ PutFlash(b, to, count) \in BlockType
      /\ PutFlash(b, to, count).number = Address \div 32
      /\ PutFlash(b, to, count).processState = 2
      /\ PutFlash(b, to, count).overflow = b.overflow
      /\ PutFlash(b, to, count).image = image
  <2> DEFINE number == Address \div 32
             state == 2
  <2>1. number \in Nat /\ state \in 0 .. 2
    BY <1>1
  <2>2. PutFlash(b, to, count) =
          [b EXCEPT !.number = number, !.processState = state, !.image = image]
    BY <1>5
  <2> HIDE DEF number, state
  <2>3. /\ PutFlash(b, to, count) \in BlockType
        /\ PutFlash(b, to, count).number = number
        /\ PutFlash(b, to, count).processState = state
        /\ PutFlash(b, to, count).overflow = b.overflow
        /\ PutFlash(b, to, count).image = image
    BY <1>4, <2>1, <2>2 DEF BlockType
  <2> QED
    BY <2>3, Zenon DEF number, state
<1> QED
  BY <1>6, <1>7, Zenon

LEMMA PutInternalType ==
  ASSUME DataInBuffer, NEW b \in BlockType, NEW count \in 0 .. 29
  PROVE  /\ PutInternal(b, count) \in BlockType
         /\ PutInternal(b, count).number = b.number
         /\ PutInternal(b, count).overflow = b.overflow
         /\ \A i \in Indexes : PutInternal(b, count).image[i] =
              CASE i = 0 -> Lo(Address) [] i = 1 -> count
                [] i - 2 \in 0 .. count - 1 -> WordData(i - 2) [] OTHER -> b.image[i]
<1> DEFINE image == [i \in Indexes |->
                       CASE i = 0 -> Lo(Address) [] i = 1 -> count
                         [] i - 2 \in 0 .. count - 1 -> WordData(i - 2) [] OTHER -> b.image[i]]
<1>1. Lo(Address) \in Nat /\ count \in Nat
  BY LineAddress, LoHiNat
<1>2. ASSUME NEW i \in Indexes
      PROVE  (CASE i = 0 -> Lo(Address) [] i = 1 -> count
                [] i - 2 \in 0 .. count - 1 -> WordData(i - 2) [] OTHER -> b.image[i]) \in Nat
  <2>1. i - 2 \in 0 .. count - 1 => i - 2 \in Nat /\ i # 0 /\ i # 1
    BY DEF Indexes
  <2> QED
    BY <1>1, <2>1, LineData DEF BlockType
<1>3. image \in [Indexes -> Nat]
  BY <1>2
<1>4. PutInternal(b, count) = [b EXCEPT !.image = image]
  BY DEF PutInternal, BlockType
<1>5. \A i \in Indexes : image[i] =
        CASE i = 0 -> Lo(Address) [] i = 1 -> count
          [] i - 2 \in 0 .. count - 1 -> WordData(i - 2) [] OTHER -> b.image[i]
  OBVIOUS
<1> HIDE DEF image
<1> QED
  BY <1>3, <1>4, <1>5 DEF BlockType

-----------------------------------------------------------------------------
(* One line processed.                                                     *)

LEMMA FlashPlace ==
  ASSUME DataInBuffer, IsFlash(Address)
  PROVE  DestinationIndex \in 2 .. 66 /\ DataCounter \in 0 .. 58
<1> USE DEF IQRF_MAIN_MEM_MIN_ADR, IQRF_MAIN_MEM_MAX_ADR, IQRF_LICENCED_MEM_MIN_ADR,
            IQRF_LICENCED_MEM_MAX_ADR
<1>1. Address \in Nat /\ codeLine.length \in 0 .. 58 /\ codeLine.length \div 2 \in 0 .. 29
  BY LineAddress
<1>2. DestinationIndex \in 2 .. 66
  BY <1>1 DEF DestinationIndex
<1>3. DataCounter \in 0 .. 58
  <2>1. CASE Address \in IQRF_MAIN_MEM
    BY <1>1, <2>1 DEF DataCounter, IQRF_MAIN_MEM
  <2>2. CASE Address \notin IQRF_MAIN_MEM /\ Address \in IQRF_LICENCED_MEM
    BY <1>1, <2>2 DEF DataCounter, IQRF_LICENCED_MEM
  <2> QED
    BY <2>1, <2>2 DEF IsFlash
<1> QED
  BY <1>2, <1>3

(* How the processing of a line ends: it is done with, or the image is     *)
(* uploaded, or the program gives up.                                      *)
Done    == pc' = "read" /\ ~DataInBufferReady' /\ OpResult' = OpResult
Stopped == pc' = "terminate" /\ OpResult' = "ERROR"
Uploads ==
  /\ pc' = "upload" /\ block'.processState # 0
  /\ OpResult' \in {"FLASH_BLOCK_READY", "EEEPROM_BLOCK_READY", "EEPROM_BLOCK_READY"}
  /\ OpResult' = "EEPROM_BLOCK_READY" => block'.image[1] <= 32

Processed ==
  /\ block' \in BlockType
  /\ DataInBufferReady' \in BOOLEAN
  /\ \/ Done /\ (block'.number # 0 => block'.processState # 0)
     \/ Uploads
     \/ Stopped
  /\ UNCHANGED <<HiAddress, codeLine, prepareFrame, fileVars>>

LEMMA UploadFirstEnds ==
  ASSUME NEW b \in BlockType, b.processState # 0, UploadFirst(b)
  PROVE  Uploads /\ block' = b /\ UNCHANGED <<DataInBufferReady, prepareFrame>>
<1>1. Ready(b.number) \in {"FLASH_BLOCK_READY", "EEEPROM_BLOCK_READY"}
  BY DEF Ready
<1> QED
  BY <1>1 DEF UploadFirst, Returns, GoTo, Uploads

LEMMA SerialProcessed ==
  ASSUME TypeOK, PacketInv, DataInBuffer, ProcessSerialEEPROM
  PROVE  Processed
<1> DEFINE b == IF Current.number = 0 THEN NewSerialImage ELSE Current
           to == (Address % 32) + 36
           count == codeLine.length \div 2
<1>1. b \in BlockType /\ b.processState # 0
  BY CurrentType, NewSerialType DEF TypeOK, PacketInv, ProcessSerialEEPROM, Processing, BlockType
<1>2. to \in 36 .. 67 /\ count \in 0 .. 29
  BY LineAddress
<1>3. StoreSerial(b) /\ UNCHANGED <<HiAddress, codeLine, fileVars>>
  BY DEF ProcessSerialEEPROM, processFrame
<1>4. CASE b.number # Address \div 32
  <2>1. UploadFirst(b)
    BY <1>3, <1>4 DEF StoreSerial
  <2> QED
    BY <1>1, <1>3, <2>1, UploadFirstEnds DEF Processed, TypeOK, LineTypeOK
<1>5. CASE b.number = Address \div 32
  <2> HIDE DEF b
  <2>1. /\ block' = PutSerial(b, to, count)
        /\ IF block'.overflow
             THEN Returns("EEEPROM_BLOCK_READY") /\ DataInBufferReady' = FALSE
             ELSE NextLine
    BY <1>3, <1>5 DEF StoreSerial
  <2> HIDE DEF to, count
  <2>2. block' \in BlockType /\ block'.processState # 0
    BY <1>1, <1>2, <2>1, PutSerialType
  <2> QED
    BY <1>3, <2>1, <2>2 DEF Returns, GoTo, NextLine, Processed, Done, Uploads
<1> QED
  BY <1>4, <1>5

LEMMA FlashProcessed ==
  ASSUME TypeOK, PacketInv, DataInBuffer, ProcessFlash
  PROVE  Processed
<1> DEFINE b == Current
           to == DestinationIndex
           count == DataCounter
<1>1. b \in BlockType /\ (b.number # 0 => b.processState # 0)
  BY CurrentType DEF TypeOK, PacketInv, ProcessFlash, Processing, BlockType
<1>2. to \in 2 .. 66 /\ count \in 0 .. 58
  BY FlashPlace DEF ProcessFlash
<1>3. StoreFlash(b, to, count) /\ UNCHANGED <<HiAddress, codeLine, fileVars>>
  BY DEF ProcessFlash, processFrame
<1> HIDE DEF b, to, count
<1>4. \/ Returns("ERROR") /\ block' = b /\ UNCHANGED DataInBufferReady
      \/ b.number # 0 /\ UploadFirst(b)
      \/ block' = PutFlash(b, to, count) /\ NextLine
  BY <1>3 DEF StoreFlash
<1>5. CASE Returns("ERROR") /\ block' = b /\ UNCHANGED DataInBufferReady
  BY <1>1, <1>3, <1>5 DEF Returns, GoTo, Processed, Stopped, TypeOK, LineTypeOK
<1>6. CASE b.number # 0 /\ UploadFirst(b)
  BY <1>1, <1>3, <1>6, UploadFirstEnds DEF Processed, TypeOK, LineTypeOK
<1>7. CASE block' = PutFlash(b, to, count) /\ NextLine
  <2>1. block' \in BlockType /\ block'.processState # 0
    <3>1. PutFlash(b, to, count) \in BlockType /\ PutFlash(b, to, count).processState = 2
      BY <1>1, <1>2, PutFlashType, Zenon
    <3> QED
      BY <1>7, <3>1
  <2> QED
    BY <1>3, <1>7, <2>1 DEF NextLine, GoTo, Processed, Done
<1> QED
  BY <1>4, <1>5, <1>6, <1>7

LEMMA InternalProcessed ==
  ASSUME TypeOK, PacketInv, DataInBuffer, ProcessInternalEEPROM
  PROVE  Processed
<1> DEFINE b == Current
           count == codeLine.length \div 2
<1>1. b \in BlockType /\ (b.number # 0 => b.processState # 0)
  BY CurrentType DEF TypeOK, PacketInv, ProcessInternalEEPROM, Processing, BlockType
<1>2. count \in 0 .. 29
  BY LineAddress
<1>3. StoreInternal(b, count) /\ UNCHANGED <<HiAddress, codeLine, fileVars>>
  BY DEF ProcessInternalEEPROM, processFrame
<1> HIDE DEF b, count
<1>4. CASE b.number # 0
  <2>1. UploadFirst(b)
    BY <1>3, <1>4 DEF StoreInternal
  <2> QED
    BY <1>1, <1>3, <1>4, <2>1, UploadFirstEnds DEF Processed, TypeOK, LineTypeOK
<1>5. CASE /\ Returns("ERROR") /\ UNCHANGED DataInBufferReady
           /\ block' = [b EXCEPT !.image[0] = Lo(Address), !.image[1] = count]
  <2>1. Lo(Address) \in Nat /\ count \in Nat
    BY <1>2, LineAddress, LoHiNat
  <2>2. block' \in BlockType
    BY <1>1, <1>5, <2>1 DEF BlockType, Indexes
  <2> QED
    BY <1>3, <1>5, <2>2 DEF Returns, GoTo, Processed, Stopped, TypeOK, LineTypeOK
<1>6. CASE /\ block' = [PutInternal(b, count) EXCEPT !.processState = 1]
           /\ Returns("EEPROM_BLOCK_READY") /\ DataInBufferReady' = FALSE
  <2>1. PutInternal(b, count) \in BlockType
    BY <1>1, <1>2, PutInternalType
  <2>2. block' \in BlockType /\ block'.processState # 0
    BY <1>6, <2>1 DEF BlockType
  <2>3. block'.image[1] <= 32
    <3>1. PutInternal(b, count).image[1] = count
      <4>1. \A i \in Indexes : PutInternal(b, count).image[i] =
              CASE i = 0 -> Lo(Address) [] i = 1 -> count
                [] i - 2 \in 0 .. count - 1 -> WordData(i - 2) [] OTHER -> b.image[i]
        BY <1>1, <1>2, PutInternalType, Zenon
      <4> QED
        BY <1>2, <4>1 DEF Indexes
    <3> QED
      BY <1>2, <1>6, <2>1, <3>1 DEF BlockType
  <2> QED
    BY <1>3, <1>6, <2>2, <2>3 DEF Returns, GoTo, Processed, Uploads
<1> QED
  BY <1>3, <1>4, <1>5, <1>6 DEF StoreInternal

LEMMA ElsewhereProcessed ==
  ASSUME TypeOK, PacketInv, ProcessElsewhere
  PROVE  Processed
BY CurrentType DEF TypeOK, PacketInv, BlockType, ProcessElsewhere, Processing, NextLine, GoTo,
   processFrame, Processed, Done

-----------------------------------------------------------------------------
(* The packets.                                                            *)

(* The first location of the packet in the device.                         *)
First == IF Target = "FLASH" THEN 2 * PacketAddress ELSE PacketAddress

LEMMA PacketType ==
  ASSUME block \in BlockType, pc = "upload", PacketInv
  PROVE  /\ PacketAt \in {0, 34} /\ PacketAddress \in Nat /\ First \in Nat
         /\ DataSize \in Nat /\ DataSize <= 32
         /\ Target \in {"FLASH", "EEEPROM", "EEPROM"}
         /\ DOMAIN Written = {Target} \X (First .. First + DataSize - 1)
         /\ \A n \in First .. First + DataSize - 1 :
              Written[<<Target, n>>] = block.image[PacketAt + 2 + n - First]
<1>1. PacketAt \in {0, 34}
  BY DEF PacketAt
<1>2. \A i \in Indexes : block.image[i] \in Nat
  BY DEF BlockType
<1>3. 1 \in Indexes /\ PacketAt \in Indexes /\ PacketAt + 1 \in Indexes
  BY <1>1 DEF Indexes
<1>4. Target \in {"FLASH", "EEEPROM", "EEPROM"}
  BY DEF Target, PacketInv
<1>5. PacketAddress \in Nat
  BY <1>2, <1>3 DEF PacketAddress
<1>6. First \in Nat
  BY <1>5 DEF First
<1>7. DataSize \in Nat /\ DataSize <= 32
  BY <1>2, <1>3 DEF DataSize, PacketInv
<1>8. Written = [l \in {Target} \X (First .. First + DataSize - 1) |->
                   block.image[PacketAt + 2 + l[2] - First]]
  BY DEF Written, First
<1>9. ASSUME NEW n \in First .. First + DataSize - 1
      PROVE  Written[<<Target, n>>] = block.image[PacketAt + 2 + n - First]
  BY <1>8, <1>9
<1> QED
  BY <1>1, <1>4, <1>5, <1>6, <1>7, <1>8, <1>9

LEMMA StoreType ==
  ASSUME TypeOK, PacketInv, pc = "upload", Store
  PROVE  /\ DOMAIN memory' \subseteq {"FLASH", "EEEPROM", "EEPROM"} \X Nat
         /\ memory' \in [DOMAIN memory' -> Nat]
<1>1. block \in BlockType
  BY DEF TypeOK
<1>2. DOMAIN Written \subseteq {"FLASH", "EEEPROM", "EEPROM"} \X Nat
  BY <1>1, PacketType
<1>3. ASSUME NEW l \in DOMAIN Written
      PROVE  Written[l] \in Nat
  <2>1. PICK n \in First .. First + DataSize - 1 : l = <<Target, n>>
    BY <1>1, <1>3, PacketType
  <2>2. PacketAt + 2 + n - First \in Indexes
    BY <1>1, PacketType DEF Indexes
  <2>3. Written[l] = block.image[PacketAt + 2 + n - First]
    BY <1>1, <2>1, PacketType
  <2> QED
    BY <1>1, <2>2, <2>3 DEF BlockType
<1>4. /\ DOMAIN memory' = DOMAIN Written \cup DOMAIN memory
      /\ \A l \in DOMAIN memory' :
           memory'[l] = IF l \in DOMAIN Written THEN Written[l] ELSE memory[l]
      /\ memory' = [l \in DOMAIN memory' |-> memory'[l]]
  BY DEF Store
<1>5. \A l \in DOMAIN memory' : memory'[l] \in Nat
  BY <1>3, <1>4 DEF TypeOK, MemoryTypeOK
<1> QED
  BY <1>2, <1>4, <1>5 DEF TypeOK, MemoryTypeOK

-----------------------------------------------------------------------------
(* The types, the line in the buffer and the packets.                      *)

LEMMA HexInit == Init => HexInv
<1> SUFFICES ASSUME Init PROVE HexInv
  OBVIOUS
<1> USE DEF Init
<1>1. 0 \in Offsets
  <2> DEFINE most == 65535
  <2>1. most \in Nat
    OBVIOUS
  <2> HIDE DEF most
  <2>2. 0 \in 0 .. most
    BY <2>1
  <2> QED
    BY <2>2 DEF most, Offsets
<1>2. codeLine \in DataLine
  BY <1>1 DEF DataLine, Lengths
<1>3. TypeOK
  <2>1. SessionTypeOK /\ FileTypeOK
    <3>1. 0 \in 0 .. MaxFailures /\ 0 \in 0 .. MaxLines
      BY PgmHexAssumption
    <3>2. records \in Seq([start : Nat, length : Lengths])
      OBVIOUS
    <3> QED
      BY <3>1, <3>2 DEF SessionTypeOK, FileTypeOK
  <2>2. LineTypeOK /\ MemoryTypeOK
    BY <1>2 DEF LineTypeOK, MemoryTypeOK
  <2>3. block \in BlockType
    BY DEF BlockType
  <2> QED
    BY <2>1, <2>2, <2>3 DEF TypeOK
<1>4. BufferInv /\ PacketInv
  BY DEF BufferInv, PacketInv, InBuffer
<1> QED
  BY <1>3, <1>4 DEF HexInv

LEMMA TypesUnchanged ==
  /\ LineTypeOK /\ UNCHANGED <<HiAddress, DataInBufferReady, codeLine>> => LineTypeOK'
  /\ FileTypeOK /\ UNCHANGED fileVars => FileTypeOK'
  /\ MemoryTypeOK /\ UNCHANGED memory => MemoryTypeOK'
BY DEF LineTypeOK, FileTypeOK, MemoryTypeOK, fileVars

LEMMA SessionTypes ==
  ASSUME HexInv, OpenFile \/ Connect \/ EnterProgrammingMode \/ TerminateProgrammingMode
  PROVE  HexInv'
<1> USE DEF HexInv, TypeOK
<1>1. UNCHANGED sessionFrame
  BY DEF OpenFile, Connect, EnterProgrammingMode, TerminateProgrammingMode, Fails, sessionFrame
<1>2. SessionTypeOK'
  <2>1. MaxFailures \in Nat
    BY PgmHexAssumption
  <2>2. failures' \in 0 .. MaxFailures
    BY <2>1 DEF OpenFile, Connect, EnterProgrammingMode, TerminateProgrammingMode, Fails,
                SessionTypeOK
  <2>3. /\ pc' \in {"connect", "enter", "prepare", "done", "crashed"}
        /\ fileOpen' \in BOOLEAN /\ connected' \in BOOLEAN
        /\ mode' \in {"normal", "programming"}
    BY DEF OpenFile, Connect, EnterProgrammingMode, TerminateProgrammingMode, SessionTypeOK
  <2> QED
    BY <1>1, <2>2, <2>3 DEF SessionTypeOK, sessionFrame, readVars
<1>3. /\ pc' \notin {"read", "process", "upload"}
      /\ pc \in {"terminate", "done", "crashed"} => pc' \in {"terminate", "done", "crashed"}
  BY DEF OpenFile, Connect, EnterProgrammingMode, TerminateProgrammingMode
<1>4. BufferInv' /\ PacketInv'
  BY <1>1, <1>3 DEF BufferInv, PacketInv, InBuffer, Last, sessionFrame, readVars, fileVars
<1> QED
  BY <1>1, <1>2, <1>4, TypesUnchanged DEF sessionFrame, readVars

LEMMA PrepareTypes ==
  ASSUME HexInv, Prepare
  PROVE  HexInv'
<1> USE DEF HexInv, TypeOK
<1>1. block' \in BlockType /\ block'.number = 0 /\ block'.overflow = block.overflow
  <2> DEFINE erased == [i \in Indexes |-> IF i % 2 = 0 THEN 255 ELSE 63]
             image  == IF block.overflow THEN block.image ELSE erased
  <2>1. erased \in [Indexes -> Nat]
    OBVIOUS
  <2>2. block' = [block EXCEPT !.image = image, !.number = 0]
    BY DEF Prepare
  <2>3. image \in [Indexes -> Nat]
    <3> HIDE DEF erased
    <3> QED
      BY <2>1 DEF BlockType
  <2> HIDE DEF image
  <2> QED
    BY <2>2, <2>3 DEF BlockType
<1>2. SessionTypeOK'
  BY DEF Prepare, GoTo, prepareFrame, SessionTypeOK
<1>3. UNCHANGED <<HiAddress, DataInBufferReady, codeLine, OpResult, fileVars, memory>>
  BY DEF Prepare, GoTo, prepareFrame
<1>4. BufferInv' /\ PacketInv'
  BY <1>1, <1>3 DEF Prepare, GoTo, BufferInv, PacketInv, InBuffer, Last, fileVars
<1> QED
  BY <1>1, <1>2, <1>3, <1>4, TypesUnchanged

LEMMA EndOfFileTypes ==
  ASSUME HexInv, EndOfFile
  PROVE  HexInv'
<1> USE DEF HexInv, TypeOK
<1>1. /\ block' \in BlockType
      /\ \/ Uploads
         \/ pc' = "terminate" /\ OpResult' = "SUCCESS"
  <2>1. CASE block.number # 0
    BY <2>1 DEF EndOfFile, Returns, GoTo, Ready, Uploads, PacketInv
  <2>2. CASE block.number = 0 /\ block.overflow
    BY <2>2, MovedType DEF EndOfFile, Returns, GoTo, Uploads
  <2>3. CASE block.number = 0 /\ ~block.overflow
    BY <2>3 DEF EndOfFile, Returns, GoTo
  <2> QED
    BY <2>1, <2>2, <2>3
<1>2. /\ lastLine' = "end" /\ ~DataInBufferReady'
      /\ UNCHANGED <<HiAddress, DataInBufferReady, codeLine, records, lines, prepareFrame>>
  BY DEF EndOfFile, Returns, GoTo, BufferInv
<1>3. SessionTypeOK'
  BY <1>1, <1>2 DEF SessionTypeOK, Uploads, prepareFrame
<1>4. FileTypeOK'
  BY <1>2 DEF FileTypeOK
<1>5. BufferInv' /\ PacketInv'
  BY <1>1, <1>2 DEF BufferInv, PacketInv, InBuffer, Uploads
<1> QED
  BY <1>1, <1>2, <1>3, <1>4, <1>5, TypesUnchanged DEF prepareFrame

LEMMA RecordedType ==
  ASSUME TypeOK, NEW line \in DataLine \cup AddressLine \cup OtherLine, Recorded(line)
  PROVE  /\ records' \in Seq(RecordType)
         /\ line.kind = "data" =>
              /\ records' # <<>>
              /\ records'[Len(records')] =
                   [start |-> HiAddress + line.address, length |-> line.length]
<1>0. HiAddress \in Nat /\ records \in Seq(RecordType)
  BY DEF TypeOK, LineTypeOK, FileTypeOK, RecordType
<1>1. CASE line.kind # "data"
  BY <1>0, <1>1 DEF Recorded
<1>2. CASE line.kind = "data"
  <2>1. line \in DataLine
    BY <1>2 DEF AddressLine, OtherLine
  <2>2. line.address \in Offsets /\ line.length \in Lengths
    BY <2>1 DEF DataLine
  <2>3. line.address \in Nat
    BY <2>2, OffsetsAndLengths
  <2> DEFINE record == [start |-> HiAddress + line.address, length |-> line.length]
  <2>4. record \in RecordType
    BY <1>0, <2>2, <2>3 DEF RecordType
  <2>5. records' = Append(records, record)
    BY <1>2 DEF Recorded
  <2> HIDE DEF record
  <2>6. records' \in Seq(RecordType) /\ records' # <<>> /\ records'[Len(records')] = record
    BY <1>0, <2>4, <2>5
  <2> QED
    BY <2>6 DEF record
<1> QED
  BY <1>1, <1>2

LEMMA ReadTypes ==
  ASSUME HexInv, ReadBadLine \/ ReadEmptyLine \/ ReadLine
  PROVE  HexInv'
<1> USE DEF HexInv, TypeOK
<1>1. UNCHANGED <<HiAddress, block, prepareFrame>> /\ pc = "read"
  BY DEF ReadBadLine, ReadEmptyLine, ReadLine, Returns, GoTo
<1>2. CASE ReadBadLine
  <2>1. SessionTypeOK'
    BY <1>1, <1>2 DEF ReadBadLine, Returns, GoTo, SessionTypeOK, prepareFrame
  <2>2. FileTypeOK'
    BY <1>2, PgmHexAssumption DEF ReadBadLine, FileTypeOK
  <2>3. BufferInv' /\ PacketInv'
    BY <1>1, <1>2 DEF ReadBadLine, Returns, GoTo, BufferInv, PacketInv, InBuffer
  <2> QED
    BY <1>1, <1>2, <2>1, <2>2, <2>3, TypesUnchanged DEF ReadBadLine, prepareFrame
<1>3. CASE ReadEmptyLine \/ ReadLine
  <2>1. /\ codeLine' \in DataLine \cup AddressLine \cup OtherLine
        /\ Recorded(codeLine')
        /\ lastLine' \in {"empty", "data", "address", "other"}
    <3>1. CASE ReadEmptyLine
      BY <3>1 DEF ReadEmptyLine, GoTo, LineTypeOK, Recorded
    <3>2. CASE ReadLine
      <4>1. codeLine' \in DataLine \cup AddressLine \cup OtherLine
        BY <3>2, PgmHexAssumption DEF ReadLine
      <4>2. codeLine'.kind \in {"data", "address", "other"}
        BY <4>1 DEF DataLine, AddressLine, OtherLine
      <4> QED
        BY <3>2, <4>1, <4>2 DEF ReadLine
    <3> QED
      BY <1>3, <3>1, <3>2
  <2>2. /\ lines < MaxLines /\ lines' = lines + 1
        /\ DataInBufferReady' = TRUE /\ pc' = "process" /\ UNCHANGED OpResult
    BY <1>3 DEF ReadEmptyLine, ReadLine, GoTo
  <2>3. /\ records' \in Seq(RecordType)
        /\ codeLine'.kind = "data" =>
             /\ records' # <<>>
             /\ records'[Len(records')] =
                  [start |-> HiAddress + codeLine'.address, length |-> codeLine'.length]
    BY <2>1, RecordedType
  <2>4. SessionTypeOK'
    BY <1>1, <2>2 DEF SessionTypeOK, prepareFrame
  <2>5. FileTypeOK'
    BY <2>1, <2>2, <2>3, PgmHexAssumption DEF FileTypeOK, RecordType
  <2>6. LineTypeOK'
    BY <1>1, <2>1, <2>2 DEF LineTypeOK
  <2>7. BufferInv' /\ PacketInv'
    BY <1>1, <2>1, <2>2, <2>3 DEF BufferInv, PacketInv, InBuffer, Last
  <2> QED
    BY <1>1, <2>4, <2>5, <2>6, <2>7, TypesUnchanged DEF prepareFrame
<1> QED
  BY <1>2, <1>3

ProcessData ==
  ProcessSerialEEPROM \/ ProcessFlash \/ ProcessInternalEEPROM \/ ProcessElsewhere

LEMMA ProcessDataLine ==
  ASSUME TypeOK, ProcessData
  PROVE  DataInBuffer /\ pc = "process"
BY DEF ProcessData, ProcessSerialEEPROM, ProcessFlash, ProcessInternalEEPROM, ProcessElsewhere,
       Processing, TypeOK, LineTypeOK, AddressLine, OtherLine, DataInBuffer

LEMMA DataProcessed ==
  ASSUME TypeOK, PacketInv, ProcessData
  PROVE  Processed
BY ProcessDataLine, SerialProcessed, FlashProcessed, InternalProcessed, ElsewhereProcessed
   DEF ProcessData

LEMMA ProcessTypes ==
  ASSUME HexInv, Process
  PROVE  HexInv'
<1> USE DEF HexInv, TypeOK
<1>1. ASSUME Processed, pc = "process"
      PROVE  HexInv'
  <2>1. /\ UNCHANGED <<HiAddress, codeLine, prepareFrame, fileVars>>
        /\ block' \in BlockType /\ DataInBufferReady' \in BOOLEAN
        /\ \/ pc' = "read" /\ ~DataInBufferReady' /\ OpResult' = OpResult
              /\ (block'.number # 0 => block'.processState # 0)
           \/ /\ pc' = "upload" /\ block'.processState # 0
              /\ OpResult' \in {"FLASH_BLOCK_READY", "EEEPROM_BLOCK_READY", "EEPROM_BLOCK_READY"}
              /\ OpResult' = "EEPROM_BLOCK_READY" => block'.image[1] <= 32
           \/ pc' = "terminate" /\ OpResult' = "ERROR"
    BY <1>1 DEF Processed, Done, Uploads, Stopped
  <2>2. SessionTypeOK'
    BY <2>1 DEF SessionTypeOK, prepareFrame
  <2>3. LineTypeOK'
    BY <2>1 DEF LineTypeOK
  <2>4. BufferInv'
    BY <1>1, <2>1 DEF BufferInv, InBuffer, Last, fileVars
  <2>5. PacketInv'
    BY <1>1, <2>1 DEF PacketInv
  <2> QED
    BY <2>1, <2>2, <2>3, <2>4, <2>5, TypesUnchanged DEF prepareFrame
<1>2. CASE ProcessExtendedAddress \/ ProcessOther
  <2>1. /\ pc = "process" /\ pc' = "read" /\ DataInBufferReady' = FALSE
        /\ UNCHANGED <<block, codeLine, fileVars, prepareFrame, OpResult>>
    BY <1>2 DEF ProcessExtendedAddress, ProcessOther, Processing, NextLine, GoTo, processFrame
  <2>2. HiAddress' \in Nat
    <3>1. CASE ProcessExtendedAddress
      BY <3>1 DEF ProcessExtendedAddress, Processing, LineTypeOK, DataLine, AddressLine, OtherLine
    <3>2. CASE ProcessOther
      BY <3>2 DEF ProcessOther, LineTypeOK
    <3> QED
      BY <1>2, <3>1, <3>2
  <2>3. SessionTypeOK'
    BY <2>1 DEF SessionTypeOK, prepareFrame
  <2>4. LineTypeOK'
    BY <2>1, <2>2 DEF LineTypeOK
  <2>5. BufferInv' /\ PacketInv'
    BY <2>1 DEF BufferInv, PacketInv, InBuffer, fileVars
  <2> QED
    BY <2>1, <2>3, <2>4, <2>5, TypesUnchanged DEF prepareFrame
<1>3. CASE ProcessData
  BY <1>1, <1>3, ProcessDataLine, DataProcessed
<1> QED
  BY <1>2, <1>3 DEF Process, ProcessData

(* The image after a packet: one packet less, and no count of data left.   *)
LEMMA NextPacketType ==
  ASSUME block \in BlockType, PacketInv, pc = "upload", NextPacket
  PROVE  /\ block' \in BlockType
         /\ block'.processState = block.processState - 1
         /\ block'.number = block.number /\ block'.overflow = block.overflow
         /\ \A i \in Indexes :
              block'.image[i] = IF i = 1 /\ Target = "EEPROM" THEN 0 ELSE block.image[i]
         /\ pc' = IF block.processState = 1 THEN "prepare" ELSE "upload"
<1> DEFINE state == block.processState - 1
           first == IF Target = "EEPROM" THEN 0 ELSE block.image[1]
<1>1. state \in 0 .. 2
  BY DEF BlockType, PacketInv
<1>2. first \in Nat
  BY DEF BlockType, Indexes
<1>3. block' = [block EXCEPT !.processState = state, !.image[1] = first]
  BY DEF NextPacket, BlockType, Indexes
<1>4. \A i \in Indexes :
        [block.image EXCEPT ![1] = first][i] =
          IF i = 1 /\ Target = "EEPROM" THEN 0 ELSE block.image[i]
  BY DEF BlockType
<1> HIDE DEF state, first
<1>5. /\ block' \in BlockType /\ block'.processState = state
      /\ block'.number = block.number /\ block'.overflow = block.overflow
      /\ block'.image = [block.image EXCEPT ![1] = first]
  BY <1>1, <1>2, <1>3 DEF BlockType, Indexes
<1> QED
  BY <1>4, <1>5 DEF NextPacket, state

LEMMA UploadTypes ==
  ASSUME HexInv, Upload \/ UploadFails \/ UploadCrashes
  PROVE  HexInv'
<1> USE DEF HexInv, TypeOK
<1>0. MaxFailures \in Nat
  BY PgmHexAssumption
<1>1. CASE Upload \/ UploadFails
  <2>1. /\ NextPacket /\ pc = "upload" /\ UNCHANGED uploadFrame
        /\ UNCHANGED memory \/ Store
    BY <1>1 DEF Upload, UploadFails
  <2>2. failures' \in 0 .. MaxFailures
    BY <1>0, <1>1 DEF Upload, UploadFails, SessionTypeOK
  <2>3. SessionTypeOK'
    BY <2>1, <2>2 DEF SessionTypeOK, uploadFrame, NextPacket
  <2>4. MemoryTypeOK'
    BY <2>1, StoreType, TypesUnchanged DEF MemoryTypeOK
  <2>5. /\ block' \in BlockType
        /\ block'.processState = block.processState - 1
        /\ block'.image[1] = IF Target = "EEPROM" THEN 0 ELSE block.image[1]
        /\ pc' = IF block.processState = 1 THEN "prepare" ELSE "upload"
    BY <2>1, NextPacketType DEF Indexes
  <2>6. block.processState \in 1 .. 2 /\ block.image[1] \in Nat
    BY <2>1 DEF PacketInv, BlockType, Indexes
  <2>7. BufferInv'
    BY <2>1, <2>5 DEF BufferInv, InBuffer, Last, uploadFrame, fileVars
  <2>8. PacketInv'
    BY <2>1, <2>5, <2>6 DEF PacketInv, uploadFrame
  <2> QED
    BY <2>1, <2>3, <2>4, <2>5, <2>7, <2>8, TypesUnchanged DEF uploadFrame, fileVars
<1>2. CASE UploadCrashes
  <2>1. SessionTypeOK'
    BY <1>0, <1>2 DEF UploadCrashes, Fails, SessionTypeOK, uploadFrame
  <2>2. BufferInv' /\ PacketInv'
    BY <1>2 DEF UploadCrashes, BufferInv, PacketInv, InBuffer, Last, uploadFrame, fileVars
  <2> QED
    BY <1>2, <2>1, <2>2, TypesUnchanged DEF UploadCrashes, uploadFrame, fileVars
<1> QED
  BY <1>1, <1>2

LEMMA HexSteps == HexInv /\ [Next]_vars => HexInv'
<1> SUFFICES ASSUME HexInv, [Next]_vars PROVE HexInv'
  OBVIOUS
<1>1. CASE UNCHANGED vars
  BY <1>1 DEF vars, readVars, fileVars, HexInv, TypeOK, SessionTypeOK, LineTypeOK, FileTypeOK,
              MemoryTypeOK, BufferInv, PacketInv, InBuffer, Last
<1> QED
  BY <1>1, SessionTypes, PrepareTypes, EndOfFileTypes, ReadTypes, ProcessTypes, UploadTypes
     DEF Next, Step

(* Everything the programmer keeps has its type: the image never holds     *)
(* anything but bytes, the line buffer always a decoded line, and an image *)
(* is uploaded in one or two packets (PREPARE_MEM_BLOCK).                  *)
THEOREM HexTypes == Spec => []TypeOK
<1>1. Spec => []HexInv
  BY HexInit, HexSteps, PTL DEF Spec
<1>2. HexInv => TypeOK
  BY DEF HexInv
<1> QED
  BY <1>1, <1>2, PTL

-----------------------------------------------------------------------------
(* Why the program gives up.                                               *)

LEMMA LastRecord ==
  ASSUME HexInv, DataInBuffer, pc = "process"
  PROVE  /\ records # <<>> /\ Last \in RecordType
         /\ Last.start = HiAddress + codeLine.address /\ Last.length = codeLine.length
         /\ Address = Word(Last.start) % 65536
         /\ End(Last) = Last.start + codeLine.length
<1>1. InBuffer
  BY LineAddress DEF HexInv, BufferInv, InBuffer
<1>2. records \in Seq(RecordType)
  BY DEF HexInv, TypeOK, FileTypeOK, RecordType
<1>3. /\ records # <<>>
      /\ Last = [start |-> HiAddress + codeLine.address, length |-> codeLine.length]
  BY <1>1 DEF HexInv, BufferInv
<1>4. Len(records) \in 1 .. Len(records)
  BY <1>2, <1>3
<1>5. Last \in RecordType
  BY <1>2, <1>4 DEF Last
<1> QED
  BY <1>3, <1>5 DEF Address, Word, End

(* A record of words that do not fit the rest of its block of 32.          *)
LEMMA OutOfBlock ==
  ASSUME NEW start \in Nat, NEW length \in Nat, NEW w \in Nat, w = Word(start) % 32,
         2 * w + length > 64
  PROVE  Word(start) \div 32 # Word((start + length) - 1) \div 32
<1> DEFINE q == Word(start) \div 32
<1>1. q \in Nat /\ Word(start) = 32 * q + w
  BY DEF Word
<1>2. start >= 2 * Word(start)
  BY DEF Word
<1> HIDE DEF q
<1>3. (start + length) - 1 >= 64 * q + 64
  BY <1>1, <1>2 DEF Word
<1>4. Word((start + length) - 1) >= 32 * q + 32
  BY <1>1, <1>3 DEF Word
<1>5. Word((start + length) - 1) \div 32 >= q + 1
  BY <1>1, <1>4 DEF Word
<1> QED
  BY <1>1, <1>5 DEF q, Word

LEMMA FlashStops ==
  ASSUME HexInv, ProcessFlash, OpResult' = "ERROR"
  PROVE  Word(Last.start) \div 32 # Word(End(Last) - 1) \div 32
<1>1. DataInBuffer /\ pc = "process" /\ OpResult # "ERROR"
  BY ProcessDataLine DEF HexInv, PacketInv, ProcessData
<1>2. DestinationIndex \in 2 .. 66 /\ DataCounter \in 0 .. 58
  BY <1>1, FlashPlace DEF ProcessFlash
<1>3. DestinationIndex + DataCounter > 68
  <2> SUFFICES ASSUME ~(DestinationIndex + DataCounter > 68) PROVE FALSE
    OBVIOUS
  <2>1. UploadFirst(Current) \/ NextLine
    BY ImageSize DEF ProcessFlash, StoreFlash
  <2>2. UploadFirst(Current) => OpResult' # "ERROR"
    BY DEF UploadFirst, Returns, Ready
  <2>3. NextLine => OpResult' # "ERROR"
    BY <1>1 DEF NextLine
  <2> QED
    BY <2>1, <2>2, <2>3
<1> DEFINE w == Word(Last.start) % 32
<1>4. w \in Nat /\ Address % 32 = w
  BY <1>1, LastRecord DEF RecordType, Word
<1>5. DataCounter <= codeLine.length
  <2>1. Address \in Nat /\ codeLine.length \in 0 .. 58
    BY <1>1, LineAddress
  <2>2. DataCounter = codeLine.length
          \/ DataCounter <= 2 * (codeLine.length \div 2)
    BY <2>1 DEF DataCounter, IQRF_MAIN_MEM_MAX_ADR, IQRF_LICENCED_MEM_MAX_ADR
  <2> QED
    BY <1>2, <2>1, <2>2
<1>6. 2 * w + codeLine.length > 64
  <2>1. DestinationIndex = 2 * w + (IF w < 16 THEN 2 ELSE 4)
    BY <1>4 DEF DestinationIndex
  <2> HIDE DEF w
  <2> QED
    BY <1>1, <1>2, <1>3, <1>4, <1>5, <2>1, LineAddress
<1>7. Last.start \in Nat /\ codeLine.length \in Nat
  <2>1. Last \in RecordType
    BY <1>1, LastRecord
  <2>2. codeLine.length \in 0 .. 58
    BY <1>1, LineAddress
  <2> QED
    BY <2>1, <2>2 DEF RecordType
<1>8. Word(Last.start) \div 32 # Word((Last.start + codeLine.length) - 1) \div 32
  BY <1>4, <1>6, <1>7, OutOfBlock
<1>9. End(Last) = Last.start + codeLine.length
  BY <1>1, LastRecord
<1> QED
  BY <1>8, <1>9, Zenon

(* The last byte of a record that goes beyond a bound of the address,      *)
(* counted in words.                                                       *)
LEMMA BeyondBound ==
  ASSUME NEW start \in Nat, NEW length \in Nat, length <= 58, NEW address \in Nat,
         address = (start \div 2) % 65536, address <= 61695,
         NEW bound \in Nat, address + (length \div 2) > bound
  PROVE  (((start + length) - 1) \div 2) % 65536 >= bound
<1> DEFINE w == start \div 2
           q == w \div 65536
           e == ((start + length) - 1) \div 2
<1>1. w \in Nat /\ start >= 2 * w /\ start <= 2 * w + 1
  OBVIOUS
<1>2. length >= 2 * (length \div 2) /\ length \div 2 \in Nat
  OBVIOUS
<1>3. (start + length) - 1 >= 2 * (w + (length \div 2)) - 1 /\ (start + length) - 1 <= 2 * w + 58
  BY <1>1, <1>2
<1>4. e \in Int /\ e >= w + (length \div 2) - 1 /\ e <= w + 29
  BY <1>1, <1>2, <1>3
<1>5. q \in Nat /\ w = 65536 * q + address
  <2> HIDE DEF w
  <2>1. address = w % 65536
    BY DEF w
  <2> QED
    BY <1>1, <2>1
<1> HIDE DEF w, q, e
<1> DEFINE m == e - 65536 * q
<1>6. m \in Int /\ m >= address + (length \div 2) - 1 /\ m <= address + 29
  BY <1>2, <1>4, <1>5
<1>7. m >= bound /\ m <= 61724
  BY <1>2, <1>6
<1>8. e = 65536 * q + m
  BY <1>4, <1>5
<1> HIDE DEF m
<1>9. e % 65536 = m
  BY <1>5, <1>6, <1>7, <1>8
<1> QED
  BY <1>7, <1>9 DEF e

LEMMA InternalStops ==
  ASSUME HexInv, ProcessInternalEEPROM, OpResult' = "ERROR"
  PROVE  Word(End(Last) - 1) % 65536 >= PIC16LF1938_EEPROM_MAX
<1> DEFINE count == codeLine.length \div 2
<1>1. DataInBuffer /\ pc = "process" /\ OpResult # "ERROR"
  BY ProcessDataLine DEF HexInv, PacketInv, ProcessData
<1>2. /\ count \in 0 .. 29 /\ codeLine.length \in Nat /\ codeLine.length <= 58
      /\ Address \in Nat
  BY <1>1, LineAddress
<1>3. Address <= 61695
  BY <1>2 DEF ProcessInternalEEPROM, PIC16LF1938_EEPROM, PIC16LF1938_EEPROM_MAX,
              PIC16LF1938_EEPROM_MIN
<1>4. Address + count > PIC16LF1938_EEPROM_MAX
  <2> HIDE DEF count
  <2> SUFFICES ASSUME ~(Address + count > PIC16LF1938_EEPROM_MAX) PROVE FALSE
    OBVIOUS
  <2>1. ~(count > 32)
    BY <1>2
  <2>2. StoreInternal(Current, count)
    BY DEF ProcessInternalEEPROM, count
  <2>3. UploadFirst(Current) \/ Returns("EEPROM_BLOCK_READY")
    BY <2>1, <2>2 DEF StoreInternal
  <2>4. OpResult' # "ERROR"
    BY <2>3 DEF UploadFirst, Returns, Ready
  <2> QED
    BY <2>4
<1>5. Last.start \in Nat /\ Address = (Last.start \div 2) % 65536
  BY <1>1, LastRecord DEF RecordType, Word
<1> DEFINE e == (Last.start + codeLine.length) - 1
           bound == PIC16LF1938_EEPROM_MAX
<1>6. bound = 61695
  BY DEF PIC16LF1938_EEPROM_MAX
<1>7. (e \div 2) % 65536 >= bound
  <2>1. Address + (codeLine.length \div 2) > bound /\ bound \in Nat
    BY <1>4, <1>6
  <2> DEFINE start == Last.start
             length == codeLine.length
             address == Address
  <2>2. /\ start \in Nat /\ length \in Nat /\ length <= 58 /\ address \in Nat
        /\ address = (start \div 2) % 65536 /\ address <= 61695
        /\ address + (length \div 2) > bound
    BY <1>2, <1>3, <1>5, <2>1
  <2> HIDE DEF bound, start, length, address, count
  <2>3. (((start + length) - 1) \div 2) % 65536 >= bound
    BY <2>1, <2>2, BeyondBound
  <2> QED
    BY <2>3 DEF start, length, bound
<1>8. End(Last) - 1 = e
  <2>1. End(Last) = Last.start + codeLine.length
    BY <1>1, LastRecord
  <2> QED
    BY <2>1, Zenon
<1> HIDE DEF e
<1>9. Word(End(Last) - 1) = e \div 2
  BY <1>8, Zenon DEF Word
<1> QED
  BY <1>7, <1>9

(* A line of any other kind never makes the program give up.               *)
LEMMA ElsewhereGoesOn ==
  ASSUME HexInv, ProcessSerialEEPROM \/ ProcessElsewhere \/ ProcessExtendedAddress \/ ProcessOther
  PROVE  OpResult' # "ERROR"
<1>1. pc = "process" /\ OpResult # "ERROR"
  BY DEF HexInv, PacketInv, ProcessSerialEEPROM, ProcessElsewhere, ProcessExtendedAddress,
         ProcessOther, Processing
<1>2. CASE ProcessSerialEEPROM
  <2>1. \/ \E b \in {NewSerialImage, Current} : UploadFirst(b)
        \/ Returns("EEEPROM_BLOCK_READY") \/ NextLine
    BY <1>2 DEF ProcessSerialEEPROM, StoreSerial
  <2> QED
    BY <1>1, <2>1 DEF UploadFirst, Returns, Ready, NextLine
<1> QED
  BY <1>1, <1>2 DEF ProcessElsewhere, ProcessExtendedAddress, ProcessOther, NextLine

(* The last record and the last line tell why.                             *)
Explained ==
  \/ lastLine = "bad"
  \/ Word(Last.start) \div 32 # Word(End(Last) - 1) \div 32
  \/ Word(End(Last) - 1) % 65536 >= PIC16LF1938_EEPROM_MAX

LEMMA ProcessStops ==
  ASSUME HexInv, Process, OpResult' = "ERROR"
  PROVE  Explained'
<1>1. UNCHANGED fileVars
  BY DEF Process, ProcessExtendedAddress, ProcessOther, ProcessSerialEEPROM, ProcessFlash,
         ProcessInternalEEPROM, ProcessElsewhere, processFrame
<1>2. Explained
  BY FlashStops, InternalStops, ElsewhereGoesOn DEF Process, Explained
<1> QED
  BY <1>1, <1>2 DEF Explained, Last, fileVars

LEMMA StopSteps == HexInv /\ StopExplained /\ [Next]_vars => StopExplained'
<1> SUFFICES ASSUME HexInv, OpResult = "ERROR" => Explained, [Next]_vars, OpResult' = "ERROR"
             PROVE  Explained'
  BY DEF StopExplained, Explained, Last
<1>1. CASE Process
  BY <1>1, ProcessStops
<1>2. CASE ReadBadLine
  BY <1>2 DEF ReadBadLine, Explained
<1>3. CASE EndOfFile
  BY <1>3 DEF EndOfFile, Returns, Ready
<1>4. CASE Prepare \/ ReadEmptyLine \/ ReadLine \/ Upload \/ UploadFails \/ UploadCrashes
  <2>1. pc \in {"prepare", "read", "upload"} /\ OpResult' = OpResult
    BY <1>4 DEF Prepare, ReadEmptyLine, ReadLine, Upload, UploadFails, UploadCrashes, uploadFrame
  <2> QED
    BY <2>1 DEF HexInv, PacketInv
<1>5. CASE \/ OpenFile \/ Connect \/ EnterProgrammingMode \/ TerminateProgrammingMode
           \/ UNCHANGED vars
  <2>1. UNCHANGED <<OpResult, fileVars>>
    BY <1>5 DEF OpenFile, Connect, EnterProgrammingMode, TerminateProgrammingMode, vars,
                sessionFrame, readVars
  <2> QED
    BY <2>1 DEF Explained, Last, fileVars
<1> QED
  BY <1>1, <1>2, <1>3, <1>4, <1>5 DEF Next, Step

(* The programmer gives up only at a line it could not read or at a record *)
(* it has no room for, whatever the file (IQRF_PGM_ERROR of                *)
(* iqrfPgmPrepareMemBlock): a record that leaves its flash block, or one   *)
(* that fills the internal EEPROM to its end.                              *)
THEOREM StopIsExplained == Spec => []StopExplained
<1>1. Init => StopExplained
  BY DEF Init, StopExplained
<1>2. Spec => []HexInv
  BY HexInit, HexSteps, PTL DEF Spec
<1> QED
  BY <1>1, <1>2, StopSteps, PTL DEF Spec

-----------------------------------------------------------------------------
(* Where the bytes of a handled record belong.                             *)

LEMMA FlashArea ==
  ASSUME NEW a \in Nat
  PROVE  IsFlash(a) <=> \/ a >= 11264 /\ a <= 14271
                        \/ a >= 14848 /\ a <= 16383
BY SMTT(60) DEF IsFlash, IQRF_MAIN_MEM, IQRF_MAIN_MEM_MIN_ADR, IQRF_MAIN_MEM_MAX_ADR,
       IQRF_LICENCED_MEM, IQRF_LICENCED_MEM_MIN_ADR, IQRF_LICENCED_MEM_MAX_ADR

LEMMA EEPROMAreas ==
  ASSUME NEW a \in Nat
  PROVE  /\ a \in SERIAL_EEPROM <=> a >= 512 /\ a <= 2559
         /\ a \in PIC16LF1938_EEPROM <=> a >= 61440 /\ a <= 61695
BY DEF SERIAL_EEPROM, SERIAL_EEPROM_MIN_ADR, SERIAL_EEPROM_MAX_ADR, PIC16LF1938_EEPROM,
       PIC16LF1938_EEPROM_MIN, PIC16LF1938_EEPROM_MAX

LEMMA Places ==
  ASSUME NEW b \in Nat
  PROVE  /\ IsFlash(Word(b)) => Place(b) = <<"FLASH", b>>
         /\ Word(b) \in SERIAL_EEPROM => Place(b) = <<"EEEPROM", Word(b) - 512>>
         /\ Word(b) \in PIC16LF1938_EEPROM => Place(b) = <<"EEPROM", Word(b) - 61440>>
         /\ Place(b)[1] = "FLASH" => IsFlash(Word(b))
         /\ Place(b)[1] = "EEEPROM" => Word(b) \in SERIAL_EEPROM
         /\ Place(b)[1] = "EEPROM" => Word(b) \in PIC16LF1938_EEPROM
<1>1. Word(b) \in Nat
  BY DEF Word
<1>2. /\ Word(b) \in SERIAL_EEPROM => ~IsFlash(Word(b)) /\ Word(b) \notin PIC16LF1938_EEPROM
      /\ Word(b) \in PIC16LF1938_EEPROM => ~IsFlash(Word(b))
  BY <1>1, FlashArea, EEPROMAreas
<1> QED
  BY <1>2 DEF Place

(* A line that is processed, when all records are handled ones.            *)
HandledLine == HexInv /\ DataInBuffer /\ pc = "process" /\ Handled

LEMMA LastHandled ==
  ASSUME HandledLine
  PROVE  ~Unhandled(Last)
<1>1. records # <<>> /\ records \in Seq(RecordType)
  BY LastRecord DEF HandledLine, HexInv, TypeOK, FileTypeOK, RecordType
<1>2. Len(records) \in DOMAIN records
  BY <1>1
<1> QED
  BY <1>2 DEF HandledLine, Handled, Last

(* The line is of whole words, at the address the program takes for it.    *)
LEMMA LineStart ==
  ASSUME HandledLine, Address # 0 \/ codeLine.length # 0
  PROVE  /\ Last.start = 2 * Address /\ HiAddress + codeLine.address = 2 * Address
         /\ codeLine.length = 2 * (codeLine.length \div 2)
         /\ End(Last) - 1 = (2 * Address + codeLine.length) - 1
         /\ Address # 0 => End(Last) - 1 \in Nat
<1> DEFINE s == Last.start
           n == codeLine.length
<1>1. s \in Nat /\ n \in 0 .. 58 /\ s = HiAddress + codeLine.address
  BY LastRecord, LineAddress DEF HandledLine, RecordType
<1>2. End(Last) = s + n /\ Last.length = n /\ Address = Word(s) % 65536
  BY LastRecord DEF HandledLine
<1>3. s % 2 # 1 /\ n % 2 # 1 /\ ~(Word(End(Last) - 1) >= 65536)
  BY <1>2, LastHandled DEF Unhandled
<1>4. s % 2 = 0 /\ n % 2 = 0
  BY <1>1, <1>3
<1> DEFINE w == s \div 2
           c == n \div 2
<1>5. s = 2 * w /\ n = 2 * c /\ w \in Nat /\ c \in Nat
  BY <1>1, <1>4
<1>6. Address = w % 65536 /\ (End(Last) - 1) \div 2 < 65536
  <2>1. (End(Last) - 1) \div 2 \in Int
    BY <1>1, <1>2
  <2> QED
    BY <1>2, <1>3, <2>1 DEF Word
<1> HIDE DEF s, n, w, c
<1>7. (2 * w + 2 * c - 1) \div 2 < 65536
  BY <1>2, <1>5, <1>6
<1>8. w <= 65536
  BY <1>5, <1>7
<1>9. Address = w
  <2>1. w # 65536
    <3>1. CASE Address # 0
      BY <1>6, <3>1
    <3>2. CASE codeLine.length # 0
      BY <1>5, <1>7, <3>2 DEF n
    <3> QED
      BY <3>1, <3>2
  <2> QED
    BY <1>5, <1>6, <1>8, <2>1
<1>10. Last.start = 2 * Address /\ End(Last) - 1 = (2 * Address + n) - 1
       /\ HiAddress + codeLine.address = 2 * Address /\ n = 2 * c
  BY <1>1, <1>2, <1>5, <1>9 DEF s
<1>11. Address # 0 => End(Last) - 1 \in Nat
  BY <1>1, <1>5, <1>9, <1>10
<1> QED
  BY <1>10, <1>11 DEF n, c

(* The whole of the line is where its first byte is.                       *)
LEMMA LineEnd ==
  ASSUME HandledLine, codeLine.length # 0
  PROVE  LET last == (Address + (codeLine.length \div 2)) - 1 IN
           /\ last \in Nat
           /\ IsFlash(Address) <=> IsFlash(last)
           /\ Address \in SERIAL_EEPROM <=> last \in SERIAL_EEPROM
           /\ Address \in PIC16LF1938_EEPROM <=> last \in PIC16LF1938_EEPROM
<1> DEFINE c == codeLine.length \div 2
           last == (Address + c) - 1
           e == End(Last) - 1
<1>1. Address \in Nat /\ codeLine.length \in 0 .. 58
  BY LineAddress DEF HandledLine
<1>2. CASE Address = 0
  <2>1. last \in Nat
    <3>1. codeLine.length % 2 # 1
      BY LastHandled, LastRecord DEF HandledLine, Unhandled
    <3> QED
      BY <1>1, <3>1
  <2>2. ~IsFlash(Address) /\ Address \notin SERIAL_EEPROM /\ Address \notin PIC16LF1938_EEPROM
    BY <1>2, FlashArea, EEPROMAreas
  <2>3. last <= 28
    BY <1>1, <1>2
  <2>4. ~IsFlash(last) /\ last \notin SERIAL_EEPROM /\ last \notin PIC16LF1938_EEPROM
    BY <2>1, <2>3, FlashArea, EEPROMAreas
  <2> QED
    BY <2>1, <2>2, <2>4
<1>3. CASE Address # 0
  <2>1. /\ Last.start = 2 * Address /\ codeLine.length = 2 * c
        /\ e = (2 * Address + codeLine.length) - 1
    BY <1>3, LineStart
  <2>2. c \in Nat /\ c # 0 /\ last \in Nat /\ e \in Nat
    BY <1>1, <2>1
  <2>3. Word(e) = last
    <3>1. e = 2 * last + 1
      BY <1>1, <2>1, <2>2
    <3> HIDE DEF last, e
    <3> QED
      BY <2>2, <3>1 DEF Word
  <2>4. Word(Last.start) = Address /\ Last.start \in Nat
    <3>1. (2 * Address) \div 2 = Address
      BY <1>1
    <3> QED
      BY <1>1, <2>1, <3>1 DEF Word
  <2>5. Place(Last.start)[1] = Place(e)[1]
    BY LastHandled DEF Unhandled
  <2> HIDE DEF last, e, c
  <2>6. IsFlash(Address) <=> IsFlash(last)
    <3>1. IsFlash(Address) <=> Place(Last.start)[1] = "FLASH"
      BY <2>4, Places
    <3>2. Place(e)[1] = "FLASH" <=> IsFlash(last)
      BY <2>2, <2>3, Places
    <3> QED
      BY <2>5, <3>1, <3>2
  <2>7. Address \in SERIAL_EEPROM <=> last \in SERIAL_EEPROM
    <3>1. Address \in SERIAL_EEPROM <=> Place(Last.start)[1] = "EEEPROM"
      BY <2>4, Places
    <3>2. Place(e)[1] = "EEEPROM" <=> last \in SERIAL_EEPROM
      BY <2>2, <2>3, Places
    <3> QED
      BY <2>5, <3>1, <3>2
  <2>8. Address \in PIC16LF1938_EEPROM <=> last \in PIC16LF1938_EEPROM
    <3>1. Address \in PIC16LF1938_EEPROM <=> Place(Last.start)[1] = "EEPROM"
      BY <2>4, Places
    <3>2. Place(e)[1] = "EEPROM" <=> last \in PIC16LF1938_EEPROM
      BY <2>2, <2>3, Places
    <3> QED
      BY <2>5, <3>1, <3>2
  <2> QED
    BY <2>2, <2>6, <2>7, <2>8 DEF last, c
<1> QED
  BY <1>2, <1>3

(* Where a byte of the line belongs: the words of an EEPROM, the bytes of  *)
(* the flash memory.                                                       *)
LEMMA LinePlaces ==
  ASSUME HandledLine, NEW n \in Nat
  PROVE  /\ n < codeLine.length \div 2 /\ Address \in SERIAL_EEPROM =>
              /\ Place(WordData(n) - DataBase) = <<"EEEPROM", (Address + n) - 512>>
              /\ Address + n <= 2559
         /\ n < codeLine.length \div 2 /\ Address \in PIC16LF1938_EEPROM =>
              Place(WordData(n) - DataBase) = <<"EEPROM", (Address + n) - 61440>>
         /\ n < codeLine.length /\ IsFlash(Address) =>
              Place(ByteData(n) - DataBase) = <<"FLASH", 2 * Address + n>>
<1> DEFINE c == codeLine.length \div 2
           last == (Address + c) - 1
<1>1. Address \in Nat /\ codeLine.length \in 0 .. 58
  BY LineAddress DEF HandledLine
<1>2. /\ IsFlash(Address) => Address # 0
      /\ Address \in SERIAL_EEPROM => Address # 0
      /\ Address \in PIC16LF1938_EEPROM => Address # 0
  BY <1>1, FlashArea, EEPROMAreas
<1>3. ASSUME Address # 0
      PROVE  /\ WordData(n) - DataBase = 2 * (Address + n)
             /\ ByteData(n) - DataBase = 2 * Address + n
  <2>1. HiAddress + codeLine.address = 2 * Address
    BY <1>3, LineStart
  <2>2. 2 * Address + 2 * n \in Nat /\ 2 * Address + n \in Nat
    BY <1>1
  <2>3. WordData(n) - DataBase = 2 * Address + 2 * n /\ ByteData(n) - DataBase = 2 * Address + n
    BY <2>1, <2>2, DataIsData DEF WordData, ByteData
  <2> QED
    BY <1>1, <2>3
<1>4. Word(2 * (Address + n)) = Address + n /\ 2 * (Address + n) \in Nat
  BY <1>1 DEF Word
<1>5. CASE n < c /\ Address \in SERIAL_EEPROM
  <2>1. last \in SERIAL_EEPROM /\ last \in Nat
    BY <1>1, <1>5, LineEnd
  <2>2. Address + n \in SERIAL_EEPROM /\ Address + n <= 2559
    BY <1>1, <1>5, <2>1, EEPROMAreas
  <2>3. Place(2 * (Address + n)) = <<"EEEPROM", (Address + n) - 512>>
    BY <1>4, <2>2, Places
  <2>4. Address \notin PIC16LF1938_EEPROM /\ ~IsFlash(Address)
    BY <1>1, <1>5, FlashArea, EEPROMAreas
  <2> QED
    BY <1>2, <1>3, <1>5, <2>2, <2>3, <2>4
<1>6. CASE n < c /\ Address \in PIC16LF1938_EEPROM
  <2>1. last \in PIC16LF1938_EEPROM /\ last \in Nat
    BY <1>1, <1>6, LineEnd
  <2>2. Address + n \in PIC16LF1938_EEPROM
    BY <1>1, <1>6, <2>1, EEPROMAreas
  <2>3. Place(2 * (Address + n)) = <<"EEPROM", (Address + n) - 61440>>
    BY <1>4, <2>2, Places
  <2>4. Address \notin SERIAL_EEPROM /\ ~IsFlash(Address)
    BY <1>1, <1>6, FlashArea, EEPROMAreas
  <2> QED
    BY <1>2, <1>3, <1>6, <2>2, <2>3, <2>4
<1>7. CASE n < codeLine.length /\ IsFlash(Address)
  <2>1. last \in Nat /\ IsFlash(last) /\ codeLine.length = 2 * c /\ c \in Nat
    BY <1>1, <1>2, <1>7, LineEnd, LineStart
  <2> DEFINE b == 2 * Address + n
  <2>2. b \in Nat /\ Word(b) \in Nat /\ Word(b) >= Address /\ Word(b) <= last /\ Word(b) <= Address + 29
    BY <1>1, <1>7, <2>1 DEF Word
  <2>3. IsFlash(Word(b))
    BY <1>1, <1>7, <2>1, <2>2, FlashArea
  <2>4. Place(b) = <<"FLASH", b>>
    BY <2>2, <2>3, Places
  <2>5. Address \notin SERIAL_EEPROM /\ Address \notin PIC16LF1938_EEPROM
    BY <1>1, <1>7, FlashArea, EEPROMAreas
  <2> QED
    BY <1>2, <1>3, <1>7, <2>4, <2>5
<1> QED
  BY <1>5, <1>6, <1>7

-----------------------------------------------------------------------------
(* The images.                                                             *)

(* The image of the next block, moved to be filled.                        *)
LEMMA MovedImage ==
  ASSUME NEW b \in BlockType, b.overflow, OverflowImage(b)
  PROVE  SerialImage(MoveOverflowedData(b)) /\ ~MoveOverflowedData(b).overflow
<1> DEFINE m == MoveOverflowedData(b)
<1>1. PICK n \in 17 .. 79 : SerialHead(b.image, n)
  BY DEF OverflowImage
<1> DEFINE first == (n - 16) * 32
           next == (n - 15) * 32
<1>2. b.image[0] + 256 * b.image[1] = first /\ Covers(b.image, 0, "EEEPROM", first)
  BY <1>1 DEF SerialHead, At
<1>3. first \in Nat /\ next \in Nat /\ next < 65536 /\ first \div 32 = n - 16
      /\ (n - 16 + 1) * 32 = next /\ next = ((n + 1) - 16) * 32
  OBVIOUS
<1> HIDE DEF first, next
<1>4. /\ m.number = n /\ m.overflow = FALSE /\ m.processState = 1
      /\ m.image = [i \in Indexes |-> IF i >= 34 THEN b.image[i - 34]
                                      ELSE IF i = 0 THEN Lo(next)
                                      ELSE IF i = 1 THEN Hi(next) ELSE 0]
  BY <1>2, <1>3 DEF MoveOverflowedData
<1>5. \A i \in Indexes : m.image[i] = IF i >= 34 THEN b.image[i - 34]
                                      ELSE IF i = 0 THEN Lo(next)
                                      ELSE IF i = 1 THEN Hi(next) ELSE 0
  BY <1>4
<1> HIDE DEF m
<1>6. At(m.image, 34) = first
  BY <1>2, <1>5 DEF At, Indexes
<1>7. At(m.image, 0) = next
  BY <1>3, <1>5, LoHi DEF At, Indexes
<1>8. Covers(m.image, 34, "EEEPROM", first)
  <2> SUFFICES ASSUME NEW i \in 36 .. 67, IsData(m.image[i])
               PROVE  Place(m.image[i] - DataBase) = <<"EEEPROM", first + i - 34 - 2>>
    BY DEF Covers
  <2>1. m.image[i] = b.image[i - 34] /\ i - 34 \in 2 .. 33
    BY <1>5 DEF Indexes
  <2>2. Place(m.image[i] - DataBase) = <<"EEEPROM", first + (i - 34) - 0 - 2>>
    BY <1>2, <2>1 DEF Covers
  <2> QED
    BY <1>3, <2>2
<1>9. Covers(m.image, 0, "EEEPROM", next)
  <2> SUFFICES ASSUME NEW i \in 2 .. 33
               PROVE  ~IsData(m.image[i])
    BY DEF Covers
  <2> QED
    BY <1>5 DEF Indexes, IsData, DataBase
<1>10. SerialHead(m.image, n + 1)
  BY <1>3, <1>7, <1>9 DEF SerialHead
<1>11. SerialImage(m)
  BY <1>4, <1>6, <1>8, <1>10 DEF SerialImage, first
<1> QED
  BY <1>4, <1>11 DEF m

LEMMA CurrentImage ==
  ASSUME block \in BlockType, ReadyImage(block)
  PROVE  ReadyImage(Current) /\ ~Current.overflow
<1>1. CASE block.overflow
  <2>1. OverflowImage(block)
    BY <1>1 DEF ReadyImage, EmptyImage, FlashImage
  <2> QED
    BY <1>1, <2>1, MovedImage DEF Current, ReadyImage
<1>2. CASE ~block.overflow
  BY <1>2 DEF Current
<1> QED
  BY <1>1, <1>2

LEMMA NewSerial ==
  ASSUME DataInBuffer, Address \in SERIAL_EEPROM
  PROVE  SerialImage(NewSerialImage)
<1> DEFINE n == Address \div 32
           first == (n - 16) * 32
           next == first + 32
           zero == [i \in Indexes |-> 0]
           m == NewSerialImage
<1>1. Address \in Nat /\ Address >= 512 /\ Address <= 2559
  BY LineAddress, EEPROMAreas
<1>2. n \in 16 .. 79 /\ ((Address - 512) \div 32) * 32 = first
  BY <1>1
<1>3. first \in Nat /\ first < 65536 /\ next \in Nat /\ next < 65536
      /\ next = ((n + 1) - 16) * 32
  BY <1>2
<1> HIDE DEF first, next, n
<1>4. /\ m.number = n /\ m.overflow = FALSE /\ m.processState = 1
      /\ m.image = WithAddresses(zero, next, first)
  BY <1>2 DEF NewSerialImage, next, n
<1>5. \A i \in Indexes : m.image[i] =
        CASE i = 0  -> Lo(next)  [] i = 1  -> Hi(next)
          [] i = 34 -> Lo(first) [] i = 35 -> Hi(first)
          [] OTHER -> 0
  <2>1. zero \in [Indexes -> Nat] /\ \A i \in Indexes : zero[i] = 0
    OBVIOUS
  <2> HIDE DEF zero
  <2>2. \A i \in Indexes : WithAddresses(zero, next, first)[i] =
          CASE i = 0  -> Lo(next)  [] i = 1  -> Hi(next)
            [] i = 34 -> Lo(first) [] i = 35 -> Hi(first)
            [] OTHER -> zero[i]
    <3>1. zero \in [Indexes -> Nat] /\ next \in Nat /\ first \in Nat
      BY <1>3, <2>1
    <3> QED
      BY <3>1, WithAddressesType, ZenonT(60)
  <2> QED
    BY <1>4, <2>1, <2>2
<1> HIDE DEF m
<1>6. At(m.image, 34) = first /\ At(m.image, 0) = next
  BY <1>3, <1>5, LoHi DEF At, Indexes
<1>7. Covers(m.image, 34, "EEEPROM", first) /\ Covers(m.image, 0, "EEEPROM", next)
  <2>1. \A i \in (2 .. 33) \cup (36 .. 67) : ~IsData(m.image[i])
    BY <1>5 DEF Indexes, IsData, DataBase
  <2> QED
    BY <2>1 DEF Covers
<1>8. SerialHead(m.image, n + 1)
  BY <1>3, <1>6, <1>7 DEF SerialHead
<1>9. SerialImage(m)
  BY <1>2, <1>4, <1>6, <1>7, <1>8 DEF SerialImage, first
<1> QED
  BY <1>9 DEF m

(* Words of the line at their places in the image, and those that do not   *)
(* fit it in the head of the next.                                         *)
LEMMA PutSerialImage ==
  ASSUME HandledLine, Address \in SERIAL_EEPROM,
         NEW b \in BlockType, SerialImage(b), ~b.overflow, b.number = Address \div 32,
         NEW to, to = (Address % 32) + 36, NEW count, count = codeLine.length \div 2
  PROVE  SerialImage(PutSerial(b, to, count))
<1> DEFINE m == PutSerial(b, to, count)
           n == Address \div 32
           w == Address % 32
           first == (n - 16) * 32
           next == ((n + 1) - 16) * 32
<1>1. DataInBuffer /\ Address \in Nat /\ Address >= 512 /\ Address <= 2559 /\ count \in 0 .. 29
  BY LineAddress, EEPROMAreas DEF HandledLine
<1>2. n \in 16 .. 79 /\ w \in 0 .. 31 /\ Address = 32 * n + w /\ to = w + 36
  BY <1>1
<1>3. first \in Nat /\ next = first + 32 /\ Address - 512 = first + w
  BY <1>2
<1> HIDE DEF w, n, first, next
<1>4. /\ m.number = b.number /\ m.processState = b.processState
      /\ m.overflow = (to + count > 68)
      /\ \A i \in Indexes : m.image[i] =
           IF SerialWord(i, to) \in 0 .. count - 1 /\ i # 0 /\ i # 1
             THEN WordData(SerialWord(i, to)) ELSE b.image[i]
  <2>1. DataInBuffer /\ to \in 36 .. 67 /\ count \in 0 .. 29
    BY <1>1, <1>2
  <2> QED
    BY <2>1, PutSerialType, ZenonT(60)
<1> HIDE DEF m
<1>5. b.number = n /\ b.processState = 1 /\ At(b.image, 34) = first /\ At(b.image, 0) = next
      /\ Covers(b.image, 34, "EEEPROM", first) /\ Covers(b.image, 0, "EEEPROM", next)
  BY DEF SerialImage, SerialHead, n, first, next
<1>6. ASSUME NEW i \in Indexes, i # 0, i # 1, SerialWord(i, to) \in 0 .. count - 1
      PROVE  /\ Place(m.image[i] - DataBase) = <<"EEEPROM", first + w + SerialWord(i, to)>>
             /\ first + w + SerialWord(i, to) <= 2047
  <2>1. m.image[i] = WordData(SerialWord(i, to))
    BY <1>4, <1>6
  <2> DEFINE v == SerialWord(i, to)
  <2>2. v \in Nat /\ v < codeLine.length \div 2
    BY <1>1, <1>6
  <2> HIDE DEF v
  <2>3. /\ Place(WordData(v) - DataBase) = <<"EEEPROM", (Address + v) - 512>>
        /\ Address + v <= 2559
    BY <2>2, LinePlaces
  <2>4. (Address + v) - 512 = first + w + v /\ first + w + v <= 2047
    BY <1>1, <1>2, <1>3, <2>2, <2>3
  <2> QED
    BY <2>1, <2>3, <2>4 DEF v
<1>7. At(m.image, 34) = first /\ At(m.image, 0) = next
  <2>1. \A i \in {34, 35} : SerialWord(i, to) \notin 0 .. count - 1
    BY <1>1, <1>2 DEF SerialWord
  <2>2. m.image[0] = b.image[0] /\ m.image[1] = b.image[1]
        /\ m.image[34] = b.image[34] /\ m.image[35] = b.image[35]
    BY <1>4, <2>1 DEF Indexes
  <2> QED
    BY <1>5, <2>2 DEF At
<1>8. Covers(m.image, 34, "EEEPROM", first)
  <2> SUFFICES ASSUME NEW i \in 36 .. 67, IsData(m.image[i])
               PROVE  Place(m.image[i] - DataBase) = <<"EEEPROM", first + i - 34 - 2>>
    BY DEF Covers
  <2>1. CASE SerialWord(i, to) \in 0 .. count - 1
    <3>1. SerialWord(i, to) = i - to
      BY <1>1, <1>2, <2>1 DEF SerialWord
    <3> QED
      BY <1>2, <1>3, <1>6, <2>1, <3>1 DEF Indexes
  <2>2. CASE SerialWord(i, to) \notin 0 .. count - 1
    <3>1. m.image[i] = b.image[i]
      BY <1>4, <2>2 DEF Indexes
    <3> QED
      BY <1>5, <3>1 DEF Covers
  <2> QED
    BY <2>1, <2>2
<1>9. Covers(m.image, 0, "EEEPROM", next)
  <2> SUFFICES ASSUME NEW i \in 2 .. 33, IsData(m.image[i])
               PROVE  Place(m.image[i] - DataBase) = <<"EEEPROM", next + i - 0 - 2>>
    BY DEF Covers
  <2>1. CASE SerialWord(i, to) \in 0 .. count - 1
    <3>1. SerialWord(i, to) = i - 2 + 68 - to
      BY <1>2 DEF SerialWord
    <3>2. w + SerialWord(i, to) = 32 + i - 2
      BY <1>2, <3>1
    <3>3. first + w + SerialWord(i, to) = next + i - 0 - 2
      BY <1>2, <1>3, <3>1
    <3> QED
      BY <1>6, <2>1, <3>3 DEF Indexes
  <2>2. CASE SerialWord(i, to) \notin 0 .. count - 1
    <3>1. m.image[i] = b.image[i]
      BY <1>4, <2>2 DEF Indexes
    <3> QED
      BY <1>5, <3>1 DEF Covers
  <2> QED
    BY <2>1, <2>2
<1>10. m.overflow => n \in 16 .. 78
  <2> SUFFICES ASSUME m.overflow PROVE n \in 16 .. 78
    OBVIOUS
  <2>0. to + count > 68
    BY <1>4
  <2> DEFINE v == count - 1
  <2>1. v \in Nat /\ v < codeLine.length \div 2
    BY <1>1, <1>2, <2>0
  <2> HIDE DEF v
  <2>2. Address + v <= 2559
    BY <2>1, LinePlaces
  <2>3. Address + count <= 2560 /\ w + count > 32
    BY <1>1, <1>2, <2>0, <2>2 DEF v
  <2> QED
    BY <1>1, <1>2, <2>3
<1>11. SerialHead(m.image, n + 1)
  BY <1>7, <1>9 DEF SerialHead, next
<1>12. m.overflow \in BOOLEAN /\ m.number = n /\ m.processState = 1
  BY <1>4, <1>5
<1>13. SerialImage(m)
  BY <1>2, <1>7, <1>8, <1>10, <1>11, <1>12 DEF SerialImage, first
<1> QED
  BY <1>13 DEF m

(* Where the bytes of a line go in the image of a flash block.             *)
LEMMA FlashFits ==
  ASSUME HandledLine, IsFlash(Address), NEW n, n = Address \div 32, NEW w, w = Address % 32
  PROVE  /\ n \in 352 .. 511 /\ w \in 0 .. 31 /\ Address = 32 * n + w
         /\ DestinationIndex = 2 * w + (IF w < 16 THEN 2 ELSE 4)
         /\ DataCounter <= codeLine.length /\ (w < 16 => DestinationIndex + DataCounter <= 34)
<1>1. Address \in Nat /\ DataCounter \in 0 .. 58 /\ codeLine.length \in 0 .. 58
      /\ codeLine.length \div 2 \in 0 .. 29
  BY LineAddress, FlashPlace DEF HandledLine
<1>2. n \in 352 .. 511 /\ w \in 0 .. 31 /\ Address = 32 * n + w
  <2>1. Address >= 11264 /\ Address <= 16383
    BY <1>1, FlashArea
  <2> QED
    BY <1>1, <2>1
<1>3. DestinationIndex = 2 * w + (IF w < 16 THEN 2 ELSE 4)
  BY <1>2 DEF DestinationIndex
<1>4. DataCounter <= codeLine.length
  <2>1. DataCounter = codeLine.length \/ DataCounter <= 2 * (codeLine.length \div 2)
    BY <1>1 DEF DataCounter, IQRF_MAIN_MEM_MAX_ADR, IQRF_LICENCED_MEM_MAX_ADR
  <2> QED
    BY <1>1, <2>1
<1>5. w < 16 => 2 * w + codeLine.length <= 32
  <2>1. Address # 0
    BY <1>2
  <2>2. Last.start = 2 * Address /\ Last.length = codeLine.length
    BY <2>1, LineStart, LastRecord DEF HandledLine
  <2>3. Last.start \in Nat /\ Word(Last.start) = Address
    BY <1>1, <2>2 DEF Word
  <2>4. Place(Last.start)[1] = "FLASH"
    BY <2>3, Places
  <2>5. ~(Word(Last.start) % 32 < 16 /\ (Word(Last.start) % 32) * 2 + Last.length > 32)
    BY <2>4, LastHandled DEF Unhandled
  <2> QED
    BY <1>1, <1>2, <2>2, <2>3, <2>5
<1>6. w < 16 => DestinationIndex + DataCounter <= 34
  <2> DEFINE to == DestinationIndex
             count == DataCounter
  <2>1. to = 2 * w + (IF w < 16 THEN 2 ELSE 4) /\ count \in 0 .. 58 /\ count <= codeLine.length
    BY <1>1, <1>3, <1>4
  <2> HIDE DEF to, count
  <2>2. w < 16 => to + count <= 34
    BY <1>1, <1>2, <1>5, <2>1
  <2> QED
    BY <2>2 DEF to, count
<1> QED
  BY <1>2, <1>3, <1>4, <1>6

(* Bytes of the line at their places in the image of a flash block, the    *)
(* two addresses of which they leave alone.                                *)
LEMMA PutFlashImage ==
  ASSUME HandledLine, IsFlash(Address),
         NEW b \in BlockType, ~b.overflow,
         EmptyImage(b) \/ (FlashImage(b) /\ b.number = Address \div 32)
  PROVE  FlashImage(PutFlash(b, DestinationIndex, DataCounter))
<1> DEFINE to == DestinationIndex
           count == DataCounter
           m == PutFlash(b, to, count)
           n == Address \div 32
           w == Address % 32
           first == n * 32
<1>1. DataInBuffer /\ Address \in Nat /\ to \in 2 .. 66 /\ count \in 0 .. 58
      /\ codeLine.length \in 0 .. 58
  BY LineAddress, FlashPlace DEF HandledLine
<1>2. n \in 352 .. 511 /\ w \in 0 .. 31 /\ Address = 32 * n + w
  BY FlashFits
<1>3. to = 2 * w + (IF w < 16 THEN 2 ELSE 4) /\ count <= codeLine.length
  BY FlashFits
<1>4. w < 16 => to + count <= 34
  BY FlashFits
<1>5. /\ m.number = n /\ m.processState = 2 /\ m.overflow = b.overflow
      /\ \A i \in Indexes : m.image[i] =
           IF i - to \in 0 .. count - 1 THEN ByteData(i - to)
           ELSE WithAddresses(b.image, first, first + 16)[i]
  <2>1. DataInBuffer /\ to \in 2 .. 66 /\ count \in 0 .. 58
    BY <1>1
  <2> HIDE DEF to, count
  <2> QED
    BY <2>1, PutFlashType, ZenonT(60) DEF n, first
<1> HIDE DEF to, count, n, w, m
<1>6. first \in Nat /\ first + 16 \in Nat /\ first < 65536 /\ first + 16 < 65536
  BY <1>2
<1> HIDE DEF first
<1>7. \A i \in Indexes : WithAddresses(b.image, first, first + 16)[i] =
        CASE i = 0  -> Lo(first)      [] i = 1  -> Hi(first)
          [] i = 34 -> Lo(first + 16) [] i = 35 -> Hi(first + 16)
          [] OTHER -> b.image[i]
  <2> DEFINE second == first + 16
  <2>1. b.image \in [Indexes -> Nat] /\ first \in Nat /\ second \in Nat
    BY <1>6 DEF BlockType
  <2> HIDE DEF second
  <2>2. \A i \in Indexes : WithAddresses(b.image, first, second)[i] =
          CASE i = 0  -> Lo(first)  [] i = 1  -> Hi(first)
            [] i = 34 -> Lo(second) [] i = 35 -> Hi(second)
            [] OTHER -> b.image[i]
    BY <2>1, WithAddressesType, ZenonT(60)
  <2> QED
    BY <2>2 DEF second
<1>8. At(m.image, 0) = first /\ At(m.image, 34) = first + 16
  <2>1. \A i \in {0, 1, 34, 35} : i - to \notin 0 .. count - 1
    BY <1>1, <1>2, <1>3, <1>4
  <2>2. /\ m.image[0] = Lo(first) /\ m.image[1] = Hi(first)
        /\ m.image[34] = Lo(first + 16) /\ m.image[35] = Hi(first + 16)
    BY <1>5, <1>7, <2>1 DEF Indexes
  <2> QED
    BY <1>6, <2>2, LoHi DEF At
<1>9. ASSUME NEW i \in Indexes, i - to \in 0 .. count - 1
      PROVE  Place(m.image[i] - DataBase) = <<"FLASH", 2 * Address + (i - to)>>
  <2>1. m.image[i] = ByteData(i - to)
    BY <1>5, <1>9
  <2> DEFINE v == i - to
  <2>2. v \in Nat /\ v < codeLine.length
    BY <1>1, <1>3, <1>9 DEF Indexes
  <2> HIDE DEF v
  <2>3. Place(ByteData(v) - DataBase) = <<"FLASH", 2 * Address + v>>
    BY <2>2, LinePlaces
  <2> QED
    BY <2>1, <2>3 DEF v
<1>10. ASSUME NEW i \in (2 .. 33) \cup (36 .. 67), i - to \notin 0 .. count - 1, IsData(m.image[i])
       PROVE  /\ FlashImage(b) /\ b.number = n
              /\ m.image[i] = b.image[i] /\ IsData(b.image[i])
  <2>1. m.image[i] = b.image[i]
    BY <1>5, <1>7, <1>10 DEF Indexes
  <2> QED
    BY <1>10, <2>1 DEF EmptyImage, Indexes, n
<1>11. Covers(m.image, 0, "FLASH", n * 64)
  <2> SUFFICES ASSUME NEW i \in 2 .. 33, IsData(m.image[i])
               PROVE  Place(m.image[i] - DataBase) = <<"FLASH", n * 64 + i - 0 - 2>>
    BY DEF Covers
  <2>1. CASE i - to \in 0 .. count - 1
    <3>1. 2 * Address + (i - to) = n * 64 + i - 0 - 2
      BY <1>1, <1>2, <1>3, <2>1
    <3> QED
      BY <1>9, <2>1, <3>1 DEF Indexes
  <2>2. CASE i - to \notin 0 .. count - 1
    <3>1. FlashImage(b) /\ b.number = n /\ m.image[i] = b.image[i] /\ IsData(b.image[i])
      BY <1>10, <2>2
    <3> QED
      <4>1. Covers(b.image, 0, "FLASH", n * 64) /\ b.image[i] = m.image[i]
        BY <3>1, Zenon DEF FlashImage
      <4>2. i \in 0 + 2 .. 0 + 33
        OBVIOUS
      <4> QED
        BY <4>1, <4>2, Zenon DEF Covers
  <2> QED
    BY <2>1, <2>2
<1>12. Covers(m.image, 34, "FLASH", n * 64 + 32)
  <2> SUFFICES ASSUME NEW i \in 36 .. 67, IsData(m.image[i])
               PROVE  Place(m.image[i] - DataBase) = <<"FLASH", n * 64 + 32 + i - 34 - 2>>
    BY DEF Covers
  <2>1. CASE i - to \in 0 .. count - 1
    <3>1. 2 * Address + (i - to) = n * 64 + 32 + i - 34 - 2
      BY <1>1, <1>2, <1>3, <1>4, <2>1
    <3> QED
      BY <1>9, <2>1, <3>1 DEF Indexes
  <2>2. CASE i - to \notin 0 .. count - 1
    <3>1. FlashImage(b) /\ b.number = n /\ m.image[i] = b.image[i] /\ IsData(b.image[i])
      BY <1>10, <2>2
    <3> QED
      <4>1. Covers(b.image, 34, "FLASH", n * 64 + 32) /\ b.image[i] = m.image[i]
        BY <3>1, Zenon DEF FlashImage
      <4>2. i \in 34 + 2 .. 34 + 33
        OBVIOUS
      <4> QED
        BY <4>1, <4>2, Zenon DEF Covers
  <2> QED
    BY <2>1, <2>2
<1>13. FlashImage(m)
  BY <1>2, <1>5, <1>8, <1>11, <1>12 DEF FlashImage, first
<1> QED
  BY <1>13 DEF m, to, count

(* The words of one line, the packet of the internal EEPROM.               *)
LEMMA PutInternalImage ==
  ASSUME HandledLine, Address \in PIC16LF1938_EEPROM, NEW b \in BlockType, EmptyImage(b),
         NEW count, count = codeLine.length \div 2
  PROVE  InternalImage([PutInternal(b, count) EXCEPT !.processState = 1])
<1> DEFINE m == PutInternal(b, count)
           p == [m EXCEPT !.processState = 1]
<1>1. DataInBuffer /\ Address \in Nat /\ Address >= 61440 /\ Address <= 61695 /\ count \in 0 .. 29
  BY LineAddress, EEPROMAreas DEF HandledLine
<1>2. Lo(Address) = Address - 61440
  BY <1>1 DEF Lo
<1>3. /\ m \in BlockType /\ m.number = b.number /\ m.overflow = b.overflow
      /\ \A i \in Indexes : m.image[i] =
           CASE i = 0 -> Lo(Address) [] i = 1 -> count
             [] i - 2 \in 0 .. count - 1 -> WordData(i - 2) [] OTHER -> b.image[i]
  <2>1. DataInBuffer /\ count \in 0 .. 29
    BY <1>1
  <2> QED
    BY <2>1, PutInternalType, Zenon
<1> HIDE DEF m
<1>4. /\ p.number = b.number /\ p.overflow = b.overflow /\ p.processState = 1
      /\ p.image = m.image
  BY <1>3 DEF BlockType
<1> HIDE DEF p
<1>5. m.image[0] = Address - 61440 /\ m.image[1] = count
  BY <1>2, <1>3 DEF Indexes
<1>6. Covers(m.image, 0, "EEPROM", m.image[0])
  <2> SUFFICES ASSUME NEW i \in 2 .. 33, IsData(m.image[i])
               PROVE  Place(m.image[i] - DataBase) = <<"EEPROM", m.image[0] + i - 0 - 2>>
    BY DEF Covers
  <2>1. i - 2 \in 0 .. count - 1
    <3> SUFFICES ASSUME i - 2 \notin 0 .. count - 1 PROVE FALSE
      OBVIOUS
    <3>1. m.image[i] = b.image[i] /\ i \in Indexes
      BY <1>3 DEF Indexes
    <3> QED
      BY <3>1 DEF EmptyImage
  <2>2. m.image[i] = WordData(i - 2)
    BY <1>3, <2>1 DEF Indexes
  <2> DEFINE v == i - 2
  <2>3. v \in Nat /\ v < codeLine.length \div 2
    BY <1>1, <2>1
  <2> HIDE DEF v
  <2>4. Place(WordData(v) - DataBase) = <<"EEPROM", (Address + v) - 61440>>
    BY <2>3, LinePlaces
  <2>5. (Address + v) - 61440 = m.image[0] + i - 0 - 2
    BY <1>1, <1>5 DEF v
  <2> QED
    BY <2>2, <2>4, <2>5 DEF v
<1>7. InternalImage(p)
  <2>1. m.image[0] \in 0 .. 255 /\ m.image[1] \in 0 .. 32
    BY <1>1, <1>5
  <2> QED
    BY <1>4, <1>6, <2>1 DEF InternalImage, EmptyImage
<1> QED
  BY <1>7 DEF p, m

-----------------------------------------------------------------------------
(* One line processed leaves an image to fill, or one to upload.           *)
Imaged ==
  /\ pc' = "read" => ReadyImage(block')
  /\ pc' = "upload" => UploadImage(block', OpResult')
  /\ pc' \in {"read", "upload", "terminate"}

LEMMA UploadFirstImage ==
  ASSUME NEW b, ReadyImage(b), ~b.overflow, b.number # 0, UploadFirst(b)
  PROVE  Imaged
<1>1. pc' = "upload" /\ block' = b /\ OpResult' = Ready(b.number)
  BY DEF UploadFirst, Returns, GoTo, Ready
<1>2. CASE SerialImage(b)
  <2>1. b.number < 80
    BY <1>2 DEF SerialImage
  <2> QED
    BY <1>1, <1>2, <2>1 DEF Imaged, UploadImage, Ready
<1>3. CASE FlashImage(b)
  <2>1. ~(b.number < 80)
    BY <1>3 DEF FlashImage
  <2> QED
    BY <1>1, <1>3, <2>1 DEF Imaged, UploadImage, Ready
<1> QED
  BY <1>2, <1>3 DEF ReadyImage, EmptyImage

LEMMA SerialImaged ==
  ASSUME HandledLine, ReadyImage(block), ProcessSerialEEPROM
  PROVE  Imaged
<1> DEFINE b == IF Current.number = 0 THEN NewSerialImage ELSE Current
           to == (Address % 32) + 36
           count == codeLine.length \div 2
<1>1. block \in BlockType /\ DataInBuffer /\ Address \in SERIAL_EEPROM
  BY DEF HandledLine, HexInv, TypeOK, ProcessSerialEEPROM
<1>2. Current \in BlockType /\ ReadyImage(Current) /\ ~Current.overflow
  BY <1>1, CurrentType, CurrentImage
<1>3. /\ b \in BlockType /\ ReadyImage(b) /\ ~b.overflow
      /\ b.number # 0 /\ (b.number = Address \div 32 \/ b = Current)
  BY <1>1, <1>2, NewSerial, NewSerialType DEF ReadyImage
<1>4. StoreSerial(b)
  BY DEF ProcessSerialEEPROM
<1> HIDE DEF b
<1>5. CASE b.number # Address \div 32
  BY <1>3, <1>4, <1>5, UploadFirstImage DEF StoreSerial
<1>6. CASE b.number = Address \div 32
  <2>1. Address \div 32 <= 79
    <3>1. Address \in Nat /\ Address <= 2559
      BY <1>1, LineAddress, EEPROMAreas
    <3> QED
      BY <3>1
  <2>2. SerialImage(b)
    <3>1. ~FlashImage(b)
      BY <1>6, <2>1 DEF FlashImage
    <3> QED
      BY <1>3, <3>1 DEF ReadyImage, EmptyImage
  <2> HIDE DEF to, count
  <2>3. SerialImage(PutSerial(b, to, count))
    BY <1>1, <1>3, <1>6, <2>2, PutSerialImage DEF to, count
  <2>4. /\ block' = PutSerial(b, to, count)
        /\ IF block'.overflow THEN Returns("EEEPROM_BLOCK_READY") ELSE NextLine
    BY <1>4, <1>6 DEF StoreSerial, to, count
  <2> QED
    BY <2>3, <2>4 DEF Returns, GoTo, NextLine, Imaged, ReadyImage, UploadImage
<1> QED
  BY <1>5, <1>6

LEMMA FlashImaged ==
  ASSUME HandledLine, ReadyImage(block), ProcessFlash
  PROVE  Imaged
<1> DEFINE b == Current
<1>1. block \in BlockType /\ DataInBuffer /\ IsFlash(Address)
  BY DEF HandledLine, HexInv, TypeOK, ProcessFlash
<1>2. b \in BlockType /\ ReadyImage(b) /\ ~b.overflow
  BY <1>1, CurrentType, CurrentImage
<1>3. StoreFlash(b, DestinationIndex, DataCounter)
  BY DEF ProcessFlash
<1> HIDE DEF b
<1>4. CASE Returns("ERROR")
  BY <1>4 DEF Returns, GoTo, Imaged
<1>5. CASE b.number # 0 /\ UploadFirst(b)
  BY <1>2, <1>5, UploadFirstImage
<1>6. CASE /\ block' = PutFlash(b, DestinationIndex, DataCounter) /\ NextLine
           /\ b.number = 0 \/ b.number = Address \div 32
  <2>1. Address \div 32 >= 352
    <3>1. Address \in Nat /\ Address >= 11264
      BY <1>1, LineAddress, FlashArea
    <3> QED
      BY <3>1
  <2>2. EmptyImage(b) \/ (FlashImage(b) /\ b.number = Address \div 32)
    <3>1. ~SerialImage(b)
      BY <1>6, <2>1 DEF SerialImage
    <3>2. EmptyImage(b) \/ FlashImage(b)
      BY <1>2, <3>1 DEF ReadyImage
    <3>3. FlashImage(b) => b.number # 0
      BY DEF FlashImage
    <3> QED
      BY <1>6, <3>2, <3>3
  <2>3. FlashImage(PutFlash(b, DestinationIndex, DataCounter))
    BY <1>1, <1>2, <2>2, PutFlashImage
  <2>4. PutFlash(b, DestinationIndex, DataCounter).processState = 2
    BY <1>1, <1>2, FlashPlace, PutFlashType, Zenon
  <2> QED
    BY <1>6, <2>3, <2>4 DEF NextLine, GoTo, Imaged, ReadyImage
<1> QED
  BY <1>3, <1>4, <1>5, <1>6 DEF StoreFlash

LEMMA InternalImaged ==
  ASSUME HandledLine, ReadyImage(block), ProcessInternalEEPROM
  PROVE  Imaged
<1> DEFINE b == Current
           count == codeLine.length \div 2
<1>1. block \in BlockType /\ DataInBuffer /\ Address \in PIC16LF1938_EEPROM
  BY DEF HandledLine, HexInv, TypeOK, ProcessInternalEEPROM
<1>2. b \in BlockType /\ ReadyImage(b) /\ ~b.overflow
  BY <1>1, CurrentType, CurrentImage
<1>3. StoreInternal(b, count)
  BY DEF ProcessInternalEEPROM
<1> HIDE DEF b
<1>4. CASE Returns("ERROR")
  BY <1>4 DEF Returns, GoTo, Imaged
<1>5. CASE b.number # 0
  BY <1>2, <1>3, <1>5, UploadFirstImage DEF StoreInternal
<1>6. CASE /\ b.number = 0 /\ Returns("EEPROM_BLOCK_READY")
           /\ block' = [PutInternal(b, count) EXCEPT !.processState = 1]
  <2>1. EmptyImage(b)
    BY <1>2, <1>6 DEF ReadyImage, SerialImage, FlashImage
  <2>2. InternalImage(block')
    BY <1>1, <1>2, <1>6, <2>1, PutInternalImage
  <2> QED
    BY <1>6, <2>2 DEF Returns, GoTo, Imaged, UploadImage
<1> QED
  BY <1>3, <1>4, <1>5, <1>6 DEF StoreInternal

LEMMA ProcessImaged ==
  ASSUME HexInv, Handled, ReadyImage(block), Process
  PROVE  Imaged
<1>1. CASE ProcessExtendedAddress \/ ProcessOther
  BY <1>1 DEF ProcessExtendedAddress, ProcessOther, NextLine, GoTo, Imaged
<1>2. CASE ProcessElsewhere
  <2>1. ReadyImage(Current)
    BY CurrentImage DEF HexInv, TypeOK
  <2> QED
    BY <1>2, <2>1 DEF ProcessElsewhere, NextLine, GoTo, Imaged
<1>3. CASE ProcessSerialEEPROM \/ ProcessFlash \/ ProcessInternalEEPROM
  <2>1. HandledLine
    BY <1>3, ProcessDataLine DEF HandledLine, HexInv, ProcessData
  <2> QED
    BY <1>3, <2>1, SerialImaged, FlashImaged, InternalImaged
<1> QED
  BY <1>1, <1>2, <1>3 DEF Process

(* Records are never taken back.                                           *)
LEMMA RecordsStay ==
  ASSUME HexInv, [Next]_vars, NEW i \in DOMAIN records
  PROVE  i \in DOMAIN records' /\ records'[i] = records[i]
<1>1. records \in Seq(RecordType)
  BY DEF HexInv, TypeOK, FileTypeOK, RecordType
<1>2. records' = records \/ \E r : records' = Append(records, r)
  <2>1. CASE ReadEmptyLine \/ ReadLine
    BY <2>1 DEF ReadEmptyLine, ReadLine, Recorded
  <2>2. CASE \/ OpenFile \/ Connect \/ EnterProgrammingMode \/ TerminateProgrammingMode
             \/ UNCHANGED vars
    BY <2>2 DEF OpenFile, Connect, EnterProgrammingMode, TerminateProgrammingMode, sessionFrame,
                vars, fileVars
  <2>3. CASE Process
    BY <2>3 DEF Process, ProcessExtendedAddress, ProcessOther, ProcessSerialEEPROM, ProcessFlash,
                ProcessInternalEEPROM, ProcessElsewhere, processFrame, fileVars
  <2>4. CASE Prepare \/ EndOfFile \/ ReadBadLine \/ Upload \/ UploadFails \/ UploadCrashes
    BY <2>4 DEF Prepare, EndOfFile, ReadBadLine, Upload, UploadFails, UploadCrashes, uploadFrame,
                fileVars
  <2> QED
    BY <2>1, <2>2, <2>3, <2>4 DEF Next, Step
<1>3. CASE records' = records
  BY <1>3
<1>4. ASSUME NEW r, records' = Append(records, r)
      PROVE  i \in DOMAIN records' /\ records'[i] = records[i]
  BY <1>1, <1>4
<1> QED
  BY <1>2, <1>3, <1>4

LEMMA HandledBefore ==
  ASSUME HexInv, [Next]_vars, Handled'
  PROVE  Handled
<1>1. ASSUME NEW i \in DOMAIN records, Unhandled(records[i])
      PROVE  FALSE
  <2>1. i \in DOMAIN records' /\ records'[i] = records[i]
    BY RecordsStay
  <2>2. \A k \in DOMAIN records' : ~Unhandled(records'[k])
    BY DEF Handled
  <2>3. ~Unhandled(records'[i])
    BY <2>1, <2>2, Zenon
  <2> QED
    BY <1>1, <2>1, <2>3
<1> QED
  BY <1>1 DEF Handled

(* What is left of an image when one of its packets was sent.              *)
LEMMA NextPacketImage ==
  ASSUME HexInv, pc = "upload", UploadImage(block, OpResult), NextPacket
  PROVE  /\ pc' = "prepare" => OverflowImage(block')
         /\ pc' = "upload" => UploadImage(block', OpResult)
         /\ pc' \in {"prepare", "upload"}
<1>1. block \in BlockType /\ PacketInv
  BY DEF HexInv, TypeOK
<1>2. /\ block' \in BlockType
      /\ block'.processState = block.processState - 1
      /\ block'.number = block.number /\ block'.overflow = block.overflow
      /\ \A i \in Indexes :
           block'.image[i] = IF i = 1 /\ Target = "EEPROM" THEN 0 ELSE block.image[i]
      /\ pc' = IF block.processState = 1 THEN "prepare" ELSE "upload"
  BY <1>1, NextPacketType, Zenon
<1>3. CASE OpResult = "EEEPROM_BLOCK_READY" /\ SerialImage(block)
  <2>1. pc' = "prepare"
    BY <1>2, <1>3 DEF SerialImage
  <2>2. block'.image = block.image
    <3>1. Target # "EEPROM"
      BY <1>3 DEF Target
    <3> QED
      BY <1>1, <1>2, <3>1 DEF BlockType
  <2>3. OverflowImage(block')
    <3> SUFFICES ASSUME block.overflow
                 PROVE  \E n \in 17 .. 79 : SerialHead(block.image, n)
      BY <1>2, <2>2 DEF OverflowImage
    <3> DEFINE n == block.number + 1
    <3>1. n \in 17 .. 79 /\ SerialHead(block.image, n)
      BY <1>3 DEF SerialImage
    <3> QED
      BY <3>1
  <2> QED
    BY <2>1, <2>3
<1>4. CASE OpResult = "FLASH_BLOCK_READY" /\ FlashImage(block)
  <2>1. block'.image = block.image
    <3>1. Target # "EEPROM"
      BY <1>4 DEF Target
    <3> QED
      BY <1>1, <1>2, <3>1 DEF BlockType
  <2>2. FlashImage(block')
    BY <1>2, <1>4, <2>1 DEF FlashImage
  <2>3. ~block'.overflow
    BY <2>2 DEF FlashImage
  <2> QED
    BY <1>2, <1>4, <2>2, <2>3 DEF OverflowImage, UploadImage
<1>5. CASE OpResult = "EEPROM_BLOCK_READY" /\ InternalImage(block)
  <2>1. pc' = "prepare" /\ ~block'.overflow
    BY <1>2, <1>5 DEF InternalImage
  <2> QED
    BY <2>1 DEF OverflowImage
<1> QED
  BY <1>3, <1>4, <1>5 DEF UploadImage

(* Prepare begins with an empty image, or with an overflow.                *)
LEMMA PrepareImage ==
  ASSUME HexInv, Prepare, OverflowImage(block)
  PROVE  ReadyImage(block') /\ pc' \in {"read", "process"}
<1> DEFINE clean == [i \in Indexes |-> IF i % 2 = 0 THEN 255 ELSE 63]
<1>1. block \in BlockType
  BY DEF HexInv, TypeOK
<1>2. /\ block'.number = 0 /\ block'.overflow = block.overflow
      /\ block'.image = IF block.overflow THEN block.image ELSE clean
  BY <1>1 DEF Prepare, BlockType
<1>3. \A i \in Indexes : ~IsData(clean[i])
  BY DEF IsData, DataBase
<1> HIDE DEF clean
<1>4. ReadyImage(block')
  <2>1. CASE block.overflow
    <3>1. OverflowImage(block')
      BY <1>2, <2>1 DEF OverflowImage
    <3> QED
      BY <1>2, <2>1, <3>1 DEF ReadyImage
  <2>2. CASE ~block.overflow
    <3>1. EmptyImage(block')
      BY <1>2, <1>3, <2>2 DEF EmptyImage
    <3> QED
      BY <3>1 DEF ReadyImage
  <2> QED
    BY <2>1, <2>2
<1> QED
  BY <1>4 DEF Prepare, GoTo

(* The end of the file.                                                    *)
LEMMA EndOfFileImage ==
  ASSUME HexInv, EndOfFile, ReadyImage(block)
  PROVE  Imaged
<1>1. block \in BlockType
  BY DEF HexInv, TypeOK
<1>2. CASE block.number # 0
  <2>1. pc' = "upload" /\ block' = block /\ OpResult' = Ready(block.number)
    BY <1>2 DEF EndOfFile, Returns, GoTo, Ready
  <2>2. \/ SerialImage(block) /\ block.number < 80
        \/ FlashImage(block) /\ ~(block.number < 80)
    <3>1. SerialImage(block) => block.number < 80
      BY DEF SerialImage
    <3>2. FlashImage(block) => ~(block.number < 80)
      BY DEF FlashImage
    <3>3. SerialImage(block) \/ FlashImage(block)
      BY <1>2 DEF ReadyImage, EmptyImage
    <3> QED
      BY <3>1, <3>2, <3>3
  <2> QED
    BY <2>1, <2>2 DEF Imaged, UploadImage, Ready
<1>3. CASE block.number = 0 /\ block.overflow
  <2>1. pc' = "upload" /\ block' = MoveOverflowedData(block) /\ OpResult' = "EEEPROM_BLOCK_READY"
    BY <1>3 DEF EndOfFile, Returns, GoTo
  <2>2. OverflowImage(block)
    BY <1>3 DEF ReadyImage, EmptyImage, FlashImage
  <2> QED
    BY <1>1, <1>3, <2>1, <2>2, MovedImage DEF Imaged, UploadImage
<1>4. CASE block.number = 0 /\ ~block.overflow
  BY <1>4 DEF EndOfFile, Returns, GoTo, Imaged
<1> QED
  BY <1>2, <1>3, <1>4

LEMMA ImageInit == Init => ImageInv
BY DEF Init, ImageInv

LEMMA ImageSteps == HexInv /\ ImageInv /\ [Next]_vars => ImageInv'
<1> SUFFICES ASSUME HexInv, ImageInv, [Next]_vars, Handled'
             PROVE  /\ pc' \in {"start", "connect", "enter"} => ~block'.overflow
                    /\ pc' = "prepare" => OverflowImage(block')
                    /\ pc' \in {"read", "process"} => ReadyImage(block')
                    /\ pc' = "upload" => UploadImage(block', OpResult')
  BY DEF ImageInv, OverflowImage, ReadyImage, UploadImage, EmptyImage, SerialImage, FlashImage,
         InternalImage
<1>1. Handled
  BY HandledBefore
<1>2. CASE OpenFile \/ Connect \/ EnterProgrammingMode \/ TerminateProgrammingMode
  <2>1. /\ block' = block /\ pc' \notin {"read", "process", "upload"}
        /\ pc' \in {"connect", "enter", "prepare"} => pc \in {"start", "connect", "enter"}
        /\ pc' # "start"
    BY <1>2 DEF OpenFile, Connect, EnterProgrammingMode, TerminateProgrammingMode, sessionFrame,
                readVars
  <2> QED
    BY <1>1, <2>1 DEF ImageInv, OverflowImage
<1>3. CASE Prepare
  BY <1>1, <1>3, PrepareImage DEF ImageInv, Prepare
<1>4. CASE EndOfFile
  BY <1>1, <1>4, EndOfFileImage DEF ImageInv, EndOfFile, Imaged
<1>5. CASE Process
  <2>1. pc = "process"
    BY <1>5 DEF Process, ProcessExtendedAddress, ProcessOther, ProcessSerialEEPROM, ProcessFlash,
                ProcessInternalEEPROM, ProcessElsewhere, Processing
  <2>2. Imaged
    BY <1>1, <1>5, <2>1, ProcessImaged DEF ImageInv
  <2> QED
    BY <2>2 DEF Imaged
<1>6. CASE ReadBadLine \/ ReadEmptyLine \/ ReadLine
  <2>1. pc = "read" /\ block' = block /\ pc' \in {"process", "terminate"}
    BY <1>6 DEF ReadBadLine, ReadEmptyLine, ReadLine, Returns, GoTo
  <2> QED
    BY <1>1, <2>1 DEF ImageInv
<1>7. CASE Upload \/ UploadFails
  <2>1. pc = "upload" /\ NextPacket /\ OpResult' = OpResult
    BY <1>7 DEF Upload, UploadFails, uploadFrame
  <2> QED
    BY <1>1, <2>1, NextPacketImage DEF ImageInv
<1>8. CASE UploadCrashes
  BY <1>8 DEF UploadCrashes
<1>9. CASE UNCHANGED vars
  BY <1>1, <1>9 DEF ImageInv, vars, readVars
<1> QED
  BY <1>2, <1>3, <1>4, <1>5, <1>6, <1>7, <1>8, <1>9 DEF Next, Step

(* A byte of the file that a packet writes comes to its place.             *)
LEMMA WrittenPlaces ==
  ASSUME HexInv, pc = "upload", UploadImage(block, OpResult),
         NEW l \in DOMAIN Written, IsData(Written[l])
  PROVE  l = Place(Written[l] - DataBase)
<1>1. block \in BlockType /\ PacketInv
  BY DEF HexInv, TypeOK
<1>2. PICK n \in First .. First + DataSize - 1 : l = <<Target, n>>
  BY <1>1, PacketType
<1>3. /\ First \in Nat /\ DataSize \in Nat /\ DataSize <= 32
      /\ Written[l] = block.image[PacketAt + 2 + n - First]
  BY <1>1, <1>2, PacketType
<1> DEFINE i == PacketAt + 2 + n - First
<1>4. ASSUME NEW area, NEW first \in Nat, Target = area, First = first,
             Covers(block.image, PacketAt, area, first), PacketAt \in {0, 34}
      PROVE  Place(Written[l] - DataBase) = l
  <2>1. i \in PacketAt + 2 .. PacketAt + 33
    BY <1>2, <1>3, <1>4
  <2>2. IsData(block.image[i]) /\ Written[l] = block.image[i]
    BY <1>3
  <2>3. first + i - PacketAt - 2 = n
    BY <1>2, <1>3, <1>4
  <2> HIDE DEF i
  <2>4. Place(block.image[i] - DataBase) = <<area, first + i - PacketAt - 2>>
    BY <1>4, <2>1, <2>2 DEF Covers
  <2> QED
    BY <1>2, <1>4, <2>2, <2>3, <2>4
<1>5. CASE OpResult = "EEEPROM_BLOCK_READY" /\ SerialImage(block)
  <2> DEFINE first == (block.number - 16) * 32
  <2>1. PacketAt = 34 /\ Target = "EEEPROM" /\ first \in Nat
    BY <1>5 DEF PacketAt, Target, SerialImage
  <2>2. First = first /\ Covers(block.image, 34, "EEEPROM", first)
    BY <1>5, <2>1 DEF First, PacketAddress, SerialImage, At
  <2> HIDE DEF first
  <2> QED
    BY <1>4, <2>1, <2>2
<1>6. CASE OpResult = "FLASH_BLOCK_READY" /\ FlashImage(block)
  <2> DEFINE first == IF block.processState = 2 THEN block.number * 64 ELSE block.number * 64 + 32
  <2>1. /\ Target = "FLASH" /\ first \in Nat
        /\ PacketAt = IF block.processState = 2 THEN 0 ELSE 34
    BY <1>6 DEF PacketAt, Target, FlashImage
  <2>2. Covers(block.image, PacketAt, "FLASH", first)
    BY <1>6, <2>1 DEF FlashImage
  <2>3. First = first
    <3>1. PacketAddress = At(block.image, PacketAt)
      BY <2>1 DEF PacketAddress, At
    <3>2. block.number \in Nat
      BY <1>1 DEF BlockType
    <3> QED
      BY <1>6, <2>1, <3>1, <3>2 DEF First, FlashImage
  <2> HIDE DEF first
  <2> QED
    BY <1>4, <2>1, <2>2, <2>3
<1>7. CASE OpResult = "EEPROM_BLOCK_READY" /\ InternalImage(block)
  <2> DEFINE first == block.image[0]
  <2>1. PacketAt = 0 /\ Target = "EEPROM" /\ first \in Nat
    BY <1>7 DEF PacketAt, Target, InternalImage
  <2>2. First = first /\ Covers(block.image, 0, "EEPROM", first)
    BY <1>7, <2>1 DEF First, PacketAddress, InternalImage
  <2> HIDE DEF first
  <2> QED
    BY <1>4, <2>1, <2>2
<1> QED
  BY <1>5, <1>6, <1>7 DEF UploadImage

Misplaced == \E l \in DOMAIN memory : IsData(memory[l]) /\ l # Place(memory[l] - DataBase)

LEMMA MisplacedHandled ==
  /\ NothingMisplaced <=> (Handled => ~Misplaced)
  /\ NothingMisplaced' <=> (Handled' => ~Misplaced')
BY DEF NothingMisplaced, Handled, AllRecords, Misplaced

LEMMA MemorySteps == HexInv /\ ImageInv /\ NothingMisplaced /\ [Next]_vars => NothingMisplaced'
<1> SUFFICES ASSUME HexInv, ImageInv, Handled => ~Misplaced, [Next]_vars, Handled',
                    NEW l \in DOMAIN memory', IsData(memory'[l])
             PROVE  l = Place(memory'[l] - DataBase)
  BY MisplacedHandled DEF Misplaced
<1>1. Handled /\ ~Misplaced
  BY HandledBefore
<1>2. CASE Store /\ pc = "upload"
  <2>1. UploadImage(block, OpResult)
    BY <1>1, <1>2 DEF ImageInv
  <2>2. memory'[l] = IF l \in DOMAIN Written THEN Written[l] ELSE memory[l]
    BY <1>2 DEF Store
  <2>3. l \in DOMAIN Written \/ l \in DOMAIN memory
    BY <1>2 DEF Store
  <2>4. CASE l \in DOMAIN Written
    BY <1>2, <2>1, <2>2, <2>4, WrittenPlaces
  <2>5. CASE l \notin DOMAIN Written
    BY <1>1, <2>2, <2>3, <2>5 DEF Misplaced
  <2> QED
    BY <2>4, <2>5
<1>3. CASE UNCHANGED memory
  BY <1>1, <1>3 DEF Misplaced
<1>4. \/ Store /\ pc = "upload"
      \/ UNCHANGED memory
  BY DEF Next, Step, OpenFile, Connect, EnterProgrammingMode, Prepare, EndOfFile, ReadBadLine,
         ReadEmptyLine, ReadLine, Process, ProcessExtendedAddress, ProcessOther,
         ProcessSerialEEPROM, ProcessFlash, ProcessInternalEEPROM, ProcessElsewhere, Upload,
         UploadFails, UploadCrashes, TerminateProgrammingMode, vars, sessionFrame, prepareFrame,
         GoTo, Returns, NextLine, StoreSerial, StoreFlash, StoreInternal, UploadFirst
<1> QED
  BY <1>2, <1>3, <1>4

(* No byte of a file is ever written to the place of another, if the       *)
(* records are of the kinds the program handles: whatever the order of the *)
(* records, however many they are and whichever calls fail                 *)
(* (iqrfPgmPrepareMemBlock, iqrfPgmMoveOverflowedData).                    *)
THEOREM NothingIsMisplaced == Spec => []NothingMisplaced
<1>1. Init => NothingMisplaced
  BY DEF Init, NothingMisplaced
<1>2. Spec => [](HexInv /\ ImageInv)
  BY HexInit, HexSteps, ImageInit, ImageSteps, PTL DEF Spec
<1> QED
  BY <1>1, <1>2, MemorySteps, PTL DEF Spec

-----------------------------------------------------------------------------
(* The bytes stored, and how far their records have come.                  *)

LEMMA BlockOrder ==
  ASSUME NEW b \in Int, NEW c \in Int, b <= c
  PROVE  Block(b) <= Block(c) /\ Block(b) \in Int /\ Block(c) \in Int
<1>1. Word(b) <= Word(c) /\ Word(b) \in Int /\ Word(c) \in Int
  BY DEF Word
<1> QED
  BY <1>1 DEF Block

LEMMA KeptBytes ==
  ASSUME NEW r \in RecordType, NEW b \in Kept(r)
  PROVE  /\ b \in Nat /\ r.start <= b /\ b < End(r)
         /\ \/ IsFlash(Word(b))
            \/ b % 2 = 0 /\ Word(b) \in SERIAL_EEPROM
            \/ b % 2 = 0 /\ Word(b) \in PIC16LF1938_EEPROM
         /\ Word(b) # 16383 /\ Word(b) # 14271
<1>1. r.start \in Nat /\ r.length \in Nat
  BY OffsetsAndLengths DEF RecordType
<1>2. b \in r.start .. r.start + r.length - 1
  BY DEF Kept
<1>3. b \in Nat /\ r.start <= b /\ b < End(r)
  BY <1>1, <1>2 DEF End
<1>4. Place(b)[1] # "nowhere" /\ (Place(b)[1] # "FLASH" => b % 2 = 0)
  BY DEF Kept
<1>5. IsFlash(Word(b)) \/ Word(b) \in SERIAL_EEPROM \/ Word(b) \in PIC16LF1938_EEPROM
  BY <1>4 DEF Place
<1>6. ~IsFlash(Word(b)) => Place(b)[1] # "FLASH"
  BY <1>3, Places
<1>7. Word(b) # 16383 /\ Word(b) # 14271
  BY DEF Kept, IQRF_MAIN_MEM_MAX_ADR, IQRF_LICENCED_MEM_MAX_ADR
<1> QED
  BY <1>3, <1>4, <1>5, <1>6, <1>7

LEMMA RecordsType ==
  ASSUME HexInv
  PROVE  /\ records \in Seq(RecordType) /\ Len(records) \in Nat
         /\ \A i \in StoredRecords : i \in DOMAIN records /\ records[i] \in RecordType
         /\ DOMAIN records = 1 .. Len(records)
<1>1. records \in Seq(RecordType)
  BY DEF HexInv, TypeOK, FileTypeOK, RecordType
<1>2. StoredRecords \subseteq 1 .. Len(records)
  BY <1>1 DEF StoredRecords
<1> QED
  BY <1>1, <1>2

(* A stored byte is one the device keeps.                                  *)
LEMMA StoredKept ==
  ASSUME HexInv, NEW b, IsStored(b)
  PROVE  /\ b \in Nat
         /\ \/ IsFlash(Word(b))
            \/ b % 2 = 0 /\ Word(b) \in SERIAL_EEPROM
            \/ b % 2 = 0 /\ Word(b) \in PIC16LF1938_EEPROM
<1>1. PICK i \in StoredRecords : b \in Kept(records[i])
  BY DEF IsStored
<1>2. records[i] \in RecordType
  BY RecordsType
<1> QED
  BY <1>1, <1>2, KeptBytes

(* Of a sorted file, what is stored when a line is processed comes before  *)
(* the line.                                                               *)
LEMMA StoredBefore ==
  ASSUME HandledLine, Sorted
  PROVE  /\ \A i \in StoredRecords : End(records[i]) <= Last.start
         /\ \A b : IsStored(b) => b < Last.start
         /\ Last.start \in Nat
<1>0. HexInv /\ InBuffer /\ records # <<>> /\ Last.start \in Nat
  BY LineAddress, LastRecord DEF HandledLine, HexInv, BufferInv, InBuffer, RecordType
<1>1. StoredRecords = 1 .. Len(records) - 1
  BY <1>0 DEF StoredRecords
<1>2. ASSUME NEW i \in StoredRecords
      PROVE  End(records[i]) <= Last.start
  <2>1. i \in DOMAIN records /\ Len(records) \in DOMAIN records /\ i < Len(records)
    BY <1>0, <1>1, RecordsType
  <2> QED
    BY <2>1 DEF Sorted, Last
<1>3. ASSUME NEW b, IsStored(b)
      PROVE  b < Last.start
  <2>1. PICK i \in StoredRecords : b \in Kept(records[i])
    BY <1>3 DEF IsStored
  <2>2. records[i] \in RecordType
    BY <1>0, RecordsType
  <2>3. b \in Nat /\ b < End(records[i])
    BY <2>1, <2>2, KeptBytes
  <2>4. End(records[i]) \in Nat
    BY <2>2, OffsetsAndLengths DEF End, RecordType
  <2> QED
    BY <1>0, <1>2, <2>3, <2>4
<1> QED
  BY <1>0, <1>2, <1>3

LEMMA ReachedBefore ==
  ASSUME HandledLine, Sorted, NEW n \in Int, Reached(n)
  PROVE  n <= Block(Last.start)
<1>1. PICK i \in StoredRecords : \/ Block(records[i].start) >= n
                                 \/ Block(End(records[i]) - 1) >= n
  BY DEF Reached
<1>2. records[i] \in RecordType
  BY RecordsType DEF HandledLine
<1> DEFINE start == records[i].start
           end == End(records[i])
           next == Last.start
<1>3. start \in Nat /\ end \in Nat /\ start <= end
  BY <1>2, OffsetsAndLengths DEF End, RecordType
<1>4. end <= next /\ next \in Nat
  BY StoredBefore
<1> HIDE DEF start, end, next
<1>5. start <= next /\ end - 1 <= next /\ end - 1 \in Int
  BY <1>3, <1>4
<1>6. Block(start) <= Block(next) /\ Block(end - 1) <= Block(next)
      /\ Block(start) \in Int /\ Block(end - 1) \in Int /\ Block(next) \in Int
  BY <1>3, <1>4, <1>5, BlockOrder
<1>7. Block(start) >= n \/ Block(end - 1) >= n
  BY <1>1 DEF start, end
<1>8. n <= Block(next)
  BY <1>6, <1>7
<1> QED
  BY <1>8 DEF next

LEMMA GoneBefore ==
  ASSUME HandledLine, Sorted, NEW b \in Nat, Gone(b)
  PROVE  InDevice(b) /\ (Word(b) \in PIC16LF1938_EEPROM \/ Block(b) < Block(Last.start))
<1>1. lastLine # "end"
  BY DEF HandledLine, HexInv, BufferInv
<1>2. Block(b) \in Int /\ Block(Last.start) \in Int
  BY StoredBefore, BlockOrder
<1>3. Beyond(Block(b)) => Block(b) < Block(Last.start)
  <2>1. Reached(Block(b) + 1) => Block(b) + 1 <= Block(Last.start)
    BY <1>2, ReachedBefore
  <2> QED
    BY <1>1, <1>2, <2>1 DEF Beyond
<1> QED
  BY <1>3 DEF Gone

LEMMA SortedBefore ==
  ASSUME HexInv, [Next]_vars, Sorted'
  PROVE  Sorted
<1> SUFFICES ASSUME NEW i \in DOMAIN records, NEW j \in DOMAIN records, i < j
             PROVE  End(records[i]) <= records[j].start
  BY DEF Sorted
<1>1. /\ i \in DOMAIN records' /\ records'[i] = records[i]
      /\ j \in DOMAIN records' /\ records'[j] = records[j]
  BY RecordsStay
<1>2. \A k, m \in DOMAIN records' : k < m => End(records'[k]) <= records'[m].start
  BY DEF Sorted
<1>3. End(records'[i]) <= records'[j].start
  BY <1>1, <1>2
<1> QED
  BY <1>1, <1>3

LEMMA FailuresGrow ==
  ASSUME HexInv, [Next]_vars, failures' = 0
  PROVE  failures = 0
<1>1. failures \in Nat
  <2>1. failures \in 0 .. MaxFailures /\ MaxFailures \in Nat
    BY PgmHexAssumption DEF HexInv, TypeOK, SessionTypeOK
  <2> QED
    BY <2>1
<1>2. failures' = failures \/ failures' = failures + 1
  BY DEF Next, Step, OpenFile, Connect, EnterProgrammingMode, Prepare, EndOfFile, ReadBadLine,
         ReadEmptyLine, ReadLine, Process, ProcessExtendedAddress, ProcessOther,
         ProcessSerialEEPROM, ProcessFlash, ProcessInternalEEPROM, ProcessElsewhere, Upload,
         UploadFails, UploadCrashes, TerminateProgrammingMode, vars, prepareFrame, GoTo, Returns,
         NextLine, StoreSerial, StoreFlash, StoreInternal, UploadFirst, Fails
<1> QED
  BY <1>1, <1>2

LEMMA CarefulBefore ==
  ASSUME HexInv, [Next]_vars, Careful'
  PROVE  Careful
BY FailuresGrow, SortedBefore, HandledBefore DEF Careful

(* What a step does to the bytes stored and to how far the file has come:  *)
(* nothing, unless it takes the line in the buffer.                        *)
StoredSame ==
  /\ \A b : IsStored(b)' <=> IsStored(b)
  /\ \A n \in Int : Reached(n) => Reached(n)'
  /\ \A n \in Int : Beyond(n) => Beyond(n)'

LEMMA SameStored ==
  ASSUME records' = records, InBuffer' <=> InBuffer, lastLine' \in {lastLine, "end"}
  PROVE  StoredSame
<1>1. StoredRecords' = StoredRecords
  BY DEF StoredRecords
<1>2. \A b : IsStored(b)' <=> IsStored(b)
  BY <1>1 DEF IsStored
<1>3. \A n : Reached(n)' <=> Reached(n)
  BY <1>1 DEF Reached
<1>4. \A n \in Int : Beyond(n) => Beyond(n)'
  BY <1>3 DEF Beyond, Last
<1> QED
  BY <1>2, <1>3, <1>4 DEF StoredSame

LEMMA ReadStored ==
  ASSUME HexInv, ReadEmptyLine \/ ReadLine
  PROVE  StoredSame
<1>1. ~InBuffer /\ lastLine # "end" /\ DataInBufferReady'
  BY DEF HexInv, BufferInv, InBuffer, ReadEmptyLine, ReadLine
<1>2. records \in Seq(RecordType) /\ Len(records) \in Nat
  BY RecordsType
<1>3. CASE codeLine'.kind = "data"
  <2>1. PICK r : records' = Append(records, r)
    BY <1>3 DEF ReadEmptyLine, ReadLine, Recorded
  <2>2. /\ Len(records') = Len(records) + 1
        /\ \A i \in 1 .. Len(records) : records'[i] = records[i]
    BY <1>2, <2>1
  <2>3. StoredRecords' = StoredRecords /\ StoredRecords = 1 .. Len(records)
    <3>1. InBuffer'
      BY <1>1, <1>3 DEF InBuffer
    <3> QED
      BY <1>1, <1>2, <2>2, <3>1 DEF StoredRecords
  <2>4. \A b : IsStored(b)' <=> IsStored(b)
    BY <2>2, <2>3 DEF IsStored
  <2>5. \A n : Reached(n)' <=> Reached(n)
    BY <2>2, <2>3 DEF Reached
  <2>6. \A n \in Int : Beyond(n) => Beyond(n)'
    BY <1>1, <2>5 DEF Beyond
  <2> QED
    BY <2>4, <2>5, <2>6 DEF StoredSame
<1>4. CASE codeLine'.kind # "data"
  <2>1. records' = records /\ ~InBuffer'
    BY <1>4 DEF ReadEmptyLine, ReadLine, Recorded, InBuffer
  <2>2. StoredRecords' = StoredRecords
    BY <1>1, <2>1 DEF StoredRecords
  <2>3. \A b : IsStored(b)' <=> IsStored(b)
    BY <2>1, <2>2 DEF IsStored
  <2>4. \A n : Reached(n)' <=> Reached(n)
    BY <2>1, <2>2 DEF Reached
  <2>5. \A n \in Int : Beyond(n) => Beyond(n)'
    BY <1>1, <2>4 DEF Beyond
  <2> QED
    BY <2>3, <2>4, <2>5 DEF StoredSame
<1> QED
  BY <1>3, <1>4

StoredGrown ==
  /\ \A b : IsStored(b)' => IsStored(b) \/ b \in Kept(Last)
  /\ \A n \in Int : Reached(n) => Reached(n)'
  /\ \A n \in Int : Beyond(n) => Beyond(n)'
  /\ \A n \in Int : Block(Last.start) >= n \/ Block(End(Last) - 1) >= n => Reached(n)'

LEMMA TakenStored ==
  ASSUME HexInv, InBuffer, records' = records, lastLine' = lastLine, ~DataInBufferReady'
  PROVE  StoredGrown
<1>1. records # <<>> /\ Len(records) \in Nat /\ records \in Seq(RecordType)
  BY RecordsType DEF HexInv, BufferInv
<1>2. /\ StoredRecords = 1 .. Len(records) - 1 /\ StoredRecords' = 1 .. Len(records)
      /\ ~InBuffer'
  BY DEF StoredRecords, InBuffer
<1>3. /\ StoredRecords \subseteq StoredRecords' /\ Len(records) \in StoredRecords'
      /\ \A i \in StoredRecords' : i \in StoredRecords \/ i = Len(records)
  BY <1>1, <1>2
<1> HIDE <1>2
<1>4. \A b : IsStored(b)' => IsStored(b) \/ b \in Kept(Last)
  BY <1>3 DEF IsStored, Last
<1>5. \A n \in Int : Reached(n) => Reached(n)'
  BY <1>3 DEF Reached
<1>6. \A n \in Int : Block(Last.start) >= n \/ Block(End(Last) - 1) >= n => Reached(n)'
  BY <1>3 DEF Reached, Last
<1>7. ASSUME NEW n \in Int, Beyond(n)
      PROVE  Beyond(n)'
  <2>1. CASE Reached(n + 1)
    BY <1>5, <2>1 DEF Beyond
  <2>2. CASE Block(Last.start) > n
    <3>1. Last.start \in Int
      <4>1. Len(records) \in 1 .. Len(records)
        BY <1>1
      <4>2. Last \in RecordType
        BY <1>1, <4>1 DEF Last
      <4> QED
        BY <4>2 DEF RecordType
    <3>2. Block(Last.start) \in Int
      BY <3>1, BlockOrder
    <3>3. Block(Last.start) >= n + 1
      BY <2>2, <3>2
    <3> QED
      BY <1>6, <3>3 DEF Beyond
  <2>3. CASE lastLine = "end"
    BY <2>3 DEF Beyond
  <2> QED
    BY <1>7, <2>1, <2>2, <2>3 DEF Beyond
<1> QED
  BY <1>4, <1>5, <1>6, <1>7 DEF StoredGrown

-----------------------------------------------------------------------------
(* A packet takes its bytes from the image to the device.                  *)

StoredNow == HexInv /\ ImageInv /\ StoredInv /\ ReachedInv /\ Careful

StoredAfter == \A byte \in Nat : IsStored(byte)' => StoredByte(byte)'

LEMMA ByteBlock ==
  ASSUME NEW b \in Nat
  PROVE  /\ Word(b) \in Nat /\ Block(b) \in Nat
         /\ Word(b) % 32 \in 0 .. 31 /\ Word(b) = 32 * Block(b) + (Word(b) % 32)
         /\ b % 64 \in 0 .. 63 /\ b = 64 * Block(b) + (b % 64)
<1>1. Word(b) \in Nat /\ b >= 2 * Word(b) /\ b <= 2 * Word(b) + 1
  BY DEF Word
<1>2. ASSUME NEW w \in Nat
      PROVE  w \div 32 \in Nat /\ w % 32 \in 0 .. 31 /\ w = 32 * (w \div 32) + (w % 32)
  OBVIOUS
<1>3. /\ Block(b) \in Nat /\ Word(b) % 32 \in 0 .. 31
      /\ Word(b) = 32 * Block(b) + (Word(b) % 32)
  BY <1>1, <1>2 DEF Block
<1>4. ASSUME NEW w \in Nat, NEW n \in Nat, NEW v \in 0 .. 31, w = 32 * n + v,
             b >= 2 * w, b <= 2 * w + 1
      PROVE  b % 64 \in 0 .. 63 /\ b = 64 * n + (b % 64)
  <2> DEFINE r == b - 64 * n
  <2>1. r \in 0 .. 63 /\ b = 64 * n + r
    BY <1>4
  <2> HIDE DEF r
  <2>2. b % 64 = r
    BY <2>1
  <2> QED
    BY <2>1, <2>2
<1> QED
  BY <1>1, <1>3, <1>4

(* The areas are of different blocks.                                      *)
LEMMA AreaBlocks ==
  ASSUME NEW b \in Nat
  PROVE  /\ Word(b) \in SERIAL_EEPROM <=> Block(b) \in 16 .. 79
         /\ IsFlash(Word(b)) => Block(b) \in 352 .. 511
         /\ Word(b) \in PIC16LF1938_EEPROM <=> Block(b) \in 1920 .. 1927
<1> DEFINE w == Word(b)
           n == Block(b)
           v == w % 32
<1>1. w \in Nat /\ n \in Nat /\ v \in 0 .. 31 /\ w = 32 * n + v
  BY ByteBlock
<1> HIDE DEF w, n, v
<1>2. w >= 512 /\ w <= 2559 <=> n \in 16 .. 79
  BY <1>1
<1>3. w >= 11264 /\ w <= 16383 => n \in 352 .. 511
  BY <1>1
<1>4. w >= 61440 /\ w <= 61695 <=> n \in 1920 .. 1927
  BY <1>1
<1>5. w \in SERIAL_EEPROM <=> w >= 512 /\ w <= 2559
  BY <1>1, EEPROMAreas
<1>6. w \in PIC16LF1938_EEPROM <=> w >= 61440 /\ w <= 61695
  BY <1>1, EEPROMAreas
<1>7. IsFlash(w) => w >= 11264 /\ w <= 16383
  BY <1>1, FlashArea
<1>8. /\ w \in SERIAL_EEPROM <=> n \in 16 .. 79
      /\ IsFlash(w) => n \in 352 .. 511
      /\ w \in PIC16LF1938_EEPROM <=> n \in 1920 .. 1927
  BY <1>2, <1>3, <1>4, <1>5, <1>6, <1>7
<1> QED
  BY <1>8, Zenon DEF w, n

LEMMA SerialBlock ==
  ASSUME NEW b \in Nat, Block(b) \in 16 .. 79
  PROVE  Word(b) \in SERIAL_EEPROM /\ ~IsFlash(Word(b))
<1>1. Block(b) \notin 352 .. 511
  OBVIOUS
<1>2. /\ Word(b) \in SERIAL_EEPROM <=> Block(b) \in 16 .. 79
      /\ IsFlash(Word(b)) => Block(b) \in 352 .. 511
  BY AreaBlocks
<1> HIDE DEF SERIAL_EEPROM
<1> QED
  BY <1>1, <1>2

LEMMA StoreKeeps ==
  ASSUME Store, NEW b, InDevice(b), Place(b) \notin DOMAIN Written
  PROVE  InDevice(b)'
BY DEF Store, InDevice

LEMMA StoreWrites ==
  ASSUME HexInv, pc = "upload", Store, NEW b, NEW n \in First .. First + DataSize - 1,
         Place(b) = <<Target, n>>, block.image[PacketAt + 2 + n - First] = Data(b)
  PROVE  InDevice(b)'
<1>1. /\ DOMAIN Written = {Target} \X (First .. First + DataSize - 1)
      /\ Written[<<Target, n>>] = block.image[PacketAt + 2 + n - First]
  BY PacketType DEF HexInv, TypeOK
<1>2. Place(b) \in DOMAIN Written /\ Written[Place(b)] = Data(b)
  BY <1>1
<1> QED
  BY <1>2 DEF Store, InDevice

(* The packet of each image.                                               *)
LEMMA PacketOf ==
  ASSUME HexInv, pc = "upload"
  PROVE  /\ OpResult = "EEEPROM_BLOCK_READY" /\ SerialImage(block) =>
              /\ Target = "EEEPROM" /\ PacketAt = 34 /\ DataSize = 32
              /\ First = (block.number - 16) * 32
         /\ OpResult = "FLASH_BLOCK_READY" /\ FlashImage(block) =>
              /\ Target = "FLASH" /\ DataSize = 32
              /\ PacketAt = IF block.processState = 2 THEN 0 ELSE 34
              /\ First = block.number * 64 + (IF block.processState = 2 THEN 0 ELSE 32)
         /\ OpResult = "EEPROM_BLOCK_READY" /\ InternalImage(block) =>
              /\ Target = "EEPROM" /\ PacketAt = 0 /\ DataSize = block.image[1]
              /\ First = block.image[0]
<1>1. ASSUME OpResult = "EEEPROM_BLOCK_READY", SerialImage(block)
      PROVE  /\ Target = "EEEPROM" /\ PacketAt = 34 /\ DataSize = 32
             /\ First = (block.number - 16) * 32
  <2>1. Target = "EEEPROM" /\ PacketAt = 34 /\ DataSize = 32
    BY <1>1 DEF PacketAt, Target, DataSize
  <2> QED
    BY <1>1, <2>1 DEF First, PacketAddress, SerialImage, At
<1>2. ASSUME OpResult = "FLASH_BLOCK_READY", FlashImage(block)
      PROVE  /\ Target = "FLASH" /\ DataSize = 32
             /\ PacketAt = IF block.processState = 2 THEN 0 ELSE 34
             /\ First = block.number * 64 + (IF block.processState = 2 THEN 0 ELSE 32)
  <2>1. /\ Target = "FLASH" /\ DataSize = 32
        /\ PacketAt = IF block.processState = 2 THEN 0 ELSE 34
    BY <1>2 DEF PacketAt, Target, DataSize
  <2>2. PacketAddress = At(block.image, PacketAt)
    BY <2>1 DEF PacketAddress, At
  <2>3. block.number \in Nat
    BY DEF HexInv, TypeOK, BlockType
  <2> QED
    BY <1>2, <2>1, <2>2, <2>3 DEF First, FlashImage
<1>3. ASSUME OpResult = "EEPROM_BLOCK_READY", InternalImage(block)
      PROVE  /\ Target = "EEPROM" /\ PacketAt = 0 /\ DataSize = block.image[1]
             /\ First = block.image[0]
  <2>1. Target = "EEPROM" /\ PacketAt = 0 /\ DataSize = block.image[1]
    BY <1>3 DEF PacketAt, Target, DataSize
  <2>2. block.image[0] \in Nat
    BY <1>3 DEF InternalImage
  <2> QED
    BY <2>1, <2>2 DEF First, PacketAddress
<1> QED
  BY <1>1, <1>2, <1>3

LEMMA UploadSerialStored ==
  ASSUME StoredNow, Upload, OpResult = "EEEPROM_BLOCK_READY", SerialImage(block)
  PROVE  StoredAfter
<1>1. /\ HexInv /\ block \in BlockType /\ PacketInv /\ pc = "upload" /\ Store /\ NextPacket
      /\ UNCHANGED <<records, codeLine, DataInBufferReady, lastLine>>
  BY DEF StoredNow, HexInv, TypeOK, Upload, uploadFrame, fileVars
<1>2. StoredSame
  BY <1>1, SameStored DEF InBuffer
<1>3. Target = "EEEPROM" /\ PacketAt = 34 /\ DataSize = 32 /\ First = (block.number - 16) * 32
  BY <1>1, PacketOf
<1>4. block.number \in 16 .. 79 /\ block.processState = 1 /\ block.overflow \in BOOLEAN
  BY <1>1 DEF SerialImage, BlockType
<1>5. /\ pc' = "prepare" /\ block'.overflow = block.overflow /\ block'.image = block.image
      /\ block' \in BlockType
  <2>1. /\ block' \in BlockType /\ block'.overflow = block.overflow
        /\ \A i \in Indexes : block'.image[i] = IF i = 1 /\ Target = "EEPROM" THEN 0 ELSE block.image[i]
        /\ pc' = IF block.processState = 1 THEN "prepare" ELSE "upload"
    BY <1>1, NextPacketType, Zenon
  <2>2. \A i \in Indexes : block'.image[i] = block.image[i]
    BY <1>3, <2>1
  <2> QED
    BY <1>1, <1>4, <2>1, <2>2 DEF BlockType
<1>6. OverflowBlock(block) = block.number + 1 /\ OverflowBlock(block') = block.number + 1
  BY <1>4, <1>5 DEF OverflowBlock, SerialImage, SerialHead, At
<1> SUFFICES ASSUME NEW byte \in Nat, IsStored(byte)'
             PROVE  StoredByte(byte)'
  BY DEF StoredAfter
<1> DEFINE next == IF block.overflow /\ Block(byte) = block.number + 1
                     THEN ImageIndex(byte) - 34 ELSE 0
<1>7. IsStored(byte) /\ StoredByte(byte)
  BY <1>1, <1>2 DEF StoredSame, StoredNow, StoredInv, InLoop
<1>8. Waiting(byte) = IF Block(byte) = block.number THEN ImageIndex(byte) ELSE next
  BY <1>1, <1>4, <1>6 DEF Waiting, WaitsUpload, Waits
<1>9. Waiting(byte)' = next
  <2>1. [block' EXCEPT !.number = 0].overflow = block.overflow
        /\ [block' EXCEPT !.number = 0].number = 0
        /\ [block' EXCEPT !.number = 0].image = block.image
    BY <1>5 DEF BlockType
  <2>2. OverflowBlock([block' EXCEPT !.number = 0]) = block.number + 1
    BY <1>5, <1>6, <2>1 DEF OverflowBlock
  <2>3. Waiting(byte)' = Waits([block' EXCEPT !.number = 0], byte)
    BY <1>5 DEF Waiting
  <2> QED
    BY <2>1, <2>2, <2>3 DEF Waits
<1>10. /\ Word(byte) \in Nat /\ Block(byte) \in Nat /\ Word(byte) % 32 \in 0 .. 31
       /\ Word(byte) = 32 * Block(byte) + (Word(byte) % 32)
  BY ByteBlock
<1>11. CASE Block(byte) = block.number
  <2>1. Word(byte) \in SERIAL_EEPROM /\ ~IsFlash(Word(byte))
    <3>1. Block(byte) \in 16 .. 79
      BY <1>4, <1>11
    <3> QED
      BY <3>1, SerialBlock, Zenon
  <2>2. Place(byte) = <<"EEEPROM", Word(byte) - 512>> /\ ImageIndex(byte) = (Word(byte) % 32) + 36
    BY <2>1, Places DEF ImageIndex
  <2> DEFINE n == Word(byte) - 512
  <2>3. n \in First .. First + DataSize - 1 /\ PacketAt + 2 + n - First = ImageIndex(byte)
    <3>1. ASSUME NEW v \in 0 .. 31, Word(byte) = 32 * block.number + v
          PROVE  n - First = v /\ n >= First /\ n <= First + 31
      BY <1>3, <1>4, <3>1
    <3>2. n - First = Word(byte) % 32 /\ n >= First /\ n <= First + 31
      BY <1>10, <1>11, <3>1
    <3> HIDE DEF n
    <3>3. First \in Int
      BY <1>3, <1>4
    <3>4. n \in Int
      BY <1>10 DEF n
    <3> QED
      BY <1>3, <1>10, <2>2, <3>2, <3>3, <3>4
  <2>4. block.image[ImageIndex(byte)] = Data(byte)
    BY <1>7, <1>8, <1>10, <1>11, <2>2 DEF StoredByte
  <2> HIDE DEF n
  <2>5. InDevice(byte)'
    BY <1>1, <1>3, <2>2, <2>3, <2>4, StoreWrites DEF n
  <2>6. Beyond(Block(byte))'
    <3>1. Beyond(block.number)
      BY <1>1, <1>4 DEF StoredNow, ReachedInv
    <3> QED
      BY <1>2, <1>10, <1>11, <3>1 DEF StoredSame
  <2>7. Waiting(byte)' = 0
    BY <1>4, <1>9, <1>11
  <2> QED
    BY <2>5, <2>6, <2>7 DEF StoredByte, Gone
<1>12. CASE Block(byte) # block.number /\ next # 0
  BY <1>5, <1>7, <1>8, <1>9, <1>12 DEF StoredByte
<1>13. CASE Block(byte) # block.number /\ next = 0
  <2>1. Gone(byte)
    BY <1>7, <1>8, <1>13 DEF StoredByte
  <2>2. Place(byte) \notin DOMAIN Written
    <3> SUFFICES ASSUME NEW n \in First .. First + DataSize - 1, Place(byte) = <<Target, n>>
                 PROVE  FALSE
      BY <1>1, PacketType
    <3>1. Word(byte) \in SERIAL_EEPROM
      BY <1>3, Places
    <3>2. n = Word(byte) - 512
      BY <3>1, Places
    <3>3. Block(byte) = block.number
      <4> DEFINE k == Block(byte)
                 w == Word(byte)
                 v == w % 32
      <4>1. v \in 0 .. 31 /\ k \in Nat /\ w \in Nat /\ w = 32 * k + v /\ n = w - 512
        BY <1>10, <3>2
      <4> HIDE DEF k, w, v
      <4>2. k = block.number
        BY <1>3, <1>4, <4>1
      <4> QED
        BY <4>2 DEF k
    <3> QED
      BY <1>13, <3>3
  <2>3. InDevice(byte)'
    BY <1>1, <2>1, <2>2, StoreKeeps DEF Gone
  <2>4. Gone(byte)'
    BY <1>2, <1>10, <2>1, <2>3 DEF Gone, StoredSame
  <2> QED
    BY <1>9, <1>13, <2>4 DEF StoredByte
<1> QED
  BY <1>11, <1>12, <1>13

LEMMA UploadFlashStored ==
  ASSUME StoredNow, Upload, OpResult = "FLASH_BLOCK_READY", FlashImage(block)
  PROVE  StoredAfter
<1> DEFINE number == block.number
           state == block.processState
<1>1. /\ HexInv /\ block \in BlockType /\ PacketInv /\ pc = "upload" /\ Store /\ NextPacket
      /\ UNCHANGED <<records, codeLine, DataInBufferReady, lastLine, OpResult>>
  BY DEF StoredNow, HexInv, TypeOK, Upload, uploadFrame, fileVars
<1>2. StoredSame
  BY <1>1, SameStored DEF InBuffer
<1>3. /\ Target = "FLASH" /\ DataSize = 32 /\ PacketAt = IF state = 2 THEN 0 ELSE 34
      /\ First = number * 64 + (IF state = 2 THEN 0 ELSE 32)
  BY <1>1, PacketOf
<1>4. number \in Nat /\ number >= 352 /\ number <= 511 /\ state \in {1, 2} /\ ~block.overflow
  BY <1>1 DEF FlashImage, BlockType, PacketInv
<1>5. /\ pc' = (IF state = 1 THEN "prepare" ELSE "upload") /\ ~block'.overflow
      /\ block'.image = block.image /\ block'.number = number
      /\ block'.processState = state - 1 /\ block' \in BlockType
  <2>1. /\ block' \in BlockType /\ block'.overflow = block.overflow
        /\ block'.number = block.number /\ block'.processState = block.processState - 1
        /\ \A i \in Indexes : block'.image[i] = IF i = 1 /\ Target = "EEPROM" THEN 0 ELSE block.image[i]
        /\ pc' = IF block.processState = 1 THEN "prepare" ELSE "upload"
    BY <1>1, NextPacketType, Zenon
  <2>2. \A i \in Indexes : block'.image[i] = block.image[i]
    BY <1>3, <2>1
  <2> QED
    BY <1>1, <1>4, <2>1, <2>2 DEF BlockType
<1> SUFFICES ASSUME NEW byte \in Nat, IsStored(byte)'
             PROVE  StoredByte(byte)'
  BY DEF StoredAfter
<1> DEFINE next == IF state = 2 /\ Block(byte) = number /\ byte % 64 >= 32
                     THEN ImageIndex(byte) ELSE 0
<1> HIDE DEF number, state
<1>6. IsStored(byte) /\ StoredByte(byte)
  BY <1>1, <1>2 DEF StoredSame, StoredNow, StoredInv, InLoop
<1>7. Waiting(byte) = IF Block(byte) = number /\ (state = 2 \/ byte % 64 >= 32)
                        THEN ImageIndex(byte) ELSE 0
  BY <1>1 DEF Waiting, WaitsUpload, number, state
<1>8. Waiting(byte)' = next
  <2>1. CASE state = 1
    <3>1. ~[block' EXCEPT !.number = 0].overflow /\ [block' EXCEPT !.number = 0].number = 0
      BY <1>5 DEF BlockType
    <3>2. Waiting(byte)' = Waits([block' EXCEPT !.number = 0], byte)
      BY <1>5, <2>1 DEF Waiting
    <3> QED
      BY <2>1, <3>1, <3>2 DEF Waits
  <2>2. CASE state = 2
    <3>1. pc' = "upload" /\ block'.processState = 1 /\ block'.number = number
          /\ OpResult' = "FLASH_BLOCK_READY"
      BY <1>1, <1>5, <2>2
    <3>2. Waiting(byte)' = WaitsUpload(block', OpResult', byte)
      BY <3>1 DEF Waiting
    <3> QED
      BY <2>2, <3>1, <3>2 DEF WaitsUpload
  <2> QED
    BY <1>4, <2>1, <2>2
<1>9. byte % 64 \in 0 .. 63 /\ byte = 64 * Block(byte) + (byte % 64) /\ Block(byte) \in Nat
  BY ByteBlock
<1> DEFINE r == byte % 64
<1> HIDE DEF r
<1>10. CASE Block(byte) = number /\ (state = 2 <=> r < 32)
  <2>1. IsFlash(Word(byte))
    <3>1. \/ IsFlash(Word(byte)) \/ Word(byte) \in SERIAL_EEPROM
          \/ Word(byte) \in PIC16LF1938_EEPROM
      BY <1>1, <1>6, StoredKept
    <3>2. Block(byte) \notin 16 .. 79 /\ Block(byte) \notin 1920 .. 1927
      BY <1>4, <1>10
    <3> QED
      BY <3>1, <3>2, AreaBlocks
  <2>2. /\ Place(byte) = <<"FLASH", byte>>
        /\ ImageIndex(byte) = r + (IF r < 32 THEN 2 ELSE 4)
    BY <2>1, Places DEF ImageIndex, r
  <2>3. /\ byte \in First .. First + DataSize - 1
        /\ PacketAt + 2 + byte - First = ImageIndex(byte)
    <3>1. r \in 0 .. 63 /\ byte = 64 * number + r
      BY <1>9, <1>10 DEF r
    <3>2. CASE state = 2
      BY <1>3, <1>4, <1>10, <2>2, <3>1, <3>2
    <3>3. CASE state = 1
      BY <1>3, <1>4, <1>10, <2>2, <3>1, <3>3
    <3> QED
      BY <1>4, <3>2, <3>3
  <2>4. block.image[ImageIndex(byte)] = Data(byte)
    <3>1. Waiting(byte) = ImageIndex(byte)
      BY <1>7, <1>9, <1>10 DEF r
    <3>2. ImageIndex(byte) # 0
      BY <1>9, <2>2 DEF r
    <3> QED
      BY <1>6, <3>1, <3>2 DEF StoredByte
  <2>5. InDevice(byte)'
    BY <1>1, <1>3, <2>2, <2>3, <2>4, StoreWrites
  <2>6. Beyond(Block(byte))'
    <3>1. Beyond(number)
      BY <1>1, <1>4 DEF StoredNow, ReachedInv, InLoop, number
    <3> QED
      BY <1>2, <1>9, <1>10, <3>1 DEF StoredSame
  <2>7. Waiting(byte)' = 0
    BY <1>4, <1>8, <1>9, <1>10 DEF r
  <2> QED
    BY <2>5, <2>6, <2>7 DEF StoredByte, Gone
<1>11. CASE next # 0
  <2>1. Waiting(byte) = next
    BY <1>7, <1>11
  <2> QED
    BY <1>5, <1>6, <1>8, <1>11, <2>1 DEF StoredByte
<1>12. CASE next = 0 /\ ~(Block(byte) = number /\ (state = 2 <=> r < 32))
  <2>1. Gone(byte)
    <3>1. Waiting(byte) = 0
      BY <1>4, <1>7, <1>9, <1>12 DEF r
    <3> QED
      BY <1>6, <3>1 DEF StoredByte
  <2>2. Place(byte) \notin DOMAIN Written
    <3> SUFFICES ASSUME NEW n \in First .. First + DataSize - 1, Place(byte) = <<Target, n>>
                 PROVE  FALSE
      BY <1>1, PacketType
    <3>1. IsFlash(Word(byte))
      BY <1>3, Places
    <3>2. n = byte
      BY <3>1, Places
    <3> DEFINE k == Block(byte)
    <3>3. r \in 0 .. 63 /\ byte = 64 * k + r /\ k \in Nat
      BY <1>9 DEF r
    <3> HIDE DEF k
    <3>4. CASE state = 2
      <4>1. k = number /\ r < 32
        BY <1>3, <1>4, <3>2, <3>3, <3>4
      <4> QED
        BY <1>12, <3>4, <4>1 DEF k
    <3>5. CASE state = 1
      <4>1. k = number /\ ~(r < 32)
        BY <1>3, <1>4, <3>2, <3>3, <3>5
      <4> QED
        BY <1>12, <3>5, <4>1 DEF k
    <3> QED
      BY <1>4, <3>4, <3>5
  <2>3. InDevice(byte)'
    BY <1>1, <2>1, <2>2, StoreKeeps DEF Gone
  <2>4. Gone(byte)'
    BY <1>2, <1>9, <2>1, <2>3 DEF Gone, StoredSame
  <2> QED
    BY <1>8, <1>12, <2>4 DEF StoredByte
<1> QED
  BY <1>10, <1>11, <1>12

LEMMA UploadInternalStored ==
  ASSUME StoredNow, Upload, OpResult = "EEPROM_BLOCK_READY", InternalImage(block)
  PROVE  StoredAfter
<1> DEFINE first == block.image[0]
           count == block.image[1]
<1>1. /\ HexInv /\ block \in BlockType /\ PacketInv /\ pc = "upload" /\ Store /\ NextPacket
      /\ UNCHANGED <<records, codeLine, DataInBufferReady, lastLine>>
  BY DEF StoredNow, HexInv, TypeOK, Upload, uploadFrame, fileVars
<1>2. StoredSame
  BY <1>1, SameStored DEF InBuffer
<1>3. Target = "EEPROM" /\ PacketAt = 0 /\ DataSize = count /\ First = first
  BY <1>1, PacketOf
<1>4. /\ first \in Nat /\ first <= 255 /\ count \in Nat /\ count <= 32
      /\ block.processState = 1 /\ ~block.overflow
  BY DEF InternalImage
<1>5. pc' = "prepare" /\ ~block'.overflow /\ block' \in BlockType
  <2>1. /\ block' \in BlockType /\ block'.overflow = block.overflow
        /\ pc' = IF block.processState = 1 THEN "prepare" ELSE "upload"
    BY <1>1, NextPacketType
  <2> QED
    BY <1>4, <2>1
<1> SUFFICES ASSUME NEW byte \in Nat, IsStored(byte)'
             PROVE  StoredByte(byte)'
  BY DEF StoredAfter
<1> HIDE DEF first, count
<1>6. IsStored(byte) /\ StoredByte(byte)
  BY <1>1, <1>2 DEF StoredSame, StoredNow, StoredInv, InLoop
<1>7. Waiting(byte) = IF Word(byte) - 61440 - first \in 0 .. count - 1
                        THEN Word(byte) - 61440 - first + 2 ELSE 0
  BY <1>1 DEF Waiting, WaitsUpload, first, count
<1>8. Waiting(byte)' = 0
  <2>1. ~[block' EXCEPT !.number = 0].overflow /\ [block' EXCEPT !.number = 0].number = 0
    BY <1>5 DEF BlockType
  <2>2. Waiting(byte)' = Waits([block' EXCEPT !.number = 0], byte)
    BY <1>5 DEF Waiting
  <2> QED
    BY <2>1, <2>2 DEF Waits
<1>9. Word(byte) \in Nat /\ Block(byte) \in Nat
  BY ByteBlock
<1> DEFINE n == Word(byte) - 61440
<1>10. CASE n - first \in 0 .. count - 1
  <2>1. Word(byte) \in PIC16LF1938_EEPROM
    <3>1. Word(byte) >= 61440
      BY <1>4, <1>9, <1>10
    <3>2. \/ IsFlash(Word(byte)) \/ Word(byte) \in SERIAL_EEPROM
          \/ Word(byte) \in PIC16LF1938_EEPROM
      BY <1>1, <1>6, StoredKept
    <3>3. ~IsFlash(Word(byte)) /\ Word(byte) \notin SERIAL_EEPROM
      BY <1>9, <3>1, FlashArea, EEPROMAreas
    <3> QED
      BY <3>2, <3>3
  <2>2. Place(byte) = <<"EEPROM", n>>
    BY <2>1, Places
  <2>3. n \in Int /\ n >= first /\ n <= first + count - 1
    BY <1>4, <1>9, <1>10
  <2>4. n \in First .. First + DataSize - 1
    BY <1>3, <1>4, <2>3
  <2>5. block.image[PacketAt + 2 + n - First] = Data(byte)
    <3>1. Waiting(byte) = n - first + 2 /\ Waiting(byte) # 0
      BY <1>7, <1>10, <2>3, <1>4
    <3>2. PacketAt + 2 + n - First = n - first + 2
      BY <1>3, <1>4, <2>3
    <3> QED
      BY <1>6, <3>1, <3>2 DEF StoredByte
  <2> HIDE DEF n
  <2>6. InDevice(byte)'
    BY <1>1, <1>3, <2>2, <2>4, <2>5, StoreWrites
  <2> QED
    BY <1>8, <2>1, <2>6 DEF StoredByte, Gone
<1>11. CASE n - first \notin 0 .. count - 1
  <2>1. Gone(byte)
    <3>1. Waiting(byte) = 0
      BY <1>7, <1>11
    <3> QED
      BY <1>6, <3>1 DEF StoredByte
  <2>2. Place(byte) \notin DOMAIN Written
    <3> SUFFICES ASSUME NEW m \in First .. First + DataSize - 1, Place(byte) = <<Target, m>>
                 PROVE  FALSE
      BY <1>1, PacketType
    <3>1. Word(byte) \in PIC16LF1938_EEPROM
      BY <1>3, Places
    <3>2. m = n
      BY <3>1, Places
    <3>3. m - first \in 0 .. count - 1
      BY <1>3, <1>4
    <3> QED
      BY <1>11, <3>2, <3>3
  <2>3. InDevice(byte)'
    BY <1>1, <2>1, <2>2, StoreKeeps DEF Gone
  <2>4. Gone(byte)'
    BY <1>2, <1>9, <2>1, <2>3 DEF Gone, StoredSame
  <2> QED
    BY <1>8, <2>4 DEF StoredByte
<1> QED
  BY <1>10, <1>11

-----------------------------------------------------------------------------
(* Every step but an upload leaves the device alone, and the bytes stored  *)
(* in the image it begins with.                                            *)
StoredIn(b, byte) ==
  IF Waits(b, byte) # 0 THEN b.image[Waits(b, byte)] = Data(byte) ELSE Gone(byte)

(* The image of the next block, moved, holds what it held.                 *)
LEMMA MovedStored ==
  ASSUME NEW b \in BlockType, b.number = 0, b.overflow, OverflowImage(b),
         NEW byte \in Nat, StoredIn(b, byte)
  PROVE  StoredIn(MoveOverflowedData(b), byte)
<1> DEFINE m == MoveOverflowedData(b)
           n == OverflowBlock(b)
<1>1. /\ m.number = n /\ m.overflow = FALSE /\ n # 0
      /\ \A i \in Indexes : i >= 34 => m.image[i] = b.image[i - 34]
  <2> DEFINE next == (((b.image[0] + 256 * b.image[1]) \div 32) + 1) * 32
             first == Lo(next)
             second == Hi(next)
  <2>1. m.number # 0
    BY MovedType
  <2>2. /\ m.number = n /\ m.overflow = FALSE
        /\ m.image = [i \in Indexes |-> IF i >= 34 THEN b.image[i - 34]
                                        ELSE IF i = 0 THEN first
                                        ELSE IF i = 1 THEN second ELSE 0]
    BY DEF MoveOverflowedData, OverflowBlock, At
  <2> HIDE DEF m, first, second
  <2>3. \A i \in Indexes : i >= 34 => m.image[i] = b.image[i - 34]
    BY <2>2
  <2> QED
    BY <2>1, <2>2, <2>3
<1>2. n \in 17 .. 79
  <2>1. PICK k \in 17 .. 79 : At(b.image, 0) = (k - 16) * 32
    BY DEF OverflowImage, SerialHead
  <2> QED
    BY <2>1 DEF OverflowBlock
<1> HIDE DEF m, n
<1>3. Waits(m, byte) = IF Block(byte) = n THEN ImageIndex(byte) ELSE 0
  BY <1>1 DEF Waits
<1>4. Waits(b, byte) = IF Block(byte) = n THEN ImageIndex(byte) - 34 ELSE 0
  BY DEF Waits, n
<1>5. CASE Block(byte) = n
  <2>1. ~IsFlash(Word(byte))
    BY <1>2, <1>5, AreaBlocks
  <2>2. ImageIndex(byte) = (Word(byte) % 32) + 36 /\ Word(byte) % 32 \in 0 .. 31
    BY <2>1, ByteBlock DEF ImageIndex
  <2>3. ImageIndex(byte) \in 36 .. 67
    BY <2>2
  <2>4. m.image[ImageIndex(byte)] = b.image[ImageIndex(byte) - 34]
    BY <1>1, <2>3 DEF Indexes
  <2>5. Waits(m, byte) # 0 /\ Waits(b, byte) # 0
    BY <1>3, <1>4, <1>5, <2>3
  <2>6. b.image[ImageIndex(byte) - 34] = Data(byte)
    BY <1>4, <1>5, <2>5 DEF StoredIn
  <2>7. StoredIn(m, byte)
    BY <1>3, <1>5, <2>4, <2>5, <2>6 DEF StoredIn
  <2> QED
    BY <2>7 DEF m
<1>6. CASE Block(byte) # n
  <2>1. Gone(byte)
    BY <1>4, <1>6 DEF StoredIn
  <2>2. StoredIn(m, byte)
    BY <1>3, <1>6, <2>1 DEF StoredIn
  <2> QED
    BY <2>2 DEF m
<1> QED
  BY <1>5, <1>6

LEMMA GoneStays ==
  ASSUME StoredSame \/ StoredGrown, UNCHANGED memory, NEW byte \in Nat, Gone(byte)
  PROVE  Gone(byte)'
<1>1. InDevice(byte)' <=> InDevice(byte)
  BY DEF InDevice
<1>2. Block(byte) \in Int
  BY ByteBlock
<1> QED
  BY <1>1, <1>2 DEF Gone, StoredSame, StoredGrown

LEMMA PrepareStored ==
  ASSUME StoredNow, Prepare
  PROVE  StoredAfter
<1>1. /\ block \in BlockType /\ pc = "prepare" /\ pc' \in {"read", "process"}
      /\ UNCHANGED <<records, codeLine, DataInBufferReady, lastLine, memory>>
  BY DEF StoredNow, HexInv, TypeOK, Prepare, GoTo, prepareFrame, fileVars
<1>2. StoredSame
  BY <1>1, SameStored DEF InBuffer
<1>3. /\ block'.number = 0 /\ block'.overflow = block.overflow
      /\ block.overflow => block'.image = block.image
  BY <1>1 DEF Prepare, BlockType
<1> SUFFICES ASSUME NEW byte \in Nat, IsStored(byte)'
             PROVE  StoredByte(byte)'
  BY DEF StoredAfter
<1>4. IsStored(byte) /\ StoredByte(byte)
  BY <1>1, <1>2 DEF StoredSame, StoredNow, StoredInv, InLoop
<1> DEFINE before == [block EXCEPT !.number = 0]
<1>5. /\ before.number = 0 /\ before.overflow = block.overflow /\ before.image = block.image
  BY <1>1 DEF BlockType
<1>6. Waiting(byte) = Waits(before, byte) /\ Waiting(byte)' = Waits(block', byte)
  BY <1>1 DEF Waiting
<1> HIDE DEF before
<1>7. block.overflow => OverflowBlock(block') = OverflowBlock(before)
  BY <1>3, <1>5 DEF OverflowBlock
<1>8. Waits(block', byte) = Waits(before, byte) /\ (Waits(before, byte) # 0 => block.overflow)
  BY <1>1, <1>3, <1>5, <1>7 DEF Waits, BlockType
<1>9. CASE Waiting(byte) # 0
  BY <1>3, <1>4, <1>6, <1>8, <1>9 DEF StoredByte
<1>10. CASE Waiting(byte) = 0
  <2>1. Gone(byte)'
    BY <1>1, <1>2, <1>4, <1>10, GoneStays DEF StoredByte
  <2> QED
    BY <1>6, <1>8, <1>10, <2>1 DEF StoredByte
<1> QED
  BY <1>9, <1>10

(* Steps that keep the image, while it is filled.                          *)
LEMMA KeptImageStored ==
  ASSUME StoredNow, pc \in {"read", "process"}, pc' \in {"read", "process"},
         block' = block, StoredSame, UNCHANGED memory
  PROVE  StoredAfter
<1> SUFFICES ASSUME NEW byte \in Nat, IsStored(byte)'
             PROVE  StoredByte(byte)'
  BY DEF StoredAfter
<1>1. IsStored(byte) /\ StoredByte(byte)
  BY DEF StoredSame, StoredNow, StoredInv, InLoop
<1>2. Waiting(byte) = Waits(block, byte) /\ Waiting(byte)' = Waits(block, byte)
  BY DEF Waiting
<1>3. CASE Waiting(byte) # 0
  BY <1>1, <1>2, <1>3 DEF StoredByte
<1>4. CASE Waiting(byte) = 0
  BY <1>1, <1>2, <1>4, GoneStays DEF StoredByte
<1> QED
  BY <1>3, <1>4

(* The packets of an image ready to be filled are what it holds.           *)
LEMMA ReadyWaits ==
  ASSUME NEW b \in BlockType, ReadyImage(b), b.number # 0, NEW byte
  PROVE  WaitsUpload(b, Ready(b.number), byte) = Waits(b, byte)
<1>1. CASE SerialImage(b)
  <2>1. b.number < 80
    BY <1>1 DEF SerialImage
  <2> QED
    BY <2>1 DEF WaitsUpload, Ready
<1>2. CASE FlashImage(b) /\ b.processState = 2
  <2>1. ~(b.number < 80) /\ ~b.overflow
    BY <1>2 DEF FlashImage
  <2> QED
    BY <1>2, <2>1 DEF WaitsUpload, Ready, Waits
<1> QED
  BY <1>1, <1>2 DEF ReadyImage, EmptyImage

LEMMA EndOfFileStored ==
  ASSUME StoredNow, EndOfFile, pc' = "upload"
  PROVE  StoredAfter
<1>1. /\ block \in BlockType /\ ReadyImage(block) /\ pc = "read"
      /\ UNCHANGED <<records, codeLine, DataInBufferReady, memory>> /\ lastLine' = "end"
  BY DEF StoredNow, HexInv, TypeOK, ImageInv, Careful, EndOfFile, Returns, GoTo, prepareFrame
<1>2. StoredSame
  BY <1>1, SameStored DEF InBuffer
<1> SUFFICES ASSUME NEW byte \in Nat, IsStored(byte)'
             PROVE  StoredByte(byte)'
  BY DEF StoredAfter
<1>3. StoredIn(block, byte)
  BY <1>1, <1>2 DEF StoredSame, StoredNow, StoredInv, InLoop, StoredByte, StoredIn, Waiting
<1>4. PICK b \in BlockType : /\ block' = b /\ ReadyImage(b) /\ b.number # 0
                             /\ OpResult' = Ready(b.number)
                             /\ StoredIn(b, byte)
  <2>1. CASE block.number # 0
    BY <1>1, <1>3, <2>1 DEF EndOfFile, Returns
  <2>2. CASE block.number = 0 /\ block.overflow
    <3> DEFINE m == MoveOverflowedData(block)
    <3>1. OverflowImage(block)
      BY <1>1, <2>2 DEF ReadyImage, EmptyImage, FlashImage
    <3>2. m \in BlockType /\ m.number # 0 /\ SerialImage(m) /\ ~m.overflow /\ StoredIn(m, byte)
      BY <1>1, <1>3, <2>2, <3>1, MovedType, MovedImage, MovedStored
    <3>3. block' = m /\ OpResult' = "EEEPROM_BLOCK_READY"
      BY <2>2 DEF EndOfFile, Returns
    <3> HIDE DEF m
    <3>4. m.number < 80
      BY <3>2 DEF SerialImage
    <3>5. Ready(m.number) = "EEEPROM_BLOCK_READY" /\ ReadyImage(m)
      BY <3>2, <3>4 DEF Ready, ReadyImage
    <3> QED
      BY <3>2, <3>3, <3>5
  <2>3. CASE block.number = 0 /\ ~block.overflow
    BY <2>3 DEF EndOfFile, Returns, GoTo
  <2> QED
    BY <2>1, <2>2, <2>3
<1>5. Waiting(byte)' = WaitsUpload(b, Ready(b.number), byte)
  BY <1>4 DEF Waiting
<1>6. Waiting(byte)' = Waits(b, byte)
  BY <1>4, <1>5, ReadyWaits
<1>7. CASE Waits(b, byte) # 0
  BY <1>4, <1>6, <1>7 DEF StoredByte, StoredIn
<1>8. CASE Waits(b, byte) = 0
  <2>1. Gone(byte)'
    BY <1>1, <1>2, <1>4, <1>8, GoneStays DEF StoredIn
  <2> QED
    BY <1>6, <1>8, <2>1 DEF StoredByte
<1> QED
  BY <1>7, <1>8

(* The bytes of the line that the device keeps.                            *)
LEMMA LineBytes ==
  ASSUME HandledLine, NEW byte \in Kept(Last)
  PROVE  /\ byte \in Nat /\ byte >= 2 * Address /\ byte < 2 * Address + codeLine.length
         /\ Address \in Nat /\ codeLine.length = 2 * (codeLine.length \div 2)
         /\ Block(Last.start) = Address \div 32
         /\ \/ /\ IsFlash(Address) /\ IsFlash(Word(byte))
               /\ Word(byte) # 16383 /\ Word(byte) # 14271
            \/ Address \in SERIAL_EEPROM /\ byte = 2 * Word(byte)
            \/ Address \in PIC16LF1938_EEPROM /\ byte = 2 * Word(byte)
<1>1. Address \in Nat /\ codeLine.length \in Nat /\ codeLine.length <= 58
  BY LineAddress DEF HandledLine
<1>2. Last \in RecordType /\ End(Last) = Last.start + codeLine.length
  BY LastRecord DEF HandledLine
<1>3. /\ byte \in Nat /\ Last.start <= byte /\ byte < End(Last)
      /\ \/ IsFlash(Word(byte))
         \/ byte % 2 = 0 /\ Word(byte) \in SERIAL_EEPROM
         \/ byte % 2 = 0 /\ Word(byte) \in PIC16LF1938_EEPROM
      /\ Word(byte) # 16383 /\ Word(byte) # 14271
  BY <1>2, KeptBytes
<1>4. codeLine.length # 0
  <2>1. Last.start \in Nat
    BY <1>2 DEF RecordType
  <2> QED
    BY <1>2, <1>3, <2>1
<1>5. Last.start = 2 * Address /\ codeLine.length = 2 * (codeLine.length \div 2)
  BY <1>4, LineStart
<1>6. byte >= 2 * Address /\ byte < 2 * Address + codeLine.length
  BY <1>1, <1>2, <1>3, <1>5
<1> DEFINE last == (Address + (codeLine.length \div 2)) - 1
           w == Word(byte)
<1>7. /\ last \in Nat
      /\ IsFlash(Address) <=> IsFlash(last)
      /\ Address \in SERIAL_EEPROM <=> last \in SERIAL_EEPROM
      /\ Address \in PIC16LF1938_EEPROM <=> last \in PIC16LF1938_EEPROM
  BY <1>4, LineEnd
<1>8. w \in Nat /\ w >= Address /\ w <= last /\ last <= Address + 28
  BY <1>1, <1>3, <1>5, <1>6 DEF Word
<1>9. byte % 2 = 0 => byte = 2 * w
  BY <1>3 DEF Word
<1>10. Block(Last.start) = Address \div 32
  <2>1. Word(2 * Address) = Address
    BY <1>1 DEF Word
  <2> QED
    BY <1>5, <2>1 DEF Block
<1> HIDE DEF last, w
<1>11. CASE IsFlash(w)
  <2>1. IsFlash(Address) \/ IsFlash(last)
    BY <1>1, <1>7, <1>8, <1>11, FlashArea
  <2> QED
    BY <1>1, <1>3, <1>5, <1>6, <1>7, <1>10, <1>11, <2>1 DEF w
<1>12. CASE byte % 2 = 0 /\ w \in SERIAL_EEPROM
  <2>1. Address \in SERIAL_EEPROM \/ last \in SERIAL_EEPROM
    BY <1>1, <1>7, <1>8, <1>12, EEPROMAreas
  <2> QED
    BY <1>1, <1>3, <1>5, <1>6, <1>7, <1>9, <1>10, <1>12, <2>1 DEF w
<1>13. CASE byte % 2 = 0 /\ w \in PIC16LF1938_EEPROM
  <2>1. Address \in PIC16LF1938_EEPROM \/ last \in PIC16LF1938_EEPROM
    BY <1>1, <1>7, <1>8, <1>13, EEPROMAreas
  <2> QED
    BY <1>1, <1>3, <1>5, <1>6, <1>7, <1>9, <1>10, <1>13, <2>1 DEF w
<1> QED
  BY <1>3, <1>11, <1>12, <1>13 DEF w

(* The block of the line.                                                  *)
LEMMA LineBlock ==
  ASSUME HandledLine, Address # 0
  PROVE  Block(Last.start) = Address \div 32 /\ Address \div 32 \in Nat
<1>1. Last.start = 2 * Address /\ Address \in Nat
  BY LineStart, LineAddress DEF HandledLine
<1>2. Word(2 * Address) = Address
  BY <1>1 DEF Word
<1> QED
  BY <1>1, <1>2 DEF Block

ReachedAfter ==
  /\ block'.overflow => Reached(OverflowBlock(block))'
  /\ pc' \in {"read", "process"} /\ block'.number # 0 => Reached(block.number)'
  /\ pc' = "upload" /\ block'.number # 0 => Beyond(block.number)'

(* The image a line is added to, or that is uploaded before it is.         *)
LEMMA ProcessCurrent ==
  ASSUME StoredNow, HandledLine
  PROVE  /\ block \in BlockType /\ ReadyImage(block)
         /\ Current \in BlockType /\ ReadyImage(Current) /\ ~Current.overflow
         /\ \A byte \in Nat : IsStored(byte) => StoredIn(Current, byte)
         /\ Current.number # 0 =>
              Reached(Current.number) /\ Current.number <= Block(Last.start)
<1>1. block \in BlockType /\ ReadyImage(block) /\ pc = "process"
  BY DEF StoredNow, HexInv, TypeOK, ImageInv, Careful, HandledLine
<1>2. Current \in BlockType /\ ReadyImage(Current) /\ ~Current.overflow
  BY <1>1, CurrentType, CurrentImage
<1>3. ASSUME NEW byte \in Nat, IsStored(byte)
      PROVE  StoredIn(Current, byte)
  <2>1. StoredIn(block, byte)
    BY <1>1, <1>3 DEF StoredNow, StoredInv, InLoop, StoredByte, StoredIn, Waiting
  <2>2. CASE block.overflow
    <3>1. block.number = 0 /\ OverflowImage(block)
      BY <1>1, <2>2 DEF ReadyImage, EmptyImage, FlashImage
    <3> QED
      BY <1>1, <2>1, <2>2, <3>1, MovedStored DEF Current
  <2>3. CASE ~block.overflow
    BY <2>1, <2>3 DEF Current
  <2> QED
    BY <2>2, <2>3
<1>4. ASSUME Current.number # 0
      PROVE  Reached(Current.number)
  <2>1. CASE block.overflow
    <3>1. Current.number = OverflowBlock(block)
      BY <2>1 DEF Current, MoveOverflowedData, OverflowBlock, At
    <3>2. Reached(OverflowBlock(block))
      BY <1>1, <2>1 DEF StoredNow, ReachedInv, InLoop
    <3> QED
      BY <3>1, <3>2
  <2>2. CASE ~block.overflow
    BY <1>1, <1>4, <2>2 DEF Current, StoredNow, ReachedInv
  <2> QED
    BY <2>1, <2>2
<1>5. Current.number # 0 => Current.number <= Block(Last.start)
  <2>1. Current.number \in Int /\ Sorted
    BY <1>2 DEF BlockType, StoredNow, Careful
  <2> QED
    BY <1>4, <2>1, ReachedBefore
<1> QED
  BY <1>1, <1>2, <1>3, <1>4, <1>5

(* An image uploaded before the line, which begins another block.          *)
LEMMA UploadFirstStored ==
  ASSUME StoredNow, HandledLine, UploadFirst(Current), Current.number # 0,
         Current.number # Block(Last.start), UNCHANGED <<codeLine, fileVars>>
  PROVE  StoredAfter /\ ReachedAfter
<1> DEFINE b == Current
<1>1. /\ b \in BlockType /\ ReadyImage(b) /\ ~b.overflow
      /\ \A byte \in Nat : IsStored(byte) => StoredIn(b, byte)
      /\ b.number <= Block(Last.start)
  BY ProcessCurrent
<1>2. /\ block' = b /\ OpResult' = Ready(b.number) /\ pc' = "upload"
      /\ UNCHANGED <<records, codeLine, DataInBufferReady, lastLine, memory>>
  BY DEF UploadFirst, Returns, GoTo, Ready, fileVars, prepareFrame
<1>3. StoredSame
  BY <1>2, SameStored DEF InBuffer
<1> HIDE DEF b
<1>4. StoredAfter
  <2> SUFFICES ASSUME NEW byte \in Nat, IsStored(byte)'
               PROVE  StoredByte(byte)'
    BY DEF StoredAfter
  <2>1. StoredIn(b, byte)
    BY <1>1, <1>3 DEF StoredSame
  <2>2. Waiting(byte)' = WaitsUpload(b, Ready(b.number), byte)
    BY <1>2 DEF Waiting
  <2>3. Waiting(byte)' = Waits(b, byte)
    BY <1>1, <2>2, ReadyWaits DEF b
  <2>4. CASE Waits(b, byte) # 0
    BY <1>2, <2>1, <2>3, <2>4 DEF StoredByte, StoredIn
  <2>5. CASE Waits(b, byte) = 0
    <3>1. Gone(byte)'
      BY <1>2, <1>3, <2>1, <2>5, GoneStays DEF StoredIn
    <3> QED
      BY <2>3, <2>5, <3>1 DEF StoredByte
  <2> QED
    BY <2>4, <2>5
<1>5. ReachedAfter
  <2>1. b.number \in Int /\ Block(Last.start) \in Int
    BY <1>1, StoredBefore, BlockOrder DEF BlockType, StoredNow, Careful
  <2>2. Block(Last.start) > b.number
    BY <1>1, <2>1 DEF b
  <2>3. InBuffer
    BY LineAddress DEF HandledLine, HexInv, BufferInv, InBuffer
  <2>4. Beyond(b.number)
    BY <2>2, <2>3 DEF Beyond
  <2>5. Beyond(block.number)'
    BY <1>2, <1>3, <2>1, <2>4 DEF StoredSame
  <2> QED
    BY <1>1, <1>2, <2>5 DEF ReachedAfter
<1> QED
  BY <1>4, <1>5

-----------------------------------------------------------------------------
(* A line taken: its bytes are in the image, and those stored before stay  *)
(* where they were.                                                        *)

LEMMA LineTaken ==
  ASSUME StoredNow, HandledLine, UNCHANGED <<codeLine, fileVars>>, ~DataInBufferReady'
  PROVE  /\ StoredGrown
         /\ \A byte \in Nat : IsStored(byte) =>
              /\ StoredIn(Current, byte) /\ byte < Last.start
              /\ Block(byte) <= Block(Last.start)
              /\ Gone(byte) =>
                   Word(byte) \in PIC16LF1938_EEPROM \/ Block(byte) < Block(Last.start)
<1>1. HexInv /\ InBuffer /\ Sorted /\ records' = records /\ lastLine' = lastLine
  BY LineAddress DEF HandledLine, HexInv, BufferInv, InBuffer, StoredNow, Careful, fileVars
<1>2. StoredGrown
  BY <1>1, TakenStored
<1>3. ASSUME NEW byte \in Nat, IsStored(byte)
      PROVE  byte < Last.start /\ Block(byte) <= Block(Last.start)
  <2>1. byte < Last.start /\ Last.start \in Nat
    BY <1>1, <1>3, StoredBefore
  <2> QED
    BY <2>1, BlockOrder
<1> QED
  BY <1>1, <1>2, <1>3, ProcessCurrent, GoneBefore

LEMMA PutSerialStored ==
  ASSUME StoredNow, HandledLine, Address \in SERIAL_EEPROM,
         NEW N, N = Address \div 32,
         NEW b \in BlockType, SerialImage(b), ~b.overflow, b.number = N,
         b = Current \/ Current.number = 0,
         NEW to, to = (Address % 32) + 36, NEW count, count = codeLine.length \div 2,
         block' = PutSerial(b, to, count),
         \/ block'.overflow /\ pc' = "upload" /\ OpResult' = "EEEPROM_BLOCK_READY"
         \/ ~block'.overflow /\ pc' = "read",
         ~DataInBufferReady', UNCHANGED <<codeLine, memory, fileVars>>
  PROVE  StoredAfter /\ ReachedAfter
<1> DEFINE m == PutSerial(b, to, count)
           w == Address % 32
<1>1. DataInBuffer /\ Address \in Nat /\ Address >= 512 /\ Address <= 2559 /\ count \in 0 .. 29
  BY LineAddress, EEPROMAreas DEF HandledLine
<1>2. N \in 16 .. 79 /\ w \in 0 .. 31 /\ Address = 32 * N + w /\ to = w + 36
  BY <1>1
<1>3. /\ SerialImage(m) /\ m.number = N /\ m.overflow = (to + count > 68)
      /\ \A i \in Indexes : m.image[i] =
           IF SerialWord(i, to) \in 0 .. count - 1 /\ i # 0 /\ i # 1
             THEN WordData(SerialWord(i, to)) ELSE b.image[i]
  <2>1. DataInBuffer /\ to \in 36 .. 67 /\ count \in 0 .. 29
    BY <1>1, <1>2
  <2>2. SerialImage(m)
    BY PutSerialImage
  <2>3. /\ m.number = b.number /\ m.overflow = (to + count > 68)
        /\ \A i \in Indexes : m.image[i] =
             IF SerialWord(i, to) \in 0 .. count - 1 /\ i # 0 /\ i # 1
               THEN WordData(SerialWord(i, to)) ELSE b.image[i]
    BY <2>1, PutSerialType, ZenonT(60)
  <2> QED
    BY <2>2, <2>3
<1> HIDE DEF m
<1>4. OverflowBlock(m) = N + 1
  <2>1. At(m.image, 0) = ((N + 1) - 16) * 32
    BY <1>3 DEF SerialImage, SerialHead
  <2> QED
    BY <1>2, <2>1 DEF OverflowBlock
<1>5. StoredGrown /\ Block(Last.start) = N
  BY <1>1, LineTaken, LineBlock
<1> HIDE DEF w
<1>6. StoredAfter
  <2> SUFFICES ASSUME NEW byte \in Nat, IsStored(byte)'
               PROVE  StoredByte(byte)'
    BY DEF StoredAfter
  <2>1. Waiting(byte)' = IF Block(byte) = N THEN ImageIndex(byte)
                         ELSE IF m.overflow /\ Block(byte) = N + 1 THEN ImageIndex(byte) - 34
                         ELSE 0
    <3>1. block' = m
      BY DEF m
    <3>2. Waiting(byte)' = Waits(m, byte)
      BY <3>1 DEF Waiting, WaitsUpload
    <3> QED
      BY <1>2, <1>3, <1>4, <3>2 DEF Waits
  <2>2. /\ Word(byte) \in Nat /\ Block(byte) \in Nat /\ Word(byte) % 32 \in 0 .. 31
        /\ Word(byte) = 32 * Block(byte) + (Word(byte) % 32)
    BY ByteBlock
  <2> DEFINE k == Block(byte)
             v == Word(byte) % 32
  <2>3. k \in 16 .. 79 => ImageIndex(byte) = v + 36
    <3>1. k \in 16 .. 79 => ~IsFlash(Word(byte))
      <4>1. IsFlash(Word(byte)) => k \in 352 .. 511
        BY AreaBlocks
      <4> HIDE DEF k
      <4> QED
        BY <4>1
    <3> QED
      BY <3>1 DEF ImageIndex
  <2>4. IsStored(byte) \/ byte \in Kept(Last)
    BY <1>5 DEF StoredGrown
  <2>5. CASE IsStored(byte)
    <3>1. /\ StoredIn(Current, byte) /\ byte < Last.start /\ k <= N
          /\ Gone(byte) => Word(byte) \in PIC16LF1938_EEPROM \/ k < N
      BY <1>5, <2>5, LineTaken
    <3>2. Word(byte) \notin PIC16LF1938_EEPROM
      <4>1. k \in Nat /\ k <= N
        BY <2>2, <3>1
      <4> HIDE DEF k
      <4>2. k \notin 1920 .. 1927
        BY <1>2, <4>1
      <4> QED
        BY <4>2, AreaBlocks DEF k
    <3>3. CASE k = N
      <4>1. Current.number # 0
        <5>1. ~Gone(byte)
          BY <1>2, <3>1, <3>2, <3>3
        <5>2. ~Current.overflow
          BY ProcessCurrent
        <5> QED
          BY <3>1, <5>1, <5>2 DEF StoredIn, Waits
      <4>2. b.image[v + 36] = Data(byte)
        <5>1. b = Current /\ b.number = N
          BY <4>1
        <5>2. Waits(b, byte) = v + 36
          BY <1>2, <2>3, <3>3, <5>1 DEF Waits
        <5>3. v + 36 # 0
          BY <2>2
        <5> QED
          BY <3>1, <5>1, <5>2, <5>3 DEF StoredIn
      <4>3. v < w
        <5>1. Last.start = 2 * Address
          BY <1>1, LineStart
        <5>2. Word(byte) < Address
          BY <1>1, <3>1, <5>1 DEF Word
        <5> DEFINE x == Word(byte)
        <5>3. x \in Nat /\ x = 32 * N + v /\ x < Address /\ v \in 0 .. 31
          BY <2>2, <3>3, <5>2
        <5> HIDE DEF x, v
        <5> QED
          BY <1>1, <1>2, <5>3
      <4> HIDE DEF k, v
      <4>4. v \in 0 .. 31 /\ v + 36 \in Indexes
        BY <2>2 DEF v, Indexes
      <4>5. SerialWord(v + 36, to) \notin 0 .. count - 1
        BY <1>1, <1>2, <4>3, <4>4 DEF SerialWord
      <4>6. m.image[v + 36] = Data(byte)
        BY <1>3, <4>2, <4>4, <4>5
      <4>7. Waiting(byte)' = v + 36
        BY <1>2, <2>1, <2>3, <3>3 DEF k
      <4>8. block' = m /\ v + 36 # 0
        BY <4>4 DEF m
      <4> QED
        BY <4>6, <4>7, <4>8 DEF StoredByte
    <3>4. CASE k # N
      <4>1. Gone(byte)
        <5>1. Waits(Current, byte) = 0
          BY <3>4, ProcessCurrent DEF Waits
        <5> QED
          BY <3>1, <5>1 DEF StoredIn
      <4>2. Gone(byte)'
        BY <1>5, <4>1, GoneStays
      <4>3. Waiting(byte)' = 0
        <5>1. k # N + 1
          <6>1. k \in Nat /\ k <= N
            BY <2>2, <3>1
          <6> HIDE DEF k
          <6> QED
            BY <1>2, <6>1
        <5> QED
          BY <2>1, <3>4, <5>1
      <4> QED
        BY <4>2, <4>3 DEF StoredByte
    <3> QED
      BY <3>3, <3>4
  <2>6. CASE byte \in Kept(Last)
    <3>1. /\ byte >= 2 * Address /\ byte < 2 * Address + 2 * count
          /\ byte = 2 * Word(byte)
      <4>1. ~IsFlash(Address) /\ Address \notin PIC16LF1938_EEPROM
        BY <1>1, FlashArea, EEPROMAreas
      <4>2. /\ byte >= 2 * Address /\ byte < 2 * Address + codeLine.length
            /\ codeLine.length = 2 * (codeLine.length \div 2)
            /\ \/ IsFlash(Address)
               \/ byte = 2 * Word(byte)
               \/ Address \in PIC16LF1938_EEPROM
        BY <2>6, LineBytes
      <4> QED
        BY <4>1, <4>2
    <3> DEFINE n == Word(byte) - Address
               at == IF k = N THEN v + 36 ELSE v + 2
    <3>2. n \in 0 .. count - 1 /\ WordData(n) = Data(byte)
      <4> DEFINE x == Word(byte)
      <4>1. x \in Nat /\ n = x - Address /\ byte = 2 * x
        BY <2>2, <3>1
      <4>2. HiAddress + codeLine.address = 2 * Address
        BY <1>1, LineStart
      <4> HIDE DEF x, n
      <4>3. n \in 0 .. count - 1 /\ 2 * Address + 2 * n = byte
        BY <1>1, <3>1, <4>1
      <4> QED
        BY <4>2, <4>3 DEF WordData
    <3>3. \/ k = N /\ v = w + n
          \/ k = N + 1 /\ v = w + n - 32 /\ to + count > 68
      <4> DEFINE x == Word(byte)
      <4>1. x \in Nat /\ k \in Nat /\ v \in 0 .. 31 /\ x = 32 * k + v /\ n = x - Address
        BY <2>2
      <4> HIDE DEF x, k, v, n
      <4>2. 32 * k + v = 32 * N + (w + n) /\ n \in 0 .. 28
        BY <1>1, <1>2, <3>2, <4>1
      <4> QED
        BY <1>1, <1>2, <3>2, <4>1, <4>2
    <3>4. k \in 16 .. 79
      <4>1. m.overflow => N <= 78
        BY <1>3 DEF SerialImage
      <4>2. to + count > 68 => N <= 78
        BY <1>3, <4>1, Zenon
      <4> HIDE DEF k, v, n
      <4>3. CASE k = N
        BY <1>2, <4>3
      <4>4. CASE k = N + 1 /\ to + count > 68
        BY <1>2, <4>2, <4>4
      <4> QED
        BY <3>3, <4>3, <4>4
    <3>5. Waiting(byte)' = at
      <4>1. ImageIndex(byte) = v + 36
        BY <2>3, <3>4
      <4>2. to + count > 68 => m.overflow
        BY <1>3, Zenon
      <4>3. v \in 0 .. 31
        BY <2>2
      <4>4. CASE k = N
        BY <2>1, <4>1, <4>4
      <4>5. CASE k = N + 1 /\ to + count > 68
        <5>1. k # N
          BY <1>2, <4>5
        <5>2. Waiting(byte)' = ImageIndex(byte) - 34
          BY <2>1, <4>2, <4>5, <5>1
        <5> HIDE DEF k, v
        <5> QED
          BY <4>1, <4>3, <5>1, <5>2
      <4> QED
        BY <3>3, <4>4, <4>5
    <3> HIDE DEF n
    <3>6. at \in Indexes /\ at # 0 /\ at # 1 /\ SerialWord(at, to) = n
      <4>0. v \in 0 .. 31
        BY <2>2
      <4> HIDE DEF k, v
      <4>1. v \in 0 .. 31 /\ n \in 0 .. 28
        BY <1>1, <3>2, <4>0
      <4>2. CASE k = N /\ v = w + n
        BY <1>2, <4>1, <4>2 DEF SerialWord, Indexes
      <4>3. CASE k = N + 1 /\ v = w + n - 32
        BY <1>2, <4>1, <4>3 DEF SerialWord, Indexes
      <4> QED
        BY <3>3, <4>2, <4>3
    <3> HIDE DEF at
    <3>7. m.image[at] = Data(byte)
      BY <1>3, <3>2, <3>6
    <3>8. block' = m
      BY DEF m
    <3> QED
      BY <3>5, <3>6, <3>7, <3>8 DEF StoredByte
  <2> QED
    BY <2>4, <2>5, <2>6
<1>7. ReachedAfter
  <2>1. Reached(N)'
    <3>1. N \in Int /\ Block(Last.start) >= N
      BY <1>2, <1>5
    <3> QED
      BY <1>5, <3>1 DEF StoredGrown
  <2>2. m.overflow => Reached(N + 1)'
    <3> SUFFICES ASSUME to + count > 68 PROVE Reached(N + 1)'
      BY <1>3
    <3> DEFINE e == End(Last) - 1
               x == Word(e)
    <3>1. e = 2 * ((Address + count) - 1) + 1 /\ e \in Nat
      BY <1>1, <1>2, LineStart
    <3>2. x = (Address + count) - 1
      <4> HIDE DEF e
      <4> QED
        BY <1>1, <1>2, <3>1 DEF Word
    <3>3. x \div 32 >= N + 1
      <4> HIDE DEF x
      <4>1. x \in Nat /\ x >= 32 * (N + 1)
        BY <1>1, <1>2, <3>2
      <4> QED
        BY <1>2, <4>1
    <3>4. Block(e) >= N + 1
      BY <3>3 DEF Block
    <3>5. N + 1 \in Int
      BY <1>2
    <3> QED
      BY <1>5, <3>4, <3>5 DEF StoredGrown
  <2>3. Reached(N + 1)' => Beyond(N)'
    BY DEF Beyond
  <2>4. block' = m
    BY DEF m
  <2>5. block'.number = N /\ OverflowBlock(block') = N + 1 /\ block'.overflow = m.overflow
    BY <1>3, <1>4, <2>4
  <2>6. block'.overflow => Reached(OverflowBlock(block))'
    BY <2>2, <2>5 DEF OverflowBlock, At
  <2>7. Reached(block.number)'
    BY <2>1, <2>5 DEF Reached
  <2>8. pc' = "upload" => Beyond(block.number)'
    <3>1. pc' = "upload" => Beyond(N)'
      BY <2>2, <2>3, <2>5
    <3> QED
      BY <2>5, <3>1
  <2> QED
    BY <2>6, <2>7, <2>8 DEF ReachedAfter
<1> QED
  BY <1>6, <1>7

(* The bytes of a line but those of the area's last word are stored.       *)
LEMMA FlashCounted ==
  ASSUME HandledLine, IsFlash(Address), NEW byte \in Kept(Last)
  PROVE  byte - 2 * Address \in 0 .. DataCounter - 1 /\ IsFlash(Word(byte))
<1> DEFINE x == Word(byte)
           length == codeLine.length
<1>1. Address \in Nat /\ length \in 0 .. 58
  BY LineAddress DEF HandledLine
<1>2. ~(Address \in SERIAL_EEPROM) /\ ~(Address \in PIC16LF1938_EEPROM)
  BY <1>1, FlashArea, EEPROMAreas
<1>3. /\ byte \in Nat /\ byte >= 2 * Address /\ byte < 2 * Address + length
      /\ IsFlash(x) /\ x # 16383 /\ x # 14271
  BY <1>2, LineBytes
<1>4. x \in Nat /\ 2 * x <= byte /\ byte <= 2 * x + 1
  BY <1>3 DEF Word
<1> HIDE DEF x, length
<1>5. x >= Address /\ x <= Address + 29
  BY <1>1, <1>3, <1>4
<1>6. \/ Address >= 11264 /\ Address <= 14271 /\ x < 14271
      \/ Address >= 14848 /\ Address <= 16383 /\ x < 16383
  BY <1>1, <1>3, <1>4, <1>5, FlashArea
<1>7. CASE Address >= 11264 /\ Address <= 14271 /\ x < 14271
  <2>1. Address \notin IQRF_MAIN_MEM
    BY <1>7 DEF IQRF_MAIN_MEM, IQRF_MAIN_MEM_MIN_ADR
  <2>2. DataCounter = length \/ DataCounter = (14271 - Address) * 2
    BY <2>1 DEF DataCounter, IQRF_LICENCED_MEM_MAX_ADR, length
  <2> QED
    BY <1>1, <1>3, <1>4, <1>7, <2>2 DEF x
<1>8. CASE Address >= 14848 /\ Address <= 16383 /\ x < 16383
  <2>1. Address \in IQRF_MAIN_MEM
    BY <1>1, <1>8 DEF IQRF_MAIN_MEM, IQRF_MAIN_MEM_MIN_ADR, IQRF_MAIN_MEM_MAX_ADR
  <2>2. DataCounter = length \/ DataCounter = (16383 - Address) * 2
    BY <2>1 DEF DataCounter, IQRF_MAIN_MEM_MAX_ADR, length
  <2> QED
    BY <1>1, <1>3, <1>4, <1>8, <2>2 DEF x
<1> QED
  BY <1>6, <1>7, <1>8

LEMMA PutFlashStored ==
  ASSUME StoredNow, HandledLine, IsFlash(Address),
         NEW N, N = Address \div 32,
         NEW b \in BlockType, b = Current, EmptyImage(b) \/ (FlashImage(b) /\ b.number = N),
         NEW to, to = DestinationIndex, NEW count, count = DataCounter, to + count <= 68,
         block' = PutFlash(b, to, count), pc' = "read",
         ~DataInBufferReady', UNCHANGED <<codeLine, memory, fileVars>>
  PROVE  StoredAfter /\ ReachedAfter
<1> DEFINE m == PutFlash(b, to, count)
           w == Address % 32
<1>1. DataInBuffer /\ Address \in Nat /\ to \in 2 .. 66 /\ count \in 0 .. 58
  BY LineAddress, FlashPlace DEF HandledLine
<1>2. /\ N \in 352 .. 511 /\ w \in 0 .. 31 /\ Address = 32 * N + w
      /\ to = 2 * w + (IF w < 16 THEN 2 ELSE 4)
      /\ w < 16 => to + count <= 34
  BY FlashFits
<1>3. /\ m.number = N /\ m.overflow = FALSE
      /\ \A i \in Indexes : i \notin {0, 1, 34, 35} =>
           m.image[i] = IF i - to \in 0 .. count - 1 THEN ByteData(i - to) ELSE b.image[i]
  <2> DEFINE first == (Address \div 32) * 32
             second == first + 16
  <2>1. /\ m.number = N /\ m.overflow = b.overflow
        /\ \A i \in Indexes : m.image[i] =
             IF i - to \in 0 .. count - 1 THEN ByteData(i - to)
             ELSE WithAddresses(b.image, first, second)[i]
    BY <1>1, PutFlashType, ZenonT(60)
  <2>2. first \in Nat /\ second \in Nat /\ b.image \in [Indexes -> Nat]
    BY <1>1 DEF BlockType
  <2> HIDE DEF first, second, m
  <2>3. \A i \in Indexes : WithAddresses(b.image, first, second)[i] =
          CASE i = 0  -> Lo(first)  [] i = 1  -> Hi(first)
            [] i = 34 -> Lo(second) [] i = 35 -> Hi(second)
            [] OTHER -> b.image[i]
    BY <2>2, WithAddressesType, ZenonT(60)
  <2>4. \A i \in Indexes : i \notin {0, 1, 34, 35} =>
          WithAddresses(b.image, first, second)[i] = b.image[i]
    BY <2>3
  <2>5. b.overflow = FALSE
    BY DEF BlockType, EmptyImage, FlashImage
  <2> QED
    BY <2>1, <2>4, <2>5
<1>4. block' = m
  BY DEF m
<1> HIDE DEF m, w
<1>5. StoredGrown /\ Block(Last.start) = N
  <2>1. Address # 0
    BY <1>2
  <2> QED
    BY <2>1, LineTaken, LineBlock
<1>6. StoredAfter
  <2> SUFFICES ASSUME NEW byte \in Nat, IsStored(byte)'
               PROVE  StoredByte(byte)'
    BY DEF StoredAfter
  <2> DEFINE k == Block(byte)
             r == byte % 64
  <2>1. Waiting(byte)' = IF k = N THEN ImageIndex(byte) ELSE 0
    <3>1. Waiting(byte)' = Waits(m, byte)
      BY <1>4 DEF Waiting
    <3> QED
      BY <1>2, <1>3, <3>1 DEF Waits
  <2>2. k \in Nat /\ r \in 0 .. 63 /\ byte = 64 * k + r
    BY ByteBlock
  <2>3. IsFlash(Word(byte)) => ImageIndex(byte) = r + (IF r < 32 THEN 2 ELSE 4)
    BY DEF ImageIndex
  <2>4. IsStored(byte) \/ byte \in Kept(Last)
    BY <1>5 DEF StoredGrown
  <2>5. CASE IsStored(byte)
    <3>1. /\ StoredIn(b, byte) /\ byte < Last.start /\ k <= N
          /\ Gone(byte) => Word(byte) \in PIC16LF1938_EEPROM \/ k < N
      BY <1>5, <2>5, LineTaken
    <3>2. CASE k = N
      <4>1. k \notin 16 .. 79 /\ k \notin 1920 .. 1927
        <5> HIDE DEF k
        <5> QED
          BY <1>2, <3>2
      <4>2. IsFlash(Word(byte)) /\ Word(byte) \notin PIC16LF1938_EEPROM
        BY <2>5, <4>1, StoredKept, AreaBlocks DEF StoredNow
      <4>3. ~Gone(byte)
        <5> HIDE DEF k
        <5> QED
          BY <1>2, <3>1, <3>2, <4>2
      <4>4. b.number = N /\ N # 0
        <5>1. Waits(b, byte) # 0
          BY <3>1, <4>3 DEF StoredIn
        <5> QED
          BY <1>2, <5>1 DEF Waits, EmptyImage, FlashImage
      <4>5. Waits(b, byte) = ImageIndex(byte)
        BY <3>2, <4>4 DEF Waits
      <4> DEFINE i == ImageIndex(byte)
      <4>6. i = r + (IF r < 32 THEN 2 ELSE 4)
        BY <2>3, <4>2
      <4>7. byte < 2 * Address
        <5>1. Address # 0
          BY <1>2
        <5> QED
          BY <3>1, <5>1, LineStart
      <4> HIDE DEF i, k, r
      <4>8. r < 2 * w
        BY <1>2, <2>2, <3>2, <4>7
      <4>9. i \in 2 .. 67 /\ i \notin {0, 1, 34, 35} /\ i < to
        BY <1>2, <2>2, <4>6, <4>8
      <4>10. b.image[i] = Data(byte)
        BY <3>1, <4>5, <4>9 DEF StoredIn, i
      <4>11. m.image[i] = Data(byte)
        <5>1. i \in Indexes /\ i - to \notin 0 .. count - 1
          BY <1>1, <4>9 DEF Indexes
        <5> QED
          BY <1>3, <4>9, <4>10, <5>1
      <4>12. Waiting(byte)' = i
        BY <2>1, <3>2 DEF i, k
      <4> QED
        BY <1>4, <4>9, <4>11, <4>12 DEF StoredByte
    <3>3. CASE k # N
      <4>1. Waits(b, byte) = 0
        BY <3>3 DEF Waits, EmptyImage, FlashImage
      <4>2. Gone(byte)'
        BY <1>5, <3>1, <4>1, GoneStays DEF StoredIn
      <4> QED
        BY <2>1, <3>3, <4>2 DEF StoredByte
    <3> QED
      BY <3>2, <3>3
  <2>6. CASE byte \in Kept(Last)
    <3> DEFINE n == byte - 2 * Address
               i == to + n
    <3>1. n \in 0 .. count - 1 /\ IsFlash(Word(byte))
      BY <2>6, FlashCounted
    <3>2. ByteData(n) = Data(byte)
      <4>1. HiAddress + codeLine.address = 2 * Address
        <5>1. Address # 0
          BY <1>2
        <5> QED
          BY <5>1, LineStart
      <4>2. 2 * Address + n = byte
        BY <1>1
      <4> HIDE DEF n
      <4> QED
        BY <4>1, <4>2 DEF ByteData
    <3>3. byte = 2 * Address + n
      BY <1>1
    <3> HIDE DEF n, k, r
    <3>4. k = N /\ r = 2 * w + n /\ i = r + (IF r < 32 THEN 2 ELSE 4) /\ i \in 2 .. 67
          /\ i \notin {0, 1, 34, 35}
      <4>1. 64 * k + r = 64 * N + (2 * w + n) /\ n \in 0 .. 57
        BY <1>1, <1>2, <2>2, <3>1, <3>3
      <4>2. 2 * w + n <= 63
        BY <1>1, <1>2, <3>1, <4>1
      <4>3. k = N /\ r = 2 * w + n
        BY <1>2, <2>2, <4>1, <4>2
      <4> QED
        BY <1>1, <1>2, <2>2, <3>1, <4>1, <4>3
    <3>5. Waiting(byte)' = i
      BY <2>1, <2>3, <3>1, <3>4
    <3>6. i - to = n /\ i \in Indexes
      BY <1>1, <3>1, <3>4 DEF Indexes
    <3> HIDE DEF i
    <3>7. m.image[i] = Data(byte)
      BY <1>3, <3>1, <3>2, <3>4, <3>6
    <3> QED
      BY <1>4, <3>4, <3>5, <3>7 DEF StoredByte
  <2> QED
    BY <2>4, <2>5, <2>6
<1>7. ReachedAfter
  <2>1. Reached(N)'
    <3>1. N \in Int /\ Block(Last.start) >= N
      BY <1>2, <1>5
    <3> QED
      BY <1>5, <3>1 DEF StoredGrown
  <2>2. Reached(block.number)'
    BY <1>3, <1>4, <2>1 DEF Reached
  <2> QED
    BY <1>3, <1>4, <2>2 DEF ReachedAfter
<1> QED
  BY <1>6, <1>7

LEMMA PutInternalStored ==
  ASSUME StoredNow, HandledLine, Address \in PIC16LF1938_EEPROM,
         NEW b \in BlockType, b = Current, EmptyImage(b),
         NEW count, count = codeLine.length \div 2,
         block' = [PutInternal(b, count) EXCEPT !.processState = 1],
         pc' = "upload", OpResult' = "EEPROM_BLOCK_READY",
         ~DataInBufferReady', UNCHANGED <<codeLine, memory, fileVars>>
  PROVE  StoredAfter /\ ReachedAfter
<1> DEFINE m == PutInternal(b, count)
<1>1. /\ DataInBuffer /\ Address \in Nat /\ Address >= 61440 /\ Address <= 61695
      /\ count \in 0 .. 29
  BY LineAddress, EEPROMAreas DEF HandledLine
<1>2. /\ m \in BlockType /\ m.number = 0 /\ m.overflow = FALSE
      /\ m.image[0] = Address - 61440 /\ m.image[1] = count
      /\ \A n \in 0 .. count - 1 : m.image[n + 2] = WordData(n)
  <2>1. /\ m \in BlockType /\ m.number = b.number /\ m.overflow = b.overflow
        /\ \A i \in Indexes : m.image[i] =
             CASE i = 0 -> Lo(Address) [] i = 1 -> count
               [] i - 2 \in 0 .. count - 1 -> WordData(i - 2) [] OTHER -> b.image[i]
    <3>1. DataInBuffer /\ count \in 0 .. 29
      BY <1>1
    <3> QED
      BY <3>1, PutInternalType, Zenon
  <2> HIDE DEF m
  <2>2. m.number = 0 /\ m.overflow = FALSE
    BY <2>1 DEF BlockType, EmptyImage
  <2>3. m.image[0] = Address - 61440 /\ m.image[1] = count
    <3>1. Lo(Address) = Address - 61440
      BY <1>1 DEF Lo
    <3> QED
      BY <2>1, <3>1 DEF Indexes
  <2>4. ASSUME NEW n \in 0 .. count - 1
        PROVE  m.image[n + 2] = WordData(n)
    <3>1. n + 2 \in Indexes /\ n + 2 # 0 /\ n + 2 # 1 /\ (n + 2) - 2 = n
      BY <1>1 DEF Indexes
    <3> QED
      BY <2>1, <3>1
  <2> QED
    BY <2>1, <2>2, <2>3, <2>4
<1> HIDE DEF m
<1>3. /\ block'.image = m.image /\ block'.number = 0 /\ block'.overflow = FALSE
  BY <1>2 DEF m, BlockType
<1>4. Address # 0
  BY <1>1
<1>5. StoredGrown /\ Last.start = 2 * Address /\ HiAddress + codeLine.address = 2 * Address
  BY <1>4, LineTaken, LineStart
<1>6. StoredAfter
  <2> SUFFICES ASSUME NEW byte \in Nat, IsStored(byte)'
               PROVE  StoredByte(byte)'
    BY DEF StoredAfter
  <2> DEFINE x == Word(byte)
  <2>1. x \in Nat /\ byte >= 2 * x /\ byte <= 2 * x + 1
    BY DEF Word
  <2>2. Waiting(byte)' = IF x - Address \in 0 .. count - 1 THEN (x - Address) + 2 ELSE 0
    <3>1. Waiting(byte)' = WaitsUpload(block', "EEPROM_BLOCK_READY", byte)
      BY DEF Waiting
    <3>2. Waiting(byte)' = IF x - 61440 - m.image[0] \in 0 .. m.image[1] - 1
                             THEN x - 61440 - m.image[0] + 2 ELSE 0
      BY <1>3, <3>1 DEF WaitsUpload
    <3> HIDE DEF x
    <3>3. x - 61440 - m.image[0] = x - Address
      BY <1>1, <1>2, <2>1
    <3> QED
      BY <1>2, <3>2, <3>3
  <2>3. IsStored(byte) \/ byte \in Kept(Last)
    BY <1>5 DEF StoredGrown
  <2>4. CASE IsStored(byte)
    <3>1. StoredIn(b, byte) /\ byte < Last.start
      BY <2>4, LineTaken
    <3>2. Waits(b, byte) = 0
      BY DEF Waits, EmptyImage
    <3>3. Gone(byte)'
      BY <1>5, <3>1, <3>2, GoneStays DEF StoredIn
    <3> HIDE DEF x
    <3>4. x - Address \notin 0 .. count - 1
      BY <1>1, <1>5, <2>1, <3>1
    <3> QED
      BY <2>2, <3>3, <3>4 DEF StoredByte
  <2>5. CASE byte \in Kept(Last)
    <3>1. /\ byte >= 2 * Address /\ byte < 2 * Address + 2 * count
          /\ byte = 2 * x
      <4>1. ~IsFlash(Address) /\ Address \notin SERIAL_EEPROM
        BY <1>1, FlashArea, EEPROMAreas
      <4>2. /\ byte >= 2 * Address /\ byte < 2 * Address + codeLine.length
            /\ codeLine.length = 2 * (codeLine.length \div 2)
            /\ \/ IsFlash(Address)
               \/ Address \in SERIAL_EEPROM
               \/ byte = 2 * Word(byte)
        BY <2>5, LineBytes
      <4> QED
        BY <4>1, <4>2
    <3> DEFINE n == x - Address
    <3> HIDE DEF x
    <3>2. n \in 0 .. count - 1 /\ 2 * Address + 2 * n = byte
      BY <1>1, <2>1, <3>1
    <3>3. Waiting(byte)' = n + 2
      BY <2>2, <3>2
    <3> HIDE DEF n
    <3>4. WordData(n) = Data(byte)
      BY <1>5, <3>2 DEF WordData
    <3>5. m.image[n + 2] = Data(byte)
      BY <1>2, <3>2, <3>4
    <3>6. n + 2 # 0
      BY <1>1, <3>2
    <3> QED
      BY <1>3, <3>3, <3>5, <3>6 DEF StoredByte
  <2> QED
    BY <2>3, <2>4, <2>5
<1>7. ReachedAfter
  BY <1>3 DEF ReachedAfter
<1> QED
  BY <1>6, <1>7

(* A line of no area is skipped.                                           *)
LEMMA ElsewhereStored ==
  ASSUME StoredNow, HandledLine, ProcessElsewhere, NEW b, b = Current
  PROVE  StoredAfter /\ ReachedAfter
<1>1. /\ b \in BlockType /\ ReadyImage(b) /\ ~b.overflow
      /\ b.number # 0 => Reached(b.number)
  BY ProcessCurrent
<1>2. /\ block' = b /\ pc' = "read" /\ ~DataInBufferReady'
      /\ UNCHANGED <<codeLine, memory, fileVars>>
  BY DEF ProcessElsewhere, NextLine, GoTo, processFrame, prepareFrame
<1>3. StoredGrown /\ \A byte \in Nat : IsStored(byte) => StoredIn(b, byte)
  BY <1>2, LineTaken
<1>4. Kept(Last) = {}
  <2>1. ~IsFlash(Address) /\ Address \notin SERIAL_EEPROM /\ Address \notin PIC16LF1938_EEPROM
    BY DEF ProcessElsewhere
  <2> QED
    BY <2>1, LineBytes
<1>5. StoredAfter
  <2> SUFFICES ASSUME NEW byte \in Nat, IsStored(byte)'
               PROVE  StoredByte(byte)'
    BY DEF StoredAfter
  <2>1. StoredIn(b, byte)
    BY <1>3, <1>4 DEF StoredGrown
  <2>2. Waiting(byte)' = Waits(b, byte)
    BY <1>2 DEF Waiting
  <2>3. CASE Waits(b, byte) # 0
    BY <1>2, <2>1, <2>2, <2>3 DEF StoredByte, StoredIn
  <2>4. CASE Waits(b, byte) = 0
    <3>1. Gone(byte)'
      BY <1>2, <1>3, <2>1, <2>4, GoneStays DEF StoredIn
    <3> QED
      BY <2>2, <2>4, <3>1 DEF StoredByte
  <2> QED
    BY <2>3, <2>4
<1>6. ReachedAfter
  <2>1. b.number # 0 => Reached(b.number)'
    <3>1. b.number \in Int
      BY <1>1 DEF BlockType
    <3> QED
      BY <1>1, <1>3, <3>1 DEF StoredGrown
  <2>2. block'.number # 0 => Reached(block.number)'
    BY <1>2, <2>1 DEF Reached
  <2> QED
    BY <1>1, <1>2, <2>2 DEF ReachedAfter
<1> QED
  BY <1>5, <1>6

-----------------------------------------------------------------------------
(* Every step keeps what is stored.                                        *)

LEMMA SerialStored ==
  ASSUME StoredNow, HandledLine, ProcessSerialEEPROM
  PROVE  StoredAfter /\ ReachedAfter
<1>1. PICK b, N, to, count :
        /\ b = (IF Current.number = 0 THEN NewSerialImage ELSE Current)
        /\ N = Address \div 32 /\ to = (Address % 32) + 36 /\ count = codeLine.length \div 2
  OBVIOUS
<1>2. /\ DataInBuffer /\ Address \in SERIAL_EEPROM /\ Address \in Nat
      /\ Address >= 512 /\ Address <= 2559
  BY LineAddress, EEPROMAreas DEF HandledLine, ProcessSerialEEPROM
<1>3. Current \in BlockType /\ ReadyImage(Current) /\ ~Current.overflow
  BY ProcessCurrent
<1>4. N \in 16 .. 79 /\ Block(Last.start) = N
  <2>1. Address # 0
    BY <1>2
  <2> QED
    BY <1>1, <1>2, <2>1, LineBlock
<1>5. /\ b \in BlockType /\ ReadyImage(b) /\ ~b.overflow
      /\ b.number # 0 /\ (b = Current \/ (Current.number = 0 /\ b.number = N))
  BY <1>1, <1>2, <1>3, NewSerial, NewSerialType DEF ReadyImage
<1>6. StoreSerial(b) /\ UNCHANGED <<codeLine, fileVars>>
  BY <1>1 DEF ProcessSerialEEPROM, processFrame
<1>7. CASE b.number # N
  <2>1. UploadFirst(Current) /\ Current.number # 0 /\ Current.number # Block(Last.start)
    BY <1>1, <1>4, <1>5, <1>6, <1>7 DEF StoreSerial
  <2> QED
    BY <1>6, <2>1, UploadFirstStored
<1>8. CASE b.number = N
  <2>1. SerialImage(b)
    <3>1. ~FlashImage(b)
      BY <1>4, <1>8 DEF FlashImage
    <3> QED
      BY <1>5, <3>1 DEF ReadyImage, EmptyImage
  <2>2. /\ block' = PutSerial(b, to, count)
        /\ IF block'.overflow
             THEN Returns("EEEPROM_BLOCK_READY") /\ DataInBufferReady' = FALSE
             ELSE NextLine
    BY <1>1, <1>6, <1>8 DEF StoreSerial
  <2>3. /\ \/ block'.overflow /\ pc' = "upload" /\ OpResult' = "EEEPROM_BLOCK_READY"
           \/ ~block'.overflow /\ pc' = "read"
        /\ ~DataInBufferReady' /\ UNCHANGED memory
    BY <2>2 DEF Returns, NextLine, GoTo, prepareFrame
  <2>4. b = Current \/ Current.number = 0
    BY <1>5
  <2> QED
    BY <1>1, <1>2, <1>5, <1>6, <1>8, <2>1, <2>2, <2>3, <2>4, PutSerialStored
<1> QED
  BY <1>7, <1>8

LEMMA FlashStored ==
  ASSUME StoredNow, HandledLine, ProcessFlash, pc' # "terminate"
  PROVE  StoredAfter /\ ReachedAfter
<1>1. PICK b, N, to, count :
        /\ b = Current /\ N = Address \div 32
        /\ to = DestinationIndex /\ count = DataCounter
  OBVIOUS
<1>2. /\ DataInBuffer /\ IsFlash(Address) /\ Address \in Nat
      /\ to \in 2 .. 66 /\ count \in 0 .. 58
  BY <1>1, LineAddress, FlashPlace DEF HandledLine, ProcessFlash
<1>3. b \in BlockType /\ ReadyImage(b) /\ ~b.overflow
  BY <1>1, ProcessCurrent
<1>4. N \in 352 .. 511 /\ Block(Last.start) = N
  <2>1. Address >= 11264 /\ Address <= 16383
    BY <1>2, FlashArea
  <2>2. Address # 0
    BY <2>1
  <2> QED
    BY <1>1, <1>2, <2>1, <2>2, LineBlock
<1>5. StoreFlash(b, to, count) /\ UNCHANGED <<codeLine, fileVars>>
  BY <1>1 DEF ProcessFlash, processFrame
<1>6. ~(to + count > 68)
  BY <1>5, ImageSize DEF StoreFlash, Returns, GoTo
<1>7. CASE b.number # 0 /\ b.number # N
  <2>1. UploadFirst(Current) /\ Current.number # 0 /\ Current.number # Block(Last.start)
    BY <1>1, <1>4, <1>5, <1>6, <1>7, ImageSize DEF StoreFlash
  <2> QED
    BY <1>5, <2>1, UploadFirstStored
<1>8. CASE b.number = 0 \/ b.number = N
  <2>1. EmptyImage(b) \/ (FlashImage(b) /\ b.number = N)
    <3>1. ~SerialImage(b)
      BY <1>4, <1>8 DEF SerialImage
    <3>2. FlashImage(b) => b.number # 0
      BY DEF FlashImage
    <3> QED
      BY <1>3, <1>8, <3>1, <3>2 DEF ReadyImage
  <2>2. block' = PutFlash(b, to, count) /\ NextLine
    BY <1>1, <1>5, <1>6, <1>8, ImageSize DEF StoreFlash
  <2>3. pc' = "read" /\ ~DataInBufferReady' /\ UNCHANGED memory
    BY <2>2 DEF NextLine, GoTo, prepareFrame
  <2>4. to + count <= 68
    BY <1>2, <1>6
  <2> QED
    BY <1>1, <1>2, <1>3, <1>5, <2>1, <2>2, <2>3, <2>4, PutFlashStored
<1> QED
  BY <1>7, <1>8

LEMMA InternalStored ==
  ASSUME StoredNow, HandledLine, ProcessInternalEEPROM, pc' # "terminate"
  PROVE  StoredAfter /\ ReachedAfter
<1>1. PICK b, count : b = Current /\ count = codeLine.length \div 2
  OBVIOUS
<1>2. /\ DataInBuffer /\ Address \in PIC16LF1938_EEPROM /\ Address \in Nat
      /\ Address >= 61440 /\ Address <= 61695
  BY LineAddress, EEPROMAreas DEF HandledLine, ProcessInternalEEPROM
<1>3. b \in BlockType /\ ReadyImage(b) /\ ~b.overflow
  BY <1>1, ProcessCurrent
<1>4. StoreInternal(b, count) /\ UNCHANGED <<codeLine, fileVars>>
  BY <1>1 DEF ProcessInternalEEPROM, processFrame
<1>5. CASE b.number # 0
  <2>1. UploadFirst(b)
    BY <1>4, <1>5 DEF StoreInternal
  <2>2. b.number <= 511
    BY <1>3, <1>5 DEF ReadyImage, EmptyImage, SerialImage, FlashImage
  <2>3. Block(Last.start) >= 1920 /\ Block(Last.start) \in Nat
    <3>1. Address # 0
      BY <1>2
    <3>2. Address \div 32 >= 1920
      BY <1>2
    <3> QED
      BY <3>1, <3>2, LineBlock
  <2>4. b.number # Block(Last.start)
    BY <2>2, <2>3
  <2> QED
    BY <1>1, <1>4, <1>5, <2>1, <2>4, UploadFirstStored
<1>6. CASE b.number = 0
  <2>1. EmptyImage(b)
    BY <1>3, <1>6 DEF ReadyImage, SerialImage, FlashImage
  <2>2. /\ block' = [PutInternal(b, count) EXCEPT !.processState = 1]
        /\ Returns("EEPROM_BLOCK_READY") /\ DataInBufferReady' = FALSE
    BY <1>4, <1>6 DEF StoreInternal, Returns, GoTo
  <2>3. pc' = "upload" /\ OpResult' = "EEPROM_BLOCK_READY" /\ UNCHANGED memory
    BY <2>2 DEF Returns, GoTo, prepareFrame
  <2> QED
    BY <1>1, <1>2, <1>3, <1>4, <2>1, <2>2, <2>3, PutInternalStored
<1> QED
  BY <1>5, <1>6

LEMMA ProcessStored ==
  ASSUME StoredNow, Process, pc' # "terminate"
  PROVE  StoredAfter /\ ReachedAfter
<1>1. CASE ProcessExtendedAddress \/ ProcessOther
  <2>1. /\ pc = "process" /\ pc' = "read" /\ codeLine.kind # "data" /\ block' = block
        /\ UNCHANGED <<codeLine, records, lastLine, memory>>
    BY <1>1 DEF ProcessExtendedAddress, ProcessOther, Processing, NextLine, GoTo, processFrame,
                prepareFrame, fileVars
  <2>2. StoredSame
    <3>1. InBuffer' <=> InBuffer
      BY <2>1 DEF InBuffer
    <3> QED
      BY <2>1, <3>1, SameStored
  <2>3. StoredAfter
    BY <2>1, <2>2, KeptImageStored
  <2>4. PICK n, k : n = block.number /\ k = OverflowBlock(block)
    OBVIOUS
  <2>5. n \in Int /\ k \in Int
    BY <2>4 DEF StoredNow, HexInv, TypeOK, BlockType, OverflowBlock, At, Indexes
  <2>6. /\ block.overflow => Reached(k)
        /\ block.number # 0 => Reached(n)
    BY <2>1, <2>4 DEF StoredNow, ReachedInv, InLoop
  <2>7. /\ block.overflow => Reached(k)'
        /\ block.number # 0 => Reached(n)'
    BY <2>2, <2>5, <2>6 DEF StoredSame
  <2>8. block'.number = n /\ OverflowBlock(block') = k
    BY <2>1, <2>4
  <2>9. /\ block'.overflow => Reached(OverflowBlock(block))'
        /\ block'.number # 0 => Reached(block.number)'
    BY <2>1, <2>7, <2>8 DEF Reached, OverflowBlock, At
  <2> QED
    BY <2>1, <2>3, <2>9 DEF ReachedAfter
<1>2. CASE ProcessData
  <2>1. HandledLine
    BY <1>2, ProcessDataLine DEF HandledLine, StoredNow, HexInv, Careful
  <2>2. PICK b : b = Current
    OBVIOUS
  <2> QED
    BY <1>2, <2>1, <2>2, SerialStored, FlashStored, InternalStored, ElsewhereStored DEF ProcessData
<1> QED
  BY <1>1, <1>2 DEF Process, ProcessData

(* The records and the line of a step that reads nothing.                  *)
LEMMA FrameStored ==
  ASSUME UNCHANGED <<records, codeLine, DataInBufferReady>>, lastLine' \in {lastLine, "end"}
  PROVE  StoredSame
<1>1. InBuffer' <=> InBuffer
  BY DEF InBuffer
<1> QED
  BY <1>1, SameStored

(* How far the records have come, of an image that keeps its head.         *)
LEMMA FrameReached ==
  ASSUME HexInv, StoredSame, block'.number \in {block.number, 0},
         block'.overflow => block.overflow /\ OverflowBlock(block') = OverflowBlock(block),
         block.overflow => Reached(OverflowBlock(block))
  PROVE  /\ block'.overflow => Reached(OverflowBlock(block))'
         /\ Reached(block.number) /\ block'.number # 0 => Reached(block.number)'
         /\ Beyond(block.number) /\ block'.number # 0 => Beyond(block.number)'
<1>1. PICK n, k : n = block.number /\ k = OverflowBlock(block)
  OBVIOUS
<1>2. n \in Int /\ k \in Int
  BY <1>1 DEF HexInv, TypeOK, BlockType, OverflowBlock, At, Indexes
<1>3. /\ Reached(k) => Reached(k)'
      /\ Reached(n) => Reached(n)'
      /\ Beyond(n) => Beyond(n)'
  BY <1>2 DEF StoredSame
<1>4. block'.overflow => Reached(k)' /\ OverflowBlock(block') = k
  BY <1>1, <1>3
<1>5. block'.overflow => Reached(OverflowBlock(block))'
  BY <1>4 DEF Reached, OverflowBlock, At
<1>6. Reached(block.number) /\ block'.number # 0 => Reached(block.number)'
  BY <1>1, <1>3 DEF Reached
<1>7. Beyond(block.number) /\ block'.number # 0 => Beyond(block.number)'
  BY <1>1, <1>3 DEF Beyond
<1> QED
  BY <1>5, <1>6, <1>7

LEMMA PrepareReached ==
  ASSUME StoredNow, Prepare
  PROVE  ReachedAfter
<1>1. /\ pc = "prepare" /\ pc' \in {"read", "process"} /\ block \in BlockType
      /\ UNCHANGED <<records, codeLine, DataInBufferReady, lastLine>>
  BY DEF Prepare, GoTo, fileVars, StoredNow, HexInv, TypeOK
<1>2. StoredSame
  BY <1>1, FrameStored
<1>3. /\ block'.number = 0 /\ block'.overflow = block.overflow
      /\ block.overflow => block'.image = block.image
  BY <1>1 DEF Prepare, BlockType
<1>4. block'.overflow => block.overflow /\ OverflowBlock(block') = OverflowBlock(block)
  BY <1>3 DEF OverflowBlock, At
<1>5. block.overflow => Reached(OverflowBlock(block))
  BY <1>1 DEF StoredNow, ReachedInv, InLoop
<1> QED
  BY <1>1, <1>2, <1>3, <1>4, <1>5, FrameReached DEF ReachedAfter, StoredNow

LEMMA EndOfFileReached ==
  ASSUME StoredNow, EndOfFile, pc' = "upload"
  PROVE  ReachedAfter
<1>1. /\ pc = "read" /\ UNCHANGED <<records, codeLine, DataInBufferReady>> /\ lastLine' = "end"
      /\ block \in BlockType
  BY DEF EndOfFile, StoredNow, HexInv, TypeOK
<1>2. StoredSame
  BY <1>1, FrameStored
<1>3. Beyond(block.number)'
  BY <1>1 DEF Beyond
<1>4. CASE block' = block
  <2>1. block.overflow => Reached(OverflowBlock(block))
    BY <1>1 DEF StoredNow, ReachedInv, InLoop
  <2>2. block'.overflow => block.overflow /\ OverflowBlock(block') = OverflowBlock(block)
        /\ block'.number = block.number
    BY <1>4
  <2>3. block'.number \in {block.number, 0}
    BY <1>4
  <2>4. block'.overflow => Reached(OverflowBlock(block))'
    BY <1>2, <2>1, <2>2, <2>3, FrameReached DEF StoredNow
  <2> QED
    BY <1>3, <2>4 DEF ReachedAfter
<1>5. CASE block' = MoveOverflowedData(block)
  <2>1. ~block'.overflow
    BY <1>1, <1>5, MovedType
  <2> QED
    BY <1>3, <2>1 DEF ReachedAfter
<1> QED
  BY <1>4, <1>5 DEF EndOfFile

LEMMA ReadReached ==
  ASSUME StoredNow, ReadEmptyLine \/ ReadLine
  PROVE  StoredAfter /\ ReachedAfter
<1>1. /\ pc = "read" /\ pc' = "process" /\ block' = block /\ UNCHANGED memory
  BY DEF ReadEmptyLine, ReadLine, GoTo, prepareFrame
<1>2. StoredSame
  BY ReadStored DEF StoredNow
<1>3. StoredAfter
  BY <1>1, <1>2, KeptImageStored
<1>4. /\ block.overflow => Reached(OverflowBlock(block))
      /\ block.number # 0 => Reached(block.number)
  BY <1>1 DEF StoredNow, ReachedInv, InLoop
<1>5. /\ block'.number = block.number /\ block'.number \in {block.number, 0}
      /\ block'.overflow => block.overflow /\ OverflowBlock(block') = OverflowBlock(block)
  BY <1>1
<1> QED
  BY <1>1, <1>2, <1>3, <1>4, <1>5, FrameReached DEF ReachedAfter, StoredNow

LEMMA UploadStored ==
  ASSUME StoredNow, Upload
  PROVE  /\ StoredAfter
         /\ block'.overflow => Reached(OverflowBlock(block))'
         /\ pc' = "upload" /\ block'.number # 0 => Beyond(block.number)'
<1>1. /\ pc = "upload" /\ block \in BlockType /\ UploadImage(block, OpResult)
      /\ UNCHANGED <<records, codeLine, DataInBufferReady, lastLine>>
  BY DEF Upload, uploadFrame, fileVars, StoredNow, HexInv, TypeOK, ImageInv, Careful
<1>2. StoredAfter
  BY <1>1, UploadSerialStored, UploadFlashStored, UploadInternalStored DEF UploadImage
<1>3. StoredSame
  BY <1>1, FrameStored
<1>4. block'.number = block.number /\ block'.overflow = block.overflow
  BY <1>1 DEF Upload, NextPacket, BlockType
<1>5. block'.overflow => block.overflow /\ OverflowBlock(block') = OverflowBlock(block)
  <2> SUFFICES ASSUME block.overflow
               PROVE  OverflowBlock(block') = OverflowBlock(block)
    BY <1>4
  <2>1. OpResult = "EEEPROM_BLOCK_READY"
    BY <1>1 DEF UploadImage, FlashImage, InternalImage
  <2>2. Target # "EEPROM"
    BY <2>1 DEF Target
  <2>3. block'.image[0] = block.image[0] /\ block'.image[1] = block.image[1]
    BY <1>1, <2>2 DEF Upload, NextPacket, BlockType, Indexes
  <2> QED
    BY <2>3 DEF OverflowBlock, At
<1>6. /\ block.overflow => Reached(OverflowBlock(block))
      /\ block.number # 0 => Beyond(block.number)
  BY <1>1 DEF StoredNow, ReachedInv, InLoop
<1>7. block'.number \in {block.number, 0}
  BY <1>4
<1>8. /\ block'.overflow => Reached(OverflowBlock(block))'
      /\ Beyond(block.number) /\ block'.number # 0 => Beyond(block.number)'
  BY <1>3, <1>5, <1>6, <1>7, FrameReached DEF StoredNow
<1> QED
  BY <1>2, <1>4, <1>6, <1>8

(* At the end of the file nothing waits in the image.                      *)
LEMMA EndStored ==
  ASSUME StoredNow, EndOfFile, pc' # "upload", NEW byte \in Nat
  PROVE  ~DataInBufferReady' /\ (IsStored(byte)' => InDevice(byte)')
<1>1. /\ pc = "read" /\ block.number = 0 /\ ~block.overflow
      /\ UNCHANGED <<records, codeLine, DataInBufferReady, memory>> /\ lastLine' = "end"
  BY DEF EndOfFile, Returns, GoTo, Ready, prepareFrame
<1>2. StoredSame
  BY <1>1, FrameStored
<1>3. IsStored(byte)' => StoredByte(byte)
  BY <1>1, <1>2 DEF StoredSame, StoredNow, StoredInv, InLoop
<1>4. Waiting(byte) = 0
  BY <1>1 DEF Waiting, Waits
<1>5. IsStored(byte)' => InDevice(byte)
  BY <1>3, <1>4 DEF StoredByte, Gone
<1> QED
  BY <1>1, <1>5 DEF InDevice, StoredNow, HexInv, BufferInv

LEMMA StoredInit == Init => StoredInv /\ ReachedInv
<1> SUFFICES ASSUME Init PROVE StoredInv /\ ReachedInv
  OBVIOUS
<1>1. pc = "start" /\ records = <<>> /\ OpResult = "NONE" /\ ~InLoop
  BY DEF Init, InLoop
<1> QED
  BY <1>1 DEF StoredInv, ReachedInv, InLoop

(* When the loop is entered nothing is read yet.                           *)
LEMMA EnterStored ==
  ASSUME StoredNow, OpenFile \/ Connect \/ EnterProgrammingMode, Careful'
  PROVE  /\ pc' \in {"start", "connect", "enter"} => records' = <<>>
         /\ InLoop' => /\ StoredAfter /\ ReachedAfter /\ pc' = "prepare" /\ mode' = "programming"
<1>1. /\ pc \in {"start", "connect", "enter"} /\ failures = 0
      /\ UNCHANGED <<records, codeLine, DataInBufferReady, block>>
  BY DEF OpenFile, Connect, EnterProgrammingMode, sessionFrame, readVars, fileVars, StoredNow,
         Careful
<1>2. records = <<>> /\ ~block.overflow
  BY <1>1 DEF StoredNow, ReachedInv, ImageInv, Careful
<1>3. ASSUME InLoop'
      PROVE  pc' = "prepare" /\ mode' = "programming"
  <2>1. failures' = 0 /\ pc' \in {"prepare", "read", "process", "upload"}
    BY <1>3 DEF Careful, InLoop
  <2>2. failures' # failures + 1
    BY <1>1, <2>1
  <2> QED
    BY <2>1, <2>2 DEF OpenFile, Connect, EnterProgrammingMode, Fails
<1>4. StoredAfter
  <2>1. ~InBuffer
    BY <1>2 DEF StoredNow, HexInv, BufferInv
  <2>2. StoredRecords' = {}
    <3>1. ~InBuffer' /\ Len(records') = 0
      BY <1>1, <1>2, <2>1 DEF InBuffer
    <3> QED
      BY <3>1 DEF StoredRecords
  <2> QED
    BY <2>2 DEF StoredAfter, IsStored
<1>5. pc' = "prepare" => ReachedAfter
  BY <1>1, <1>2 DEF ReachedAfter
<1> QED
  BY <1>1, <1>2, <1>3, <1>4, <1>5

(* A step to the loop, or in it.                                           *)
LEMMA LoopSteps ==
  ASSUME StoredNow, Next, Careful', InLoop'
  PROVE  /\ StoredAfter /\ mode' = "programming"
         /\ block'.overflow => Reached(OverflowBlock(block))'
         /\ pc' \in {"read", "process"} /\ block'.number # 0 => Reached(block.number)'
         /\ pc' = "upload" /\ block'.number # 0 => Beyond(block.number)'
<1>1. failures = 0 /\ failures' = 0
  BY DEF StoredNow, Careful
<1>2. pc' \in {"prepare", "read", "process", "upload"}
  BY DEF InLoop
<1>3. CASE OpenFile \/ Connect \/ EnterProgrammingMode
  BY <1>3, EnterStored DEF ReachedAfter
<1>4. CASE Prepare \/ EndOfFile \/ ReadEmptyLine \/ ReadLine \/ Process
  <2>1. StoredAfter /\ ReachedAfter
    <3>1. CASE EndOfFile
      <4>1. pc' = "upload"
        BY <1>2, <3>1 DEF EndOfFile, Returns, GoTo
      <4> QED
        BY <3>1, <4>1, EndOfFileStored, EndOfFileReached
    <3> QED
      BY <1>2, <1>4, <3>1, PrepareStored, PrepareReached, ReadReached, ProcessStored
  <2>2. mode = "programming"
    <3>1. pc \in {"prepare", "read", "process"}
      BY <1>4 DEF Prepare, EndOfFile, ReadEmptyLine, ReadLine, Process, ProcessExtendedAddress,
                  ProcessOther, ProcessSerialEEPROM, ProcessFlash, ProcessInternalEEPROM,
                  ProcessElsewhere, Processing
    <3> QED
      BY <3>1 DEF StoredNow, ReachedInv, InLoop
  <2>3. mode' = mode
    <3>1. CASE Process
      BY <3>1 DEF Process, ProcessExtendedAddress, ProcessOther, ProcessSerialEEPROM,
                  ProcessFlash, ProcessInternalEEPROM, ProcessElsewhere, StoreSerial, StoreFlash,
                  StoreInternal, UploadFirst, Returns, NextLine, GoTo, prepareFrame
    <3> QED
      BY <1>4, <3>1 DEF Prepare, EndOfFile, ReadEmptyLine, ReadLine, Returns, GoTo, prepareFrame
  <2> QED
    BY <2>1, <2>2, <2>3 DEF ReachedAfter
<1>5. CASE Upload
  <2>1. mode = "programming" /\ mode' = mode /\ pc' \in {"prepare", "upload"}
    BY <1>5 DEF Upload, uploadFrame, NextPacket
  <2> QED
    BY <1>5, <2>1, UploadStored
<1>6. CASE UploadFails
  <2>1. pc = "upload" /\ mode # "programming"
    BY <1>1, <1>6 DEF UploadFails
  <2> QED
    BY <2>1 DEF StoredNow, ReachedInv, InLoop
<1>7. CASE ReadBadLine \/ UploadCrashes \/ TerminateProgrammingMode
  BY <1>2, <1>7 DEF ReadBadLine, UploadCrashes, TerminateProgrammingMode, Returns, GoTo
<1>8. CASE Ended /\ UNCHANGED vars
  BY <1>2, <1>8 DEF Ended, vars
<1> QED
  BY <1>3, <1>4, <1>5, <1>6, <1>7, <1>8 DEF Next, Step

(* What was in the device when the file ended stays there.                 *)
LEMMA SuccessSteps ==
  ASSUME StoredNow, Next, OpResult' = "SUCCESS", NEW byte \in Nat
  PROVE  ~DataInBufferReady' /\ (IsStored(byte)' => InDevice(byte)')
<1>1. CASE EndOfFile
  <2>1. pc' # "upload"
    BY <1>1 DEF EndOfFile, Returns, GoTo
  <2> QED
    BY <1>1, <2>1, EndStored
<1>2. CASE TerminateProgrammingMode \/ (Ended /\ UNCHANGED vars)
  <2>1. UNCHANGED <<records, codeLine, DataInBufferReady, lastLine, memory, OpResult>>
    BY <1>2 DEF TerminateProgrammingMode, sessionFrame, readVars, fileVars, vars
  <2>2. IsStored(byte)' => IsStored(byte)
    BY <2>1, FrameStored DEF StoredSame
  <2>3. ~DataInBufferReady /\ (IsStored(byte)' => InDevice(byte))
    BY <2>1, <2>2 DEF StoredNow, StoredInv
  <2> QED
    BY <2>1, <2>3 DEF InDevice
<1>3. CASE Process
  <2>1. CASE ProcessData
    <3>1. Processed
      BY <2>1, DataProcessed DEF StoredNow, HexInv
    <3>2. pc = "process"
      BY <2>1, ProcessDataLine DEF StoredNow, HexInv
    <3> QED
      BY <3>1, <3>2 DEF Processed, Done, Stopped, Uploads, StoredNow, HexInv, PacketInv
  <2>2. CASE ProcessExtendedAddress \/ ProcessOther
    BY <2>2 DEF ProcessExtendedAddress, ProcessOther, Processing, NextLine, StoredNow, HexInv,
                PacketInv
  <2> QED
    BY <1>3, <2>1, <2>2 DEF Process, ProcessData
<1>4. CASE ReadBadLine
  BY <1>4 DEF ReadBadLine, Returns
<1>5. CASE \/ OpenFile \/ Connect \/ EnterProgrammingMode \/ Prepare \/ ReadEmptyLine \/ ReadLine
           \/ Upload \/ UploadFails \/ UploadCrashes
  <2>1. OpResult' = OpResult /\ pc \notin {"terminate", "done", "crashed"}
    BY <1>5 DEF OpenFile, Connect, EnterProgrammingMode, Prepare, ReadEmptyLine, ReadLine, Upload,
                UploadFails, UploadCrashes, uploadFrame, sessionFrame, readVars
  <2> QED
    BY <2>1 DEF StoredNow, HexInv, PacketInv
<1> QED
  BY <1>1, <1>2, <1>3, <1>4, <1>5 DEF Next, Step

LEMMA StoredSteps ==
  HexInv /\ ImageInv /\ StoredInv /\ ReachedInv /\ [Next]_vars => StoredInv' /\ ReachedInv'
<1> SUFFICES ASSUME HexInv, ImageInv, StoredInv, ReachedInv, [Next]_vars, Careful'
             PROVE  StoredInv' /\ ReachedInv'
  BY DEF StoredInv, ReachedInv
<1>1. StoredNow
  BY CarefulBefore DEF StoredNow
<1>2. CASE Next
  <2>1. InLoop' => /\ StoredAfter /\ mode' = "programming"
                   /\ block'.overflow => Reached(OverflowBlock(block))'
                   /\ pc' \in {"read", "process"} /\ block'.number # 0 => Reached(block.number)'
                   /\ pc' = "upload" /\ block'.number # 0 => Beyond(block.number)'
    BY <1>1, <1>2, LoopSteps
  <2>2. OpResult' = "SUCCESS" => \A byte \in Nat : IsStored(byte)' => InDevice(byte)'
    BY <1>1, <1>2, SuccessSteps
  <2>3. OpResult' = "SUCCESS" => ~DataInBufferReady'
    <3>1. 0 \in Nat
      OBVIOUS
    <3> QED
      BY <1>1, <1>2, <3>1, SuccessSteps
  <2>4. pc' \in {"start", "connect", "enter"} => records' = <<>>
    <3>1. pc' \in {"start", "connect", "enter"} => OpenFile \/ Connect \/ EnterProgrammingMode
      <4>1. Process => pc' \in {"read", "terminate", "upload"}
        BY DEF Process, ProcessExtendedAddress, ProcessOther, ProcessSerialEEPROM, ProcessFlash,
               ProcessInternalEEPROM, ProcessElsewhere, StoreSerial, StoreFlash, StoreInternal,
               UploadFirst, Returns, NextLine, GoTo
      <4> QED
        BY <1>2, <4>1 DEF Next, Step, Prepare, EndOfFile, ReadBadLine, ReadEmptyLine, ReadLine,
               Upload, UploadFails, NextPacket, UploadCrashes, TerminateProgrammingMode, Returns,
               GoTo, Ended, vars
    <3> QED
      BY <1>1, <3>1, EnterStored
  <2>5. StoredInv'
    BY <2>1, <2>2, <2>3 DEF StoredInv, StoredAfter
  <2>6. ReachedInv'
    BY <2>1, <2>4 DEF ReachedInv, InLoop
  <2> QED
    BY <2>5, <2>6
<1>3. CASE UNCHANGED vars
  <2>1. StoredSame
    BY <1>3, FrameStored DEF vars, readVars, fileVars
  <2>2. StoredInv'
    BY <1>1, <1>3 DEF StoredInv, StoredNow, StoredByte, IsStored, StoredRecords, InBuffer, InLoop,
       Waiting, WaitsUpload, Waits, OverflowBlock, At, Gone, InDevice, Beyond, Reached, Last, vars,
       readVars, fileVars
  <2>3. ReachedInv'
    BY <1>1, <1>3 DEF ReachedInv, StoredNow, StoredRecords, InBuffer, InLoop,
       OverflowBlock, At, Beyond, Reached, Last, vars, readVars, fileVars
  <2> QED
    BY <2>2, <2>3
<1> QED
  BY <1>2, <1>3

-----------------------------------------------------------------------------
(* When the program ends without an error, every byte of the file that the *)
(* device keeps is at its address, however long the file is: if no call    *)
(* failed, no record is of the unhandled kinds, and the file is sorted, so *)
(* that no block is begun twice (iqrfPgmPrepareMemBlock, main).            *)
THEOREM WholeIsProgrammed == Spec => []ProgrammedWhole
<1>1. HexInv /\ StoredInv => ProgrammedWhole
  <2> SUFFICES ASSUME HexInv, StoredInv, OpResult = "SUCCESS", failures = 0, Sorted,
                      \A r \in AllRecords : ~Unhandled(r),
                      NEW r \in AllRecords, NEW b \in Kept(r)
               PROVE  InDevice(b)
    BY DEF ProgrammedWhole, InDevice
  <2>1. Careful
    BY DEF Careful, Handled, AllRecords
  <2>2. PICK i \in DOMAIN records : r = records[i]
    BY DEF AllRecords
  <2>3. ~DataInBufferReady
    BY <2>1 DEF StoredInv
  <2>4. i \in StoredRecords /\ r \in RecordType
    BY <2>2, <2>3, RecordsType DEF StoredRecords, InBuffer
  <2>5. b \in Nat /\ IsStored(b)
    BY <2>2, <2>4, KeptBytes DEF IsStored
  <2> QED
    BY <2>1, <2>5 DEF StoredInv
<1>2. Spec => [](HexInv /\ ImageInv /\ StoredInv /\ ReachedInv)
  <2>1. Init => HexInv /\ ImageInv /\ StoredInv /\ ReachedInv
    BY HexInit, ImageInit, StoredInit
  <2>2. HexInv /\ ImageInv /\ StoredInv /\ ReachedInv /\ [Next]_vars
          => (HexInv /\ ImageInv /\ StoredInv /\ ReachedInv)'
    BY HexSteps, ImageSteps, StoredSteps
  <2> QED
    BY <2>1, <2>2, PTL DEF Spec
<1> QED
  BY <1>1, <1>2, PTL
=============================================================================
