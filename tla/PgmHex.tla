------------------------------- MODULE PgmHex -------------------------------
(***************************************************************************)
(* The programmer of *.hex files.  It reads the file line by line, gathers *)
(* the data in the image of one memory block (iqrfPgmPrepareMemBlock),     *)
(* uploads the image in one or two packets, and brackets the uploads with  *)
(* the programming mode.                                                   *)
(*                                                                         *)
(* A line is what its bytes decode to.  A data byte of the file is         *)
(* Data(b), b being the byte address the file gives it, so that it can be  *)
(* recognised wherever it ends.  Addresses are numbers, in words where the *)
(* program has words.  External are the file and the device; a call of     *)
(* CDCImpl succeeds, is refused, or throws.                                *)
(***************************************************************************)
EXTENDS Integers, Sequences, FiniteSets

CONSTANTS Lines,        \* the lines the file may hold
          MaxLines,     \* bound on the lines of the file
          MaxFailures   \* bound on the calls of CDCImpl that fail

(* What a line decodes to.  The line buffer has 64 bytes, the last of which *)
(* is never filled, and five of which are not data; its length byte is     *)
(* taken to count them, which the program does not check.                  *)
Offsets == 0 .. 65535
Lengths == 0 .. 58

DataLine    == [kind : {"data"}, address : Offsets, length : Lengths]
AddressLine == [kind : {"address"}, high : Nat]
OtherLine   == [kind : {"other"}]

ASSUME PgmHexAssumption ==
  /\ Lines \subseteq DataLine \cup AddressLine \cup OtherLine
  /\ MaxLines \in Nat /\ MaxFailures \in Nat

VARIABLES
  pc,                  \* where main is
  fileOpen, connected, \* file and testImp
  (* PrepareMemBlock and the line buffer *)
  HiAddress,
  DataInBufferReady,
  block,               \* the image, its number, DataOverflow, its process state
  codeLine,            \* IqrfPgmCodeLineBuffer: the line decoded last
  OpResult,
  (* the device *)
  mode,                \* "normal" or "programming"
  memory,              \* what was written, by <<area, address>>
  (* history *)
  records,             \* the data records read, with their full byte address
  lastLine,            \* the kind of the line read last
  lines, failures      \* numbers of lines read and of calls that failed

readVars == <<HiAddress, DataInBufferReady, block, codeLine, OpResult>>
fileVars == <<records, lastLine, lines>>
vars == <<pc, fileOpen, connected, readVars, mode, memory, fileVars, failures>>

Lo(n) == n % 256
Hi(n) == (n \div 256) % 256

DataBase == 1048576    \* more than any value of a byte or a counter
Data(b) == DataBase + b
IsData(value) == value >= DataBase

Indexes == 0 .. 67

SERIAL_EEPROM_MIN_ADR     == 512      \* 0x0200
SERIAL_EEPROM_MAX_ADR     == 2559     \* 0x09FF
IQRF_LICENCED_MEM_MIN_ADR == 11264    \* 0x2C00
IQRF_LICENCED_MEM_MAX_ADR == 14271    \* 0x37BF
IQRF_MAIN_MEM_MIN_ADR     == 14848    \* 0x3A00
IQRF_MAIN_MEM_MAX_ADR     == 16383    \* 0x3FFF
PIC16LF1938_EEPROM_MIN    == 61440    \* 0xF000
PIC16LF1938_EEPROM_MAX    == 61695    \* 0xF0FF

SERIAL_EEPROM      == SERIAL_EEPROM_MIN_ADR .. SERIAL_EEPROM_MAX_ADR
IQRF_LICENCED_MEM  == IQRF_LICENCED_MEM_MIN_ADR .. IQRF_LICENCED_MEM_MAX_ADR
IQRF_MAIN_MEM      == IQRF_MAIN_MEM_MIN_ADR .. IQRF_MAIN_MEM_MAX_ADR
PIC16LF1938_EEPROM == PIC16LF1938_EEPROM_MIN .. PIC16LF1938_EEPROM_MAX

IsFlash(a) == a \in IQRF_MAIN_MEM \/ a \in IQRF_LICENCED_MEM

Init ==
  /\ pc = "start" /\ fileOpen = FALSE /\ connected = FALSE
  /\ HiAddress = 0 /\ DataInBufferReady = FALSE /\ OpResult = "NONE"
  /\ block = [image |-> [i \in Indexes |-> 0], number |-> 0, overflow |-> FALSE,
              processState |-> 0]
  /\ codeLine = [kind |-> "data", address |-> 0, length |-> 0]
  /\ mode = "normal" /\ memory = [l \in {} |-> 0]
  /\ records = <<>> /\ lastLine = "none" /\ lines = 0 /\ failures = 0

-----------------------------------------------------------------------------
(* The session: main before the loop.                                      *)

sessionFrame == <<readVars, memory, fileVars>>

Fails == failures < MaxFailures /\ failures' = failures + 1

OpenFile ==
  /\ pc = "start"
  /\ \/ pc' = "connect" /\ fileOpen' = TRUE
     \/ pc' = "done" /\ UNCHANGED fileOpen
  /\ UNCHANGED <<connected, sessionFrame, mode, failures>>

(* The object is made and tested; if either fails the file is closed, and  *)
(* the object deleted.                                                     *)
Connect ==
  /\ pc = "connect"
  /\ \/ pc' = "enter" /\ connected' = TRUE /\ UNCHANGED <<fileOpen, failures>>
     \/ Fails /\ pc' = "done" /\ fileOpen' = FALSE /\ UNCHANGED connected
  /\ UNCHANGED <<sessionFrame, mode>>

(* Send and receive exceptions are printed, and programming goes on.       *)
EnterProgrammingMode ==
  /\ pc = "enter"
  /\ \/ pc' = "prepare" /\ mode' = "programming"
        /\ UNCHANGED <<fileOpen, connected, failures>>
     \/ Fails /\ pc' = "done" /\ fileOpen' = FALSE /\ connected' = FALSE
        /\ UNCHANGED mode
     \/ Fails /\ pc' = "prepare" /\ mode' \in {"normal", "programming"}
        /\ UNCHANGED <<fileOpen, connected>>
     \/ Fails /\ pc' = "crashed" /\ mode' \in {"normal", "programming"}
        /\ UNCHANGED <<fileOpen, connected>>
  /\ UNCHANGED sessionFrame

-----------------------------------------------------------------------------
(* iqrfPgmPrepareMemBlock                                                  *)

prepareFrame == <<fileOpen, connected, mode, memory, failures>>

GoTo(to) == pc' = to /\ UNCHANGED prepareFrame

(* iqrfPgmPrepareMemBlock returns, and main uploads or ends the loop. *)
Returns(opResult) ==
  /\ OpResult' = opResult
  /\ GoTo(IF opResult \in {"SUCCESS", "ERROR"} THEN "terminate" ELSE "upload")

(* The image is full of 0x3FFF unless it holds an overflow. *)
Prepare ==
  /\ pc = "prepare"
  /\ block' = [block EXCEPT
       !.image = IF block.overflow THEN @
                 ELSE [i \in Indexes |-> IF i % 2 = 0 THEN 255 ELSE 63],
       !.number = 0]
  /\ GoTo(IF DataInBufferReady THEN "process" ELSE "read")
  /\ UNCHANGED <<HiAddress, DataInBufferReady, codeLine, OpResult, fileVars>>

Ready(number) == IF number < 80 THEN "EEEPROM_BLOCK_READY" ELSE "FLASH_BLOCK_READY"

(* Fault: only the data are moved, and not the address of their block. *)
FaultAddressNotMoved(b) ==
  [image |-> [i \in Indexes |-> IF i >= 36 THEN b.image[i - 34]
                                ELSE IF i >= 34 THEN b.image[i] ELSE 0],
   number |-> (b.image[0] + 256 * b.image[1]) \div 32 + 16,
   overflow |-> FALSE, processState |-> 1]

(* iqrfPgmMoveOverflowedData: the image of the next block of the serial    *)
(* EEPROM becomes the current one.                                         *)
MoveOverflowedData(b) ==
  LET memBlock == (b.image[0] + 256 * b.image[1]) \div 32
      next     == (memBlock + 1) * 32
  IN  [image |-> [i \in Indexes |-> IF i >= 34 THEN b.image[i - 34]
                                    ELSE IF i = 0 THEN Lo(next)
                                    ELSE IF i = 1 THEN Hi(next) ELSE 0],
       number |-> memBlock + 16, overflow |-> FALSE, processState |-> 1]

(* The file ends: what is in the image is uploaded first. *)
EndOfFile ==
  /\ pc = "read"
  /\ IF block.number # 0
       THEN Returns(Ready(block.number)) /\ UNCHANGED block
       ELSE IF block.overflow
         THEN Returns("EEEPROM_BLOCK_READY") /\ block' = MoveOverflowedData(block)
         ELSE Returns("SUCCESS") /\ UNCHANGED block
  /\ lastLine' = "end"
  /\ UNCHANGED <<HiAddress, DataInBufferReady, codeLine, records, lines>>

(* iqrfPgmReadHEXFileLine: a wrong check sum, a line too long for the      *)
(* buffer, or a last line without its line feed.                           *)
ReadBadLine ==
  /\ pc = "read" /\ lines < MaxLines /\ lastLine # "end"
  /\ lastLine' = "bad" /\ lines' = lines + 1
  /\ Returns("ERROR")
  /\ UNCHANGED <<HiAddress, DataInBufferReady, block, codeLine, records>>

(* The line in the buffer, should it hold data, is a record of the file. *)
Recorded(line) ==
  records' = IF line.kind # "data" THEN records
             ELSE Append(records, [start  |-> HiAddress + line.address,
                                   length |-> line.length])

(* A line with nothing on it leaves the buffer as it was: the line before  *)
(* is processed again.                                                     *)
ReadEmptyLine ==
  /\ pc = "read" /\ lines < MaxLines /\ lastLine # "end"
  /\ Recorded(codeLine)
  /\ lastLine' = "empty" /\ lines' = lines + 1
  /\ DataInBufferReady' = TRUE
  /\ GoTo("process")
  /\ UNCHANGED <<HiAddress, block, codeLine, OpResult>>

ReadLine ==
  /\ pc = "read" /\ lines < MaxLines /\ lastLine # "end"
  /\ codeLine' \in Lines
  /\ lastLine' = codeLine'.kind /\ lines' = lines + 1
  /\ Recorded(codeLine')
  /\ DataInBufferReady' = TRUE
  /\ GoTo("process")
  /\ UNCHANGED <<HiAddress, block, OpResult>>

Processing(kind) == pc = "process" /\ codeLine.kind = kind

processFrame == <<codeLine, fileVars>>

(* The line is done with, and the next is read. *)
NextLine == DataInBufferReady' = FALSE /\ GoTo("read") /\ UNCHANGED OpResult

(* The line stays in the buffer until the image is uploaded. *)
UploadFirst(b) == Returns(Ready(b.number)) /\ block' = b /\ UNCHANGED DataInBufferReady

ProcessExtendedAddress ==
  /\ Processing("address")
  /\ HiAddress' = codeLine.high
  /\ NextLine
  /\ UNCHANGED <<block, processFrame>>

ProcessOther ==
  /\ Processing("other")
  /\ NextLine
  /\ UNCHANGED <<HiAddress, block, processFrame>>

(* uint16_t, in words *)
Address == ((HiAddress + codeLine.address) \div 2) % 65536

(* The low byte of the n-th word, and the n-th byte of the line. *)
WordData(n) == Data(HiAddress + codeLine.address + 2 * n)
ByteData(n) == Data(HiAddress + codeLine.address + n)

Current == IF block.overflow THEN MoveOverflowedData(block) ELSE block

(* The addresses of the two packets of an image. *)
WithAddresses(image, first, second) ==
  [i \in Indexes |-> CASE i = 0  -> Lo(first)  [] i = 1  -> Hi(first)
                       [] i = 34 -> Lo(second) [] i = 35 -> Hi(second)
                       [] OTHER -> image[i]]

NewSerialImage ==
  LET memBlock == ((Address - 512) \div 32) * 32
  IN  [image |-> WithAddresses([i \in Indexes |-> 0], memBlock + 32, memBlock),
       number |-> Address \div 32, overflow |-> FALSE, processState |-> 1]

(* Data for the external serial EEPROM; what does not fit the block goes   *)
(* to the image of the next one, at indexes 2 to 33.                       *)
PutSerial(b, to, count) ==
  [b EXCEPT !.overflow = to + count > Cardinality(Indexes),
            !.image = [i \in Indexes |->
               LET n == IF i >= to THEN i - to ELSE i - 2 + 68 - to
               IN  IF n \in 0 .. count - 1 /\ i # 0 /\ i # 1 THEN WordData(n) ELSE @[i]]]

StoreSerial(b) ==
  IF b.number # Address \div 32 THEN UploadFirst(b)
  ELSE /\ block' = PutSerial(b, (Address % 32) + 36, codeLine.length \div 2)
       /\ IF block'.overflow
            THEN Returns("EEEPROM_BLOCK_READY") /\ DataInBufferReady' = FALSE
            ELSE NextLine

ProcessSerialEEPROM ==
  /\ Processing("data") /\ Address \in SERIAL_EEPROM
  /\ StoreSerial(IF Current.number = 0 THEN NewSerialImage ELSE Current)
  /\ UNCHANGED <<HiAddress, processFrame>>

(* Data for the flash memory: the image holds a block of 32 words, in two  *)
(* halves with an address each.                                            *)
(* Fault: the address of the second half is forgotten. *)
FaultDestinationIndex == (Address % 32) * 2 + 2

DestinationIndex == (Address % 32) * 2 + (IF Address % 32 < 16 THEN 2 ELSE 4)

(* What goes beyond the end of the area is cut off, and its last word too. *)
DataCounter ==
  LET last == IF Address \in IQRF_MAIN_MEM THEN IQRF_MAIN_MEM_MAX_ADR
              ELSE IQRF_LICENCED_MEM_MAX_ADR
  IN  IF Address + codeLine.length \div 2 > last
        THEN (last - Address) * 2 ELSE codeLine.length

PutFlash(b, to, count) ==
  LET first == (Address \div 32) * 32
  IN  [b EXCEPT !.number = Address \div 32, !.processState = 2,
                !.image = [i \in Indexes |->
                   IF i - to \in 0 .. count - 1 THEN ByteData(i - to)
                   ELSE WithAddresses(@, first, first + 16)[i]]]

(* Fault: the whole image is taken for too small. *)
FaultStoreFlash(b, to, count) ==
  IF to + count >= Cardinality(Indexes)
    THEN Returns("ERROR") /\ block' = b /\ UNCHANGED DataInBufferReady
  ELSE IF b.number # 0 /\ b.number # Address \div 32 THEN UploadFirst(b)
  ELSE block' = PutFlash(b, to, count) /\ NextLine

StoreFlash(b, to, count) ==
  IF to + count > Cardinality(Indexes)
    THEN Returns("ERROR") /\ block' = b /\ UNCHANGED DataInBufferReady
  ELSE IF b.number # 0 /\ b.number # Address \div 32 THEN UploadFirst(b)
  ELSE block' = PutFlash(b, to, count) /\ NextLine

ProcessFlash ==
  /\ Processing("data") /\ IsFlash(Address)
  /\ StoreFlash(Current, DestinationIndex, DataCounter)
  /\ UNCHANGED <<HiAddress, processFrame>>

(* Data for the internal EEPROM: one record is one packet. *)
PutInternal(b, count) ==
  [b EXCEPT !.image = [i \in Indexes |->
     CASE i = 0 -> Lo(Address) [] i = 1 -> count
       [] i - 2 \in 0 .. count - 1 -> WordData(i - 2) [] OTHER -> @[i]]]

StoreInternal(b, count) ==
  IF b.number # 0 THEN UploadFirst(b)
  ELSE IF Address + count > PIC16LF1938_EEPROM_MAX \/ count > 32
    THEN /\ Returns("ERROR") /\ UNCHANGED DataInBufferReady
         /\ block' = [b EXCEPT !.image[0] = Lo(Address), !.image[1] = count]
  ELSE /\ block' = [PutInternal(b, count) EXCEPT !.processState = 1]
       /\ Returns("EEPROM_BLOCK_READY") /\ DataInBufferReady' = FALSE

ProcessInternalEEPROM ==
  /\ Processing("data") /\ Address \in PIC16LF1938_EEPROM
  /\ StoreInternal(Current, codeLine.length \div 2)
  /\ UNCHANGED <<HiAddress, processFrame>>

(* Data for any other address are skipped. *)
ProcessElsewhere ==
  /\ Processing("data")
  /\ ~IsFlash(Address) /\ Address \notin SERIAL_EEPROM
  /\ Address \notin PIC16LF1938_EEPROM
  /\ block' = Current
  /\ NextLine
  /\ UNCHANGED <<HiAddress, processFrame>>

-----------------------------------------------------------------------------
(* The loop of main: the packets of the image.                             *)

Target == CASE OpResult = "FLASH_BLOCK_READY"   -> "FLASH"
            [] OpResult = "EEEPROM_BLOCK_READY" -> "EEEPROM"
            [] OpResult = "EEPROM_BLOCK_READY"  -> "EEPROM"

(* Where the packet is in the image, its address and its data behind. *)
PacketAt == IF \/ OpResult = "EEPROM_BLOCK_READY"
               \/ OpResult = "FLASH_BLOCK_READY" /\ block.processState = 2
            THEN 0 ELSE 34

DataSize == IF OpResult = "EEPROM_BLOCK_READY" THEN block.image[1] ELSE 32

PacketAddress ==
  block.image[PacketAt] + (IF Target = "EEPROM" THEN 0 ELSE 256 * block.image[PacketAt + 1])

(* The device (external): flash has two bytes to an address. *)
Written ==
  LET first == IF Target = "FLASH" THEN 2 * PacketAddress ELSE PacketAddress
  IN  [l \in {Target} \X (first .. first + DataSize - 1) |->
         block.image[PacketAt + 2 + l[2] - first]]

Store ==
  memory' = [l \in DOMAIN Written \cup DOMAIN memory |->
               IF l \in DOMAIN Written THEN Written[l] ELSE memory[l]]

(* Fault: the packets are counted after the test. *)
FaultPacketMore ==
  /\ block' = [block EXCEPT !.processState = @ - 1]
  /\ pc' = IF block.processState = 0 THEN "prepare" ELSE "upload"

(* Fault: the image is uploaded again and again. *)
FaultNextPacket == block' = block /\ pc' = "upload"

NextPacket ==
  /\ block' = [block EXCEPT !.processState = @ - 1,
                            !.image[1] = IF Target = "EEPROM" THEN 0 ELSE @]
  /\ pc' = IF block.processState = 1 THEN "prepare" ELSE "upload"

uploadFrame == <<fileOpen, connected, HiAddress, DataInBufferReady, codeLine, OpResult,
                 mode, fileVars>>

Upload ==
  /\ pc = "upload" /\ mode = "programming"
  /\ Store
  /\ NextPacket
  /\ UNCHANGED <<uploadFrame, failures>>

(* The device refuses, or the call throws, also after the device has done  *)
(* its work; the program prints it and goes on.                            *)
UploadFails ==
  /\ pc = "upload"
  /\ mode = "programming" => failures < MaxFailures
  /\ failures' = IF mode = "programming" THEN failures + 1 ELSE failures
  /\ \/ UNCHANGED memory
     \/ mode = "programming" /\ Store
  /\ NextPacket
  /\ UNCHANGED uploadFrame

(* Nobody catches the exception of the message parser. *)
UploadCrashes ==
  /\ pc = "upload" /\ Fails
  /\ pc' = "crashed"
  /\ UNCHANGED <<uploadFrame, memory, block>>

(* Send and receive exceptions are printed, as is a refusal. *)
TerminateProgrammingMode ==
  /\ pc = "terminate"
  /\ \/ pc' = "done" /\ fileOpen' = FALSE /\ connected' = FALSE
        /\ \/ mode' = "normal" /\ UNCHANGED failures
           \/ Fails /\ mode' \in {mode, "normal"}
     \/ pc' = "crashed" /\ Fails /\ mode' \in {mode, "normal"}
        /\ UNCHANGED <<fileOpen, connected>>
  /\ UNCHANGED sessionFrame

Ended == pc \in {"done", "crashed"}

Process ==
  \/ ProcessExtendedAddress \/ ProcessOther \/ ProcessSerialEEPROM \/ ProcessFlash
  \/ ProcessInternalEEPROM \/ ProcessElsewhere

Step ==
  \/ OpenFile \/ Connect \/ EnterProgrammingMode
  \/ Prepare \/ EndOfFile \/ ReadBadLine \/ ReadEmptyLine \/ ReadLine \/ Process
  \/ Upload \/ UploadFails \/ UploadCrashes \/ TerminateProgrammingMode

Next == Step \/ (Ended /\ UNCHANGED vars)

Spec == Init /\ [][Next]_vars

(* The program runs, and every call of CDCImpl returns (CallReturns of     *)
(* CDCCommand).                                                            *)
FairSpec == Spec /\ WF_vars(Step)

-----------------------------------------------------------------------------
SessionTypeOK ==
  /\ pc \in {"start", "connect", "enter", "prepare", "read", "process", "upload",
             "terminate", "done", "crashed"}
  /\ fileOpen \in BOOLEAN /\ connected \in BOOLEAN
  /\ OpResult \in {"NONE", "SUCCESS", "ERROR", "FLASH_BLOCK_READY",
                   "EEEPROM_BLOCK_READY", "EEPROM_BLOCK_READY"}
  /\ mode \in {"normal", "programming"}
  /\ failures \in 0 .. MaxFailures

LineTypeOK ==
  /\ HiAddress \in Nat /\ DataInBufferReady \in BOOLEAN
  /\ codeLine \in DataLine \cup AddressLine \cup OtherLine

BlockType ==
  [image : [Indexes -> Nat], number : Nat, overflow : BOOLEAN, processState : 0 .. 2]

FileTypeOK ==
  /\ records \in Seq([start : Nat, length : Lengths])
  /\ lastLine \in {"none", "end", "bad", "empty", "data", "address", "other"}
  /\ lines \in 0 .. MaxLines

MemoryTypeOK ==
  /\ DOMAIN memory \subseteq {"FLASH", "EEEPROM", "EEPROM"} \X Nat
  /\ memory \in [DOMAIN memory -> Nat]

(* The image, its block and the device hold what they can hold: addresses  *)
(* and data, and one or two packets to upload (PREPARE_MEM_BLOCK).         *)
TypeOK ==
  /\ SessionTypeOK /\ LineTypeOK /\ FileTypeOK /\ MemoryTypeOK
  /\ block \in BlockType

(* Where the file wants a byte: by its full address.                       *)

Word(b) == b \div 2

Place(b) ==
  CASE IsFlash(Word(b)) -> <<"FLASH", b>>
    [] Word(b) \in SERIAL_EEPROM -> <<"EEEPROM", Word(b) - 512>>
    [] Word(b) \in PIC16LF1938_EEPROM -> <<"EEPROM", Word(b) - 61440>>
    [] OTHER -> <<"nowhere", b>>

(* The bytes of a record the device keeps: both of a flash word, the low   *)
(* one of an EEPROM word.  The program drops the last word of a flash      *)
(* area.                                                                   *)
Kept(r) ==
  {b \in r.start .. r.start + r.length - 1 :
     /\ Place(b)[1] # "nowhere"
     /\ Place(b)[1] # "FLASH" => b % 2 = 0
     /\ Word(b) \notin {IQRF_MAIN_MEM_MAX_ADR, IQRF_LICENCED_MEM_MAX_ADR}}

AllRecords == {records[i] : i \in DOMAIN records}

End(r) == r.start + r.length

(* What the program does not handle: a record that is not of whole words,  *)
(* the halves of which it takes for others; one across the middle of a     *)
(* flash block, which overwrites the address of the second half; one that  *)
(* begins in an area and ends behind it; one with an address over 16 bits. *)
Unhandled(r) ==
  \/ r.start % 2 = 1 \/ r.length % 2 = 1
  \/ /\ Place(r.start)[1] = "FLASH"
     /\ Word(r.start) % 32 < 16 /\ (Word(r.start) % 32) * 2 + r.length > 32
  \/ Place(r.start)[1] # Place(End(r) - 1)[1]
  \/ Word(End(r) - 1) >= 65536

Sorted == \A i, j \in DOMAIN records : i < j => End(records[i]) <= records[j].start

(* When the program ends without an error, every byte of the file that the *)
(* device keeps is at its address: if no call failed, no record is of the  *)
(* unhandled kinds, and the file is sorted, so that no block is begun      *)
(* twice (iqrfPgmPrepareMemBlock).                                         *)
ProgrammedWhole ==
  /\ pc = "done" /\ OpResult = "SUCCESS" /\ failures = 0
  /\ Sorted /\ \A r \in AllRecords : ~Unhandled(r)
  => \A r \in AllRecords : \A b \in Kept(r) :
       Place(b) \in DOMAIN memory /\ memory[Place(b)] = Data(b)

(* No byte of the file is ever written to the place of another, whatever   *)
(* the order of the records and whichever calls fail                       *)
(* (iqrfPgmPrepareMemBlock, iqrfPgmMoveOverflowedData).                    *)
NothingMisplaced ==
  (\A r \in AllRecords : ~Unhandled(r)) =>
    \A l \in DOMAIN memory : IsData(memory[l]) => l = Place(memory[l] - DataBase)

(* The program gives up only at a line it could not read, at a record that *)
(* leaves its flash block, or at one that fills the internal EEPROM to its *)
(* end (iqrfPgmPrepareMemBlock, IQRF_PGM_ERROR).                           *)
StopExplained ==
  OpResult = "ERROR" =>
    \/ lastLine = "bad"
    \/ LET r == records[Len(records)] IN
         \/ Word(r.start) \div 32 # Word(End(r) - 1) \div 32
         \/ Word(End(r) - 1) % 65536 >= PIC16LF1938_EEPROM_MAX

(* However the calls end, the program does; unless an exception escapes it *)
(* has closed the file, deleted the object and, if no call failed, taken   *)
(* the device back to its normal mode (main).                              *)
SessionEnds ==
  <>(\/ pc = "crashed"
     \/ /\ pc = "done" /\ ~fileOpen /\ ~connected
        /\ mode = "normal" \/ failures > 0)
=============================================================================
