----------------------------- MODULE CDCGrammar -----------------------------
(***************************************************************************)
(* What the messages of the device look like, said without an automaton:   *)
(* the reference that parseData is checked against.                        *)
(***************************************************************************)
EXTENDS CDCParser

(* The messages with a fixed text. *)
FixedText(type) ==
  CASE type = "MSG_ERROR"           -> {<<LT>> \o Err \o <<CR>>}
    [] type = "MSG_TEST"            -> {<<LT>> \o Ok}
    [] type = "MSG_RES_USB"         -> {<<LT, ch.R, COLON>> \o Ok}
    [] type = "MSG_RES_TR"          -> {<<LT, ch.R, ch.T, COLON>> \o Ok}
    [] type = "MSG_USB_CONN"        -> {<<LT, ch.B, COLON>> \o Ok}
    [] type = "MSG_DATA_SEND"       -> {<<LT, ch.D, ch.S, COLON>> \o t :
                                          t \in {Ok, Err \o <<CR>>, Busy}}
    [] type = "MSG_SWITCH"          -> {<<LT, ch.U, COLON>> \o Ok}
    [] type = "MSG_MODE_PROGRAM"    -> {<<LT, ch.P, ch.E, COLON>> \o t : t \in {Ok, Err1}}
    [] type = "MSG_MODE_NORMAL"     -> {<<LT, ch.P, ch.T, COLON>> \o t : t \in {Ok, Err1}}
    [] type = "MSG_UPLOAD_DOWNLOAD" -> {<<LT, ch.P, ch.M, COLON>> \o t :
                                          t \in {Ok, Busy}
                                                \cup {Err \o <<d, CR>> : d \in 50..55}}

FixedTypes == {"MSG_ERROR", "MSG_TEST", "MSG_RES_USB", "MSG_RES_TR", "MSG_USB_CONN",
               "MSG_DATA_SEND", "MSG_SWITCH", "MSG_MODE_PROGRAM", "MSG_MODE_NORMAL",
               "MSG_UPLOAD_DOWNLOAD"}

(* The messages that carry data. *)
StatusText(status)   == <<LT, ch.S, COLON, status, CR>>
AsyncText(userData)  == <<LT, ch.D, ch.R, Len(userData), COLON>> \o userData \o <<CR>>
TRInfoText(bytes)    == <<LT, ch.I, ch.T, COLON>> \o bytes \o <<CR>>
DataText(bytes)      == <<LT, ch.P, ch.M, COLON>> \o bytes \o <<CR>>
USBInfoText(t, v, i) == <<LT, ch.I, COLON>> \o t \o <<HASH>> \o v \o <<HASH>> \o i \o <<CR>>

Bytes(data) == {data[i] : i \in DOMAIN data}

IsStatus(data) == Len(data) = 5 /\ data = StatusText(data[4])

IsAsync(data) ==
  Len(data) >= 6 /\ data = AsyncText(SubSeq(data, 6, Len(data) - 1))

IsTRInfo(data) ==
  Len(data) \in {21, 37} /\ data = TRInfoText(SubSeq(data, 5, Len(data) - 1))

IsData(data) == Len(data) >= 5 /\ data = DataText(SubSeq(data, 5, Len(data) - 1))

IsUSBInfo(data) ==
  \E h1, h2 \in 4..Len(data) :
    LET t == SubSeq(data, 4, h1 - 1)
        v == SubSeq(data, h1 + 1, h2 - 1)
        i == SubSeq(data, h2 + 1, Len(data) - 1)
    IN  /\ h1 < h2
        /\ HASH \notin Bytes(t)
        /\ Bytes(v) \subseteq Digits \cup {DOT}
        /\ Bytes(i) \subseteq Digits \cup 65..72
        /\ data = USBInfoText(t, v, i)

IsMessage(type, data) ==
  CASE type \in FixedTypes         -> data \in FixedText(type)
    [] type = "MSG_SPI_STAT"       -> IsStatus(data)
    [] type = "MSG_ASYNC"          -> IsAsync(data)
    [] type = "MSG_TR_INFO"        -> IsTRInfo(data)
    [] type = "MSG_USB_INFO"       -> IsUSBInfo(data)
    [] type = "MSG_DOWNLOAD_DATA"  -> IsData(data)

MessageTypes == FixedTypes \cup {"MSG_SPI_STAT", "MSG_ASYNC", "MSG_TR_INFO",
                                 "MSG_USB_INFO", "MSG_DOWNLOAD_DATA"}

(* The messages whose end the parser finds without looking at how many     *)
(* bytes the buffer holds.  A message of asynchronous data without data is *)
(* not one of them: processAsynData wants a byte after its CR.             *)
SelfDelimitingTypes ==
  MessageTypes \ {"MSG_TR_INFO", "MSG_UPLOAD_DOWNLOAD", "MSG_DOWNLOAD_DATA"}

IsSelfDelimiting(data) ==
  /\ \E t \in SelfDelimitingTypes : IsMessage(t, data)
  /\ data # AsyncText(<<>>)

-----------------------------------------------------------------------------
(* The getter that the public operation for the type applies. *)
Parsed(type, text) ==
  CASE type = "MSG_USB_INFO"                               -> getParsedDeviceInfo(text)
    [] type = "MSG_TR_INFO"                                -> getParsedModuleInfo(text)
    [] type = "MSG_SPI_STAT"                               -> getParsedSPIStatus(text)
    [] type = "MSG_DATA_SEND"                              -> getParsedDSResponse(text)
    [] type = "MSG_ASYNC"                                  -> getParsedDRData(text)
    [] type \in {"MSG_MODE_PROGRAM", "MSG_MODE_NORMAL"}    -> getParsedPTEResponse(text)
    [] type = "MSG_UPLOAD_DOWNLOAD"                        -> getParsedPMResponse(text)
    [] type = "MSG_DOWNLOAD_DATA"                          -> getParsedPMData(text)
    [] OTHER                                               -> "OK"

(* The getter does not refuse the text.                                   *)
Understood(type, text) ==
  /\ type \in {"MSG_DATA_SEND", "MSG_MODE_PROGRAM", "MSG_MODE_NORMAL", "MSG_UPLOAD_DOWNLOAD"}
       => Parsed(type, text) # EXCEPTION
  /\ type = "MSG_TR_INFO" => Parsed(type, text) # NULL
=============================================================================
