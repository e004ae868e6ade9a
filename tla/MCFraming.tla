------------------------------ MODULE MCFraming ------------------------------
(***************************************************************************)
(* The messages the device sends in the runs of CDCFraming.                *)
(***************************************************************************)
EXTENDS CDCFraming

Frame(type, text) == [type |-> type, text |-> text]

(* Messages that mark their own end: a fixed text, one headed with >, one  *)
(* with data that looks like the end and the head of a message.            *)
SelfDelimiting ==
  { Frame("MSG_TEST", <<LT>> \o Ok),
    Frame("MSG_RES_USB", <<GT, ch.R, COLON>> \o Ok),
    Frame("MSG_ASYNC", AsyncText(<<CR, LT>>)) }

(* Messages whose end depends on the size of the buffer, with no CR in     *)
(* their data, beside two that mark their own.                             *)
LookAhead ==
  { Frame("MSG_SPI_STAT", StatusText(CR)),
    Frame("MSG_ASYNC", AsyncText(<<CR, CR>>)),
    Frame("MSG_UPLOAD_DOWNLOAD", <<LT, ch.P, ch.M, COLON>> \o Ok),
    Frame("MSG_UPLOAD_DOWNLOAD", <<LT, ch.P, ch.M, COLON>> \o Busy),
    Frame("MSG_TR_INFO", TRInfoText([i \in 1..16 |-> 100 + i])),
    Frame("MSG_DOWNLOAD_DATA", DataText(<<LT, ch.O, ch.K>>)) }

(* Linux reads chunks and the line may lose a byte; Windows reads single   *)
(* bytes.                                                                  *)
BothFrames == [Linux |-> SelfDelimiting, Windows |-> LookAhead]
BothLosses == [Linux |-> 1, Windows |-> 0]

(* Downloaded memory that holds the byte 0x0D. *)
DataWithCR ==
  [Windows |-> { Frame("MSG_DOWNLOAD_DATA", DataText(<<1, CR, 2, 3, 4, 5>>)) }]
NoLosses == [Windows |-> 0]
=============================================================================
