------------------------------ MODULE MCParser ------------------------------
(***************************************************************************)
(* The messages and streams on which parseData is checked: every fixed     *)
(* text; data at its boundaries (data that holds CR, <, or a byte equal to *)
(* a length, both sizes of the identification); and streams of two         *)
(* messages, of a spoiled message and a message, and of noise.             *)
(***************************************************************************)
EXTENDS CDCParserBytes

Sample(type, text, value) == [type |-> type, text |-> text, value |-> value]

FixedSamples ==
  {Sample(t, text, "OK") : <<t, text>> \in
     UNION {{<<t, x>> : x \in FixedText(t)} :
              t \in {"MSG_ERROR", "MSG_TEST", "MSG_RES_USB", "MSG_RES_TR", "MSG_USB_CONN",
                     "MSG_SWITCH"}}}
  \cup {Sample(t, <<LT, ch.P, l, COLON>> \o Ok, "OK") :
          <<t, l>> \in {<<"MSG_MODE_PROGRAM", ch.E>>, <<"MSG_MODE_NORMAL", ch.T>>,
                        <<"MSG_UPLOAD_DOWNLOAD", ch.M>>}}
  \cup {Sample(t, <<LT, ch.P, l, COLON>> \o Err1, "ERR1") :
          <<t, l>> \in {<<"MSG_MODE_PROGRAM", ch.E>>, <<"MSG_MODE_NORMAL", ch.T>>}}
  \cup {Sample("MSG_UPLOAD_DOWNLOAD", <<LT, ch.P, ch.M, COLON>> \o p[1], p[2]) :
          p \in {<<Busy, "BUSY">>, <<Err \o <<50, CR>>, "ERR2">>, <<Err \o <<55, CR>>, "ERR7">>}}
  \cup {Sample("MSG_DATA_SEND", <<LT, ch.D, ch.S, COLON>> \o p[1], p[2]) :
          p \in {<<Ok, "OK">>, <<Err \o <<CR>>, "ERR">>, <<Busy, "BUSY">>}}

StatusSamples ==
  {Sample("MSG_SPI_STAT", StatusText(s), [isDataReady |-> s = 65, value |-> s]) :
     s \in {0, 65, 128}}

AsyncSamples ==
  {Sample("MSG_ASYNC", AsyncText(d), d) : d \in {<<CR>>, <<LT>>, <<1, CR, CR>>, <<7, 8>>}}

USBInfoSamples ==
  {Sample("MSG_USB_INFO", USBInfoText(t, v, i),
          [type |-> t, firmwareVersion |-> v, serialNumber |-> i]) :
     t \in {<<>>, <<ch.T, CR>>}, v \in {<<>>, <<49, DOT, 50>>}, i \in {<<>>, <<57, 72>>}}

Identification == [i \in 1..16 |-> 100 + i]

TRInfoSamples ==
  { Sample("MSG_TR_INFO", TRInfoText(Identification),
           [identification |-> Identification, ibk |-> [i \in 1..16 |-> 0]]),
    Sample("MSG_TR_INFO", TRInfoText(Identification \o [i \in 1..16 |-> i]),
           [identification |-> Identification, ibk |-> [i \in 1..16 |-> i]]) }

DataSamples ==
  {Sample("MSG_DOWNLOAD_DATA", DataText(d), d) :
     d \in {<<1>>, <<CR, LT, 3>>, [i \in 1..32 |-> i]}}

MCSamples == FixedSamples \cup StatusSamples \cup AsyncSamples \cup USBInfoSamples
               \cup TRInfoSamples \cup DataSamples

(* A spoiled message: one byte of it replaced by b, at the place after i. *)
Spoiled(text, i, b) == [j \in DOMAIN text |-> IF j = i THEN b ELSE text[j]]

Texts == {m.text : m \in MCSamples}
Short == {t \in Texts : Len(t) <= 9}

MCStreams ==
  {t \o u : t \in Texts, u \in Short}
    \cup {Spoiled(t, i, b) : t \in Short, i \in 1..6, b \in {CR, HASH, LT, 49}}
=============================================================================
