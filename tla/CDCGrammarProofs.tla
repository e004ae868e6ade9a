--------------------------- MODULE CDCGrammarProofs ---------------------------
(***************************************************************************)
(* What parseData accepts is a message of the grammar, and its getter      *)
(* understands it.                                                         *)
(***************************************************************************)
EXTENDS CDCGrammar, CDCParserProofs

-----------------------------------------------------------------------------
(* Cutting a text into its parts.                                          *)

LEMMA SameSequence ==
  ASSUME NEW s \in Seq(Nat), NEW t \in Seq(Nat), Len(s) = Len(t), \A i \in 1..Len(s) : s[i] = t[i]
  PROVE  s = t
OBVIOUS

LEMMA JoinElements ==
  ASSUME NEW l \in Seq(Nat), NEW r \in Seq(Nat)
  PROVE  /\ (l \o r) \in Seq(Nat) /\ Len(l \o r) = Len(l) + Len(r)
         /\ \A i \in 1..Len(l) : (l \o r)[i] = l[i]
         /\ \A i \in (Len(l) + 1)..(Len(l) + Len(r)) : (l \o r)[i] = r[i - Len(l)]
OBVIOUS

LEMMA Join ==
  ASSUME NEW s \in Seq(Nat), NEW a \in Nat, NEW m \in Nat, NEW z \in Nat,
         1 <= a, a <= m + 1, m <= z, z <= Len(s)
  PROVE  SubSeq(s, a, z) = SubSeq(s, a, m) \o SubSeq(s, m + 1, z)
<1> DEFINE x == SubSeq(s, a, z)
           l == SubSeq(s, a, m)
           r == SubSeq(s, m + 1, z)
<1>1. /\ x \in Seq(Nat) /\ Len(x) = z + 1 - a /\ \A i \in 1..(z + 1 - a) : x[i] = s[a + i - 1]
      /\ l \in Seq(Nat) /\ Len(l) = m + 1 - a /\ \A i \in 1..(m + 1 - a) : l[i] = s[a + i - 1]
      /\ r \in Seq(Nat) /\ Len(r) = z - m /\ \A i \in 1..(z - m) : r[i] = s[m + 1 + i - 1]
  OBVIOUS
<1> HIDE DEF x, l, r
<1> DEFINE j == l \o r
<1>2. /\ j \in Seq(Nat) /\ Len(j) = Len(l) + Len(r)
      /\ \A i \in 1..Len(l) : j[i] = l[i]
      /\ \A i \in (Len(l) + 1)..(Len(l) + Len(r)) : j[i] = r[i - Len(l)]
  BY <1>1, JoinElements, Zenon
<1> HIDE DEF j
<1>3. Len(j) = Len(x)
  BY <1>1, <1>2
<1>4. ASSUME NEW i \in 1..Len(x) PROVE x[i] = j[i]
  <2>1. CASE i <= Len(l)
    BY <1>1, <1>2, <2>1
  <2>2. CASE ~(i <= Len(l))
    <3>1. /\ i - Len(l) \in 1..(z - m) /\ m + 1 + (i - Len(l)) - 1 = a + i - 1
          /\ i \in (Len(l) + 1)..(Len(l) + Len(r)) /\ i \in 1..(z + 1 - a)
      BY <1>1, <2>2
    <3>. QED  BY <1>1, <1>2, <3>1
  <2>. QED  BY <2>1, <2>2
<1>5. x = j
  BY <1>1, <1>2, <1>3, <1>4, SameSequence
<1>. QED  BY <1>5 DEF x, l, r, j

LEMMA SliceElements ==
  ASSUME NEW s \in Seq(Nat), NEW a \in Nat, NEW z \in Nat, 1 <= a, a <= z + 1, z <= Len(s)
  PROVE  /\ SubSeq(s, a, z) \in Seq(Nat) /\ Len(SubSeq(s, a, z)) = z + 1 - a
         /\ \A i \in 1..(z + 1 - a) : SubSeq(s, a, z)[i] = s[a + i - 1]
OBVIOUS

LEMMA OneOf == \A s \in Seq(Nat) : Len(s) = 1 => s = <<s[1]>>
OBVIOUS

LEMMA TwoOf == \A s \in Seq(Nat) : Len(s) = 2 => s = <<s[1], s[2]>>
OBVIOUS

LEMMA ThreeOf == \A s \in Seq(Nat) : Len(s) = 3 => s = <<s[1], s[2], s[3]>>
OBVIOUS

LEMMA SliceOfOne ==
  ASSUME NEW s \in Seq(Nat), NEW a \in Nat, 1 <= a, a <= Len(s)
  PROVE  SubSeq(s, a, a) = <<s[a]>>
<1> DEFINE t == SubSeq(s, a, a)
<1>1. t \in Seq(Nat) /\ Len(t) = 1 /\ t[1] = s[a]
  BY SliceElements
<1> HIDE DEF t
<1>. QED  BY <1>1, OneOf DEF t

LEMMA SliceOfTwo ==
  ASSUME NEW s \in Seq(Nat), NEW a \in Nat, NEW b \in Nat,
         1 <= a, b = a + 1, b <= Len(s)
  PROVE  SubSeq(s, a, b) = <<s[a], s[b]>>
<1> DEFINE t == SubSeq(s, a, b)
<1>1. t \in Seq(Nat) /\ Len(t) = 2 /\ t[1] = s[a] /\ t[2] = s[b]
  BY SliceElements
<1> HIDE DEF t
<1>. QED  BY <1>1, TwoOf DEF t

LEMMA SliceOfThree ==
  ASSUME NEW s \in Seq(Nat), NEW a \in Nat, NEW b \in Nat, NEW c \in Nat,
         1 <= a, b = a + 1, c = a + 2, c <= Len(s)
  PROVE  SubSeq(s, a, c) = <<s[a], s[b], s[c]>>
<1> DEFINE t == SubSeq(s, a, c)
<1>1. t \in Seq(Nat) /\ Len(t) = 3 /\ t[1] = s[a] /\ t[2] = s[b] /\ t[3] = s[c]
  BY SliceElements
<1> HIDE DEF t
<1>. QED  BY <1>1, ThreeOf DEF t

LEMMA FirstFour ==
  ASSUME NEW s \in Seq(Nat), 4 <= Len(s)
  PROVE  SubSeq(s, 1, 4) = <<s[1], s[2], s[3], s[4]>>
<1> DEFINE t == SubSeq(s, 1, 4)
<1>1. t \in Seq(Nat) /\ Len(t) = 4 /\ t[1] = s[1] /\ t[2] = s[2] /\ t[3] = s[3] /\ t[4] = s[4]
  OBVIOUS
<1> HIDE DEF t
<1>. QED  BY <1>1, FourOf, Zenon DEF t

LEMMA FiveToNine ==
  ASSUME NEW s \in Seq(Nat), 9 <= Len(s)
  PROVE  SubSeq(s, 5, 9) = <<s[5], s[6], s[7], s[8], s[9]>>
<1> DEFINE t == SubSeq(s, 5, 9)
<1>1. /\ t \in Seq(Nat) /\ Len(t) = 5
      /\ t[1] = s[5] /\ t[2] = s[6] /\ t[3] = s[7] /\ t[4] = s[8] /\ t[5] = s[9]
  BY SMTT(60)
<1> HIDE DEF t
<1>. QED  BY <1>1, FiveOf, Zenon DEF t

-----------------------------------------------------------------------------
(* The texts of the finite states.                                         *)

LEMMA Numbers == \A s \in Seq(Nat) : \A i \in 1..Len(s) : s[i] \in Nat
OBVIOUS

LEMMA Whole == \A s \in Seq(Nat) : SubSeq(s, 1, Len(s)) = s
OBVIOUS

LEMMA Headed ==
  ASSUME NEW text \in Seq(Nat), NEW n \in Nat, Len(text) = n, 5 <= n, text[n] = CR
  PROVE  /\ text = <<text[1], text[2], text[3], text[4]>> \o SubSeq(text, 5, n)
         /\ text = <<text[1], text[2], text[3], text[4]>> \o Body(text, 4) \o <<CR>>
         /\ SubSeq(text, 5, n) = Body(text, 4) \o <<CR>>
<1>1. text = SubSeq(text, 1, 4) \o SubSeq(text, 5, n)
  <2>1. SubSeq(text, 1, n) = SubSeq(text, 1, 4) \o SubSeq(text, 4 + 1, n)
    BY Join
  <2>. QED  BY <2>1, Whole
<1>2. SubSeq(text, 1, 4) = <<text[1], text[2], text[3], text[4]>>
  BY FirstFour
<1>3. Body(text, 4) = SubSeq(text, 5, n - 1)
  BY DEF Body
<1>4. SubSeq(text, n, n) = <<CR>>
  BY SliceOfOne
<1>5. SubSeq(text, 5, n) = Body(text, 4) \o <<CR>>
  <2>1. n - 1 \in Nat /\ 5 <= (n - 1) + 1 /\ n - 1 <= n /\ (n - 1) + 1 = n
    OBVIOUS
  <2>2. SubSeq(text, 5, n) = SubSeq(text, 5, n - 1) \o SubSeq(text, (n - 1) + 1, n)
    BY <2>1, Join
  <2>. QED  BY <1>3, <1>4, <2>1, <2>2
<1>6. text = <<text[1], text[2], text[3], text[4]>> \o Body(text, 4) \o <<CR>>
  <2>1. n - 1 \in Nat /\ 4 <= n - 1 /\ n - 1 <= n /\ (n - 1) + 1 = n
    OBVIOUS
  <2>2. SubSeq(text, 1, n - 1) = SubSeq(text, 1, 4) \o SubSeq(text, 4 + 1, n - 1)
    BY <2>1, Join
  <2>3. SubSeq(text, 1, n) = SubSeq(text, 1, n - 1) \o SubSeq(text, (n - 1) + 1, n)
    BY <2>1, Join
  <2>4. SubSeq(text, 4 + 1, n - 1) = Body(text, 4)
    BY <1>3
  <2>5. text = SubSeq(text, 1, n)
    BY Whole
  <2>. QED  BY <1>2, <1>4, <2>1, <2>2, <2>3, <2>4, <2>5, Zenon
<1>. QED  BY <1>1, <1>2, <1>5, <1>6

LEMMA OkTail ==
  ASSUME NEW text \in Seq(Nat), NEW a \in Nat, NEW b \in Nat, NEW c \in Nat,
         1 <= a, b = a + 1, c = a + 2, Len(text) = c,
         text[a] = ch.O, text[b] = ch.K, text[c] = CR
  PROVE  SubSeq(text, a, c) = Ok
<1>1. SubSeq(text, a, c) = <<text[a], text[b], text[c]>>
  BY SliceOfThree
<1>. QED  BY <1>1, Zenon DEF Ok

LEMMA ErrTail ==
  ASSUME NEW text \in Seq(Nat), NEW a \in Nat, NEW b \in Nat, NEW c \in Nat,
         1 <= a, b = a + 1, c = a + 2, c <= Len(text),
         text[a] = ch.E, text[b] = ch.R, text[c] = ch.R
  PROVE  SubSeq(text, a, c) = Err
<1>1. SubSeq(text, a, c) = <<text[a], text[b], text[c]>>
  BY SliceOfThree
<1>. QED  BY <1>1, Zenon DEF Err

LEMMA BusyTail ==
  ASSUME NEW text \in Seq(Nat), Len(text) = 9, text[5] = ch.B, text[6] = ch.U,
         text[7] = ch.S, text[8] = ch.Y, text[9] = CR
  PROVE  SubSeq(text, 5, 9) = Busy
<1>1. SubSeq(text, 5, 9) = <<text[5], text[6], text[7], text[8], text[9]>>
  <2>1. 9 <= Len(text)
    OBVIOUS
  <2>. QED  BY <2>1, FiveToNine, Zenon
<1>. QED  BY <1>1, Zenon DEF Busy

(* ERR, a digit and CR, behind a header. *)
LEMMA ErrDigitTail ==
  ASSUME NEW text \in Seq(Nat), Len(text) = 9, text[5] = ch.E, text[6] = ch.R,
         text[7] = ch.R, text[9] = CR
  PROVE  /\ SubSeq(text, 5, 9) = Err \o <<text[8], CR>>
         /\ Body(text, 4) = Append(Err, text[8])
<1>1. SubSeq(text, 5, 7) = Err
  <2>1. /\ 5 \in Nat /\ 6 \in Nat /\ 7 \in Nat
        /\ 1 <= 5 /\ 6 = 5 + 1 /\ 7 = 5 + 2 /\ 7 <= Len(text)
    OBVIOUS
  <2>. QED  BY <2>1, ErrTail, Zenon
<1>2. SubSeq(text, 8, 9) = <<text[8], CR>>
  <2>1. 8 \in Nat /\ 9 \in Nat /\ 1 <= 8 /\ 9 = 8 + 1 /\ 9 <= Len(text)
    OBVIOUS
  <2>2. SubSeq(text, 8, 9) = <<text[8], text[9]>>
    BY <2>1, SliceOfTwo, Zenon
  <2>. QED  BY <2>2, Zenon
<1>3. SubSeq(text, 5, 9) = SubSeq(text, 5, 7) \o SubSeq(text, 7 + 1, 9)
  BY Join
<1>4. SubSeq(text, 5, 8) = SubSeq(text, 5, 7) \o SubSeq(text, 7 + 1, 8)
  BY Join
<1>5. SubSeq(text, 8, 8) = <<text[8]>>
  BY SliceOfOne
<1>6. Err \o <<text[8]>> = Append(Err, text[8])
  <2>1. \A s \in Seq(Nat), x \in Nat : s \o <<x>> = Append(s, x)
    OBVIOUS
  <2>2. ch.E \in Nat /\ ch.R \in Nat
    BY DEF ch
  <2>3. Err \in Seq(Nat)
    BY <2>2 DEF Err
  <2>4. text[8] \in Nat
    <3>1. 8 \in 1..9
      OBVIOUS
    <3>2. \A i \in 1..Len(text) : text[i] \in Nat
      BY Numbers, Zenon
    <3>. QED  BY <3>1, <3>2, Zenon
  <2>. QED  BY <2>1, <2>3, <2>4, Zenon
<1>7. Body(text, 4) = SubSeq(text, 5, 8)
  BY DEF Body
<1>8. 7 + 1 = 8
  OBVIOUS
<1>. QED  BY <1>1, <1>2, <1>3, <1>4, <1>5, <1>6, <1>7, <1>8, Zenon

LEMMA IsFixed ==
  ASSUME NEW text
  PROVE  /\ IsMessage("MSG_ERROR", text) <=> text = <<LT>> \o Err \o <<CR>>
         /\ IsMessage("MSG_TEST", text) <=> text = <<LT>> \o Ok
         /\ IsMessage("MSG_RES_USB", text) <=> text = <<LT, ch.R, COLON>> \o Ok
         /\ IsMessage("MSG_RES_TR", text) <=> text = <<LT, ch.R, ch.T, COLON>> \o Ok
         /\ IsMessage("MSG_USB_CONN", text) <=> text = <<LT, ch.B, COLON>> \o Ok
         /\ IsMessage("MSG_DATA_SEND", text) <=>
              \E t \in {Ok, Err \o <<CR>>, Busy} : text = <<LT, ch.D, ch.S, COLON>> \o t
         /\ IsMessage("MSG_SWITCH", text) <=> text = <<LT, ch.U, COLON>> \o Ok
         /\ IsMessage("MSG_MODE_PROGRAM", text) <=>
              \E t \in {Ok, Err1} : text = <<LT, ch.P, ch.E, COLON>> \o t
         /\ IsMessage("MSG_MODE_NORMAL", text) <=>
              \E t \in {Ok, Err1} : text = <<LT, ch.P, ch.T, COLON>> \o t
         /\ IsMessage("MSG_UPLOAD_DOWNLOAD", text) <=>
              \E t \in {Ok, Busy} \cup {Err \o <<d, CR>> : d \in 50..55} :
                text = <<LT, ch.P, ch.M, COLON>> \o t
<1>1. \A type \in FixedTypes : IsMessage(type, text) <=> text \in FixedText(type)
  <2>1. \A type \in FixedTypes :
          type \notin {"MSG_SPI_STAT", "MSG_ASYNC", "MSG_TR_INFO", "MSG_USB_INFO", "MSG_DOWNLOAD_DATA"}
    BY DEF FixedTypes
  <2>. QED  BY <2>1 DEF IsMessage
<1>2. \A type \in {"MSG_ERROR", "MSG_TEST", "MSG_RES_USB", "MSG_RES_TR", "MSG_USB_CONN",
                   "MSG_DATA_SEND", "MSG_SWITCH", "MSG_MODE_PROGRAM", "MSG_MODE_NORMAL",
                   "MSG_UPLOAD_DOWNLOAD"} : type \in FixedTypes
  BY DEF FixedTypes
<1>3. FixedText("MSG_ERROR") = {<<LT>> \o Err \o <<CR>>}
  BY DEF FixedText
<1>4. FixedText("MSG_TEST") = {<<LT>> \o Ok}
  BY DEF FixedText
<1>5. FixedText("MSG_RES_USB") = {<<LT, ch.R, COLON>> \o Ok}
  BY DEF FixedText
<1>6. FixedText("MSG_RES_TR") = {<<LT, ch.R, ch.T, COLON>> \o Ok}
  BY DEF FixedText
<1>7. FixedText("MSG_USB_CONN") = {<<LT, ch.B, COLON>> \o Ok}
  BY DEF FixedText
<1>8. FixedText("MSG_DATA_SEND") =
        {<<LT, ch.D, ch.S, COLON>> \o t : t \in {Ok, Err \o <<CR>>, Busy}}
  BY DEF FixedText
<1>9. FixedText("MSG_SWITCH") = {<<LT, ch.U, COLON>> \o Ok}
  BY DEF FixedText
<1>10. FixedText("MSG_MODE_PROGRAM") = {<<LT, ch.P, ch.E, COLON>> \o t : t \in {Ok, Err1}}
  BY DEF FixedText
<1>11. FixedText("MSG_MODE_NORMAL") = {<<LT, ch.P, ch.T, COLON>> \o t : t \in {Ok, Err1}}
  BY DEF FixedText
<1>12. FixedText("MSG_UPLOAD_DOWNLOAD") =
         {<<LT, ch.P, ch.M, COLON>> \o t : t \in {Ok, Busy}
                                                   \cup {Err \o <<d, CR>> : d \in 50..55}}
  BY DEF FixedText
<1>13. /\ IsMessage("MSG_ERROR", text) <=> text = <<LT>> \o Err \o <<CR>>
       /\ IsMessage("MSG_TEST", text) <=> text = <<LT>> \o Ok
       /\ IsMessage("MSG_RES_USB", text) <=> text = <<LT, ch.R, COLON>> \o Ok
       /\ IsMessage("MSG_RES_TR", text) <=> text = <<LT, ch.R, ch.T, COLON>> \o Ok
       /\ IsMessage("MSG_USB_CONN", text) <=> text = <<LT, ch.B, COLON>> \o Ok
       /\ IsMessage("MSG_SWITCH", text) <=> text = <<LT, ch.U, COLON>> \o Ok
  BY <1>1, <1>2, <1>3, <1>4, <1>5, <1>6, <1>7, <1>9
<1>14. IsMessage("MSG_DATA_SEND", text) <=>
         \E t \in {Ok, Err \o <<CR>>, Busy} : text = <<LT, ch.D, ch.S, COLON>> \o t
  BY <1>1, <1>2, <1>8
<1>15. IsMessage("MSG_MODE_PROGRAM", text) <=>
         \E t \in {Ok, Err1} : text = <<LT, ch.P, ch.E, COLON>> \o t
  BY <1>1, <1>2, <1>10
<1>16. IsMessage("MSG_MODE_NORMAL", text) <=>
         \E t \in {Ok, Err1} : text = <<LT, ch.P, ch.T, COLON>> \o t
  BY <1>1, <1>2, <1>11
<1>17. IsMessage("MSG_UPLOAD_DOWNLOAD", text) <=>
         \E t \in {Ok, Busy} \cup {Err \o <<d, CR>> : d \in 50..55} :
           text = <<LT, ch.P, ch.M, COLON>> \o t
  BY <1>1, <1>2, <1>12
<1>. QED  BY <1>13, <1>14, <1>15, <1>16, <1>17

LEMMA PlainUnderstood ==
  ASSUME NEW text, NEW type,
         type \notin {"MSG_DATA_SEND", "MSG_MODE_PROGRAM", "MSG_MODE_NORMAL",
                      "MSG_UPLOAD_DOWNLOAD", "MSG_TR_INFO"}
  PROVE  Understood(type, text)
BY Zenon DEF Understood

LEMMA ResponseUnderstood ==
  ASSUME NEW text
  PROVE  /\ getParsedDSResponse(text) # EXCEPTION => Understood("MSG_DATA_SEND", text)
         /\ getParsedPTEResponse(text) # EXCEPTION => Understood("MSG_MODE_PROGRAM", text)
                                                        /\ Understood("MSG_MODE_NORMAL", text)
         /\ getParsedPMResponse(text) # EXCEPTION => Understood("MSG_UPLOAD_DOWNLOAD", text)
         /\ getParsedModuleInfo(text) # NULL => Understood("MSG_TR_INFO", text)
<1>1. /\ Parsed("MSG_DATA_SEND", text) = getParsedDSResponse(text)
      /\ Parsed("MSG_MODE_PROGRAM", text) = getParsedPTEResponse(text)
      /\ Parsed("MSG_MODE_NORMAL", text) = getParsedPTEResponse(text)
      /\ Parsed("MSG_UPLOAD_DOWNLOAD", text) = getParsedPMResponse(text)
      /\ Parsed("MSG_TR_INFO", text) = getParsedModuleInfo(text)
  BY DEF Parsed
<1>. QED  BY <1>1, Zenon DEF Understood

(* Every text whose bytes the automaton checks one by one is a message. *)
IsUnderstood(type, text) == IsMessage(type, text) /\ Understood(type, text)

LEMMA ErrorText ==
  ASSUME NEW text \in Seq(Nat), Spells(text, 5, Len(text))
  PROVE  IsUnderstood("MSG_ERROR", text)
<1>1. /\ Len(text) = 5 /\ text[1] = LT /\ text[2] = ch.E /\ text[3] = ch.R /\ text[4] = ch.R
      /\ text[5] = CR
  BY DEF Spells
<1>2. 1 <= Len(text) /\ 4 <= Len(text) /\ 5 <= Len(text)
  BY <1>1
<1>3. SubSeq(text, 1, 1) = <<LT>>
  BY <1>1, <1>2, SliceOfOne
<1>4. SubSeq(text, 2, 4) = Err
  <2>1. /\ 2 \in Nat /\ 3 \in Nat /\ 4 \in Nat /\ 1 <= 2 /\ 3 = 2 + 1 /\ 4 = 2 + 2
    OBVIOUS
  <2>. QED  BY <1>1, <1>2, <2>1, ErrTail, Zenon
<1>5. SubSeq(text, 5, 5) = <<CR>>
  BY <1>1, <1>2, SliceOfOne
<1>6. SubSeq(text, 1, 4) = SubSeq(text, 1, 1) \o SubSeq(text, 1 + 1, 4)
  BY <1>2, Join
<1>7. SubSeq(text, 1, 5) = SubSeq(text, 1, 4) \o SubSeq(text, 4 + 1, 5)
  BY <1>2, Join
<1>8. SubSeq(text, 1, 5) = text
  BY <1>1, Whole
<1>9. 1 + 1 = 2 /\ 4 + 1 = 5
  OBVIOUS
<1>10. text = <<LT>> \o Err \o <<CR>>
  BY <1>3, <1>4, <1>5, <1>6, <1>7, <1>8, <1>9, Zenon
<1>. QED  BY <1>10, IsFixed, PlainUnderstood DEF IsUnderstood

LEMMA TestText ==
  ASSUME NEW text \in Seq(Nat), Spells(text, 8, Len(text))
  PROVE  IsUnderstood("MSG_TEST", text)
<1>1. Len(text) = 4 /\ text[1] = LT /\ text[2] = ch.O /\ text[3] = ch.K /\ text[4] = CR
  BY DEF Spells
<1>2. 1 <= Len(text) /\ 4 <= Len(text)
  BY <1>1
<1>3. SubSeq(text, 1, 1) = <<LT>>
  <2>1. 1 \in Nat /\ 1 <= 1
    OBVIOUS
  <2>. QED  BY <1>1, <1>2, <2>1, SliceOfOne, Zenon
<1>4. SubSeq(text, 2, 4) = Ok
  <2>1. /\ 2 \in Nat /\ 3 \in Nat /\ 4 \in Nat /\ 1 <= 2 /\ 3 = 2 + 1 /\ 4 = 2 + 2
    OBVIOUS
  <2>. QED  BY <1>1, <2>1, OkTail, Zenon
<1>5. SubSeq(text, 1, 4) = SubSeq(text, 1, 1) \o SubSeq(text, 1 + 1, 4)
  BY <1>2, Join
<1>6. SubSeq(text, 1, 4) = text
  BY <1>1, Whole
<1>7. 1 + 1 = 2
  OBVIOUS
<1>8. text = <<LT>> \o Ok
  BY <1>3, <1>4, <1>5, <1>6, <1>7, Zenon
<1>. QED  BY <1>8, IsFixed, PlainUnderstood DEF IsUnderstood

(* Behind a header of three bytes. *)
LEMMA ShortOkText ==
  ASSUME NEW text \in Seq(Nat), Len(text) = 6, text[4] = ch.O, text[5] = ch.K, text[6] = CR
  PROVE  text = <<text[1], text[2], text[3]>> \o Ok
<1>1. 3 <= Len(text) /\ 6 <= Len(text)
  OBVIOUS
<1>2. SubSeq(text, 1, 3) = <<text[1], text[2], text[3]>>
  <2>1. /\ 1 \in Nat /\ 2 \in Nat /\ 3 \in Nat /\ 1 <= 1 /\ 2 = 1 + 1 /\ 3 = 1 + 2
    OBVIOUS
  <2>. QED  BY <1>1, <2>1, SliceOfThree, Zenon
<1>3. SubSeq(text, 4, 6) = Ok
  <2>1. /\ 4 \in Nat /\ 5 \in Nat /\ 6 \in Nat /\ 1 <= 4 /\ 5 = 4 + 1 /\ 6 = 4 + 2
    OBVIOUS
  <2>. QED  BY <2>1, OkTail, Zenon
<1>4. SubSeq(text, 1, 6) = SubSeq(text, 1, 3) \o SubSeq(text, 3 + 1, 6)
  BY <1>1, Join
<1>5. SubSeq(text, 1, 6) = text
  BY Whole
<1>6. 3 + 1 = 4
  OBVIOUS
<1>. QED  BY <1>2, <1>3, <1>4, <1>5, <1>6, Zenon

LEMMA ShortTexts ==
  ASSUME NEW text \in Seq(Nat)
  PROVE  /\ Spells(text, 103, Len(text)) => IsUnderstood("MSG_RES_USB", text)
         /\ Spells(text, 28, Len(text)) => IsUnderstood("MSG_USB_CONN", text)
         /\ Spells(text, 57, Len(text)) => IsUnderstood("MSG_SWITCH", text)
<1>1. ASSUME Spells(text, 103, Len(text)) PROVE IsUnderstood("MSG_RES_USB", text)
  <2>1. /\ Len(text) = 6 /\ text[1] = LT /\ text[2] = ch.R /\ text[3] = COLON
        /\ text[4] = ch.O /\ text[5] = ch.K /\ text[6] = CR
    BY <1>1 DEF Spells
  <2>2. text = <<LT, ch.R, COLON>> \o Ok
    BY <2>1, ShortOkText, Zenon
  <2>. QED  BY <2>2, IsFixed, PlainUnderstood DEF IsUnderstood
<1>2. ASSUME Spells(text, 28, Len(text)) PROVE IsUnderstood("MSG_USB_CONN", text)
  <2>1. /\ Len(text) = 6 /\ text[1] = LT /\ text[2] = ch.B /\ text[3] = COLON
        /\ text[4] = ch.O /\ text[5] = ch.K /\ text[6] = CR
    BY <1>2 DEF Spells
  <2>2. text = <<LT, ch.B, COLON>> \o Ok
    BY <2>1, ShortOkText, Zenon
  <2>. QED  BY <2>2, IsFixed, PlainUnderstood DEF IsUnderstood
<1>3. ASSUME Spells(text, 57, Len(text)) PROVE IsUnderstood("MSG_SWITCH", text)
  <2>1. /\ Len(text) = 6 /\ text[1] = LT /\ text[2] = ch.U /\ text[3] = COLON
        /\ text[4] = ch.O /\ text[5] = ch.K /\ text[6] = CR
    BY <1>3 DEF Spells
  <2>2. text = <<LT, ch.U, COLON>> \o Ok
    BY <2>1, ShortOkText, Zenon
  <2>. QED  BY <2>2, IsFixed, PlainUnderstood DEF IsUnderstood
<1>. QED  BY <1>1, <1>2, <1>3

(* Behind a header of four bytes: what a getter compares. *)
LEMMA OkText ==
  ASSUME NEW text \in Seq(Nat), Len(text) = 7, text[5] = ch.O, text[6] = ch.K, text[7] = CR
  PROVE  /\ text = <<text[1], text[2], text[3], text[4]>> \o Ok
         /\ Body(text, 4) \o <<CR>> = Ok
<1>1. SubSeq(text, 5, 7) = Ok
  <2>1. /\ 5 \in Nat /\ 6 \in Nat /\ 7 \in Nat /\ 1 <= 5 /\ 6 = 5 + 1 /\ 7 = 5 + 2
    OBVIOUS
  <2>. QED  BY <2>1, OkTail, Zenon
<1>2. 7 \in Nat /\ 5 <= 7
  OBVIOUS
<1>. QED  BY <1>1, <1>2, Headed, Zenon

LEMMA BusyText ==
  ASSUME NEW text \in Seq(Nat), Len(text) = 9, text[5] = ch.B, text[6] = ch.U,
         text[7] = ch.S, text[8] = ch.Y, text[9] = CR
  PROVE  /\ text = <<text[1], text[2], text[3], text[4]>> \o Busy
         /\ Body(text, 4) \o <<CR>> = Busy
<1>1. SubSeq(text, 5, 9) = Busy
  BY BusyTail
<1>2. 9 \in Nat /\ 5 <= 9
  OBVIOUS
<1>. QED  BY <1>1, <1>2, Headed, Zenon

LEMMA ErrText ==
  ASSUME NEW text \in Seq(Nat), Len(text) = 8, text[5] = ch.E, text[6] = ch.R,
         text[7] = ch.R, text[8] = CR
  PROVE  /\ text = <<text[1], text[2], text[3], text[4]>> \o (Err \o <<CR>>)
         /\ Body(text, 4) = Err
<1>1. 7 <= Len(text) /\ 8 - 1 = 7 /\ 8 \in Nat /\ 5 <= 8
  OBVIOUS
<1>2. SubSeq(text, 5, 7) = Err
  <2>1. /\ 5 \in Nat /\ 6 \in Nat /\ 7 \in Nat /\ 1 <= 5 /\ 6 = 5 + 1 /\ 7 = 5 + 2
    OBVIOUS
  <2>. QED  BY <1>1, <2>1, ErrTail, Zenon
<1>3. Body(text, 4) = Err
  BY <1>2 DEF Body
<1>. QED  BY <1>1, <1>3, Headed, Zenon

LEMMA ErrDigitText ==
  ASSUME NEW text \in Seq(Nat), Len(text) = 9, text[5] = ch.E, text[6] = ch.R,
         text[7] = ch.R, text[9] = CR
  PROVE  /\ text = <<text[1], text[2], text[3], text[4]>> \o (Err \o <<text[8], CR>>)
         /\ Body(text, 4) = Append(Err, text[8])
         /\ Body(text, 4) \o <<CR>> = Err \o <<text[8], CR>>
<1>1. SubSeq(text, 5, 9) = Err \o <<text[8], CR>> /\ Body(text, 4) = Append(Err, text[8])
  BY ErrDigitTail
<1>2. 9 \in Nat /\ 5 <= 9
  OBVIOUS
<1>. QED  BY <1>1, <1>2, Headed, Zenon

(* A response, by what is behind its header. *)
OkBehind(text) ==
  Len(text) = 7 /\ text[5] = ch.O /\ text[6] = ch.K /\ text[7] = CR

BusyBehind(text) ==
  Len(text) = 9 /\ text[5] = ch.B /\ text[6] = ch.U /\ text[7] = ch.S /\ text[8] = ch.Y
    /\ text[9] = CR

ErrDigitBehind(text) ==
  Len(text) = 9 /\ text[5] = ch.E /\ text[6] = ch.R /\ text[7] = ch.R /\ text[9] = CR

LEMMA TRResetText ==
  ASSUME NEW text \in Seq(Nat), Spells(text, 15, Len(text))
  PROVE  IsUnderstood("MSG_RES_TR", text)
<1>1. /\ OkBehind(text)
      /\ text[1] = LT /\ text[2] = ch.R /\ text[3] = ch.T /\ text[4] = COLON
  BY DEF Spells, OkBehind
<1>2. text = <<LT, ch.R, ch.T, COLON>> \o Ok
  BY <1>1, OkText, Zenon DEF OkBehind
<1>. QED  BY <1>2, IsFixed, PlainUnderstood DEF IsUnderstood

LEMMA DataSendText ==
  ASSUME NEW text \in Seq(Nat), NEW s \in {38, 42, 47}, Spells(text, s, Len(text))
  PROVE  IsUnderstood("MSG_DATA_SEND", text)
<1>1. text[1] = LT /\ text[2] = ch.D /\ text[3] = ch.S /\ text[4] = COLON
  BY DEF Spells
<1>2. CASE s = 38
  <2>1. OkBehind(text)
    BY <1>2 DEF Spells, OkBehind
  <2>2. text = <<LT, ch.D, ch.S, COLON>> \o Ok /\ Body(text, 4) \o <<CR>> = Ok
    BY <1>1, <2>1, OkText, Zenon DEF OkBehind
  <2>3. getParsedDSResponse(text) # EXCEPTION
    BY <2>2 DEF getParsedDSResponse, EXCEPTION
  <2>. QED  BY <2>2, <2>3, IsFixed, ResponseUnderstood DEF IsUnderstood
<1>3. CASE s = 42
  <2>1. Len(text) = 8 /\ text[5] = ch.E /\ text[6] = ch.R /\ text[7] = ch.R /\ text[8] = CR
    BY <1>3 DEF Spells
  <2>2. text = <<LT, ch.D, ch.S, COLON>> \o (Err \o <<CR>>) /\ Body(text, 4) = Err
    BY <1>1, <2>1, ErrText, Zenon
  <2>3. getParsedDSResponse(text) # EXCEPTION
    BY <2>2 DEF getParsedDSResponse, EXCEPTION
  <2>. QED  BY <2>2, <2>3, IsFixed, ResponseUnderstood DEF IsUnderstood
<1>4. CASE s = 47
  <2>1. BusyBehind(text)
    BY <1>4 DEF Spells, BusyBehind
  <2>2. text = <<LT, ch.D, ch.S, COLON>> \o Busy /\ Body(text, 4) \o <<CR>> = Busy
    BY <1>1, <2>1, BusyText, Zenon DEF BusyBehind
  <2>3. getParsedDSResponse(text) # EXCEPTION
    BY <2>2 DEF getParsedDSResponse, EXCEPTION
  <2>. QED  BY <2>2, <2>3, IsFixed, ResponseUnderstood DEF IsUnderstood
<1>. QED  BY <1>2, <1>3, <1>4

(* What getParsedPTEResponse accepts: OK or ERR1. *)
LEMMA ModeTail ==
  ASSUME NEW text \in Seq(Nat), OkBehind(text) \/ (ErrDigitBehind(text) /\ text[8] = 49)
  PROVE  /\ \E t \in {Ok, Err1} : text = <<text[1], text[2], text[3], text[4]>> \o t
         /\ getParsedPTEResponse(text) # EXCEPTION
<1>1. CASE OkBehind(text)
  <2>1. text = <<text[1], text[2], text[3], text[4]>> \o Ok /\ Body(text, 4) \o <<CR>> = Ok
    BY <1>1, OkText, Zenon DEF OkBehind
  <2>2. getParsedPTEResponse(text) # EXCEPTION
    BY <2>1 DEF getParsedPTEResponse, EXCEPTION
  <2>. QED  BY <2>1, <2>2
<1>2. CASE ErrDigitBehind(text) /\ text[8] = 49
  <2>1. text = <<text[1], text[2], text[3], text[4]>> \o Err1 /\ Body(text, 4) \o <<CR>> = Err1
    BY <1>2, ErrDigitText, ZenonT(60) DEF ErrDigitBehind, Err1
  <2>2. getParsedPTEResponse(text) # EXCEPTION
    BY <2>1 DEF getParsedPTEResponse, EXCEPTION
  <2>. QED  BY <2>1, <2>2
<1>. QED  BY <1>1, <1>2

LEMMA ModeText ==
  ASSUME NEW text \in Seq(Nat), NEW s \in {63, 68, 73, 78}, Spells(text, s, Len(text))
  PROVE  IsUnderstood(IF s \in {63, 68} THEN "MSG_MODE_PROGRAM" ELSE "MSG_MODE_NORMAL", text)
<1>1. OkBehind(text) \/ (ErrDigitBehind(text) /\ text[8] = 49)
  <2>1. CASE s = 63
    BY <2>1 DEF Spells, OkBehind
  <2>2. CASE s = 73
    BY <2>2 DEF Spells, OkBehind
  <2>3. CASE s = 68
    BY <2>3 DEF Spells, ErrDigitBehind
  <2>4. CASE s = 78
    BY <2>4 DEF Spells, ErrDigitBehind
  <2>. QED  BY <2>1, <2>2, <2>3, <2>4
<1>2. /\ \E t \in {Ok, Err1} : text = <<text[1], text[2], text[3], text[4]>> \o t
      /\ getParsedPTEResponse(text) # EXCEPTION
  BY <1>1, ModeTail
<1>3. CASE s \in {63, 68}
  <2>1. text[1] = LT /\ text[2] = ch.P /\ text[3] = ch.E /\ text[4] = COLON
    BY <1>3 DEF Spells
  <2>2. \E t \in {Ok, Err1} : text = <<LT, ch.P, ch.E, COLON>> \o t
    BY <1>2, <2>1
  <2>. QED  BY <1>2, <1>3, <2>2, IsFixed, ResponseUnderstood DEF IsUnderstood
<1>4. CASE s \in {73, 78}
  <2>1. text[1] = LT /\ text[2] = ch.P /\ text[3] = ch.T /\ text[4] = COLON
    BY <1>4 DEF Spells
  <2>2. \E t \in {Ok, Err1} : text = <<LT, ch.P, ch.T, COLON>> \o t
    BY <1>2, <2>1
  <2>3. IsMessage("MSG_MODE_NORMAL", text)
    BY <2>2, IsFixed
  <2>4. Understood("MSG_MODE_NORMAL", text)
    BY <1>2, ResponseUnderstood
  <2>5. s \notin {63, 68}
    BY <1>4
  <2>. QED  BY <2>3, <2>4, <2>5 DEF IsUnderstood
<1>. QED  BY <1>3, <1>4

LEMMA AppendElements ==
  ASSUME NEW s \in Seq(Nat), NEW x \in Nat
  PROVE  /\ Append(s, x) \in Seq(Nat) /\ Len(Append(s, x)) = Len(s) + 1
         /\ \A i \in 1..Len(s) : Append(s, x)[i] = s[i]
OBVIOUS

LEMMA PMResponse ==
  ASSUME NEW text \in Seq(Nat), Body(text, 4) \o <<CR>> \in {Ok, Busy}
  PROVE  getParsedPMResponse(text) # EXCEPTION
<1>1. ASSUME NEW d \in 50..55, Body(text, 4) = Append(Err, d) PROVE FALSE
  <2> DEFINE u == Append(Err, d) \o <<CR>>
  <2>1. Err \in Seq(Nat) /\ Len(Err) = 3 /\ Err[1] = 69
    BY DEF Err, ch
  <2>2. u \in Seq(Nat) /\ Len(u) = 5 /\ u[1] = 69
    <3>1. d \in Nat /\ CR \in Nat
      BY DEF CR
    <3> DEFINE w == Append(Err, d)
    <3>2. w \in Seq(Nat) /\ Len(w) = 4 /\ w[1] = 69
      <4>1. /\ w \in Seq(Nat) /\ Len(w) = Len(Err) + 1
            /\ \A i \in 1..Len(Err) : w[i] = Err[i]
        BY <2>1, <3>1, AppendElements, Zenon
      <4>2. 1 \in 1..Len(Err) /\ Len(Err) + 1 = 4
        BY <2>1
      <4> HIDE DEF w
      <4>. QED  BY <2>1, <4>1, <4>2, Zenon
    <3>3. <<CR>> \in Seq(Nat) /\ Len(<<CR>>) = 1
      BY <3>1
    <3> HIDE DEF w
    <3>4. /\ (w \o <<CR>>) \in Seq(Nat) /\ Len(w \o <<CR>>) = Len(w) + Len(<<CR>>)
          /\ \A i \in 1..Len(w) : (w \o <<CR>>)[i] = w[i]
      BY <3>2, <3>3, JoinElements, ZenonT(60)
    <3>5. Len(w \o <<CR>>) = 5 /\ 1 \in 1..Len(w)
      BY <3>2, <3>3, <3>4
    <3>. QED  BY <3>2, <3>4, <3>5, Zenon DEF w
  <2>3. Len(Ok) = 3 /\ Busy[1] = 66
    BY DEF Ok, Busy, ch
  <2> HIDE DEF u
  <2>4. u = Ok \/ u = Busy
    BY <1>1 DEF u
  <2>5. u = Ok => 5 = 3
    BY <2>2, <2>3, Zenon
  <2>6. ASSUME u = Busy PROVE 69 = 66
    <3>1. u[1] = Busy[1]
      BY <2>6, Zenon
    <3>. QED  BY <2>2, <2>3, <3>1, Zenon
  <2>7. 5 # 3 /\ 69 # 66
    OBVIOUS
  <2>. QED  BY <2>4, <2>5, <2>6, <2>7, Zenon
<1>2. DOMAIN PMErrors = 50..55
  BY DEF PMErrors
<1>3. getParsedPMResponse(text) \in {"OK", "BUSY"}
  BY <1>1, <1>2 DEF getParsedPMResponse
<1>. QED  BY <1>3 DEF EXCEPTION

LEMMA UploadDownloadText ==
  ASSUME NEW text \in Seq(Nat), NEW s \in {83, 88, 93}, Spells(text, s, Len(text))
  PROVE  IsUnderstood("MSG_UPLOAD_DOWNLOAD", text)
<1>1. text[1] = LT /\ text[2] = ch.P /\ text[3] = ch.M /\ text[4] = COLON
  BY DEF Spells
<1>2. CASE s = 83
  <2>1. OkBehind(text)
    BY <1>2 DEF Spells, OkBehind
  <2>2. text = <<LT, ch.P, ch.M, COLON>> \o Ok /\ Body(text, 4) \o <<CR>> = Ok
    BY <1>1, <2>1, OkText, Zenon DEF OkBehind
  <2>3. getParsedPMResponse(text) # EXCEPTION
    <3>1. Body(text, 4) \o <<CR>> \in {Ok, Busy}
      BY <2>2
    <3>. QED  BY <3>1, PMResponse, Zenon
  <2>. QED  BY <2>2, <2>3, IsFixed, ResponseUnderstood DEF IsUnderstood
<1>3. CASE s = 88
  <2>1. ErrDigitBehind(text) /\ text[8] \in 50..55
    BY <1>3 DEF Spells, ErrDigitBehind
  <2>2. /\ text = <<LT, ch.P, ch.M, COLON>> \o (Err \o <<text[8], CR>>)
        /\ Body(text, 4) = Append(Err, text[8])
    BY <1>1, <2>1, ErrDigitText, Zenon DEF ErrDigitBehind
  <2>3. getParsedPMResponse(text) # EXCEPTION
    <3>1. text[Len(text) - 1] = text[8]
      <4>1. Len(text) - 1 = 8
        BY <2>1 DEF ErrDigitBehind
      <4>. QED  BY <4>1
    <3>2. DOMAIN PMErrors = 50..55 /\ \A d \in 50..55 : PMErrors[d] # EXCEPTION
      BY DEF PMErrors, EXCEPTION
    <3>3. \E d \in DOMAIN PMErrors : Body(text, 4) = Append(Err, d)
      <4>1. text[8] \in DOMAIN PMErrors
        BY <2>1, <3>2
      <4>. QED  BY <2>2, <4>1, Zenon
    <3>4. PMErrors[text[Len(text) - 1]] # EXCEPTION
      BY <2>1, <3>1, <3>2
    <3>5. "OK" # EXCEPTION /\ "BUSY" # EXCEPTION
      BY DEF EXCEPTION
    <3>6. \/ getParsedPMResponse(text) = "OK"
          \/ getParsedPMResponse(text) = "BUSY"
          \/ getParsedPMResponse(text) = PMErrors[text[Len(text) - 1]]
      BY <3>3 DEF getParsedPMResponse
    <3>. QED  BY <3>4, <3>5, <3>6
  <2>4. IsMessage("MSG_UPLOAD_DOWNLOAD", text)
    <3>1. Err \o <<text[8], CR>> \in {Ok, Busy} \cup {Err \o <<d, CR>> : d \in 50..55}
      BY <2>1, ZenonT(60)
    <3>2. \E t \in {Ok, Busy} \cup {Err \o <<d, CR>> : d \in 50..55} :
             text = <<LT, ch.P, ch.M, COLON>> \o t
      BY <2>2, <3>1, ZenonT(60)
    <3>. QED  BY <3>2, IsFixed, ZenonT(60)
  <2>. QED  BY <2>3, <2>4, ResponseUnderstood DEF IsUnderstood
<1>4. CASE s = 93
  <2>1. BusyBehind(text)
    BY <1>4 DEF Spells, BusyBehind
  <2>2. text = <<LT, ch.P, ch.M, COLON>> \o Busy /\ Body(text, 4) \o <<CR>> = Busy
    BY <1>1, <2>1, BusyText, Zenon DEF BusyBehind
  <2>3. getParsedPMResponse(text) # EXCEPTION
    <3>1. Body(text, 4) \o <<CR>> \in {Ok, Busy}
      BY <2>2
    <3>. QED  BY <3>1, PMResponse, Zenon
  <2>. QED  BY <2>2, <2>3, IsFixed, ResponseUnderstood DEF IsUnderstood
<1>. QED  BY <1>2, <1>3, <1>4

-----------------------------------------------------------------------------
(* The messages that carry data.                                           *)

LEMMA StatusMessage ==
  ASSUME NEW text \in Seq(Nat), Spells(text, 32, Len(text))
  PROVE  IsUnderstood("MSG_SPI_STAT", text)
<1>1. Len(text) = 5 /\ text[1] = LT /\ text[2] = ch.S /\ text[3] = COLON /\ text[5] = CR
  BY DEF Spells
<1>2. text = <<text[1], text[2], text[3], text[4], text[5]>>
  BY <1>1, FiveOf, Zenon
<1>3. text = StatusText(text[4])
  BY <1>1, <1>2, Zenon DEF StatusText
<1>4. IsStatus(text)
  BY <1>1, <1>3 DEF IsStatus
<1>5. IsMessage("MSG_SPI_STAT", text)
  BY <1>4 DEF IsMessage, FixedTypes
<1>. QED  BY <1>5, PlainUnderstood DEF IsUnderstood

LEMMA TRInfoMessage ==
  ASSUME NEW text \in Seq(Nat), Len(text) \in {21, 37}, Spells(text, 21, 4), text[Len(text)] = CR
  PROVE  IsUnderstood("MSG_TR_INFO", text)
<1> DEFINE n == Len(text)
<1>1. text[1] = LT /\ text[2] = ch.I /\ text[3] = ch.T /\ text[4] = COLON
  BY DEF Spells
<1>2. n \in Nat /\ 5 <= n /\ 20 <= n
  <2>1. \A x \in {21, 37} : x \in Nat /\ 5 <= x /\ 20 <= x
    OBVIOUS
  <2>. QED  BY <2>1, Zenon
<1>3. text = <<LT, ch.I, ch.T, COLON>> \o SubSeq(text, 5, n - 1) \o <<CR>>
  <2>1. text = <<text[1], text[2], text[3], text[4]>> \o Body(text, 4) \o <<CR>>
    BY <1>2, Headed
  <2>2. Body(text, 4) = SubSeq(text, 5, n - 1)
    BY DEF Body
  <2>. QED  BY <1>1, <2>1, <2>2, Zenon
<1>4. IsTRInfo(text)
  BY <1>3, Zenon DEF IsTRInfo, TRInfoText
<1>5. IsMessage("MSG_TR_INFO", text)
  BY <1>4 DEF IsMessage, FixedTypes
<1>6. getParsedModuleInfo(text) # NULL
  <2>1. getParsedModuleInfo(text).identification = SubSeq(text, 5, 20)
    BY DEF getParsedModuleInfo, STANDARD_IDF_SIZE, EXTENDED_IDF_SIZE
  <2>2. Len(SubSeq(text, 5, 20)) = 16
    BY <1>2
  <2>3. NULL.identification = <<>> /\ Len(<<>>) = 0
    BY DEF NULL
  <2>4. SubSeq(text, 5, 20) # <<>>
    <3>1. 16 # 0
      OBVIOUS
    <3>. QED  BY <2>2, <2>3, <3>1, Zenon
  <2>. QED  BY <2>1, <2>3, <2>4, Zenon
<1>. QED  BY <1>5, <1>6, ResponseUnderstood DEF IsUnderstood

LEMMA DataMessage ==
  ASSUME NEW text \in Seq(Nat), Len(text) >= 6, Spells(text, 95, 4), text[Len(text)] = CR
  PROVE  IsUnderstood("MSG_DOWNLOAD_DATA", text)
<1> DEFINE n == Len(text)
<1>1. text[1] = LT /\ text[2] = ch.P /\ text[3] = ch.M /\ text[4] = COLON
  BY DEF Spells
<1>2. n \in Nat /\ 5 <= n
  OBVIOUS
<1>3. text = <<LT, ch.P, ch.M, COLON>> \o SubSeq(text, 5, n - 1) \o <<CR>>
  <2>1. text = <<text[1], text[2], text[3], text[4]>> \o Body(text, 4) \o <<CR>>
    BY <1>2, Headed
  <2>2. Body(text, 4) = SubSeq(text, 5, n - 1)
    BY DEF Body
  <2>. QED  BY <1>1, <2>1, <2>2, Zenon
<1>4. n >= 5
  BY <1>2
<1>5. IsData(text)
  BY <1>3, <1>4, Zenon DEF IsData, DataText
<1>6. IsMessage("MSG_DOWNLOAD_DATA", text)
  BY <1>5 DEF IsMessage, FixedTypes
<1>. QED  BY <1>6, PlainUnderstood DEF IsUnderstood

LEMMA FirstFive ==
  ASSUME NEW s \in Seq(Nat), 5 <= Len(s)
  PROVE  /\ SubSeq(s, 1, 5) \in Seq(Nat) /\ Len(SubSeq(s, 1, 5)) = 5
         /\ SubSeq(s, 1, 5)[1] = s[1] /\ SubSeq(s, 1, 5)[2] = s[2] /\ SubSeq(s, 1, 5)[3] = s[3]
         /\ SubSeq(s, 1, 5)[4] = s[4] /\ SubSeq(s, 1, 5)[5] = s[5]
OBVIOUS

LEMMA ThreeParts ==
  ASSUME NEW s \in Seq(Nat), NEW n \in Nat, Len(s) = n, NEW k \in Nat, 1 <= k, k < n
  PROVE  s = SubSeq(s, 1, k) \o SubSeq(s, k + 1, n - 1) \o <<s[n]>>
<1>1. n - 1 \in Nat /\ k <= n - 1 /\ n - 1 <= n /\ (n - 1) + 1 = n
  OBVIOUS
<1>2. SubSeq(s, 1, n - 1) = SubSeq(s, 1, k) \o SubSeq(s, k + 1, n - 1)
  BY <1>1, Join
<1>3. SubSeq(s, 1, n) = SubSeq(s, 1, n - 1) \o SubSeq(s, (n - 1) + 1, n)
  BY <1>1, Join
<1>4. SubSeq(s, n, n) = <<s[n]>>
  BY SliceOfOne
<1>. QED  BY <1>1, <1>2, <1>3, <1>4, Whole, Zenon

LEMMA AsyncMessage ==
  ASSUME NEW text \in Seq(Nat), NEW n \in Nat, Len(text) = n, NEW len \in Nat, n = 6 + len,
         text[4] = len, Spells(text, 50, 5), text[n] = CR
  PROVE  IsUnderstood("MSG_ASYNC", text)
<1> DEFINE userData == SubSeq(text, 6, n - 1)
<1>1. text[1] = LT /\ text[2] = ch.D /\ text[3] = ch.R /\ text[5] = COLON
  BY DEF Spells
<1>2. Len(userData) = text[4]
  <2>1. /\ n - 1 \in Nat /\ 6 \in Nat /\ 1 <= 6 /\ 6 <= (n - 1) + 1 /\ n - 1 <= n
        /\ (n - 1) + 1 - 6 = len
    OBVIOUS
  <2>. QED  BY <2>1, SliceElements, Zenon
<1>3. SubSeq(text, 1, 5) = <<LT, ch.D, ch.R, text[4], COLON>>
  <2>1. 5 <= Len(text)
    OBVIOUS
  <2> DEFINE h == SubSeq(text, 1, 5)
  <2>2. /\ h \in Seq(Nat) /\ Len(h) = 5
        /\ h[1] = text[1] /\ h[2] = text[2] /\ h[3] = text[3] /\ h[4] = text[4] /\ h[5] = text[5]
    BY <2>1, FirstFive, Zenon
  <2> HIDE DEF h
  <2>3. h = <<h[1], h[2], h[3], h[4], h[5]>>
    BY <2>2, FiveOf, Zenon
  <2>4. h = <<LT, ch.D, ch.R, text[4], COLON>>
    BY <1>1, <2>2, <2>3, Zenon
  <2>. QED  BY <2>4 DEF h
<1>4. 5 \in Nat /\ 1 <= 5 /\ 5 < n /\ 5 + 1 = 6
  OBVIOUS
<1>5. text = SubSeq(text, 1, 5) \o SubSeq(text, 5 + 1, n - 1) \o <<text[n]>>
  BY <1>4, ThreeParts, Zenon
<1> HIDE DEF userData
<1>9. text = <<LT, ch.D, ch.R, Len(userData), COLON>> \o userData \o <<CR>>
  BY <1>2, <1>3, <1>4, <1>5, Zenon DEF userData
<1>10. Len(text) >= 6
  <2>1. n >= 6
    OBVIOUS
  <2>. QED  BY <2>1
<1>11. IsAsync(text)
  BY <1>9, <1>10, Zenon DEF IsAsync, AsyncText, userData
<1>12. IsMessage("MSG_ASYNC", text)
  BY <1>11 DEF IsMessage, FixedTypes
<1>. QED  BY <1>12, PlainUnderstood DEF IsUnderstood

LEMMA AroundByte ==
  ASSUME NEW s \in Seq(Nat), NEW k \in Nat, NEW z \in Nat, 1 <= k, k <= z, z <= Len(s)
  PROVE  SubSeq(s, 1, z) = SubSeq(s, 1, k - 1) \o <<s[k]>> \o SubSeq(s, k + 1, z)
<1>1. k - 1 \in Nat /\ (k - 1) + 1 = k
  OBVIOUS
<1>2. SubSeq(s, 1, k) = SubSeq(s, 1, k - 1) \o SubSeq(s, (k - 1) + 1, k)
  BY <1>1, Join
<1>3. SubSeq(s, 1, z) = SubSeq(s, 1, k) \o SubSeq(s, k + 1, z)
  BY Join
<1>4. SubSeq(s, k, k) = <<s[k]>>
  BY SliceOfOne
<1>. QED  BY <1>1, <1>2, <1>3, <1>4, Zenon

LEMMA SliceBytes ==
  ASSUME NEW s \in Seq(Nat), NEW a \in Nat, NEW z \in Nat, 1 <= a, a <= z + 1, z <= Len(s),
         NEW x \in Bytes(SubSeq(s, a, z))
  PROVE  \E j \in a..z : x = s[j]
<1> DEFINE t == SubSeq(s, a, z)
<1>1. t \in Seq(Nat) /\ Len(t) = z + 1 - a /\ \A i \in 1..(z + 1 - a) : t[i] = s[a + i - 1]
  BY SliceElements
<1> HIDE DEF t
<1>2. PICK i \in DOMAIN t : x = t[i]
  BY DEF Bytes, t
<1>3. DOMAIN t = 1..Len(t)
  BY <1>1
<1>4. i \in 1..(z + 1 - a)
  BY <1>1, <1>2, <1>3, Zenon
<1>5. a + i - 1 \in a..z
  BY <1>4
<1>. QED  BY <1>1, <1>2, <1>4, <1>5, Zenon

LEMMA USBInfoMessage ==
  ASSUME NEW text \in Seq(Nat), NEW n \in Nat, Len(text) = n, Spells(text, 17, 3),
         USBInfoRead(text, n)
  PROVE  IsUnderstood("MSG_USB_INFO", text)
<1>1. text[1] = LT /\ text[2] = ch.I /\ text[3] = COLON
  BY DEF Spells
<1>2. PICK h1 \in 4..(n - 1), h2 \in 4..(n - 1) :
        /\ h1 < h2 /\ text[h1] = HASH /\ text[h2] = HASH /\ text[n] = CR
        /\ \A i \in 4..(h1 - 1) : text[i] # HASH
        /\ \A i \in (h1 + 1)..(h2 - 1) : text[i] \in Digits \cup {DOT}
        /\ \A i \in (h2 + 1)..(n - 1) : text[i] \in Digits \cup 65..72
  BY DEF USBInfoRead
<1> DEFINE t == SubSeq(text, 4, h1 - 1)
           v == SubSeq(text, h1 + 1, h2 - 1)
           j == SubSeq(text, h2 + 1, n - 1)
<1>3. /\ h1 \in Nat /\ h2 \in Nat /\ 4 <= h1 /\ h1 < h2 /\ h2 <= n - 1
      /\ h1 - 1 \in Nat /\ h2 - 1 \in Nat /\ n - 1 \in Nat /\ h1 + 1 \in Nat /\ h2 + 1 \in Nat
      /\ 4 <= (h1 - 1) + 1 /\ h1 - 1 <= n /\ h1 + 1 <= (h2 - 1) + 1 /\ h2 - 1 <= n
      /\ h2 + 1 <= (n - 1) + 1 /\ n - 1 <= n /\ h1 <= h2 - 1 /\ 1 <= h1 /\ 1 <= h2 /\ 1 <= h1 + 1
      /\ 1 <= h2 + 1
  BY <1>2
<1>4. HASH \notin Bytes(t)
  <2> SUFFICES ASSUME HASH \in Bytes(t) PROVE FALSE
    OBVIOUS
  <2>1. 4 \in Nat /\ 1 <= 4 /\ h1 - 1 <= Len(text)
    BY <1>3
  <2>2. \E i \in 4..(h1 - 1) : HASH = text[i]
    <3>1. /\ 4 \in Nat /\ h1 - 1 \in Nat /\ 1 <= 4 /\ 4 <= (h1 - 1) + 1
          /\ h1 - 1 <= Len(text)
      BY <1>3, <2>1
    <3>2. HASH \in Bytes(SubSeq(text, 4, h1 - 1))
      OBVIOUS
    <3>. QED  BY <3>1, <3>2, SliceBytes, Zenon
  <2>. QED  BY <1>2, <2>2
<1>5. Bytes(v) \subseteq Digits \cup {DOT}
  <2> SUFFICES ASSUME NEW x \in Bytes(v) PROVE x \in Digits \cup {DOT}
    OBVIOUS
  <2>1. h2 - 1 <= Len(text)
    BY <1>3
  <2>2. \E i \in (h1 + 1)..(h2 - 1) : x = text[i]
    <3>1. /\ h1 + 1 \in Nat /\ h2 - 1 \in Nat /\ 1 <= h1 + 1 /\ h1 + 1 <= (h2 - 1) + 1
          /\ h2 - 1 <= Len(text)
      BY <1>3, <2>1
    <3>2. x \in Bytes(SubSeq(text, h1 + 1, h2 - 1))
      OBVIOUS
    <3>. QED  BY <3>1, <3>2, SliceBytes, Zenon
  <2>. QED  BY <1>2, <2>2
<1>6. Bytes(j) \subseteq Digits \cup 65..72
  <2> SUFFICES ASSUME NEW x \in Bytes(j) PROVE x \in Digits \cup 65..72
    OBVIOUS
  <2>1. n - 1 <= Len(text)
    BY <1>3
  <2>2. \E i \in (h2 + 1)..(n - 1) : x = text[i]
    <3>1. /\ h2 + 1 \in Nat /\ n - 1 \in Nat /\ 1 <= h2 + 1 /\ h2 + 1 <= (n - 1) + 1
          /\ n - 1 <= Len(text)
      BY <1>3, <2>1
    <3>2. x \in Bytes(SubSeq(text, h2 + 1, n - 1))
      OBVIOUS
    <3>. QED  BY <3>1, <3>2, SliceBytes, Zenon
  <2>. QED  BY <1>2, <2>2
<1>7. SubSeq(text, 1, 3) = <<LT, ch.I, COLON>>
  <2>1. /\ 1 \in Nat /\ 2 \in Nat /\ 3 \in Nat /\ 1 <= 1 /\ 2 = 1 + 1 /\ 3 = 1 + 2
        /\ 3 <= Len(text)
    BY <1>3
  <2>2. SubSeq(text, 1, 3) = <<text[1], text[2], text[3]>>
    BY <2>1, SliceOfThree, ZenonT(60)
  <2>. QED  BY <1>1, <2>2, Zenon
<1>8. SubSeq(text, 1, h1 - 1) = <<LT, ch.I, COLON>> \o t
  <2>1. 3 <= h1 - 1 /\ h1 - 1 <= Len(text) /\ 1 <= 3 + 1
    BY <1>3
  <2>2. SubSeq(text, 1, h1 - 1) = SubSeq(text, 1, 3) \o SubSeq(text, 3 + 1, h1 - 1)
    BY <1>3, <2>1, Join
  <2>3. 3 + 1 = 4
    OBVIOUS
  <2>. QED  BY <1>7, <2>2, <2>3, Zenon
<1>9. SubSeq(text, 1, h2 - 1) = SubSeq(text, 1, h1 - 1) \o <<HASH>> \o v
  <2>1. h2 - 1 <= Len(text)
    BY <1>3
  <2>2. SubSeq(text, 1, h2 - 1) = SubSeq(text, 1, h1 - 1) \o <<text[h1]>> \o v
    BY <1>3, <2>1, AroundByte
  <2>. QED  BY <1>2, <2>2, Zenon
<1>10. SubSeq(text, 1, n - 1) = SubSeq(text, 1, h2 - 1) \o <<HASH>> \o j
  <2>1. n - 1 <= Len(text)
    BY <1>3
  <2>2. SubSeq(text, 1, n - 1) = SubSeq(text, 1, h2 - 1) \o <<text[h2]>> \o j
    BY <1>3, <2>1, AroundByte
  <2>. QED  BY <1>2, <2>2, Zenon
<1>11. text = SubSeq(text, 1, n - 1) \o <<CR>>
  <2>1. (n - 1) + 1 = n /\ n <= Len(text) /\ n \in Nat /\ 1 <= n /\ 1 <= (n - 1) + 1
    BY <1>3
  <2>2. SubSeq(text, 1, n) = SubSeq(text, 1, n - 1) \o SubSeq(text, (n - 1) + 1, n)
    BY <1>3, <2>1, Join
  <2>3. SubSeq(text, n, n) = <<text[n]>>
    BY <2>1, SliceOfOne
  <2>4. SubSeq(text, 1, n) = text
    BY Whole
  <2>. QED  BY <1>2, <2>1, <2>2, <2>3, <2>4, Zenon
<1>12. text = USBInfoText(t, v, j)
  BY <1>8, <1>9, <1>10, <1>11, Zenon DEF USBInfoText
<1>13. h1 \in 4..Len(text) /\ h2 \in 4..Len(text)
  BY <1>3
<1>14. IsUSBInfo(text)
  BY <1>3, <1>4, <1>5, <1>6, <1>12, <1>13, Zenon DEF IsUSBInfo
<1>15. IsMessage("MSG_USB_INFO", text)
  BY <1>14 DEF IsMessage, FixedTypes
<1>. QED  BY <1>15, PlainUnderstood DEF IsUnderstood

-----------------------------------------------------------------------------
(* What parseData accepts is the head of the buffer.                       *)

LEMMA SpellsOfHead ==
  ASSUME NEW buffer, NEW text,
         NEW s \in {5, 8, 15, 28, 32, 38, 42, 47, 57, 63, 68, 73, 78, 83, 88, 93, 103}
                     \cup {17, 21, 50, 95},
         NEW pos \in Nat, Spells(buffer, s, pos), \A i \in 1..pos : text[i] = buffer[i]
  PROVE  Spells(text, s, pos)
<1>1. CASE s = 5
  BY <1>1 DEF Spells
<1>2. CASE s = 8
  BY <1>2 DEF Spells
<1>3. CASE s = 15
  BY <1>3 DEF Spells
<1>4. CASE s = 28
  BY <1>4 DEF Spells
<1>5. CASE s = 32
  BY <1>5 DEF Spells
<1>6. CASE s = 38
  BY <1>6 DEF Spells
<1>7. CASE s = 42
  BY <1>7 DEF Spells
<1>8. CASE s = 47
  BY <1>8 DEF Spells
<1>9. CASE s = 57
  BY <1>9 DEF Spells
<1>10. CASE s = 63
  BY <1>10 DEF Spells
<1>11. CASE s = 68
  BY <1>11 DEF Spells
<1>12. CASE s = 73
  BY <1>12 DEF Spells
<1>13. CASE s = 78
  BY <1>13 DEF Spells
<1>14. CASE s = 83
  BY <1>14 DEF Spells
<1>15. CASE s = 88
  BY <1>15 DEF Spells
<1>16. CASE s = 93
  BY <1>16 DEF Spells
<1>17. CASE s = 103
  BY <1>17 DEF Spells
<1>18. CASE s = 17
  BY <1>18 DEF Spells
<1>19. CASE s = 21
  BY <1>19 DEF Spells
<1>20. CASE s = 50
  BY <1>20 DEF Spells
<1>21. CASE s = 95
  BY <1>21 DEF Spells
<1>. QED
  BY <1>1, <1>2, <1>3, <1>4, <1>5, <1>6, <1>7, <1>8, <1>9, <1>10, <1>11,
     <1>12, <1>13, <1>14, <1>15, <1>16, <1>17, <1>18, <1>19, <1>20, <1>21

LEMMA HeadElements ==
  ASSUME NEW s \in Seq(Nat), NEW k \in 1..Len(s)
  PROVE  /\ SubSeq(s, 1, k) \in Seq(Nat) /\ Len(SubSeq(s, 1, k)) = k
         /\ \A i \in 1..k : SubSeq(s, 1, k)[i] = s[i]
OBVIOUS

LEMMA TypeOfState ==
  /\ statesInfoMap[5] = "MSG_ERROR"
  /\ statesInfoMap[8] = "MSG_TEST"
  /\ statesInfoMap[103] = "MSG_RES_USB"
  /\ statesInfoMap[15] = "MSG_RES_TR"
  /\ statesInfoMap[19] = "MSG_USB_INFO"
  /\ statesInfoMap[23] = "MSG_TR_INFO"
  /\ statesInfoMap[28] = "MSG_USB_CONN"
  /\ statesInfoMap[32] = "MSG_SPI_STAT"
  /\ statesInfoMap[38] = "MSG_DATA_SEND"
  /\ statesInfoMap[42] = "MSG_DATA_SEND"
  /\ statesInfoMap[47] = "MSG_DATA_SEND"
  /\ statesInfoMap[52] = "MSG_ASYNC"
  /\ statesInfoMap[57] = "MSG_SWITCH"
  /\ statesInfoMap[63] = "MSG_MODE_PROGRAM"
  /\ statesInfoMap[68] = "MSG_MODE_PROGRAM"
  /\ statesInfoMap[73] = "MSG_MODE_NORMAL"
  /\ statesInfoMap[78] = "MSG_MODE_NORMAL"
  /\ statesInfoMap[83] = "MSG_UPLOAD_DOWNLOAD"
  /\ statesInfoMap[88] = "MSG_UPLOAD_DOWNLOAD"
  /\ statesInfoMap[93] = "MSG_UPLOAD_DOWNLOAD"
  /\ 97 \notin OverRead => statesInfoMap[97] = "MSG_DOWNLOAD_DATA"
<1>1. statesInfoMap[5] = "MSG_ERROR"
  <2>1. 5 \in finiteStates
    BY DEF finiteStates
  <2>. QED  BY <2>1 DEF statesInfoMap
<1>2. statesInfoMap[8] = "MSG_TEST"
  <2>1. 8 \in finiteStates
    BY DEF finiteStates
  <2>. QED  BY <2>1 DEF statesInfoMap
<1>3. statesInfoMap[103] = "MSG_RES_USB"
  <2>1. 103 \in finiteStates
    BY DEF finiteStates
  <2>. QED  BY <2>1 DEF statesInfoMap
<1>4. statesInfoMap[15] = "MSG_RES_TR"
  <2>1. 15 \in finiteStates
    BY DEF finiteStates
  <2>. QED  BY <2>1 DEF statesInfoMap
<1>5. statesInfoMap[19] = "MSG_USB_INFO"
  <2>1. 19 \in finiteStates
    BY DEF finiteStates
  <2>. QED  BY <2>1 DEF statesInfoMap
<1>6. statesInfoMap[23] = "MSG_TR_INFO"
  <2>1. 23 \in finiteStates
    BY DEF finiteStates
  <2>. QED  BY <2>1 DEF statesInfoMap
<1>7. statesInfoMap[28] = "MSG_USB_CONN"
  <2>1. 28 \in finiteStates
    BY DEF finiteStates
  <2>. QED  BY <2>1 DEF statesInfoMap
<1>8. statesInfoMap[32] = "MSG_SPI_STAT"
  <2>1. 32 \in finiteStates
    BY DEF finiteStates
  <2>. QED  BY <2>1 DEF statesInfoMap
<1>9. statesInfoMap[38] = "MSG_DATA_SEND"
  <2>1. 38 \in finiteStates
    BY DEF finiteStates
  <2>. QED  BY <2>1 DEF statesInfoMap
<1>10. statesInfoMap[42] = "MSG_DATA_SEND"
  <2>1. 42 \in finiteStates
    BY DEF finiteStates
  <2>. QED  BY <2>1 DEF statesInfoMap
<1>11. statesInfoMap[47] = "MSG_DATA_SEND"
  <2>1. 47 \in finiteStates
    BY DEF finiteStates
  <2>. QED  BY <2>1 DEF statesInfoMap
<1>12. statesInfoMap[52] = "MSG_ASYNC"
  <2>1. 52 \in finiteStates
    BY DEF finiteStates
  <2>. QED  BY <2>1 DEF statesInfoMap
<1>13. statesInfoMap[57] = "MSG_SWITCH"
  <2>1. 57 \in finiteStates
    BY DEF finiteStates
  <2>. QED  BY <2>1 DEF statesInfoMap
<1>14. statesInfoMap[63] = "MSG_MODE_PROGRAM"
  <2>1. 63 \in finiteStates
    BY DEF finiteStates
  <2>. QED  BY <2>1 DEF statesInfoMap
<1>15. statesInfoMap[68] = "MSG_MODE_PROGRAM"
  <2>1. 68 \in finiteStates
    BY DEF finiteStates
  <2>. QED  BY <2>1 DEF statesInfoMap
<1>16. statesInfoMap[73] = "MSG_MODE_NORMAL"
  <2>1. 73 \in finiteStates
    BY DEF finiteStates
  <2>. QED  BY <2>1 DEF statesInfoMap
<1>17. statesInfoMap[78] = "MSG_MODE_NORMAL"
  <2>1. 78 \in finiteStates
    BY DEF finiteStates
  <2>. QED  BY <2>1 DEF statesInfoMap
<1>18. statesInfoMap[83] = "MSG_UPLOAD_DOWNLOAD"
  <2>1. 83 \in finiteStates
    BY DEF finiteStates
  <2>. QED  BY <2>1 DEF statesInfoMap
<1>19. statesInfoMap[88] = "MSG_UPLOAD_DOWNLOAD"
  <2>1. 88 \in finiteStates
    BY DEF finiteStates
  <2>. QED  BY <2>1 DEF statesInfoMap
<1>20. statesInfoMap[93] = "MSG_UPLOAD_DOWNLOAD"
  <2>1. 93 \in finiteStates
    BY DEF finiteStates
  <2>. QED  BY <2>1 DEF statesInfoMap
<1>21. 97 \notin OverRead => statesInfoMap[97] = "MSG_DOWNLOAD_DATA"
  <2>1. 97 \in finiteStates
    BY DEF finiteStates
  <2>. QED  BY <2>1 DEF statesInfoMap
<1>. QED
  BY <1>1, <1>2, <1>3, <1>4, <1>5, <1>6, <1>7, <1>8, <1>9, <1>10, <1>11,
     <1>12, <1>13, <1>14, <1>15, <1>16, <1>17, <1>18, <1>19, <1>20, <1>21, ZenonT(60)

LEMMA FiniteStates ==
  ASSUME NEW s \in finiteStates
  PROVE  \/ s \in {5, 8, 15, 28, 32, 38, 42, 47, 57, 63, 68, 73, 78, 83, 88, 93, 103}
         \/ s \in {19, 23, 52, 97}
BY DEF finiteStates

LEMMA AcceptedText ==
  ASSUME NEW buffer \in Buffers, NEW s \in finiteStates, NEW k \in 1..Len(buffer),
         buffer[k] = CR, Shape(buffer, s, k), 97 \notin OverRead
  PROVE  IsUnderstood(statesInfoMap[s], SubSeq(buffer, 1, k))
<1> DEFINE text == SubSeq(buffer, 1, k)
<1>1. /\ buffer \in Seq(Nat) /\ Len(buffer) \in Nat /\ k \in Nat /\ k >= 1
      /\ \A i \in 1..Len(buffer) : buffer[i] \in Nat
  BY BufferBytes
<1>2. text \in Seq(Nat) /\ Len(text) = k /\ \A i \in 1..k : text[i] = buffer[i]
  BY <1>1, HeadElements
<1>3. text[k] = CR
  BY <1>1, <1>2
<1> HIDE DEF text
<1> SUFFICES IsUnderstood(statesInfoMap[s], text)
  BY DEF text
<1>4. CASE s \in {5, 8, 15, 28, 32, 38, 42, 47, 57, 63, 68, 73, 78, 83, 88, 93, 103}
  <2>1. Spells(buffer, s, k)
    BY <1>4 DEF Shape, Spelled
  <2>2. Spells(text, s, Len(text))
    BY <1>1, <1>2, <1>4, <2>1, SpellsOfHead
  <2>3. CASE s = 5
    <3>1. Spells(text, 5, Len(text))
      BY <2>2, <2>3, Zenon
    <3>2. IsUnderstood("MSG_ERROR", text)
      BY <1>2, <3>1, ErrorText, Zenon
    <3>3. statesInfoMap[s] = "MSG_ERROR"
      BY <2>3, TypeOfState
    <3>. QED  BY <3>2, <3>3, Zenon
  <2>4. CASE s = 8
    <3>1. Spells(text, 8, Len(text))
      BY <2>2, <2>4, Zenon
    <3>2. IsUnderstood("MSG_TEST", text)
      BY <1>2, <3>1, TestText, Zenon
    <3>3. statesInfoMap[s] = "MSG_TEST"
      BY <2>4, TypeOfState
    <3>. QED  BY <3>2, <3>3, Zenon
  <2>5. CASE s = 15
    <3>1. Spells(text, 15, Len(text))
      BY <2>2, <2>5, Zenon
    <3>2. IsUnderstood("MSG_RES_TR", text)
      BY <1>2, <3>1, TRResetText, Zenon
    <3>3. statesInfoMap[s] = "MSG_RES_TR"
      BY <2>5, TypeOfState
    <3>. QED  BY <3>2, <3>3, Zenon
  <2>6. CASE s = 28
    <3>1. Spells(text, 28, Len(text))
      BY <2>2, <2>6, Zenon
    <3>2. IsUnderstood("MSG_USB_CONN", text)
      BY <1>2, <3>1, ShortTexts, Zenon
    <3>3. statesInfoMap[s] = "MSG_USB_CONN"
      BY <2>6, TypeOfState
    <3>. QED  BY <3>2, <3>3, Zenon
  <2>7. CASE s = 57
    <3>1. Spells(text, 57, Len(text))
      BY <2>2, <2>7, Zenon
    <3>2. IsUnderstood("MSG_SWITCH", text)
      BY <1>2, <3>1, ShortTexts, Zenon
    <3>3. statesInfoMap[s] = "MSG_SWITCH"
      BY <2>7, TypeOfState
    <3>. QED  BY <3>2, <3>3, Zenon
  <2>8. CASE s = 103
    <3>1. Spells(text, 103, Len(text))
      BY <2>2, <2>8, Zenon
    <3>2. IsUnderstood("MSG_RES_USB", text)
      BY <1>2, <3>1, ShortTexts, Zenon
    <3>3. statesInfoMap[s] = "MSG_RES_USB"
      BY <2>8, TypeOfState
    <3>. QED  BY <3>2, <3>3, Zenon
  <2>9. CASE s = 32
    <3>1. Spells(text, 32, Len(text))
      BY <2>2, <2>9, Zenon
    <3>2. IsUnderstood("MSG_SPI_STAT", text)
      BY <1>2, <3>1, StatusMessage, Zenon
    <3>3. statesInfoMap[s] = "MSG_SPI_STAT"
      BY <2>9, TypeOfState
    <3>. QED  BY <3>2, <3>3, Zenon
  <2>10. CASE s = 38
    <3>1. Spells(text, 38, Len(text))
      BY <2>2, <2>10, Zenon
    <3>2. 38 \in {38, 42, 47}
      OBVIOUS
    <3>3. IsUnderstood("MSG_DATA_SEND", text)
      BY <1>2, <3>1, <3>2, DataSendText, Zenon
    <3>4. statesInfoMap[s] = "MSG_DATA_SEND"
      BY <2>10, TypeOfState
    <3>. QED  BY <3>3, <3>4, Zenon
  <2>11. CASE s = 42
    <3>1. Spells(text, 42, Len(text))
      BY <2>2, <2>11, Zenon
    <3>2. 42 \in {38, 42, 47}
      OBVIOUS
    <3>3. IsUnderstood("MSG_DATA_SEND", text)
      BY <1>2, <3>1, <3>2, DataSendText, Zenon
    <3>4. statesInfoMap[s] = "MSG_DATA_SEND"
      BY <2>11, TypeOfState
    <3>. QED  BY <3>3, <3>4, Zenon
  <2>12. CASE s = 47
    <3>1. Spells(text, 47, Len(text))
      BY <2>2, <2>12, Zenon
    <3>2. 47 \in {38, 42, 47}
      OBVIOUS
    <3>3. IsUnderstood("MSG_DATA_SEND", text)
      BY <1>2, <3>1, <3>2, DataSendText, Zenon
    <3>4. statesInfoMap[s] = "MSG_DATA_SEND"
      BY <2>12, TypeOfState
    <3>. QED  BY <3>3, <3>4, Zenon
  <2>13. CASE s = 63
    <3>1. Spells(text, 63, Len(text))
      BY <2>2, <2>13, Zenon
    <3>2. 63 \in {63, 68, 73, 78}
      OBVIOUS
    <3>3. (IF 63 \in {63, 68} THEN "MSG_MODE_PROGRAM" ELSE "MSG_MODE_NORMAL") = "MSG_MODE_PROGRAM"
      OBVIOUS
    <3>4. IsUnderstood("MSG_MODE_PROGRAM", text)
      BY <1>2, <3>1, <3>2, <3>3, ModeText, Zenon
    <3>5. statesInfoMap[s] = "MSG_MODE_PROGRAM"
      BY <2>13, TypeOfState
    <3>. QED  BY <3>4, <3>5, Zenon
  <2>14. CASE s = 68
    <3>1. Spells(text, 68, Len(text))
      BY <2>2, <2>14, Zenon
    <3>2. 68 \in {63, 68, 73, 78}
      OBVIOUS
    <3>3. (IF 68 \in {63, 68} THEN "MSG_MODE_PROGRAM" ELSE "MSG_MODE_NORMAL") = "MSG_MODE_PROGRAM"
      OBVIOUS
    <3>4. IsUnderstood("MSG_MODE_PROGRAM", text)
      BY <1>2, <3>1, <3>2, <3>3, ModeText, Zenon
    <3>5. statesInfoMap[s] = "MSG_MODE_PROGRAM"
      BY <2>14, TypeOfState
    <3>. QED  BY <3>4, <3>5, Zenon
  <2>15. CASE s = 73
    <3>1. Spells(text, 73, Len(text))
      BY <2>2, <2>15, Zenon
    <3>2. 73 \in {63, 68, 73, 78}
      OBVIOUS
    <3>3. (IF 73 \in {63, 68} THEN "MSG_MODE_PROGRAM" ELSE "MSG_MODE_NORMAL") = "MSG_MODE_NORMAL"
      OBVIOUS
    <3>4. IsUnderstood("MSG_MODE_NORMAL", text)
      BY <1>2, <3>1, <3>2, <3>3, ModeText, Zenon
    <3>5. statesInfoMap[s] = "MSG_MODE_NORMAL"
      BY <2>15, TypeOfState
    <3>. QED  BY <3>4, <3>5, Zenon
  <2>16. CASE s = 78
    <3>1. Spells(text, 78, Len(text))
      BY <2>2, <2>16, Zenon
    <3>2. 78 \in {63, 68, 73, 78}
      OBVIOUS
    <3>3. (IF 78 \in {63, 68} THEN "MSG_MODE_PROGRAM" ELSE "MSG_MODE_NORMAL") = "MSG_MODE_NORMAL"
      OBVIOUS
    <3>4. IsUnderstood("MSG_MODE_NORMAL", text)
      BY <1>2, <3>1, <3>2, <3>3, ModeText, Zenon
    <3>5. statesInfoMap[s] = "MSG_MODE_NORMAL"
      BY <2>16, TypeOfState
    <3>. QED  BY <3>4, <3>5, Zenon
  <2>17. CASE s = 83
    <3>1. Spells(text, 83, Len(text))
      BY <2>2, <2>17, Zenon
    <3>2. 83 \in {83, 88, 93}
      OBVIOUS
    <3>3. IsUnderstood("MSG_UPLOAD_DOWNLOAD", text)
      BY <1>2, <3>1, <3>2, UploadDownloadText, Zenon
    <3>4. statesInfoMap[s] = "MSG_UPLOAD_DOWNLOAD"
      BY <2>17, TypeOfState
    <3>. QED  BY <3>3, <3>4, Zenon
  <2>18. CASE s = 88
    <3>1. Spells(text, 88, Len(text))
      BY <2>2, <2>18, Zenon
    <3>2. 88 \in {83, 88, 93}
      OBVIOUS
    <3>3. IsUnderstood("MSG_UPLOAD_DOWNLOAD", text)
      BY <1>2, <3>1, <3>2, UploadDownloadText, Zenon
    <3>4. statesInfoMap[s] = "MSG_UPLOAD_DOWNLOAD"
      BY <2>18, TypeOfState
    <3>. QED  BY <3>3, <3>4, Zenon
  <2>19. CASE s = 93
    <3>1. Spells(text, 93, Len(text))
      BY <2>2, <2>19, Zenon
    <3>2. 93 \in {83, 88, 93}
      OBVIOUS
    <3>3. IsUnderstood("MSG_UPLOAD_DOWNLOAD", text)
      BY <1>2, <3>1, <3>2, UploadDownloadText, Zenon
    <3>4. statesInfoMap[s] = "MSG_UPLOAD_DOWNLOAD"
      BY <2>19, TypeOfState
    <3>. QED  BY <3>3, <3>4, Zenon
  <2>. QED
    BY <1>4, <2>3, <2>4, <2>5, <2>6, <2>7, <2>8, <2>9, <2>10, <2>11,
       <2>12, <2>13, <2>14, <2>15, <2>16, <2>17, <2>18, <2>19
<1>5. CASE s = 19
  <2>1. Spells(buffer, 17, 3) /\ USBInfoRead(buffer, k)
    BY <1>5 DEF Shape
  <2>2. 3 < k
    BY <2>1, <1>1 DEF USBInfoRead
  <2>3. Spells(text, 17, 3)
    BY <1>2, <2>1, <2>2, SpellsOfHead
  <2>4. USBInfoRead(text, k)
    <3>1. PICK h1 \in 4..(k - 1), h2 \in 4..(k - 1) :
            /\ h1 < h2 /\ buffer[h1] = HASH /\ buffer[h2] = HASH /\ buffer[k] = CR
            /\ \A i \in 4..(h1 - 1) : buffer[i] # HASH
            /\ \A i \in (h1 + 1)..(h2 - 1) : buffer[i] \in Digits \cup {DOT}
            /\ \A i \in (h2 + 1)..(k - 1) : buffer[i] \in Digits \cup 65..72
      BY <2>1 DEF USBInfoRead
    <3>2. h1 \in 1..k /\ h2 \in 1..k /\ k \in 1..k /\ 4..(h1 - 1) \subseteq 1..k
          /\ (h1 + 1)..(h2 - 1) \subseteq 1..k /\ (h2 + 1)..(k - 1) \subseteq 1..k
      BY <1>1
    <3>3. /\ h1 < h2 /\ text[h1] = HASH /\ text[h2] = HASH /\ text[k] = CR
          /\ \A i \in 4..(h1 - 1) : text[i] # HASH
          /\ \A i \in (h1 + 1)..(h2 - 1) : text[i] \in Digits \cup {DOT}
          /\ \A i \in (h2 + 1)..(k - 1) : text[i] \in Digits \cup 65..72
      BY <1>2, <3>1, <3>2, Zenon
    <3>. QED  BY <3>3, Zenon DEF USBInfoRead
  <2>5. IsUnderstood("MSG_USB_INFO", text)
    BY <1>1, <1>2, <2>3, <2>4, USBInfoMessage
  <2>6. statesInfoMap[s] = "MSG_USB_INFO"
    BY <1>5, TypeOfState
  <2>. QED  BY <2>5, <2>6, Zenon
<1>6. CASE s = 23
  <2>1. Spells(buffer, 21, 4) /\ k \in {21, 37}
    BY <1>6 DEF Shape
  <2>2. Spells(text, 21, 4)
    <3>1. \A i \in 1..4 : text[i] = buffer[i]
      BY <1>2, <2>1
    <3>. QED  BY <2>1, <3>1, SpellsOfHead
  <2>3. IsUnderstood("MSG_TR_INFO", text)
    BY <1>2, <1>3, <2>1, <2>2, TRInfoMessage, Zenon
  <2>4. statesInfoMap[s] = "MSG_TR_INFO"
    BY <1>6, TypeOfState
  <2>. QED  BY <2>3, <2>4, Zenon
<1>7. CASE s = 52
  <2>1. Spells(buffer, 50, 5) /\ k >= 6 /\ k = 6 + buffer[4]
    BY <1>7 DEF Shape
  <2>2. Spells(text, 50, 5)
    BY <1>1, <1>2, <2>1, SpellsOfHead
  <2>3. buffer[4] \in Nat /\ text[4] = buffer[4]
    <3>1. k >= 6
      BY <2>1
    <3>2. 4 \in 1..k /\ 4 \in 1..Len(buffer)
      BY <1>1, <3>1
    <3>. QED  BY <1>1, <1>2, <3>2, Zenon
  <2>4. IsUnderstood("MSG_ASYNC", text)
    BY <1>1, <1>2, <1>3, <2>1, <2>2, <2>3, AsyncMessage, Zenon
  <2>5. statesInfoMap[s] = "MSG_ASYNC"
    BY <1>7, TypeOfState
  <2>. QED  BY <2>4, <2>5, Zenon
<1>8. CASE s = 97
  <2>1. Spells(buffer, 95, 4) /\ k >= 6
    BY <1>8 DEF Shape
  <2>2. Spells(text, 95, 4)
    <3>1. \A i \in 1..4 : text[i] = buffer[i]
      BY <1>2, <2>1
    <3>. QED  BY <2>1, <3>1, SpellsOfHead
  <2>3. IsUnderstood("MSG_DOWNLOAD_DATA", text)
    BY <1>2, <1>3, <2>1, <2>2, DataMessage, Zenon
  <2>4. statesInfoMap[s] = "MSG_DOWNLOAD_DATA"
    BY <1>8, TypeOfState
  <2>. QED  BY <2>3, <2>4, Zenon
<1>. QED  BY <1>4, <1>5, <1>6, <1>7, <1>8, FiniteStates

-----------------------------------------------------------------------------
(* Forwards: a message of the grammar spells a state of the automaton.     *)

(* A constant text, byte by byte.                                          *)
LEMMA Spelling5 ==
  ASSUME NEW t, t = <<LT>> \o Err \o <<CR>>
  PROVE  t \in Seq(Nat) /\ Spells(t, 5, Len(t))
<1>1. /\ t \in Seq(Nat) /\ Len(t) = 5
      /\ t[1] = 60 /\ t[2] = 69 /\ t[3] = 82 /\ t[4] = 82 /\ t[5] = 13
  BY DEF LT, CR, COLON, ch, Err
<1>2. Spells(t, 5, 5)
  BY <1>1, SMTT(60) DEF Spells, LT, CR, COLON, ch
<1>. QED  BY <1>1, <1>2

LEMMA Spelling8 ==
  ASSUME NEW t, t = <<LT>> \o Ok
  PROVE  t \in Seq(Nat) /\ Spells(t, 8, Len(t))
<1>1. /\ t \in Seq(Nat) /\ Len(t) = 4
      /\ t[1] = 60 /\ t[2] = 79 /\ t[3] = 75 /\ t[4] = 13
  BY DEF LT, CR, COLON, ch, Ok
<1>2. Spells(t, 8, 4)
  BY <1>1, SMTT(60) DEF Spells, LT, CR, COLON, ch
<1>. QED  BY <1>1, <1>2

LEMMA Spelling103 ==
  ASSUME NEW t, t = <<LT, ch.R, COLON>> \o Ok
  PROVE  t \in Seq(Nat) /\ Spells(t, 103, Len(t))
<1>1. /\ t \in Seq(Nat) /\ Len(t) = 6
      /\ t[1] = 60 /\ t[2] = 82 /\ t[3] = 58 /\ t[4] = 79 /\ t[5] = 75
      /\ t[6] = 13
  BY DEF LT, CR, COLON, ch, Ok
<1>2. Spells(t, 103, 6)
  BY <1>1, SMTT(60) DEF Spells, LT, CR, COLON, ch
<1>. QED  BY <1>1, <1>2

LEMMA Spelling15 ==
  ASSUME NEW t, t = <<LT, ch.R, ch.T, COLON>> \o Ok
  PROVE  t \in Seq(Nat) /\ Spells(t, 15, Len(t))
<1>1. /\ t \in Seq(Nat) /\ Len(t) = 7
      /\ t[1] = 60 /\ t[2] = 82 /\ t[3] = 84 /\ t[4] = 58 /\ t[5] = 79
      /\ t[6] = 75 /\ t[7] = 13
  BY DEF LT, CR, COLON, ch, Ok
<1>2. Spells(t, 15, 7)
  BY <1>1, SMTT(60) DEF Spells, LT, CR, COLON, ch
<1>. QED  BY <1>1, <1>2

LEMMA Spelling28 ==
  ASSUME NEW t, t = <<LT, ch.B, COLON>> \o Ok
  PROVE  t \in Seq(Nat) /\ Spells(t, 28, Len(t))
<1>1. /\ t \in Seq(Nat) /\ Len(t) = 6
      /\ t[1] = 60 /\ t[2] = 66 /\ t[3] = 58 /\ t[4] = 79 /\ t[5] = 75
      /\ t[6] = 13
  BY DEF LT, CR, COLON, ch, Ok
<1>2. Spells(t, 28, 6)
  BY <1>1, SMTT(60) DEF Spells, LT, CR, COLON, ch
<1>. QED  BY <1>1, <1>2

LEMMA Spelling38 ==
  ASSUME NEW t, t = <<LT, ch.D, ch.S, COLON>> \o Ok
  PROVE  t \in Seq(Nat) /\ Spells(t, 38, Len(t))
<1>1. /\ t \in Seq(Nat) /\ Len(t) = 7
      /\ t[1] = 60 /\ t[2] = 68 /\ t[3] = 83 /\ t[4] = 58 /\ t[5] = 79
      /\ t[6] = 75 /\ t[7] = 13
  BY DEF LT, CR, COLON, ch, Ok
<1>2. Spells(t, 38, 7)
  BY <1>1, SMTT(60) DEF Spells, LT, CR, COLON, ch
<1>. QED  BY <1>1, <1>2

LEMMA Spelling42 ==
  ASSUME NEW t, t = <<LT, ch.D, ch.S, COLON>> \o (Err \o <<CR>>)
  PROVE  t \in Seq(Nat) /\ Spells(t, 42, Len(t))
<1>1. /\ t \in Seq(Nat) /\ Len(t) = 8
      /\ t[1] = 60 /\ t[2] = 68 /\ t[3] = 83 /\ t[4] = 58 /\ t[5] = 69
      /\ t[6] = 82 /\ t[7] = 82 /\ t[8] = 13
  BY DEF LT, CR, COLON, ch, Err
<1>2. Spells(t, 42, 8)
  BY <1>1, SMTT(60) DEF Spells, LT, CR, COLON, ch
<1>. QED  BY <1>1, <1>2

LEMMA Spelling47 ==
  ASSUME NEW t, t = <<LT, ch.D, ch.S, COLON>> \o Busy
  PROVE  t \in Seq(Nat) /\ Spells(t, 47, Len(t))
<1>1. /\ t \in Seq(Nat) /\ Len(t) = 9
      /\ t[1] = 60 /\ t[2] = 68 /\ t[3] = 83 /\ t[4] = 58 /\ t[5] = 66
      /\ t[6] = 85 /\ t[7] = 83 /\ t[8] = 89 /\ t[9] = 13
  BY DEF LT, CR, COLON, ch, Busy
<1>2. Spells(t, 47, 9)
  BY <1>1, SMTT(60) DEF Spells, LT, CR, COLON, ch
<1>. QED  BY <1>1, <1>2

LEMMA Spelling57 ==
  ASSUME NEW t, t = <<LT, ch.U, COLON>> \o Ok
  PROVE  t \in Seq(Nat) /\ Spells(t, 57, Len(t))
<1>1. /\ t \in Seq(Nat) /\ Len(t) = 6
      /\ t[1] = 60 /\ t[2] = 85 /\ t[3] = 58 /\ t[4] = 79 /\ t[5] = 75
      /\ t[6] = 13
  BY DEF LT, CR, COLON, ch, Ok
<1>2. Spells(t, 57, 6)
  BY <1>1, SMTT(60) DEF Spells, LT, CR, COLON, ch
<1>. QED  BY <1>1, <1>2

LEMMA Spelling63 ==
  ASSUME NEW t, t = <<LT, ch.P, ch.E, COLON>> \o Ok
  PROVE  t \in Seq(Nat) /\ Spells(t, 63, Len(t))
<1>1. /\ t \in Seq(Nat) /\ Len(t) = 7
      /\ t[1] = 60 /\ t[2] = 80 /\ t[3] = 69 /\ t[4] = 58 /\ t[5] = 79
      /\ t[6] = 75 /\ t[7] = 13
  BY DEF LT, CR, COLON, ch, Ok
<1>2. Spells(t, 63, 7)
  BY <1>1, SMTT(60) DEF Spells, LT, CR, COLON, ch
<1>. QED  BY <1>1, <1>2

LEMMA Spelling68 ==
  ASSUME NEW t, t = <<LT, ch.P, ch.E, COLON>> \o Err1
  PROVE  t \in Seq(Nat) /\ Spells(t, 68, Len(t))
<1>1. /\ t \in Seq(Nat) /\ Len(t) = 9
      /\ t[1] = 60 /\ t[2] = 80 /\ t[3] = 69 /\ t[4] = 58 /\ t[5] = 69
      /\ t[6] = 82 /\ t[7] = 82 /\ t[8] = 49 /\ t[9] = 13
  BY DEF LT, CR, COLON, ch, Err1, Err
<1>2. Spells(t, 68, 9)
  BY <1>1, SMTT(60) DEF Spells, LT, CR, COLON, ch
<1>. QED  BY <1>1, <1>2

LEMMA Spelling73 ==
  ASSUME NEW t, t = <<LT, ch.P, ch.T, COLON>> \o Ok
  PROVE  t \in Seq(Nat) /\ Spells(t, 73, Len(t))
<1>1. /\ t \in Seq(Nat) /\ Len(t) = 7
      /\ t[1] = 60 /\ t[2] = 80 /\ t[3] = 84 /\ t[4] = 58 /\ t[5] = 79
      /\ t[6] = 75 /\ t[7] = 13
  BY DEF LT, CR, COLON, ch, Ok
<1>2. Spells(t, 73, 7)
  BY <1>1, SMTT(60) DEF Spells, LT, CR, COLON, ch
<1>. QED  BY <1>1, <1>2

LEMMA Spelling78 ==
  ASSUME NEW t, t = <<LT, ch.P, ch.T, COLON>> \o Err1
  PROVE  t \in Seq(Nat) /\ Spells(t, 78, Len(t))
<1>1. /\ t \in Seq(Nat) /\ Len(t) = 9
      /\ t[1] = 60 /\ t[2] = 80 /\ t[3] = 84 /\ t[4] = 58 /\ t[5] = 69
      /\ t[6] = 82 /\ t[7] = 82 /\ t[8] = 49 /\ t[9] = 13
  BY DEF LT, CR, COLON, ch, Err1, Err
<1>2. Spells(t, 78, 9)
  BY <1>1, SMTT(60) DEF Spells, LT, CR, COLON, ch
<1>. QED  BY <1>1, <1>2

(* The states of the constant texts are finite, with nothing special before. *)
LEMMA SpelledStates ==
  \A s \in {5, 8, 15, 28, 32, 38, 42, 47, 57, 63, 68, 73, 78, 103} : s \in Plain /\ s \in finiteStates
BY DEF Plain, Spelled, finiteStates

(* The parser waits for all of the text and accepts it with the type.      *)
Delimited(text, type) == WaitsFor(text) /\ Accepts(text, type)

LEMMA SpelledDelimits ==
  ASSUME NEW text \in Seq(Nat), NEW type,
         NEW s \in {5, 8, 15, 28, 32, 38, 42, 47, 57, 63, 68, 73, 78, 103},
         Spells(text, s, Len(text)), statesInfoMap[s] = type
  PROVE  Delimited(text, type)
<1>1. s \in Plain /\ s \in finiteStates
  BY SpelledStates
<1>2. WaitsFor(text) /\ Accepts(text, statesInfoMap[s])
  BY <1>1, FiniteDelimits, ZenonT(60)
<1>. QED  BY <1>2, Zenon DEF Delimited

LEMMA FixedDelimits ==
  ASSUME NEW text
  PROVE  /\ IsMessage("MSG_ERROR", text) => Delimited(text, "MSG_ERROR")
         /\ IsMessage("MSG_TEST", text) => Delimited(text, "MSG_TEST")
         /\ IsMessage("MSG_RES_USB", text) => Delimited(text, "MSG_RES_USB")
         /\ IsMessage("MSG_RES_TR", text) => Delimited(text, "MSG_RES_TR")
         /\ IsMessage("MSG_USB_CONN", text) => Delimited(text, "MSG_USB_CONN")
         /\ IsMessage("MSG_DATA_SEND", text) => Delimited(text, "MSG_DATA_SEND")
         /\ IsMessage("MSG_SWITCH", text) => Delimited(text, "MSG_SWITCH")
         /\ IsMessage("MSG_MODE_PROGRAM", text) => Delimited(text, "MSG_MODE_PROGRAM")
         /\ IsMessage("MSG_MODE_NORMAL", text) => Delimited(text, "MSG_MODE_NORMAL")
<1>1. IsMessage("MSG_ERROR", text) => Delimited(text, "MSG_ERROR")
  <2> HAVE IsMessage("MSG_ERROR", text)
  <2>1. text \in Seq(Nat) /\ Spells(text, 5, Len(text))
    BY IsFixed, Spelling5
  <2>2. statesInfoMap[5] = "MSG_ERROR" /\ 5 \in {5, 8, 15, 28, 32, 38, 42, 47, 57, 63, 68, 73, 78, 103}
    BY TypeOfState
  <2>. QED  BY <2>1, <2>2, SpelledDelimits
<1>2. IsMessage("MSG_TEST", text) => Delimited(text, "MSG_TEST")
  <2> HAVE IsMessage("MSG_TEST", text)
  <2>1. text \in Seq(Nat) /\ Spells(text, 8, Len(text))
    BY IsFixed, Spelling8
  <2>2. statesInfoMap[8] = "MSG_TEST" /\ 8 \in {5, 8, 15, 28, 32, 38, 42, 47, 57, 63, 68, 73, 78, 103}
    BY TypeOfState
  <2>. QED  BY <2>1, <2>2, SpelledDelimits
<1>3. IsMessage("MSG_RES_USB", text) => Delimited(text, "MSG_RES_USB")
  <2> HAVE IsMessage("MSG_RES_USB", text)
  <2>1. text \in Seq(Nat) /\ Spells(text, 103, Len(text))
    BY IsFixed, Spelling103
  <2>2. statesInfoMap[103] = "MSG_RES_USB" /\ 103 \in {5, 8, 15, 28, 32, 38, 42, 47, 57, 63, 68, 73, 78, 103}
    BY TypeOfState
  <2>. QED  BY <2>1, <2>2, SpelledDelimits
<1>4. IsMessage("MSG_RES_TR", text) => Delimited(text, "MSG_RES_TR")
  <2> HAVE IsMessage("MSG_RES_TR", text)
  <2>1. text \in Seq(Nat) /\ Spells(text, 15, Len(text))
    BY IsFixed, Spelling15
  <2>2. statesInfoMap[15] = "MSG_RES_TR" /\ 15 \in {5, 8, 15, 28, 32, 38, 42, 47, 57, 63, 68, 73, 78, 103}
    BY TypeOfState
  <2>. QED  BY <2>1, <2>2, SpelledDelimits
<1>5. IsMessage("MSG_USB_CONN", text) => Delimited(text, "MSG_USB_CONN")
  <2> HAVE IsMessage("MSG_USB_CONN", text)
  <2>1. text \in Seq(Nat) /\ Spells(text, 28, Len(text))
    BY IsFixed, Spelling28
  <2>2. statesInfoMap[28] = "MSG_USB_CONN" /\ 28 \in {5, 8, 15, 28, 32, 38, 42, 47, 57, 63, 68, 73, 78, 103}
    BY TypeOfState
  <2>. QED  BY <2>1, <2>2, SpelledDelimits
<1>6. IsMessage("MSG_DATA_SEND", text) => Delimited(text, "MSG_DATA_SEND")
  <2> HAVE IsMessage("MSG_DATA_SEND", text)
  <2>1. PICK t \in {Ok, Err \o <<CR>>, Busy} : text = <<LT, ch.D, ch.S, COLON>> \o t
    BY IsFixed
  <2>2. CASE t = Ok
    <3>1. text \in Seq(Nat) /\ Spells(text, 38, Len(text))
      BY <2>1, <2>2, Spelling38
    <3>2. statesInfoMap[38] = "MSG_DATA_SEND" /\ 38 \in {5, 8, 15, 28, 32, 38, 42, 47, 57, 63, 68, 73, 78, 103}
      BY TypeOfState
    <3>. QED  BY <3>1, <3>2, SpelledDelimits
  <2>3. CASE t = Err \o <<CR>>
    <3>1. text \in Seq(Nat) /\ Spells(text, 42, Len(text))
      BY <2>1, <2>3, Spelling42
    <3>2. statesInfoMap[42] = "MSG_DATA_SEND" /\ 42 \in {5, 8, 15, 28, 32, 38, 42, 47, 57, 63, 68, 73, 78, 103}
      BY TypeOfState
    <3>. QED  BY <3>1, <3>2, SpelledDelimits
  <2>4. CASE t = Busy
    <3>1. text \in Seq(Nat) /\ Spells(text, 47, Len(text))
      BY <2>1, <2>4, Spelling47
    <3>2. statesInfoMap[47] = "MSG_DATA_SEND" /\ 47 \in {5, 8, 15, 28, 32, 38, 42, 47, 57, 63, 68, 73, 78, 103}
      BY TypeOfState
    <3>. QED  BY <3>1, <3>2, SpelledDelimits
  <2>. QED  BY <2>2, <2>3, <2>4
<1>7. IsMessage("MSG_SWITCH", text) => Delimited(text, "MSG_SWITCH")
  <2> HAVE IsMessage("MSG_SWITCH", text)
  <2>1. text \in Seq(Nat) /\ Spells(text, 57, Len(text))
    BY IsFixed, Spelling57
  <2>2. statesInfoMap[57] = "MSG_SWITCH" /\ 57 \in {5, 8, 15, 28, 32, 38, 42, 47, 57, 63, 68, 73, 78, 103}
    BY TypeOfState
  <2>. QED  BY <2>1, <2>2, SpelledDelimits
<1>8. IsMessage("MSG_MODE_PROGRAM", text) => Delimited(text, "MSG_MODE_PROGRAM")
  <2> HAVE IsMessage("MSG_MODE_PROGRAM", text)
  <2>1. PICK t \in {Ok, Err1} : text = <<LT, ch.P, ch.E, COLON>> \o t
    BY IsFixed
  <2>2. CASE t = Ok
    <3>1. text \in Seq(Nat) /\ Spells(text, 63, Len(text))
      BY <2>1, <2>2, Spelling63
    <3>2. statesInfoMap[63] = "MSG_MODE_PROGRAM" /\ 63 \in {5, 8, 15, 28, 32, 38, 42, 47, 57, 63, 68, 73, 78, 103}
      BY TypeOfState
    <3>. QED  BY <3>1, <3>2, SpelledDelimits
  <2>3. CASE t = Err1
    <3>1. text \in Seq(Nat) /\ Spells(text, 68, Len(text))
      BY <2>1, <2>3, Spelling68
    <3>2. statesInfoMap[68] = "MSG_MODE_PROGRAM" /\ 68 \in {5, 8, 15, 28, 32, 38, 42, 47, 57, 63, 68, 73, 78, 103}
      BY TypeOfState
    <3>. QED  BY <3>1, <3>2, SpelledDelimits
  <2>. QED  BY <2>2, <2>3
<1>9. IsMessage("MSG_MODE_NORMAL", text) => Delimited(text, "MSG_MODE_NORMAL")
  <2> HAVE IsMessage("MSG_MODE_NORMAL", text)
  <2>1. PICK t \in {Ok, Err1} : text = <<LT, ch.P, ch.T, COLON>> \o t
    BY IsFixed
  <2>2. CASE t = Ok
    <3>1. text \in Seq(Nat) /\ Spells(text, 73, Len(text))
      BY <2>1, <2>2, Spelling73
    <3>2. statesInfoMap[73] = "MSG_MODE_NORMAL" /\ 73 \in {5, 8, 15, 28, 32, 38, 42, 47, 57, 63, 68, 73, 78, 103}
      BY TypeOfState
    <3>. QED  BY <3>1, <3>2, SpelledDelimits
  <2>3. CASE t = Err1
    <3>1. text \in Seq(Nat) /\ Spells(text, 78, Len(text))
      BY <2>1, <2>3, Spelling78
    <3>2. statesInfoMap[78] = "MSG_MODE_NORMAL" /\ 78 \in {5, 8, 15, 28, 32, 38, 42, 47, 57, 63, 68, 73, 78, 103}
      BY TypeOfState
    <3>. QED  BY <3>1, <3>2, SpelledDelimits
  <2>. QED  BY <2>2, <2>3
<1>. QED
  BY <1>1, <1>2, <1>3, <1>4, <1>5, <1>6, <1>7, <1>8, <1>9, Zenon

LEMMA StatusDelimits ==
  ASSUME NEW text \in Buffers, IsMessage("MSG_SPI_STAT", text)
  PROVE  Delimited(text, "MSG_SPI_STAT")
<1>1. IsStatus(text)
  BY DEF IsMessage, FixedTypes
<1>2. Len(text) = 5 /\ text = <<LT, ch.S, COLON, text[4], CR>>
  BY <1>1 DEF IsStatus, StatusText
<1>3. text \in Seq(Nat)
  BY BufferBytes
<1> DEFINE t == <<LT, ch.S, COLON, text[4], CR>>
<1>4. t[1] = LT /\ t[2] = ch.S /\ t[3] = COLON /\ t[5] = CR
  OBVIOUS
<1> HIDE DEF t
<1>5. text[1] = LT /\ text[2] = ch.S /\ text[3] = COLON /\ text[5] = CR
  BY <1>2, <1>4, Zenon DEF t
<1>6. Spells(text, 32, 5)
  BY <1>5 DEF Spells
<1>7. Spells(text, 32, Len(text)) /\ statesInfoMap[32] = "MSG_SPI_STAT"
  BY <1>2, <1>6, TypeOfState
<1>8. 32 \in {5, 8, 15, 28, 32, 38, 42, 47, 57, 63, 68, 73, 78, 103}
  OBVIOUS
<1>. QED  BY <1>3, <1>7, <1>8, SpelledDelimits

(* Kept closed, so that the provers see the parts and not the join.        *)
IsJoin(s, l, r) == s = l \o r

LEMMA JoinType ==
  ASSUME NEW l \in Seq(Nat), NEW r \in Seq(Nat)
  PROVE  (l \o r) \in Seq(Nat)
OBVIOUS

LEMMA JoinMany ==
  ASSUME NEW s \in Seq(Nat), NEW l \in Seq(Nat), NEW r \in Seq(Nat), IsJoin(s, l, r)
  PROVE  Len(s) = Len(l) + Len(r) /\ \A i \in 1..Len(l) : s[i] = l[i]
BY DEF IsJoin

LEMMA JoinOne ==
  ASSUME NEW s \in Seq(Nat), NEW l \in Seq(Nat), NEW x \in Nat, IsJoin(s, l, <<x>>)
  PROVE  /\ Len(s) = Len(l) + 1 /\ s[Len(l) + 1] = x
         /\ \A i \in 1..Len(l) : s[i] = l[i]
BY DEF IsJoin

LEMMA AsyncMessageDelimits ==
  ASSUME NEW text \in Buffers, IsMessage("MSG_ASYNC", text), text # AsyncText(<<>>)
  PROVE  Delimited(text, "MSG_ASYNC")
<1> DEFINE userData == SubSeq(text, 6, Len(text) - 1)
           len      == Len(text) - 6
           h        == <<LT, ch.D, ch.R, len, COLON>>
<1>1. text \in Seq(Nat) /\ Len(text) \in Nat
  BY BufferBytes
<1>2. Len(text) >= 6 /\ text = AsyncText(userData)
  <2>1. IsAsync(text)
    BY DEF IsMessage, FixedTypes
  <2>. QED  BY <2>1 DEF IsAsync
<1>3. len \in Nat /\ Len(text) = len + 6
  BY <1>1, <1>2
<1>4. userData \in Seq(Nat) /\ Len(userData) = len
  <2>1. /\ 6 \in Nat /\ Len(text) - 1 \in Nat /\ 1 <= 6 /\ 6 <= (Len(text) - 1) + 1
        /\ Len(text) - 1 <= Len(text) /\ (Len(text) - 1) + 1 - 6 = len
    BY <1>1, <1>2
  <2>. QED  BY <1>1, <2>1, SliceElements, Zenon
<1>5. len > 0
  <2> SUFFICES ASSUME ~(len > 0) PROVE FALSE
    OBVIOUS
  <2>1. Len(userData) = 0
    BY <1>3, <1>4
  <2> HIDE DEF userData
  <2>2. userData = <<>>
    BY <1>4, <2>1
  <2>. QED  BY <1>2, <2>2
<1> HIDE DEF userData, len
<1>6. text = (h \o userData) \o <<CR>>
  BY <1>2, <1>4, Zenon DEF AsyncText
<1>7. /\ h \in Seq(Nat) /\ Len(h) = 5 /\ h[1] = LT /\ h[2] = ch.D /\ h[3] = ch.R
      /\ h[4] = len /\ h[5] = COLON
  BY <1>3 DEF LT, ch, COLON
<1> HIDE DEF h
<1> DEFINE g == h \o userData
<1>8. IsJoin(g, h, userData) /\ IsJoin(text, g, <<CR>>) /\ CR \in Nat /\ g \in Seq(Nat)
  BY <1>4, <1>6, <1>7, JoinType DEF IsJoin, CR
<1> HIDE DEF g
<1>9. Len(g) = 5 + len /\ \A i \in 1..5 : g[i] = h[i]
  <2>1. Len(g) = Len(h) + Len(userData) /\ \A i \in 1..Len(h) : g[i] = h[i]
    BY <1>4, <1>7, <1>8, JoinMany, ZenonT(60)
  <2>. QED  BY <1>4, <1>7, <2>1
<1>20. text[(5 + len) + 1] = CR /\ \A i \in 1..(5 + len) : text[i] = g[i]
  <2>1. /\ Len(text) = Len(g) + 1 /\ text[Len(g) + 1] = CR
        /\ \A i \in 1..Len(g) : text[i] = g[i]
    BY <1>1, <1>8, JoinOne, ZenonT(60)
  <2>. QED  BY <1>9, <2>1
<1>10. \A i \in 1..5 : text[i] = h[i]
  <2>1. \A i \in 1..5 : i \in 1..(5 + len)
    BY <1>3
  <2>. QED  BY <1>9, <1>20, <2>1, Zenon
<1>11. /\ text[1] = LT /\ text[2] = ch.D /\ text[3] = ch.R /\ text[4] = len /\ text[5] = COLON
       /\ text[len + 6] = CR
  <2>1. (5 + len) + 1 = len + 6
    BY <1>3
  <2>2. text[len + 6] = CR
    BY <1>20, <2>1
  <2>. QED  BY <1>7, <1>10, <2>2
<1>12. Spells(text, 50, 5)
  BY <1>11 DEF Spells
<1>. QED  BY <1>1, <1>3, <1>5, <1>11, <1>12, AsyncDelimits DEF Delimited

(* The places of the two # and of the CR in USB information.               *)
Places(text, t, v, j, a, b, n) ==
  text = USBInfoText(t, v, j) /\ a = 4 + Len(t) /\ b = a + 1 + Len(v) /\ n = b + 1 + Len(j)

LEMMA USBInfoPlaces ==
  ASSUME NEW t \in Seq(Nat), NEW v \in Seq(Nat), NEW j \in Seq(Nat),
         NEW text \in Seq(Nat), NEW a \in Nat, NEW b \in Nat, NEW n \in Nat, Places(text, t, v, j, a, b, n)
  PROVE  /\ Len(text) = n /\ text[1] = LT /\ text[2] = ch.I /\ text[3] = COLON
         /\ text[a] = HASH /\ text[b] = HASH /\ text[n] = CR
<1> DEFINE hdr == <<LT, ch.I, COLON>>
           A == hdr \o t
           B == A \o <<HASH>>
           C == B \o v
           D == C \o <<HASH>>
           E == D \o j
<1>1. /\ IsJoin(A, hdr, t) /\ IsJoin(B, A, <<HASH>>) /\ IsJoin(C, B, v)
      /\ IsJoin(D, C, <<HASH>>) /\ IsJoin(E, D, j) /\ IsJoin(text, E, <<CR>>)
      /\ a = 4 + Len(t) /\ b = a + 1 + Len(v) /\ n = b + 1 + Len(j)
  BY DEF Places, IsJoin, USBInfoText
<1>2. /\ hdr \in Seq(Nat) /\ Len(hdr) = 3
      /\ hdr[1] = LT /\ hdr[2] = ch.I /\ hdr[3] = COLON
      /\ HASH \in Nat /\ CR \in Nat
  BY DEF LT, ch, COLON, HASH, CR
<1>3. Len(t) \in Nat /\ Len(v) \in Nat /\ Len(j) \in Nat
  OBVIOUS
<1> HIDE DEF hdr
<1>14. <<HASH>> \in Seq(Nat) /\ <<CR>> \in Seq(Nat)
  BY <1>2
<1>11. A \in Seq(Nat) /\ B \in Seq(Nat) /\ C \in Seq(Nat)
  <2>1. A \in Seq(Nat)
    BY <1>2, JoinType
  <2> HIDE DEF A
  <2>2. B \in Seq(Nat)
    BY <1>14, <2>1, JoinType
  <2> HIDE DEF B
  <2>. QED  BY <2>1, <2>2, JoinType
<1> HIDE DEF A, B, C
<1>12. D \in Seq(Nat) /\ E \in Seq(Nat) /\ text \in Seq(Nat)
  <2>1. D \in Seq(Nat)
    BY <1>11, <1>14, JoinType
  <2> HIDE DEF D
  <2>2. E \in Seq(Nat)
    BY <2>1, JoinType
  <2> HIDE DEF E
  <2>3. text = E \o <<CR>>
    BY <1>1 DEF IsJoin
  <2>. QED  BY <1>14, <2>1, <2>2, <2>3, JoinType
<1> HIDE DEF D, E
<1>13. 3 + Len(t) = a - 1 /\ a + Len(v) = b - 1 /\ b + Len(j) = n - 1
       /\ (a - 1) + 1 = a /\ (b - 1) + 1 = b /\ (n - 1) + 1 = n
  BY <1>1, <1>3
<1>4. /\ a \in 1..a /\ b \in 1..b /\ \A i \in 1..3 : i \in 1..(a - 1) /\ i \in 1..a
      /\ \A i \in 1..a : i \in 1..(b - 1) /\ i \in 1..b
      /\ \A i \in 1..b : i \in 1..(n - 1)
      /\ a - 1 = 3 + Len(t) /\ b - 1 = a + Len(v) /\ n - 1 = b + Len(j)
  BY <1>1, <1>3
<1>5. Len(A) = a - 1 /\ \A i \in 1..3 : A[i] = hdr[i]
  <2>1. Len(A) = Len(hdr) + Len(t) /\ \A i \in 1..Len(hdr) : A[i] = hdr[i]
    BY <1>1, <1>2, <1>11, JoinMany, ZenonT(60)
  <2>. QED  BY <1>2, <1>13, <2>1
<1>6. Len(B) = a /\ B[a] = HASH /\ \A i \in 1..(a - 1) : B[i] = A[i]
  <2>1. /\ Len(B) = Len(A) + 1 /\ B[Len(A) + 1] = HASH
        /\ \A i \in 1..Len(A) : B[i] = A[i]
    BY <1>1, <1>2, <1>11, JoinOne, ZenonT(60)
  <2>. QED  BY <1>5, <1>13, <2>1
<1>7. Len(C) = b - 1 /\ \A i \in 1..a : C[i] = B[i]
  <2>1. Len(C) = Len(B) + Len(v) /\ \A i \in 1..Len(B) : C[i] = B[i]
    BY <1>1, <1>11, JoinMany, ZenonT(60)
  <2>. QED  BY <1>6, <1>13, <2>1
<1>8. Len(D) = b /\ D[b] = HASH /\ \A i \in 1..(b - 1) : D[i] = C[i]
  <2>1. /\ Len(D) = Len(C) + 1 /\ D[Len(C) + 1] = HASH
        /\ \A i \in 1..Len(C) : D[i] = C[i]
    BY <1>1, <1>2, <1>11, <1>12, JoinOne, ZenonT(60)
  <2>. QED  BY <1>7, <1>13, <2>1
<1>9. Len(E) = n - 1 /\ \A i \in 1..b : E[i] = D[i]
  <2>1. Len(E) = Len(D) + Len(j) /\ \A i \in 1..Len(D) : E[i] = D[i]
    BY <1>1, <1>12, JoinMany, ZenonT(60)
  <2>. QED  BY <1>8, <1>13, <2>1
<1>10. Len(text) = n /\ text[n] = CR /\ \A i \in 1..(n - 1) : text[i] = E[i]
  <2>1. /\ Len(text) = Len(E) + 1 /\ text[Len(E) + 1] = CR
        /\ \A i \in 1..Len(E) : text[i] = E[i]
    BY <1>1, <1>2, <1>12, JoinOne, ZenonT(60)
  <2>. QED  BY <1>9, <1>13, <2>1
<1>15. \A i \in 1..b : text[i] = D[i]
  BY <1>4, <1>9, <1>10, Zenon
<1>16. text[b] = HASH /\ \A i \in 1..a : text[i] = B[i]
  BY <1>4, <1>7, <1>8, <1>15, Zenon
<1>17. text[a] = HASH /\ \A i \in 1..3 : text[i] = hdr[i]
  BY <1>4, <1>5, <1>6, <1>16, Zenon
<1>18. 1 \in 1..3 /\ 2 \in 1..3 /\ 3 \in 1..3
  OBVIOUS
<1>. QED  BY <1>2, <1>10, <1>16, <1>17, <1>18, Zenon

LEMMA BytesOfSlice ==
  ASSUME NEW s \in Seq(Nat), NEW a \in Nat, NEW z \in Nat, 1 <= a, a <= z + 1, z <= Len(s),
         NEW x \in a..z
  PROVE  s[x] \in Bytes(SubSeq(s, a, z))
<1> DEFINE t == SubSeq(s, a, z)
<1>1. t \in Seq(Nat) /\ Len(t) = z + 1 - a /\ \A i \in 1..(z + 1 - a) : t[i] = s[a + i - 1]
  BY SliceElements
<1> HIDE DEF t
<1>2. x + 1 - a \in 1..(z + 1 - a) /\ a + (x + 1 - a) - 1 = x
  OBVIOUS
<1>3. t[x + 1 - a] = s[x] /\ x + 1 - a \in DOMAIN t
  BY <1>1, <1>2
<1>4. s[x] \in Bytes(t)
  BY <1>3 DEF Bytes
<1>. QED  BY <1>4 DEF t

LEMMA USBInfoMessageDelimits ==
  ASSUME NEW text \in Buffers, IsMessage("MSG_USB_INFO", text)
  PROVE  Delimited(text, "MSG_USB_INFO")
<1> DEFINE n == Len(text)
<1>1. text \in Seq(Nat) /\ n \in Nat
  BY BufferBytes
<1>2. IsUSBInfo(text)
  BY DEF IsMessage, FixedTypes
<1>3. PICK h1 \in 4..n, h2 \in 4..n :
        /\ h1 < h2
        /\ HASH \notin Bytes(SubSeq(text, 4, h1 - 1))
        /\ Bytes(SubSeq(text, h1 + 1, h2 - 1)) \subseteq Digits \cup {DOT}
        /\ Bytes(SubSeq(text, h2 + 1, n - 1)) \subseteq Digits \cup 65..72
        /\ text = USBInfoText(SubSeq(text, 4, h1 - 1), SubSeq(text, h1 + 1, h2 - 1),
                              SubSeq(text, h2 + 1, n - 1))
  BY <1>2, Zenon DEF IsUSBInfo
<1> DEFINE t == SubSeq(text, 4, h1 - 1)
           v == SubSeq(text, h1 + 1, h2 - 1)
           j == SubSeq(text, h2 + 1, n - 1)
<1>4. /\ h1 \in Nat /\ h2 \in Nat /\ 4 <= h1 /\ h1 < h2 /\ h2 <= n
      /\ h1 - 1 \in Nat /\ h2 - 1 \in Nat /\ n - 1 \in Nat /\ h1 + 1 \in Nat /\ h2 + 1 \in Nat
      /\ 4 <= (h1 - 1) + 1 /\ h1 - 1 <= n /\ h1 + 1 <= (h2 - 1) + 1 /\ h2 - 1 <= n
      /\ n - 1 <= n /\ 1 <= h1 + 1 /\ 1 <= h2 + 1 /\ 4 \in Nat /\ 1 <= 4
      /\ (h1 - 1) + 1 - 4 = h1 - 4 /\ (h2 - 1) + 1 - (h1 + 1) = h2 - h1 - 1
  <2>1. n - 1 >= 3
    BY <1>1, <1>3
  <2> HIDE DEF n
  <2>. QED  BY <1>1, <1>3, <2>1
<1>5. t \in Seq(Nat) /\ Len(t) = h1 - 4
  BY <1>1, <1>4, SliceElements, Zenon
<1>6. v \in Seq(Nat) /\ Len(v) = h2 - h1 - 1
  BY <1>1, <1>4, SliceElements, Zenon
<1>7. j \in Seq(Nat)
  BY <1>1, <1>4
<1> HIDE DEF t, v, j, n
<1>8. text = USBInfoText(t, v, j)
  BY <1>3, Zenon DEF t, v, j, n
<1>9. Len(j) \in Nat
  BY <1>7
<1> DEFINE m == h2 + 1 + Len(j)
<1>10. h1 = 4 + Len(t) /\ h2 = h1 + 1 + Len(v) /\ m \in Nat /\ h2 < m
  BY <1>4, <1>5, <1>6, <1>9
<1> HIDE DEF m
<1>11. m = h2 + 1 + Len(j)
  BY DEF m
<1>12. /\ Len(text) = m /\ text[1] = LT /\ text[2] = ch.I /\ text[3] = COLON
       /\ text[h1] = HASH /\ text[h2] = HASH /\ text[m] = CR
  <2>1. Places(text, t, v, j, h1, h2, m)
    BY <1>8, <1>10, <1>11, Zenon DEF Places
  <2>2. /\ h1 \in Nat /\ h2 \in Nat /\ m \in Nat
        /\ t \in Seq(Nat) /\ v \in Seq(Nat) /\ j \in Seq(Nat)
    BY <1>4, <1>5, <1>6, <1>7, <1>10
  <2>3. text \in Seq(Nat)
    BY <1>1
  <2>4. \A a, b, c \in Nat : Places(text, t, v, j, a, b, c) =>
          /\ Len(text) = c /\ text[1] = LT /\ text[2] = ch.I /\ text[3] = COLON
          /\ text[a] = HASH /\ text[b] = HASH /\ text[c] = CR
    BY <2>2, <2>3, USBInfoPlaces, SMTT(60)
  <2>. QED  BY <2>1, <2>2, <2>4, ZenonT(60)
<1>13. m = n
  BY <1>12 DEF n
<1>14. h1 \in 4..(n - 1) /\ h2 \in 4..(n - 1) /\ h2 + 1 <= (n - 1) + 1 /\ 3 <= n
  BY SMTT(60), <1>1, <1>4, <1>10, <1>13 DEF n
<1>15. \A x \in 4..(h1 - 1) : text[x] # HASH
  <2>1. \A x \in 4..(h1 - 1) : text[x] \in Bytes(t)
    BY <1>1, <1>4, BytesOfSlice, Zenon DEF t, n
  <2>2. HASH \notin Bytes(t)
    BY <1>3 DEF t
  <2>. QED  BY <2>1, <2>2, Zenon
<1>16. \A x \in (h1 + 1)..(h2 - 1) : text[x] \in Digits \cup {DOT}
  <2>1. \A x \in (h1 + 1)..(h2 - 1) : text[x] \in Bytes(v)
    BY <1>1, <1>4, BytesOfSlice, Zenon DEF v, n
  <2>2. Bytes(v) \subseteq Digits \cup {DOT}
    BY <1>3 DEF v
  <2>. QED  BY <2>1, <2>2, Zenon
<1>17. \A x \in (h2 + 1)..(n - 1) : text[x] \in Digits \cup 65..72
  <2>1. \A x \in (h2 + 1)..(n - 1) : text[x] \in Bytes(j)
    BY <1>1, <1>4, <1>14, BytesOfSlice, Zenon DEF j, n
  <2>2. Bytes(j) \subseteq Digits \cup 65..72
    BY <1>3, Zenon DEF j, n
  <2>. QED  BY <2>1, <2>2, Zenon
<1>18. USBInfoRead(text, n)
  BY <1>3, <1>12, <1>13, <1>14, <1>15, <1>16, <1>17, Zenon DEF USBInfoRead
<1>19. Spells(text, 17, 3)
  BY <1>12 DEF Spells
<1>20. n \in Nat /\ Len(text) = n
  BY <1>1 DEF n
<1>. QED  BY <1>1, <1>18, <1>19, <1>20, USBInfoDelimits, Zenon DEF Delimited

(* Every message of the grammar that marks its own end, but the one of     *)
(* asynchronous data without data: the parser waits for all of it, and     *)
(* accepts it with its type whatever follows.                              *)
THEOREM SelfDelimiting ==
  \A type \in SelfDelimitingTypes : \A text \in Buffers :
    IsMessage(type, text) /\ text # AsyncText(<<>>) => Delimited(text, type)
<1> SUFFICES ASSUME NEW type \in SelfDelimitingTypes, NEW text \in Buffers,
                    IsMessage(type, text), text # AsyncText(<<>>)
             PROVE  Delimited(text, type)
  OBVIOUS
<1>1. type \in {"MSG_ERROR", "MSG_TEST", "MSG_RES_USB", "MSG_RES_TR", "MSG_USB_CONN",
                "MSG_DATA_SEND", "MSG_SWITCH", "MSG_MODE_PROGRAM", "MSG_MODE_NORMAL",
                "MSG_SPI_STAT", "MSG_ASYNC", "MSG_USB_INFO"}
  BY DEF SelfDelimitingTypes, MessageTypes, FixedTypes
<1>2. CASE type = "MSG_SPI_STAT"
  BY <1>2, StatusDelimits
<1>3. CASE type = "MSG_ASYNC"
  BY <1>3, AsyncMessageDelimits
<1>4. CASE type = "MSG_USB_INFO"
  BY <1>4, USBInfoMessageDelimits
<1>. QED  BY <1>1, <1>2, <1>3, <1>4, FixedDelimits
=============================================================================
