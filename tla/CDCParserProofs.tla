--------------------------- MODULE CDCParserProofs ---------------------------
(***************************************************************************)
(* What parseData does with any buffer of bytes: its loop ends, and what   *)
(* it has read spells the state it is in.                                  *)
(* The iterations are a recursive function; facts about it are proved by   *)
(* induction over sets of numbers, from the least element of a set.        *)
(***************************************************************************)
EXTENDS CDCParser, FiniteSetTheorems, TLAPS

-----------------------------------------------------------------------------
(* Induction and recursion.                                                *)

(* A set of natural numbers that is not empty has a least element. *)
LEMMA LeastNat ==
  ASSUME NEW S \in SUBSET Nat, S # {}
  PROVE  \E n \in S : \A m \in S : n <= m
<1> DEFINE R == {ss \in Nat \X Nat : ss[1] < ss[2]}
<1>1. IsWellFoundedOn(R, Nat)
  BY NatLessThanWellFounded DEF OpToRel
<1>2. \A x, y \in Nat : x < y => <<x, y>> \in R
  OBVIOUS
<1> HIDE DEF R
<1>3. PICK n \in S : \A m \in S : <<m, n>> \notin R
  BY <1>1, WFMin, Zenon
<1>4. \A m \in S : n <= m
  <2>1. SUFFICES ASSUME NEW m \in S PROVE ~(m < n)
    OBVIOUS
  <2>2. n \in Nat /\ m \in Nat /\ <<m, n>> \notin R
    BY <1>3
  <2>. QED  BY <1>2, <2>2, Zenon
<1>. QED  BY <1>4

(* Induction, with a set in place of a predicate. *)
LEMMA SetInduction ==
  ASSUME NEW S, 0 \in S, \A n \in Nat : n \in S => n + 1 \in S
  PROVE  Nat \subseteq S
<1> SUFFICES ASSUME Nat \ S # {} PROVE FALSE
  OBVIOUS
<1>1. PICK n \in Nat \ S : \A m \in Nat \ S : n <= m
  BY LeastNat
<1>2. n # 0 /\ n - 1 \in Nat
  BY <1>1
<1>3. n - 1 \in S
  BY <1>1, <1>2
<1>. QED  BY <1>1, <1>2, <1>3

(* The first n turns of an iteration, as a function on 0..n. *)
Turns(C, nxt, s, n) ==
  {g \in [0..n -> C] : g[0] = s /\ \A i \in 1..n : g[i] = nxt[g[i - 1]]}

LEMMA TurnsExist ==
  ASSUME NEW C, NEW nxt \in [C -> C], NEW s \in C
  PROVE  \A n \in Nat : Turns(C, nxt, s, n) # {}
<1> DEFINE S == {n \in Nat : Turns(C, nxt, s, n) # {}}
<1>1. 0 \in S
  <2>1. [i \in 0..0 |-> s] \in Turns(C, nxt, s, 0)
    BY DEF Turns
  <2>. QED  BY <2>1
<1>2. ASSUME NEW n \in Nat, n \in S PROVE n + 1 \in S
  <2>1. PICK g : g \in [0..n -> C] /\ g[0] = s /\ \A i \in 1..n : g[i] = nxt[g[i - 1]]
    BY <1>2 DEF Turns
  <2> DEFINE h == [i \in 0..(n + 1) |-> IF i = n + 1 THEN nxt[g[n]] ELSE g[i]]
  <2>2. h \in [0..(n + 1) -> C] /\ h[0] = s
    BY <2>1
  <2>3. ASSUME NEW i \in 1..(n + 1) PROVE h[i] = nxt[h[i - 1]]
    <3>1. CASE i = n + 1
      BY <2>1, <3>1
    <3>2. CASE i # n + 1
      <4>1. i \in 1..n /\ i - 1 # n + 1 /\ i - 1 \in 0..n /\ {i, i - 1} \subseteq 0..(n + 1)
        BY <3>2
      <4>. QED  BY <2>1, <3>2, <4>1
    <3>. QED  BY <3>1, <3>2
  <2> HIDE DEF h
  <2>4. h \in Turns(C, nxt, s, n + 1)
    BY <2>2, <2>3 DEF Turns
  <2>. QED  BY <2>4
<1> HIDE DEF S
<1>3. Nat \subseteq S
  BY <1>1, <1>2, SetInduction, Zenon
<1>. QED  BY <1>3 DEF S

(* Two iterations agree as far as both go. *)
LEMMA TurnsAgree ==
  ASSUME NEW C, NEW nxt \in [C -> C], NEW s \in C, NEW m \in Nat, NEW n \in Nat,
         NEW g \in Turns(C, nxt, s, m), NEW h \in Turns(C, nxt, s, n)
  PROVE  \A i \in Nat : i <= m /\ i <= n => g[i] = h[i]
<1> DEFINE S == {i \in Nat : i <= m /\ i <= n => g[i] = h[i]}
<1>1. 0 \in S
  BY DEF Turns
<1>2. ASSUME NEW i \in Nat, i \in S PROVE i + 1 \in S
  <2>1. SUFFICES ASSUME i + 1 <= m, i + 1 <= n PROVE g[i + 1] = h[i + 1]
    OBVIOUS
  <2>2. g[i] = h[i] /\ i + 1 \in 1..m /\ i + 1 \in 1..n /\ (i + 1) - 1 = i
    BY <1>2, <2>1
  <2>. QED  BY <2>2 DEF Turns
<1> HIDE DEF S
<1>3. Nat \subseteq S
  BY <1>1, <1>2, SetInduction, Zenon
<1>. QED  BY <1>3 DEF S

(* What starts in a set and is moved inside it can be iterated for ever. *)
LEMMA Recursion ==
  ASSUME NEW C, NEW nxt \in [C -> C], NEW s \in C
  PROVE  \E f \in [Nat -> C] : f = [n \in Nat |-> IF n = 0 THEN s ELSE nxt[f[n - 1]]]
<1> DEFINE G == [n \in Nat |-> CHOOSE g : g \in Turns(C, nxt, s, n)]
           f == [n \in Nat |-> G[n][n]]
<1>1. \A n \in Nat : G[n] \in Turns(C, nxt, s, n)
  BY TurnsExist
<1> HIDE DEF G
<1>2. f \in [Nat -> C]
  BY <1>1 DEF Turns
<1>3. ASSUME NEW n \in Nat PROVE f[n] = IF n = 0 THEN s ELSE nxt[f[n - 1]]
  <2>1. CASE n = 0
    BY <1>1, <2>1 DEF Turns
  <2>2. CASE n # 0
    <3>1. n - 1 \in Nat /\ n \in 1..n /\ n - 1 <= n
      BY <2>2
    <3>2. G[n][n] = nxt[G[n][n - 1]]
      BY <1>1, <3>1 DEF Turns
    <3>3. G[n][n - 1] = G[n - 1][n - 1]
      BY <1>1, <3>1, TurnsAgree
    <3>. QED  BY <2>2, <3>1, <3>2, <3>3
  <2>. QED  BY <2>1, <2>2
<1>. QED  BY <1>2, <1>3

-----------------------------------------------------------------------------
(* The automaton is a tree: one text leads to each of its states, but for  *)
(* those behind a special state.  What the first pos bytes of the buffer   *)
(* are when they have led to state, place by place.                        *)
Spells(data, state, pos) ==
  /\ state \in (1..17) \cup (24..50) \cup (53..93) \cup (101..103) \cup {20, 21, 95}
       => data[1] = LT
  /\ state \in 2..5 => data[2] = ch.E
  /\ state \in 3..5 => data[3] = ch.R
  /\ state \in {4, 5} => data[4] = ch.R
  /\ state = 5 => data[5] = CR
  /\ state \in 6..8 => data[2] = ch.O
  /\ state \in {7, 8} => data[3] = ch.K
  /\ state = 8 => data[4] = CR
  /\ state \in (9..15) \cup (101..103) => data[2] = ch.R
  /\ state \in (101..103) \cup {10} => data[3] = COLON
  /\ state \in 101..103 => data[4] = ch.O
  /\ state \in {102, 103} => data[5] = ch.K
  /\ state = 103 => data[6] = CR
  /\ state \in 11..15 => data[3] = ch.T
  /\ state \in 12..15 => data[4] = COLON
  /\ state \in 13..15 => data[5] = ch.O
  /\ state \in {14, 15} => data[6] = ch.K
  /\ state = 15 => data[7] = CR
  /\ state \in {16, 17, 20, 21} => data[2] = ch.I
  /\ state = 17 => data[3] = COLON
  /\ state \in {20, 21} => data[3] = ch.T
  /\ state = 21 => data[4] = COLON
  /\ state \in 24..28 => data[2] = ch.B
  /\ state \in 25..28 => data[3] = COLON
  /\ state \in 26..28 => data[4] = ch.O
  /\ state \in {27, 28} => data[5] = ch.K
  /\ state = 28 => data[6] = CR
  /\ state \in 29..32 => data[2] = ch.S
  /\ state \in 30..32 => data[3] = COLON
  /\ state = 32 => data[5] = CR
  /\ state \in 33..50 => data[2] = ch.D
  /\ state \in 34..47 => data[3] = ch.S
  /\ state \in 35..47 => data[4] = COLON
  /\ state \in 36..38 => data[5] = ch.O
  /\ state \in {37, 38} => data[6] = ch.K
  /\ state = 38 => data[7] = CR
  /\ state \in 39..42 => data[5] = ch.E
  /\ state \in 40..42 => data[6] = ch.R
  /\ state \in {41, 42} => data[7] = ch.R
  /\ state = 42 => data[8] = CR
  /\ state \in 43..47 => data[5] = ch.B
  /\ state \in 44..47 => data[6] = ch.U
  /\ state \in 45..47 => data[7] = ch.S
  /\ state \in {46, 47} => data[8] = ch.Y
  /\ state = 47 => data[9] = CR
  /\ state \in 48..50 => data[3] = ch.R
  /\ state = 50 => data[5] = COLON
  /\ state \in 53..57 => data[2] = ch.U
  /\ state \in 54..57 => data[3] = COLON
  /\ state \in 55..57 => data[4] = ch.O
  /\ state \in {56, 57} => data[5] = ch.K
  /\ state = 57 => data[6] = CR
  /\ state \in (58..93) \cup {95} => data[2] = ch.P
  /\ state \in 59..68 => data[3] = ch.E
  /\ state \in 60..68 => data[4] = COLON
  /\ state \in 61..63 => data[5] = ch.O
  /\ state \in {62, 63} => data[6] = ch.K
  /\ state = 63 => data[7] = CR
  /\ state \in 64..68 => data[5] = ch.E
  /\ state \in 65..68 => data[6] = ch.R
  /\ state \in 66..68 => data[7] = ch.R
  /\ state \in {67, 68} => data[8] = 49
  /\ state = 68 => data[9] = CR
  /\ state \in 69..78 => data[3] = ch.T
  /\ state \in 70..78 => data[4] = COLON
  /\ state \in 71..73 => data[5] = ch.O
  /\ state \in {72, 73} => data[6] = ch.K
  /\ state = 73 => data[7] = CR
  /\ state \in 74..78 => data[5] = ch.E
  /\ state \in 75..78 => data[6] = ch.R
  /\ state \in 76..78 => data[7] = ch.R
  /\ state \in {77, 78} => data[8] = 49
  /\ state = 78 => data[9] = CR
  /\ state \in (79..93) \cup {95} => data[3] = ch.M
  /\ state \in (80..93) \cup {95} => data[4] = COLON
  /\ state \in 81..83 => data[5] = ch.O
  /\ state \in {82, 83} => data[6] = ch.K
  /\ state = 83 => data[7] = CR
  /\ state \in 84..88 => data[5] = ch.E
  /\ state \in 85..88 => data[6] = ch.R
  /\ state \in 86..88 => data[7] = ch.R
  /\ state \in {87, 88} => data[8] \in 50..55
  /\ state = 88 => data[9] = CR
  /\ state \in 89..93 => data[5] = ch.B
  /\ state \in 90..93 => data[6] = ch.U
  /\ state \in 91..93 => data[7] = ch.S
  /\ state \in {92, 93} => data[8] = ch.Y
  /\ state = 93 => data[9] = CR
  /\ state \in 0..5 => pos = state
  /\ state \in 6..8 => pos = state - 4
  /\ state \in {9, 10} => pos = state - 7
  /\ state \in 11..15 => pos = state - 8
  /\ state \in {16, 17} => pos = state - 14
  /\ state \in {20, 21} => pos = state - 17
  /\ state \in 24..28 => pos = state - 22
  /\ state \in 29..32 => pos = state - 27
  /\ state \in 33..38 => pos = state - 31
  /\ state \in 39..42 => pos = state - 34
  /\ state \in 43..47 => pos = state - 38
  /\ state \in 48..50 => pos = state - 45
  /\ state \in 53..57 => pos = state - 51
  /\ state \in 58..63 => pos = state - 56
  /\ state \in 64..68 => pos = state - 59
  /\ state \in 69..73 => pos = state - 66
  /\ state \in 74..78 => pos = state - 69
  /\ state \in 79..83 => pos = state - 76
  /\ state \in 84..88 => pos = state - 79
  /\ state \in 89..93 => pos = state - 84
  /\ state = 95 => pos = state - 91
  /\ state \in 101..103 => pos = state - 97

Spelled == (0..17) \cup {20, 21} \cup (24..50) \cup (53..93) \cup {95} \cup (101..103)

(* The states from which no special state is reached. *)
Behind == {51, 52} \cup (80..93) \cup {96, 97}

(* Where a byte leads: to the next number, or to the head of a branch. *)
Goes(from, input) ==
  CASE from = 1 /\ input = ch.O   -> 6
    [] from = 1 /\ input = ch.R   -> 9
    [] from = 1 /\ input = ch.I   -> 16
    [] from = 1 /\ input = ch.B   -> 24
    [] from = 1 /\ input = ch.S   -> 29
    [] from = 1 /\ input = ch.D   -> 33
    [] from = 1 /\ input = ch.U   -> 53
    [] from = 1 /\ input = ch.P   -> 58
    [] from = 9 /\ input = ch.T   -> 11
    [] from = 10                  -> 101
    [] from = 16 /\ input = ch.T  -> 20
    [] from = 33 /\ input = ch.R  -> 48
    [] from = 35 /\ input = ch.E  -> 39
    [] from = 35 /\ input = ch.B  -> 43
    [] from = 58 /\ input = ch.T  -> 69
    [] from = 58 /\ input = ch.M  -> 79
    [] from = 60 /\ input = ch.E  -> 64
    [] from = 70 /\ input = ch.E  -> 74
    [] from = 79                  -> 95
    [] from = 80 /\ input = ch.E  -> 84
    [] from = 80 /\ input = ch.B  -> 89
    [] OTHER                      -> from + 1

(* What is said of every transition: only CR leads to a finite state, and  *)
(* the byte read spells the next state.                                    *)
Fits(from, input, to) ==
  /\ from \in 0..103 /\ input \in (0..255) \cup {INPUT_ALL} /\ to \in 1..103
  /\ to \in finiteStates => input = CR
  /\ from \in Spelled =>
       /\ to \in Spelled
       /\ \A data \in Seq(Nat), pos \in Nat :
            Spells(data, from, pos) /\ input \in {data[pos + 1], INPUT_ALL}
                            => Spells(data, to, pos + 1)
  /\ from \notin Spelled => <<from, to>> \in {<<18, 19>>, <<22, 23>>, <<51, 52>>, <<96, 97>>}
  /\ from \in Behind => to \in Behind
  /\ to = Goes(from, input)
  /\ from \in {30, 48} => input = INPUT_ALL

LEMMA FourOf == \A s \in Seq(Nat) : Len(s) = 4 => s = <<s[1], s[2], s[3], s[4]>>
OBVIOUS

LEMMA FiveOf == \A s \in Seq(Nat) : Len(s) = 5 => s = <<s[1], s[2], s[3], s[4], s[5]>>
OBVIOUS

LEMMA SixOf ==
  \A s \in Seq(Nat) : Len(s) = 6 => s = <<s[1], s[2], s[3], s[4], s[5], s[6]>>
OBVIOUS

LEMMA ThreeAndOne ==
  ASSUME NEW a \in Nat, NEW b \in Nat, NEW c \in Nat, NEW d \in Nat
  PROVE  <<a, b, c>> \o <<d>> = <<a, b, c, d>>
<1> DEFINE s == <<a, b, c>> \o <<d>>
<1>1. s \in Seq(Nat) /\ Len(s) = 4 /\ s[1] = a /\ s[2] = b /\ s[3] = c /\ s[4] = d
  OBVIOUS
<1> HIDE DEF s
<1>2. s = <<s[1], s[2], s[3], s[4]>>
  BY <1>1, FourOf, Zenon
<1>. QED  BY <1>1, <1>2, Zenon DEF s

LEMMA ThreeAndTwo ==
  ASSUME NEW a \in Nat, NEW b \in Nat, NEW c \in Nat, NEW d \in Nat, NEW e \in Nat
  PROVE  <<a, b, c>> \o <<d, e>> = <<a, b, c, d, e>>
<1> DEFINE s == <<a, b, c>> \o <<d, e>>
<1>1. /\ s \in Seq(Nat) /\ Len(s) = 5
      /\ s[1] = a /\ s[2] = b /\ s[3] = c /\ s[4] = d /\ s[5] = e
  OBVIOUS
<1> HIDE DEF s
<1>2. s = <<s[1], s[2], s[3], s[4], s[5]>>
  BY <1>1, FiveOf, Zenon
<1>. QED  BY <1>1, <1>2, Zenon DEF s

LEMMA TwoAndThree ==
  ASSUME NEW a \in Nat, NEW b \in Nat, NEW c \in Nat, NEW d \in Nat, NEW e \in Nat
  PROVE  <<a, b>> \o <<c, d, e>> = <<a, b, c, d, e>>
<1> DEFINE s == <<a, b>> \o <<c, d, e>>
<1>1. /\ s \in Seq(Nat) /\ Len(s) = 5
      /\ s[1] = a /\ s[2] = b /\ s[3] = c /\ s[4] = d /\ s[5] = e
  OBVIOUS
<1> HIDE DEF s
<1>2. s = <<s[1], s[2], s[3], s[4], s[5]>>
  BY <1>1, FiveOf, Zenon
<1>. QED  BY <1>1, <1>2, Zenon DEF s

LEMMA ThreeAndThree ==
  ASSUME NEW a \in Nat, NEW b \in Nat, NEW c \in Nat, NEW d \in Nat, NEW e \in Nat,
         NEW f \in Nat
  PROVE  <<a, b, c>> \o <<d, e, f>> = <<a, b, c, d, e, f>>
<1> DEFINE s == <<a, b, c>> \o <<d, e, f>>
<1>1. /\ s \in Seq(Nat) /\ Len(s) = 6
      /\ s[1] = a /\ s[2] = b /\ s[3] = c /\ s[4] = d /\ s[5] = e /\ s[6] = f
  OBVIOUS
<1> HIDE DEF s
<1>2. s = <<s[1], s[2], s[3], s[4], s[5], s[6]>>
  BY <1>1, SixOf, Zenon
<1>. QED  BY <1>1, <1>2, Zenon DEF s

(* The texts along the paths that are joined of two. *)
LEMMA Inputs ==
  /\ Err \o <<CR>> = <<69, 82, 82, 13>>
  /\ Err1 = <<69, 82, 82, 49, 13>>
  /\ <<ch.R, COLON>> \o Ok = <<82, 58, 79, 75, 13>>
  /\ <<ch.T, COLON>> \o Ok = <<84, 58, 79, 75, 13>>
  /\ <<ch.B, COLON>> \o Ok = <<66, 58, 79, 75, 13>>
  /\ <<ch.U, COLON>> \o Ok = <<85, 58, 79, 75, 13>>
  /\ <<ch.D, ch.S, COLON>> \o Ok = <<68, 83, 58, 79, 75, 13>>
  /\ <<ch.P, ch.E, COLON>> \o Ok = <<80, 69, 58, 79, 75, 13>>
<1> USE DEF LT, CR, COLON, ch
<1>1. /\ Err \o <<CR>> = <<69, 82, 82, 13>>
      /\ Err1 = <<69, 82, 82, 49, 13>>
  BY ThreeAndOne, ThreeAndTwo DEF Err, Err1
<1>2. ASSUME NEW a \in Nat, NEW b \in Nat PROVE <<a, b>> \o Ok = <<a, b, 79, 75, 13>>
  BY TwoAndThree DEF Ok
<1>3. /\ <<ch.R, COLON>> \o Ok = <<82, 58, 79, 75, 13>>
      /\ <<ch.T, COLON>> \o Ok = <<84, 58, 79, 75, 13>>
      /\ <<ch.B, COLON>> \o Ok = <<66, 58, 79, 75, 13>>
      /\ <<ch.U, COLON>> \o Ok = <<85, 58, 79, 75, 13>>
  BY <1>2
<1>4. /\ <<ch.D, ch.S, COLON>> \o Ok = <<68, 83, 58, 79, 75, 13>>
      /\ <<ch.P, ch.E, COLON>> \o Ok = <<80, 69, 58, 79, 75, 13>>
  BY ThreeAndThree DEF Ok
<1>. QED  BY <1>1, <1>3, <1>4

(* A transition, as a triple. *)
Fitting(t) == t = <<t[1], t[2], t[3]>> /\ Fits(t[1], t[2], t[3])

AllFit(transitions) == \A t \in transitions : Fitting(t)

LEMMA FitsAlong ==
  ASSUME NEW states, NEW inputs,
         \A i \in DOMAIN inputs : Fits(states[i], inputs[i], states[i + 1])
  PROVE  AllFit(Path(states, inputs))
BY DEF AllFit, Path, Fitting

LEMMA TransitionsFit == AllFit(Transitions)
<1> USE DEF Fits, Goes, Spells, Spelled, Behind, finiteStates, INPUT_ALL, LT, CR, COLON, ch
<1>s1. Fits(0, 60, 1)  BY SMTT(60)
<1>s2. Fits(1, 69, 2)  BY SMTT(60)
<1>s3. Fits(2, 82, 3)  BY SMTT(60)
<1>s4. Fits(3, 82, 4)  BY SMTT(60)
<1>s5. Fits(4, 13, 5)  BY SMTT(60)
<1>s6. Fits(1, 79, 6)  BY SMTT(60)
<1>s7. Fits(6, 75, 7)  BY SMTT(60)
<1>s8. Fits(7, 13, 8)  BY SMTT(60)
<1>s9. Fits(1, 82, 9)  BY SMTT(60)
<1>s10. Fits(9, 58, 10)  BY SMTT(60)
<1>s101. Fits(10, 79, 101)  BY SMTT(60)
<1>s102. Fits(101, 75, 102)  BY SMTT(60)
<1>s103. Fits(102, 13, 103)  BY SMTT(60)
<1>s11. Fits(9, 84, 11)  BY SMTT(60)
<1>s12. Fits(11, 58, 12)  BY SMTT(60)
<1>s13. Fits(12, 79, 13)  BY SMTT(60)
<1>s14. Fits(13, 75, 14)  BY SMTT(60)
<1>s15. Fits(14, 13, 15)  BY SMTT(60)
<1>s16. Fits(1, 73, 16)  BY SMTT(60)
<1>s17. Fits(16, 58, 17)  BY SMTT(60)
<1>s19. Fits(18, 13, 19)  BY SMTT(60)
<1>s20. Fits(16, 84, 20)  BY SMTT(60)
<1>s21. Fits(20, 58, 21)  BY SMTT(60)
<1>s23. Fits(22, 13, 23)  BY SMTT(60)
<1>s24. Fits(1, 66, 24)  BY SMTT(60)
<1>s25. Fits(24, 58, 25)  BY SMTT(60)
<1>s26. Fits(25, 79, 26)  BY SMTT(60)
<1>s27. Fits(26, 75, 27)  BY SMTT(60)
<1>s28. Fits(27, 13, 28)  BY SMTT(60)
<1>s29. Fits(1, 83, 29)  BY SMTT(60)
<1>s30. Fits(29, 58, 30)  BY SMTT(60)
<1>s31. Fits(30, 1000, 31)  BY SMTT(60)
<1>s32. Fits(31, 13, 32)  BY SMTT(60)
<1>s33. Fits(1, 68, 33)  BY SMTT(60)
<1>s34. Fits(33, 83, 34)  BY SMTT(60)
<1>s35. Fits(34, 58, 35)  BY SMTT(60)
<1>s36. Fits(35, 79, 36)  BY SMTT(60)
<1>s37. Fits(36, 75, 37)  BY SMTT(60)
<1>s38. Fits(37, 13, 38)  BY SMTT(60)
<1>s39. Fits(35, 69, 39)  BY SMTT(60)
<1>s40. Fits(39, 82, 40)  BY SMTT(60)
<1>s41. Fits(40, 82, 41)  BY SMTT(60)
<1>s42. Fits(41, 13, 42)  BY SMTT(60)
<1>s43. Fits(35, 66, 43)  BY SMTT(60)
<1>s44. Fits(43, 85, 44)  BY SMTT(60)
<1>s45. Fits(44, 83, 45)  BY SMTT(60)
<1>s46. Fits(45, 89, 46)  BY SMTT(60)
<1>s47. Fits(46, 13, 47)  BY SMTT(60)
<1>s48. Fits(33, 82, 48)  BY SMTT(60)
<1>s49. Fits(48, 1000, 49)  BY SMTT(60)
<1>s50. Fits(49, 58, 50)  BY SMTT(60)
<1>s52. Fits(51, 13, 52)  BY SMTT(60)
<1>s53. Fits(1, 85, 53)  BY SMTT(60)
<1>s54. Fits(53, 58, 54)  BY SMTT(60)
<1>s55. Fits(54, 79, 55)  BY SMTT(60)
<1>s56. Fits(55, 75, 56)  BY SMTT(60)
<1>s57. Fits(56, 13, 57)  BY SMTT(60)
<1>s58. Fits(1, 80, 58)  BY SMTT(60)
<1>s59. Fits(58, 69, 59)  BY SMTT(60)
<1>s60. Fits(59, 58, 60)  BY SMTT(60)
<1>s61. Fits(60, 79, 61)  BY SMTT(60)
<1>s62. Fits(61, 75, 62)  BY SMTT(60)
<1>s63. Fits(62, 13, 63)  BY SMTT(60)
<1>s64. Fits(60, 69, 64)  BY SMTT(60)
<1>s65. Fits(64, 82, 65)  BY SMTT(60)
<1>s66. Fits(65, 82, 66)  BY SMTT(60)
<1>s67. Fits(66, 49, 67)  BY SMTT(60)
<1>s68. Fits(67, 13, 68)  BY SMTT(60)
<1>s69. Fits(58, 84, 69)  BY SMTT(60)
<1>s70. Fits(69, 58, 70)  BY SMTT(60)
<1>s71. Fits(70, 79, 71)  BY SMTT(60)
<1>s72. Fits(71, 75, 72)  BY SMTT(60)
<1>s73. Fits(72, 13, 73)  BY SMTT(60)
<1>s74. Fits(70, 69, 74)  BY SMTT(60)
<1>s75. Fits(74, 82, 75)  BY SMTT(60)
<1>s76. Fits(75, 82, 76)  BY SMTT(60)
<1>s77. Fits(76, 49, 77)  BY SMTT(60)
<1>s78. Fits(77, 13, 78)  BY SMTT(60)
<1>s79. Fits(58, 77, 79)  BY SMTT(60)
<1>s95. Fits(79, 58, 95)  BY SMTT(60)
<1>s81. Fits(80, 79, 81)  BY SMTT(60)
<1>s82. Fits(81, 75, 82)  BY SMTT(60)
<1>s83. Fits(82, 13, 83)  BY SMTT(60)
<1>s84. Fits(80, 69, 84)  BY SMTT(60)
<1>s85. Fits(84, 82, 85)  BY SMTT(60)
<1>s86. Fits(85, 82, 86)  BY SMTT(60)
<1>s87a. Fits(86, 50, 87)  BY SMTT(60)
<1>s87b. Fits(86, 51, 87)  BY SMTT(60)
<1>s87c. Fits(86, 52, 87)  BY SMTT(60)
<1>s87d. Fits(86, 53, 87)  BY SMTT(60)
<1>s87e. Fits(86, 54, 87)  BY SMTT(60)
<1>s87f. Fits(86, 55, 87)  BY SMTT(60)
<1>s88. Fits(87, 13, 88)  BY SMTT(60)
<1>s89. Fits(80, 66, 89)  BY SMTT(60)
<1>s90. Fits(89, 85, 90)  BY SMTT(60)
<1>s91. Fits(90, 83, 91)  BY SMTT(60)
<1>s92. Fits(91, 89, 92)  BY SMTT(60)
<1>s93. Fits(92, 13, 93)  BY SMTT(60)
<1>s97. Fits(96, 13, 97)  BY SMTT(60)
<1> HIDE DEF Fits, Spells, Spelled, Behind, finiteStates, INPUT_ALL
<1>1. /\ Err \o <<CR>> = <<69, 82, 82, 13>>
      /\ Err1 = <<69, 82, 82, 49, 13>>
  BY Inputs
<1>3. /\ <<ch.R, COLON>> \o Ok = <<82, 58, 79, 75, 13>>
      /\ <<ch.T, COLON>> \o Ok = <<84, 58, 79, 75, 13>>
      /\ <<ch.B, COLON>> \o Ok = <<66, 58, 79, 75, 13>>
      /\ <<ch.U, COLON>> \o Ok = <<85, 58, 79, 75, 13>>
  BY Inputs
<1>4. /\ <<ch.D, ch.S, COLON>> \o Ok = <<68, 83, 58, 79, 75, 13>>
      /\ <<ch.P, ch.E, COLON>> \o Ok = <<80, 69, 58, 79, 75, 13>>
  BY Inputs
<1> HIDE DEF LT, CR, COLON, ch
<1>5. AllFit(Path(<<0, 1>>, <<LT>>))
  <2>1. <<LT>> = <<60>>
    BY DEF LT
  <2>2. AllFit(Path(<<0, 1>>, <<60>>))
    BY <1>s1, FitsAlong
  <2>. QED  BY <2>1, <2>2
<1>6. AllFit(Path(<<1, 2, 3, 4, 5>>, Err \o <<CR>>))
  <2>1. AllFit(Path(<<1, 2, 3, 4, 5>>, <<69, 82, 82, 13>>))
    BY <1>s2, <1>s3, <1>s4, <1>s5, FitsAlong
  <2>. QED  BY <1>1, <2>1
<1>7. AllFit(Path(<<1, 6, 7, 8>>, Ok))
  <2>1. Ok = <<79, 75, 13>>
    BY DEF Ok, CR, ch
  <2>2. AllFit(Path(<<1, 6, 7, 8>>, <<79, 75, 13>>))
    BY <1>s6, <1>s7, <1>s8, FitsAlong
  <2>. QED  BY <2>1, <2>2
<1>8. AllFit(Path(<<1, 9, 10, 101, 102, 103>>, <<ch.R, COLON>> \o Ok))
  <2>1. AllFit(Path(<<1, 9, 10, 101, 102, 103>>, <<82, 58, 79, 75, 13>>))
    BY <1>s9, <1>s10, <1>s101, <1>s102, <1>s103, FitsAlong
  <2>. QED  BY <1>3, <2>1
<1>9. AllFit(Path(<<9, 11, 12, 13, 14, 15>>, <<ch.T, COLON>> \o Ok))
  <2>1. AllFit(Path(<<9, 11, 12, 13, 14, 15>>, <<84, 58, 79, 75, 13>>))
    BY <1>s11, <1>s12, <1>s13, <1>s14, <1>s15, FitsAlong
  <2>. QED  BY <1>3, <2>1
<1>10. AllFit(Path(<<1, 16, 17>>, <<ch.I, COLON>>))
  <2>1. <<ch.I, COLON>> = <<73, 58>>
    BY DEF COLON, ch
  <2>2. AllFit(Path(<<1, 16, 17>>, <<73, 58>>))
    BY <1>s16, <1>s17, FitsAlong
  <2>. QED  BY <2>1, <2>2
<1>11. AllFit(Path(<<18, 19>>, <<CR>>))
  <2>1. <<CR>> = <<13>>
    BY DEF CR
  <2>2. AllFit(Path(<<18, 19>>, <<13>>))
    BY <1>s19, FitsAlong
  <2>. QED  BY <2>1, <2>2
<1>12. AllFit(Path(<<16, 20, 21>>, <<ch.T, COLON>>))
  <2>1. <<ch.T, COLON>> = <<84, 58>>
    BY DEF COLON, ch
  <2>2. AllFit(Path(<<16, 20, 21>>, <<84, 58>>))
    BY <1>s20, <1>s21, FitsAlong
  <2>. QED  BY <2>1, <2>2
<1>13. AllFit(Path(<<22, 23>>, <<CR>>))
  <2>1. <<CR>> = <<13>>
    BY DEF CR
  <2>2. AllFit(Path(<<22, 23>>, <<13>>))
    BY <1>s23, FitsAlong
  <2>. QED  BY <2>1, <2>2
<1>14. AllFit(Path(<<1, 24, 25, 26, 27, 28>>, <<ch.B, COLON>> \o Ok))
  <2>1. AllFit(Path(<<1, 24, 25, 26, 27, 28>>, <<66, 58, 79, 75, 13>>))
    BY <1>s24, <1>s25, <1>s26, <1>s27, <1>s28, FitsAlong
  <2>. QED  BY <1>3, <2>1
<1>15. AllFit(Path(<<1, 29, 30, 31, 32>>, <<ch.S, COLON, INPUT_ALL, CR>>))
  <2>1. <<ch.S, COLON, INPUT_ALL, CR>> = <<83, 58, 1000, 13>>
    BY DEF CR, COLON, INPUT_ALL, ch
  <2>2. AllFit(Path(<<1, 29, 30, 31, 32>>, <<83, 58, 1000, 13>>))
    BY <1>s29, <1>s30, <1>s31, <1>s32, FitsAlong
  <2>. QED  BY <2>1, <2>2
<1>16. AllFit(Path(<<1, 33, 34, 35, 36, 37, 38>>, <<ch.D, ch.S, COLON>> \o Ok))
  <2>1. AllFit(Path(<<1, 33, 34, 35, 36, 37, 38>>, <<68, 83, 58, 79, 75, 13>>))
    BY <1>s33, <1>s34, <1>s35, <1>s36, <1>s37, <1>s38, FitsAlong
  <2>. QED  BY <1>4, <2>1
<1>17. AllFit(Path(<<35, 39, 40, 41, 42>>, Err \o <<CR>>))
  <2>1. AllFit(Path(<<35, 39, 40, 41, 42>>, <<69, 82, 82, 13>>))
    BY <1>s39, <1>s40, <1>s41, <1>s42, FitsAlong
  <2>. QED  BY <1>1, <2>1
<1>18. AllFit(Path(<<35, 43, 44, 45, 46, 47>>, Busy))
  <2>1. Busy = <<66, 85, 83, 89, 13>>
    BY DEF Busy, CR, ch
  <2>2. AllFit(Path(<<35, 43, 44, 45, 46, 47>>, <<66, 85, 83, 89, 13>>))
    BY <1>s43, <1>s44, <1>s45, <1>s46, <1>s47, FitsAlong
  <2>. QED  BY <2>1, <2>2
<1>19. AllFit(Path(<<33, 48, 49, 50>>, <<ch.R, INPUT_ALL, COLON>>))
  <2>1. <<ch.R, INPUT_ALL, COLON>> = <<82, 1000, 58>>
    BY DEF COLON, INPUT_ALL, ch
  <2>2. AllFit(Path(<<33, 48, 49, 50>>, <<82, 1000, 58>>))
    BY <1>s48, <1>s49, <1>s50, FitsAlong
  <2>. QED  BY <2>1, <2>2
<1>20. AllFit(Path(<<51, 52>>, <<CR>>))
  <2>1. <<CR>> = <<13>>
    BY DEF CR
  <2>2. AllFit(Path(<<51, 52>>, <<13>>))
    BY <1>s52, FitsAlong
  <2>. QED  BY <2>1, <2>2
<1>21. AllFit(Path(<<1, 53, 54, 55, 56, 57>>, <<ch.U, COLON>> \o Ok))
  <2>1. AllFit(Path(<<1, 53, 54, 55, 56, 57>>, <<85, 58, 79, 75, 13>>))
    BY <1>s53, <1>s54, <1>s55, <1>s56, <1>s57, FitsAlong
  <2>. QED  BY <1>3, <2>1
<1>22. AllFit(Path(<<1, 58, 59, 60, 61, 62, 63>>, <<ch.P, ch.E, COLON>> \o Ok))
  <2>1. AllFit(Path(<<1, 58, 59, 60, 61, 62, 63>>, <<80, 69, 58, 79, 75, 13>>))
    BY <1>s58, <1>s59, <1>s60, <1>s61, <1>s62, <1>s63, FitsAlong
  <2>. QED  BY <1>4, <2>1
<1>23. AllFit(Path(<<60, 64, 65, 66, 67, 68>>, Err1))
  <2>1. AllFit(Path(<<60, 64, 65, 66, 67, 68>>, <<69, 82, 82, 49, 13>>))
    BY <1>s64, <1>s65, <1>s66, <1>s67, <1>s68, FitsAlong
  <2>. QED  BY <1>1, <2>1
<1>24. AllFit(Path(<<58, 69, 70, 71, 72, 73>>, <<ch.T, COLON>> \o Ok))
  <2>1. AllFit(Path(<<58, 69, 70, 71, 72, 73>>, <<84, 58, 79, 75, 13>>))
    BY <1>s69, <1>s70, <1>s71, <1>s72, <1>s73, FitsAlong
  <2>. QED  BY <1>3, <2>1
<1>25. AllFit(Path(<<70, 74, 75, 76, 77, 78>>, Err1))
  <2>1. AllFit(Path(<<70, 74, 75, 76, 77, 78>>, <<69, 82, 82, 49, 13>>))
    BY <1>s74, <1>s75, <1>s76, <1>s77, <1>s78, FitsAlong
  <2>. QED  BY <1>1, <2>1
<1>26. AllFit(Path(<<58, 79, 95>>, <<ch.M, COLON>>))
  <2>1. <<ch.M, COLON>> = <<77, 58>>
    BY DEF COLON, ch
  <2>2. AllFit(Path(<<58, 79, 95>>, <<77, 58>>))
    BY <1>s79, <1>s95, FitsAlong
  <2>. QED  BY <2>1, <2>2
<1>27. AllFit(Path(<<80, 81, 82, 83>>, Ok))
  <2>1. Ok = <<79, 75, 13>>
    BY DEF Ok, CR, ch
  <2>2. AllFit(Path(<<80, 81, 82, 83>>, <<79, 75, 13>>))
    BY <1>s81, <1>s82, <1>s83, FitsAlong
  <2>. QED  BY <2>1, <2>2
<1>28. AllFit(Path(<<80, 84, 85, 86>>, Err))
  <2>1. Err = <<69, 82, 82>>
    BY DEF Err, ch
  <2>2. AllFit(Path(<<80, 84, 85, 86>>, <<69, 82, 82>>))
    BY <1>s84, <1>s85, <1>s86, FitsAlong
  <2>. QED  BY <2>1, <2>2
<1>29. AllFit({<<86, d, 87>> : d \in 50..55})
  BY <1>s87a, <1>s87b, <1>s87c, <1>s87d, <1>s87e, <1>s87f DEF AllFit, Fitting
<1>30. AllFit(Path(<<87, 88>>, <<CR>>))
  <2>1. <<CR>> = <<13>>
    BY DEF CR
  <2>2. AllFit(Path(<<87, 88>>, <<13>>))
    BY <1>s88, FitsAlong
  <2>. QED  BY <2>1, <2>2
<1>31. AllFit(Path(<<80, 89, 90, 91, 92, 93>>, Busy))
  <2>1. Busy = <<66, 85, 83, 89, 13>>
    BY DEF Busy, CR, ch
  <2>2. AllFit(Path(<<80, 89, 90, 91, 92, 93>>, <<66, 85, 83, 89, 13>>))
    BY <1>s89, <1>s90, <1>s91, <1>s92, <1>s93, FitsAlong
  <2>. QED  BY <2>1, <2>2
<1>32. AllFit(Path(<<96, 97>>, <<CR>>))
  <2>1. <<CR>> = <<13>>
    BY DEF CR
  <2>2. AllFit(Path(<<96, 97>>, <<13>>))
    BY <1>s97, FitsAlong
  <2>. QED  BY <2>1, <2>2
<1>33. ASSUME NEW paths \in {
  Path(<<0, 1>>, <<LT>>),
  Path(<<1, 2, 3, 4, 5>>, Err \o <<CR>>),
  Path(<<1, 6, 7, 8>>, Ok),
  Path(<<1, 9, 10, 101, 102, 103>>, <<ch.R, COLON>> \o Ok),
  Path(<<9, 11, 12, 13, 14, 15>>, <<ch.T, COLON>> \o Ok),
  Path(<<1, 16, 17>>, <<ch.I, COLON>>),                 Path(<<18, 19>>, <<CR>>),
  Path(<<16, 20, 21>>, <<ch.T, COLON>>),                Path(<<22, 23>>, <<CR>>),
  Path(<<1, 24, 25, 26, 27, 28>>, <<ch.B, COLON>> \o Ok),
  Path(<<1, 29, 30, 31, 32>>, <<ch.S, COLON, INPUT_ALL, CR>>),
  Path(<<1, 33, 34, 35, 36, 37, 38>>, <<ch.D, ch.S, COLON>> \o Ok),
  Path(<<35, 39, 40, 41, 42>>, Err \o <<CR>>),
  Path(<<35, 43, 44, 45, 46, 47>>, Busy),
  Path(<<33, 48, 49, 50>>, <<ch.R, INPUT_ALL, COLON>>), Path(<<51, 52>>, <<CR>>),
  Path(<<1, 53, 54, 55, 56, 57>>, <<ch.U, COLON>> \o Ok),
  Path(<<1, 58, 59, 60, 61, 62, 63>>, <<ch.P, ch.E, COLON>> \o Ok),
  Path(<<60, 64, 65, 66, 67, 68>>, Err1),
  Path(<<58, 69, 70, 71, 72, 73>>, <<ch.T, COLON>> \o Ok),
  Path(<<70, 74, 75, 76, 77, 78>>, Err1),
  Path(<<58, 79, 95>>, <<ch.M, COLON>>),
  Path(<<80, 81, 82, 83>>, Ok),
  Path(<<80, 84, 85, 86>>, Err), {<<86, d, 87>> : d \in 50..55}, Path(<<87, 88>>, <<CR>>),
  Path(<<80, 89, 90, 91, 92, 93>>, Busy),
  Path(<<96, 97>>, <<CR>>) }
       PROVE  AllFit(paths)
  <2>1. CASE paths = {<<86, d, 87>> : d \in 50..55}
    BY <1>29, <2>1
  <2>2. CASE paths # {<<86, d, 87>> : d \in 50..55}
    BY <1>5, <1>6, <1>7, <1>8, <1>9, <1>10, <1>11, <1>12, <1>13, <1>14, <1>15,
       <1>16, <1>17, <1>18, <1>19, <1>20, <1>21, <1>22, <1>23, <1>24, <1>25,
       <1>26, <1>27, <1>28, <1>30, <1>31, <1>32, <2>2
  <2>. QED  BY <2>1, <2>2
<1>. QED  BY <1>33, ZenonT(60) DEF Transitions, AllFit

-----------------------------------------------------------------------------
(* The automaton, run backwards.                                           *)

(* A state was entered from one without a procedure of its own, which the  *)
(* bytes before the last spell.                                            *)
EntersWith(from, input, to, data, pos) ==
  /\ pos > 0 /\ input \in {data[pos], INPUT_ALL} /\ Spells(data, from, pos - 1)
  /\ from \in Spelled /\ from \notin finiteStates /\ from \notin specialStates
  /\ from \in {30, 48} <=> input = INPUT_ALL

Entered(state) ==
  \A data \in Seq(Nat), pos \in Nat : Spells(data, state, pos) =>
    \E from, input : /\ <<from, input, state>> \in Transitions
                     /\ EntersWith(from, input, state, data, pos)

(* The transition is the only one into its state. *)
Undoes(from, input, to) ==
  \A data \in Seq(Nat), pos \in Nat :
    Spells(data, to, pos) => EntersWith(from, input, to, data, pos)

LEMMA EnteredAlong ==
  ASSUME NEW states, NEW inputs, Path(states, inputs) \subseteq Transitions,
         \A i \in DOMAIN inputs : Undoes(states[i], inputs[i], states[i + 1])
  PROVE  \A i \in DOMAIN inputs : Entered(states[i + 1])
<1> SUFFICES ASSUME NEW i \in DOMAIN inputs, NEW data \in Seq(Nat), NEW pos \in Nat,
                    Spells(data, states[i + 1], pos)
             PROVE  \E from, input : /\ <<from, input, states[i + 1]>> \in Transitions
                                     /\ EntersWith(from, input, states[i + 1], data, pos)
  BY DEF Entered
<1>1. <<states[i], inputs[i], states[i + 1]>> \in Transitions
  BY DEF Path
<1>2. EntersWith(states[i], inputs[i], states[i + 1], data, pos)
  BY DEF Undoes
<1>. QED  BY <1>1, <1>2

(* The states that a transition leads to, but for those behind the special *)
(* states.                                                                 *)
Walked == Spelled \ {0, 80}

LEMMA StatesEntered == \A state \in Walked : Entered(state)
<1> USE DEF Undoes, EntersWith, Spells, Spelled, finiteStates, specialStates, INPUT_ALL,
            LT, CR, COLON, ch
<1>s1. Undoes(0, 60, 1)  BY SMTT(60)
<1>s2. Undoes(1, 69, 2)  BY SMTT(60)
<1>s3. Undoes(2, 82, 3)  BY SMTT(60)
<1>s4. Undoes(3, 82, 4)  BY SMTT(60)
<1>s5. Undoes(4, 13, 5)  BY SMTT(60)
<1>s6. Undoes(1, 79, 6)  BY SMTT(60)
<1>s7. Undoes(6, 75, 7)  BY SMTT(60)
<1>s8. Undoes(7, 13, 8)  BY SMTT(60)
<1>s9. Undoes(1, 82, 9)  BY SMTT(60)
<1>s10. Undoes(9, 58, 10)  BY SMTT(60)
<1>s101. Undoes(10, 79, 101)  BY SMTT(60)
<1>s102. Undoes(101, 75, 102)  BY SMTT(60)
<1>s103. Undoes(102, 13, 103)  BY SMTT(60)
<1>s11. Undoes(9, 84, 11)  BY SMTT(60)
<1>s12. Undoes(11, 58, 12)  BY SMTT(60)
<1>s13. Undoes(12, 79, 13)  BY SMTT(60)
<1>s14. Undoes(13, 75, 14)  BY SMTT(60)
<1>s15. Undoes(14, 13, 15)  BY SMTT(60)
<1>s16. Undoes(1, 73, 16)  BY SMTT(60)
<1>s17. Undoes(16, 58, 17)  BY SMTT(60)
<1>s20. Undoes(16, 84, 20)  BY SMTT(60)
<1>s21. Undoes(20, 58, 21)  BY SMTT(60)
<1>s24. Undoes(1, 66, 24)  BY SMTT(60)
<1>s25. Undoes(24, 58, 25)  BY SMTT(60)
<1>s26. Undoes(25, 79, 26)  BY SMTT(60)
<1>s27. Undoes(26, 75, 27)  BY SMTT(60)
<1>s28. Undoes(27, 13, 28)  BY SMTT(60)
<1>s29. Undoes(1, 83, 29)  BY SMTT(60)
<1>s30. Undoes(29, 58, 30)  BY SMTT(60)
<1>s31. Undoes(30, 1000, 31)  BY SMTT(60)
<1>s32. Undoes(31, 13, 32)  BY SMTT(60)
<1>s33. Undoes(1, 68, 33)  BY SMTT(60)
<1>s34. Undoes(33, 83, 34)  BY SMTT(60)
<1>s35. Undoes(34, 58, 35)  BY SMTT(60)
<1>s36. Undoes(35, 79, 36)  BY SMTT(60)
<1>s37. Undoes(36, 75, 37)  BY SMTT(60)
<1>s38. Undoes(37, 13, 38)  BY SMTT(60)
<1>s39. Undoes(35, 69, 39)  BY SMTT(60)
<1>s40. Undoes(39, 82, 40)  BY SMTT(60)
<1>s41. Undoes(40, 82, 41)  BY SMTT(60)
<1>s42. Undoes(41, 13, 42)  BY SMTT(60)
<1>s43. Undoes(35, 66, 43)  BY SMTT(60)
<1>s44. Undoes(43, 85, 44)  BY SMTT(60)
<1>s45. Undoes(44, 83, 45)  BY SMTT(60)
<1>s46. Undoes(45, 89, 46)  BY SMTT(60)
<1>s47. Undoes(46, 13, 47)  BY SMTT(60)
<1>s48. Undoes(33, 82, 48)  BY SMTT(60)
<1>s49. Undoes(48, 1000, 49)  BY SMTT(60)
<1>s50. Undoes(49, 58, 50)  BY SMTT(60)
<1>s53. Undoes(1, 85, 53)  BY SMTT(60)
<1>s54. Undoes(53, 58, 54)  BY SMTT(60)
<1>s55. Undoes(54, 79, 55)  BY SMTT(60)
<1>s56. Undoes(55, 75, 56)  BY SMTT(60)
<1>s57. Undoes(56, 13, 57)  BY SMTT(60)
<1>s58. Undoes(1, 80, 58)  BY SMTT(60)
<1>s59. Undoes(58, 69, 59)  BY SMTT(60)
<1>s60. Undoes(59, 58, 60)  BY SMTT(60)
<1>s61. Undoes(60, 79, 61)  BY SMTT(60)
<1>s62. Undoes(61, 75, 62)  BY SMTT(60)
<1>s63. Undoes(62, 13, 63)  BY SMTT(60)
<1>s64. Undoes(60, 69, 64)  BY SMTT(60)
<1>s65. Undoes(64, 82, 65)  BY SMTT(60)
<1>s66. Undoes(65, 82, 66)  BY SMTT(60)
<1>s67. Undoes(66, 49, 67)  BY SMTT(60)
<1>s68. Undoes(67, 13, 68)  BY SMTT(60)
<1>s69. Undoes(58, 84, 69)  BY SMTT(60)
<1>s70. Undoes(69, 58, 70)  BY SMTT(60)
<1>s71. Undoes(70, 79, 71)  BY SMTT(60)
<1>s72. Undoes(71, 75, 72)  BY SMTT(60)
<1>s73. Undoes(72, 13, 73)  BY SMTT(60)
<1>s74. Undoes(70, 69, 74)  BY SMTT(60)
<1>s75. Undoes(74, 82, 75)  BY SMTT(60)
<1>s76. Undoes(75, 82, 76)  BY SMTT(60)
<1>s77. Undoes(76, 49, 77)  BY SMTT(60)
<1>s78. Undoes(77, 13, 78)  BY SMTT(60)
<1>s79. Undoes(58, 77, 79)  BY SMTT(60)
<1>s95. Undoes(79, 58, 95)  BY SMTT(60)
<1>s81. Undoes(80, 79, 81)  BY SMTT(60)
<1>s82. Undoes(81, 75, 82)  BY SMTT(60)
<1>s83. Undoes(82, 13, 83)  BY SMTT(60)
<1>s84. Undoes(80, 69, 84)  BY SMTT(60)
<1>s85. Undoes(84, 82, 85)  BY SMTT(60)
<1>s86. Undoes(85, 82, 86)  BY SMTT(60)
<1>s88. Undoes(87, 13, 88)  BY SMTT(60)
<1>s89. Undoes(80, 66, 89)  BY SMTT(60)
<1>s90. Undoes(89, 85, 90)  BY SMTT(60)
<1>s91. Undoes(90, 83, 91)  BY SMTT(60)
<1>s92. Undoes(91, 89, 92)  BY SMTT(60)
<1>s93. Undoes(92, 13, 93)  BY SMTT(60)
<1>s87. ASSUME NEW data \in Seq(Nat), NEW pos \in Nat, Spells(data, 87, pos)
        PROVE  data[pos] \in 50..55 /\ EntersWith(86, data[pos], 87, data, pos)
  BY <1>s87, SMTT(60)
<1> HIDE DEF Undoes, EntersWith, Spells, Spelled, finiteStates, specialStates, INPUT_ALL,
             LT, CR, COLON, ch
<1>1. Entered(1)
  <2>1. <<LT>> = <<60>>
    BY DEF LT
  <2>2. Path(<<0, 1>>, <<LT>>) \subseteq Transitions
    BY ZenonT(60) DEF Transitions
  <2>3. Path(<<0, 1>>, <<60>>) \subseteq Transitions
    BY <2>1, <2>2, ZenonT(60)
  <2>4. \A i \in DOMAIN <<60>> : Entered(<<0, 1>>[i + 1])
    BY <2>3, <1>s1, EnteredAlong
  <2>. QED  BY <2>4
<1>2. Entered(2) /\ Entered(3) /\ Entered(4) /\ Entered(5)
  <2>1. Err \o <<CR>> = <<69, 82, 82, 13>>
    BY Inputs
  <2>2. Path(<<1, 2, 3, 4, 5>>, Err \o <<CR>>) \subseteq Transitions
    BY ZenonT(60) DEF Transitions
  <2>3. Path(<<1, 2, 3, 4, 5>>, <<69, 82, 82, 13>>) \subseteq Transitions
    BY <2>1, <2>2, ZenonT(60)
  <2>4. \A i \in DOMAIN <<69, 82, 82, 13>> : Entered(<<1, 2, 3, 4, 5>>[i + 1])
    BY <2>3, <1>s2, <1>s3, <1>s4, <1>s5, EnteredAlong
  <2>. QED  BY <2>4
<1>3. Entered(6) /\ Entered(7) /\ Entered(8)
  <2>1. Ok = <<79, 75, 13>>
    BY DEF Ok, CR, ch
  <2>2. Path(<<1, 6, 7, 8>>, Ok) \subseteq Transitions
    BY ZenonT(60) DEF Transitions
  <2>3. Path(<<1, 6, 7, 8>>, <<79, 75, 13>>) \subseteq Transitions
    BY <2>1, <2>2, ZenonT(60)
  <2>4. \A i \in DOMAIN <<79, 75, 13>> : Entered(<<1, 6, 7, 8>>[i + 1])
    BY <2>3, <1>s6, <1>s7, <1>s8, EnteredAlong
  <2>. QED  BY <2>4
<1>4. Entered(9) /\ Entered(10) /\ Entered(101) /\ Entered(102) /\ Entered(103)
  <2>1. <<ch.R, COLON>> \o Ok = <<82, 58, 79, 75, 13>>
    BY Inputs
  <2>2. Path(<<1, 9, 10, 101, 102, 103>>, <<ch.R, COLON>> \o Ok) \subseteq Transitions
    BY ZenonT(60) DEF Transitions
  <2>3. Path(<<1, 9, 10, 101, 102, 103>>, <<82, 58, 79, 75, 13>>) \subseteq Transitions
    BY <2>1, <2>2, ZenonT(60)
  <2>4. \A i \in DOMAIN <<82, 58, 79, 75, 13>> : Entered(<<1, 9, 10, 101, 102, 103>>[i + 1])
    BY <2>3, <1>s9, <1>s10, <1>s101, <1>s102, <1>s103, EnteredAlong
  <2>. QED  BY <2>4
<1>5. Entered(11) /\ Entered(12) /\ Entered(13) /\ Entered(14) /\ Entered(15)
  <2>1. <<ch.T, COLON>> \o Ok = <<84, 58, 79, 75, 13>>
    BY Inputs
  <2>2. Path(<<9, 11, 12, 13, 14, 15>>, <<ch.T, COLON>> \o Ok) \subseteq Transitions
    BY ZenonT(60) DEF Transitions
  <2>3. Path(<<9, 11, 12, 13, 14, 15>>, <<84, 58, 79, 75, 13>>) \subseteq Transitions
    BY <2>1, <2>2, ZenonT(60)
  <2>4. \A i \in DOMAIN <<84, 58, 79, 75, 13>> : Entered(<<9, 11, 12, 13, 14, 15>>[i + 1])
    BY <2>3, <1>s11, <1>s12, <1>s13, <1>s14, <1>s15, EnteredAlong
  <2>. QED  BY <2>4
<1>6. Entered(16) /\ Entered(17)
  <2>1. <<ch.I, COLON>> = <<73, 58>>
    BY DEF COLON, ch
  <2>2. Path(<<1, 16, 17>>, <<ch.I, COLON>>) \subseteq Transitions
    BY ZenonT(60) DEF Transitions
  <2>3. Path(<<1, 16, 17>>, <<73, 58>>) \subseteq Transitions
    BY <2>1, <2>2, ZenonT(60)
  <2>4. \A i \in DOMAIN <<73, 58>> : Entered(<<1, 16, 17>>[i + 1])
    BY <2>3, <1>s16, <1>s17, EnteredAlong
  <2>. QED  BY <2>4
<1>7. Entered(20) /\ Entered(21)
  <2>1. <<ch.T, COLON>> = <<84, 58>>
    BY DEF COLON, ch
  <2>2. Path(<<16, 20, 21>>, <<ch.T, COLON>>) \subseteq Transitions
    BY ZenonT(60) DEF Transitions
  <2>3. Path(<<16, 20, 21>>, <<84, 58>>) \subseteq Transitions
    BY <2>1, <2>2, ZenonT(60)
  <2>4. \A i \in DOMAIN <<84, 58>> : Entered(<<16, 20, 21>>[i + 1])
    BY <2>3, <1>s20, <1>s21, EnteredAlong
  <2>. QED  BY <2>4
<1>8. Entered(24) /\ Entered(25) /\ Entered(26) /\ Entered(27) /\ Entered(28)
  <2>1. <<ch.B, COLON>> \o Ok = <<66, 58, 79, 75, 13>>
    BY Inputs
  <2>2. Path(<<1, 24, 25, 26, 27, 28>>, <<ch.B, COLON>> \o Ok) \subseteq Transitions
    BY ZenonT(60) DEF Transitions
  <2>3. Path(<<1, 24, 25, 26, 27, 28>>, <<66, 58, 79, 75, 13>>) \subseteq Transitions
    BY <2>1, <2>2, ZenonT(60)
  <2>4. \A i \in DOMAIN <<66, 58, 79, 75, 13>> : Entered(<<1, 24, 25, 26, 27, 28>>[i + 1])
    BY <2>3, <1>s24, <1>s25, <1>s26, <1>s27, <1>s28, EnteredAlong
  <2>. QED  BY <2>4
<1>9. Entered(29) /\ Entered(30) /\ Entered(31) /\ Entered(32)
  <2>1. <<ch.S, COLON, INPUT_ALL, CR>> = <<83, 58, 1000, 13>>
    BY DEF COLON, ch, INPUT_ALL, CR
  <2>2. Path(<<1, 29, 30, 31, 32>>, <<ch.S, COLON, INPUT_ALL, CR>>) \subseteq Transitions
    BY ZenonT(60) DEF Transitions
  <2>3. Path(<<1, 29, 30, 31, 32>>, <<83, 58, 1000, 13>>) \subseteq Transitions
    BY <2>1, <2>2, ZenonT(60)
  <2>4. \A i \in DOMAIN <<83, 58, 1000, 13>> : Entered(<<1, 29, 30, 31, 32>>[i + 1])
    BY <2>3, <1>s29, <1>s30, <1>s31, <1>s32, EnteredAlong
  <2>. QED  BY <2>4
<1>10. Entered(33) /\ Entered(34) /\ Entered(35) /\ Entered(36) /\ Entered(37) /\ Entered(38)
  <2>1. <<ch.D, ch.S, COLON>> \o Ok = <<68, 83, 58, 79, 75, 13>>
    BY Inputs
  <2>2. Path(<<1, 33, 34, 35, 36, 37, 38>>, <<ch.D, ch.S, COLON>> \o Ok) \subseteq Transitions
    BY ZenonT(60) DEF Transitions
  <2>3. Path(<<1, 33, 34, 35, 36, 37, 38>>, <<68, 83, 58, 79, 75, 13>>) \subseteq Transitions
    BY <2>1, <2>2, ZenonT(60)
  <2>4. \A i \in DOMAIN <<68, 83, 58, 79, 75, 13>> : Entered(<<1, 33, 34, 35, 36, 37, 38>>[i + 1])
    BY <2>3, <1>s33, <1>s34, <1>s35, <1>s36, <1>s37, <1>s38, EnteredAlong
  <2>. QED  BY <2>4
<1>11. Entered(39) /\ Entered(40) /\ Entered(41) /\ Entered(42)
  <2>1. Err \o <<CR>> = <<69, 82, 82, 13>>
    BY Inputs
  <2>2. Path(<<35, 39, 40, 41, 42>>, Err \o <<CR>>) \subseteq Transitions
    BY ZenonT(60) DEF Transitions
  <2>3. Path(<<35, 39, 40, 41, 42>>, <<69, 82, 82, 13>>) \subseteq Transitions
    BY <2>1, <2>2, ZenonT(60)
  <2>4. \A i \in DOMAIN <<69, 82, 82, 13>> : Entered(<<35, 39, 40, 41, 42>>[i + 1])
    BY <2>3, <1>s39, <1>s40, <1>s41, <1>s42, EnteredAlong
  <2>. QED  BY <2>4
<1>12. Entered(43) /\ Entered(44) /\ Entered(45) /\ Entered(46) /\ Entered(47)
  <2>1. Busy = <<66, 85, 83, 89, 13>>
    BY DEF Busy, CR, ch
  <2>2. Path(<<35, 43, 44, 45, 46, 47>>, Busy) \subseteq Transitions
    BY ZenonT(60) DEF Transitions
  <2>3. Path(<<35, 43, 44, 45, 46, 47>>, <<66, 85, 83, 89, 13>>) \subseteq Transitions
    BY <2>1, <2>2, ZenonT(60)
  <2>4. \A i \in DOMAIN <<66, 85, 83, 89, 13>> : Entered(<<35, 43, 44, 45, 46, 47>>[i + 1])
    BY <2>3, <1>s43, <1>s44, <1>s45, <1>s46, <1>s47, EnteredAlong
  <2>. QED  BY <2>4
<1>13. Entered(48) /\ Entered(49) /\ Entered(50)
  <2>1. <<ch.R, INPUT_ALL, COLON>> = <<82, 1000, 58>>
    BY DEF COLON, ch, INPUT_ALL
  <2>2. Path(<<33, 48, 49, 50>>, <<ch.R, INPUT_ALL, COLON>>) \subseteq Transitions
    BY ZenonT(60) DEF Transitions
  <2>3. Path(<<33, 48, 49, 50>>, <<82, 1000, 58>>) \subseteq Transitions
    BY <2>1, <2>2, ZenonT(60)
  <2>4. \A i \in DOMAIN <<82, 1000, 58>> : Entered(<<33, 48, 49, 50>>[i + 1])
    BY <2>3, <1>s48, <1>s49, <1>s50, EnteredAlong
  <2>. QED  BY <2>4
<1>14. Entered(53) /\ Entered(54) /\ Entered(55) /\ Entered(56) /\ Entered(57)
  <2>1. <<ch.U, COLON>> \o Ok = <<85, 58, 79, 75, 13>>
    BY Inputs
  <2>2. Path(<<1, 53, 54, 55, 56, 57>>, <<ch.U, COLON>> \o Ok) \subseteq Transitions
    BY ZenonT(60) DEF Transitions
  <2>3. Path(<<1, 53, 54, 55, 56, 57>>, <<85, 58, 79, 75, 13>>) \subseteq Transitions
    BY <2>1, <2>2, ZenonT(60)
  <2>4. \A i \in DOMAIN <<85, 58, 79, 75, 13>> : Entered(<<1, 53, 54, 55, 56, 57>>[i + 1])
    BY <2>3, <1>s53, <1>s54, <1>s55, <1>s56, <1>s57, EnteredAlong
  <2>. QED  BY <2>4
<1>15. Entered(58) /\ Entered(59) /\ Entered(60) /\ Entered(61) /\ Entered(62) /\ Entered(63)
  <2>1. <<ch.P, ch.E, COLON>> \o Ok = <<80, 69, 58, 79, 75, 13>>
    BY Inputs
  <2>2. Path(<<1, 58, 59, 60, 61, 62, 63>>, <<ch.P, ch.E, COLON>> \o Ok) \subseteq Transitions
    BY ZenonT(60) DEF Transitions
  <2>3. Path(<<1, 58, 59, 60, 61, 62, 63>>, <<80, 69, 58, 79, 75, 13>>) \subseteq Transitions
    BY <2>1, <2>2, ZenonT(60)
  <2>4. \A i \in DOMAIN <<80, 69, 58, 79, 75, 13>> : Entered(<<1, 58, 59, 60, 61, 62, 63>>[i + 1])
    BY <2>3, <1>s58, <1>s59, <1>s60, <1>s61, <1>s62, <1>s63, EnteredAlong
  <2>. QED  BY <2>4
<1>16. Entered(64) /\ Entered(65) /\ Entered(66) /\ Entered(67) /\ Entered(68)
  <2>1. Err1 = <<69, 82, 82, 49, 13>>
    BY Inputs
  <2>2. Path(<<60, 64, 65, 66, 67, 68>>, Err1) \subseteq Transitions
    BY ZenonT(60) DEF Transitions
  <2>3. Path(<<60, 64, 65, 66, 67, 68>>, <<69, 82, 82, 49, 13>>) \subseteq Transitions
    BY <2>1, <2>2, ZenonT(60)
  <2>4. \A i \in DOMAIN <<69, 82, 82, 49, 13>> : Entered(<<60, 64, 65, 66, 67, 68>>[i + 1])
    BY <2>3, <1>s64, <1>s65, <1>s66, <1>s67, <1>s68, EnteredAlong
  <2>. QED  BY <2>4
<1>17. Entered(69) /\ Entered(70) /\ Entered(71) /\ Entered(72) /\ Entered(73)
  <2>1. <<ch.T, COLON>> \o Ok = <<84, 58, 79, 75, 13>>
    BY Inputs
  <2>2. Path(<<58, 69, 70, 71, 72, 73>>, <<ch.T, COLON>> \o Ok) \subseteq Transitions
    BY ZenonT(60) DEF Transitions
  <2>3. Path(<<58, 69, 70, 71, 72, 73>>, <<84, 58, 79, 75, 13>>) \subseteq Transitions
    BY <2>1, <2>2, ZenonT(60)
  <2>4. \A i \in DOMAIN <<84, 58, 79, 75, 13>> : Entered(<<58, 69, 70, 71, 72, 73>>[i + 1])
    BY <2>3, <1>s69, <1>s70, <1>s71, <1>s72, <1>s73, EnteredAlong
  <2>. QED  BY <2>4
<1>18. Entered(74) /\ Entered(75) /\ Entered(76) /\ Entered(77) /\ Entered(78)
  <2>1. Err1 = <<69, 82, 82, 49, 13>>
    BY Inputs
  <2>2. Path(<<70, 74, 75, 76, 77, 78>>, Err1) \subseteq Transitions
    BY ZenonT(60) DEF Transitions
  <2>3. Path(<<70, 74, 75, 76, 77, 78>>, <<69, 82, 82, 49, 13>>) \subseteq Transitions
    BY <2>1, <2>2, ZenonT(60)
  <2>4. \A i \in DOMAIN <<69, 82, 82, 49, 13>> : Entered(<<70, 74, 75, 76, 77, 78>>[i + 1])
    BY <2>3, <1>s74, <1>s75, <1>s76, <1>s77, <1>s78, EnteredAlong
  <2>. QED  BY <2>4
<1>19. Entered(79) /\ Entered(95)
  <2>1. <<ch.M, COLON>> = <<77, 58>>
    BY DEF COLON, ch
  <2>2. Path(<<58, 79, 95>>, <<ch.M, COLON>>) \subseteq Transitions
    BY ZenonT(60) DEF Transitions
  <2>3. Path(<<58, 79, 95>>, <<77, 58>>) \subseteq Transitions
    BY <2>1, <2>2, ZenonT(60)
  <2>4. \A i \in DOMAIN <<77, 58>> : Entered(<<58, 79, 95>>[i + 1])
    BY <2>3, <1>s79, <1>s95, EnteredAlong
  <2>. QED  BY <2>4
<1>20. Entered(81) /\ Entered(82) /\ Entered(83)
  <2>1. Ok = <<79, 75, 13>>
    BY DEF Ok, CR, ch
  <2>2. Path(<<80, 81, 82, 83>>, Ok) \subseteq Transitions
    BY ZenonT(60) DEF Transitions
  <2>3. Path(<<80, 81, 82, 83>>, <<79, 75, 13>>) \subseteq Transitions
    BY <2>1, <2>2, ZenonT(60)
  <2>4. \A i \in DOMAIN <<79, 75, 13>> : Entered(<<80, 81, 82, 83>>[i + 1])
    BY <2>3, <1>s81, <1>s82, <1>s83, EnteredAlong
  <2>. QED  BY <2>4
<1>21. Entered(84) /\ Entered(85) /\ Entered(86)
  <2>1. Err = <<69, 82, 82>>
    BY DEF Err, ch
  <2>2. Path(<<80, 84, 85, 86>>, Err) \subseteq Transitions
    BY ZenonT(60) DEF Transitions
  <2>3. Path(<<80, 84, 85, 86>>, <<69, 82, 82>>) \subseteq Transitions
    BY <2>1, <2>2, ZenonT(60)
  <2>4. \A i \in DOMAIN <<69, 82, 82>> : Entered(<<80, 84, 85, 86>>[i + 1])
    BY <2>3, <1>s84, <1>s85, <1>s86, EnteredAlong
  <2>. QED  BY <2>4
<1>22. Entered(88)
  <2>1. <<CR>> = <<13>>
    BY DEF CR
  <2>2. Path(<<87, 88>>, <<CR>>) \subseteq Transitions
    BY ZenonT(60) DEF Transitions
  <2>3. Path(<<87, 88>>, <<13>>) \subseteq Transitions
    BY <2>1, <2>2, ZenonT(60)
  <2>4. \A i \in DOMAIN <<13>> : Entered(<<87, 88>>[i + 1])
    BY <2>3, <1>s88, EnteredAlong
  <2>. QED  BY <2>4
<1>23. Entered(89) /\ Entered(90) /\ Entered(91) /\ Entered(92) /\ Entered(93)
  <2>1. Busy = <<66, 85, 83, 89, 13>>
    BY DEF Busy, CR, ch
  <2>2. Path(<<80, 89, 90, 91, 92, 93>>, Busy) \subseteq Transitions
    BY ZenonT(60) DEF Transitions
  <2>3. Path(<<80, 89, 90, 91, 92, 93>>, <<66, 85, 83, 89, 13>>) \subseteq Transitions
    BY <2>1, <2>2, ZenonT(60)
  <2>4. \A i \in DOMAIN <<66, 85, 83, 89, 13>> : Entered(<<80, 89, 90, 91, 92, 93>>[i + 1])
    BY <2>3, <1>s89, <1>s90, <1>s91, <1>s92, <1>s93, EnteredAlong
  <2>. QED  BY <2>4
<1>24. Entered(87)
  <2>1. \A d \in 50..55 : <<86, d, 87>> \in Transitions
    BY DEF Transitions
  <2>. QED  BY <1>s87, <2>1 DEF Entered
<1>. QED
  BY <1>1, <1>2, <1>3, <1>4, <1>5, <1>6, <1>7, <1>8, <1>9, <1>10, <1>11, <1>12,
     <1>13, <1>14, <1>15, <1>16, <1>17, <1>18, <1>19, <1>20, <1>21, <1>22, <1>23,
     <1>24 DEF Walked, Spelled

(* Whatever is read in a state, the state entered fits. *)
LEMMA MapFits == \A from \in DOMAIN transitionMap : Fits(from[1], from[2], transitionMap[from])
<1> SUFFICES ASSUME NEW from \in {<<t[1], t[2]>> : t \in Transitions}
             PROVE  Fits(from[1], from[2], CHOOSE s \in 0..103 : <<from[1], from[2], s>> \in Transitions)
  BY DEF transitionMap
<1>1. PICK t \in Transitions : from = <<t[1], t[2]>>
  OBVIOUS
<1>2. t = <<t[1], t[2], t[3]>> /\ t[3] \in 0..103
  BY TransitionsFit DEF AllFit, Fitting, Fits
<1>3. from[1] = t[1] /\ from[2] = t[2]
  BY <1>1
<1>4. \E s \in 0..103 : <<from[1], from[2], s>> \in Transitions
  BY <1>2, <1>3
<1> DEFINE to == CHOOSE s \in 0..103 : <<from[1], from[2], s>> \in Transitions
<1>5. <<from[1], from[2], to>> \in Transitions
  BY <1>4
<1> HIDE DEF to
<1>6. Fitting(<<from[1], from[2], to>>)
  BY <1>5, TransitionsFit DEF AllFit
<1>7. Fits(from[1], from[2], to)
  BY <1>6 DEF Fitting
<1>. QED  BY <1>7 DEF to

LEMMA DoTransition ==
  ASSUME NEW state, NEW input, doTransition(state, input) # NO_TRANSITION
  PROVE  \E x \in {input, INPUT_ALL} : Fits(state, x, doTransition(state, input))
<1>1. CASE <<state, input>> \in DOMAIN transitionMap
  <2>1. doTransition(state, input) = transitionMap[<<state, input>>]
    BY <1>1 DEF doTransition, Successor
  <2>2. Fits(state, input, transitionMap[<<state, input>>])
    BY <1>1, MapFits
  <2>. QED  BY <2>1, <2>2
<1>2. CASE <<state, input>> \notin DOMAIN transitionMap /\ <<state, INPUT_ALL>> \in DOMAIN transitionMap
  <2>1. doTransition(state, input) = transitionMap[<<state, INPUT_ALL>>]
    BY <1>2 DEF doTransition, Successor
  <2>2. Fits(state, INPUT_ALL, transitionMap[<<state, INPUT_ALL>>])
    BY <1>2, MapFits
  <2>. QED  BY <2>1, <2>2
<1>3. CASE <<state, input>> \notin DOMAIN transitionMap /\ <<state, INPUT_ALL>> \notin DOMAIN transitionMap
  BY <1>3 DEF doTransition, Successor
<1>. QED  BY <1>1, <1>2, <1>3

-----------------------------------------------------------------------------
(* The configurations of the loop.                                         *)

Buffers == Seq(0..255)

(* The sections type#version#id of the USB information in the first pos    *)
(* bytes, behind the header.                                               *)
USBInfoRead(data, pos) ==
  \E h1, h2 \in 4..(pos - 1) :
    /\ h1 < h2 /\ data[h1] = HASH /\ data[h2] = HASH /\ data[pos] = CR
    /\ \A i \in 4..(h1 - 1) : data[i] # HASH
    /\ \A i \in (h1 + 1)..(h2 - 1) : data[i] \in Digits \cup {DOT}
    /\ \A i \in (h2 + 1)..(pos - 1) : data[i] \in Digits \cup 65..72

(* The buffer holds no whole identification yet. *)
TooFew(data) ==
  Len(data) < EXTENDED_IDF_SIZE /\ (Len(data) = STANDARD_IDF_SIZE => data[STANDARD_IDF_SIZE] # CR)

(* What the first pos bytes of the buffer are when they have led to state. *)
Shape(data, state, pos) ==
  /\ state # 18
  /\ state \in Spelled \ {21} => Spells(data, state, pos)
  /\ state = 21 => Spells(data, 21, 4) /\ pos >= 4 /\ (pos = 4 \/ TooFew(data))
  /\ state = 19 => Spells(data, 17, 3) /\ USBInfoRead(data, pos)
  /\ state \in {22, 23} => Spells(data, 21, 4)
  /\ state = 22 => pos \in {20, 36}
  /\ state = 23 => pos \in {21, 37} /\ data[pos] = CR
  /\ state \in {51, 52} => Spells(data, 50, 5)
  /\ state = 51 => pos >= 5 /\ pos = 5 + data[4]
  /\ state = 52 => pos >= 6 /\ pos = 6 + data[4] /\ data[pos] = CR
  /\ state \in {96, 97} => Spells(data, 95, 4)
  /\ state = 96 => pos >= 5 /\ pos = Len(data) - 1
  /\ state = 97 => pos >= 6 /\ pos = Len(data) /\ data[pos] = CR

MsgTypes == Range(statesInfoMap)

Configurations ==
  [state : 0..103, pos : Nat, resultType : {"PARSE_NOT_COMPLETE", "PARSE_OK", "PARSE_BAD_FORMAT"},
   msgType : MsgTypes, lastPosition : Int]

(* What holds at every turn of the loop. *)
ConfInv(data, c) ==
  /\ c \in Configurations
  /\ Looping(data, c) => c.state \notin finiteStates /\ Shape(data, c.state, c.pos)
  /\ c.resultType = "PARSE_OK" =>
       /\ c.state \in finiteStates /\ c.msgType = statesInfoMap[c.state]
       /\ c.lastPosition \in 0..(Len(data) - 1) /\ data[c.lastPosition + 1] = CR
       /\ Shape(data, c.state, c.lastPosition + 1)
  /\ c.resultType = "PARSE_BAD_FORMAT" => c.lastPosition \in 0..(Len(data) - 1)

(* A turn moves on in the buffer, or goes where no special state is. *)
Advances(data, c, d) ==
  /\ c.state \in Behind => d.state \in Behind
  /\ \/ d.resultType # "PARSE_NOT_COMPLETE"
     \/ d.pos > c.pos
     \/ d.pos = c.pos /\ c.state \notin Behind /\ d.state \in Behind

LEMMA FiniteStateTypes ==
  "MSG_ERROR" \in MsgTypes /\ \A s \in finiteStates : statesInfoMap[s] \in MsgTypes
<1>1. DOMAIN statesInfoMap = finiteStates
  BY DEF statesInfoMap
<1>2. 5 \in finiteStates
  BY DEF finiteStates
<1>3. statesInfoMap[5] = "MSG_ERROR"
  BY <1>2 DEF statesInfoMap
<1>. QED  BY <1>1, <1>2, <1>3 DEF MsgTypes, Range

LEMMA StartInv ==
  ASSUME NEW data \in Buffers
  PROVE  ConfInv(data, Start)
<1>1. Start \in Configurations
  BY FiniteStateTypes DEF Start, Configurations, INITIAL_STATE
<1>2. Start.state = 0 /\ Start.pos = 0 /\ Start.resultType = "PARSE_NOT_COMPLETE"
  BY DEF Start, INITIAL_STATE
<1>3. Spells(data, 0, 0)
  BY DEF Spells
<1>4. Shape(data, 0, 0) /\ 0 \notin finiteStates
  BY <1>3 DEF Shape, finiteStates
<1>. QED  BY <1>1, <1>2, <1>4 DEF ConfInv

LEMMA BadFormatInv ==
  ASSUME NEW data \in Buffers, NEW c \in Configurations, NEW last \in 0..(Len(data) - 1)
  PROVE  ConfInv(data, BadFormat(c, last)) /\ BadFormat(c, last).resultType = "PARSE_BAD_FORMAT"
<1>1. BadFormat(c, last) \in Configurations
  <2>1. last \in Int
    BY DEF Buffers
  <2>2. \A n \in Int : BadFormat(c, n) \in Configurations
    BY DEF BadFormat, Configurations
  <2>. QED  BY <2>1, <2>2
<1>2. /\ BadFormat(c, last).resultType = "PARSE_BAD_FORMAT"
      /\ BadFormat(c, last).lastPosition = last
  BY DEF BadFormat, Configurations
<1>. QED  BY <1>1, <1>2 DEF ConfInv, Looping

LEMMA EnterInv ==
  ASSUME NEW data \in Buffers, NEW c \in Configurations, c.resultType = "PARSE_NOT_COMPLETE",
         NEW state \in 0..103, NEW last \in Int, last + 1 \in Nat,
         state \in finiteStates =>
           /\ last \in 0..(Len(data) - 1) /\ data[last + 1] = CR
           /\ Shape(data, state, last + 1),
         state \notin finiteStates => last + 1 >= Len(data) \/ Shape(data, state, last + 1)
  PROVE  ConfInv(data, Enter(c, state, last))
<1>1. CASE state \in finiteStates
  <2> DEFINE d == [c EXCEPT !.state = state, !.lastPosition = last,
                            !.resultType = "PARSE_OK", !.msgType = statesInfoMap[state]]
  <2>1. Enter(c, state, last) = d
    BY <1>1 DEF Enter
  <2>2. d \in Configurations
    BY <1>1, FiniteStateTypes DEF Configurations
  <2>3. /\ d.state = state /\ d.lastPosition = last /\ d.resultType = "PARSE_OK"
        /\ d.msgType = statesInfoMap[state]
    BY DEF Configurations
  <2> HIDE DEF d
  <2>4. ConfInv(data, d)
    BY <1>1, <2>2, <2>3 DEF ConfInv, Looping
  <2>. QED  BY <2>1, <2>4
<1>2. CASE state \notin finiteStates
  <2> DEFINE d == [c EXCEPT !.state = state, !.lastPosition = last, !.pos = last + 1]
  <2>1. Enter(c, state, last) = d
    BY <1>2 DEF Enter
  <2>2. d \in Configurations
    BY DEF Configurations
  <2>3. /\ d.state = state /\ d.pos = last + 1 /\ d.resultType = "PARSE_NOT_COMPLETE"
    BY DEF Configurations
  <2> HIDE DEF d
  <2>4. Len(data) \in Nat
    BY DEF Buffers
  <2>5. ConfInv(data, d)
    BY <1>2, <2>2, <2>3, <2>4 DEF ConfInv, Looping
  <2>. QED  BY <2>1, <2>5
<1>. QED  BY <1>1, <1>2

(* Where the loop goes on from a state that is entered. *)
LEMMA EnterMoves ==
  ASSUME NEW c \in Configurations, c.resultType = "PARSE_NOT_COMPLETE", NEW state, NEW last
  PROVE  /\ Enter(c, state, last).state = state
         /\ state \in finiteStates => Enter(c, state, last).resultType = "PARSE_OK"
         /\ state \notin finiteStates => Enter(c, state, last).pos = last + 1
BY DEF Enter, Configurations

-----------------------------------------------------------------------------
(* One turn of the loop.                                                   *)

LEMMA SeqElements ==
  ASSUME NEW S, NEW T, S \subseteq T, NEW s \in Seq(S)
  PROVE  Len(s) \in Nat /\ s \in Seq(T) /\ \A i \in 1..Len(s) : s[i] \in S
OBVIOUS

LEMMA BufferBytes ==
  ASSUME NEW data \in Buffers
  PROVE  /\ Len(data) \in Nat /\ data \in Seq(Nat)
         /\ \A i \in 1..Len(data) :
              data[i] \in 0..255 /\ data[i] \in Nat /\ data[i] # INPUT_ALL
<1>1. Len(data) \in Nat /\ data \in Seq(Nat) /\ \A i \in 1..Len(data) : data[i] \in 0..255
  <2>1. 0..255 \subseteq Nat
    OBVIOUS
  <2>. QED  BY <2>1, SeqElements, Zenon DEF Buffers
<1>2. \A n \in 0..255 : n \in Nat /\ n # INPUT_ALL
  BY DEF INPUT_ALL
<1>. QED  BY <1>1, <1>2, Zenon

LEMMA ShapeOfNext ==
  ASSUME NEW data \in Buffers, NEW state, NEW pos \in Nat, pos < Len(data),
         Shape(data, state, pos), state \notin specialStates,
         NEW next, \E input \in {data[pos + 1], INPUT_ALL} : Fits(state, input, next)
  PROVE  /\ next \in 1..103 /\ Shape(data, next, pos + 1)
         /\ next \in finiteStates => data[pos + 1] = CR
         /\ state \in Behind => next \in Behind
<1> PICK input \in {data[pos + 1], INPUT_ALL} : Fits(state, input, next)
  OBVIOUS
<1>1. data[pos + 1] \in 0..255 /\ data \in Seq(Nat)
  BY BufferBytes
<1>2. next \in finiteStates => data[pos + 1] = CR
  BY <1>1 DEF Fits, INPUT_ALL, CR
<1>3. next \in 1..103 /\ (state \in Behind => next \in Behind)
  BY DEF Fits
<1>4. CASE state \in Spelled
  <2>1. state # 21
    BY DEF specialStates
  <2>2. Spells(data, state, pos)
    BY <1>4, <2>1 DEF Shape
  <2>3. next \in Spelled /\ Spells(data, next, pos + 1)
    BY <1>1, <1>4, <2>2 DEF Fits
  <2>4. next \notin {18, 19, 22, 23, 51, 52, 96, 97}
    BY <2>3 DEF Spelled
  <2>5. next = 21 => pos + 1 = 4
    BY <2>3 DEF Spells
  <2>. QED  BY <1>2, <1>3, <2>3, <2>4, <2>5 DEF Shape
<1>5. CASE state \notin Spelled
  <2>1. <<state, next>> \in {<<18, 19>>, <<22, 23>>, <<51, 52>>, <<96, 97>>}
    BY <1>5, Zenon DEF Fits
  <2>a. \/ state = 18 /\ next = 19
        \/ state = 22 /\ next = 23
        \/ state = 51 /\ next = 52
        \/ state = 96 /\ next = 97
    BY <2>1
  <2>2. next \in finiteStates /\ next \notin Spelled /\ next # 18
    BY <1>3, <2>a DEF finiteStates, Spelled
  <2>3. data[pos + 1] = CR
    BY <1>2, <2>2
  <2>4. state # 18
    BY DEF Shape
  <2>5. CASE state = 22 /\ next = 23
    BY <1>3, <2>2, <2>3, <2>5 DEF Shape
  <2>6. CASE state = 51 /\ next = 52
    <3>1. Spells(data, 50, 5) /\ pos >= 5 /\ pos = 5 + data[4]
      BY <2>6 DEF Shape
    <3>2. data[4] \in Nat
      <4>1. 4 \in 1..Len(data)
        BY <3>1, BufferBytes
      <4>. QED  BY <4>1, BufferBytes, Zenon
    <3>3. \A n \in Nat : pos = 5 + n => pos + 1 = 6 + n /\ pos + 1 >= 6
      OBVIOUS
    <3>. QED  BY <1>2, <1>3, <2>2, <2>3, <2>6, <3>1, <3>2, <3>3 DEF Shape
  <2>7. CASE state = 96 /\ next = 97
    <3>1. pos >= 5 /\ pos = Len(data) - 1 /\ Spells(data, 95, 4)
      BY <2>7 DEF Shape
    <3>. QED  BY <1>2, <1>3, <2>2, <2>3, <2>7, <3>1, BufferBytes DEF Shape
  <2>. QED  BY <2>a, <2>4, <2>5, <2>6, <2>7
<1>. QED  BY <1>4, <1>5

LEMMA TransitionTurn ==
  ASSUME NEW data \in Buffers, NEW c, ConfInv(data, c), Looping(data, c),
         c.state \notin specialStates
  PROVE  /\ ConfInv(data, TransitionStep(data, c))
         /\ Advances(data, c, TransitionStep(data, c))
<1> DEFINE next == doTransition(c.state, At(data, c.pos))
<1>1. /\ c \in Configurations /\ c.pos \in Nat /\ c.pos < Len(data) /\ Len(data) \in Nat
      /\ c.resultType = "PARSE_NOT_COMPLETE" /\ Shape(data, c.state, c.pos)
  BY BufferBytes DEF ConfInv, Configurations, Looping
<1>2. CASE next = NO_TRANSITION
  <2>1. TransitionStep(data, c) = BadFormat(c, c.pos)
    BY <1>2 DEF TransitionStep, Move
  <2>2. c.pos \in 0..(Len(data) - 1)
    BY <1>1
  <2>3. /\ ConfInv(data, BadFormat(c, c.pos))
        /\ BadFormat(c, c.pos).resultType = "PARSE_BAD_FORMAT"
    BY <1>1, <2>2, BadFormatInv
  <2>4. BadFormat(c, c.pos).state = c.state
    BY <1>1 DEF BadFormat, Configurations
  <2>. QED  BY <2>1, <2>3, <2>4 DEF Advances
<1>3. CASE next # NO_TRANSITION
  <2>1. TransitionStep(data, c) = Enter(c, next, c.pos)
    BY <1>3 DEF TransitionStep, Move
  <2>2. \E x \in {data[c.pos + 1], INPUT_ALL} : Fits(c.state, x, next)
    BY <1>3, DoTransition DEF At
  <2> HIDE DEF next
  <2>3. /\ next \in 1..103 /\ Shape(data, next, c.pos + 1)
        /\ next \in finiteStates => data[c.pos + 1] = CR
        /\ c.state \in Behind => next \in Behind
    BY <1>1, <2>2, ShapeOfNext, ZenonT(60)
  <2>4. ConfInv(data, Enter(c, next, c.pos))
    <3>1. next \in 0..103 /\ c.pos \in Int /\ c.pos + 1 \in Nat /\ c.pos \in 0..(Len(data) - 1)
      BY <1>1, <2>3
    <3>. QED  BY <1>1, <2>3, <3>1, EnterInv
  <2>5. /\ Enter(c, next, c.pos).state = next
        /\ next \in finiteStates => Enter(c, next, c.pos).resultType = "PARSE_OK"
        /\ next \notin finiteStates => Enter(c, next, c.pos).pos = c.pos + 1
    BY <1>1, EnterMoves
  <2>6. Advances(data, c, Enter(c, next, c.pos))
    BY <1>1, <2>3, <2>5 DEF Advances
  <2>. QED  BY <2>1, <2>4, <2>6
<1>. QED  BY <1>2, <1>3

-----------------------------------------------------------------------------
(* The special states.                                                     *)

LEMMA MinNat ==
  ASSUME NEW S \in SUBSET Nat, S # {}
  PROVE  Min(S) \in S /\ \A m \in S : Min(S) <= m
<1>1. \E n \in S : \A m \in S : n <= m
  BY LeastNat
<1>. QED  BY <1>1 DEF Min

(* A section is told by the # before it: two, one or none. *)
LEMMA Sections ==
  ASSUME NEW data, NEW a \in Nat, NEW i \in Nat
  PROVE  /\ Section(data, a, i) = 2 <=>
              \E j, k \in a..(i - 1) : j < k /\ At(data, j) = HASH /\ At(data, k) = HASH
         /\ Section(data, a, i) = 1 <=>
              \E j \in a..(i - 1) : At(data, j) = HASH
                                      /\ \A k \in a..(i - 1) : At(data, k) = HASH => k = j
<1> DEFINE H == {j \in a..(i - 1) : At(data, j) = HASH}
           n == Cardinality(H)
<1>1. IsFiniteSet(H)
  <2>1. IsFiniteSet(a..(i - 1))
    BY FS_Interval
  <2>2. H \in SUBSET (a..(i - 1))
    OBVIOUS
  <2> HIDE DEF H
  <2>. QED  BY <2>1, <2>2, FS_Subset, Zenon
<1>2. n \in Nat
  BY <1>1, FS_CardinalityType
<1>3. Section(data, a, i) = Min({2, n})
  BY DEF Section
<1>4. H \subseteq Nat
  OBVIOUS
<1>5. (\E j, k \in a..(i - 1) : j < k /\ At(data, j) = HASH /\ At(data, k) = HASH)
        <=> \E j, k \in H : j # k
  BY <1>4
<1>6. (\E j \in a..(i - 1) : At(data, j) = HASH /\ \A k \in a..(i - 1) : At(data, k) = HASH => k = j)
        <=> \E j : H = {j}
  <2>1. ASSUME NEW j \in a..(i - 1), At(data, j) = HASH,
               \A k \in a..(i - 1) : At(data, k) = HASH => k = j
        PROVE  H = {j}
    BY <2>1
  <2>2. ASSUME NEW j, H = {j}
        PROVE  j \in a..(i - 1) /\ At(data, j) = HASH
                 /\ \A k \in a..(i - 1) : At(data, k) = HASH => k = j
    <3>1. j \in H /\ \A k \in H : k = j
      BY <2>2, Zenon
    <3>. QED  BY <3>1
  <2> HIDE DEF H
  <2>. QED  BY <2>1, <2>2, Zenon
<1> HIDE DEF H
<1>7. n = 0 <=> H = {}
  BY <1>1, FS_EmptySet
<1>8. n = 1 <=> \E j : H = {j}
  BY <1>1, FS_Singleton
<1>9. n >= 2 <=> \E j, k \in H : j # k
  <2>1. n >= 2 <=> n # 0 /\ n # 1
    BY <1>2
  <2>2. H # {} /\ ~(\E j : H = {j}) <=> \E j, k \in H : j # k
    OBVIOUS
  <2>. QED  BY <1>7, <1>8, <2>1, <2>2
<1> HIDE DEF n
<1>10. Min({2, n}) \in {2, n} /\ Min({2, n}) <= 2 /\ Min({2, n}) <= n
  BY <1>2, MinNat
<1>11. (Min({2, n}) = 2 <=> n >= 2) /\ (Min({2, n}) = 1 <=> n = 1)
  BY <1>2, <1>10
<1>. QED  BY <1>3, <1>5, <1>6, <1>8, <1>9, <1>11

(* What a special state's procedure may return at pos. *)
ProcResult(data, pos, r) ==
  /\ r.newState \in 0..103
  /\ r.lastPosition \in Int
  /\ r.lastPosition + 1 \in Nat
  /\ r.formatError \in BOOLEAN
  /\ r.formatError => r.lastPosition \in 0..(Len(data) - 1)
  /\ ~r.formatError /\ r.newState \in finiteStates =>
       /\ r.lastPosition \in 0..(Len(data) - 1)
       /\ data[r.lastPosition + 1] = CR
       /\ Shape(data, r.newState, r.lastPosition + 1)
  /\ ~r.formatError /\ r.newState \notin finiteStates =>
       /\ r.lastPosition + 1 >= Len(data) \/ Shape(data, r.newState, r.lastPosition + 1)
       /\ r.lastPosition + 1 > pos \/ (r.lastPosition + 1 = pos /\ r.newState \in Behind)

(* A procedure that goes to a state that is not final, without an error. *)
LEMMA ProcGoesOn ==
  ASSUME NEW data \in Buffers, NEW pos, NEW state \in 0..103, state \notin finiteStates,
         NEW last \in Int, last + 1 \in Nat,
         last + 1 >= Len(data) \/ Shape(data, state, last + 1),
         last + 1 > pos \/ (last + 1 = pos /\ state \in Behind)
  PROVE  ProcResult(data, pos, StateProcResult(state, last))
<1> DEFINE r == StateProcResult(state, last)
<1>1. r.newState = state /\ r.lastPosition = last /\ r.formatError = FALSE
  BY DEF StateProcResult
<1> HIDE DEF r
<1>2. ProcResult(data, pos, r)
  BY <1>1 DEF ProcResult
<1>. QED  BY <1>2 DEF r

(* The text that ends where USBInfoResult reports state 19. *)
LEMMA USBInfoSectionsRead ==
  ASSUME NEW data \in Buffers, NEW m \in Nat, 3 <= m, m < Len(data), USBInfoEnd(data, 3, m),
         \A i \in 3..(m - 1) : ~USBInfoError(data, 3, i) /\ ~USBInfoEnd(data, 3, i)
  PROVE  USBInfoRead(data, m + 1)
<1> DEFINE H == {j \in 3..(m - 1) : At(data, j) = HASH}
<1>1. /\ \E j, k \in 3..(m - 1) : j < k /\ At(data, j) = HASH /\ At(data, k) = HASH
      /\ At(data, m) = CR
  BY Sections DEF USBInfoEnd
<1>2. PICK j \in H : \A x \in H : j <= x
  <2>1. H \in SUBSET Nat /\ H # {}
    BY <1>1
  <2> HIDE DEF H
  <2>. QED  BY <2>1, LeastNat
<1>3. PICK k \in H \ {j} : \A x \in H \ {j} : k <= x
  <2>1. H \ {j} \in SUBSET Nat /\ H \ {j} # {}
    BY <1>1
  <2> HIDE DEF H
  <2>. QED  BY <2>1, LeastNat
<1>4. /\ j \in 3..(m - 1) /\ k \in 3..(m - 1) /\ j < k
      /\ At(data, j) = HASH /\ At(data, k) = HASH
      /\ \A x \in 3..(m - 1) : At(data, x) = HASH => x = j \/ k <= x
  BY <1>2, <1>3
<1>5. \A x \in 3..(j - 1) : At(data, x) # HASH
  BY <1>4
<1>6. ASSUME NEW x \in (j + 1)..(k - 1) PROVE At(data, x) \in Digits \cup {DOT}
  <2>1. x \in Nat /\ x \in 3..(m - 1) /\ j \in 3..(x - 1)
    BY <1>4
  <2>2. \A y \in 3..(x - 1) : At(data, y) = HASH => y = j
    BY <1>4
  <2>3. Section(data, 3, x) = 1
    BY <1>4, <2>1, <2>2, Sections
  <2>4. At(data, x) # HASH
    BY <1>4, <2>1
  <2>. QED  BY <2>1, <2>3, <2>4 DEF USBInfoError, checkUSBDeviceVersion
<1>7. ASSUME NEW x \in (k + 1)..(m - 1) PROVE At(data, x) \in Digits \cup 65..72
  <2>1. x \in Nat /\ x \in 3..(m - 1) /\ j \in 3..(x - 1) /\ k \in 3..(x - 1)
    BY <1>4
  <2>2. Section(data, 3, x) = 2
    BY <1>4, <2>1, Sections
  <2>3. At(data, x) # CR
    BY <2>1, <2>2 DEF USBInfoEnd
  <2>. QED  BY <2>1, <2>2, <2>3 DEF USBInfoError, checkUSBDeviceId
<1>8. /\ j + 1 \in 4..m /\ k + 1 \in 4..m /\ j + 1 < k + 1
      /\ data[j + 1] = HASH /\ data[k + 1] = HASH /\ data[m + 1] = CR
  BY <1>1, <1>4 DEF At
<1>9. \A i \in 4..((j + 1) - 1) : data[i] # HASH
  <2> TAKE i \in 4..((j + 1) - 1)
  <2>1. i - 1 \in 3..(j - 1) /\ (i - 1) + 1 = i
    BY <1>4
  <2>. QED  BY <1>5, <2>1 DEF At
<1>10. \A i \in ((j + 1) + 1)..((k + 1) - 1) : data[i] \in Digits \cup {DOT}
  <2> TAKE i \in ((j + 1) + 1)..((k + 1) - 1)
  <2>1. i - 1 \in (j + 1)..(k - 1) /\ (i - 1) + 1 = i
    BY <1>4
  <2>. QED  BY <1>6, <2>1 DEF At
<1>11. \A i \in ((k + 1) + 1)..m : data[i] \in Digits \cup 65..72
  <2> TAKE i \in ((k + 1) + 1)..m
  <2>1. i - 1 \in (k + 1)..(m - 1) /\ (i - 1) + 1 = i
    BY <1>4
  <2>. QED  BY <1>7, <2>1 DEF At
<1>12. (m + 1) - 1 = m
  OBVIOUS
<1>. QED  BY <1>8, <1>9, <1>10, <1>11, <1>12, Zenon DEF USBInfoRead

LEMMA USBInfoProc ==
  ASSUME NEW data \in Buffers, 3 < Len(data), Spells(data, 17, 3)
  PROVE  ProcResult(data, 3, processUSBInfo(data, 3))
<1> DEFINE stops == {i \in 3..(Len(data) - 1) : USBInfoError(data, 3, i) \/ USBInfoEnd(data, 3, i)}
<1>1. Len(data) \in Nat
  BY BufferBytes
<1>2. CASE 3 = Len(data) - 1
  <2>1. 17 \in 0..103 /\ 17 \notin finiteStates /\ 3 \in Int /\ 3 + 1 \in Nat /\ 3 + 1 > 3
    BY DEF finiteStates
  <2>2. 3 + 1 >= Len(data)
    <3>1. \A n \in Nat : 3 = n - 1 => 3 + 1 >= n
      OBVIOUS
    <3>. QED  BY <1>1, <1>2, <3>1
  <2>3. ProcResult(data, 3, StateProcResult(17, 3))
    BY <2>1, <2>2, ProcGoesOn
  <2>. QED  BY <1>2, <2>3 DEF processUSBInfo
<1>3. CASE 3 # Len(data) - 1 /\ stops = {}
  <2>1. 18 \in 0..103 /\ 18 \notin finiteStates
    BY DEF finiteStates
  <2>2. /\ Len(data) - 1 \in Int /\ (Len(data) - 1) + 1 \in Nat
        /\ (Len(data) - 1) + 1 >= Len(data) /\ (Len(data) - 1) + 1 > 3
    BY <1>1
  <2>3. ProcResult(data, 3, StateProcResult(18, Len(data) - 1))
    BY <2>1, <2>2, ProcGoesOn
  <2>. QED  BY <1>3, <2>3 DEF processUSBInfo, USBInfoResult
<1>4. CASE 3 # Len(data) - 1 /\ stops # {}
  <2> DEFINE m == Min(stops)
             r == [newState     |-> IF USBInfoEnd(data, 3, m) THEN 19 ELSE 18,
                   lastPosition |-> m,
                   formatError  |-> USBInfoError(data, 3, m)]
  <2>1. processUSBInfo(data, 3) = r
    BY <1>4 DEF processUSBInfo, USBInfoResult
  <2>2. m \in stops /\ \A i \in stops : m <= i
    <3>1. stops \in SUBSET Nat
      BY <1>1
    <3> HIDE DEF stops
    <3>. QED  BY <1>4, <3>1, MinNat
  <2>3. /\ m \in Nat /\ 3 <= m /\ m < Len(data)
        /\ USBInfoError(data, 3, m) \/ USBInfoEnd(data, 3, m)
        /\ \A i \in 3..(m - 1) : ~USBInfoError(data, 3, i) /\ ~USBInfoEnd(data, 3, i)
    <3> HIDE DEF m
    <3>1. m \in Nat /\ 3 <= m /\ m < Len(data)
      BY <1>1, <2>2
    <3>2. \A i \in 3..(m - 1) : i \in 3..(Len(data) - 1) /\ ~(m <= i)
      BY <1>1, <3>1
    <3>. QED  BY <2>2, <3>1, <3>2
  <2>a. USBInfoError(data, 3, m) \in BOOLEAN
    BY DEF USBInfoError
  <2>b. /\ r.newState = IF USBInfoEnd(data, 3, m) THEN 19 ELSE 18
        /\ r.lastPosition = m /\ r.formatError = USBInfoError(data, 3, m)
    OBVIOUS
  <2> HIDE DEF m, r
  <2>4. m \in 0..(Len(data) - 1) /\ m \in Int /\ m + 1 \in Nat /\ m + 1 > 3
    BY <1>1, <2>3
  <2>5. CASE USBInfoEnd(data, 3, m)
    <3>1. data[m + 1] = CR
      BY <2>5 DEF USBInfoEnd, At
    <3>2. USBInfoRead(data, m + 1)
      BY <2>3, <2>5, USBInfoSectionsRead
    <3>3. Shape(data, 19, m + 1)
      BY <3>2 DEF Shape, Spelled
    <3>4. 19 \in finiteStates /\ 19 \in 0..103
      BY DEF finiteStates
    <3>. QED  BY <2>1, <2>a, <2>b, <2>4, <2>5, <3>1, <3>3, <3>4 DEF ProcResult
  <2>6. CASE ~USBInfoEnd(data, 3, m)
    <3>1. r.formatError = TRUE /\ r.newState = 18 /\ r.lastPosition = m
      BY <2>3, <2>6, <2>a, <2>b
    <3>2. r.formatError /\ r.formatError \in BOOLEAN
      BY <3>1, Zenon
    <3>3. 18 \in 0..103
      OBVIOUS
    <3>4. ProcResult(data, 3, r)
      BY <2>4, <3>1, <3>2, <3>3, Zenon DEF ProcResult
    <3>. QED  BY <2>1, <3>4
  <2>. QED  BY <2>5, <2>6
<1>. QED  BY <1>2, <1>3, <1>4

LEMMA TRInfoProc ==
  ASSUME NEW data \in Buffers, NEW pos \in Nat, pos < Len(data), Shape(data, 21, pos)
  PROVE  ProcResult(data, pos, processTRInfo(data, pos))
<1> USE DEF STANDARD_IDF_SIZE, EXTENDED_IDF_SIZE
<1> DEFINE size   == Len(data)
           tooFew == /\ size <= 37
                     /\ size # 37
                     /\ size = 21 => At(data, 21 - 1) # CR
<1>1. size \in Nat /\ Spells(data, 21, 4) /\ pos >= 4 /\ (pos = 4 \/ TooFew(data))
  BY BufferBytes DEF Shape
<1>2. tooFew <=> TooFew(data)
  <2>1. At(data, 21 - 1) = data[21]
    BY DEF At
  <2>2. \A n \in Nat : n <= 37 /\ n # 37 <=> n < 37
    OBVIOUS
  <2>3. size <= 37 /\ size # 37 <=> size < 37
    BY <1>1, <2>2
  <2>. QED  BY <2>1, <2>3, Zenon DEF TooFew
<1>3. /\ pos = size - 1 \/ tooFew => processTRInfo(data, pos) = StateProcResult(21, pos)
      /\ ~(pos = size - 1 \/ tooFew) => processTRInfo(data, pos) =
           StateProcResult(22, IF size - 1 > pos + 32 THEN pos - 1 + 32 ELSE size - 2)
  BY Zenon DEF processTRInfo
<1> HIDE DEF tooFew
<1>4. CASE pos = size - 1 \/ tooFew
  <2>1. 21 \in 0..103 /\ 21 \notin finiteStates /\ pos \in Int /\ pos + 1 \in Nat /\ pos + 1 > pos
    BY DEF finiteStates
  <2>2. pos + 1 >= size \/ Shape(data, 21, pos + 1)
    <3>1. CASE pos = size - 1
      BY <1>1, <3>1
    <3>2. CASE tooFew
      <4>1. Spells(data, 21, 4) /\ TooFew(data) /\ pos + 1 >= 4
        BY <1>1, <1>2, <3>2
      <4>2. Shape(data, 21, pos + 1)
        <5>1. 21 # 18 /\ 21 \notin Spelled \ {21} /\ 21 \notin {19, 22, 23, 51, 52, 96, 97}
          OBVIOUS
        <5>. QED  BY <4>1, <5>1, Zenon DEF Shape
      <4>. QED  BY <4>2
    <3>. QED  BY <1>4, <3>1, <3>2
  <2>3. ProcResult(data, pos, StateProcResult(21, pos))
    BY <2>1, <2>2, ProcGoesOn
  <2>. QED  BY <1>3, <1>4, <2>3
<1>5. CASE ~(pos = size - 1 \/ tooFew)
  <2> DEFINE last == IF size - 1 > pos + 32 THEN pos - 1 + 32 ELSE size - 2
  <2>1. pos = 4 /\ size \in Nat /\ size # 5 /\ size > 4 /\ (size = 21 \/ size >= 37)
    <3>1. pos = 4 /\ pos # size - 1 /\ size < 37 => size = 21
      BY <1>1, <1>2, <1>5, Zenon DEF TooFew
    <3>2. \A n \in Nat : 4 < n /\ 4 # n - 1 => n # 5 /\ n > 4
      OBVIOUS
    <3>3. size < 37 \/ size >= 37
      BY <1>1
    <3>. QED  BY <1>1, <1>2, <1>5, <3>1, <3>2, <3>3
  <2>2. last \in Int /\ last + 1 \in {20, 36}
    <3>1. \A n \in Nat : n = 21 \/ n >= 37 =>
            LET l == IF n - 1 > 4 + 32 THEN 4 - 1 + 32 ELSE n - 2
            IN  l \in Int /\ (l + 1 = 20 \/ l + 1 = 36)
      OBVIOUS
    <3>. QED  BY <2>1, <3>1
  <2> HIDE DEF last
  <2>3. last + 1 \in Nat /\ last + 1 > pos
    BY <2>1, <2>2
  <2>4. 22 \in 0..103 /\ 22 \notin finiteStates
    BY DEF finiteStates
  <2>5. Shape(data, 22, last + 1)
    BY <1>1, <2>2 DEF Shape, Spelled
  <2>6. ProcResult(data, pos, StateProcResult(22, last))
    BY <2>2, <2>3, <2>4, <2>5, ProcGoesOn
  <2>. QED  BY <1>3, <1>5, <2>6 DEF last
<1>. QED  BY <1>4, <1>5

LEMMA AsynDataProc ==
  ASSUME NEW data \in Buffers, 5 < Len(data), Spells(data, 50, 5)
  PROVE  ProcResult(data, 5, processAsynData(data, 5))
<1> DEFINE size == Len(data)
           last == IF 5 + data[4] >= size THEN size - 1 ELSE 5 - 1 + data[4]
<1>1. size \in Nat
  BY BufferBytes
<1>2. data[4] \in Nat
  <2>1. 4 \in 1..size
    BY <1>1
  <2>. QED  BY <2>1, BufferBytes, Zenon
<1>3. /\ 5 = size - 1 => processAsynData(data, 5) = StateProcResult(50, 5)
      /\ 5 # size - 1 => processAsynData(data, 5) = StateProcResult(51, last)
  BY DEF processAsynData, At
<1>4. CASE 5 = size - 1
  <2>1. 50 \in 0..103 /\ 50 \notin finiteStates /\ 5 \in Int /\ 5 + 1 \in Nat /\ 5 + 1 > 5
    BY DEF finiteStates
  <2>2. 5 + 1 >= Len(data)
    <3>1. \A n \in Nat : 5 = n - 1 => 5 + 1 >= n
      OBVIOUS
    <3>. QED  BY <1>1, <1>4, <3>1
  <2>3. ProcResult(data, 5, StateProcResult(50, 5))
    BY <2>1, <2>2, ProcGoesOn
  <2>. QED  BY <1>3, <1>4, <2>3
<1>5. CASE 5 # size - 1
  <2>1. last \in Int /\ last + 1 \in Nat /\ last + 1 >= 5
    BY <1>1, <1>2
  <2>2. last + 1 >= size \/ last + 1 = 5 + data[4]
    BY <1>1, <1>2
  <2> HIDE DEF last
  <2>3. 51 \in 0..103 /\ 51 \notin finiteStates /\ 51 \in Behind
    BY DEF finiteStates, Behind
  <2>4. last + 1 = 5 + data[4] => Shape(data, 51, last + 1)
    BY <2>1 DEF Shape, Spelled
  <2>5. last + 1 > 5 \/ last + 1 = 5
    BY <2>1
  <2>6. ProcResult(data, 5, StateProcResult(51, last))
    BY <2>1, <2>2, <2>3, <2>4, <2>5, ProcGoesOn
  <2>. QED  BY <1>3, <1>5, <2>6
<1>. QED  BY <1>4, <1>5

LEMMA PMRespDataProc ==
  ASSUME NEW data \in Buffers, 4 < Len(data), Spells(data, 95, 4)
  PROVE  ProcResult(data, 4, processPMRespData(data, 4))
<1> DEFINE size == Len(data)
<1>1. size \in Nat
  BY BufferBytes
<1>2. /\ 4 = size - 1 => processPMRespData(data, 4) = StateProcResult(95, 4)
      /\ 4 # size - 1 /\ size \in {7, 9} => processPMRespData(data, 4) = StateProcResult(80, 4 - 1)
      /\ 4 # size - 1 /\ size \notin {7, 9} =>
           processPMRespData(data, 4) = StateProcResult(96, size - 2)
  BY Zenon DEF processPMRespData
<1>3. CASE 4 = size - 1
  <2>1. 95 \in 0..103 /\ 95 \notin finiteStates /\ 4 \in Int /\ 4 + 1 \in Nat /\ 4 + 1 > 4
    BY DEF finiteStates
  <2>2. 4 + 1 >= Len(data)
    <3>1. \A n \in Nat : 4 = n - 1 => 4 + 1 >= n
      OBVIOUS
    <3>. QED  BY <1>1, <1>3, <3>1
  <2>3. ProcResult(data, 4, StateProcResult(95, 4))
    BY <2>1, <2>2, ProcGoesOn
  <2>. QED  BY <1>2, <1>3, <2>3
<1>4. CASE 4 # size - 1 /\ size \in {7, 9}
  <2>1. /\ 80 \in 0..103 /\ 80 \notin finiteStates /\ 80 \in Behind
        /\ 4 - 1 \in Int /\ (4 - 1) + 1 \in Nat /\ (4 - 1) + 1 = 4
    BY DEF finiteStates, Behind
  <2>2. Shape(data, 80, 4)
    <3>1. data[1] = LT /\ data[2] = ch.P /\ data[3] = ch.M /\ data[4] = COLON
      BY DEF Spells
    <3>2. Spells(data, 80, 4)
      BY <3>1 DEF Spells
    <3>. QED  BY <3>2 DEF Shape
  <2>3. ProcResult(data, 4, StateProcResult(80, 4 - 1))
    BY <2>1, <2>2, ProcGoesOn, Zenon
  <2>. QED  BY <1>2, <1>4, <2>3
<1>5. CASE 4 # size - 1 /\ size \notin {7, 9}
  <2>1. size - 2 \in Int /\ (size - 2) + 1 \in Nat /\ (size - 2) + 1 > 4
    <3>1. \A n \in Nat : 4 < n /\ 4 # n - 1 =>
                           n - 2 \in Int /\ (n - 2) + 1 \in Nat /\ (n - 2) + 1 > 4
      OBVIOUS
    <3>. QED  BY <1>1, <1>5, <3>1
  <2>2. 96 \in 0..103 /\ 96 \notin finiteStates
    BY DEF finiteStates
  <2>3. Shape(data, 96, (size - 2) + 1)
    <3>1. (size - 2) + 1 >= 5 /\ (size - 2) + 1 = size - 1
      BY <1>1, <2>1
    <3>. QED  BY <3>1 DEF Shape, Spelled
  <2>4. ProcResult(data, 4, StateProcResult(96, size - 2))
    BY <2>1, <2>2, <2>3, ProcGoesOn
  <2>. QED  BY <1>2, <1>5, <2>4
<1>. QED  BY <1>3, <1>4, <1>5

LEMMA ProceedTurn ==
  ASSUME NEW data \in Buffers, NEW c \in Configurations, c.resultType = "PARSE_NOT_COMPLETE",
         c.state \notin Behind, NEW r, ProcResult(data, c.pos, r)
  PROVE  ConfInv(data, Proceed(c, r)) /\ Advances(data, c, Proceed(c, r))
<1>1. CASE r.formatError
  <2>1. Proceed(c, r) = BadFormat(c, r.lastPosition)
    BY <1>1 DEF Proceed
  <2>2. r.lastPosition \in 0..(Len(data) - 1)
    BY <1>1 DEF ProcResult
  <2>. QED  BY <2>1, <2>2, BadFormatInv DEF Advances
<1>2. CASE ~r.formatError
  <2> DEFINE state == r.newState
             last  == r.lastPosition
  <2>1. Proceed(c, r) = Enter(c, state, last)
    BY <1>2 DEF Proceed
  <2>2. /\ state \in 0..103 /\ last \in Int /\ last + 1 \in Nat
        /\ state \in finiteStates =>
             last \in 0..(Len(data) - 1) /\ data[last + 1] = CR /\ Shape(data, state, last + 1)
        /\ state \notin finiteStates =>
             /\ last + 1 >= Len(data) \/ Shape(data, state, last + 1)
             /\ last + 1 > c.pos \/ (last + 1 = c.pos /\ state \in Behind)
    BY <1>2, Zenon DEF ProcResult
  <2> HIDE DEF state, last
  <2>3. ConfInv(data, Enter(c, state, last))
    BY <2>2, EnterInv
  <2>4. /\ Enter(c, state, last).state = state
        /\ state \in finiteStates => Enter(c, state, last).resultType = "PARSE_OK"
        /\ state \notin finiteStates => Enter(c, state, last).pos = last + 1
    BY EnterMoves
  <2>5. Advances(data, c, Enter(c, state, last))
    BY <2>2, <2>4 DEF Advances
  <2>. QED  BY <2>1, <2>3, <2>5
<1>. QED  BY <1>1, <1>2

LEMMA SpecialTurn ==
  ASSUME NEW data \in Buffers, NEW c, ConfInv(data, c), Looping(data, c),
         c.state \in specialStates
  PROVE  ConfInv(data, SpecialStep(data, c)) /\ Advances(data, c, SpecialStep(data, c))
<1>1. /\ c \in Configurations /\ c.pos \in Nat /\ c.pos < Len(data)
      /\ c.resultType = "PARSE_NOT_COMPLETE" /\ Shape(data, c.state, c.pos)
  BY DEF ConfInv, Configurations, Looping
<1>2. c.state \notin Behind
  BY DEF specialStates, Behind
<1> DEFINE r == processSpecialState(c.state, data, c.pos)
<1>3. SUFFICES ProcResult(data, c.pos, r)
  BY <1>1, <1>2, ProceedTurn DEF SpecialStep
<1>4. CASE c.state = 17
  <2>1. Spells(data, 17, c.pos)
    BY <1>1, <1>4 DEF Shape, Spelled
  <2>2. c.pos = 3
    BY <2>1 DEF Spells
  <2>3. r = processUSBInfo(data, c.pos)
    BY <1>4 DEF processSpecialState
  <2>. QED  BY <1>1, <2>1, <2>2, <2>3, USBInfoProc
<1>5. CASE c.state = 21
  <2>1. r = processTRInfo(data, c.pos)
    BY <1>5 DEF processSpecialState
  <2>. QED  BY <1>1, <1>5, <2>1, TRInfoProc
<1>6. CASE c.state = 50
  <2>1. Spells(data, 50, c.pos)
    BY <1>1, <1>6 DEF Shape, Spelled
  <2>2. c.pos = 5
    BY <2>1 DEF Spells
  <2>3. r = processAsynData(data, c.pos)
    BY <1>6 DEF processSpecialState
  <2>. QED  BY <1>1, <2>1, <2>2, <2>3, AsynDataProc
<1>7. CASE c.state = 95
  <2>1. Spells(data, 95, c.pos)
    BY <1>1, <1>7 DEF Shape, Spelled
  <2>2. c.pos = 4
    BY <2>1 DEF Spells
  <2>3. r = processPMRespData(data, c.pos)
    BY <1>7 DEF processSpecialState
  <2>. QED  BY <1>1, <2>1, <2>2, <2>3, PMRespDataProc
<1>. QED  BY <1>4, <1>5, <1>6, <1>7 DEF specialStates

(* Every turn of the loop keeps the invariant and moves on. *)
LEMMA Turn ==
  ASSUME NEW data \in Buffers, NEW c, ConfInv(data, c)
  PROVE  /\ ConfInv(data, Step(data, c))
         /\ Looping(data, c) => Advances(data, c, Step(data, c))
         /\ ~Looping(data, c) => Step(data, c) = c
<1>1. CASE ~Looping(data, c)
  BY <1>1 DEF Step
<1>2. CASE Looping(data, c) /\ c.state \in specialStates
  BY <1>2, SpecialTurn DEF Step
<1>3. CASE Looping(data, c) /\ c.state \notin specialStates
  BY <1>3, TransitionTurn DEF Step
<1>. QED  BY <1>1, <1>2, <1>3

-----------------------------------------------------------------------------
(* The whole loop.                                                         *)

(* The configuration behind n turns is the one behind n - 1, moved on. *)
LEMMA IterationsUnfold ==
  ASSUME NEW data \in Buffers
  PROVE  /\ Iterations(data)[0] = Start
         /\ \A n \in Nat : Iterations(data)[n + 1] = Step(data, Iterations(data)[n])
<1> DEFINE P(g) == g = [n \in Nat |-> IF n = 0 THEN Start ELSE Step(data, g[n - 1])]
           C    == {c \in Configurations : ConfInv(data, c)}
           nxt  == [c \in C |-> Step(data, c)]
<1>1. Iterations(data) = CHOOSE g : P(g)
  BY DEF Iterations
<1>2. Start \in C
  BY StartInv DEF ConfInv
<1>3. nxt \in [C -> C]
  BY Turn DEF ConfInv
<1>4. \A c \in C : nxt[c] = Step(data, c)
  OBVIOUS
<1> HIDE DEF C, nxt
<1>5. PICK f \in [Nat -> C] : f = [n \in Nat |-> IF n = 0 THEN Start ELSE nxt[f[n - 1]]]
  BY <1>2, <1>3, Recursion
<1>6. ASSUME NEW n \in Nat
      PROVE  (IF n = 0 THEN Start ELSE nxt[f[n - 1]]) = (IF n = 0 THEN Start ELSE Step(data, f[n - 1]))
  BY <1>4, <1>5
<1>7. P(f)
  BY <1>5, <1>6
<1> HIDE DEF P
<1>8. P(Iterations(data))
  BY <1>1, <1>7
<1> DEFINE g == Iterations(data)
<1> HIDE DEF g
<1>9. g = [n \in Nat |-> IF n = 0 THEN Start ELSE Step(data, g[n - 1])]
  BY <1>8 DEF P, g
<1>10. g[0] = Start
  BY <1>9
<1>11. ASSUME NEW n \in Nat PROVE g[n + 1] = Step(data, g[n])
  <2>1. n + 1 \in Nat /\ n + 1 # 0 /\ (n + 1) - 1 = n
    OBVIOUS
  <2>. QED  BY <1>9, <2>1
<1>. QED  BY <1>10, <1>11 DEF g

LEMMA IterationsInv ==
  ASSUME NEW data \in Buffers
  PROVE  \A n \in Nat : ConfInv(data, Iterations(data)[n])
<1> DEFINE S == {n \in Nat : ConfInv(data, Iterations(data)[n])}
<1>1. 0 \in S
  BY IterationsUnfold, StartInv
<1>2. ASSUME NEW n \in Nat, n \in S PROVE n + 1 \in S
  <2>1. ConfInv(data, Step(data, Iterations(data)[n]))
    BY <1>2, Turn
  <2>. QED  BY <2>1, IterationsUnfold
<1> HIDE DEF S
<1>3. Nat \subseteq S
  BY <1>1, <1>2, SetInduction, Zenon
<1>. QED  BY <1>3 DEF S

(* After n turns that did not end the loop, n bytes are behind it, or one  *)
(* less when a special state was left without reading.                     *)
Progress(c, n) == c.pos >= n \/ (c.pos >= n - 1 /\ c.state \in Behind)

LEMMA ProgressTurn ==
  ASSUME NEW c \in Configurations, NEW d \in Configurations, NEW n \in Nat, NEW data,
         Advances(data, c, d), d.resultType = "PARSE_NOT_COMPLETE", Progress(c, n)
  PROVE  Progress(d, n + 1)
BY DEF Advances, Progress, Configurations

LEMMA IterationsProgress ==
  ASSUME NEW data \in Buffers
  PROVE  \A n \in Nat : Looping(data, Iterations(data)[n]) => Progress(Iterations(data)[n], n)
<1> DEFINE g == Iterations(data)
           S == {n \in Nat : Looping(data, g[n]) => Progress(g[n], n)}
<1>1. /\ g[0] = Start
      /\ \A n \in Nat : g[n + 1] = Step(data, g[n])
      /\ \A n \in Nat : ConfInv(data, g[n])
  BY IterationsUnfold, IterationsInv
<1> HIDE DEF g
<1>2. 0 \in S
  BY <1>1 DEF Start, Progress
<1>3. ASSUME NEW n \in Nat, n \in S PROVE n + 1 \in S
  <2> SUFFICES ASSUME Looping(data, g[n + 1]) PROVE Progress(g[n + 1], n + 1)
    OBVIOUS
  <2>1. g[n + 1] = Step(data, g[n]) /\ ConfInv(data, g[n]) /\ ConfInv(data, g[n + 1])
    BY <1>1
  <2>2. Looping(data, g[n])
    BY <2>1, Turn
  <2>3. Progress(g[n], n)
    BY <1>3, <2>2
  <2>4. Advances(data, g[n], g[n + 1])
    BY <2>1, <2>2, Turn
  <2>5. /\ g[n] \in Configurations /\ g[n + 1] \in Configurations
        /\ g[n + 1].resultType = "PARSE_NOT_COMPLETE"
    BY <2>1 DEF ConfInv, Looping
  <2>. QED  BY <2>3, <2>4, <2>5, ProgressTurn
<1> HIDE DEF S
<1>4. Nat \subseteq S
  BY <1>2, <1>3, SetInduction, Zenon
<1>. QED  BY <1>4 DEF S, g

(* parseData's loop ends on every buffer of bytes, after at most one turn  *)
(* more than the buffer has bytes: each turn moves on in the buffer, or    *)
(* leaves a special state for good (the loop at CDCMessageParser.cpp:725). *)
THEOREM LoopEndsAlways ==
  \A data \in Buffers : ~Looping(data, parseData(data))
<1> SUFFICES ASSUME NEW data \in Buffers, Looping(data, parseData(data)) PROVE FALSE
  OBVIOUS
<1> DEFINE n == Len(data) + 1
           c == parseData(data)
<1>1. Len(data) \in Nat /\ n \in Nat
  BY BufferBytes
<1>2. c = Iterations(data)[n]
  BY DEF parseData
<1>3. c \in Configurations
  BY <1>1, <1>2, IterationsInv DEF ConfInv
<1>4. Progress(c, n)
  BY <1>1, <1>2, IterationsProgress
<1>5. c.pos < Len(data)
  BY DEF Looping
<1> HIDE DEF c
<1>. QED  BY <1>1, <1>3, <1>4, <1>5 DEF Progress, Configurations

(* What parseData returns for any buffer: a message type of the library    *)
(* and a position inside the buffer, and what it accepts ends in CR and    *)
(* has the shape of its finite state (CDCMessageParser.cpp:719).           *)
THEOREM ParseDataInv ==
  \A data \in Buffers : ConfInv(data, parseData(data))
<1> TAKE data \in Buffers
<1>1. Len(data) + 1 \in Nat
  BY BufferBytes
<1>. QED  BY <1>1, IterationsInv DEF parseData

-----------------------------------------------------------------------------
(* Forwards: a text that spells a state leads the loop to it.              *)

LEMMA TransitionOf ==
  ASSUME NEW from, NEW input, NEW to, <<from, input, to>> \in Transitions
  PROVE  /\ <<from, input>> \in DOMAIN transitionMap
         /\ transitionMap[<<from, input>>] = to
<1>1. Fits(from, input, to)
  BY TransitionsFit DEF AllFit, Fitting
<1>2. <<from, input>> \in {<<t[1], t[2]>> : t \in Transitions}
  <2>1. <<from, input>> = <<(<<from, input, to>>)[1], (<<from, input, to>>)[2]>>
    OBVIOUS
  <2>. QED  BY <2>1
<1>3. <<from, input>> \in DOMAIN transitionMap
  BY <1>2 DEF transitionMap
<1>4. Fits(from, input, transitionMap[<<from, input>>])
  BY <1>3, MapFits
<1>. QED  BY <1>1, <1>3, <1>4, Zenon DEF Fits

(* A byte takes its transition, and any byte the one for all of them. *)
LEMMA TransitionTaken ==
  ASSUME NEW from, NEW byte \in 0..255, NEW input \in {byte, INPUT_ALL}, NEW to,
         <<from, input, to>> \in Transitions, from \in {30, 48} <=> input = INPUT_ALL
  PROVE  doTransition(from, byte) = to
<1>1. <<from, input>> \in DOMAIN transitionMap /\ transitionMap[<<from, input>>] = to
  BY TransitionOf
<1>2. CASE input = byte
  BY <1>1, <1>2 DEF doTransition, Successor
<1>3. CASE input = INPUT_ALL
  <2>1. byte # INPUT_ALL
    BY DEF INPUT_ALL
  <2>2. <<from, byte>> \notin DOMAIN transitionMap
    <3> SUFFICES ASSUME <<from, byte>> \in DOMAIN transitionMap PROVE FALSE
      OBVIOUS
    <3>1. Fits(from, byte, transitionMap[<<from, byte>>])
      BY MapFits
    <3>. QED  BY <1>3, <2>1, <3>1 DEF Fits
  <2>. QED  BY <1>1, <1>3, <2>2 DEF doTransition, Successor
<1>. QED  BY <1>2, <1>3

(* Only the first n bytes count. *)
LEMMA SpellsSame ==
  ASSUME NEW text \in Seq(Nat), NEW data \in Seq(Nat)
  PROVE  \A n \in Nat : \A s \in Spelled :
           Spells(text, s, n) /\ (\A i \in 1..n : data[i] = text[i]) => Spells(data, s, n)
<1> DEFINE S == {n \in Nat : \A s \in Spelled :
                   Spells(text, s, n) /\ (\A i \in 1..n : data[i] = text[i]) => Spells(data, s, n)}
<1>1. ASSUME NEW n \in Nat, Spells(text, 0, n) PROVE Spells(data, 0, n)
  BY <1>1 DEF Spells
<1>2. ASSUME NEW n \in Nat, Spells(text, 80, n), \A i \in 1..n : data[i] = text[i]
      PROVE  Spells(data, 80, n)
  <2>1. /\ n = 4 /\ text[1] = LT /\ text[2] = ch.P /\ text[3] = ch.M /\ text[4] = COLON
    BY <1>2 DEF Spells
  <2>2. /\ n = 4 /\ data[1] = LT /\ data[2] = ch.P /\ data[3] = ch.M /\ data[4] = COLON
    BY <1>2, <2>1, SMTT(60)
  <2>. QED  BY <2>2 DEF Spells
<1>3. ASSUME NEW n \in Nat, NEW s \in Walked, Spells(text, s, n),
             \A i \in 1..n : data[i] = text[i], n = 0 \/ n - 1 \in S
      PROVE  Spells(data, s, n)
  <2>1. PICK from, input : /\ <<from, input, s>> \in Transitions
                           /\ EntersWith(from, input, s, text, n)
    BY <1>3, StatesEntered DEF Entered
  <2>2. /\ n > 0 /\ n - 1 \in S /\ n \in 1..n /\ from \in Spelled
        /\ Spells(text, from, n - 1) /\ input \in {text[n], INPUT_ALL}
    BY <1>3, <2>1 DEF EntersWith
  <2>3. \A i \in 1..(n - 1) : data[i] = text[i]
    BY <1>3, <2>2
  <2>4. Spells(data, from, n - 1) /\ n - 1 \in Nat
    BY <2>2, <2>3
  <2>5. Fits(from, input, s)
    BY <2>1, TransitionsFit DEF AllFit, Fitting
  <2>6. input \in {data[(n - 1) + 1], INPUT_ALL} /\ (n - 1) + 1 = n
    BY <1>3, <2>2
  <2> HIDE DEF S
  <2>7. Spells(data, s, (n - 1) + 1)
    BY <2>2, <2>4, <2>5, <2>6, Zenon DEF Fits
  <2>. QED  BY <2>6, <2>7
<1>4. \A n \in Nat : n = 0 \/ n - 1 \in S => n \in S
  <2> SUFFICES ASSUME NEW n \in Nat, n = 0 \/ n - 1 \in S, NEW s \in Spelled, Spells(text, s, n),
                      \A i \in 1..n : data[i] = text[i]
               PROVE  Spells(data, s, n)
    OBVIOUS
  <2>1. s = 0 \/ s = 80 \/ s \in Walked
    BY DEF Walked
  <2> HIDE DEF S
  <2>. QED  BY <1>1, <1>2, <1>3, <2>1
<1> HIDE DEF S
<1>5. 0 \in S /\ \A n \in Nat : n \in S => n + 1 \in S
  <2>1. \A n \in Nat : n + 1 \in Nat /\ (n + 1) - 1 = n
    OBVIOUS
  <2>. QED  BY <1>4, <2>1
<1>6. Nat \subseteq S
  BY <1>5, SetInduction, Zenon
<1>. QED  BY <1>6 DEF S

(* The loop is in the state, behind the first n bytes, or has ended there. *)
Reached(c, state, n) ==
  /\ c \in Configurations /\ c.state = state
  /\ state \in finiteStates => /\ c.resultType = "PARSE_OK" /\ c.lastPosition = n - 1
                               /\ c.msgType = statesInfoMap[state]
  /\ state \notin finiteStates => c.resultType = "PARSE_NOT_COMPLETE" /\ c.pos = n

LEMMA EnterReaches ==
  ASSUME NEW c \in Configurations, c.resultType = "PARSE_NOT_COMPLETE", NEW state \in 0..103,
         NEW n \in Nat, NEW last \in Int, last + 1 = n
  PROVE  Reached(Enter(c, state, last), state, n)
<1>1. CASE state \in finiteStates
  <2>1. statesInfoMap[state] \in MsgTypes /\ last = n - 1
    BY <1>1, FiniteStateTypes
  <2> DEFINE d == [c EXCEPT !.state = state, !.lastPosition = last,
                            !.resultType = "PARSE_OK", !.msgType = statesInfoMap[state]]
  <2>2. Enter(c, state, last) = d
    BY <1>1 DEF Enter
  <2>3. /\ d \in Configurations /\ d.state = state /\ d.resultType = "PARSE_OK"
        /\ d.lastPosition = last /\ d.msgType = statesInfoMap[state]
    BY <2>1 DEF Configurations
  <2>. QED  BY <1>1, <2>1, <2>2, <2>3 DEF Reached
<1>2. CASE state \notin finiteStates
  <2> DEFINE d == [c EXCEPT !.state = state, !.lastPosition = last, !.pos = last + 1]
  <2>1. Enter(c, state, last) = d
    BY <1>2 DEF Enter
  <2>2. d \in Configurations /\ d.state = state /\ d.pos = n /\ d.resultType = "PARSE_NOT_COMPLETE"
    BY DEF Configurations
  <2>. QED  BY <1>2, <2>1, <2>2 DEF Reached
<1>. QED  BY <1>1, <1>2

LEMMA StepReaches ==
  ASSUME NEW data \in Buffers, NEW n \in Nat, n <= Len(data), NEW c, NEW from, NEW input,
         NEW state, <<from, input, state>> \in Transitions, Reached(c, from, n - 1),
         n > 0, input \in {data[n], INPUT_ALL}, from \notin finiteStates,
         from \notin specialStates, from \in {30, 48} <=> input = INPUT_ALL
  PROVE  Reached(Step(data, c), state, n)
<1>1. /\ n > 0 /\ input \in {data[n], INPUT_ALL} /\ from \notin finiteStates
      /\ from \notin specialStates /\ (from \in {30, 48} <=> input = INPUT_ALL)
  OBVIOUS
<1>2. /\ c \in Configurations /\ c.state = from /\ c.pos = n - 1
      /\ c.resultType = "PARSE_NOT_COMPLETE"
  BY <1>1 DEF Reached
<1>3. Len(data) \in Nat /\ data[n] \in 0..255
  BY <1>1, BufferBytes
<1>4. Looping(data, c)
  BY <1>1, <1>2, <1>3 DEF Looping
<1>5. Step(data, c) = Move(c, doTransition(from, At(data, n - 1)))
  BY <1>1, <1>2, <1>4 DEF Step, TransitionStep
<1>6. At(data, n - 1) = data[n]
  BY <1>1 DEF At
<1>7. doTransition(from, data[n]) = state
  BY <1>1, <1>3, TransitionTaken
<1>8. state \in 1..103 /\ state # NO_TRANSITION
  <2>1. Fits(from, input, state)
    BY TransitionsFit DEF AllFit, Fitting
  <2>2. state \in 1..103
    BY <2>1, Zenon DEF Fits
  <2>3. \A s \in 1..103 : s # NO_TRANSITION
    BY DEF NO_TRANSITION
  <2>. QED  BY <2>2, <2>3
<1>9. Step(data, c) = Enter(c, state, n - 1)
  BY <1>2, <1>5, <1>6, <1>7, <1>8 DEF Move
<1>10. state \in 0..103 /\ n - 1 \in Int /\ (n - 1) + 1 = n
  BY <1>8
<1>. QED  BY <1>2, <1>9, <1>10, EnterReaches

(* The states that no special state is on the way to. *)
Plain == Spelled \ (80..93)

LEMMA PlainReached ==
  ASSUME NEW data \in Buffers
  PROVE  \A n \in Nat : \A s \in Plain :
           n <= Len(data) /\ Spells(data, s, n) => Reached(Iterations(data)[n], s, n)
<1> DEFINE g == Iterations(data)
           S == {n \in Nat : \A s \in Plain :
                   n <= Len(data) /\ Spells(data, s, n) => Reached(g[n], s, n)}
<1>1. g[0] = Start /\ \A n \in Nat : g[n + 1] = Step(data, g[n])
  BY IterationsUnfold
<1>2. Len(data) \in Nat /\ data \in Seq(Nat)
  BY BufferBytes
<1> HIDE DEF g
<1>3. ASSUME NEW n \in Nat, Spells(data, 0, n) PROVE Reached(g[n], 0, n)
  <2>1. n = 0
    BY <1>3 DEF Spells
  <2>2. Start \in Configurations
    BY StartInv DEF ConfInv
  <2>. QED  BY <1>1, <2>1, <2>2 DEF Reached, Start, INITIAL_STATE, finiteStates
<1>4. ASSUME NEW n \in Nat, NEW s \in Plain, s # 0, n <= Len(data), Spells(data, s, n),
             n = 0 \/ n - 1 \in S
      PROVE  Reached(g[n], s, n)
  <2>1. s \in Walked /\ s \notin Behind
    BY <1>4 DEF Plain, Walked, Behind, Spelled
  <2>2. PICK from, input : /\ <<from, input, s>> \in Transitions
                           /\ EntersWith(from, input, s, data, n)
    BY <1>2, <1>4, <2>1, StatesEntered DEF Entered
  <2>3. /\ n > 0 /\ n - 1 \in S /\ from \in Spelled /\ Spells(data, from, n - 1)
    BY <1>4, <2>2 DEF EntersWith
  <2>4. Fits(from, input, s)
    BY <2>2, TransitionsFit DEF AllFit, Fitting
  <2>5. from \in Plain
    <3>1. from \notin Behind
      BY <2>1, <2>4 DEF Fits
    <3>. QED  BY <2>3, <3>1 DEF Plain, Behind
  <2>6. n - 1 \in Nat /\ n - 1 <= Len(data) /\ (n - 1) + 1 = n
    BY <1>2, <1>4, <2>3
  <2>7. Reached(g[n - 1], from, n - 1)
    BY <2>3, <2>5, <2>6
  <2>8. g[n] = Step(data, g[n - 1])
    BY <1>1, <2>6
  <2>9. /\ input \in {data[n], INPUT_ALL} /\ from \notin finiteStates
        /\ from \notin specialStates /\ (from \in {30, 48} <=> input = INPUT_ALL)
    BY <2>2 DEF EntersWith
  <2> HIDE DEF S
  <2>. QED  BY <1>4, <2>2, <2>3, <2>7, <2>8, <2>9, StepReaches
<1>5. \A n \in Nat : n = 0 \/ n - 1 \in S => n \in S
  <2> SUFFICES ASSUME NEW n \in Nat, n = 0 \/ n - 1 \in S, NEW s \in Plain, n <= Len(data),
                      Spells(data, s, n)
               PROVE  Reached(g[n], s, n)
    OBVIOUS
  <2> HIDE DEF S
  <2>. QED  BY <1>3, <1>4
<1> HIDE DEF S
<1>6. 0 \in S /\ \A n \in Nat : n \in S => n + 1 \in S
  <2>1. \A n \in Nat : n + 1 \in Nat /\ (n + 1) - 1 = n
    OBVIOUS
  <2>. QED  BY <1>5, <2>1
<1>7. Nat \subseteq S
  BY <1>6, SetInduction, Zenon
<1>. QED  BY <1>7 DEF S, g

LEMMA EndsAt ==
  ASSUME NEW data \in Buffers, NEW n \in Nat, n <= Len(data) + 1,
         ~Looping(data, Iterations(data)[n])
  PROVE  parseData(data) = Iterations(data)[n]
<1> DEFINE g == Iterations(data)
           S == {m \in Nat : g[n + m] = g[n]}
<1>1. \A i \in Nat : g[i + 1] = Step(data, g[i])
  BY IterationsUnfold
<1>2. ~Looping(data, g[n]) /\ parseData(data) = g[Len(data) + 1] /\ Len(data) \in Nat
  BY BufferBytes DEF parseData
<1> HIDE DEF g
<1>3. 0 \in S
  OBVIOUS
<1>4. ASSUME NEW m \in Nat, m \in S PROVE m + 1 \in S
  <2>1. g[n + (m + 1)] = Step(data, g[n + m])
    <3>1. n + m \in Nat /\ (n + m) + 1 = n + (m + 1)
      OBVIOUS
    <3>. QED  BY <1>1, <3>1
  <2>2. Step(data, g[n]) = g[n]
    BY <1>2 DEF Step
  <2>. QED  BY <1>4, <2>1, <2>2
<1> HIDE DEF S
<1>5. Nat \subseteq S
  BY <1>3, <1>4, SetInduction, Zenon
<1>6. (Len(data) + 1) - n \in Nat /\ n + ((Len(data) + 1) - n) = Len(data) + 1
  BY <1>2
<1>7. g[Len(data) + 1] = g[n]
  BY <1>5, <1>6 DEF S
<1>. QED  BY <1>2, <1>7 DEF g

(* The loop has come to a finite state. *)
LEMMA FinishedAt ==
  ASSUME NEW data \in Buffers, NEW n \in Nat, n <= Len(data) + 1, NEW s \in finiteStates,
         NEW len \in Nat, Reached(Iterations(data)[n], s, len)
  PROVE  /\ parseData(data).resultType = "PARSE_OK"
         /\ parseData(data).msgType = statesInfoMap[s]
         /\ parseData(data).lastPosition = len - 1
<1>1. ~Looping(data, Iterations(data)[n])
  BY DEF Reached, Looping
<1>2. parseData(data) = Iterations(data)[n]
  BY <1>1, EndsAt
<1>. QED  BY <1>2 DEF Reached

(* As far as both go, the buffer is the text. *)
Agrees(data, text) ==
  \A i \in Nat : 1 <= i /\ i <= Len(data) /\ i <= Len(text) => data[i] = text[i]

(* The buffer's bytes are too few for the text: the parser waits. *)
WaitsFor(text) ==
  \A data \in Buffers : Agrees(data, text) /\ Len(data) < Len(text) =>
    parseData(data).resultType = "PARSE_NOT_COMPLETE"

(* Whatever follows the text, it is accepted as a message of the type. *)
Accepts(text, type) ==
  \A data \in Buffers : Agrees(data, text) /\ Len(text) <= Len(data) =>
    /\ parseData(data).resultType = "PARSE_OK" /\ parseData(data).msgType = type
    /\ parseData(data).lastPosition = Len(text) - 1

(* On the way to a state there are only states that wait for a byte. *)
LEMMA WayThere ==
  ASSUME NEW text \in Seq(Nat), NEW s \in Plain, NEW len \in Nat, Spells(text, s, len)
  PROVE  \A n \in Nat : n < len =>
           \E p \in Plain : /\ p \notin finiteStates /\ p \notin specialStates
                            /\ Spells(text, p, n)
<1> DEFINE Waiting(p) == p \in Plain /\ p \notin finiteStates /\ p \notin specialStates
           S == {j \in Nat : j + 1 <= len =>
                   \E p \in Plain : Waiting(p) /\ Spells(text, p, len - (j + 1))}
<1>1. ASSUME NEW n \in Nat, n > 0, NEW q \in Plain, Spells(text, q, n)
      PROVE  \E p \in Plain : Waiting(p) /\ Spells(text, p, n - 1)
  <2>1. q # 0
    BY <1>1 DEF Spells
  <2>2. q \in Walked /\ q \notin Behind
    BY <1>1, <2>1 DEF Plain, Walked, Behind, Spelled
  <2>3. PICK from, input : /\ <<from, input, q>> \in Transitions
                           /\ EntersWith(from, input, q, text, n)
    BY <1>1, <2>2, StatesEntered DEF Entered
  <2>4. /\ from \in Spelled /\ from \notin finiteStates /\ from \notin specialStates
        /\ Spells(text, from, n - 1)
    BY <2>3 DEF EntersWith
  <2>5. Fits(from, input, q)
    BY <2>3, TransitionsFit DEF AllFit, Fitting
  <2>6. from \notin Behind
    BY <2>2, <2>5, Zenon DEF Fits
  <2>7. from \in Plain
    BY <2>4, <2>6 DEF Plain, Behind
  <2>. QED  BY <2>4, <2>7
<1>2. 0 \in S
  <2>1. len >= 1 => \E p \in Plain : Waiting(p) /\ Spells(text, p, len - 1)
    BY <1>1
  <2> HIDE DEF Waiting
  <2>. QED  BY <2>1
<1>3. ASSUME NEW j \in Nat, j \in S PROVE j + 1 \in S
  <2> SUFFICES ASSUME (j + 1) + 1 <= len
               PROVE  \E p \in Plain : Waiting(p) /\ Spells(text, p, len - ((j + 1) + 1))
    BY DEF S
  <2>1. len - (j + 1) \in Nat /\ len - (j + 1) > 0 /\ j + 1 <= len
        /\ (len - (j + 1)) - 1 = len - ((j + 1) + 1)
    OBVIOUS
  <2>2. PICK q \in Plain : Spells(text, q, len - (j + 1))
    BY <1>3, <2>1
  <2> HIDE DEF Waiting
  <2>. QED  BY <1>1, <2>1, <2>2
<1> HIDE DEF S
<1>4. Nat \subseteq S
  BY <1>2, <1>3, SetInduction, Zenon
<1> SUFFICES ASSUME NEW n \in Nat, n < len
             PROVE  \E p \in Plain : Waiting(p) /\ Spells(text, p, n)
  OBVIOUS
<1>5. (len - 1) - n \in Nat /\ ((len - 1) - n) + 1 <= len
      /\ len - (((len - 1) - n) + 1) = n
  OBVIOUS
<1>6. (len - 1) - n \in S
  BY <1>4, <1>5
<1> HIDE DEF Waiting
<1>. QED  BY <1>5, <1>6 DEF S

(* Up to the state the text spells, the parser waits. *)
LEMMA WaitsInside ==
  ASSUME NEW text \in Seq(Nat), NEW s \in Plain, NEW len \in Nat, len <= Len(text),
         Spells(text, s, len), NEW data \in Buffers, Agrees(data, text), Len(data) < len
  PROVE  parseData(data).resultType = "PARSE_NOT_COMPLETE"
<1> DEFINE n == Len(data)
<1>1. n \in Nat /\ data \in Seq(Nat) /\ Len(text) \in Nat
  BY BufferBytes
<1>2. PICK p \in Plain : p \notin finiteStates /\ Spells(text, p, n)
  BY <1>1, WayThere
<1>3. \A i \in 1..n : data[i] = text[i]
  BY <1>1 DEF Agrees
<1>4. Spells(data, p, n)
  BY <1>1, <1>2, <1>3, SpellsSame DEF Plain
<1>5. Reached(Iterations(data)[n], p, n)
  BY <1>1, <1>2, <1>4, PlainReached
<1>6. /\ Iterations(data)[n].resultType = "PARSE_NOT_COMPLETE"
      /\ ~Looping(data, Iterations(data)[n])
  BY <1>1, <1>2, <1>5 DEF Reached, Looping
<1>7. n <= Len(data) + 1
  BY <1>1
<1>. QED  BY <1>1, <1>6, <1>7, EndsAt

(* A text that spells a finite state marks its own end. *)
LEMMA FiniteDelimits ==
  ASSUME NEW text \in Seq(Nat), NEW s \in Plain, s \in finiteStates, Spells(text, s, Len(text))
  PROVE  WaitsFor(text) /\ Accepts(text, statesInfoMap[s])
<1> DEFINE n == Len(text)
<1>1. n \in Nat /\ n <= Len(text)
  OBVIOUS
<1>2. WaitsFor(text)
  BY <1>1, WaitsInside DEF WaitsFor
<1>3. ASSUME NEW data \in Buffers, Agrees(data, text), n <= Len(data)
      PROVE  /\ parseData(data).resultType = "PARSE_OK"
             /\ parseData(data).msgType = statesInfoMap[s]
             /\ parseData(data).lastPosition = n - 1
  <2>1. Len(data) \in Nat /\ data \in Seq(Nat)
    BY BufferBytes
  <2>2. \A i \in 1..n : data[i] = text[i]
    BY <1>1, <1>3, <2>1 DEF Agrees
  <2>3. Spells(data, s, n)
    BY <1>1, <2>1, <2>2, SpellsSame DEF Plain
  <2>4. Reached(Iterations(data)[n], s, n)
    BY <1>1, <1>3, <2>3, PlainReached
  <2>5. n <= Len(data) + 1
    BY <1>1, <1>3, <2>1
  <2>. QED  BY <1>1, <2>4, <2>5, FinishedAt
<1>. QED  BY <1>2, <1>3 DEF Accepts

(* A special state's procedure that leaves the loop in another state.      *)
LEMMA ProceedReaches ==
  ASSUME NEW c \in Configurations, c.resultType = "PARSE_NOT_COMPLETE", NEW state \in 0..103,
         NEW last \in Int, NEW n \in Nat, last + 1 = n
  PROVE  Reached(Proceed(c, StateProcResult(state, last)), state, n)
<1>1. Proceed(c, StateProcResult(state, last)) = Enter(c, state, last)
  BY DEF Proceed, StateProcResult
<1>. QED  BY <1>1, EnterReaches

LEMMA SpecialReached ==
  ASSUME NEW data \in Buffers, NEW n \in Nat, n < Len(data), NEW s \in specialStates,
         Reached(Iterations(data)[n], s, n)
  PROVE  /\ Iterations(data)[n] \in Configurations
         /\ Iterations(data)[n].resultType = "PARSE_NOT_COMPLETE"
         /\ Iterations(data)[n + 1]
              = Proceed(Iterations(data)[n], processSpecialState(s, data, n))
<1>1. s \notin finiteStates
  BY DEF finiteStates, specialStates
<1>2. Iterations(data)[n + 1] = Step(data, Iterations(data)[n])
  BY IterationsUnfold
<1> DEFINE c == Iterations(data)[n]
<1>3. /\ c \in Configurations /\ c.state = s /\ c.pos = n /\ c.resultType = "PARSE_NOT_COMPLETE"
  BY <1>1 DEF Reached
<1> HIDE DEF c
<1>4. Looping(data, c)
  BY <1>3 DEF Looping
<1>5. Step(data, c) = Proceed(c, processSpecialState(s, data, n))
  BY <1>3, <1>4 DEF Step, SpecialStep
<1>. QED  BY <1>2, <1>3, <1>5 DEF c

(* The loop has run out of bytes in a state that is not finite. *)
LEMMA WaitingAt ==
  ASSUME NEW data \in Buffers, NEW n \in Nat, n <= Len(data) + 1, NEW s, s \notin finiteStates,
         Reached(Iterations(data)[n], s, Len(data))
  PROVE  parseData(data).resultType = "PARSE_NOT_COMPLETE"
<1>1. Len(data) \in Nat
  BY BufferBytes
<1>2. /\ Iterations(data)[n].resultType = "PARSE_NOT_COMPLETE"
      /\ Iterations(data)[n].pos = Len(data)
  BY DEF Reached
<1>3. ~Looping(data, Iterations(data)[n])
  BY <1>1, <1>2 DEF Looping
<1>4. parseData(data) = Iterations(data)[n]
  BY <1>3, EndsAt
<1>. QED  BY <1>2, <1>4

(* The last byte of the messages that carry data. *)
LEMMA DataEnds ==
  /\ <<51, CR, 52>> \in Transitions
  /\ 51 \notin finiteStates /\ 51 \notin specialStates /\ 51 \notin {30, 48} /\ CR # INPUT_ALL
  /\ 52 \in finiteStates /\ statesInfoMap[52] = "MSG_ASYNC"
<1>1. Path(<<51, 52>>, <<CR>>) \subseteq Transitions
  BY ZenonT(60) DEF Transitions
<1>2. <<51, CR, 52>> \in Path(<<51, 52>>, <<CR>>)
  BY DEF Path
<1>3. 51 \notin finiteStates /\ 52 \in finiteStates
  BY DEF finiteStates
<1>4. 51 \notin specialStates /\ 51 \notin {30, 48} /\ CR # INPUT_ALL
  BY DEF specialStates, CR, INPUT_ALL
<1>5. statesInfoMap[52] = "MSG_ASYNC"
  BY <1>3 DEF statesInfoMap
<1>. QED  BY <1>1, <1>2, <1>3, <1>4, <1>5

(* What processAsynData does with the first and with all the bytes.        *)
LEMMA AsyncProcWaits ==
  ASSUME NEW data, NEW k \in Nat, Len(data) = k, NEW len \in Nat, At(data, 3) = len,
         6 <= k, k < len + 6
  PROVE  \E state \in {50, 51} : processAsynData(data, 5) = StateProcResult(state, k - 1)
<1>1. 5 - 2 = 3
  OBVIOUS
<1>2. CASE k = 6
  <2>1. 5 = k - 1
    BY <1>2
  <2>2. processAsynData(data, 5) = StateProcResult(50, 5)
    BY <2>1 DEF processAsynData
  <2>. QED  BY <2>1, <2>2
<1>3. CASE k # 6
  <2>1. 5 # k - 1 /\ 5 + len >= k
    BY <1>3
  <2>2. processAsynData(data, 5) = StateProcResult(51, k - 1)
    BY <1>1, <2>1 DEF processAsynData
  <2>. QED  BY <2>2
<1>. QED  BY <1>2, <1>3

LEMMA AsyncProcEnds ==
  ASSUME NEW data, NEW k \in Nat, Len(data) = k, NEW len \in Nat, At(data, 3) = len,
         len > 0, k >= len + 6
  PROVE  processAsynData(data, 5) = StateProcResult(51, len + 4)
<1>1. 5 - 2 = 3 /\ 5 # k - 1 /\ ~(5 + len >= k) /\ (5 - 1) + len = len + 4
  OBVIOUS
<1>. QED  BY <1>1 DEF processAsynData

(* Asynchronous data are delimited by their length, when there are any. *)
LEMMA AsyncDelimits ==
  ASSUME NEW text \in Seq(Nat), NEW len \in Nat, len > 0, Spells(text, 50, 5), text[4] = len,
         Len(text) = len + 6, text[len + 6] = CR
  PROVE  WaitsFor(text) /\ Accepts(text, "MSG_ASYNC")
<1>1. 50 \in Plain /\ 50 \in Spelled /\ 5 \in Nat /\ 5 <= Len(text)
      /\ 50 \in specialStates /\ 50 \notin finiteStates
  BY DEF Plain, Spelled, specialStates, finiteStates
<1>2. ASSUME NEW data \in Buffers, Agrees(data, text), NEW k \in Nat, k = Len(data), 5 <= k
      PROVE  /\ Reached(Iterations(data)[5], 50, 5) /\ At(data, 3) = len
             /\ len + 6 <= k => data[len + 6] = CR
  <2>1. data \in Seq(Nat)
    BY BufferBytes
  <2>2. \A i \in 1..5 : data[i] = text[i]
    BY <1>2 DEF Agrees
  <2>3. Spells(data, 50, 5)
    BY <1>1, <2>1, <2>2, SpellsSame
  <2>4. Reached(Iterations(data)[5], 50, 5)
    BY <1>1, <1>2, <2>3, PlainReached
  <2>5. At(data, 3) = len
    BY <2>2 DEF At
  <2>6. ASSUME len + 6 <= k PROVE data[len + 6] = CR
    <3>1. len + 6 \in Nat /\ 1 <= len + 6 /\ len + 6 <= Len(text)
      OBVIOUS
    <3>. QED  BY <1>2, <2>6, <3>1 DEF Agrees
  <2>. QED  BY <2>4, <2>5, <2>6
<1>3. ASSUME NEW data \in Buffers, Agrees(data, text), NEW k \in Nat, k = Len(data), 6 <= k
      PROVE  /\ Iterations(data)[5] \in Configurations
             /\ Iterations(data)[5].resultType = "PARSE_NOT_COMPLETE"
             /\ Iterations(data)[6] = Proceed(Iterations(data)[5], processAsynData(data, 5))
  <2>1. Reached(Iterations(data)[5], 50, 5)
    BY <1>2, <1>3
  <2>2. 5 < Len(data) /\ 5 + 1 = 6
    BY <1>3
  <2>3. processSpecialState(50, data, 5) = processAsynData(data, 5)
    BY DEF processSpecialState
  <2>. QED  BY <1>1, <2>1, <2>2, <2>3, SpecialReached
<1>4. ASSUME NEW data \in Buffers, Agrees(data, text), NEW k \in Nat, k = Len(data), k < len + 6
      PROVE  parseData(data).resultType = "PARSE_NOT_COMPLETE"
  <2>1. CASE k < 5
    BY <1>1, <1>4, <2>1, WaitsInside
  <2>2. CASE k = 5
    <3>1. Reached(Iterations(data)[5], 50, 5)
      <4>1. 5 <= k
        BY <2>2
      <4>. QED  BY <1>2, <1>4, <4>1, ZenonT(60)
    <3>2. 5 <= Len(data) + 1
      BY <1>4, <2>2
    <3>. QED  BY <1>1, <1>4, <2>2, <3>1, <3>2, WaitingAt
  <2>3. CASE k >= 6
    <3>1. At(data, 3) = len
      BY <1>2, <1>4, <2>3
    <3>2. PICK state \in {50, 51} : processAsynData(data, 5) = StateProcResult(state, k - 1)
      BY <1>4, <2>3, <3>1, AsyncProcWaits
    <3>3. k - 1 \in Int /\ (k - 1) + 1 = k /\ state \in 0..103
      OBVIOUS
    <3>4. Reached(Iterations(data)[6], state, k)
      BY <1>3, <1>4, <2>3, <3>2, <3>3, ProceedReaches
    <3>5. state \notin finiteStates
      BY <1>1, DataEnds
    <3>6. 6 <= Len(data) + 1
      BY <1>4, <2>3
    <3>. QED  BY <1>4, <3>4, <3>5, <3>6, WaitingAt
  <2>. QED  BY <2>1, <2>2, <2>3
<1>5. ASSUME NEW data \in Buffers, Agrees(data, text), NEW k \in Nat, k = Len(data), len + 6 <= k
      PROVE  /\ parseData(data).resultType = "PARSE_OK" /\ parseData(data).msgType = "MSG_ASYNC"
             /\ parseData(data).lastPosition = (len + 6) - 1
  <2>1. At(data, 3) = len /\ data[len + 6] = CR
    BY <1>2, <1>5
  <2>2. processAsynData(data, 5) = StateProcResult(51, len + 4)
    BY <1>5, <2>1, AsyncProcEnds
  <2>3. len + 4 \in Int /\ (len + 4) + 1 = len + 5 /\ len + 5 \in Nat /\ 51 \in 0..103 /\ 6 <= k
    BY <1>5
  <2>4. Reached(Iterations(data)[6], 51, len + 5)
    BY <1>3, <1>5, <2>2, <2>3, ProceedReaches
  <2>5. len + 6 \in Nat /\ len + 6 > 0 /\ len + 6 <= Len(data) /\ (len + 6) - 1 = len + 5
        /\ CR \in {data[len + 6], INPUT_ALL}
    BY <1>5, <2>1
  <2>6. Reached(Step(data, Iterations(data)[6]), 52, len + 6)
    BY <2>4, <2>5, DataEnds, StepReaches
  <2>7. Iterations(data)[7] = Step(data, Iterations(data)[6])
    <3>1. Iterations(data)[6 + 1] = Step(data, Iterations(data)[6])
      BY IterationsUnfold
    <3>. QED  BY <3>1
  <2>8. 7 <= Len(data) + 1 /\ 7 \in Nat
    BY <1>5
  <2>9. Reached(Iterations(data)[7], 52, len + 6)
    BY <2>6, <2>7
  <2>10. /\ parseData(data).resultType = "PARSE_OK"
         /\ parseData(data).msgType = statesInfoMap[52]
         /\ parseData(data).lastPosition = (len + 6) - 1
    <3> DEFINE n == len + 6
    <3>1. /\ n \in Nat /\ 52 \in finiteStates /\ 7 \in Nat /\ 7 <= Len(data) + 1
          /\ Reached(Iterations(data)[7], 52, n)
      BY <2>5, <2>8, <2>9, DataEnds
    <3> HIDE DEF n
    <3>2. /\ parseData(data).resultType = "PARSE_OK"
          /\ parseData(data).msgType = statesInfoMap[52]
          /\ parseData(data).lastPosition = n - 1
      BY <3>1, FinishedAt
    <3>. QED  BY <3>2 DEF n
  <2>. QED  BY <2>10, DataEnds, Zenon
<1>6. WaitsFor(text)
  <2>1. \A data \in Buffers : Len(data) \in Nat
    BY BufferBytes
  <2>. QED  BY <1>4, <2>1 DEF WaitsFor
<1>7. Accepts(text, "MSG_ASYNC")
  <2>1. \A data \in Buffers : Len(data) \in Nat
    BY BufferBytes
  <2>. QED  BY <1>5, <2>1 DEF Accepts
<1>. QED  BY <1>6, <1>7

(* The bytes of USB information are not refused, and the last one ends it. *)
LEMMA USBInfoByte ==
  ASSUME NEW text, NEW N \in Nat, USBInfoRead(text, N), NEW data, NEW i \in Nat, 3 <= i, i < N,
         \A x \in 1..(i + 1) : data[x] = text[x]
  PROVE  ~USBInfoError(data, 3, i) /\ (USBInfoEnd(data, 3, i) <=> i = N - 1)
<1>1. PICK h1, h2 \in 4..(N - 1) :
        /\ h1 < h2 /\ text[h1] = HASH /\ text[h2] = HASH /\ text[N] = CR
        /\ \A x \in 4..(h1 - 1) : text[x] # HASH
        /\ \A x \in (h1 + 1)..(h2 - 1) : text[x] \in Digits \cup {DOT}
        /\ \A x \in (h2 + 1)..(N - 1) : text[x] \in Digits \cup 65..72
  BY DEF USBInfoRead
<1>2. PICK j, k \in Nat : j = h1 - 1 /\ k = h2 - 1
  <2>1. h1 - 1 \in Nat /\ h2 - 1 \in Nat
    OBVIOUS
  <2>. QED  BY <2>1
<1>3. 3 <= j /\ j < k /\ k < N - 1 /\ h1 = j + 1 /\ h2 = k + 1
  BY <1>1, <1>2
<1>4. \A x \in 3..i : At(data, x) = text[x + 1]
  BY DEF At
<1>5. \A x \in 3..i : x < j => At(data, x) # HASH
  <2> TAKE x \in 3..i
  <2>1. x < j => x + 1 \in 4..(h1 - 1)
    BY <1>3
  <2>. QED  BY <1>1, <1>4, <2>1
<1>6. \A x \in 3..i : j < x /\ x < k => At(data, x) \in Digits \cup {DOT}
  <2> TAKE x \in 3..i
  <2>1. j < x /\ x < k => x + 1 \in (h1 + 1)..(h2 - 1)
    BY <1>3
  <2>. QED  BY <1>1, <1>4, <2>1
<1>7. \A x \in 3..i : k < x /\ x < N - 1 => At(data, x) \in Digits \cup 65..72
  <2> TAKE x \in 3..i
  <2>1. k < x /\ x < N - 1 => x + 1 \in (h2 + 1)..(N - 1)
    BY <1>3
  <2>. QED  BY <1>1, <1>4, <2>1
<1>8. \A x \in 3..i : /\ x = j => At(data, x) = HASH
                      /\ x = k => At(data, x) = HASH
                      /\ x = N - 1 => At(data, x) = CR
  BY <1>1, <1>3, <1>4
<1>9. HASH \notin Digits \cup {DOT} /\ CR \notin Digits \cup 65..72 /\ HASH # CR
  BY DEF HASH, CR, DOT, Digits
<1>10. i \in 3..i
  OBVIOUS
<1>11. CASE i <= j
  <2>1. \A x \in 3..(i - 1) : At(data, x) # HASH
    BY <1>5, <1>11
  <2>2. Section(data, 3, i) # 1 /\ Section(data, 3, i) # 2
    BY <2>1, Sections
  <2>3. i # N - 1
    BY <1>3, <1>11
  <2>. QED  BY <2>2, <2>3 DEF USBInfoError, USBInfoEnd
<1>12. CASE j < i /\ i <= k
  <2>1. j \in 3..(i - 1) /\ At(data, j) = HASH
    BY <1>3, <1>8, <1>12
  <2>2. \A x \in 3..(i - 1) : At(data, x) = HASH => x = j
    <3> TAKE x \in 3..(i - 1)
    <3>1. x \in 3..i /\ x < k /\ (x < j \/ x = j \/ j < x)
      BY <1>3, <1>12
    <3>. QED  BY <1>5, <1>6, <1>9, <3>1
  <2>3. Section(data, 3, i) = 1
    BY <2>1, <2>2, Sections
  <2>4. At(data, i) = HASH \/ At(data, i) \in Digits \cup {DOT}
    <3>1. i = k \/ (j < i /\ i < k)
      BY <1>3, <1>12
    <3>. QED  BY <1>6, <1>8, <1>10, <3>1
  <2>5. i # N - 1
    BY <1>3, <1>12
  <2>. QED  BY <2>3, <2>4, <2>5 DEF USBInfoError, USBInfoEnd, checkUSBDeviceVersion
<1>13. CASE k < i
  <2>1. /\ j \in 3..(i - 1) /\ k \in 3..(i - 1) /\ j < k
        /\ At(data, j) = HASH /\ At(data, k) = HASH
    BY <1>3, <1>8, <1>13
  <2>2. Section(data, 3, i) = 2
    BY <2>1, Sections
  <2>3. i < N - 1 \/ i = N - 1
    OBVIOUS
  <2>4. CASE i = N - 1
    BY <1>8, <1>10, <2>2, <2>4 DEF USBInfoError, USBInfoEnd
  <2>5. CASE i < N - 1
    <3>1. At(data, i) \in Digits \cup 65..72 /\ i # N - 1
      BY <1>7, <1>10, <1>13, <2>5
    <3>. QED  BY <1>9, <2>2, <3>1 DEF USBInfoError, USBInfoEnd, checkUSBDeviceId
  <2>. QED  BY <2>3, <2>4, <2>5
<1>14. i <= j \/ (j < i /\ i <= k) \/ k < i
  BY <1>3
<1>. QED  BY <1>11, <1>12, <1>13, <1>14

(* What processUSBInfo does with the first and with all the bytes.         *)
LEMMA USBInfoProcWaits ==
  ASSUME NEW text \in Seq(Nat), NEW N \in Nat, USBInfoRead(text, N), NEW data \in Seq(Nat),
         NEW k \in Nat, Len(data) = k, 4 <= k, k < N, \A x \in 1..k : data[x] = text[x]
  PROVE  processUSBInfo(data, 3) \in {StateProcResult(17, k - 1), StateProcResult(18, k - 1)}
<1>1. CASE k = 4
  <2>1. 3 = k - 1
    BY <1>1
  <2>2. processUSBInfo(data, 3) = StateProcResult(17, 3)
    BY <2>1 DEF processUSBInfo
  <2>. QED  BY <1>1, <2>1, <2>2
<1>2. CASE k # 4
  <2> DEFINE stops == {i \in 3..(k - 1) : USBInfoError(data, 3, i) \/ USBInfoEnd(data, 3, i)}
  <2>1. 3 # k - 1
    BY <1>2
  <2>2. stops = {}
    <3> SUFFICES ASSUME NEW i \in 3..(k - 1)
                 PROVE  ~USBInfoError(data, 3, i) /\ ~USBInfoEnd(data, 3, i)
      OBVIOUS
    <3>1. i \in Nat /\ 3 <= i /\ i < N /\ i # N - 1 /\ \A x \in 1..(i + 1) : x \in 1..k
      BY SMTT(60)
    <3>2. \A x \in 1..(i + 1) : data[x] = text[x]
      BY <3>1
    <3>. QED  BY <3>1, <3>2, USBInfoByte
  <2>3. processUSBInfo(data, 3) = USBInfoResult(data, 3, stops)
    BY <2>1 DEF processUSBInfo
  <2> HIDE DEF stops
  <2>4. USBInfoResult(data, 3, stops) = StateProcResult(18, k - 1)
    BY <2>2 DEF USBInfoResult
  <2>. QED  BY <1>2, <2>3, <2>4
<1>. QED  BY <1>1, <1>2

LEMMA USBInfoProcEnds ==
  ASSUME NEW text, NEW N \in Nat, USBInfoRead(text, N), NEW data, NEW k \in Nat, Len(data) = k,
         6 <= N, N <= k, \A x \in 1..N : data[x] = text[x]
  PROVE  processUSBInfo(data, 3) = StateProcResult(19, N - 1)
<1> DEFINE stops == {i \in 3..(k - 1) : USBInfoError(data, 3, i) \/ USBInfoEnd(data, 3, i)}
<1>1. 3 # k - 1
  OBVIOUS
<1>2. \A i \in 3..(N - 1) : ~USBInfoError(data, 3, i) /\ (USBInfoEnd(data, 3, i) <=> i = N - 1)
  <2> TAKE i \in 3..(N - 1)
  <2>1. i \in Nat /\ 3 <= i /\ i < N /\ \A x \in 1..(i + 1) : x \in 1..N
    OBVIOUS
  <2>2. \A x \in 1..(i + 1) : data[x] = text[x]
    BY <2>1
  <2>. QED  BY <2>1, <2>2, USBInfoByte
<1>3. /\ N - 1 \in 3..(N - 1) /\ N - 1 \in 3..(k - 1) /\ N - 1 \in Nat
      /\ \A i \in 3..(k - 1) : i \in Nat /\ (i < N - 1 => i \in 3..(N - 1) /\ i # N - 1)
  OBVIOUS
<1>4. N - 1 \in stops /\ stops \in SUBSET Nat /\ \A i \in stops : ~(i < N - 1)
  BY <1>2, <1>3
<1> HIDE DEF stops
<1>5. Min(stops) \in stops /\ \A i \in stops : Min(stops) <= i
  BY <1>4, MinNat
<1>6. Min(stops) = N - 1
  <2>1. Min(stops) \in Nat /\ Min(stops) <= N - 1 /\ ~(Min(stops) < N - 1)
    BY <1>4, <1>5
  <2>. QED  BY <1>3, <2>1
<1>7. processUSBInfo(data, 3) = USBInfoResult(data, 3, stops)
  BY <1>1 DEF processUSBInfo, stops
<1>8. stops # {}
  BY <1>4
<1>9. USBInfoEnd(data, 3, N - 1) /\ USBInfoError(data, 3, N - 1) = FALSE
  <2>1. ~USBInfoError(data, 3, N - 1) /\ USBInfoError(data, 3, N - 1) \in BOOLEAN
    BY <1>2, <1>3 DEF USBInfoError
  <2>. QED  BY <1>2, <1>3, <2>1
<1>10. USBInfoResult(data, 3, stops) = StateProcResult(19, N - 1)
  BY <1>6, <1>8, <1>9, Zenon DEF USBInfoResult, StateProcResult
<1>. QED  BY <1>7, <1>10

(* USB information is delimited by its CR. *)
LEMMA USBInfoDelimits ==
  ASSUME NEW text \in Seq(Nat), NEW N \in Nat, Len(text) = N, Spells(text, 17, 3),
         USBInfoRead(text, N)
  PROVE  WaitsFor(text) /\ Accepts(text, "MSG_USB_INFO")
<1>1. 17 \in Plain /\ 17 \in Spelled /\ 17 \in specialStates /\ 17 \notin finiteStates
      /\ 18 \notin finiteStates /\ 19 \in finiteStates
  BY DEF Plain, Spelled, specialStates, finiteStates
<1>2. statesInfoMap[19] = "MSG_USB_INFO"
  BY <1>1 DEF statesInfoMap
<1>3. 6 <= N
  BY DEF USBInfoRead
<1>4. ASSUME NEW data \in Buffers, Agrees(data, text), NEW k \in Nat, k = Len(data), 3 <= k
      PROVE  /\ Reached(Iterations(data)[3], 17, 3)
             /\ \A x \in 1..k : x <= N => data[x] = text[x]
  <2>1. data \in Seq(Nat)
    BY BufferBytes
  <2>2. \A x \in 1..k : x <= N => data[x] = text[x]
    BY <1>4 DEF Agrees
  <2>3. \A i \in 1..3 : data[i] = text[i]
    BY <1>3, <1>4, <2>2
  <2>4. Spells(data, 17, 3)
    BY <1>1, <2>1, <2>3, SpellsSame
  <2>5. Reached(Iterations(data)[3], 17, 3)
    BY <1>1, <1>4, <2>4, PlainReached
  <2>. QED  BY <2>2, <2>5
<1>5. ASSUME NEW data \in Buffers, Agrees(data, text), NEW k \in Nat, k = Len(data), 4 <= k
      PROVE  /\ Iterations(data)[3] \in Configurations
             /\ Iterations(data)[3].resultType = "PARSE_NOT_COMPLETE"
             /\ Iterations(data)[4] = Proceed(Iterations(data)[3], processUSBInfo(data, 3))
  <2>1. 3 < Len(data) /\ 3 + 1 = 4 /\ 3 <= k
    BY <1>5
  <2>2. Reached(Iterations(data)[3], 17, 3)
    BY <1>4, <1>5, <2>1, ZenonT(60)
  <2>3. processSpecialState(17, data, 3) = processUSBInfo(data, 3)
    BY DEF processSpecialState
  <2>. QED  BY <1>1, <2>1, <2>2, <2>3, SpecialReached
<1>6. ASSUME NEW data \in Buffers, Agrees(data, text), NEW k \in Nat, k = Len(data), k < N
      PROVE  parseData(data).resultType = "PARSE_NOT_COMPLETE"
  <2>1. CASE k < 3
    <3>1. 3 \in Nat /\ 3 <= Len(text)
      BY <1>3
    <3>. QED  BY <1>1, <1>6, <2>1, <3>1, WaitsInside
  <2>2. CASE k = 3
    <3>1. 3 <= k /\ 3 <= Len(data) + 1
      BY <1>6, <2>2
    <3>2. Reached(Iterations(data)[3], 17, 3)
      BY <1>4, <1>6, <3>1, ZenonT(60)
    <3>. QED  BY <1>1, <1>6, <2>2, <3>1, <3>2, WaitingAt
  <2>3. CASE k >= 4
    <3>1. \A x \in 1..k : data[x] = text[x]
      BY <1>4, <1>6, <2>3
    <3>2. PICK state \in {17, 18} : processUSBInfo(data, 3) = StateProcResult(state, k - 1)
      <4>1. 4 <= k /\ Len(data) = k /\ k < N
        BY <1>6, <2>3
      <4>2. data \in Seq(Nat)
        BY BufferBytes
      <4>3. processUSBInfo(data, 3) \in {StateProcResult(17, k - 1), StateProcResult(18, k - 1)}
        BY <3>1, <4>1, <4>2, USBInfoProcWaits
      <4>. QED  BY <4>3
    <3>3. k - 1 \in Int /\ (k - 1) + 1 = k /\ state \in 0..103
      OBVIOUS
    <3>4. Reached(Iterations(data)[4], state, k)
      BY <1>5, <1>6, <2>3, <3>2, <3>3, ProceedReaches
    <3>5. state \notin finiteStates
      BY <1>1
    <3>6. 4 <= Len(data) + 1
      BY <1>6, <2>3
    <3>. QED  BY <1>6, <3>4, <3>5, <3>6, WaitingAt
  <2>. QED  BY <2>1, <2>2, <2>3
<1>7. ASSUME NEW data \in Buffers, Agrees(data, text), NEW k \in Nat, k = Len(data), N <= k
      PROVE  /\ parseData(data).resultType = "PARSE_OK"
             /\ parseData(data).msgType = "MSG_USB_INFO"
             /\ parseData(data).lastPosition = N - 1
  <2>1. \A x \in 1..N : data[x] = text[x]
    BY <1>3, <1>4, <1>7, SMTT(60)
  <2>2. processUSBInfo(data, 3) = StateProcResult(19, N - 1)
    BY <1>3, <1>7, <2>1, USBInfoProcEnds
  <2>3. N - 1 \in Int /\ (N - 1) + 1 = N /\ 19 \in 0..103 /\ 4 <= k /\ 4 <= Len(data) + 1
    BY <1>3, <1>7
  <2>4. Reached(Iterations(data)[4], 19, N)
    BY <1>5, <1>7, <2>2, <2>3, ProceedReaches
  <2>. QED  BY <1>1, <1>2, <2>3, <2>4, FinishedAt
<1>8. WaitsFor(text)
  <2>1. \A data \in Buffers : Len(data) \in Nat
    BY BufferBytes
  <2>. QED  BY <1>6, <2>1 DEF WaitsFor
<1>9. Accepts(text, "MSG_USB_INFO")
  <2>1. \A data \in Buffers : Len(data) \in Nat
    BY BufferBytes
  <2>. QED  BY <1>7, <2>1 DEF Accepts
<1>. QED  BY <1>8, <1>9
=============================================================================
