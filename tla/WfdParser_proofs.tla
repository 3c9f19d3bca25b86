---- MODULE WfdParser_proofs ----
EXTENDS WfdExchange, SequenceTheorems, FiniteSetTheorems, WellFoundedInduction, TLAPS

(* What the serialiser prints is read back by the parser: the lemmas on    *)
(* the lexer, the lists and the members of a property; each of the         *)
(* properties, by its name; the lines of a body, read one after the other, *)
(* and the payload they make.  A class can "hold" every value its C types  *)
(* can, and a value is "sound" if the text it is printed as says all of    *)
(* it.                                                                     *)

(* Every set of naturals that is not empty has a least element.            *)
LEMMA NatMin ==
  ASSUME NEW T \in SUBSET Nat, T # {}
  PROVE  \E x \in T : \A y \in T : x <= y
<1> DEFINE R == OpToRel(<, Nat)
<1>1. IsWellFoundedOn(R, Nat)
  BY NatLessThanWellFounded
<1>3. \A x, y \in Nat : <<x, y>> \in R <=> x < y
  BY DEF OpToRel
<1> HIDE DEF R
<1>2. PICK x \in T : \A y \in T : <<y, x>> \notin R
  BY <1>1, WFMin, Zenon
<1>4. \A y \in T : ~(y < x)
  BY <1>2, <1>3
<1> QED BY <1>4

(* Induction over the naturals, for a set.                                 *)
LEMMA Induction ==
  ASSUME NEW S, 0 \in S, \A n \in Nat : n \in S => n + 1 \in S
  PROVE  Nat \subseteq S
<1> SUFFICES ASSUME Nat \ S # {} PROVE FALSE
  OBVIOUS
<1>1. PICK x \in Nat \ S : \A y \in Nat \ S : x <= y
  BY NatMin
<1>2. x # 0 /\ x - 1 \in Nat /\ x - 1 \in S
  BY <1>1
<1> QED BY <1>1, <1>2

----------------------------------------------------------------------------
Digits == {d \in Seq(0 .. 15) : d # <<>> => d[1] # 0}
Number(w) == {n \in [num : Digits] : Len(n.num) <= w}

(* The words that the text of a property may hold, and its tokens: behind  *)
(* the names of HexMode, and behind the others.                            *)
Words ==
  {"comma", "semicolon", "/", "none", "port=", "RTP/AVP/UDP", "mode=play", "supported",
   "input_category_list=", "generic_cap_list=", "hidc_cap_list="}
    \cup AudioFormat \cup ContentProtection \cup TriggerMethod \cup Route \cup UIBCSetting
    \cup InputCategory \cup InputType \cup InputPath

HexText == {Word(w) : w \in Words} \cup {Chars(c) : c \in Seq(0 .. 15)}
PlainText ==
  {Word(w) : w \in Words} \cup {Dec(n) : n \in Nat} \cup {Chars(c) : c \in Seq(Nat)}
    \cup {Url(0, TRUE), Url(1, TRUE), Url(0, FALSE), Url(1, FALSE)}

(* Taking the leading zeros away leaves digits, and no more of them.       *)
LEMMA StrippedDigits ==
  ASSUME NEW d \in Seq(0 .. 15)
  PROVE  /\ Stripped(d) \in Digits
         /\ Len(Stripped(d)) <= Len(d)
<1> DEFINE First(i) == /\ \A j \in 1 .. i - 1 : d[j] = 0
                       /\ i <= Len(d) => d[i] # 0
           first == CHOOSE i \in 1 .. Len(d) + 1 : First(i)
<1>1. \E i \in 1 .. Len(d) + 1 : First(i)
  <2> DEFINE T == {i \in 1 .. Len(d) + 1 : i = Len(d) + 1 \/ d[i] # 0}
  <2>1. Len(d) + 1 \in T /\ T \in SUBSET Nat
    OBVIOUS
  <2> HIDE DEF T
  <2>2. PICK x \in T : \A y \in T : x <= y
    BY <2>1, NatMin
  <2>3. x \in 1 .. Len(d) + 1 /\ (x = Len(d) + 1 \/ d[x] # 0)
    BY <2>2 DEF T
  <2>4. ASSUME NEW j \in 1 .. x - 1 PROVE d[j] = 0
    BY <2>2, <2>3 DEF T
  <2> QED BY <2>3, <2>4
<1>2. first \in 1 .. Len(d) + 1 /\ First(first)
  BY <1>1
<1>3. Stripped(d) = SubSeq(d, first, Len(d))
  BY DEF Stripped
<1> HIDE DEF first
<1>4. Stripped(d) \in Seq(0 .. 15) /\ Len(Stripped(d)) = Len(d) - first + 1
      /\ \A i \in 1 .. Len(d) - first + 1 : Stripped(d)[i] = d[first + i - 1]
  BY SMTT(30), <1>2, <1>3
<1>5. Stripped(d) # <<>> => Stripped(d)[1] # 0
  BY <1>2, <1>4
<1> QED BY <1>2, <1>4, <1>5 DEF Digits

(* Zeros put before a number are all taken away again.                     *)
LEMMA StrippedPadded ==
  ASSUME NEW d \in Digits, NEW k \in Nat
  PROVE  Stripped(Repeated(0, k) \o d) = d
<1> DEFINE p == Repeated(0, k) \o d
           First(i) == /\ \A j \in 1 .. i - 1 : p[j] = 0
                       /\ i <= Len(p) => p[i] # 0
           first == CHOOSE i \in 1 .. Len(p) + 1 : First(i)
<1>0. d \in Seq(0 .. 15) /\ (Len(d) > 0 => d[1] # 0)
  BY DEF Digits
<1>1. Repeated(0, k) \in Seq(0 .. 15) /\ Len(Repeated(0, k)) = k
      /\ \A j \in 1 .. k : Repeated(0, k)[j] = 0
  BY DEF Repeated
<1>2. p \in Seq(0 .. 15) /\ Len(p) = k + Len(d) /\ (\A j \in 1 .. k : p[j] = 0)
      /\ \A j \in 1 .. Len(d) : p[k + j] = d[j]
  BY <1>0, <1>1
<1>3. Stripped(p) = SubSeq(p, first, Len(p))
  BY DEF Stripped
<1> HIDE DEF p
<1>4. First(k + 1)
  BY <1>0, <1>2
<1>5. ASSUME NEW i \in 1 .. Len(p) + 1, First(i) PROVE i = k + 1
  <2>1. ~(i < k + 1)
    BY <1>2, <1>5
  <2>2. ~(k + 1 < i)
    <3> SUFFICES ASSUME k + 1 < i PROVE FALSE
      OBVIOUS
    <3>1. p[k + 1] = 0
      BY <1>5
    <3>2. p[k + 1] = d[1] /\ Len(d) > 0
      BY <1>0, <1>2
    <3> QED BY <3>1, <3>2, <1>0
  <2> QED BY <2>1, <2>2, <1>2
<1>6. first = k + 1
  <2>1. k + 1 \in 1 .. Len(p) + 1
    BY <1>0, <1>2
  <2> QED BY <2>1, <1>4, <1>5
<1> HIDE DEF first
<1>7. SubSeq(p, k + 1, k + Len(d)) = d
  BY <1>0, <1>2
<1> QED BY <1>2, <1>3, <1>6, <1>7 DEF p

(* Tokens of different kinds are different.                                *)
LEMMA Tokens ==
  ASSUME NEW w, NEW n, NEW d, NEW c
  PROVE  /\ "word" \in DOMAIN Word(w) /\ Word(w).word = w /\ Terminal(Word(w)) = w
         /\ "num" \in DOMAIN Num(d) /\ "word" \notin DOMAIN Num(d) /\ Num(d).num = d
         /\ Terminal(Num(d)) = "NUM"
         /\ "word" \notin DOMAIN Dec(n) /\ Dec(n).dec = n /\ Terminal(Dec(n)) = "NUM"
         /\ "chars" \in DOMAIN Chars(c) /\ "word" \notin DOMAIN Chars(c)
         /\ "num" \notin DOMAIN Chars(c) /\ "dec" \notin DOMAIN Chars(c)
         /\ Chars(c).chars = c /\ Terminal(Chars(c)) = "STRING"
         /\ "chars" \notin DOMAIN Word(w)
<1>1. /\ DOMAIN Word(w) = {"word"} /\ DOMAIN Num(d) = {"num"} /\ DOMAIN Dec(n) = {"dec"}
      /\ DOMAIN Chars(c) = {"chars"}
      /\ Word(w).word = w /\ Num(d).num = d /\ Dec(n).dec = n /\ Chars(c).chars = c
  BY DEF Word, Num, Dec, Chars
<1> HIDE DEF Word, Num, Dec, Chars
<1>2. Terminal(Word(w)) = w
  BY <1>1 DEF Terminal, Url
<1>3. Terminal(Num(d)) = "NUM"
  BY <1>1 DEF Terminal, Url
<1>4. Terminal(Dec(n)) = "NUM"
  BY <1>1 DEF Terminal, Url
<1>5. Terminal(Chars(c)) = "STRING"
  BY <1>1 DEF Terminal, Url
<1> QED BY <1>1, <1>2, <1>3, <1>4, <1>5

(* Which URLs the grammar has a terminal for.                              *)
LEMMA UrlTokens ==
  /\ Terminal([stream |-> 0, address |-> TRUE]) = "URL_0"
  /\ Terminal([stream |-> 1, address |-> TRUE]) = "URL_1"
  /\ Terminal([stream |-> 0, address |-> FALSE]) = "unmatched"
  /\ Terminal([stream |-> 1, address |-> FALSE]) = "unmatched"
  BY DEF Url, Terminal

(* What a number of w digits is.                                           *)
LEMMA Numbers ==
  ASSUME NEW w \in Nat, NEW x
  PROVE  x \in Number(w) <=> /\ x = Num(x.num) /\ x.num \in Seq(0 .. 15) /\ Len(x.num) <= w
                             /\ (Len(x.num) > 0 => x.num[1] # 0)
<1>1. \A d \in Seq(0 .. 15) : d # <<>> <=> Len(d) > 0
  BY EmptySeq
<1> QED BY <1>1 DEF Number, Digits, Num

(* Digits that fit make a number.                                          *)
LEMMA NumberDigits ==
  ASSUME NEW w \in Nat, NEW d \in Digits, Len(d) <= w
  PROVE  Num(d) \in Number(w)
  BY DEF Number, Num

(* What fits in w digits fits in more.                                     *)
LEMMA WiderNumber ==
  ASSUME NEW w \in Nat, NEW v \in Nat, w <= v
  PROVE  Number(w) \subseteq Number(v)
  BY DEF Number, Digits

(* A number is a token of its own kind.                                    *)
LEMMA NumberToken ==
  ASSUME NEW w \in Nat, NEW x \in Number(w)
  PROVE  /\ "num" \in DOMAIN x /\ "word" \notin DOMAIN x /\ "chars" \notin DOMAIN x
         /\ x # NONE /\ Terminal(x) = "NUM"
<1>1. x = Num(x.num)
  BY Numbers
<1>2. "chars" \notin DOMAIN Num(x.num)
  BY DEF Num
<1> QED BY <1>1, <1>2, Tokens DEF NONE

(* -1 is the greatest number of its width: all its digits are fifteen.     *)
LEMMA MinusOneNumber ==
  ASSUME NEW w \in Nat
  PROVE  /\ MinusOne(w) \in Number(w) /\ Len(MinusOne(w).num) = w
         /\ \A i \in 1 .. w : MinusOne(w).num[i] = 15
<1>1. Repeated(15, w) \in Seq(0 .. 15) /\ Len(Repeated(15, w)) = w
      /\ \A i \in 1 .. w : Repeated(15, w)[i] = 15
  BY DEF Repeated
<1>2. Repeated(15, w) \in Digits
  BY <1>1, EmptySeq DEF Digits
<1> QED BY <1>1, <1>2, NumberDigits, Tokens DEF MinusOne

(* What a number of n digits is read as.                                   *)
LEMMA HexTokenNumber ==
  ASSUME NEW c \in Seq(0 .. 15), Len(c) <= 16
  PROVE  /\ HexToken(Chars(c)) = Num(Stripped(c))
         /\ HexToken(Chars(c)) \in Number(16)
         /\ Len(HexToken(Chars(c)).num) <= Len(c)
<1>1. HexToken(Chars(c)) = Num(Stripped(c))
  BY Tokens DEF HexToken
<1>2. Stripped(c) \in Digits /\ Len(Stripped(c)) <= Len(c)
  BY StrippedDigits
<1> QED BY <1>1, <1>2, NumberDigits, Tokens

(* A number cut to w digits fits in them, and is the same if it did        *)
(* before.                                                                 *)
LEMMA AssignedNumber ==
  ASSUME NEW w \in Nat \ {0}, NEW x \in Number(16)
  PROVE  /\ Assigned(w, x) \in Number(w)
         /\ Len(Assigned(w, x).num) <= Len(x.num)
         /\ Len(x.num) <= w => Assigned(w, x) = x
<1>1. x = Num(x.num) /\ x.num \in Digits /\ x.num \in Seq(0 .. 15)
  BY DEF Number, Num, Digits
<1>2. x # NONE
  BY NumberToken
<1> DEFINE from == IF Len(x.num) > w THEN Len(x.num) - w + 1 ELSE 1
           low == SubSeq(x.num, from, Len(x.num))
<1>3. Assigned(w, x) = Num(Stripped(low))
  BY <1>2 DEF Assigned, AsRead
<1>4. low \in Seq(0 .. 15) /\ Len(low) <= w /\ Len(low) <= Len(x.num)
      /\ (Len(x.num) <= w => low = x.num)
  <2>1. CASE Len(x.num) > w
    <3> DEFINE d == x.num
    <3>1. d \in Seq(0 .. 15) /\ Len(d) > w /\ low = SubSeq(d, Len(d) - w + 1, Len(d))
      BY <1>1, <2>1
    <3> HIDE DEF d, low
    <3> DEFINE m == Len(d) - w + 1
    <3>2. m \in 1 .. Len(d) + 1 /\ Len(d) - m + 1 = w
      BY <3>1
    <3>4. low = SubSeq(d, m, Len(d))
      BY <3>1
    <3> HIDE DEF m
    <3>5. low \in Seq(0 .. 15) /\ Len(low) = Len(d) - m + 1
      <4>1. \A i \in m .. Len(d) : d[i] \in 0 .. 15
        BY SMTT(30), <3>1, <3>2
      <4>2. m \in Int /\ Len(d) \in Int
        BY <3>1, <3>2
      <4>3. /\ SubSeq(d, m, Len(d)) \in Seq(0 .. 15)
            /\ Len(SubSeq(d, m, Len(d))) = IF m <= Len(d) THEN Len(d) - m + 1 ELSE 0
        BY <4>1, <4>2, SubSeqProperties
      <4> QED BY <3>1, <3>2, <3>4, <4>3
    <3>3. low \in Seq(0 .. 15) /\ Len(low) <= w /\ Len(low) <= Len(d) /\ ~(Len(d) <= w)
      BY <3>1, <3>2, <3>5
    <3> QED BY <3>3 DEF d
  <2>2. CASE ~(Len(x.num) > w)
    <3> DEFINE d == x.num
    <3>1. d \in Seq(0 .. 15) /\ ~(Len(d) > w) /\ low = SubSeq(d, 1, Len(d))
      BY <1>1, <2>2
    <3> HIDE DEF d, low
    <3>2. low = d
      BY <3>1, SubSeqFull
    <3>3. low \in Seq(0 .. 15) /\ Len(low) <= w /\ Len(low) <= Len(d)
      BY <3>1, <3>2
    <3> QED BY <3>2, <3>3 DEF d
  <2> QED BY <2>1, <2>2
<1> HIDE DEF low
<1>5. Stripped(low) \in Digits /\ Len(Stripped(low)) <= Len(low)
  BY <1>4, StrippedDigits
<1>6. Num(Stripped(low)) \in Number(w) /\ Num(Stripped(low)).num = Stripped(low)
  BY <1>4, <1>5, NumberDigits, Tokens
<1>7. Stripped(x.num) = x.num
  <2>1. Repeated(0, 0) = <<>>
    BY DEF Repeated
  <2>2. <<>> \o x.num = x.num
    BY <1>1
  <2> QED BY <2>1, <2>2, <1>1, StrippedPadded
<1> QED BY <1>1, <1>3, <1>4, <1>5, <1>6, <1>7

(* A number of a type of w digits printed with n of them and read again.   *)
LEMMA HexRound ==
  ASSUME NEW n \in 1 .. 16, NEW w \in n .. 16, NEW x \in Number(w)
  PROVE  LET t == HexToken(MAKE_HEX_STRING(n, x))
         IN /\ MAKE_HEX_STRING(n, x) \in HexText
            /\ t \in Number(16)
            /\ Assigned(w, t) \in Number(w)
            /\ Len(Assigned(w, t).num) <= n
            /\ Len(x.num) <= n => Assigned(w, t) = x
<1>1. x = Num(x.num) /\ x.num \in Digits /\ x.num \in Seq(0 .. 15) /\ Len(x.num) <= w
  BY DEF Number, Num, Digits
<1> DEFINE c == IF Len(x.num) < n THEN Repeated(0, n - Len(x.num)) \o x.num
                                  ELSE SubSeq(x.num, 1, n)
<1>2. MAKE_HEX_STRING(n, x) = Chars(c)
  BY DEF MAKE_HEX_STRING
<1>3. c \in Seq(0 .. 15) /\ Len(c) = n
  <2>1. CASE Len(x.num) < n
    <3>1. n - Len(x.num) \in Nat
      BY <1>1, <2>1
    <3>2. \A k \in Nat : Repeated(0, k) \in Seq(0 .. 15) /\ Len(Repeated(0, k)) = k
      BY DEF Repeated
    <3>3. Repeated(0, n - Len(x.num)) \in Seq(0 .. 15) /\ Len(Repeated(0, n - Len(x.num))) = n - Len(x.num)
      BY <3>1, <3>2
    <3> DEFINE z == Repeated(0, n - Len(x.num))
               d == x.num
    <3>4. c = z \o d
      BY <2>1
    <3>6. z \in Seq(0 .. 15) /\ Len(z) = n - Len(d)
      BY <3>3
    <3>7. d \in Seq(0 .. 15)
      BY <1>1
    <3>5. z \in Seq(0 .. 15) /\ d \in Seq(0 .. 15) /\ Len(z) + Len(d) = n
      <4> HIDE DEF z, d
      <4>1. Len(d) \in Nat
        BY <3>7
      <4> QED BY <4>1, <3>6, <3>7
    <3> HIDE DEF c, d, z
    <3> QED BY <3>4, <3>5
  <2>2. CASE ~(Len(x.num) < n)
    <3> DEFINE d == x.num
    <3>1. d \in Seq(0 .. 15) /\ n <= Len(d) /\ c = SubSeq(d, 1, n)
      BY <1>1, <2>2
    <3> HIDE DEF c, d
    <3> QED BY <3>1
  <2> QED BY <2>1, <2>2
<1>4. Len(x.num) <= n => Stripped(c) = x.num
  <2>1. CASE Len(x.num) < n
    <3>1. n - Len(x.num) \in Nat
      BY <1>1, <2>1
    <3> QED BY <1>1, <2>1, <3>1, StrippedPadded
  <2>2. CASE Len(x.num) = n
    <3>1. c = x.num
      <4>1. c = SubSeq(x.num, 1, Len(x.num))
        BY <2>2
      <4> HIDE DEF c
      <4> QED BY <1>1, <4>1, SubSeqFull
    <3>2. Stripped(x.num) = x.num
      <4>1. Repeated(0, 0) = <<>>
        BY DEF Repeated
      <4>2. <<>> \o x.num = x.num
        BY <1>1
      <4> QED BY <4>1, <4>2, <1>1, StrippedPadded
    <3> QED BY <3>1, <3>2
  <2> QED BY <2>1, <2>2, <1>1
<1> HIDE DEF c
<1>5. HexToken(Chars(c)) = Num(Stripped(c)) /\ HexToken(Chars(c)) \in Number(16)
      /\ Len(HexToken(Chars(c)).num) <= n
  BY <1>3, HexTokenNumber
<1>6. /\ Assigned(w, HexToken(Chars(c))) \in Number(w)
      /\ Len(Assigned(w, HexToken(Chars(c))).num) <= Len(HexToken(Chars(c)).num)
      /\ Len(HexToken(Chars(c)).num) <= w => Assigned(w, HexToken(Chars(c))) = HexToken(Chars(c))
  BY <1>5, AssignedNumber
<1>7. Len(Assigned(w, HexToken(Chars(c))).num) <= n
  BY <1>5, <1>6 DEF Number, Digits
<1>8. Len(x.num) <= n => Assigned(w, HexToken(Chars(c))) = x
  BY <1>1, <1>4, <1>5, <1>6
<1>9. Chars(c) \in HexText
  BY <1>3 DEF HexText
<1> QED BY <1>2, <1>5, <1>6, <1>7, <1>8, <1>9

(* The same of an int that is printed if it is not negative.               *)
LEMMA IntRound ==
  ASSUME NEW x \in Number(INT)
  PROVE  LET t == HexToken(IntToString(4, x))
         IN /\ IntToString(4, x) \in HexText
            /\ t \in Number(16) \/ t = NONE
            /\ Assigned(INT, t) \in Number(INT)
            /\ Assigned(INT, t) = MinusOne(INT) \/ Len(Assigned(INT, t).num) <= 4
            /\ x = MinusOne(INT) \/ Len(x.num) <= 4 => Assigned(INT, t) = x
<1>0. x = Num(x.num) /\ x.num \in Seq(0 .. 15) /\ Len(x.num) <= 8
  BY DEF Number, Num, Digits, INT
<1>1. Len(MinusOne(8).num) = 8 /\ MinusOne(8).num[1] = 15 /\ MinusOne(8) \in Number(8)
  <2>1. 8 \in Nat /\ 1 \in 1 .. 8
    OBVIOUS
  <2> QED BY <2>1, MinusOneNumber, Zenon
<1>2. CASE Negative(x)
  <2>1. HexToken(NONE) = NONE
    BY Tokens DEF HexToken, NONE
  <2>2. Assigned(8, NONE) = MinusOne(8)
    BY DEF Assigned, AsRead
  <2>3. IntToString(4, x) = NONE
    BY <1>2 DEF IntToString
  <2>4. ~(Len(x.num) <= 4)
    BY <1>0, <1>2 DEF Negative, INT
  <2>5. NONE \in HexText
    BY DEF NONE, HexText, Words
  <2> QED BY <2>1, <2>2, <2>3, <2>4, <2>5, <1>1 DEF INT
<1>3. CASE ~Negative(x)
  <2>1. IntToString(4, x) = MAKE_HEX_STRING(4, x)
    BY <1>3 DEF IntToString
  <2>2. x # MinusOne(8)
    BY <1>3, <1>1 DEF Negative, INT
  <2> QED BY <2>1, <2>2, HexRound DEF INT
<1> QED BY <1>2, <1>3

----------------------------------------------------------------------------
(* What the lexer makes of the tokens of a line.                           *)
LexedText ==
  {Word(w) : w \in Words} \cup Number(16) \cup {Chars(c) : c \in {d \in Seq(0 .. 15) : Len(d) > 16}}

(* NUM and STRING are not names of words.                                  *)
LEMMA WordsAreNoTerminals == "NUM" \notin Words /\ "STRING" \notin Words
  BY DEF Words, AudioFormat, ContentProtection, TriggerMethod, Route, UIBCSetting,
         InputCategory, InputType, InputPath

(* A word is lexed as itself.                                              *)
LEMMA HexTokenWord ==
  ASSUME NEW w
  PROVE  HexToken(Word(w)) = Word(w)
  BY Tokens DEF HexToken

(* What the lexer makes of a token is a token.                             *)
LEMMA HexTokenText ==
  ASSUME NEW t \in HexText
  PROVE  HexToken(t) \in LexedText
<1>1. ASSUME NEW w \in Words, t = Word(w) PROVE HexToken(t) \in LexedText
  BY <1>1, HexTokenWord DEF LexedText
<1>2. ASSUME NEW c \in Seq(0 .. 15), t = Chars(c), Len(c) <= 16 PROVE HexToken(t) \in LexedText
  BY <1>2, HexTokenNumber DEF LexedText
<1>3. ASSUME NEW c \in Seq(0 .. 15), t = Chars(c), ~(Len(c) <= 16) PROVE HexToken(t) \in LexedText
  <2>1. HexToken(t) = t
    BY <1>3, Tokens DEF HexToken
  <2> QED BY <2>1, <1>3 DEF LexedText
<1> QED BY <1>1, <1>2, <1>3 DEF HexText

(* A lexed token is what its terminal says: a number of 16 digits at most, *)
(* a longer string of digits, or a word.                                   *)
LEMMA LexedTokens ==
  ASSUME NEW t \in LexedText
  PROVE  /\ Terminal(t) = "NUM" => t \in Number(16)
         /\ Terminal(t) = "STRING" => \E c \in Seq(0 .. 15) : t = Chars(c) /\ Len(c) > 16
         /\ Terminal(t) \in Words => t = Word(Terminal(t))
<1>1. ASSUME NEW w \in Words, t = Word(w)
      PROVE  Terminal(t) = w
  BY <1>1, Tokens
<1>2. ASSUME t \in Number(16)
      PROVE  Terminal(t) = "NUM"
  BY <1>2, NumberToken
<1>3. ASSUME NEW c \in Seq(0 .. 15), Len(c) > 16, t = Chars(c)
      PROVE  Terminal(t) = "STRING"
  BY <1>3, Tokens
<1> QED BY <1>1, <1>2, <1>3, WordsAreNoTerminals DEF LexedText

(* The same for the tokens outside the lexer's hexadecimal mode.           *)
LEMMA PlainTokens ==
  ASSUME NEW t \in PlainText
  PROVE  /\ Terminal(t) = "NUM" => \E n \in Nat : t = Dec(n)
         /\ Terminal(t) = "STRING" => \E c \in Seq(Nat) : t = Chars(c)
         /\ Terminal(t) = "URL_0" => t = Url(0, TRUE)
         /\ Terminal(t) = "URL_1" => t = Url(1, TRUE)
         /\ Terminal(t) \in Words => t = Word(Terminal(t))
<1>0. /\ "URL_0" \notin Words /\ "URL_1" \notin Words /\ "unmatched" \notin Words
  BY DEF Words, AudioFormat, ContentProtection, TriggerMethod, Route, UIBCSetting,
         InputCategory, InputType, InputPath
<1>1. ASSUME NEW w \in Words, t = Word(w)
      PROVE  Terminal(t) = w
  BY <1>1, Tokens
<1>2. ASSUME NEW n \in Nat, t = Dec(n)
      PROVE  Terminal(t) = "NUM"
  BY <1>2, Tokens
<1>3. ASSUME NEW c \in Seq(Nat), t = Chars(c)
      PROVE  Terminal(t) = "STRING"
  BY <1>3, Tokens
<1>5. \/ \E w \in Words : t = Word(w)
      \/ \E n \in Nat : t = Dec(n)
      \/ \E c \in Seq(Nat) : t = Chars(c)
      \/ t = [stream |-> 0, address |-> TRUE] \/ t = [stream |-> 1, address |-> TRUE]
      \/ t = [stream |-> 0, address |-> FALSE] \/ t = [stream |-> 1, address |-> FALSE]
  BY DEF PlainText, Url
<1>6. CASE \E w \in Words : t = Word(w)
  BY <1>6, <1>1, <1>0, WordsAreNoTerminals
<1>7. CASE \E n \in Nat : t = Dec(n)
  BY <1>7, <1>2, WordsAreNoTerminals
<1>8. CASE \E c \in Seq(Nat) : t = Chars(c)
  BY <1>8, <1>3, WordsAreNoTerminals
<1>9. CASE t = [stream |-> 0, address |-> TRUE]
  BY <1>9, <1>0, UrlTokens DEF Url
<1>10. CASE t = [stream |-> 1, address |-> TRUE]
  BY <1>10, <1>0, UrlTokens DEF Url
<1>11. CASE t = [stream |-> 0, address |-> FALSE]
  BY <1>11, <1>0, UrlTokens
<1>12. CASE t = [stream |-> 1, address |-> FALSE]
  BY <1>12, <1>0, UrlTokens
<1> QED BY <1>5, <1>6, <1>7, <1>8, <1>9, <1>10, <1>11, <1>12

(* A lexed text is lexed token by token.                                   *)
LEMMA LexHexText ==
  ASSUME NEW tokens \in Seq(HexText)
  PROVE  /\ LexHex(tokens) \in Seq(LexedText)
         /\ Len(LexHex(tokens)) = Len(tokens)
         /\ \A i \in 1 .. Len(tokens) : LexHex(tokens)[i] = HexToken(tokens[i])
<1>1. DOMAIN tokens = 1 .. Len(tokens) /\ \A i \in DOMAIN tokens : HexToken(tokens[i]) \in LexedText
  BY HexTokenText
<1> QED BY <1>1 DEF LexHex

----------------------------------------------------------------------------
(* Division by the length of an item and its comma.                        *)
Lengths == {1, 3, 9, 11}

(* Where the j-th token of the item after a items is.                      *)
LEMMA Position ==
  ASSUME NEW n \in Lengths, NEW a \in Nat, NEW j \in 0 .. n
  PROVE  (a * (n + 1) + j) % (n + 1) = j /\ (a * (n + 1) + j) \div (n + 1) = a
<1>1. CASE n = 1
  BY <1>1
<1>2. CASE n = 3
  BY <1>2
<1>3. CASE n = 9
  BY <1>3
<1>4. CASE n = 11
  BY <1>4
<1> QED BY <1>1, <1>2, <1>3, <1>4 DEF Lengths

(* A place in a list of K items is a place in one of them, or a comma.     *)
LEMMA InList ==
  ASSUME NEW n \in Lengths, NEW K \in Nat, NEW i \in 1 .. K * (n + 1) - 1
  PROVE  i \div (n + 1) \in 0 .. K - 1 /\ i % (n + 1) \in 0 .. n
<1>1. CASE n = 1
  BY <1>1
<1>2. CASE n = 3
  BY <1>2
<1>3. CASE n = 9
  BY <1>3
<1>4. CASE n = 11
  BY <1>4
<1> QED BY <1>1, <1>2, <1>3, <1>4 DEF Lengths

(* The length of a list of K items with a comma between them.              *)
LEMMA ListLength ==
  ASSUME NEW n \in Lengths, NEW K \in Nat \ {0}
  PROVE  /\ K * (n + 1) - 1 \in Nat \ {0} /\ n \in Nat \ {0}
         /\ (K * (n + 1) - 1 + 1) % (n + 1) = 0
         /\ (K * (n + 1) - 1 + 1) \div (n + 1) = K
         /\ \A k \in 1 .. K : /\ (k - 1) * (n + 1) \in Nat
                              /\ (k - 1) * (n + 1) + n <= K * (n + 1) - 1
<1>1. CASE n = 1
  BY <1>1
<1>2. CASE n = 3
  BY <1>2
<1>3. CASE n = 9
  BY <1>3
<1>4. CASE n = 11
  BY <1>4
<1> QED BY <1>1, <1>2, <1>3, <1>4 DEF Lengths

(* What is at each place of a printed list.                                *)
LEMMA ListedTokens ==
  ASSUME NEW n \in Lengths, NEW S, NEW items \in Seq(Seq(S)), Word("comma") \in S,
         \A k \in 1 .. Len(items) : Len(items[k]) = n
  PROVE  /\ Listed(n, items) \in Seq(S)
         /\ items # <<>> => Len(Listed(n, items)) = Len(items) * (n + 1) - 1
         /\ items = <<>> => Listed(n, items) = <<>>
         /\ \A i \in 1 .. Len(items) * (n + 1) - 1 :
              Listed(n, items)[i] = IF i % (n + 1) = 0 THEN Word("comma")
                                    ELSE items[i \div (n + 1) + 1][i % (n + 1)]
<1> DEFINE E(i) == IF i % (n + 1) = 0 THEN Word("comma") ELSE items[i \div (n + 1) + 1][i % (n + 1)]
           M == Len(items) * (n + 1) - 1
<1>0. Len(items) \in Nat /\ n \in Nat /\ (items # <<>> => Len(items) \in Nat \ {0})
  BY EmptySeq DEF Lengths
<1>1. ASSUME NEW i \in 1 .. M PROVE E(i) \in S
  <2>1. i \div (n + 1) \in 0 .. Len(items) - 1 /\ i % (n + 1) \in 0 .. n
    BY <1>0, <1>1, InList
  <2>2. CASE i % (n + 1) = 0
    BY <2>2
  <2>3. CASE i % (n + 1) # 0
    <3> DEFINE k == i \div (n + 1) + 1
               j == i % (n + 1)
    <3>1. k \in 1 .. Len(items) /\ j \in 1 .. n
      BY <2>1, <2>3, <1>0
    <3> HIDE DEF k, j
    <3>2. items[k] \in Seq(S) /\ Len(items[k]) = n
      BY <3>1
    <3>3. items[k][j] \in S
      BY <3>1, <3>2
    <3> QED BY <3>3, <2>3 DEF k, j
  <2> QED BY <2>2, <2>3
<1>2. Listed(n, items) = [i \in 1 .. M |-> E(i)]
  BY DEF Listed
<1> HIDE DEF E
<1>3. CASE items = <<>>
  <2>1. 1 .. M = {} /\ M = -1
    BY <1>0, <1>3, EmptySeq
  <2>2. Listed(n, items) = <<>>
    BY <1>2, <2>1
  <2> QED BY <1>2, <1>3, <2>1, <2>2, EmptySeq DEF E
<1>4. CASE items # <<>>
  <2>1. M \in Nat
    BY <1>0, <1>4, ListLength
  <2> HIDE DEF M
  <2>2. Listed(n, items) \in [1 .. M -> S]
    BY <1>1, <1>2
  <2>3. Listed(n, items) \in Seq(S) /\ Len(Listed(n, items)) = M
    BY <1>2, <2>1, <2>2
  <2>4. \A i \in 1 .. M : Listed(n, items)[i] = E(i)
    BY <1>2
  <2> QED BY <1>4, <2>3, <2>4 DEF E, M
<1> QED BY <1>3, <1>4

(* A part of a text is a text.                                             *)
LEMMA SliceTokens ==
  ASSUME NEW S, NEW L \in Seq(S), NEW from \in Nat, NEW n \in Nat, from + n <= Len(L)
  PROVE  /\ SubSeq(L, from + 1, from + n) \in Seq(S)
         /\ Len(SubSeq(L, from + 1, from + n)) = n
         /\ \A j \in 1 .. n : SubSeq(L, from + 1, from + n)[j] = L[from + j]
<1>1. \A i \in from + 1 .. from + n : L[i] \in S
  OBVIOUS
<1>2. from + 1 \in Int /\ from + n \in Int /\ from + n - (from + 1) + 1 = n
      /\ (from + 1 <= from + n <=> n # 0)
  OBVIOUS
<1>3. /\ SubSeq(L, from + 1, from + n) \in Seq(S)
      /\ Len(SubSeq(L, from + 1, from + n)) = IF from + 1 <= from + n THEN from + n - (from + 1) + 1 ELSE 0
      /\ \A i \in 1 .. from + n - (from + 1) + 1 : SubSeq(L, from + 1, from + n)[i] = L[from + 1 + i - 1]
  BY <1>1, <1>2, SubSeqProperties
<1>4. Len(SubSeq(L, from + 1, from + n)) = n
  BY <1>2, <1>3
<1>5. \A j \in 1 .. n : SubSeq(L, from + 1, from + n)[j] = L[from + j]
  <2>1. \A j \in 1 .. n : from + 1 + j - 1 = from + j
    OBVIOUS
  <2> QED BY <1>2, <1>3, <2>1
<1> QED BY <1>3, <1>4, <1>5

(* A part of a text is the text that is at its places.                     *)
LEMMA Slice ==
  ASSUME NEW S, NEW L \in Seq(S), NEW from \in Nat, NEW n \in Nat, from + n <= Len(L),
         NEW t \in Seq(S), Len(t) = n, \A j \in 1 .. n : L[from + j] = t[j]
  PROVE  SubSeq(L, from + 1, from + n) = t
  BY SliceTokens, SeqEqual

(* The k-th item of a printed list is the one that was printed.            *)
LEMMA ListedItem ==
  ASSUME NEW n \in Lengths, NEW S, NEW items \in Seq(Seq(S)), Word("comma") \in S,
         \A k \in 1 .. Len(items) : Len(items[k]) = n,
         NEW k \in 1 .. Len(items)
  PROVE  Item(n, Listed(n, items), k) = items[k]
<1> DEFINE L == Listed(n, items)
           K == Len(items)
           M == K * (n + 1) - 1
           a == k - 1
           from == a * (n + 1)
<1>0. K \in Nat \ {0} /\ n \in Nat \ {0} /\ a \in 0 .. K - 1 /\ a + 1 = k /\ items # <<>>
  BY EmptySeq DEF Lengths
<1>1. items[k] \in Seq(S) /\ Len(items[k]) = n
  OBVIOUS
<1>2. /\ L \in Seq(S) /\ Len(L) = M
      /\ \A i \in 1 .. M :
           L[i] = IF i % (n + 1) = 0 THEN Word("comma") ELSE items[i \div (n + 1) + 1][i % (n + 1)]
  BY <1>0, ListedTokens
<1>3. from \in Nat /\ from + n <= M /\ M \in Nat
  <2>1. k - 1 = a
    OBVIOUS
  <2> HIDE DEF a, K
  <2>2. k \in 1 .. K
    BY DEF K
  <2> QED BY <1>0, <2>1, <2>2, ListLength
<1>4. \A j \in 1 .. n : (from + j) % (n + 1) = j /\ (from + j) \div (n + 1) = a
  <2> HIDE DEF a, K
  <2> TAKE j \in 1 .. n
  <2>1. j \in 0 .. n
    BY <1>0
  <2>2. a \in Nat
    BY <1>0
  <2>3. (a * (n + 1) + j) % (n + 1) = j /\ (a * (n + 1) + j) \div (n + 1) = a
    BY <2>1, <2>2, Position
  <2> QED BY <2>3
<1>5. Item(n, L, k) = SubSeq(L, from + 1, from + n)
  BY DEF Item
<1> HIDE DEF L, M, from, a, K
<1>6. ASSUME NEW j \in 1 .. n PROVE L[from + j] = items[k][j]
  <2>1. from + j \in 1 .. M
    BY <1>0, <1>3
  <2>2. j # 0
    BY <1>0
  <2>3. L[from + j] = items[(from + j) \div (n + 1) + 1][(from + j) % (n + 1)]
    BY <1>2, <1>4, <2>1, <2>2
  <2> QED BY <1>0, <1>4, <2>3
<1>7. from + n <= Len(L)
  BY <1>2, <1>3
<1>8. SubSeq(L, from + 1, from + n) = items[k]
  <2>1. from \in Nat /\ n \in Nat
    BY <1>0, <1>3
  <2>2. L \in Seq(S)
    BY <1>2
  <2>3. \A j \in 1 .. n : L[from + j] = items[k][j]
    BY <1>6
  <2> HIDE DEF L
  <2> QED BY <2>1, <2>2, <2>3, <1>1, <1>7, Slice
<1> QED BY <1>5, <1>8 DEF L

(* A list is read as the items it was printed from.                        *)
LEMMA ListedRound ==
  ASSUME NEW production, NEW n \in Lengths, Len(production) = n,
         NEW S, NEW items \in Seq(Seq(S)), Word("comma") \in S, items # <<>>,
         \A k \in 1 .. Len(items) : Len(items[k]) = n
  PROVE  /\ Items(n, Listed(n, items)) = items
         /\ (\A k \in 1 .. Len(items) : Derives(production, items[k])) <=>
              IsList(production, Listed(n, items))
<1> DEFINE L == Listed(n, items)
           K == Len(items)
           M == K * (n + 1) - 1
<1>0. K \in Nat \ {0} /\ n \in Nat \ {0}
  <2>1. K \in Nat \ {0}
    BY EmptySeq
  <2> QED BY <2>1 DEF Lengths
<1>1. /\ L \in Seq(S) /\ Len(L) = M
      /\ \A i \in 1 .. M :
           L[i] = IF i % (n + 1) = 0 THEN Word("comma") ELSE items[i \div (n + 1) + 1][i % (n + 1)]
  BY ListedTokens
<1>3. \A k \in 1 .. K : Item(n, L, k) = items[k]
  BY ListedItem
<1>5. [k \in 1 .. K |-> Item(n, L, k)] = items
  <2>1. items = [k \in 1 .. Len(items) |-> items[k]]
    BY LenProperties
  <2> QED BY <1>3, <2>1
<1> HIDE DEF L, K
<1>2. M \in Nat \ {0} /\ (M + 1) % (n + 1) = 0 /\ (M + 1) \div (n + 1) = K
  BY <1>0, ListLength
<1> HIDE DEF M
<1>4. Items(n, L) = [k \in 1 .. K |-> Item(n, L, k)]
  BY <1>1, <1>2 DEF Items
<1>6. L # <<>> /\ \A i \in DOMAIN L : i % (n + 1) = 0 => L[i] = Word("comma")
  <2>1. DOMAIN L = 1 .. M
    BY <1>1, LenProperties
  <2>2. L # <<>>
    BY <1>1, <1>2, EmptySeq
  <2> QED BY <1>1, <2>1, <2>2
<1>7. IsList(production, L) <=> \A k \in 1 .. K : Derives(production, Item(n, L, k))
  <2>1. DOMAIN Items(n, L) = 1 .. K
    BY <1>4
  <2> QED BY <2>1, <1>1, <1>2, <1>6 DEF IsList
<1> QED BY <1>3, <1>4, <1>5, <1>7 DEF L, K

(* Lexing a printed list prints the list of the lexed items.               *)
LEMMA LexedList ==
  ASSUME NEW n \in Lengths, NEW items \in Seq(Seq(HexText)),
         \A k \in 1 .. Len(items) : Len(items[k]) = n
  PROVE  LET lexed == [k \in 1 .. Len(items) |-> LexHex(items[k])]
         IN /\ lexed \in Seq(Seq(LexedText)) /\ Len(lexed) = Len(items)
            /\ \A k \in 1 .. Len(items) : Len(lexed[k]) = n
            /\ Listed(n, items) \in Seq(HexText)
            /\ LexHex(Listed(n, items)) = Listed(n, lexed)
<1> DEFINE lexed == [k \in 1 .. Len(items) |-> LexHex(items[k])]
           M == Len(items) * (n + 1) - 1
<1>1. \A k \in 1 .. Len(items) : /\ LexHex(items[k]) \in Seq(LexedText) /\ Len(LexHex(items[k])) = n
                                 /\ \A i \in 1 .. n : LexHex(items[k])[i] = HexToken(items[k][i])
  BY LexHexText
<1>2. lexed \in Seq(Seq(LexedText)) /\ Len(lexed) = Len(items) /\ \A k \in 1 .. Len(items) : lexed[k] = LexHex(items[k])
  BY <1>1
<1> HIDE DEF lexed
<1>3. Word("comma") \in HexText /\ Word("comma") \in LexedText
  BY DEF HexText, LexedText, Words
<1>4. \A k \in 1 .. Len(lexed) : Len(lexed[k]) = n
  BY <1>1, <1>2
<1>5. /\ Listed(n, items) \in Seq(HexText)
      /\ items # <<>> => Len(Listed(n, items)) = M
      /\ items = <<>> => Listed(n, items) = <<>>
      /\ \A i \in 1 .. M : Listed(n, items)[i] = IF i % (n + 1) = 0 THEN Word("comma")
                                                 ELSE items[i \div (n + 1) + 1][i % (n + 1)]
  BY <1>3, ListedTokens
<1>6. /\ Listed(n, lexed) \in Seq(LexedText)
      /\ lexed # <<>> => Len(Listed(n, lexed)) = M
      /\ lexed = <<>> => Listed(n, lexed) = <<>>
      /\ \A i \in 1 .. M : Listed(n, lexed)[i] = IF i % (n + 1) = 0 THEN Word("comma")
                                                 ELSE lexed[i \div (n + 1) + 1][i % (n + 1)]
  BY <1>2, <1>3, <1>4, ListedTokens
<1>7. lexed = <<>> <=> items = <<>>
  BY <1>2, EmptySeq
<1>8. LexHex(Listed(n, items)) = Listed(n, lexed)
  <2>1. /\ LexHex(Listed(n, items)) \in Seq(LexedText)
        /\ Len(LexHex(Listed(n, items))) = Len(Listed(n, items))
        /\ \A i \in 1 .. Len(Listed(n, items)) : LexHex(Listed(n, items))[i] = HexToken(Listed(n, items)[i])
    BY <1>5, LexHexText
  <2>2. Len(Listed(n, items)) = Len(Listed(n, lexed))
    BY <1>5, <1>6, <1>7
  <2>3. ASSUME NEW i \in 1 .. Len(Listed(n, items))
        PROVE  LexHex(Listed(n, items))[i] = Listed(n, lexed)[i]
    <3>1. items # <<>> /\ i \in 1 .. M
      <4>1. CASE items = <<>>
        <5>1. Len(Listed(n, items)) = 0
          BY <4>1, <1>5, EmptySeq
        <5> QED BY <5>1
      <4>2. CASE items # <<>>
        <5>1. Len(Listed(n, items)) = M
          BY <4>2, <1>5
        <5> HIDE DEF M
        <5> QED BY <4>2, <5>1
      <4> QED BY <4>1, <4>2
    <3>2. CASE i % (n + 1) = 0
      BY <2>1, <3>1, <3>2, <1>5, <1>6, HexTokenWord
    <3>3. CASE i % (n + 1) # 0
      <4>1. i \div (n + 1) \in 0 .. Len(items) - 1 /\ i % (n + 1) \in 0 .. n
        BY <3>1, InList
      <4> DEFINE k == i \div (n + 1) + 1
                 j == i % (n + 1)
      <4>2. k \in 1 .. Len(items) /\ j \in 1 .. n
        BY <4>1, <3>3 DEF Lengths
      <4>3. Listed(n, items)[i] = items[k][j] /\ Listed(n, lexed)[i] = lexed[k][j]
        BY <3>1, <3>3, <1>5, <1>6
      <4> HIDE DEF k, j
      <4> QED BY <2>1, <4>2, <4>3, <1>1, <1>2
    <3> QED BY <3>2, <3>3
  <2> QED BY <2>1, <2>2, <2>3, <1>6, SeqEqual
<1> QED BY <1>2, <1>4, <1>5, <1>8 DEF lexed

----------------------------------------------------------------------------
(* Sequences of numbers: the members of a codec and of most properties.    *)
Vectors(members) ==
  {c \in Seq(Number(16)) : /\ Len(c) = Len(members)
                           /\ \A i \in 1 .. Len(members) : c[i] \in Number(members[i])}

(* The first m members printed, token by token.                            *)
LEMMA HexPrefix ==
  ASSUME NEW digits \in Seq(1 .. 16), NEW c \in Seq(Number(16)),
         NEW m \in Nat, m <= Len(digits), m <= Len(c)
  PROVE  LET h == Hex(SubSeq(digits, 1, m), SubSeq(c, 1, m))
         IN /\ h \in Seq(HexText) /\ Len(h) = m
            /\ \A i \in 1 .. m : h[i] = MAKE_HEX_STRING(digits[i], c[i])
<1> DEFINE d == SubSeq(digits, 1, m)
           e == SubSeq(c, 1, m)
<1>1. d \in Seq(1 .. 16) /\ Len(d) = m /\ \A i \in 1 .. m : d[i] = digits[i]
  OBVIOUS
<1>2. e \in Seq(Number(16)) /\ Len(e) = m /\ \A i \in 1 .. m : e[i] = c[i]
  OBVIOUS
<1> HIDE DEF d, e
<1>3. ASSUME NEW i \in 1 .. m
      PROVE  MAKE_HEX_STRING(d[i], e[i]) \in HexText
  <2>1. d[i] \in 1 .. 16 /\ e[i] \in Number(16) /\ 16 \in d[i] .. 16
    BY <1>1, <1>2
  <2> QED BY <2>1, HexRound
<1>4. Hex(d, e) = [i \in 1 .. m |-> MAKE_HEX_STRING(d[i], e[i])]
  BY <1>1 DEF Hex
<1>5. Hex(d, e) \in Seq(HexText) /\ Len(Hex(d, e)) = m
      /\ \A i \in 1 .. m : Hex(d, e)[i] = MAKE_HEX_STRING(d[i], e[i])
  BY <1>3, <1>4
<1> QED BY <1>1, <1>2, <1>5 DEF d, e

(* All the members printed, token by token.                                *)
LEMMA HexVector ==
  ASSUME NEW digits \in Seq(1 .. 16), NEW c \in Seq(Number(16)), Len(digits) = Len(c)
  PROVE  /\ Hex(digits, c) \in Seq(HexText) /\ Len(Hex(digits, c)) = Len(c)
         /\ \A i \in 1 .. Len(c) : Hex(digits, c)[i] = MAKE_HEX_STRING(digits[i], c[i])
<1>1. SubSeq(digits, 1, Len(c)) = digits /\ SubSeq(c, 1, Len(c)) = c /\ Len(c) \in Nat
  BY SubSeqFull
<1>2. /\ Hex(SubSeq(digits, 1, Len(c)), SubSeq(c, 1, Len(c))) \in Seq(HexText)
      /\ Len(Hex(SubSeq(digits, 1, Len(c)), SubSeq(c, 1, Len(c)))) = Len(c)
      /\ \A i \in 1 .. Len(c) :
           Hex(SubSeq(digits, 1, Len(c)), SubSeq(c, 1, Len(c)))[i] = MAKE_HEX_STRING(digits[i], c[i])
  <2>1. Len(c) \in Nat /\ Len(c) <= Len(digits) /\ Len(c) <= Len(c)
    BY <1>1
  <2> QED BY <2>1, HexPrefix
<1> QED BY <1>1, <1>2

(* Reading a text: the members have values of their types.                 *)
(* What the text v of a vector c is read back as: a vector whose numbers   *)
(* are as long as the text, and c itself if its numbers are.               *)
VectorIsReadBack(members, digits, H, c, v) ==
  LET t == LexHex(v)
      r == Assign(members, t)
  IN /\ t \in Seq(LexedText) /\ Len(t) = Len(members)
     /\ r \in Vectors(members)
     /\ \A i \in 1 .. Len(members) :
          /\ Terminal(t[i]) \in {"NUM", "none"}
          /\ i \in H => Terminal(t[i]) = "NUM" /\ Len(r[i].num) <= digits[i]
          /\ i \notin H => Len(r[i].num) <= 4 \/ r[i] = MinusOne(INT)
     /\ (\A i \in 1 .. Len(members) :
          /\ i \in H => Len(c[i].num) <= digits[i]
          /\ i \notin H => Len(c[i].num) <= 4 \/ c[i] = MinusOne(INT)) => r = c

(* Numbers and "none" read into the members of a vector are a vector.      *)
LEMMA VectorRead ==
  ASSUME NEW members \in Seq(1 .. 16), NEW tokens \in Seq(LexedText),
         Len(tokens) = Len(members),
         \A i \in 1 .. Len(members) : Terminal(tokens[i]) \in {"NUM", "none"}
  PROVE  Assign(members, tokens) \in Vectors(members)
<1>1. ASSUME NEW i \in 1 .. Len(members)
      PROVE  Assigned(members[i], tokens[i]) \in Number(members[i])
  <2>1. members[i] \in 1 .. 16 /\ tokens[i] \in LexedText
    OBVIOUS
  <2>2. members[i] \in Nat \ {0}
    BY <2>1
  <2>3. CASE Terminal(tokens[i]) = "NUM"
    BY <2>1, <2>2, <2>3, LexedTokens, AssignedNumber
  <2>4. CASE Terminal(tokens[i]) = "none"
    <3>1. tokens[i] = NONE
      BY <2>1, <2>4, LexedTokens DEF NONE, Words
    <3>2. Assigned(members[i], tokens[i]) = MinusOne(members[i])
      BY <3>1, <2>2 DEF Assigned, AsRead
    <3> QED BY <3>2, <2>2, MinusOneNumber
  <2> QED BY <2>3, <2>4
<1>2. \A i \in 1 .. Len(members) : Number(members[i]) \subseteq Number(16)
  <2> TAKE i \in 1 .. Len(members)
  <2>1. members[i] \in Nat /\ members[i] <= 16
    OBVIOUS
  <2> QED BY <2>1, WiderNumber
<1>3. Assign(members, tokens) = [i \in 1 .. Len(members) |-> Assigned(members[i], tokens[i])]
  BY DEF Assign
<1>4. Assign(members, tokens) \in Seq(Number(16)) /\ Len(Assign(members, tokens)) = Len(members)
  BY <1>1, <1>2, <1>3
<1> QED BY <1>1, <1>3, <1>4 DEF Vectors

(* Printing members and reading them: H is the set of those that are       *)
(* printed whatever their sign.                                            *)
LEMMA VectorRound ==
  ASSUME NEW members \in Seq(1 .. 16), NEW digits \in Seq(1 .. 16), Len(digits) = Len(members),
         \A i \in 1 .. Len(members) : digits[i] <= members[i],
         NEW c \in Vectors(members), NEW v \in Seq(HexText), Len(v) = Len(members),
         NEW H,
         \A i \in 1 .. Len(members) :
           /\ i \in H => v[i] = MAKE_HEX_STRING(digits[i], c[i])
           /\ i \notin H => /\ members[i] = INT /\ digits[i] = 4
                            /\ v[i] = IntToString(4, c[i])
  PROVE  VectorIsReadBack(members, digits, H, c, v)
<1> DEFINE t == LexHex(v)
           r == Assign(members, t)
<1>1. /\ t \in Seq(LexedText) /\ Len(t) = Len(members)
      /\ \A i \in 1 .. Len(members) : t[i] = HexToken(v[i])
  BY LexHexText
<1>2. r = [i \in 1 .. Len(members) |-> Assigned(members[i], t[i])]
  BY DEF Assign
<1>3. c \in Seq(Number(16)) /\ Len(c) = Len(members)
      /\ \A i \in 1 .. Len(members) : c[i] \in Number(members[i])
  BY DEF Vectors
<1>t. \A i \in 1 .. Len(members) : members[i] \in 1 .. 16 /\ digits[i] \in 1 .. 16
  OBVIOUS
<1> HIDE DEF t, r
<1>4. ASSUME NEW i \in 1 .. Len(members), i \in H
      PROVE  /\ Terminal(t[i]) = "NUM"
             /\ Len(r[i].num) <= digits[i]
             /\ Len(c[i].num) <= digits[i] => r[i] = c[i]
  <2>1. v[i] = MAKE_HEX_STRING(digits[i], c[i])
    BY <1>4
  <2>2. digits[i] \in 1 .. 16 /\ members[i] \in digits[i] .. 16 /\ c[i] \in Number(members[i])
    <3>1. digits[i] <= members[i]
      OBVIOUS
    <3>2. digits[i] \in 1 .. 16 /\ members[i] \in 1 .. 16
      BY <1>t
    <3>3. c[i] \in Number(members[i])
      BY <1>3
    <3> QED BY <3>1, <3>2, <3>3
  <2>3. /\ HexToken(v[i]) \in Number(16)
        /\ Len(Assigned(members[i], HexToken(v[i])).num) <= digits[i]
        /\ Len(c[i].num) <= digits[i] => Assigned(members[i], HexToken(v[i])) = c[i]
    <3>1. /\ HexToken(MAKE_HEX_STRING(digits[i], c[i])) \in Number(16)
          /\ Len(Assigned(members[i], HexToken(MAKE_HEX_STRING(digits[i], c[i]))).num) <= digits[i]
          /\ Len(c[i].num) <= digits[i] =>
               Assigned(members[i], HexToken(MAKE_HEX_STRING(digits[i], c[i]))) = c[i]
      BY <2>2, HexRound
    <3> QED BY <2>1, <3>1
  <2>4. t[i] = HexToken(v[i]) /\ r[i] = Assigned(members[i], HexToken(v[i]))
    BY <1>1, <1>2
  <2>5. Terminal(t[i]) = "NUM"
    BY <2>3, <2>4, NumberToken
  <2> QED BY <2>3, <2>4, <2>5
<1>5. ASSUME NEW i \in 1 .. Len(members), i \notin H
      PROVE  /\ Terminal(t[i]) \in {"NUM", "none"}
             /\ Len(r[i].num) <= 4 \/ r[i] = MinusOne(INT)
             /\ Len(c[i].num) <= 4 \/ c[i] = MinusOne(INT) => r[i] = c[i]
  <2>1. v[i] = IntToString(4, c[i]) /\ members[i] = INT /\ c[i] \in Number(INT)
    BY <1>3, <1>5
  <2>2. /\ HexToken(v[i]) \in Number(16) \/ HexToken(v[i]) = NONE
        /\ \/ Assigned(INT, HexToken(v[i])) = MinusOne(INT)
           \/ Len(Assigned(INT, HexToken(v[i])).num) <= 4
        /\ c[i] = MinusOne(INT) \/ Len(c[i].num) <= 4 => Assigned(INT, HexToken(v[i])) = c[i]
    BY <2>1, IntRound
  <2>3. t[i] = HexToken(v[i]) /\ r[i] = Assigned(INT, HexToken(v[i]))
    BY <1>1, <1>2, <2>1
  <2>4. Terminal(t[i]) \in {"NUM", "none"}
    BY SMTT(30), <2>2, <2>3, NumberToken, Tokens DEF NONE
  <2> QED BY <2>2, <2>3, <2>4
<1>6. \A i \in 1 .. Len(members) : Terminal(t[i]) \in {"NUM", "none"}
  BY <1>4, <1>5
<1>7. r \in Vectors(members)
  BY <1>1, <1>6, VectorRead DEF r
<1>8. ASSUME \A i \in 1 .. Len(members) :
                 /\ i \in H => Len(c[i].num) <= digits[i]
                 /\ i \notin H => Len(c[i].num) <= 4 \/ c[i] = MinusOne(INT)
      PROVE  r = c
  <2>1. \A i \in 1 .. Len(members) : r[i] = c[i]
    BY <1>4, <1>5, <1>8
  <2>2. r \in Seq(Number(16)) /\ Len(r) = Len(members)
    BY <1>7 DEF Vectors
  <2> QED BY <2>1, <2>2, <1>3, SeqEqual
<1> QED BY <1>1, <1>4, <1>5, <1>6, <1>7, <1>8 DEF t, r, VectorIsReadBack

----------------------------------------------------------------------------
(* The items of a list that was read, and those of one that was printed.   *)
LEMMA ListRead ==
  ASSUME NEW production, NEW n \in Lengths, Len(production) = n,
         NEW S, NEW tokens \in Seq(S), IsList(production, tokens)
  PROVE  \E K \in Nat \ {0} :
           /\ DOMAIN Items(n, tokens) = 1 .. K
           /\ \A k \in 1 .. K : /\ Item(n, tokens, k) \in Seq(S) /\ Len(Item(n, tokens, k)) = n
                                /\ Derives(production, Item(n, tokens, k))
<1> DEFINE K == (Len(tokens) + 1) \div (n + 1)
<1>1. Len(tokens) \in Nat \ {0} /\ (Len(tokens) + 1) % (n + 1) = 0 /\ n \in Nat \ {0}
  <2>1. tokens # <<>> /\ (Len(tokens) + 1) % (n + 1) = 0
    BY DEF IsList
  <2> QED BY <2>1, EmptySeq DEF Lengths
<1>2. K \in Nat \ {0} /\ Len(tokens) = K * (n + 1) - 1
  <2>1. CASE n = 1
    BY <1>1, <2>1
  <2>2. CASE n = 3
    BY <1>1, <2>2
  <2>3. CASE n = 9
    BY <1>1, <2>3
  <2>4. CASE n = 11
    BY <1>1, <2>4
  <2> QED BY <2>1, <2>2, <2>3, <2>4 DEF Lengths
<1>3. Items(n, tokens) = [k \in 1 .. K |-> Item(n, tokens, k)]
  BY DEF Items
<1> HIDE DEF K
<1>4. DOMAIN Items(n, tokens) = 1 .. K
  BY <1>3
<1>5. ASSUME NEW k \in 1 .. K
      PROVE  /\ Item(n, tokens, k) \in Seq(S) /\ Len(Item(n, tokens, k)) = n
             /\ Derives(production, Item(n, tokens, k))
  <2> DEFINE from == (k - 1) * (n + 1)
  <2>1. from \in Nat /\ from + n <= Len(tokens)
    <3>1. K \in Nat \ {0}
      BY <1>2
    <3>2. from \in Nat /\ from + n <= K * (n + 1) - 1
      BY <3>1, ListLength
    <3> QED BY <1>2, <3>2
  <2>2. Item(n, tokens, k) = SubSeq(tokens, from + 1, from + n)
    BY DEF Item
  <2> HIDE DEF from
  <2>4. SubSeq(tokens, from + 1, from + n) \in Seq(S) /\ Len(SubSeq(tokens, from + 1, from + n)) = n
    <3>1. n \in Nat /\ from \in Nat /\ from + n <= Len(tokens)
      BY <1>1, <2>1
    <3> QED BY <3>1, SliceTokens
  <2>5. Derives(production, Item(n, tokens, k))
    BY <1>4, <1>5 DEF IsList
  <2> QED BY <2>2, <2>4, <2>5
<1> QED BY <1>2, <1>4, <1>5

(* A printed list is taken by the list's grammar if each item is, and is   *)
(* read item by item.                                                      *)
THEOREM ListedAssign ==
  ASSUME NEW production, NEW n \in Lengths, Len(production) = n, NEW codec,
         NEW S, NEW items \in Seq(Seq(S)), Word("comma") \in S, items # <<>>,
         \A k \in 1 .. Len(items) : Len(items[k]) = n
  PROVE  LET T == Listed(n, items)
         IN /\ AssignItems(codec, n, T) = [k \in DOMAIN items |-> Assign(codec, items[k])]
            /\ T \in Seq(S) /\ T # <<>>
            /\ IsList(production, T) <=> \A k \in 1 .. Len(items) : Derives(production, items[k])
<1> DEFINE T == Listed(n, items)
<1>1. /\ Items(n, T) = items
      /\ (\A k \in 1 .. Len(items) : Derives(production, items[k])) <=> IsList(production, T)
  BY ListedRound
<1>2. \A k \in 1 .. Len(items) : Item(n, T, k) = items[k]
  BY ListedItem
<1>3. T \in Seq(S) /\ Len(T) = Len(items) * (n + 1) - 1
  BY ListedTokens
<1>4. Len(items) \in Nat \ {0}
  BY EmptySeq
<1>5. Len(T) \in Nat \ {0}
  BY <1>3, <1>4, ListLength
<1>6. T # <<>>
  BY <1>5, EmptySeq
<1> HIDE DEF T
<1>7. DOMAIN Items(n, T) = 1 .. Len(items) /\ DOMAIN items = 1 .. Len(items)
  BY <1>1
<1> QED BY <1>1, <1>2, <1>3, <1>6, <1>7 DEF T, AssignItems

(* What is read from any list is a sequence of what is read from an item.  *)
LEMMA ListValues ==
  ASSUME NEW production, NEW n \in Lengths, Len(production) = n, NEW codec, NEW V,
         NEW S, NEW tokens \in Seq(S), IsList(production, tokens),
         \A item \in Seq(S) : Len(item) = n /\ Derives(production, item) => Assign(codec, item) \in V
  PROVE  AssignItems(codec, n, tokens) \in Seq(V)
<1>1. PICK K \in Nat \ {0} :
         /\ DOMAIN Items(n, tokens) = 1 .. K
         /\ \A k \in 1 .. K : /\ Item(n, tokens, k) \in Seq(S) /\ Len(Item(n, tokens, k)) = n
                              /\ Derives(production, Item(n, tokens, k))
  BY ListRead
<1>2. \A k \in 1 .. K : Assign(codec, Item(n, tokens, k)) \in V
  BY <1>1
<1> QED BY <1>1, <1>2 DEF AssignItems

(* A token before two others.                                              *)
LEMMA ConcatPair ==
  ASSUME NEW x, NEW a, NEW b
  PROVE  <<x>> \o <<a, b>> = <<x, a, b>>
<1> DEFINE S == {x, a, b}
           s == <<x>> \o <<a, b>>
<1>1. <<x>> \in Seq(S) /\ <<a, b>> \in Seq(S) /\ Len(<<x>>) = 1 /\ Len(<<a, b>>) = 2
  OBVIOUS
<1>2. s \in Seq(S) /\ Len(s) = 3 /\ s[1] = x /\ s[2] = a /\ s[3] = b
  BY <1>1, ConcatProperties
<1> HIDE DEF s
<1>3. s = <<x, a, b>>
  BY <1>2
<1> QED BY <1>3 DEF s

(* A member kept as a text is what was read.                               *)
LEMMA AssignedAsRead ==
  ASSUME NEW token
  PROVE  Assigned(0, token) = token
  BY DEF Assigned, AsRead

(* "none" is a text in every mode, and is lexed as itself.                 *)
LEMMA NoneText ==
  /\ <<NONE>> \in Seq(HexText) /\ <<NONE>> \in Seq(LexedText) /\ <<NONE>> \in Seq(PlainText)
  /\ LexHex(<<NONE>>) = <<NONE>>
<1>1. NONE \in HexText /\ NONE \in LexedText /\ NONE \in PlainText
  BY DEF NONE, HexText, LexedText, PlainText, Words
<1>2. HexToken(NONE) = NONE
  BY HexTokenWord DEF NONE
<1>3. LexHex(<<NONE>>) = [i \in 1 .. 1 |-> HexToken(<<NONE>>[i])]
  BY DEF LexHex
<1> QED BY <1>1, <1>2, <1>3

----------------------------------------------------------------------------
AudioCodecValues ==
  {<<Word(f), modes, latency>> : f \in AudioFormat, modes \in Number(UINT), latency \in Number(USHORT)}
HeldAudioCodecs ==
  {NoneProperty("wfd_audio_codecs")} \cup
  {Property("wfd_audio_codecs", <<>>, cs) : cs \in Seq(AudioCodecValues)}

(* An audio codec is printed as three tokens of its grammar, and read back *)
(* the same if its latency has two digits.                                 *)
LEMMA AudioCodecText ==
  ASSUME NEW c \in AudioCodecValues
  PROVE  LET v == AudioCodecToString(c)
             r == Assign(AudioCodec, LexHex(v))
         IN /\ v \in Seq(HexText) /\ Len(v) = 3
            /\ Derives(AudioCodecList, LexHex(v))
            /\ r \in AudioCodecValues
            /\ Len(r[3].num) <= 2
            /\ Len(c[3].num) <= 2 => r = c
<1>1. PICK f \in AudioFormat, modes \in Number(8), latency \in Number(4) :
        c = <<Word(f), modes, latency>>
  BY DEF AudioCodecValues, UINT, USHORT
<1> DEFINE a == MAKE_HEX_STRING(8, modes)
           b == MAKE_HEX_STRING(2, latency)
           v == <<Word(f), a, b>>
           t == <<Word(f), HexToken(a), HexToken(b)>>
           r == <<Word(f), Assigned(8, HexToken(a)), Assigned(4, HexToken(b))>>
<1>2. AudioCodecToString(c) = v
  <2>1. Hex(<<8, 2>>, <<modes, latency>>) = <<a, b>>
    BY DEF Hex
  <2>2. AudioCodecToString(c) = <<Word(f)>> \o Hex(<<8, 2>>, <<modes, latency>>)
    BY <1>1 DEF AudioCodecToString
  <2> HIDE DEF a, b
  <2>3. AudioCodecToString(c) = <<Word(f)>> \o <<a, b>>
    BY <2>1, <2>2
  <2> QED BY <2>3, ConcatPair
<1>3. /\ a \in HexText /\ HexToken(a) \in Number(16)
      /\ Assigned(8, HexToken(a)) \in Number(8)
      /\ Assigned(8, HexToken(a)) = modes
  <2>1. 8 \in 1 .. 16 /\ 8 \in 8 .. 16 /\ Len(modes.num) <= 8
    BY Numbers
  <2> QED BY <2>1, HexRound
<1>4. /\ b \in HexText /\ HexToken(b) \in Number(16)
      /\ Assigned(4, HexToken(b)) \in Number(4)
      /\ Len(Assigned(4, HexToken(b)).num) <= 2
      /\ Len(latency.num) <= 2 => Assigned(4, HexToken(b)) = latency
  <2>1. 2 \in 1 .. 16 /\ 4 \in 2 .. 16
    OBVIOUS
  <2> QED BY <2>1, HexRound
<1> HIDE DEF a, b
<1>5. Word(f) \in HexText
  BY DEF HexText, Words
<1>6. LexHex(v) = t
  <2>1. LexHex(v) = [i \in 1 .. 3 |-> HexToken(v[i])]
    BY DEF LexHex
  <2> QED BY <2>1, HexTokenWord
<1>7. Derives(AudioCodecList, t)
  <2>1. Terminal(Word(f)) = f /\ Terminal(HexToken(a)) = "NUM" /\ Terminal(HexToken(b)) = "NUM"
    BY <1>3, <1>4, Tokens, NumberToken
  <2> QED BY <2>1 DEF Derives, AudioCodecList
<1>8. Assign(AudioCodec, t) = r
  <2>1. Assigned(0, Word(f)) = Word(f)
    BY AssignedAsRead
  <2>2. Assign(AudioCodec, t) = <<Assigned(0, Word(f)), Assigned(8, HexToken(a)), Assigned(4, HexToken(b))>>
    BY DEF Assign, AudioCodec, AsRead, UINT, USHORT
  <2> QED BY <2>1, <2>2
<1>9. r \in AudioCodecValues
  BY <1>3, <1>4 DEF AudioCodecValues, UINT, USHORT
<1>10. v \in Seq(HexText) /\ Len(v) = 3
  BY <1>3, <1>4, <1>5
<1>11. r[3] = Assigned(4, HexToken(b)) /\ c[3] = latency
  BY <1>1
<1>12. Len(c[3].num) <= 2 => r = c
  BY <1>1, <1>3, <1>4, <1>11
<1> QED BY <1>2, <1>4, <1>6, <1>7, <1>8, <1>9, <1>10, <1>11, <1>12

(* What is read as an audio codec is one.                                  *)
LEMMA AudioCodecRead ==
  ASSUME NEW tokens \in Seq(LexedText), Len(tokens) = 3, Derives(AudioCodecList, tokens)
  PROVE  Assign(AudioCodec, tokens) \in AudioCodecValues
<1>1. /\ Terminal(tokens[1]) \in AudioFormat /\ Terminal(tokens[2]) = "NUM" /\ Terminal(tokens[3]) = "NUM"
      /\ tokens[1] \in LexedText /\ tokens[2] \in LexedText /\ tokens[3] \in LexedText
  <2>1. DOMAIN tokens = 1 .. 3
    OBVIOUS
  <2> QED BY <2>1 DEF Derives, AudioCodecList
<1>2. tokens[1] = Word(Terminal(tokens[1]))
  BY <1>1, LexedTokens DEF Words
<1>3. tokens[2] \in Number(16) /\ tokens[3] \in Number(16)
  BY <1>1, LexedTokens
<1>4. Assigned(8, tokens[2]) \in Number(8) /\ Assigned(4, tokens[3]) \in Number(4)
  BY <1>3, AssignedNumber
<1>5. Assign(AudioCodec, tokens) = <<tokens[1], Assigned(8, tokens[2]), Assigned(4, tokens[3])>>
  <2>1. Assigned(0, tokens[1]) = tokens[1]
    BY AssignedAsRead
  <2>2. Assign(AudioCodec, tokens) = <<Assigned(0, tokens[1]), Assigned(8, tokens[2]), Assigned(4, tokens[3])>>
    BY DEF Assign, AudioCodec, AsRead, UINT, USHORT
  <2> QED BY <2>1, <2>2
<1> QED BY <1>1, <1>2, <1>4, <1>5 DEF AudioCodecValues, UINT, USHORT

(* The fields of a property with a value, and of one that is "none".       *)
LEMMA PropertyFields ==
  ASSUME NEW type, NEW members, NEW lists
  PROVE  /\ Property(type, members, lists).type = type
         /\ Property(type, members, lists).none = FALSE
         /\ Property(type, members, lists).members = members
         /\ Property(type, members, lists).lists = lists
         /\ NoneProperty(type).type = type
         /\ NoneProperty(type).none = TRUE
         /\ NoneProperty(type).members = <<>>
         /\ NoneProperty(type).lists = <<>>
  BY DEF Property, NoneProperty

(* A list of items is read back as a list of the values of its items, each *)
(* of them in V.                                                           *)
IsReadBack(production, n, codec, V, items) ==
  LET T == LexHex(Listed(n, items))
      read == AssignItems(codec, n, T)
  IN /\ Listed(n, items) \in Seq(HexText)
     /\ T \in Seq(LexedText) /\ IsList(production, T)
     /\ read \in Seq(V) /\ read # <<>> /\ Len(read) = Len(items)
     /\ \A k \in 1 .. Len(items) : read[k] = Assign(codec, LexHex(items[k]))

(* A list whose items can each be read is read back.                       *)
LEMMA ListRound ==
  ASSUME NEW production, NEW n \in Lengths, Len(production) = n, NEW codec, NEW V,
         NEW items \in Seq(Seq(HexText)), items # <<>>,
         \A k \in 1 .. Len(items) : /\ Len(items[k]) = n
                                    /\ Derives(production, LexHex(items[k]))
                                    /\ Assign(codec, LexHex(items[k])) \in V
  PROVE  IsReadBack(production, n, codec, V, items)
<1> DEFINE lexed == [k \in 1 .. Len(items) |-> LexHex(items[k])]
           T == Listed(n, lexed)
<1>1. /\ lexed \in Seq(Seq(LexedText)) /\ Len(lexed) = Len(items)
      /\ \A k \in 1 .. Len(items) : Len(lexed[k]) = n
      /\ Listed(n, items) \in Seq(HexText)
      /\ LexHex(Listed(n, items)) = T
  BY LexedList
<1>2. \A k \in 1 .. Len(items) : lexed[k] = LexHex(items[k])
  OBVIOUS
<1> HIDE DEF lexed
<1>3. Word("comma") \in LexedText
  BY DEF LexedText, Words
<1>4. Len(items) \in Nat \ {0} /\ lexed # <<>> /\ DOMAIN lexed = 1 .. Len(items)
  BY <1>1, EmptySeq
<1>5. /\ AssignItems(codec, n, T) = [k \in DOMAIN lexed |-> Assign(codec, lexed[k])]
      /\ T \in Seq(LexedText)
      /\ IsList(production, T) <=> \A k \in 1 .. Len(lexed) : Derives(production, lexed[k])
  <2>1. \A k \in 1 .. Len(lexed) : Len(lexed[k]) = n
    BY <1>1
  <2>2. /\ AssignItems(codec, n, Listed(n, lexed)) = [k \in DOMAIN lexed |-> Assign(codec, lexed[k])]
        /\ Listed(n, lexed) \in Seq(LexedText)
        /\ IsList(production, Listed(n, lexed)) <=> \A k \in 1 .. Len(lexed) : Derives(production, lexed[k])
    <3>1. lexed \in Seq(Seq(LexedText)) /\ Word("comma") \in LexedText /\ lexed # <<>>
      BY <1>1, <1>3, <1>4
    <3>2. AssignItems(codec, n, Listed(n, lexed)) = [k \in DOMAIN lexed |-> Assign(codec, lexed[k])]
      BY <3>1, <2>1, ListedAssign
    <3>3. Listed(n, lexed) \in Seq(LexedText)
      BY <3>1, <2>1, ListedAssign
    <3>4. IsList(production, Listed(n, lexed)) <=> \A k \in 1 .. Len(lexed) : Derives(production, lexed[k])
      BY <3>1, <2>1, ListedAssign
    <3> QED BY <3>2, <3>3, <3>4
  <2> QED BY <2>2
<1> HIDE DEF T
<1>6. IsList(production, T)
  BY <1>1, <1>2, <1>5
<1>7. AssignItems(codec, n, T) = [k \in 1 .. Len(items) |-> Assign(codec, LexHex(items[k]))]
  BY <1>2, <1>4, <1>5
<1>8. AssignItems(codec, n, T) \in Seq(V) /\ Len(AssignItems(codec, n, T)) = Len(items)
  BY <1>4, <1>7
<1>9. AssignItems(codec, n, T) # <<>>
  BY <1>4, <1>8, EmptySeq
<1> QED BY <1>1, <1>5, <1>6, <1>7, <1>8, <1>9 DEF IsReadBack

(* When the text of a list of audio codecs says it all.                    *)
LEMMA SoundAudioCodecs ==
  ASSUME NEW p, p.type = "wfd_audio_codecs", p.none \in BOOLEAN
  PROVE  SoundProperty(p) <=>
           p.none \/ (p.lists # <<>> /\ \A i \in DOMAIN p.lists : Len(p.lists[i][3].num) <= 2)
  BY DEF SoundProperty

(* "none" is not an item of any list.                                      *)
LEMMA NoList ==
  ASSUME NEW production, Len(production) \in {3, 9, 11}
  PROVE  ~IsList(production, <<NONE>>)
<1>1. Len(<<NONE>>) = 1
  OBVIOUS
<1>2. (1 + 1) % (3 + 1) # 0 /\ (1 + 1) % (9 + 1) # 0 /\ (1 + 1) % (11 + 1) # 0
  OBVIOUS
<1> QED BY <1>1, <1>2 DEF IsList

(* No audio codecs: printed "none", and read as it.                        *)
LEMMA AudioCodecsNone ==
  LET none == NoneProperty("wfd_audio_codecs")
  IN /\ AudioCodecsToString(none) = <<NONE>>
     /\ ReadAudioCodecs(<<NONE>>) = {none}
     /\ SoundProperty(none)
<1> DEFINE none == NoneProperty("wfd_audio_codecs")
<1>1. none.lists = <<>> /\ none.type = "wfd_audio_codecs" /\ none.none = TRUE
  BY PropertyFields
<1> HIDE DEF none
<1>2. SoundProperty(none) /\ AudioCodecsToString(none) = <<NONE>>
  BY <1>1, SoundAudioCodecs DEF AudioCodecsToString
<1>3. Len(AudioCodecList) = 3
  BY DEF AudioCodecList
<1>4. ReadAudioCodecs(<<NONE>>) = {none}
  BY <1>3, NoList DEF ReadAudioCodecs, NoneIf, When, none
<1> QED BY <1>2, <1>4 DEF none

(* What is read as audio codecs is a property its class can hold.          *)
LEMMA AudioCodecsRead ==
  ASSUME NEW tokens \in Seq(LexedText), NEW q \in ReadAudioCodecs(tokens)
  PROVE  q \in HeldAudioCodecs
<1> DEFINE cs == AssignItems(AudioCodec, 3, tokens)
<1>1. \/ q = NoneProperty("wfd_audio_codecs")
      \/ IsList(AudioCodecList, tokens) /\ q = Property("wfd_audio_codecs", <<>>, cs)
  BY DEF ReadAudioCodecs, NoneIf, When
<1>2. CASE q = NoneProperty("wfd_audio_codecs")
  BY <1>2 DEF HeldAudioCodecs
<1>3. CASE IsList(AudioCodecList, tokens) /\ q = Property("wfd_audio_codecs", <<>>, cs)
  <2>1. 3 \in Lengths /\ Len(AudioCodecList) = 3
    BY DEF Lengths, AudioCodecList
  <2>2. cs \in Seq(AudioCodecValues)
    BY <1>3, <2>1, AudioCodecRead, ListValues
  <2> QED BY <1>3, <2>2 DEF HeldAudioCodecs
<1> QED BY <1>1, <1>2, <1>3

(* Audio codecs are printed, and read as the same if they are sound.       *)
LEMMA AudioCodecsRound ==
  ASSUME NEW cs \in Seq(AudioCodecValues), NEW p, p = Property("wfd_audio_codecs", <<>>, cs)
  PROVE  LET v == AudioCodecsToString(p)
         IN /\ v \in Seq(HexText)
            /\ \A q \in ReadAudioCodecs(LexHex(v)) : SoundProperty(q)
            /\ SoundProperty(p) => ReadAudioCodecs(LexHex(v)) = {p}
<1>0. p.lists = cs /\ p.type = "wfd_audio_codecs" /\ p.none = FALSE
  BY DEF Property
<1>1. CASE cs = <<>>
  <2>1. AudioCodecsToString(p) = <<NONE>>
    BY <1>0, <1>1 DEF AudioCodecsToString
  <2>2. ~SoundProperty(p)
    BY <1>0, <1>1, SoundAudioCodecs
  <2> QED BY <2>1, <2>2, NoneText, AudioCodecsNone
<1>2. CASE cs # <<>>
  <2> DEFINE items == [i \in DOMAIN cs |-> AudioCodecToString(cs[i])]
             T == LexHex(Listed(3, items))
             read == AssignItems(AudioCodec, 3, T)
             V == {c \in AudioCodecValues : Len(c[3].num) <= 2}
  <2>1. AudioCodecsToString(p) = Listed(3, items)
    BY <1>0, <1>2 DEF AudioCodecsToString
  <2>2. \A i \in 1 .. Len(cs) :
           /\ AudioCodecToString(cs[i]) \in Seq(HexText) /\ Len(AudioCodecToString(cs[i])) = 3
           /\ Derives(AudioCodecList, LexHex(AudioCodecToString(cs[i])))
           /\ Assign(AudioCodec, LexHex(AudioCodecToString(cs[i]))) \in V
           /\ Len(cs[i][3].num) <= 2 => Assign(AudioCodec, LexHex(AudioCodecToString(cs[i]))) = cs[i]
    BY AudioCodecText
  <2>3. /\ items \in Seq(Seq(HexText)) /\ Len(items) = Len(cs)
        /\ \A k \in 1 .. Len(cs) : items[k] = AudioCodecToString(cs[k])
    BY <2>2
  <2> HIDE DEF items
  <2>4. items # <<>> /\ Len(cs) # 0
    BY <1>2, <2>3, EmptySeq
  <2>5. /\ Listed(3, items) \in Seq(HexText)
        /\ T \in Seq(LexedText) /\ IsList(AudioCodecList, T)
        /\ read \in Seq(V) /\ read # <<>> /\ Len(read) = Len(items)
        /\ \A k \in 1 .. Len(items) : read[k] = Assign(AudioCodec, LexHex(items[k]))
    <3> HIDE DEF V
    <3>1. 3 \in Lengths /\ Len(AudioCodecList) = 3
      BY DEF Lengths, AudioCodecList
    <3>2. \A k \in 1 .. Len(items) : /\ Len(items[k]) = 3
                                    /\ Derives(AudioCodecList, LexHex(items[k]))
                                    /\ Assign(AudioCodec, LexHex(items[k])) \in V
      BY <2>2, <2>3
    <3>3. items \in Seq(Seq(HexText)) /\ items # <<>>
      BY <2>3, <2>4
    <3>4. IsReadBack(AudioCodecList, 3, AudioCodec, V, items)
      BY <3>1, <3>2, <3>3, ListRound
    <3> QED BY <3>4 DEF IsReadBack
  <2>6. T # <<NONE>>
    BY <2>5, NoList DEF AudioCodecList
  <2> HIDE DEF T
  <2>7. ReadAudioCodecs(T) = {Property("wfd_audio_codecs", <<>>, read)}
    BY <2>5, <2>6 DEF ReadAudioCodecs, NoneIf, When
  <2> HIDE DEF read
  <2>0. /\ read \in Seq(AudioCodecValues) /\ Len(read) = Len(cs)
        /\ \A k \in 1 .. Len(cs) : read[k] = Assign(AudioCodec, LexHex(AudioCodecToString(cs[k])))
    BY <2>2, <2>3, <2>5
  <2>8. SoundProperty(p) => read = cs
    <3> SUFFICES ASSUME SoundProperty(p) PROVE read = cs
      OBVIOUS
    <3>1. \A i \in DOMAIN cs : Len(cs[i][3].num) <= 2
      BY <1>0, SoundAudioCodecs
    <3>2. \A k \in 1 .. Len(cs) : read[k] = cs[k]
      BY <3>1, <2>0, <2>2
    <3> QED BY <3>2, <2>0, SeqEqual
  <2>9. SoundProperty(Property("wfd_audio_codecs", <<>>, read))
    <3> DEFINE q == Property("wfd_audio_codecs", <<>>, read)
    <3>1. q.type = "wfd_audio_codecs" /\ q.none = FALSE /\ q.lists = read
      BY DEF Property
    <3> HIDE DEF q
    <3>2. \A k \in DOMAIN read : Len(read[k][3].num) <= 2
      BY <2>0, <2>2
    <3>3. SoundProperty(q)
      BY <3>1, <3>2, <2>5, SoundAudioCodecs
    <3> QED BY <3>3 DEF q
  <2>10. \A q \in ReadAudioCodecs(T) : SoundProperty(q)
    BY <2>7, <2>9
  <2>11. SoundProperty(p) => ReadAudioCodecs(T) = {p}
    BY <2>7, <2>8
  <2> QED BY <2>1, <2>5, <2>10, <2>11 DEF T
<1> QED BY <1>1, <1>2

(* What is asked of the types of a codec and of the digits its text gives  *)
(* them: the last two are ints, printed when they are not negative.        *)
CodecTypes(m, codec, digits) ==
  /\ codec \in Seq(1 .. 16) /\ digits \in Seq(1 .. 16)
  /\ Len(codec) = m + 2 /\ Len(digits) = m + 2
  /\ \A i \in 1 .. m + 2 : digits[i] <= codec[i]
  /\ codec[m + 1] = INT /\ digits[m + 1] = 4
  /\ codec[m + 2] = INT /\ digits[m + 2] = 4

CodecText(m, digits, c) ==
  Hex(SubSeq(digits, 1, m), SubSeq(c, 1, m)) \o <<IntToString(4, c[m + 1]), IntToString(4, c[m + 2])>>

CodecProduction(m) == Nums(m) \o <<MaxRes, MaxRes>>

(* The members of an H.264 codec, and the digits they are printed with.    *)
LEMMA H264CodecTypes == CodecTypes(9, H264Codec, H264CodecDigits)
<1>1. H264Codec \in Seq(1 .. 16) /\ Len(H264Codec) = 11
  BY DEF H264Codec, UCHAR, USHORT, UINT, INT
<1>2. H264CodecDigits \in Seq(1 .. 16) /\ Len(H264CodecDigits) = 11
  BY DEF H264CodecDigits
<1>3. \A i \in 1 .. 11 : H264CodecDigits[i] <= H264Codec[i]
  BY DEF H264CodecDigits, H264Codec, UCHAR, USHORT, UINT, INT
<1>4. /\ H264Codec[9 + 1] = INT /\ H264CodecDigits[9 + 1] = 4
      /\ H264Codec[9 + 2] = INT /\ H264CodecDigits[9 + 2] = 4
  BY DEF H264CodecDigits, H264Codec
<1> QED BY <1>1, <1>2, <1>3, <1>4 DEF CodecTypes

(* The members of a 3D codec, and the digits they are printed with.        *)
LEMMA H264Codec3dTypes == CodecTypes(7, H264Codec3d, H264Codec3dDigits)
<1>1. H264Codec3d \in Seq(1 .. 16) /\ Len(H264Codec3d) = 9
  BY DEF H264Codec3d, UCHAR, USHORT, UINT, INT, ULL
<1>2. H264Codec3dDigits \in Seq(1 .. 16) /\ Len(H264Codec3dDigits) = 9
  BY DEF H264Codec3dDigits
<1>3. \A i \in 1 .. 9 : H264Codec3dDigits[i] <= H264Codec3d[i]
  BY DEF H264Codec3dDigits, H264Codec3d, UCHAR, USHORT, UINT, INT, ULL
<1>4. /\ H264Codec3d[7 + 1] = INT /\ H264Codec3dDigits[7 + 1] = 4
      /\ H264Codec3d[7 + 2] = INT /\ H264Codec3dDigits[7 + 2] = 4
  BY DEF H264Codec3dDigits, H264Codec3d
<1> QED BY <1>1, <1>2, <1>3, <1>4 DEF CodecTypes

(* The production of a codec: m numbers and two resolutions.               *)
LEMMA CodecProductions ==
  ASSUME NEW m \in Nat
  PROVE  /\ Len(CodecProduction(m)) = m + 2
         /\ \A i \in 1 .. m : \A x : x \in CodecProduction(m)[i] <=> x = "NUM"
         /\ \A x : x \in CodecProduction(m)[m + 1] <=> x \in MaxRes
         /\ \A x : x \in CodecProduction(m)[m + 2] <=> x \in MaxRes
<1> DEFINE S == {{"NUM"}, MaxRes}
<1>1. Nums(m) \in Seq(S) /\ Len(Nums(m)) = m /\ \A i \in 1 .. m : Nums(m)[i] = {"NUM"}
  BY DEF Nums
<1>2. <<MaxRes, MaxRes>> \in Seq(S) /\ Len(<<MaxRes, MaxRes>>) = 2
      /\ <<MaxRes, MaxRes>>[1] = MaxRes /\ <<MaxRes, MaxRes>>[2] = MaxRes
  OBVIOUS
<1> DEFINE h == Nums(m)
           k == <<MaxRes, MaxRes>>
<1> HIDE DEF S, h, k
<1>3. /\ Len(h \o k) = m + 2
      /\ \A i \in 1 .. m + 2 : (h \o k)[i] = IF i <= m THEN h[i] ELSE k[i - m]
  BY <1>1, <1>2, ConcatProperties DEF h, k
<1>4. /\ \A i \in 1 .. m : (h \o k)[i] = h[i]
      /\ (h \o k)[m + 1] = k[1] /\ (h \o k)[m + 2] = k[2]
  BY <1>3
<1>5. \A i \in 1 .. m : \A x : x \in h[i] <=> x = "NUM"
  BY <1>1 DEF h
<1> QED BY <1>2, <1>3, <1>4, <1>5 DEF CodecProduction, h, k

CodecTokens(m, digits, c, v) ==
  /\ v \in Seq(HexText) /\ Len(v) = m + 2
  /\ \A i \in 1 .. m : v[i] = MAKE_HEX_STRING(digits[i], c[i])
  /\ v[m + 1] = IntToString(4, c[m + 1]) /\ v[m + 2] = IntToString(4, c[m + 2])

(* The text of a codec, token by token.                                    *)
LEMMA CodecTextTokens ==
  ASSUME NEW m \in {7, 9}, NEW codec, NEW digits, CodecTypes(m, codec, digits),
         NEW c \in Vectors(codec)
  PROVE  CodecTokens(m, digits, c, CodecText(m, digits, c))
<1> DEFINE h == Hex(SubSeq(digits, 1, m), SubSeq(c, 1, m))
           k == <<IntToString(4, c[m + 1]), IntToString(4, c[m + 2])>>
<1>1. /\ digits \in Seq(1 .. 16) /\ Len(digits) = m + 2 /\ m \in Nat
      /\ c \in Seq(Number(16)) /\ Len(c) = m + 2
      /\ c[m + 1] \in Number(INT) /\ c[m + 2] \in Number(INT)
  BY DEF CodecTypes, Vectors
<1>2. h \in Seq(HexText) /\ Len(h) = m /\ \A i \in 1 .. m : h[i] = MAKE_HEX_STRING(digits[i], c[i])
  BY SMTT(30), <1>1, HexPrefix
<1>3. IntToString(4, c[m + 1]) \in HexText /\ IntToString(4, c[m + 2]) \in HexText
  BY <1>1, IntRound
<1>4. k \in Seq(HexText) /\ Len(k) = 2 /\ k[1] = IntToString(4, c[m + 1]) /\ k[2] = IntToString(4, c[m + 2])
  BY <1>3
<1> HIDE DEF h, k
<1>5. /\ h \o k \in Seq(HexText) /\ Len(h \o k) = m + 2
      /\ \A i \in 1 .. m : (h \o k)[i] = h[i]
      /\ (h \o k)[m + 1] = k[1] /\ (h \o k)[m + 2] = k[2]
  <2>1. m + 1 > m /\ m + 1 <= m + 2 /\ m + 2 > m /\ m + 1 - m = 1 /\ m + 2 - m = 2 /\ m + 1 \in 1 .. m + 2
        /\ m + 2 \in 1 .. m + 2 /\ \A i \in 1 .. m : i \in 1 .. m + 2 /\ i <= m
    BY <1>1
  <2>2. /\ h \o k \in Seq(HexText) /\ Len(h \o k) = m + 2
        /\ \A i \in 1 .. m + 2 : (h \o k)[i] = IF i <= m THEN h[i] ELSE k[i - m]
    <3>1. h \o k \in Seq(HexText) /\ Len(h \o k) = Len(h) + Len(k)
      BY <1>2, <1>4, ConcatProperties
    <3>2. \A i \in 1 .. Len(h) + Len(k) : (h \o k)[i] = IF i <= Len(h) THEN h[i] ELSE k[i - Len(h)]
      BY <1>2, <1>4, ConcatProperties
    <3> QED BY <3>1, <3>2, <1>2, <1>4
  <2> QED BY <2>1, <2>2
<1>6. CodecText(m, digits, c) = h \o k
  BY DEF CodecText, h, k
<1> QED BY <1>2, <1>4, <1>5, <1>6 DEF CodecTokens

(* When the text of a codec says it all: every member within its digits.   *)
LEMMA SoundCodecFields ==
  ASSUME NEW m \in {7, 9, 21}, NEW digits \in Seq(1 .. 16), Len(digits) = m + 2,
         NEW c \in Seq(Number(16)), Len(c) = m + 2
  PROVE  SoundCodec(digits, c) <=>
           /\ \A i \in 1 .. m : Len(c[i].num) <= digits[i]
           /\ c[m + 1] = MinusOne(INT) \/ Len(c[m + 1].num) <= 4
           /\ c[m + 2] = MinusOne(INT) \/ Len(c[m + 2].num) <= 4
<1>1. /\ SubSeq(digits, 1, m) \in Seq(1 .. 16) /\ Len(SubSeq(digits, 1, m)) = m
      /\ \A i \in 1 .. m : SubSeq(digits, 1, m)[i] = digits[i]
  OBVIOUS
<1>2. \A i \in 1 .. m : SubSeq(c, 1, m)[i] = c[i]
  OBVIOUS
<1>3. Fits(SubSeq(digits, 1, m), SubSeq(c, 1, m)) <=> \A i \in 1 .. m : Len(c[i].num) <= digits[i]
  <2> DEFINE d == SubSeq(digits, 1, m)
             e == SubSeq(c, 1, m)
  <2>1. DOMAIN d = 1 .. m /\ \A i \in 1 .. m : d[i] = digits[i] /\ e[i] = c[i]
    BY <1>1, <1>2
  <2> HIDE DEF d, e
  <2>2. Fits(d, e) <=> \A i \in 1 .. m : Len(c[i].num) <= digits[i]
    BY <2>1 DEF Fits
  <2> QED BY <2>2 DEF d, e
<1>4. Len(digits) - 2 = m
  OBVIOUS
<1> QED BY <1>3, <1>4 DEF SoundCodec

(* What a codec is read back as: a sound one, and itself if it is sound.   *)
CodecIsReadBack(m, codec, digits, c) ==
  LET v == CodecText(m, digits, c)
      r == Assign(codec, LexHex(v))
  IN /\ v \in Seq(HexText) /\ Len(v) = m + 2
     /\ Derives(CodecProduction(m), LexHex(v))
     /\ r \in Vectors(codec) /\ SoundCodec(digits, r)
     /\ SoundCodec(digits, c) => r = c

(* A codec is printed so that it is read as a codec, and as the same if it *)
(* is sound.                                                               *)
LEMMA CodecRound ==
  ASSUME NEW m \in {7, 9}, NEW codec, NEW digits, CodecTypes(m, codec, digits),
         NEW c \in Vectors(codec)
  PROVE  CodecIsReadBack(m, codec, digits, c)
<1> DEFINE v == CodecText(m, digits, c)
           t == LexHex(v)
           r == Assign(codec, t)
           H == 1 .. m
<1>1. /\ v \in Seq(HexText) /\ Len(v) = m + 2 /\ m \in Nat
      /\ \A i \in 1 .. m : v[i] = MAKE_HEX_STRING(digits[i], c[i])
      /\ v[m + 1] = IntToString(4, c[m + 1]) /\ v[m + 2] = IntToString(4, c[m + 2])
  <2>1. CodecTokens(m, digits, c, v)
    BY CodecTextTokens
  <2> QED BY <2>1 DEF CodecTokens
<1> HIDE DEF v
<1>2. /\ codec \in Seq(1 .. 16) /\ digits \in Seq(1 .. 16)
      /\ Len(codec) = m + 2 /\ Len(digits) = m + 2
      /\ \A i \in 1 .. m + 2 : digits[i] <= codec[i]
      /\ codec[m + 1] = INT /\ digits[m + 1] = 4
      /\ codec[m + 2] = INT /\ digits[m + 2] = 4
  BY DEF CodecTypes
<1>3. \A i \in 1 .. Len(codec) :
        /\ i \in H => v[i] = MAKE_HEX_STRING(digits[i], c[i])
        /\ i \notin H => /\ codec[i] = INT /\ digits[i] = 4
                         /\ v[i] = IntToString(4, c[i])
  BY <1>1, <1>2
<1>4. /\ t \in Seq(LexedText) /\ Len(t) = Len(codec)
      /\ r \in Vectors(codec)
      /\ \A i \in 1 .. Len(codec) :
           /\ Terminal(t[i]) \in {"NUM", "none"}
           /\ i \in H => Terminal(t[i]) = "NUM" /\ Len(r[i].num) <= digits[i]
           /\ i \notin H => Len(r[i].num) <= 4 \/ r[i] = MinusOne(INT)
      /\ (\A i \in 1 .. Len(codec) :
           /\ i \in H => Len(c[i].num) <= digits[i]
           /\ i \notin H => Len(c[i].num) <= 4 \/ c[i] = MinusOne(INT)) => r = c
  <2> HIDE DEF H
  <2>1. VectorIsReadBack(codec, digits, H, c, v)
    BY <1>1, <1>2, <1>3, VectorRound
  <2> QED BY <2>1 DEF VectorIsReadBack
<1> HIDE DEF t, r
<1>5. Derives(CodecProduction(m), t)
  <2>1. \A i \in 1 .. m + 2 : i \in 1 .. m \/ i = m + 1 \/ i = m + 2
    BY <1>1
  <2>5. ASSUME NEW i \in 1 .. m PROVE Terminal(t[i]) \in CodecProduction(m)[i]
    <3>1. Terminal(t[i]) = "NUM"
      BY <1>1, <1>2, <1>4
    <3> QED BY <1>1, <3>1, CodecProductions
  <2>6. /\ Terminal(t[m + 1]) \in MaxRes /\ Terminal(t[m + 2]) \in MaxRes
    BY <1>1, <1>2, <1>4 DEF MaxRes
  <2>7. Terminal(t[m + 1]) \in CodecProduction(m)[m + 1] /\ Terminal(t[m + 2]) \in CodecProduction(m)[m + 2]
    BY <1>1, <2>6, CodecProductions
  <2>2. \A i \in 1 .. m + 2 : Terminal(t[i]) \in CodecProduction(m)[i]
    BY <2>1, <2>5, <2>7
  <2>3. DOMAIN t = 1 .. m + 2
    BY <1>2, <1>4
  <2>4. Len(CodecProduction(m)) = m + 2 /\ Len(t) = m + 2
    BY <1>1, <1>2, <1>4, CodecProductions
  <2> QED BY <2>2, <2>3, <2>4 DEF Derives
<1>6. SoundCodec(digits, r)
  <2>1. r \in Seq(Number(16)) /\ Len(r) = m + 2
    BY <1>2, <1>4 DEF Vectors
  <2>2. \A i \in 1 .. m : Len(r[i].num) <= digits[i]
    BY <1>1, <1>2, <1>4
  <2>3. m + 1 \in 1 .. Len(codec) /\ m + 2 \in 1 .. Len(codec) /\ m + 1 \notin H /\ m + 2 \notin H
    BY <1>1, <1>2
  <2>4. /\ r[m + 1] = MinusOne(INT) \/ Len(r[m + 1].num) <= 4
        /\ r[m + 2] = MinusOne(INT) \/ Len(r[m + 2].num) <= 4
    BY <1>4, <2>3
  <2> HIDE DEF H
  <2> QED BY <1>2, <2>1, <2>2, <2>4, SoundCodecFields
<1>7. SoundCodec(digits, c) => r = c
  <2>1. c \in Seq(Number(16)) /\ Len(c) = m + 2
    BY <1>2 DEF Vectors
  <2>2. \A i \in 1 .. m + 2 : i \in H \/ i = m + 1 \/ i = m + 2
    BY <1>1
  <2> SUFFICES ASSUME SoundCodec(digits, c) PROVE r = c
    OBVIOUS
  <2>3. /\ \A i \in 1 .. m : Len(c[i].num) <= digits[i]
        /\ c[m + 1] = MinusOne(INT) \/ Len(c[m + 1].num) <= 4
        /\ c[m + 2] = MinusOne(INT) \/ Len(c[m + 2].num) <= 4
    BY <1>2, <2>1, SoundCodecFields
  <2> QED BY <1>1, <1>2, <1>4, <2>2, <2>3
<1> QED BY <1>1, <1>4, <1>5, <1>6, <1>7 DEF v, t, r, CodecIsReadBack

(* What is read as a codec is one.                                         *)
LEMMA CodecRead ==
  ASSUME NEW m \in {7, 9}, NEW codec \in Seq(1 .. 16), Len(codec) = m + 2,
         NEW tokens \in Seq(LexedText), Len(tokens) = m + 2, Derives(CodecProduction(m), tokens)
  PROVE  Assign(codec, tokens) \in Vectors(codec)
<1>1. m \in Nat /\ \A i \in 1 .. m + 2 : Terminal(tokens[i]) \in CodecProduction(m)[i]
  BY DEF Derives
<1>2. \A i \in 1 .. m + 2 : Terminal(tokens[i]) \in {"NUM", "none"}
  <2>1. \A i \in 1 .. m + 2 : i \in 1 .. m \/ i = m + 1 \/ i = m + 2
    BY <1>1
  <2>2. ASSUME NEW i \in 1 .. m PROVE Terminal(tokens[i]) \in {"NUM", "none"}
    <3>1. Terminal(tokens[i]) \in CodecProduction(m)[i]
      BY <1>1
    <3>2. Terminal(tokens[i]) = "NUM"
      BY <1>1, <3>1, CodecProductions
    <3> QED BY <3>2
  <2>3. /\ Terminal(tokens[m + 1]) \in MaxRes /\ Terminal(tokens[m + 2]) \in MaxRes
    <3>1. m + 1 \in 1 .. m + 2 /\ m + 2 \in 1 .. m + 2
      BY <1>1
    <3>2. /\ Terminal(tokens[m + 1]) \in CodecProduction(m)[m + 1]
          /\ Terminal(tokens[m + 2]) \in CodecProduction(m)[m + 2]
      BY <1>1, <3>1
    <3> QED BY <1>1, <3>2, CodecProductions
  <2> QED BY <2>1, <2>2, <2>3 DEF MaxRes
<1> QED BY <1>2, VectorRead

(* Two texts one after the other are lexed one after the other.            *)
LEMMA LexHexConcat ==
  ASSUME NEW a \in Seq(HexText), NEW b \in Seq(HexText)
  PROVE  /\ a \o b \in Seq(HexText)
         /\ LexHex(a \o b) \in Seq(LexedText)
         /\ Len(LexHex(a \o b)) = Len(a) + Len(b)
         /\ SubSeq(LexHex(a \o b), 1, Len(a)) = LexHex(a)
         /\ SubSeq(LexHex(a \o b), Len(a) + 1, Len(a) + Len(b)) = LexHex(b)
<1> DEFINE T == LexHex(a \o b)
<1>1. /\ a \o b \in Seq(HexText) /\ Len(a \o b) = Len(a) + Len(b)
      /\ \A i \in 1 .. Len(a) + Len(b) : (a \o b)[i] = IF i <= Len(a) THEN a[i] ELSE b[i - Len(a)]
      /\ Len(a) \in Nat /\ Len(b) \in Nat
  BY ConcatProperties
<1>2. /\ T \in Seq(LexedText) /\ Len(T) = Len(a) + Len(b)
      /\ \A i \in 1 .. Len(a) + Len(b) : T[i] = HexToken((a \o b)[i])
  BY <1>1, LexHexText
<1>3. /\ LexHex(a) \in Seq(LexedText) /\ Len(LexHex(a)) = Len(a)
      /\ \A i \in 1 .. Len(a) : LexHex(a)[i] = HexToken(a[i])
      /\ LexHex(b) \in Seq(LexedText) /\ Len(LexHex(b)) = Len(b)
      /\ \A i \in 1 .. Len(b) : LexHex(b)[i] = HexToken(b[i])
  BY LexHexText
<1> HIDE DEF T
<1>4. SubSeq(T, 0 + 1, 0 + Len(a)) = LexHex(a)
  <2>1. \A j \in 1 .. Len(a) : T[0 + j] = LexHex(a)[j]
    BY <1>1, <1>2, <1>3
  <2> QED BY <1>1, <1>2, <1>3, <2>1, Slice
<1>5. SubSeq(T, Len(a) + 1, Len(a) + Len(b)) = LexHex(b)
  <2>1. ASSUME NEW j \in 1 .. Len(b) PROVE T[Len(a) + j] = LexHex(b)[j]
    <3>1. Len(a) + j \in 1 .. Len(a) + Len(b) /\ ~(Len(a) + j <= Len(a)) /\ Len(a) + j - Len(a) = j
      BY <1>1
    <3>2. (a \o b)[Len(a) + j] = b[j]
      BY <1>1, <3>1
    <3> QED BY <1>2, <1>3, <3>1, <3>2
  <2>2. Len(a) + Len(b) <= Len(T)
    BY <1>2
  <2>3. T \in Seq(LexedText) /\ LexHex(b) \in Seq(LexedText) /\ Len(a) \in Nat /\ Len(b) \in Nat
        /\ Len(LexHex(b)) = Len(b)
    BY <1>1, <1>2, <1>3
  <2> QED BY <2>1, <2>2, <2>3, Slice
<1>6. SubSeq(T, 1, Len(a)) = LexHex(a)
  BY <1>1, <1>4
<1> QED BY <1>1, <1>2, <1>5, <1>6 DEF T

(* Two numbers of two digits, in front of a list of codecs.                *)
Pair == <<2, 2>>

(* Both kinds of formats begin with the same two members.                  *)
LEMMA PairTypes == VideoFormats = Pair /\ Formats3d = Pair /\ Pair \in Seq(1 .. 16) /\ Len(Pair) = 2
  BY DEF VideoFormats, Formats3d, Pair, UCHAR

(* What a production of n numbers takes.                                   *)
LEMMA NumsDerive ==
  ASSUME NEW n \in Nat, NEW tokens \in Seq(LexedText)
  PROVE  Derives(Nums(n), tokens) <=> Len(tokens) = n /\ \A i \in 1 .. n : Terminal(tokens[i]) = "NUM"
<1>1. Len(Nums(n)) = n /\ \A i \in 1 .. n : \A x : x \in Nums(n)[i] <=> x = "NUM"
  BY DEF Nums
<1> QED BY <1>1 DEF Derives

(* Numbers that are all printed and read again as numbers.                 *)
NumbersAreReadBack(members, digits, c) ==
  LET t == LexHex(Hex(digits, c))
      r == Assign(members, t)
  IN /\ Hex(digits, c) \in Seq(HexText) /\ Len(Hex(digits, c)) = Len(members)
     /\ t \in Seq(LexedText) /\ Derives(Nums(Len(members)), t)
     /\ r \in Vectors(members)
     /\ Fits(digits, r)
     /\ Fits(digits, c) => r = c

(* A vector of numbers is printed so that it is read as a vector, and as   *)
(* the same if every member fits its digits.                               *)
LEMMA NumbersRound ==
  ASSUME NEW members \in Seq(1 .. 16), NEW digits \in Seq(1 .. 16), Len(digits) = Len(members),
         \A i \in 1 .. Len(members) : digits[i] <= members[i],
         NEW c \in Vectors(members)
  PROVE  NumbersAreReadBack(members, digits, c)
<1> DEFINE v == Hex(digits, c)
           t == LexHex(v)
           r == Assign(members, t)
           H == 1 .. Len(members)
<1>1. c \in Seq(Number(16)) /\ Len(c) = Len(members)
  BY DEF Vectors
<1>2. v \in Seq(HexText) /\ Len(v) = Len(members)
      /\ \A i \in 1 .. Len(members) : v[i] = MAKE_HEX_STRING(digits[i], c[i])
  BY <1>1, HexVector
<1> HIDE DEF v
<1>3. VectorIsReadBack(members, digits, H, c, v)
  <2>1. \A i \in 1 .. Len(members) :
          /\ i \in H => v[i] = MAKE_HEX_STRING(digits[i], c[i])
          /\ i \notin H => /\ members[i] = INT /\ digits[i] = 4
                           /\ v[i] = IntToString(4, c[i])
    BY <1>2
  <2> HIDE DEF H
  <2> QED BY <1>2, <2>1, VectorRound
<1>4. /\ t \in Seq(LexedText) /\ Len(t) = Len(members)
      /\ r \in Vectors(members)
      /\ \A i \in 1 .. Len(members) : Terminal(t[i]) = "NUM" /\ Len(r[i].num) <= digits[i]
      /\ (\A i \in 1 .. Len(members) : Len(c[i].num) <= digits[i]) => r = c
  BY <1>3 DEF VectorIsReadBack
<1> HIDE DEF t, r
<1>5. Derives(Nums(Len(members)), t)
  BY <1>4, NumsDerive
<1>6. DOMAIN digits = 1 .. Len(members)
  OBVIOUS
<1>7. Fits(digits, r) /\ (Fits(digits, c) => r = c)
  BY <1>4, <1>6 DEF Fits
<1> QED BY <1>2, <1>4, <1>5, <1>7 DEF NumbersAreReadBack, v, t, r

(* What is read as a vector of numbers is one.                             *)
LEMMA NumbersRead ==
  ASSUME NEW members \in Seq(1 .. 16), NEW tokens \in Seq(LexedText),
         Derives(Nums(Len(members)), tokens)
  PROVE  Assign(members, tokens) \in Vectors(members)
<1>1. Len(tokens) = Len(members) /\ \A i \in 1 .. Len(members) : Terminal(tokens[i]) = "NUM"
  BY NumsDerive
<1> QED BY <1>1, VectorRead

HeldFormats(type, codec) ==
  {NoneProperty(type)} \cup {Property(type, ms, cs) : ms \in Vectors(Pair), cs \in Seq(Vectors(codec))}

(* What is read as video formats is a property their class can hold.       *)
LEMMA FormatsRead ==
  ASSUME NEW m \in {7, 9}, NEW codec \in Seq(1 .. 16), Len(codec) = m + 2, NEW type,
         NEW tokens \in Seq(LexedText),
         NEW q \in ReadFormats(type, Pair, codec, CodecProduction(m), tokens)
  PROVE  q \in HeldFormats(type, codec)
<1> DEFINE first == SubSeq(tokens, 1, 2)
           list == SubSeq(tokens, 3, Len(tokens))
           n == m + 2
<1>0. m \in Nat /\ n \in Lengths
  BY DEF Lengths
<1>1. Len(CodecProduction(m)) = n /\ n \in Lengths /\ m \in Nat
  BY <1>0, CodecProductions
<1>2. \/ q = NoneProperty(type)
      \/ /\ Len(tokens) > 2 /\ Derives(Nums(2), first) /\ IsList(CodecProduction(m), list)
         /\ q = Property(type, Assign(Pair, first), AssignItems(codec, n, list))
  BY <1>1 DEF ReadFormats, NoneIf, When
<1>3. ASSUME Len(tokens) > 2, Derives(Nums(2), first), IsList(CodecProduction(m), list)
      PROVE  Assign(Pair, first) \in Vectors(Pair) /\ AssignItems(codec, n, list) \in Seq(Vectors(codec))
  <2>1. first \in Seq(LexedText) /\ list \in Seq(LexedText)
    BY <1>3
  <2> HIDE DEF first, list
  <2>2. Assign(Pair, first) \in Vectors(Pair)
    BY <1>3, <2>1, PairTypes, NumbersRead
  <2>3. ASSUME NEW item \in Seq(LexedText), Len(item) = n, Derives(CodecProduction(m), item)
        PROVE  Assign(codec, item) \in Vectors(codec)
    BY <2>3, CodecRead
  <2>4. AssignItems(codec, n, list) \in Seq(Vectors(codec))
    <3> HIDE DEF n
    <3> DEFINE V == Vectors(codec)
    <3>1. \A item \in Seq(LexedText) : Len(item) = n /\ Derives(CodecProduction(m), item) => Assign(codec, item) \in V
      BY <2>3
    <3> HIDE DEF V
    <3>2. AssignItems(codec, n, list) \in Seq(V)
      BY <1>1, <1>3, <2>1, <3>1, ListValues
    <3> QED BY <3>2 DEF V
  <2> QED BY <2>2, <2>4
<1> QED BY <1>2, <1>3 DEF HeldFormats

(* No formats: "none" is read as it.                                       *)
LEMMA FormatsNone ==
  ASSUME NEW m \in {7, 9}, NEW codec, NEW type, NEW digits
  PROVE  /\ ReadFormats(type, Pair, codec, CodecProduction(m), <<NONE>>) = {NoneProperty(type)}
         /\ SoundFormats(digits, NoneProperty(type))
<1>1. Len(<<NONE>>) = 1 /\ ~(1 > 2)
  OBVIOUS
<1>2. SoundFormats(digits, NoneProperty(type))
  BY DEF SoundFormats, NoneProperty
<1>3. ~(Len(<<NONE>>) > 2)
  BY <1>1
<1> QED BY <1>2, <1>3 DEF ReadFormats, NoneIf, When

(* What a property of formats is read back as.                             *)
FormatsAreReadBack(type, codec, production, digits, p, v) ==
  LET read == ReadFormats(type, Pair, codec, production, LexHex(v))
  IN /\ v \in Seq(HexText)
     /\ \A q \in read : q \in HeldFormats(type, codec) /\ SoundFormats(digits, q)
     /\ SoundFormats(digits, p) => read = {p}

(* Formats are printed, and read as the same if they are sound.            *)
LEMMA FormatsRound ==
  ASSUME NEW m \in {7, 9}, NEW codec, NEW digits, CodecTypes(m, codec, digits), NEW type,
         NEW ms \in Vectors(Pair), NEW cs \in Seq(Vectors(codec)),
         NEW items \in Seq(Seq(HexText)), Len(items) = Len(cs),
         \A k \in 1 .. Len(cs) : items[k] = CodecText(m, digits, cs[k])
  PROVE  FormatsAreReadBack(type, codec, CodecProduction(m), digits, Property(type, ms, cs),
                            Hex(Pair, ms) \o Listed(m + 2, items))
<1> DEFINE n == m + 2
           h == Hex(Pair, ms)
           L == Listed(n, items)
           T == LexHex(h \o L)
           production == CodecProduction(m)
           p == Property(type, ms, cs)
           RF(t) == ReadFormats(type, Pair, codec, production, t)
<1>0. m \in Nat /\ n \in Lengths /\ n \in Nat
  BY DEF Lengths
<1>1. Len(production) = n
  BY <1>0, CodecProductions
<1>2. NumbersAreReadBack(Pair, Pair, ms)
  <2>1. \A i \in 1 .. Len(Pair) : Pair[i] <= Pair[i]
    BY DEF Pair
  <2> QED BY <2>1, PairTypes, NumbersRound
<1>3. /\ h \in Seq(HexText) /\ Len(h) = 2 /\ Derives(Nums(2), LexHex(h))
      /\ Assign(Pair, LexHex(h)) \in Vectors(Pair) /\ Fits(Pair, Assign(Pair, LexHex(h)))
      /\ (Fits(Pair, ms) => Assign(Pair, LexHex(h)) = ms)
  BY <1>2, PairTypes DEF NumbersAreReadBack
<1>4. codec \in Seq(1 .. 16) /\ Len(codec) = n
  BY DEF CodecTypes
<1>5. \A k \in 1 .. Len(cs) :
        /\ items[k] \in Seq(HexText) /\ Len(items[k]) = n
        /\ Derives(production, LexHex(items[k]))
        /\ Assign(codec, LexHex(items[k])) \in Vectors(codec)
        /\ SoundCodec(digits, Assign(codec, LexHex(items[k])))
        /\ SoundCodec(digits, cs[k]) => Assign(codec, LexHex(items[k])) = cs[k]
  <2>1. ASSUME NEW k \in 1 .. Len(cs)
        PROVE  /\ Len(items[k]) = n
               /\ Derives(production, LexHex(items[k]))
               /\ Assign(codec, LexHex(items[k])) \in Vectors(codec)
               /\ SoundCodec(digits, Assign(codec, LexHex(items[k])))
               /\ SoundCodec(digits, cs[k]) => Assign(codec, LexHex(items[k])) = cs[k]
    <3>1. cs[k] \in Vectors(codec) /\ items[k] = CodecText(m, digits, cs[k])
      OBVIOUS
    <3>2. CodecIsReadBack(m, codec, digits, cs[k])
      BY <3>1, CodecRound
    <3> QED BY <3>1, <3>2 DEF CodecIsReadBack
  <2> QED BY <2>1
<1>6. /\ p.type = type /\ p.none = FALSE /\ p.members = ms /\ p.lists = cs
  BY DEF Property
<1>7. L \in Seq(HexText)
  <2>1. \A k \in 1 .. Len(items) : Len(items[k]) = n
    BY <1>5
  <2> HIDE DEF n
  <2> QED BY <1>0, <2>1, LexedList
<1> HIDE DEF h, L
<1>8. /\ h \o L \in Seq(HexText) /\ T \in Seq(LexedText) /\ Len(T) = 2 + Len(L)
      /\ SubSeq(T, 1, 2) = LexHex(h)
      /\ SubSeq(T, 3, Len(T)) = LexHex(L)
      /\ Len(L) \in Nat
  <2>1. /\ h \o L \in Seq(HexText) /\ LexHex(h \o L) \in Seq(LexedText)
        /\ Len(LexHex(h \o L)) = Len(h) + Len(L)
        /\ SubSeq(LexHex(h \o L), 1, Len(h)) = LexHex(h)
        /\ SubSeq(LexHex(h \o L), Len(h) + 1, Len(h) + Len(L)) = LexHex(L)
    BY <1>3, <1>7, LexHexConcat
  <2> QED BY <2>1, <1>3, <1>7
<1> HIDE DEF T
<1>9. T # <<NONE>>
  <2>1. Len(<<NONE>>) = 1
    OBVIOUS
  <2>2. Len(T) # 1
    BY <1>8
  <2> QED BY <2>1, <2>2
<1>10. \A q \in RF(T) : q \in HeldFormats(type, codec)
  BY <1>4, <1>8, FormatsRead
<1>11. CASE cs = <<>>
  <2>1. L = <<>> /\ Len(L) = 0
    <3>1. items = <<>>
      BY <1>11, EmptySeq
    <3>2. Word("comma") \in HexText /\ \A k \in 1 .. Len(items) : Len(items[k]) = n
      BY <1>5 DEF HexText, Words
    <3> HIDE DEF n
    <3>3. L = <<>>
      BY <3>1, <3>2, <1>0, ListedTokens DEF L
    <3> QED BY <3>3
  <2>2. RF(T) = {}
    <3>1. ~(Len(T) > 2)
      BY <2>1, <1>8
    <3> QED BY <3>1, <1>9 DEF ReadFormats, NoneIf, When
  <2>3. ~SoundFormats(digits, p)
    BY <1>6, <1>11 DEF SoundFormats
  <2> QED BY <2>2, <2>3, <1>8 DEF FormatsAreReadBack, T, h, L
<1>12. CASE cs # <<>>
  <2> DEFINE V == {r \in Vectors(codec) : SoundCodec(digits, r)}
             first == Assign(Pair, LexHex(h))
             read == AssignItems(codec, n, LexHex(L))
             q == Property(type, first, read)
  <2>1. Len(cs) # 0 /\ items # <<>>
    BY <1>12, EmptySeq
  <2>2. IsReadBack(production, n, codec, V, items)
    <3>1. \A k \in 1 .. Len(items) : /\ Len(items[k]) = n
                                     /\ Derives(production, LexHex(items[k]))
                                     /\ Assign(codec, LexHex(items[k])) \in V
      BY <1>5
    <3> HIDE DEF V, n, production
    <3> QED BY <3>1, <2>1, <1>0, <1>1, ListRound
  <2>3. /\ LexHex(L) \in Seq(LexedText) /\ IsList(production, LexHex(L))
        /\ read \in Seq(V) /\ read # <<>> /\ Len(read) = Len(cs)
        /\ \A k \in 1 .. Len(cs) : read[k] = Assign(codec, LexHex(items[k]))
    BY <2>2 DEF IsReadBack, L
  <2> HIDE DEF read
  <2>4. Len(L) # 0
    <3>1. LexHex(L) # <<>>
      BY <2>3 DEF IsList
    <3>2. Len(LexHex(L)) = Len(L)
      BY <1>7, LexHexText
    <3> QED BY <3>1, <3>2, <2>3, EmptySeq
  <2>5. Len(T) > 2
    BY <2>4, <1>8
  <2>6. RF(T) = {q}
    <3>1. RF(T) = When(Len(T) > 2 /\ Derives(Nums(2), SubSeq(T, 1, 2)) /\ IsList(production, SubSeq(T, 3, Len(T))),
                       Property(type, Assign(Pair, SubSeq(T, 1, 2)), AssignItems(codec, Len(production), SubSeq(T, 3, Len(T)))))
      BY <1>9 DEF ReadFormats, NoneIf, When
    <3> HIDE DEF production, n
    <3> QED BY <3>1, <2>3, <2>5, <1>1, <1>3, <1>8 DEF When, read
  <2>7. q.none = FALSE /\ q.members = first /\ q.lists = read
    BY DEF Property
  <2> HIDE DEF first, q
  <2>8. SoundFormats(digits, q)
    <3>1. \A k \in DOMAIN read : SoundCodec(digits, read[k])
      BY <2>3, <1>5
    <3> QED BY <3>1, <2>3, <2>7, <1>3 DEF SoundFormats, first, Pair
  <2>9. SoundFormats(digits, p) => q = p
    <3> SUFFICES ASSUME SoundFormats(digits, p) PROVE q = p
      OBVIOUS
    <3>1. Fits(Pair, ms) /\ \A k \in DOMAIN cs : SoundCodec(digits, cs[k])
      BY <1>6 DEF SoundFormats, Pair
    <3>2. first = ms
      BY <3>1, <1>3 DEF first
    <3>3. ASSUME NEW k \in 1 .. Len(cs) PROVE read[k] = cs[k]
      <4>1. SoundCodec(digits, cs[k]) /\ read[k] = Assign(codec, LexHex(items[k]))
        BY SMTT(30), <3>1, <2>3
      <4> QED BY <4>1, <1>5
    <3>4. read = cs
      <4>1. read \in Seq(Vectors(codec))
        BY <2>3
      <4> QED BY <4>1, <3>3, <2>3, SeqEqual
    <3> QED BY <3>2, <3>4 DEF q
  <2> QED BY <2>6, <2>8, <2>9, <1>8, <1>10 DEF FormatsAreReadBack, T, h, L
<1> QED BY <1>11, <1>12

(* The text and the reading of a property, by its name.                    *)
LEMMA PropertyTexts ==
  ASSUME NEW p
  PROVE  /\ p.type = "wfd_audio_codecs" => PropertyToString(p) = AudioCodecsToString(p)
         /\ p.type = "wfd_video_formats" => PropertyToString(p) = VideoFormatsToString(p)
         /\ p.type = "wfd_3d_video_formats" => PropertyToString(p) = Formats3dToString(p)
         /\ p.type = "wfd_display_edid" => PropertyToString(p) = DisplayEdidToString(p)
         /\ p.type = "wfd_coupled_sink" => PropertyToString(p) = CoupledSinkToString(p)
         /\ p.type = "wfd_av_format_change_timing" => PropertyToString(p) = AVFormatChangeTimingToString(p)
         /\ p.type = "wfd_preferred_display_mode" => PropertyToString(p) = PreferredDisplayModeToString(p)
         /\ p.type = "wfd_connector_type" => PropertyToString(p) = ConnectorTypeToString(p)
         /\ p.type = "wfd_content_protection" => PropertyToString(p) = ContentProtectionToString(p)
         /\ p.type = "wfd_trigger_method" => PropertyToString(p) = TriggerMethodToString(p)
         /\ p.type = "wfd_presentation_url" => PropertyToString(p) = PresentationUrlToString(p)
         /\ p.type = "wfd_client_rtp_ports" => PropertyToString(p) = ClientRtpPortsToString(p)
         /\ p.type = "wfd_route" => PropertyToString(p) = RouteToString(p)
         /\ p.type = "wfd_I2C" => PropertyToString(p) = I2CToString(p)
         /\ p.type = "wfd_uibc_capability" => PropertyToString(p) = UIBCCapabilityToString(p)
         /\ p.type = "wfd_uibc_setting" => PropertyToString(p) = UIBCSettingToString(p)
         /\ p.type = "wfd_standby_resume_capability" => PropertyToString(p) = StandbyResumeCapabilityToString(p)
         /\ p.type = "vendor_key" => PropertyToString(p) = GenericPropertyToString(p)
  BY DEF PropertyToString, Bare

(* Which reader each name of a property has.                               *)
LEMMA PropertyReaders ==
  ASSUME NEW v
  PROVE  /\ ReadProperty("wfd_audio_codecs", v) = ReadAudioCodecs(LexHex(v))
         /\ ReadProperty("wfd_video_formats", v) = ReadVideoFormats(LexHex(v))
         /\ ReadProperty("wfd_3d_video_formats", v) = ReadFormats3d(LexHex(v))
         /\ ReadProperty("wfd_display_edid", v) = ReadDisplayEdid(LexHex(v))
         /\ ReadProperty("wfd_coupled_sink", v) = ReadCoupledSink(LexHex(v))
         /\ ReadProperty("wfd_av_format_change_timing", v) = ReadAVFormatChangeTiming(LexHex(v))
         /\ ReadProperty("wfd_preferred_display_mode", v) = ReadPreferredDisplayMode(LexHex(v))
         /\ ReadProperty("wfd_connector_type", v) = ReadConnectorType(LexHex(v))
         /\ ReadProperty("wfd_content_protection", v) = ReadContentProtection(v)
         /\ ReadProperty("wfd_trigger_method", v) = ReadTriggerMethod(v)
         /\ ReadProperty("wfd_presentation_url", v) = ReadPresentationUrl(v)
         /\ ReadProperty("wfd_client_rtp_ports", v) = ReadClientRtpPorts(v)
         /\ ReadProperty("wfd_route", v) = ReadRoute(v)
         /\ ReadProperty("wfd_I2C", v) = ReadI2C(v)
         /\ ReadProperty("wfd_uibc_capability", v) = ReadUIBCCapability(v)
         /\ ReadProperty("wfd_uibc_setting", v) = ReadUIBCSetting(v)
         /\ ReadProperty("wfd_standby_resume_capability", v) = ReadStandbyResumeCapability(v)
         /\ ReadProperty("vendor_key", v) = ReadGenericProperty("vendor_key", v)
  BY DEF ReadProperty, HexMode, Bare

(* When the text of a property says it all, name by name.                  *)
LEMMA SoundnessByName ==
  ASSUME NEW p, p.none \in BOOLEAN
  PROVE  /\ p.type = "wfd_video_formats" => (SoundProperty(p) <=> SoundFormats(H264CodecDigits, p))
         /\ p.type = "wfd_3d_video_formats" => (SoundProperty(p) <=> SoundFormats(H264Codec3dDigits, p))
         /\ p.type = "wfd_preferred_display_mode" =>
              (SoundProperty(p) <=> SoundCodec(PreferredDisplayModeDigits, p.members))
         /\ p.type = "wfd_coupled_sink" =>
              (SoundProperty(p) <=> p.none \/ Len(p.members[2].num) <= 12 \/ p.members[2] = MinusOne(ULL))
         /\ p.type = "wfd_display_edid" =>
              (SoundProperty(p) <=>
                 p.none \/ (/\ Len(p.members[1].num) <= 2
                            /\ p.members[2] = NONE \/ Len(p.members[2].chars) > 16))
         /\ p.type = "wfd_av_format_change_timing" => (SoundProperty(p) <=> Fits(<<10, 10>>, p.members))
         /\ p.type = "wfd_connector_type" => (SoundProperty(p) <=> p.none \/ Fits(<<2>>, p.members))
         /\ p.type = "wfd_presentation_url" =>
              (SoundProperty(p) <=> \A i \in 1 .. 2 : p.members[i] = NONE \/ p.members[i].address)
         /\ p.type = "wfd_I2C" => (SoundProperty(p) <=> p.members[1].dec > 0 \/ p.members[1].dec = -1)
         /\ p.type = "wfd_uibc_capability" =>
              (SoundProperty(p) <=> p.none \/ (/\ \A i \in 1 .. 3 : p.lists[i] # <<>>
                                               /\ p.members[1].dec > 0))
         /\ p.type = "vendor_key" => (SoundProperty(p) <=> Len(p.members[1].chars) >= 2)
         /\ p.type \in {"wfd_content_protection", "wfd_trigger_method", "wfd_client_rtp_ports", "wfd_route",
                        "wfd_uibc_setting", "wfd_standby_resume_capability", "wfd_standby",
                        "wfd_idr_request"} => SoundProperty(p)
  BY DEF SoundProperty

PropertyText(type) == IF type \in HexMode THEN HexText ELSE PlainText

(* What a property is read back as, behind its name: properties of its     *)
(* class that a text can say, and itself if it is one.                     *)
PropertyIsReadBack(held, p) ==
  LET v == PropertyToString(p)
      read == ReadProperty(p.type, v)
  IN /\ v \in Seq(PropertyText(p.type))
     /\ \A q \in read : q \in held /\ SoundProperty(q)
     /\ SoundProperty(p) => read = {p}

(* What the text of a property is made of.                                 *)
LEMMA PropertyTextTypes ==
  ASSUME NEW type
  PROVE  /\ type \in HexMode => PropertyText(type) = HexText
         /\ type \notin HexMode => PropertyText(type) = PlainText
  BY DEF PropertyText

(* The properties with numbers, whose text is lexed as hexadecimal.        *)
LEMMA HexIsReadBack ==
  ASSUME NEW held, NEW p, NEW text_, NEW read, p.type \in HexMode,
         PropertyToString(p) = text_, ReadProperty(p.type, text_) = read,
         text_ \in Seq(HexText), \A q \in read : q \in held /\ SoundProperty(q),
         SoundProperty(p) => read = {p}
  PROVE  PropertyIsReadBack(held, p)
  BY PropertyTextTypes DEF PropertyIsReadBack

(* A property printed outside the hexadecimal mode is read back.           *)
LEMMA PlainIsReadBack ==
  ASSUME NEW held, NEW p, NEW text_, NEW read, p.type \notin HexMode,
         PropertyToString(p) = text_, ReadProperty(p.type, text_) = read,
         text_ \in Seq(PlainText), \A q \in read : q \in held /\ SoundProperty(q),
         SoundProperty(p) => read = {p}
  PROVE  PropertyIsReadBack(held, p)
  BY PropertyTextTypes DEF PropertyIsReadBack

(* wfd_audio_codecs is read back.                                          *)
LEMMA AudioCodecsAreReadBack ==
  ASSUME NEW p \in HeldAudioCodecs
  PROVE  PropertyIsReadBack(HeldAudioCodecs, p)
<1> DEFINE v == AudioCodecsToString(p)
           read == ReadAudioCodecs(LexHex(v))
<1>1. p.type = "wfd_audio_codecs"
  BY DEF HeldAudioCodecs, Property, NoneProperty
<1>2. /\ v \in Seq(HexText)
      /\ \A q \in read : SoundProperty(q)
      /\ SoundProperty(p) => read = {p}
  <2>1. CASE p = NoneProperty("wfd_audio_codecs")
    BY <2>1, AudioCodecsNone, NoneText
  <2>2. ASSUME NEW cs \in Seq(AudioCodecValues), p = Property("wfd_audio_codecs", <<>>, cs)
        PROVE  <1>2!1 /\ <1>2!2 /\ <1>2!3
    BY <2>2, AudioCodecsRound
  <2> QED BY <2>1, <2>2 DEF HeldAudioCodecs
<1>3. \A q \in read : q \in HeldAudioCodecs
  <2>1. LexHex(v) \in Seq(LexedText)
    BY <1>2, LexHexText
  <2> HIDE DEF v
  <2> QED BY <2>1, AudioCodecsRead
<1>4. PropertyToString(p) = v /\ ReadProperty(p.type, v) = read
  BY <1>1, PropertyTexts, PropertyReaders
<1>5. p.type \in HexMode
  BY <1>1 DEF HexMode
<1> HIDE DEF v, read
<1> QED BY <1>2, <1>3, <1>4, <1>5, HexIsReadBack

HeldVideoFormats == HeldFormats("wfd_video_formats", H264Codec)
HeldFormats3d == HeldFormats("wfd_3d_video_formats", H264Codec3d)

(* The name of formats that are held, and their flag.                      *)
LEMMA HeldFormatsFields ==
  ASSUME NEW type, NEW codec, NEW q \in HeldFormats(type, codec)
  PROVE  q.type = type /\ q.none \in BOOLEAN
<1>1. CASE q = NoneProperty(type)
  BY <1>1 DEF NoneProperty
<1>2. ASSUME NEW ms \in Vectors(Pair), NEW cs \in Seq(Vectors(codec)), q = Property(type, ms, cs)
      PROVE  q.type = type /\ q.none \in BOOLEAN
  BY <1>2 DEF Property
<1> QED BY <1>1, <1>2 DEF HeldFormats

(* wfd_video_formats is read back.                                         *)
LEMMA VideoFormatsAreReadBack ==
  ASSUME NEW p \in HeldVideoFormats
  PROVE  PropertyIsReadBack(HeldVideoFormats, p)
<1> DEFINE type == "wfd_video_formats"
           v == VideoFormatsToString(p)
           RF(t) == ReadFormats(type, Pair, H264Codec, CodecProduction(9), t)
           read == RF(LexHex(v))
<1>1. p.type = type /\ p.none \in BOOLEAN
  BY HeldFormatsFields DEF HeldVideoFormats
<1>2. PropertyToString(p) = v /\ ReadProperty(p.type, v) = read
  <2>1. ReadVideoFormats(LexHex(v)) = RF(LexHex(v))
    BY PairTypes DEF ReadVideoFormats, ReadH264Codec, CodecProduction
  <2> QED BY <1>1, <2>1, PropertyTexts, PropertyReaders
<1>3. \A q : q \in HeldVideoFormats => (SoundProperty(q) <=> SoundFormats(H264CodecDigits, q))
  <2>1. \A q : q \in HeldVideoFormats => q.type = type /\ q.none \in BOOLEAN
    BY HeldFormatsFields DEF HeldVideoFormats
  <2> QED BY <2>1, SoundnessByName
<1>4. /\ v \in Seq(HexText)
      /\ \A q \in read : q \in HeldVideoFormats /\ SoundFormats(H264CodecDigits, q)
      /\ SoundFormats(H264CodecDigits, p) => read = {p}
  <2>1. CASE p = NoneProperty(type)
    <3>1. p.none = TRUE
      BY <2>1 DEF NoneProperty
    <3>2. v = <<NONE>> /\ LexHex(v) = <<NONE>>
      BY <3>1, NoneText DEF VideoFormatsToString
    <3>3. RF(<<NONE>>) = {p} /\ SoundFormats(H264CodecDigits, p)
      BY <2>1, FormatsNone
    <3> QED BY <3>2, <3>3, NoneText
  <2>2. ASSUME NEW ms \in Vectors(Pair), NEW cs \in Seq(Vectors(H264Codec)), p = Property(type, ms, cs)
        PROVE  <1>4!1 /\ <1>4!2 /\ <1>4!3
    <3> DEFINE items == [i \in DOMAIN cs |-> H264CodecToString(cs[i])]
    <3>1. \A c : H264CodecToString(c) = CodecText(9, H264CodecDigits, c)
      BY DEF H264CodecToString, CodecText
    <3>2. \A k \in 1 .. Len(cs) : CodecText(9, H264CodecDigits, cs[k]) \in Seq(HexText)
      <4>1. ASSUME NEW k \in 1 .. Len(cs) PROVE CodecText(9, H264CodecDigits, cs[k]) \in Seq(HexText)
        <5>1. CodecIsReadBack(9, H264Codec, H264CodecDigits, cs[k])
          BY H264CodecTypes, CodecRound
        <5> QED BY <5>1 DEF CodecIsReadBack
      <4> QED BY <4>1
    <3>3. /\ items \in Seq(Seq(HexText)) /\ Len(items) = Len(cs)
          /\ \A k \in 1 .. Len(cs) : items[k] = CodecText(9, H264CodecDigits, cs[k])
      BY <3>1, <3>2
    <3>4. p.none = FALSE /\ p.members = ms /\ p.lists = cs
      BY <2>2 DEF Property
    <3>5. v = Hex(Pair, ms) \o Listed(11, items)
      BY <3>4 DEF VideoFormatsToString, Pair
    <3> HIDE DEF items
    <3>6. FormatsAreReadBack(type, H264Codec, CodecProduction(9), H264CodecDigits, Property(type, ms, cs),
                             Hex(Pair, ms) \o Listed(9 + 2, items))
      BY <3>3, H264CodecTypes, FormatsRound
    <3> QED BY <3>5, <3>6, <2>2 DEF FormatsAreReadBack, HeldVideoFormats
  <2> QED BY <2>1, <2>2 DEF HeldVideoFormats, HeldFormats
<1>5. p.type \in HexMode
  BY <1>1 DEF HexMode
<1> HIDE DEF v, read
<1> QED BY <1>2, <1>3, <1>4, <1>5, HexIsReadBack
(* wfd_3d_video_formats is read back.                                      *)
LEMMA Formats3dAreReadBack ==
  ASSUME NEW p \in HeldFormats3d
  PROVE  PropertyIsReadBack(HeldFormats3d, p)
<1> DEFINE type == "wfd_3d_video_formats"
           v == Formats3dToString(p)
           RF(t) == ReadFormats(type, Pair, H264Codec3d, CodecProduction(7), t)
           read == RF(LexHex(v))
<1>1. p.type = type /\ p.none \in BOOLEAN
  BY HeldFormatsFields DEF HeldFormats3d
<1>2. PropertyToString(p) = v /\ ReadProperty(p.type, v) = read
  <2>1. ReadFormats3d(LexHex(v)) = RF(LexHex(v))
    BY PairTypes DEF ReadFormats3d, ReadH264Codec3d, CodecProduction
  <2> QED BY <1>1, <2>1, PropertyTexts, PropertyReaders
<1>3. \A q : q \in HeldFormats3d => (SoundProperty(q) <=> SoundFormats(H264Codec3dDigits, q))
  <2>1. \A q : q \in HeldFormats3d => q.type = type /\ q.none \in BOOLEAN
    BY HeldFormatsFields DEF HeldFormats3d
  <2> QED BY <2>1, SoundnessByName
<1>4. /\ v \in Seq(HexText)
      /\ \A q \in read : q \in HeldFormats3d /\ SoundFormats(H264Codec3dDigits, q)
      /\ SoundFormats(H264Codec3dDigits, p) => read = {p}
  <2>1. CASE p = NoneProperty(type)
    <3>1. p.none = TRUE
      BY <2>1 DEF NoneProperty
    <3>2. v = <<NONE>> /\ LexHex(v) = <<NONE>>
      BY <3>1, NoneText DEF Formats3dToString
    <3>3. RF(<<NONE>>) = {p} /\ SoundFormats(H264Codec3dDigits, p)
      BY <2>1, FormatsNone
    <3> QED BY <3>2, <3>3, NoneText
  <2>2. ASSUME NEW ms \in Vectors(Pair), NEW cs \in Seq(Vectors(H264Codec3d)), p = Property(type, ms, cs)
        PROVE  <1>4!1 /\ <1>4!2 /\ <1>4!3
    <3> DEFINE items == [i \in DOMAIN cs |-> H264Codec3dToString(cs[i])]
    <3>1. \A c : H264Codec3dToString(c) = CodecText(7, H264Codec3dDigits, c)
      BY DEF H264Codec3dToString, CodecText
    <3>2. \A k \in 1 .. Len(cs) : CodecText(7, H264Codec3dDigits, cs[k]) \in Seq(HexText)
      <4>1. ASSUME NEW k \in 1 .. Len(cs) PROVE CodecText(7, H264Codec3dDigits, cs[k]) \in Seq(HexText)
        <5>1. CodecIsReadBack(7, H264Codec3d, H264Codec3dDigits, cs[k])
          BY H264Codec3dTypes, CodecRound
        <5> QED BY <5>1 DEF CodecIsReadBack
      <4> QED BY <4>1
    <3>3. /\ items \in Seq(Seq(HexText)) /\ Len(items) = Len(cs)
          /\ \A k \in 1 .. Len(cs) : items[k] = CodecText(7, H264Codec3dDigits, cs[k])
      BY <3>1, <3>2
    <3>4. p.none = FALSE /\ p.members = ms /\ p.lists = cs
      BY <2>2 DEF Property
    <3>5. v = Hex(Pair, ms) \o Listed(9, items)
      BY <3>4 DEF Formats3dToString, Pair
    <3> HIDE DEF items
    <3>6. FormatsAreReadBack(type, H264Codec3d, CodecProduction(7), H264Codec3dDigits, Property(type, ms, cs),
                             Hex(Pair, ms) \o Listed(7 + 2, items))
      BY <3>3, H264Codec3dTypes, FormatsRound
    <3> QED BY <3>5, <3>6, <2>2 DEF FormatsAreReadBack, HeldFormats3d
  <2> QED BY <2>1, <2>2 DEF HeldFormats3d, HeldFormats
<1>5. p.type \in HexMode
  BY <1>1 DEF HexMode
<1> HIDE DEF v, read
<1> QED BY <1>2, <1>3, <1>4, <1>5, HexIsReadBack

----------------------------------------------------------------------------
(* A property of numbers and nothing else.                                 *)
HeldNumbers(type, members) == {Property(type, ms, <<>>) : ms \in Vectors(members)}

HeldAVFormatChangeTiming == HeldNumbers("wfd_av_format_change_timing", AVFormatChangeTiming)

(* The two members of wfd_av_format_change_timing and their ten digits.    *)
LEMMA AVFormatChangeTimingTypes ==
  /\ AVFormatChangeTiming \in Seq(1 .. 16) /\ Len(AVFormatChangeTiming) = 2
  /\ <<10, 10>> \in Seq(1 .. 16) /\ Len(<<10, 10>>) = 2
  /\ \A i \in 1 .. 2 : <<10, 10>>[i] <= AVFormatChangeTiming[i]
  BY DEF AVFormatChangeTiming, ULL

(* wfd_av_format_change_timing is read back.                               *)
LEMMA AVFormatChangeTimingIsReadBack ==
  ASSUME NEW p \in HeldAVFormatChangeTiming
  PROVE  PropertyIsReadBack(HeldAVFormatChangeTiming, p)
<1> DEFINE type == "wfd_av_format_change_timing"
           T == AVFormatChangeTiming
           v == AVFormatChangeTimingToString(p)
           read == ReadAVFormatChangeTiming(LexHex(v))
           q == Property(type, Assign(T, LexHex(v)), <<>>)
<1>1. PICK ms \in Vectors(T) : p = Property(type, ms, <<>>)
  BY DEF HeldAVFormatChangeTiming, HeldNumbers
<1>2. p.type = type /\ p.none = FALSE /\ p.members = ms
  BY <1>1 DEF Property
<1>3. q.type = type /\ q.none = FALSE /\ q.members = Assign(T, LexHex(v))
  BY DEF Property
<1>4. PropertyToString(p) = v /\ ReadProperty(p.type, v) = read
  BY <1>2, PropertyTexts, PropertyReaders
<1>5. v = Hex(<<10, 10>>, ms)
  BY <1>2 DEF AVFormatChangeTimingToString
<1>6. NumbersAreReadBack(T, <<10, 10>>, ms)
  BY AVFormatChangeTimingTypes, NumbersRound
<1>7. /\ v \in Seq(HexText) /\ Derives(Nums(2), LexHex(v))
      /\ Assign(T, LexHex(v)) \in Vectors(T) /\ Fits(<<10, 10>>, Assign(T, LexHex(v)))
      /\ Fits(<<10, 10>>, ms) => Assign(T, LexHex(v)) = ms
  BY <1>5, <1>6, AVFormatChangeTimingTypes DEF NumbersAreReadBack
<1>8. read = {q}
  BY <1>7 DEF ReadAVFormatChangeTiming, When
<1>9. q \in HeldAVFormatChangeTiming
  BY <1>7 DEF HeldAVFormatChangeTiming, HeldNumbers
<1>10. p.type \in HexMode
  BY <1>2 DEF HexMode
<1> HIDE DEF v, read, q
<1>11. SoundProperty(q) /\ (SoundProperty(p) => Fits(<<10, 10>>, ms))
  <2>1. p.none \in BOOLEAN /\ q.none \in BOOLEAN
    BY <1>2, <1>3
  <2>2. SoundProperty(q) <=> Fits(<<10, 10>>, q.members)
    BY <1>3, <2>1, SoundnessByName
  <2>3. SoundProperty(p) <=> Fits(<<10, 10>>, p.members)
    BY <1>2, <2>1, SoundnessByName
  <2> QED BY <1>2, <1>3, <1>7, <2>2, <2>3
<1>12. SoundProperty(p) => q = p
  BY <1>1, <1>7, <1>11 DEF q
<1>13. \A r \in read : r \in HeldAVFormatChangeTiming /\ SoundProperty(r)
  BY <1>8, <1>9, <1>11
<1>14. SoundProperty(p) => read = {p}
  BY <1>8, <1>12
<1> QED BY <1>4, <1>7, <1>10, <1>13, <1>14, HexIsReadBack

(* What is read under that name is a property its class can hold.          *)
LEMMA AVFormatChangeTimingRead ==
  ASSUME NEW tokens \in Seq(LexedText), NEW q \in ReadAVFormatChangeTiming(tokens)
  PROVE  q \in HeldAVFormatChangeTiming
<1>1. Derives(Nums(2), tokens) /\ q = Property("wfd_av_format_change_timing", Assign(AVFormatChangeTiming, tokens), <<>>)
  BY DEF ReadAVFormatChangeTiming, When
<1>2. Assign(AVFormatChangeTiming, tokens) \in Vectors(AVFormatChangeTiming)
  BY <1>1, AVFormatChangeTimingTypes, NumbersRead
<1> QED BY <1>1, <1>2 DEF HeldAVFormatChangeTiming, HeldNumbers

----------------------------------------------------------------------------
HeldConnectorType ==
  {NoneProperty("wfd_connector_type")} \cup HeldNumbers("wfd_connector_type", ConnectorType)

(* The member of wfd_connector_type and its two digits.                    *)
LEMMA ConnectorTypeTypes ==
  /\ ConnectorType \in Seq(1 .. 16) /\ Len(ConnectorType) = 1
  /\ <<2>> \in Seq(1 .. 16) /\ Len(<<2>>) = 1
  /\ \A i \in 1 .. 1 : <<2>>[i] <= ConnectorType[i]
  BY DEF ConnectorType, USHORT

(* "none" is not a number.                                                 *)
LEMMA NoneIsNoNumber ==
  ASSUME NEW n \in Nat \ {0}
  PROVE  ~Derives(Nums(n), <<NONE>>)
<1>1. Terminal(NONE) = "none" /\ "none" # "NUM"
  BY Tokens DEF NONE
<1>2. <<NONE>> \in Seq(LexedText) /\ Len(<<NONE>>) = 1 /\ <<NONE>>[1] = NONE
  BY NoneText
<1>3. SUFFICES ASSUME Derives(Nums(n), <<NONE>>) PROVE FALSE
  OBVIOUS
<1> DEFINE t == <<NONE>>
<1>4. t \in Seq(LexedText) /\ Len(t) = 1 /\ Terminal(t[1]) # "NUM"
  BY <1>1, <1>2
<1>5. Derives(Nums(n), t)
  BY <1>3
<1> HIDE DEF t
<1>6. Len(t) = n /\ \A i \in 1 .. n : Terminal(t[i]) = "NUM"
  BY <1>4, <1>5, NumsDerive
<1> QED BY <1>4, <1>6

(* wfd_connector_type is read back.                                        *)
LEMMA ConnectorTypeIsReadBack ==
  ASSUME NEW p \in HeldConnectorType
  PROVE  PropertyIsReadBack(HeldConnectorType, p)
<1> DEFINE type == "wfd_connector_type"
           T == ConnectorType
           v == ConnectorTypeToString(p)
           read == ReadConnectorType(LexHex(v))
           q == Property(type, Assign(T, LexHex(v)), <<>>)
<1>1. CASE p = NoneProperty(type)
  <2>1. p.type = type /\ p.none = TRUE
    BY <1>1 DEF NoneProperty
  <2>2. v = <<NONE>> /\ LexHex(v) = <<NONE>> /\ v \in Seq(HexText)
    BY <2>1, NoneText DEF ConnectorTypeToString
  <2>3. PropertyToString(p) = v /\ ReadProperty(p.type, v) = read
    BY <2>1, PropertyTexts, PropertyReaders
  <2>4. read = {p}
    BY <1>1, <2>2, NoneIsNoNumber DEF ReadConnectorType, NoneIf, When
  <2>5. SoundProperty(p) /\ p.type \in HexMode
    <3>1. p.none \in BOOLEAN
      BY <2>1
    <3>2. SoundProperty(p)
      BY <2>1, <3>1, SoundnessByName
    <3> QED BY <2>1, <3>2 DEF HexMode
  <2> HIDE DEF v, read
  <2> QED BY <2>2, <2>3, <2>4, <2>5, HexIsReadBack
<1>2. ASSUME NEW ms \in Vectors(T), p = Property(type, ms, <<>>)
      PROVE  PropertyIsReadBack(HeldConnectorType, p)
  <2>2. p.type = type /\ p.none = FALSE /\ p.members = ms
    BY <1>2 DEF Property
  <2>3. q.type = type /\ q.none = FALSE /\ q.members = Assign(T, LexHex(v))
    BY DEF Property
  <2>4. PropertyToString(p) = v /\ ReadProperty(p.type, v) = read
    BY <2>2, PropertyTexts, PropertyReaders
  <2>5. v = Hex(<<2>>, ms)
    BY <2>2 DEF ConnectorTypeToString
  <2>6. NumbersAreReadBack(T, <<2>>, ms)
    BY ConnectorTypeTypes, NumbersRound
  <2>7. /\ v \in Seq(HexText) /\ Derives(Nums(1), LexHex(v))
        /\ Assign(T, LexHex(v)) \in Vectors(T) /\ Fits(<<2>>, Assign(T, LexHex(v)))
        /\ Fits(<<2>>, ms) => Assign(T, LexHex(v)) = ms
    BY <2>5, <2>6, ConnectorTypeTypes DEF NumbersAreReadBack
  <2>8. read = {q}
    <3>1. LexHex(v) # <<NONE>>
      BY <2>7, NoneIsNoNumber
    <3> QED BY <2>7, <3>1 DEF ReadConnectorType, NoneIf, When
  <2>9. q \in HeldConnectorType
    BY <2>7 DEF HeldConnectorType, HeldNumbers
  <2>10. p.type \in HexMode
    BY <2>2 DEF HexMode
  <2> HIDE DEF v, read, q
  <2>11. SoundProperty(q) /\ (SoundProperty(p) => Fits(<<2>>, ms))
    <3>1. p.none \in BOOLEAN /\ q.none \in BOOLEAN
      BY <2>2, <2>3
    <3>2. SoundProperty(q) <=> q.none \/ Fits(<<2>>, q.members)
      BY <2>3, <3>1, SoundnessByName
    <3>3. SoundProperty(p) <=> p.none \/ Fits(<<2>>, p.members)
      BY <2>2, <3>1, SoundnessByName
    <3> QED BY <2>2, <2>3, <2>7, <3>2, <3>3
  <2>12. SoundProperty(p) => q = p
    BY <1>2, <2>7, <2>11 DEF q
  <2>13. \A r \in read : r \in HeldConnectorType /\ SoundProperty(r)
    BY <2>8, <2>9, <2>11
  <2>14. SoundProperty(p) => read = {p}
    BY <2>8, <2>12
  <2> QED BY <2>4, <2>7, <2>10, <2>13, <2>14, HexIsReadBack
<1> QED BY <1>1, <1>2 DEF HeldConnectorType, HeldNumbers

(* What is read under that name is a property its class can hold.          *)
LEMMA ConnectorTypeRead ==
  ASSUME NEW tokens \in Seq(LexedText), NEW q \in ReadConnectorType(tokens)
  PROVE  q \in HeldConnectorType
<1>1. \/ q = NoneProperty("wfd_connector_type")
      \/ Derives(Nums(1), tokens) /\ q = Property("wfd_connector_type", Assign(ConnectorType, tokens), <<>>)
  BY DEF ReadConnectorType, NoneIf, When
<1>2. Derives(Nums(1), tokens) => Assign(ConnectorType, tokens) \in Vectors(ConnectorType)
  BY ConnectorTypeTypes, NumbersRead
<1> QED BY <1>1, <1>2 DEF HeldConnectorType, HeldNumbers

----------------------------------------------------------------------------
(* Two tokens.                                                             *)
LEMMA TwoTokens ==
  ASSUME NEW a, NEW b, NEW A, NEW B, NEW x, NEW y
  PROVE  /\ LexHex(<<x, y>>) = <<HexToken(x), HexToken(y)>>
         /\ Assign(<<a, b>>, <<x, y>>) = <<Assigned(a, x), Assigned(b, y)>>
         /\ Derives(<<A, B>>, <<x, y>>) <=> Terminal(x) \in A /\ Terminal(y) \in B
<1>1. /\ DOMAIN <<x, y>> = 1 .. 2 /\ <<x, y>>[1] = x /\ <<x, y>>[2] = y
      /\ DOMAIN <<a, b>> = 1 .. 2 /\ <<a, b>>[1] = a /\ <<a, b>>[2] = b
      /\ Len(<<A, B>>) = 2 /\ <<A, B>>[1] = A /\ <<A, B>>[2] = B /\ Len(<<x, y>>) = 2
  OBVIOUS
<1>2. LexHex(<<x, y>>) = <<HexToken(x), HexToken(y)>>
  <2>1. LexHex(<<x, y>>) = [i \in 1 .. 2 |-> HexToken(<<x, y>>[i])]
    BY <1>1 DEF LexHex
  <2> DEFINE s == [i \in 1 .. 2 |-> HexToken(<<x, y>>[i])]
             t == <<HexToken(x), HexToken(y)>>
             S == {HexToken(x), HexToken(y)}
  <2>2. s \in Seq(S) /\ Len(s) = 2 /\ s[1] = HexToken(x) /\ s[2] = HexToken(y)
    OBVIOUS
  <2>3. t \in Seq(S) /\ Len(t) = 2 /\ t[1] = HexToken(x) /\ t[2] = HexToken(y)
    OBVIOUS
  <2> HIDE DEF s, t, S
  <2>4. s = t
    BY <2>2, <2>3, SeqEqual
  <2> QED BY <2>1, <2>4 DEF s, t
<1>3. Assign(<<a, b>>, <<x, y>>) = <<Assigned(a, x), Assigned(b, y)>>
  <2> DEFINE s == Assign(<<a, b>>, <<x, y>>)
             t == <<Assigned(a, x), Assigned(b, y)>>
             S == {Assigned(a, x), Assigned(b, y)}
  <2>1. s = [i \in 1 .. 2 |-> Assigned(<<a, b>>[i], <<x, y>>[i])]
    BY <1>1 DEF Assign
  <2>2. s \in Seq(S) /\ Len(s) = 2 /\ s[1] = Assigned(a, x) /\ s[2] = Assigned(b, y)
    <3>1. DOMAIN s = 1 .. 2 /\ s[1] = Assigned(<<a, b>>[1], <<x, y>>[1]) /\ s[2] = Assigned(<<a, b>>[2], <<x, y>>[2])
      BY <2>1
    <3>2. s[1] = Assigned(a, x) /\ s[2] = Assigned(b, y)
      BY <1>1, <3>1
    <3>3. s = [i \in 1 .. 2 |-> s[i]]
      BY <2>1
    <3> HIDE DEF s
    <3> QED BY <3>1, <3>2, <3>3
  <2>3. t \in Seq(S) /\ Len(t) = 2 /\ t[1] = Assigned(a, x) /\ t[2] = Assigned(b, y)
    OBVIOUS
  <2> HIDE DEF s, t, S
  <2>4. s = t
    BY <2>2, <2>3, SeqEqual
  <2> QED BY <2>4 DEF s, t
<1>4. Derives(<<A, B>>, <<x, y>>) <=> Terminal(x) \in A /\ Terminal(y) \in B
  BY <1>1 DEF Derives
<1> QED BY <1>2, <1>3, <1>4

(* A text of two tokens.                                                   *)
LEMMA TwoOf ==
  ASSUME NEW S, NEW tokens \in Seq(S), Len(tokens) = 2
  PROVE  tokens = <<tokens[1], tokens[2]>> /\ tokens[1] \in S /\ tokens[2] \in S
  OBVIOUS

HeldCoupledSink ==
  {NoneProperty("wfd_coupled_sink")} \cup
  {Property("wfd_coupled_sink", <<status, address>>, <<>>) : status \in Number(UCHAR), address \in Number(ULL)}

(* wfd_coupled_sink is read back.                                          *)
LEMMA CoupledSinkIsReadBack ==
  ASSUME NEW p \in HeldCoupledSink
  PROVE  PropertyIsReadBack(HeldCoupledSink, p)
<1> DEFINE type == "wfd_coupled_sink"
           v == CoupledSinkToString(p)
           read == ReadCoupledSink(LexHex(v))
           P == <<{"NUM"}, {"NUM", "none"}>>
<1>1. CASE p = NoneProperty(type)
  <2>1. p.type = type /\ p.none = TRUE
    BY <1>1 DEF NoneProperty
  <2>2. v = <<NONE>> /\ LexHex(v) = <<NONE>> /\ v \in Seq(HexText)
    BY <2>1, NoneText DEF CoupledSinkToString
  <2>3. PropertyToString(p) = v /\ ReadProperty(p.type, v) = read
    BY <2>1, PropertyTexts, PropertyReaders
  <2>4. read = {p}
    <3>1. ~Derives(P, <<NONE>>)
      <4>1. Len(<<NONE>>) = 1 /\ Len(P) = 2
        OBVIOUS
      <4> QED BY <4>1 DEF Derives
    <3> QED BY <1>1, <2>2, <3>1 DEF ReadCoupledSink, NoneIf, When
  <2>5. SoundProperty(p) /\ p.type \in HexMode
    <3>1. p.none \in BOOLEAN
      BY <2>1
    <3>2. SoundProperty(p)
      BY <2>1, <3>1, SoundnessByName
    <3> QED BY <2>1, <3>2 DEF HexMode
  <2> HIDE DEF v, read
  <2> QED BY <2>2, <2>3, <2>4, <2>5, HexIsReadBack
<1>2. ASSUME NEW status \in Number(UCHAR), NEW address \in Number(ULL),
             p = Property(type, <<status, address>>, <<>>)
      PROVE  PropertyIsReadBack(HeldCoupledSink, p)
  <2> DEFINE x == MAKE_HEX_STRING(2, status)
             y == IF address = MinusOne(ULL) THEN NONE ELSE MAKE_HEX_STRING(12, address)
             r == Assigned(ULL, HexToken(y))
             q == Property(type, <<status, r>>, <<>>)
  <2>2. p.type = type /\ p.none = FALSE /\ p.members = <<status, address>>
    BY <1>2 DEF Property
  <2>3. q.type = type /\ q.none = FALSE /\ q.members = <<status, r>>
    BY DEF Property
  <2>4. PropertyToString(p) = v /\ ReadProperty(p.type, v) = read
    BY <2>2, PropertyTexts, PropertyReaders
  <2>5. v = <<x, y>>
    BY <2>2 DEF CoupledSinkToString
  <2>6. /\ x \in HexText /\ HexToken(x) \in Number(16) /\ Terminal(HexToken(x)) = "NUM"
        /\ Assigned(UCHAR, HexToken(x)) = status
    <3>1. status \in Number(2) /\ Len(status.num) <= 2
      BY DEF UCHAR, Number
    <3>2. /\ x \in HexText /\ HexToken(x) \in Number(16) /\ Assigned(2, HexToken(x)) = status
      BY <3>1, HexRound
    <3> QED BY <3>2, NumberToken DEF UCHAR
  <2>7. /\ y \in HexText /\ Terminal(HexToken(y)) \in {"NUM", "none"}
        /\ r \in Number(ULL)
        /\ Len(r.num) <= 12 \/ r = MinusOne(ULL)
        /\ Len(address.num) <= 12 \/ address = MinusOne(ULL) => r = address
    <3>1. CASE address = MinusOne(ULL)
      <4>1. y = NONE /\ HexToken(y) = NONE
        BY <3>1, HexTokenWord DEF NONE
      <4>2. NONE \in HexText /\ Terminal(NONE) = "none"
        BY Tokens DEF NONE, HexText, Words
      <4>3. r = MinusOne(ULL)
        BY <4>1 DEF Assigned, ULL, AsRead
      <4> QED BY <3>1, <4>1, <4>2, <4>3, MinusOneNumber DEF ULL
    <3>2. CASE address # MinusOne(ULL)
      <4>1. y = MAKE_HEX_STRING(12, address)
        BY <3>2
      <4>2. /\ MAKE_HEX_STRING(12, address) \in HexText
            /\ HexToken(MAKE_HEX_STRING(12, address)) \in Number(16)
            /\ Assigned(16, HexToken(MAKE_HEX_STRING(12, address))) \in Number(16)
            /\ Len(Assigned(16, HexToken(MAKE_HEX_STRING(12, address))).num) <= 12
            /\ Len(address.num) <= 12 => Assigned(16, HexToken(MAKE_HEX_STRING(12, address))) = address
        BY HexRound DEF ULL
      <4>3. Terminal(HexToken(MAKE_HEX_STRING(12, address))) = "NUM"
        BY <4>2, NumberToken
      <4> QED BY <3>2, <4>1, <4>2, <4>3 DEF ULL
    <3> QED BY <3>1, <3>2
  <2> HIDE DEF x, y, r
  <2>8. /\ LexHex(v) = <<HexToken(x), HexToken(y)>>
        /\ Derives(P, LexHex(v))
        /\ Assign(CoupledSink, LexHex(v)) = <<status, r>>
    <3>1. LexHex(v) = <<HexToken(x), HexToken(y)>>
      BY <2>5, TwoTokens
    <3>2. Derives(P, <<HexToken(x), HexToken(y)>>)
      <4> DEFINE A == {"NUM"}
                 B == {"NUM", "none"}
      <4>1. Terminal(HexToken(x)) \in A /\ Terminal(HexToken(y)) \in B
        BY <2>6, <2>7
      <4> HIDE DEF A, B
      <4>2. Derives(<<A, B>>, <<HexToken(x), HexToken(y)>>)
        BY <4>1, TwoTokens
      <4> QED BY <4>2 DEF A, B
    <3>3. Assign(<<UCHAR, ULL>>, <<HexToken(x), HexToken(y)>>) = <<Assigned(UCHAR, HexToken(x)), Assigned(ULL, HexToken(y))>>
      BY TwoTokens
    <3> QED BY <3>1, <3>2, <3>3, <2>6 DEF CoupledSink, r
  <2>9. v \in Seq(HexText)
    BY <2>5, <2>6, <2>7
  <2>10. read = {q}
    <3>1. LexHex(v) # <<NONE>>
      <4>1. Len(LexHex(v)) = 2 /\ Len(<<NONE>>) = 1
        BY <2>8
      <4> QED BY <4>1
    <3> QED BY <2>8, <3>1 DEF ReadCoupledSink, NoneIf, When
  <2>11. q \in HeldCoupledSink
    BY <2>7 DEF HeldCoupledSink
  <2>12. p.type \in HexMode
    BY <2>2 DEF HexMode
  <2> HIDE DEF v, read, q
  <2>13. SoundProperty(q) /\ (SoundProperty(p) => q = p)
    <3>1. p.none \in BOOLEAN /\ q.none \in BOOLEAN
      BY <2>2, <2>3
    <3>2. SoundProperty(q) <=> q.none \/ Len(q.members[2].num) <= 12 \/ q.members[2] = MinusOne(ULL)
      BY <2>3, <3>1, SoundnessByName
    <3>3. SoundProperty(p) <=> p.none \/ Len(p.members[2].num) <= 12 \/ p.members[2] = MinusOne(ULL)
      BY <2>2, <3>1, SoundnessByName
    <3>4. q.members[2] = r /\ p.members[2] = address
      BY <2>2, <2>3
    <3>5. SoundProperty(p) => r = address
      BY <2>2, <2>7, <3>3, <3>4
    <3> QED BY <1>2, <2>7, <3>2, <3>4, <3>5 DEF q
  <2>14. \A s \in read : s \in HeldCoupledSink /\ SoundProperty(s)
    BY <2>10, <2>11, <2>13
  <2>15. SoundProperty(p) => read = {p}
    BY <2>10, <2>13
  <2> QED BY <2>4, <2>9, <2>12, <2>14, <2>15, HexIsReadBack
<1>3. \/ p = NoneProperty(type)
      \/ \E status \in Number(UCHAR), address \in Number(ULL) : p = Property(type, <<status, address>>, <<>>)
  BY DEF HeldCoupledSink
<1> QED BY <1>1, <1>2, <1>3

(* A number or "none" read into w digits is a number of w digits.          *)
LEMMA AssignedRead ==
  ASSUME NEW w \in Nat \ {0}, NEW t \in LexedText, Terminal(t) \in {"NUM", "none"}
  PROVE  Assigned(w, t) \in Number(w)
<1>1. CASE Terminal(t) = "NUM"
  BY <1>1, LexedTokens, AssignedNumber
<1>2. CASE Terminal(t) = "none"
  <2>1. t = NONE
    BY <1>2, LexedTokens DEF NONE, Words
  <2>2. Assigned(w, t) = MinusOne(w)
    BY <2>1 DEF Assigned, AsRead
  <2> QED BY <2>2, MinusOneNumber
<1> QED BY <1>1, <1>2

(* What is read under that name is a property its class can hold.          *)
LEMMA CoupledSinkRead ==
  ASSUME NEW tokens \in Seq(LexedText), NEW q \in ReadCoupledSink(tokens)
  PROVE  q \in HeldCoupledSink
<1> DEFINE P == <<{"NUM"}, {"NUM", "none"}>>
<1>1. \/ q = NoneProperty("wfd_coupled_sink")
      \/ Derives(P, tokens) /\ q = Property("wfd_coupled_sink", Assign(CoupledSink, tokens), <<>>)
  BY DEF ReadCoupledSink, NoneIf, When
<1>2. ASSUME Derives(P, tokens)
      PROVE  \E status \in Number(UCHAR), address \in Number(ULL) : Assign(CoupledSink, tokens) = <<status, address>>
  <2>1. Len(tokens) = 2
    BY <1>2 DEF Derives
  <2> DEFINE x == tokens[1]
             y == tokens[2]
  <2>2. tokens = <<x, y>> /\ x \in LexedText /\ y \in LexedText
    BY <2>1, TwoOf
  <2> HIDE DEF x, y
  <2>3. Terminal(x) = "NUM" /\ Terminal(y) \in {"NUM", "none"}
    BY <1>2, <2>2, TwoTokens
  <2>4. Assign(CoupledSink, tokens) = <<Assigned(UCHAR, x), Assigned(ULL, y)>>
    BY <2>2, TwoTokens DEF CoupledSink
  <2>5. Assigned(UCHAR, x) \in Number(UCHAR) /\ Assigned(ULL, y) \in Number(ULL)
    BY <2>2, <2>3, AssignedRead DEF UCHAR, ULL
  <2> QED BY <2>4, <2>5
<1> QED BY <1>1, <1>2 DEF HeldCoupledSink

----------------------------------------------------------------------------
EdidBytes == {NONE} \cup {Chars(c) : c \in Seq(0 .. 15)}
HeldDisplayEdid ==
  {NoneProperty("wfd_display_edid")} \cup
  {Property("wfd_display_edid", <<blocks, bytes>>, <<>>) :
     blocks \in Number(USHORT), bytes \in EdidBytes}

(* A string of characters is a token of its own kind.                      *)
LEMMA CharsFields ==
  ASSUME NEW c
  PROVE  Chars(c).chars = c /\ Chars(c) # NONE /\ Terminal(Chars(c)) = "STRING"
<1>1. Chars(c) # NONE
  BY Tokens DEF NONE
<1>2. Chars(c).chars = c
  BY DEF Chars
<1> QED BY <1>1, <1>2, Tokens

(* wfd_display_edid is read back.                                          *)
LEMMA DisplayEdidIsReadBack ==
  ASSUME NEW p \in HeldDisplayEdid
  PROVE  PropertyIsReadBack(HeldDisplayEdid, p)
<1> DEFINE type == "wfd_display_edid"
           v == DisplayEdidToString(p)
           read == ReadDisplayEdid(LexHex(v))
           P == <<{"NUM"}, {"STRING", "none"}>>
<1>1. CASE p = NoneProperty(type)
  <2>1. p.type = type /\ p.none = TRUE
    BY <1>1 DEF NoneProperty
  <2>2. v = <<NONE>> /\ LexHex(v) = <<NONE>> /\ v \in Seq(HexText)
    BY <2>1, NoneText DEF DisplayEdidToString
  <2>3. PropertyToString(p) = v /\ ReadProperty(p.type, v) = read
    BY <2>1, PropertyTexts, PropertyReaders
  <2>4. read = {p}
    <3>1. ~Derives(P, <<NONE>>)
      <4>1. Len(<<NONE>>) = 1 /\ Len(P) = 2
        OBVIOUS
      <4> QED BY <4>1 DEF Derives
    <3> QED BY <1>1, <2>2, <3>1 DEF ReadDisplayEdid, NoneIf, When
  <2>5. SoundProperty(p) /\ p.type \in HexMode
    <3>1. p.none \in BOOLEAN
      BY <2>1
    <3>2. SoundProperty(p)
      BY <2>1, <3>1, SoundnessByName
    <3> QED BY <2>1, <3>2 DEF HexMode
  <2> HIDE DEF v, read
  <2> QED BY <2>2, <2>3, <2>4, <2>5, HexIsReadBack
<1>2. ASSUME NEW blocks \in Number(USHORT), NEW bytes \in EdidBytes,
             p = Property(type, <<blocks, bytes>>, <<>>)
      PROVE  PropertyIsReadBack(HeldDisplayEdid, p)
  <2> DEFINE x == MAKE_HEX_STRING(2, blocks)
             r == Assigned(USHORT, HexToken(x))
             q == Property(type, <<r, bytes>>, <<>>)
             whole == bytes = NONE \/ Len(bytes.chars) > 16
  <2>2. p.type = type /\ p.none = FALSE /\ p.members = <<blocks, bytes>>
    BY <1>2 DEF Property
  <2>3. q.type = type /\ q.none = FALSE /\ q.members = <<r, bytes>>
    BY DEF Property
  <2>4. PropertyToString(p) = v /\ ReadProperty(p.type, v) = read
    BY <2>2, PropertyTexts, PropertyReaders
  <2>5. v = <<x, bytes>>
    BY <2>2 DEF DisplayEdidToString
  <2>6. /\ x \in HexText /\ HexToken(x) \in Number(16) /\ Terminal(HexToken(x)) = "NUM"
        /\ r \in Number(USHORT) /\ Len(r.num) <= 2
        /\ Len(blocks.num) <= 2 => r = blocks
    <3>1. /\ x \in HexText /\ HexToken(x) \in Number(16)
          /\ Assigned(4, HexToken(x)) \in Number(4) /\ Len(Assigned(4, HexToken(x)).num) <= 2
          /\ Len(blocks.num) <= 2 => Assigned(4, HexToken(x)) = blocks
      BY HexRound DEF USHORT
    <3> QED BY <3>1, NumberToken DEF USHORT
  <2>7. /\ bytes \in HexText
        /\ whole => HexToken(bytes) = bytes /\ Terminal(HexToken(bytes)) \in {"STRING", "none"}
        /\ ~whole => Terminal(HexToken(bytes)) = "NUM"
    <3>1. CASE bytes = NONE
      <4>1. NONE \in HexText /\ Terminal(NONE) = "none" /\ HexToken(NONE) = NONE
        BY Tokens, HexTokenWord DEF NONE, HexText, Words
      <4> QED BY <3>1, <4>1
    <3>2. ASSUME NEW c \in Seq(0 .. 15), bytes = Chars(c)
          PROVE  <2>7!1 /\ <2>7!2 /\ <2>7!3
      <4>1. bytes \in HexText /\ (whole <=> Len(c) > 16)
        BY <3>2, CharsFields DEF HexText
      <4>2. CASE Len(c) <= 16
        BY <3>2, <4>1, <4>2, HexTokenNumber, NumberToken
      <4>3. CASE ~(Len(c) <= 16)
        <5>1. HexToken(Chars(c)) = Chars(c)
          BY <4>3, CharsFields DEF HexToken
        <5> QED BY <3>2, <4>1, <4>3, <5>1, CharsFields
      <4> QED BY <4>2, <4>3
    <3> QED BY <3>1, <3>2 DEF EdidBytes
  <2>8. /\ LexHex(v) = <<HexToken(x), HexToken(bytes)>>
        /\ Derives(P, LexHex(v)) <=> whole
        /\ Assign(DisplayEdid, LexHex(v)) = <<r, HexToken(bytes)>>
    <3> HIDE DEF x, r
    <3>1. LexHex(v) = <<HexToken(x), HexToken(bytes)>>
      BY <2>5, TwoTokens
    <3>2. Derives(P, <<HexToken(x), HexToken(bytes)>>) <=> whole
      <4> DEFINE A == {"NUM"}
                 B == {"STRING", "none"}
      <4>1. Terminal(HexToken(x)) \in A /\ (Terminal(HexToken(bytes)) \in B <=> whole)
        BY <2>6, <2>7
      <4> HIDE DEF A, B, whole
      <4>2. Derives(<<A, B>>, <<HexToken(x), HexToken(bytes)>>) <=> whole
        BY <4>1, TwoTokens
      <4> QED BY <4>2 DEF A, B
    <3>3. Assign(<<USHORT, AsRead>>, <<HexToken(x), HexToken(bytes)>>) = <<Assigned(USHORT, HexToken(x)), Assigned(AsRead, HexToken(bytes))>>
      BY TwoTokens
    <3>4. Assigned(AsRead, HexToken(bytes)) = HexToken(bytes)
      BY AssignedAsRead DEF AsRead
    <3> HIDE DEF whole
    <3> QED BY <3>1, <3>2, <3>3, <3>4 DEF DisplayEdid, r
  <2> HIDE DEF x, r
  <2>9. v \in Seq(HexText)
    BY <2>5, <2>6, <2>7
  <2>10. read = IF whole THEN {q} ELSE {}
    <3>1. LexHex(v) # <<NONE>>
      <4>1. Len(LexHex(v)) = 2 /\ Len(<<NONE>>) = 1
        BY <2>8
      <4> QED BY <4>1
    <3>2. CASE whole
      BY <2>7, <2>8, <3>1, <3>2 DEF ReadDisplayEdid, NoneIf, When
    <3>3. CASE ~whole
      BY <2>8, <3>1, <3>3 DEF ReadDisplayEdid, NoneIf, When
    <3> QED BY <3>2, <3>3
  <2>11. q \in HeldDisplayEdid
    BY <2>6 DEF HeldDisplayEdid
  <2>12. p.type \in HexMode
    BY <2>2 DEF HexMode
  <2> HIDE DEF v, read, q
  <2>13. (whole => SoundProperty(q)) /\ (SoundProperty(p) => whole /\ q = p)
    <3>1. p.none \in BOOLEAN /\ q.none \in BOOLEAN
      BY <2>2, <2>3
    <3>2. SoundProperty(q) <=> q.none \/ (/\ Len(q.members[1].num) <= 2
                                          /\ q.members[2] = NONE \/ Len(q.members[2].chars) > 16)
      BY <2>3, <3>1, SoundnessByName
    <3>3. SoundProperty(p) <=> p.none \/ (/\ Len(p.members[1].num) <= 2
                                          /\ p.members[2] = NONE \/ Len(p.members[2].chars) > 16)
      BY <2>2, <3>1, SoundnessByName
    <3>4. q.members[2] = bytes /\ p.members[2] = bytes /\ q.members[1] = r /\ p.members[1] = blocks
      BY <2>2, <2>3
    <3>5. SoundProperty(p) => whole /\ r = blocks
      BY <2>2, <2>6, <3>3, <3>4
    <3>6. whole => SoundProperty(q)
      BY <2>6, <3>2, <3>4
    <3> QED BY <1>2, <3>5, <3>6 DEF q
  <2>14. \A s \in read : s \in HeldDisplayEdid /\ SoundProperty(s)
    BY <2>10, <2>11, <2>13
  <2>15. SoundProperty(p) => read = {p}
    BY <2>10, <2>13
  <2> QED BY <2>4, <2>9, <2>12, <2>14, <2>15, HexIsReadBack
<1>3. \/ p = NoneProperty(type)
      \/ \E blocks \in Number(USHORT), bytes \in EdidBytes :
           p = Property(type, <<blocks, bytes>>, <<>>)
  BY DEF HeldDisplayEdid
<1> QED BY <1>1, <1>2, <1>3

(* What is read under that name is a property its class can hold.          *)
LEMMA DisplayEdidRead ==
  ASSUME NEW tokens \in Seq(LexedText), NEW q \in ReadDisplayEdid(tokens)
  PROVE  q \in HeldDisplayEdid
<1> DEFINE P == <<{"NUM"}, {"STRING", "none"}>>
           B == EdidBytes
<1>1. \/ q = NoneProperty("wfd_display_edid")
      \/ Derives(P, tokens) /\ q = Property("wfd_display_edid", Assign(DisplayEdid, tokens), <<>>)
  BY DEF ReadDisplayEdid, NoneIf, When
<1>2. ASSUME Derives(P, tokens)
      PROVE  \E blocks \in Number(USHORT), bytes \in B : Assign(DisplayEdid, tokens) = <<blocks, bytes>>
  <2>1. Len(tokens) = 2
    BY <1>2 DEF Derives
  <2> DEFINE x == tokens[1]
             y == tokens[2]
  <2>2. tokens = <<x, y>> /\ x \in LexedText /\ y \in LexedText
    BY <2>1, TwoOf
  <2> HIDE DEF x, y
  <2>3. Terminal(x) = "NUM" /\ Terminal(y) \in {"STRING", "none"}
    BY <1>2, <2>2, TwoTokens
  <2>4. Assign(DisplayEdid, tokens) = <<Assigned(USHORT, x), y>>
    BY <2>2, TwoTokens, AssignedAsRead DEF DisplayEdid, AsRead
  <2>5. Assigned(USHORT, x) \in Number(USHORT)
    BY <2>2, <2>3, AssignedRead DEF USHORT
  <2>6. y \in B
    <3>1. CASE Terminal(y) = "STRING"
      BY <2>2, <3>1, LexedTokens DEF EdidBytes
    <3>2. CASE Terminal(y) = "none"
      BY <2>2, <3>2, LexedTokens DEF NONE, Words, EdidBytes
    <3> QED BY <2>3, <3>1, <3>2
  <2> QED BY <2>4, <2>5, <2>6
<1> QED BY <1>1, <1>2 DEF HeldDisplayEdid

----------------------------------------------------------------------------
HeldPreferredDisplayMode == HeldNumbers("wfd_preferred_display_mode", PreferredDisplayMode)

ModeTypes == <<UINT, USHORT, USHORT, USHORT, USHORT, USHORT, USHORT, USHORT, USHORT, UCHAR, UCHAR, UCHAR>>
ModeDigits == <<6, 4, 4, 4, 4, 4, 4, 4, 4, 2, 2, 2>>

Concatenated(S, s, t, m, n) ==
  /\ s \o t \in Seq(S) /\ Len(s \o t) = m + n
  /\ \A i \in 1 .. m : (s \o t)[i] = s[i]
  /\ \A i \in m + 1 .. m + n : (s \o t)[i] = t[i - m] /\ i - m \in 1 .. n

(* Two texts one after the other, place by place.                          *)
LEMMA Concat ==
  ASSUME NEW S, NEW s \in Seq(S), NEW t \in Seq(S), NEW m \in Nat, NEW n \in Nat, Len(s) = m, Len(t) = n
  PROVE  Concatenated(S, s, t, m, n)
<1>1. s \o t \in Seq(S) /\ Len(s \o t) = m + n
  BY ConcatProperties
<1>2. \A i \in 1 .. m + n : (s \o t)[i] = IF i <= m THEN s[i] ELSE t[i - m]
  BY ConcatProperties
<1>3. ASSUME NEW i \in m + 1 .. m + n PROVE (s \o t)[i] = t[i - m] /\ i - m \in 1 .. n
  <2>1. i \in 1 .. m + n /\ ~(i <= m) /\ i - m \in 1 .. n
    OBVIOUS
  <2> QED BY <1>2, <2>1
<1> QED BY <1>1, <1>2, <1>3 DEF Concatenated

(* The 23 members of wfd_preferred_display_mode and their digits; the last *)
(* eleven are those of an H.264 codec.                                     *)
LEMMA ModeVectors ==
  /\ PreferredDisplayMode \in Seq(1 .. 16) /\ Len(PreferredDisplayMode) = 23
  /\ PreferredDisplayModeDigits \in Seq(1 .. 16) /\ Len(PreferredDisplayModeDigits) = 23
  /\ \A i \in 1 .. 12 : /\ PreferredDisplayMode[i] = ModeTypes[i]
                        /\ PreferredDisplayModeDigits[i] = ModeDigits[i]
                        /\ ModeDigits[i] <= ModeTypes[i]
  /\ \A i \in 13 .. 23 : /\ PreferredDisplayMode[i] = H264Codec[i - 12]
                         /\ PreferredDisplayModeDigits[i] = H264CodecDigits[i - 12]
                         /\ H264CodecDigits[i - 12] <= H264Codec[i - 12]
<1>1. /\ ModeTypes \in Seq(1 .. 16) /\ Len(ModeTypes) = 12
  BY DEF ModeTypes, UCHAR, USHORT, UINT
<1>2. /\ ModeDigits \in Seq(1 .. 16) /\ Len(ModeDigits) = 12
  BY DEF ModeDigits
<1>3. \A i \in 1 .. 12 : ModeDigits[i] <= ModeTypes[i]
  BY DEF ModeTypes, ModeDigits, UCHAR, USHORT, UINT
<1>4. /\ H264Codec \in Seq(1 .. 16) /\ Len(H264Codec) = 11
      /\ H264CodecDigits \in Seq(1 .. 16) /\ Len(H264CodecDigits) = 11
      /\ \A i \in 1 .. 11 : H264CodecDigits[i] <= H264Codec[i]
  BY H264CodecTypes DEF CodecTypes
<1>5. /\ ModeTypes \o H264Codec \in Seq(1 .. 16) /\ Len(ModeTypes \o H264Codec) = 23
      /\ \A i \in 1 .. 12 : (ModeTypes \o H264Codec)[i] = ModeTypes[i]
      /\ \A i \in 12 + 1 .. 12 + 11 : (ModeTypes \o H264Codec)[i] = H264Codec[i - 12]
  <2>1. Concatenated(1 .. 16, ModeTypes, H264Codec, 12, 11)
    BY <1>1, <1>4, Concat
  <2>2. 12 + 11 = 23
    OBVIOUS
  <2> QED BY <2>1, <2>2 DEF Concatenated
<1>6. /\ ModeDigits \o H264CodecDigits \in Seq(1 .. 16) /\ Len(ModeDigits \o H264CodecDigits) = 23
      /\ \A i \in 1 .. 12 : (ModeDigits \o H264CodecDigits)[i] = ModeDigits[i]
      /\ \A i \in 12 + 1 .. 12 + 11 : (ModeDigits \o H264CodecDigits)[i] = H264CodecDigits[i - 12]
  <2>1. Concatenated(1 .. 16, ModeDigits, H264CodecDigits, 12, 11)
    BY <1>2, <1>4, Concat
  <2>2. 12 + 11 = 23
    OBVIOUS
  <2> QED BY <2>1, <2>2 DEF Concatenated
<1>7. PreferredDisplayMode = ModeTypes \o H264Codec /\ PreferredDisplayModeDigits = ModeDigits \o H264CodecDigits
  BY DEF PreferredDisplayMode, PreferredDisplayModeDigits, ModeTypes, ModeDigits
<1>8. \A i \in 13 .. 23 : i - 12 \in 1 .. 11 /\ i \in 12 + 1 .. 12 + 11
  OBVIOUS
<1> QED BY <1>3, <1>4, <1>5, <1>6, <1>7, <1>8

(* The positions of a vector of 23.                                        *)
LEMMA ModePositions ==
  ASSUME NEW i \in 1 .. 23
  PROVE  i \in 1 .. 12 \/ i \in 13 .. 23
  OBVIOUS

ModeProduction == Nums(12) \o ReadH264Codec

(* The production of wfd_preferred_display_mode.                           *)
LEMMA ModeProductions ==
  /\ Len(ModeProduction) = 23
  /\ \A i \in 1 .. 21 : \A x : x \in ModeProduction[i] <=> x = "NUM"
  /\ \A x : x \in ModeProduction[22] <=> x \in MaxRes
  /\ \A x : x \in ModeProduction[23] <=> x \in MaxRes
<1> DEFINE S == {{"NUM"}, MaxRes}
           n == Nums(12)
           m == <<MaxRes, MaxRes>>
<1>1. /\ n \in Seq(S) /\ Len(n) = 12 /\ \A i \in 1 .. 12 : \A x : x \in n[i] <=> x = "NUM"
      /\ Nums(9) \in Seq(S) /\ Len(Nums(9)) = 9
  BY DEF Nums
<1>2. m \in Seq(S) /\ Len(m) = 2
  OBVIOUS
<1> HIDE DEF S, m, n
<1>3. Nums(9) \o m \in Seq(S) /\ Len(Nums(9) \o m) = 11
  <2>1. Concatenated(S, Nums(9), m, 9, 2)
    BY <1>1, <1>2, Concat
  <2>2. 9 + 2 = 11
    OBVIOUS
  <2> QED BY <2>1, <2>2 DEF Concatenated
<1> DEFINE r == ReadH264Codec
<1>4. r = Nums(9) \o m /\ r = CodecProduction(9)
  BY DEF ReadH264Codec, CodecProduction, m
<1> HIDE DEF r
<1>5. /\ Len(n \o r) = 12 + 11
      /\ \A i \in 1 .. 12 : (n \o r)[i] = n[i]
      /\ \A i \in 12 + 1 .. 12 + 11 : (n \o r)[i] = r[i - 12] /\ i - 12 \in 1 .. 11
  <2>1. r \in Seq(S) /\ Len(r) = 11
    BY <1>3, <1>4
  <2>2. Concatenated(S, n, r, 12, 11)
    BY <1>1, <2>1, Concat
  <2> QED BY <2>2 DEF Concatenated
<1>6. /\ \A i \in 1 .. 9 : \A x : x \in r[i] <=> x = "NUM"
      /\ \A x : x \in r[10] <=> x \in MaxRes
      /\ \A x : x \in r[11] <=> x \in MaxRes
  <2> DEFINE k == 9
  <2>1. k \in {7, 9} /\ k + 1 = 10 /\ k + 2 = 11 /\ k = 9
    OBVIOUS
  <2> HIDE DEF k
  <2>2. /\ \A x : x \in CodecProduction(k)[k + 1] <=> x \in MaxRes
        /\ \A x : x \in CodecProduction(k)[k + 2] <=> x \in MaxRes
        /\ \A i \in 1 .. k : \A x : x \in CodecProduction(k)[i] <=> x = "NUM"
    BY <2>1, CodecProductions
  <2>3. r = CodecProduction(k)
    BY <2>1, <1>4
  <2> QED BY <2>1, <2>2, <2>3
<1> DEFINE P == n \o r
<1> HIDE DEF P
<1>7. ASSUME NEW i \in 1 .. 21 PROVE \A x : x \in P[i] <=> x = "NUM"
  <2>1. CASE i \in 1 .. 12
    BY ZenonT(40), <2>1, <1>1, <1>5 DEF P
  <2>2. CASE i \notin 1 .. 12
    <3>1. i - 12 \in 1 .. 9 /\ i \in 12 + 1 .. 12 + 11
      BY <2>2
    <3>2. P[i] = r[i - 12]
      BY <3>1, <1>5 DEF P
    <3> QED BY <3>1, <3>2, <1>6
  <2> QED BY <2>1, <2>2
<1>8. P[22] = r[10] /\ P[23] = r[11]
  <2>1. 22 \in 12 + 1 .. 12 + 11 /\ 22 - 12 = 10 /\ 23 \in 12 + 1 .. 12 + 11 /\ 23 - 12 = 11
    OBVIOUS
  <2> QED BY ZenonT(40), <2>1, <1>5 DEF P
<1>9. ModeProduction = P
  BY DEF ModeProduction, P, n, r
<1>10. Len(P) = 23
  BY <1>5 DEF P
<1> QED BY <1>6, <1>7, <1>8, <1>9, <1>10

(* The text of wfd_preferred_display_mode, token by token.                 *)
LEMMA ModeText ==
  ASSUME NEW ms \in Vectors(PreferredDisplayMode), NEW p, p.members = ms
  PROVE  LET v == PreferredDisplayModeToString(p)
             D == PreferredDisplayModeDigits
         IN /\ v \in Seq(HexText) /\ Len(v) = 23
            /\ \A i \in 1 .. 21 : v[i] = MAKE_HEX_STRING(D[i], ms[i])
            /\ v[22] = IntToString(4, ms[22]) /\ v[23] = IntToString(4, ms[23])
<1> DEFINE D == PreferredDisplayModeDigits
           h == Hex(SubSeq(D, 1, 12), SubSeq(ms, 1, 12))
           c == SubSeq(ms, 13, 23)
           k == CodecText(9, H264CodecDigits, c)
<1>1. /\ ms \in Seq(Number(16)) /\ Len(ms) = 23
      /\ \A i \in 1 .. 23 : ms[i] \in Number(PreferredDisplayMode[i])
  BY ModeVectors DEF Vectors
<1>2. /\ h \in Seq(HexText) /\ Len(h) = 12
      /\ \A i \in 1 .. 12 : h[i] = MAKE_HEX_STRING(D[i], ms[i])
  <2>1. D \in Seq(1 .. 16) /\ Len(D) = 23
    BY ModeVectors
  <2> DEFINE n == 12
  <2>2. n \in Nat /\ n <= Len(D) /\ n <= Len(ms) /\ n = 12
    BY <2>1, <1>1
  <2>3. h = Hex(SubSeq(D, 1, n), SubSeq(ms, 1, n))
    BY <2>2
  <2> HIDE DEF h, D, n
  <2>4. /\ h \in Seq(HexText) /\ Len(h) = n
        /\ \A i \in 1 .. n : h[i] = MAKE_HEX_STRING(D[i], ms[i])
    BY <1>1, <2>1, <2>2, <2>3, HexPrefix
  <2> QED BY <2>2, <2>4
<1>3. c \in Seq(Number(16)) /\ Len(c) = 11 /\ \A i \in 13 .. 23 : ms[i] = c[i - 12] /\ i - 12 \in 1 .. 11
  <2> DEFINE f == 12
             n == 11
  <2>1. f + 1 = 13 /\ f + n = 23 /\ f + n <= Len(ms) /\ f \in Nat /\ n \in Nat /\ f = 12 /\ n = 11
    BY <1>1
  <2>2. c = SubSeq(ms, f + 1, f + n)
    BY <2>1
  <2> HIDE DEF c, f, n
  <2> DEFINE S == Number(16)
  <2>0. ms \in Seq(S)
    BY <1>1
  <2> HIDE DEF S
  <2>5. /\ SubSeq(ms, f + 1, f + n) \in Seq(S)
        /\ Len(SubSeq(ms, f + 1, f + n)) = n
        /\ \A j \in 1 .. n : SubSeq(ms, f + 1, f + n)[j] = ms[f + j]
    BY <2>0, <2>1, SliceTokens
  <2>3. c \in Seq(Number(16)) /\ Len(c) = n /\ \A j \in 1 .. n : c[j] = ms[f + j]
    BY <2>2, <2>5 DEF S
  <2>4. ASSUME NEW i \in 13 .. 23 PROVE ms[i] = c[i - 12] /\ i - 12 \in 1 .. 11
    <3>1. i - 12 \in 1 .. 11 /\ 12 + (i - 12) = i
      OBVIOUS
    <3> QED BY <3>1, <2>3, <2>1
  <2> QED BY <2>1, <2>3, <2>4
<1> HIDE DEF c
<1>4. c \in Vectors(H264Codec)
  <2>1. Len(H264Codec) = 11
    BY H264CodecTypes DEF CodecTypes
  <2>2. ASSUME NEW j \in 1 .. 11 PROVE c[j] \in Number(H264Codec[j])
    <3> DEFINE i == 12 + j
    <3>1. i \in 13 .. 23 /\ i \in 1 .. 23 /\ i - 12 = j
      OBVIOUS
    <3> HIDE DEF i
    <3>2. PreferredDisplayMode[i] = H264Codec[j] /\ ms[i] = c[j]
      BY <3>1, <1>3, ModeVectors
    <3> QED BY <3>1, <3>2, <1>1
  <2> QED BY <2>1, <2>2, <1>3 DEF Vectors
<1>5. CodecTokens(9, H264CodecDigits, c, k)
  BY <1>4, H264CodecTypes, CodecTextTokens
<1>6. /\ k \in Seq(HexText) /\ Len(k) = 11
      /\ \A i \in 1 .. 9 : k[i] = MAKE_HEX_STRING(H264CodecDigits[i], c[i])
      /\ k[10] = IntToString(4, c[10]) /\ k[11] = IntToString(4, c[11])
  <2>1. 9 + 1 = 10 /\ 9 + 2 = 11
    OBVIOUS
  <2> HIDE DEF k
  <2> QED BY <1>5, <2>1 DEF CodecTokens
<1>7. PreferredDisplayModeToString(p) = h \o k
  BY DEF PreferredDisplayModeToString, H264CodecToString, CodecText, c
<1> HIDE DEF h, k
<1>8. /\ h \o k \in Seq(HexText) /\ Len(h \o k) = 12 + 11
      /\ \A i \in 1 .. 12 : (h \o k)[i] = h[i]
      /\ \A i \in 12 + 1 .. 12 + 11 : (h \o k)[i] = k[i - 12] /\ i - 12 \in 1 .. 11
  <2>1. h \in Seq(HexText) /\ Len(h) = 12 /\ k \in Seq(HexText) /\ Len(k) = 11
    BY <1>2, <1>6
  <2>2. Concatenated(HexText, h, k, 12, 11)
    BY <2>1, Concat
  <2> QED BY <2>2 DEF Concatenated
<1>9. ASSUME NEW i \in 1 .. 21 PROVE (h \o k)[i] = MAKE_HEX_STRING(D[i], ms[i])
  <2>1. CASE i \in 1 .. 12
    BY <2>1, <1>2, <1>8
  <2>2. CASE i \notin 1 .. 12
    <3>1. i - 12 \in 1 .. 9 /\ i \in 13 .. 23 /\ i \in 12 + 1 .. 12 + 11
      BY <2>2
    <3>2. (h \o k)[i] = k[i - 12] /\ D[i] = H264CodecDigits[i - 12] /\ ms[i] = c[i - 12]
      BY <3>1, <1>3, <1>8, ModeVectors
    <3> QED BY <3>1, <3>2, <1>6
  <2> QED BY <2>1, <2>2
<1>10. (h \o k)[22] = IntToString(4, ms[22]) /\ (h \o k)[23] = IntToString(4, ms[23])
  <2>1. 22 \in 12 + 1 .. 12 + 11 /\ 22 - 12 = 10 /\ 23 \in 12 + 1 .. 12 + 11 /\ 23 - 12 = 11
        /\ 22 \in 13 .. 23 /\ 23 \in 13 .. 23
    OBVIOUS
  <2>2. (h \o k)[22] = k[10] /\ (h \o k)[23] = k[11]
    BY ZenonT(40), <2>1, <1>8
  <2>3. c[10] = ms[22] /\ c[11] = ms[23]
    BY <2>1, <1>3
  <2> QED BY <2>2, <2>3, <1>6
<1>11. Len(h \o k) = 23
  BY <1>8
<1> QED BY <1>7, <1>8, <1>9, <1>10, <1>11

(* wfd_preferred_display_mode is read back.                                *)
LEMMA PreferredDisplayModeIsReadBack ==
  ASSUME NEW p \in HeldPreferredDisplayMode
  PROVE  PropertyIsReadBack(HeldPreferredDisplayMode, p)
<1> DEFINE type == "wfd_preferred_display_mode"
           T == PreferredDisplayMode
           D == PreferredDisplayModeDigits
           v == PreferredDisplayModeToString(p)
           t == LexHex(v)
           r == Assign(T, t)
           P == ModeProduction
           H == 1 .. 21
           read == ReadPreferredDisplayMode(t)
           q == Property(type, r, <<>>)
<1>1. PICK ms \in Vectors(T) : p = Property(type, ms, <<>>)
  BY DEF HeldPreferredDisplayMode, HeldNumbers
<1>2. p.type = type /\ p.none = FALSE /\ p.members = ms
  BY <1>1 DEF Property
<1>3. q.type = type /\ q.none = FALSE /\ q.members = r
  BY DEF Property
<1>4. PropertyToString(p) = v /\ ReadProperty(p.type, v) = read
  BY <1>2, PropertyTexts, PropertyReaders
<1>5. /\ v \in Seq(HexText) /\ Len(v) = 23
      /\ \A i \in 1 .. 21 : v[i] = MAKE_HEX_STRING(D[i], ms[i])
      /\ v[22] = IntToString(4, ms[22]) /\ v[23] = IntToString(4, ms[23])
  BY <1>2, ModeText
<1> HIDE DEF v
<1>6. /\ T \in Seq(1 .. 16) /\ D \in Seq(1 .. 16) /\ Len(T) = 23 /\ Len(D) = 23
      /\ \A i \in 1 .. 23 : D[i] <= T[i]
      /\ T[22] = INT /\ D[22] = 4 /\ T[23] = INT /\ D[23] = 4
  <2>1. T \in Seq(1 .. 16) /\ D \in Seq(1 .. 16) /\ Len(T) = 23 /\ Len(D) = 23
    BY ModeVectors
  <2>2. ASSUME NEW i \in 1 .. 23 PROVE D[i] <= T[i]
    <3>1. CASE i \in 1 .. 12
      BY <3>1, ModeVectors
    <3>2. CASE i \in 13 .. 23
      BY <3>2, ModeVectors
    <3> QED BY <3>1, <3>2, ModePositions
  <2>3. T[22] = H264Codec[10] /\ D[22] = H264CodecDigits[10]
        /\ T[23] = H264Codec[11] /\ D[23] = H264CodecDigits[11]
    <3>1. 22 \in 13 .. 23 /\ 22 - 12 = 10 /\ 23 \in 13 .. 23 /\ 23 - 12 = 11
      OBVIOUS
    <3> QED BY <3>1, ModeVectors
  <2>4. H264Codec[10] = INT /\ H264CodecDigits[10] = 4 /\ H264Codec[11] = INT /\ H264CodecDigits[11] = 4
    BY DEF H264Codec, H264CodecDigits
  <2>5. T[22] = INT /\ D[22] = 4 /\ T[23] = INT /\ D[23] = 4
    BY <2>3, <2>4
  <2> QED BY <2>1, <2>2, <2>5
<1>7. \A i \in 1 .. 23 : i \in H \/ i = 22 \/ i = 23
  OBVIOUS
<1>8. VectorIsReadBack(T, D, H, ms, v)
  <2>1. \A i \in 1 .. Len(T) :
          /\ i \in H => v[i] = MAKE_HEX_STRING(D[i], ms[i])
          /\ i \notin H => /\ T[i] = INT /\ D[i] = 4
                           /\ v[i] = IntToString(4, ms[i])
    BY <1>5, <1>6, <1>7
  <2> HIDE DEF H, T, D
  <2> QED BY <1>5, <1>6, <2>1, VectorRound
<1>9. /\ t \in Seq(LexedText) /\ Len(t) = 23
      /\ r \in Vectors(T)
      /\ \A i \in 1 .. 23 :
           /\ Terminal(t[i]) \in {"NUM", "none"}
           /\ i \in H => Terminal(t[i]) = "NUM" /\ Len(r[i].num) <= D[i]
           /\ i \notin H => Len(r[i].num) <= 4 \/ r[i] = MinusOne(INT)
      /\ (\A i \in 1 .. 23 :
           /\ i \in H => Len(ms[i].num) <= D[i]
           /\ i \notin H => Len(ms[i].num) <= 4 \/ ms[i] = MinusOne(INT)) => r = ms
  <2> HIDE DEF H, T, D
  <2> QED BY <1>6, <1>8 DEF VectorIsReadBack
<1> HIDE DEF t, r
<1>10. Derives(P, t)
  <2> HIDE DEF P
  <2>0. /\ \A i \in 1 .. 21 : \A x : x \in P[i] <=> x = "NUM"
        /\ \A x : x \in P[22] <=> x \in MaxRes
        /\ \A x : x \in P[23] <=> x \in MaxRes
    BY ModeProductions DEF P
  <2>1. ASSUME NEW i \in 1 .. 21 PROVE Terminal(t[i]) \in P[i]
    <3>1. i \in 1 .. 23 /\ i \in H
      OBVIOUS
    <3> HIDE DEF H
    <3>2. Terminal(t[i]) = "NUM"
      BY <3>1, <1>9
    <3> QED BY <3>2, <2>0
  <2>2. Terminal(t[22]) \in P[22] /\ Terminal(t[23]) \in P[23]
    <3>1. 22 \in 1 .. 23 /\ 23 \in 1 .. 23
      OBVIOUS
    <3>2. Terminal(t[22]) \in MaxRes /\ Terminal(t[23]) \in MaxRes
      BY <3>1, <1>9 DEF MaxRes
    <3> QED BY <3>2, <2>0
  <2>3. Len(P) = 23
    BY ModeProductions DEF P
  <2>4. DOMAIN t = 1 .. 23
    BY <1>9
  <2> QED BY <2>1, <2>2, <2>3, <2>4, <1>7, <1>9 DEF Derives
<1>11. read = {q}
  BY <1>10 DEF ReadPreferredDisplayMode, When, r, ModeProduction
<1>12. q \in HeldPreferredDisplayMode
  BY <1>9 DEF HeldPreferredDisplayMode, HeldNumbers
<1>13. p.type \in HexMode
  BY <1>2 DEF HexMode
<1> HIDE DEF read, q
<1>14. 22 \notin H /\ 23 \notin H /\ 22 \in 1 .. 23 /\ 23 \in 1 .. 23 /\ \A i \in H : i \in 1 .. 23
  OBVIOUS
<1>15. SoundCodec(D, r)
  <2>1. r \in Seq(Number(16)) /\ Len(r) = 23
    BY <1>6, <1>9 DEF Vectors
  <2>2. \A i \in 1 .. 21 : Len(r[i].num) <= D[i]
    BY <1>9, <1>14
  <2>3. /\ r[22] = MinusOne(INT) \/ Len(r[22].num) <= 4
        /\ r[23] = MinusOne(INT) \/ Len(r[23].num) <= 4
    BY <1>9, <1>14
  <2>4. 21 + 1 = 22 /\ 21 + 2 = 23
    OBVIOUS
  <2> HIDE DEF D, H
  <2> QED BY <1>6, <2>1, <2>2, <2>3, <2>4, SoundCodecFields
<1>16. SoundCodec(D, ms) => r = ms
  <2> SUFFICES ASSUME SoundCodec(D, ms) PROVE r = ms
    OBVIOUS
  <2>1. ms \in Seq(Number(16)) /\ Len(ms) = 23
    BY <1>6 DEF Vectors
  <2>4. 21 + 1 = 22 /\ 21 + 2 = 23
    OBVIOUS
  <2>5. /\ \A i \in 1 .. 21 : Len(ms[i].num) <= D[i]
        /\ ms[21 + 1] = MinusOne(INT) \/ Len(ms[21 + 1].num) <= 4
        /\ ms[21 + 2] = MinusOne(INT) \/ Len(ms[21 + 2].num) <= 4
    <3> HIDE DEF D, H
    <3> QED BY <1>6, <2>1, <2>4, SoundCodecFields
  <2> QED BY <1>7, <1>9, <2>4, <2>5
<1>17. SoundProperty(q) /\ (SoundProperty(p) => q = p)
  <2>1. p.none \in BOOLEAN /\ q.none \in BOOLEAN
    BY <1>2, <1>3
  <2>2. SoundProperty(q) <=> SoundCodec(D, q.members)
    BY <1>3, <2>1, SoundnessByName
  <2>3. SoundProperty(p) <=> SoundCodec(D, p.members)
    BY <1>2, <2>1, SoundnessByName
  <2> QED BY <1>1, <1>2, <1>3, <1>15, <1>16, <2>2, <2>3 DEF q
<1>18. \A s \in read : s \in HeldPreferredDisplayMode /\ SoundProperty(s)
  BY <1>11, <1>12, <1>17
<1>19. SoundProperty(p) => read = {p}
  BY <1>11, <1>17
<1> QED BY <1>4, <1>5, <1>13, <1>18, <1>19, HexIsReadBack

(* What is read under that name is a property its class can hold.          *)
LEMMA PreferredDisplayModeRead ==
  ASSUME NEW tokens \in Seq(LexedText), NEW q \in ReadPreferredDisplayMode(tokens)
  PROVE  q \in HeldPreferredDisplayMode
<1> DEFINE P == ModeProduction
<1>1. Derives(P, tokens) /\ q = Property("wfd_preferred_display_mode", Assign(PreferredDisplayMode, tokens), <<>>)
  BY DEF ReadPreferredDisplayMode, When, ModeProduction
<1>2. Len(tokens) = 23 /\ \A i \in 1 .. 23 : Terminal(tokens[i]) \in P[i]
  BY <1>1, ModeProductions DEF Derives
<1>3. \A i \in 1 .. 23 : i \in 1 .. 21 \/ i = 22 \/ i = 23
  OBVIOUS
<1>4. ASSUME NEW i \in 1 .. 21 PROVE Terminal(tokens[i]) = "NUM"
  BY SMTT(30), <1>2, ModeProductions
<1>5. Terminal(tokens[22]) \in {"NUM", "none"} /\ Terminal(tokens[23]) \in {"NUM", "none"}
  BY <1>2, ModeProductions DEF MaxRes
<1>6. \A i \in 1 .. 23 : Terminal(tokens[i]) \in {"NUM", "none"}
  BY <1>3, <1>4, <1>5
<1>7. Assign(PreferredDisplayMode, tokens) \in Vectors(PreferredDisplayMode)
  BY <1>2, <1>6, ModeVectors, VectorRead
<1> QED BY <1>1, <1>7 DEF HeldPreferredDisplayMode, HeldNumbers

----------------------------------------------------------------------------
(* The properties with decimal numbers and words.                          *)
LEMMA OneToken ==
  ASSUME NEW A, NEW x
  PROVE  Derives(<<A>>, <<x>>) <=> Terminal(x) \in A
<1>1. DOMAIN <<x>> = 1 .. 1 /\ <<x>>[1] = x /\ Len(<<x>>) = 1 /\ Len(<<A>>) = 1 /\ <<A>>[1] = A
  OBVIOUS
<1> QED BY <1>1 DEF Derives

(* A text of one token.                                                    *)
LEMMA OneRead ==
  ASSUME NEW A, NEW S, NEW tokens \in Seq(S), Derives(<<A>>, tokens)
  PROVE  tokens = <<tokens[1]>> /\ tokens[1] \in S /\ Terminal(tokens[1]) \in A
<1>1. Len(tokens) = 1
  BY DEF Derives
<1>2. tokens = <<tokens[1]>> /\ tokens[1] \in S
  BY <1>1
<1> QED BY <1>2, OneToken

(* A word is a token, and its terminal is the word.                        *)
LEMMA WordTokens ==
  ASSUME NEW w \in Words
  PROVE  Word(w) \in PlainText /\ Terminal(Word(w)) = w
  BY Tokens DEF PlainText

(* A token with a word for its terminal is the word.                       *)
LEMMA PlainWord ==
  ASSUME NEW t \in PlainText, Terminal(t) \in Words
  PROVE  t = Word(Terminal(t))
  BY PlainTokens

(* The words of the grammar are among the words of the lexer.              *)
LEMMA WordSets ==
  /\ ContentProtection \subseteq Words /\ TriggerMethod \subseteq Words /\ Route \subseteq Words
  /\ UIBCSetting \subseteq Words /\ InputCategory \subseteq Words /\ InputType \subseteq Words
  /\ InputPath \subseteq Words /\ AudioFormat \subseteq Words
  /\ "none" \in Words /\ "port=" \in Words /\ "supported" \in Words /\ "/" \in Words
  /\ "RTP/AVP/UDP" \in Words /\ "mode=play" \in Words /\ "comma" \in Words /\ "semicolon" \in Words
  /\ "input_category_list=" \in Words /\ "generic_cap_list=" \in Words /\ "hidc_cap_list=" \in Words
  BY DEF Words

(* A property of one word.                                                 *)
HeldWord(type, words) == {Property(type, <<Word(w)>>, <<>>) : w \in words}

WordTypes == {"wfd_trigger_method", "wfd_route", "wfd_uibc_setting"}

(* A property that is a word is read back.                                 *)
LEMMA WordIsReadBack ==
  ASSUME NEW type \in WordTypes, NEW words, words \subseteq Words, NEW p \in HeldWord(type, words),
         PropertyToString(p) = <<p.members[1]>>,
         ReadProperty(p.type, <<p.members[1]>>) = ReadWord(type, words, <<p.members[1]>>)
  PROVE  PropertyIsReadBack(HeldWord(type, words), p)
<1>1. PICK w \in words : p = Property(type, <<Word(w)>>, <<>>)
  BY DEF HeldWord
<1>2. p.type = type /\ p.none = FALSE /\ p.members[1] = Word(w)
  BY <1>1 DEF Property
<1>3. Word(w) \in PlainText /\ Terminal(Word(w)) \in words
  BY WordTokens
<1>4. ReadWord(type, words, <<Word(w)>>) = {p}
  BY <1>1, <1>3, OneToken DEF ReadWord, When
<1>5. SoundProperty(p)
  <2>1. p.none \in BOOLEAN
    BY <1>2
  <2> QED BY <1>2, <2>1, SoundnessByName DEF WordTypes
<1>6. p.type \notin HexMode
  BY <1>2 DEF HexMode, WordTypes
<1> DEFINE v == <<p.members[1]>>
           read == ReadWord(type, words, v)
<1>7. v \in Seq(PlainText)
  BY <1>2, <1>3
<1>8. read = {p}
  BY <1>2, <1>4
<1>9. ReadProperty(p.type, v) = read /\ PropertyToString(p) = v
  OBVIOUS
<1> HIDE DEF v, read
<1> QED BY <1>5, <1>6, <1>7, <1>8, <1>9, PlainIsReadBack

(* What is read as a word is a property its class can hold.                *)
LEMMA WordRead ==
  ASSUME NEW type, NEW words, words \subseteq Words, NEW tokens \in Seq(PlainText),
         NEW q \in ReadWord(type, words, tokens)
  PROVE  q \in HeldWord(type, words)
<1>1. Derives(<<words>>, tokens) /\ q = Property(type, tokens, <<>>)
  BY DEF ReadWord, When
<1>2. tokens = <<tokens[1]>> /\ tokens[1] \in PlainText /\ Terminal(tokens[1]) \in words
  BY <1>1, OneRead
<1>3. tokens[1] = Word(Terminal(tokens[1]))
  BY <1>2, PlainWord
<1> QED BY <1>1, <1>2, <1>3 DEF HeldWord

HeldTriggerMethod == HeldWord("wfd_trigger_method", TriggerMethod)
HeldRoute == HeldWord("wfd_route", Route)
HeldUIBCSetting == HeldWord("wfd_uibc_setting", UIBCSetting)

(* The properties that are one word are read back.                         *)
LEMMA WordsAreReadBack ==
  ASSUME NEW p
  PROVE  /\ p \in HeldTriggerMethod => PropertyIsReadBack(HeldTriggerMethod, p)
         /\ p \in HeldRoute => PropertyIsReadBack(HeldRoute, p)
         /\ p \in HeldUIBCSetting => PropertyIsReadBack(HeldUIBCSetting, p)
<1>1. \A type, words : p \in HeldWord(type, words) => p.type = type
  BY DEF HeldWord, Property
<1>2. ASSUME p \in HeldTriggerMethod PROVE PropertyIsReadBack(HeldTriggerMethod, p)
  <2>1. p.type = "wfd_trigger_method" /\ "wfd_trigger_method" \in WordTypes
    BY <1>1, <1>2 DEF HeldTriggerMethod, WordTypes
  <2>2. PropertyToString(p) = <<p.members[1]>>
    BY <2>1, PropertyTexts DEF TriggerMethodToString
  <2>3. ReadProperty(p.type, <<p.members[1]>>) = ReadWord("wfd_trigger_method", TriggerMethod, <<p.members[1]>>)
    BY <2>1, PropertyReaders DEF ReadTriggerMethod
  <2> QED BY <1>2, <2>1, <2>2, <2>3, WordIsReadBack, WordSets DEF HeldTriggerMethod
<1>3. ASSUME p \in HeldRoute PROVE PropertyIsReadBack(HeldRoute, p)
  <2>1. p.type = "wfd_route" /\ "wfd_route" \in WordTypes
    BY <1>1, <1>3 DEF HeldRoute, WordTypes
  <2>2. PropertyToString(p) = <<p.members[1]>>
    BY <2>1, PropertyTexts DEF RouteToString
  <2>3. ReadProperty(p.type, <<p.members[1]>>) = ReadWord("wfd_route", Route, <<p.members[1]>>)
    BY <2>1, PropertyReaders DEF ReadRoute
  <2> QED BY <1>3, <2>1, <2>2, <2>3, WordIsReadBack, WordSets DEF HeldRoute
<1>4. ASSUME p \in HeldUIBCSetting PROVE PropertyIsReadBack(HeldUIBCSetting, p)
  <2>1. p.type = "wfd_uibc_setting" /\ "wfd_uibc_setting" \in WordTypes
    BY <1>1, <1>4 DEF HeldUIBCSetting, WordTypes
  <2>2. PropertyToString(p) = <<p.members[1]>>
    BY <2>1, PropertyTexts DEF UIBCSettingToString
  <2>3. ReadProperty(p.type, <<p.members[1]>>) = ReadWord("wfd_uibc_setting", UIBCSetting, <<p.members[1]>>)
    BY <2>1, PropertyReaders DEF ReadUIBCSetting
  <2> QED BY <1>4, <2>1, <2>2, <2>3, WordIsReadBack, WordSets DEF HeldUIBCSetting
<1> QED BY <1>2, <1>3, <1>4

----------------------------------------------------------------------------
(* The types of decimals.                                                  *)

(* What the decimal types hold.                                            *)
LEMMA Ranges ==
  ASSUME NEW i
  PROVE  /\ i \in UShort <=> i \in Int /\ 0 <= i /\ i <= 65535
         /\ i \in UInt <=> i \in Int /\ 0 <= i /\ i <= UINT_MAX
         /\ i \in SInt <=> i \in Int /\ -(INT_MAX + 1) <= i /\ i <= INT_MAX
         /\ INT_MAX \in Nat /\ 65535 <= INT_MAX
         /\ UINT_MAX \in Nat /\ UINT_MAX = 2 * INT_MAX + 1
         /\ ULLONG_MAX \in Nat /\ UINT_MAX <= ULLONG_MAX
<1>1. /\ INT_MAX \in Nat /\ 65535 <= INT_MAX
      /\ UINT_MAX \in Nat /\ UINT_MAX = 2 * INT_MAX + 1
      /\ ULLONG_MAX \in Nat /\ UINT_MAX <= ULLONG_MAX
  BY TextAssumption DEF USHRT_MAX, UINT_MAX
<1>2. i \in UShort <=> i \in Int /\ 0 <= i /\ i <= 65535
  <2>1. \A m \in Int : i \in 0 .. m <=> i \in Int /\ 0 <= i /\ i <= m
    OBVIOUS
  <2>2. 65535 \in Int
    OBVIOUS
  <2> DEFINE m == 65535
  <2>3. UShort = 0 .. m
    BY DEF UShort, USHRT_MAX
  <2>4. m \in Int
    BY <2>2
  <2> HIDE DEF m
  <2>5. i \in UShort <=> i \in Int /\ 0 <= i /\ i <= m
    BY <2>1, <2>3, <2>4
  <2> QED BY <2>5 DEF m
<1>3. i \in UInt <=> i \in Int /\ 0 <= i /\ i <= UINT_MAX
  <2>1. \A m \in Int : i \in 0 .. m <=> i \in Int /\ 0 <= i /\ i <= m
    OBVIOUS
  <2> QED BY <1>1, <2>1 DEF UInt
<1>4. i \in SInt <=> i \in Int /\ -(INT_MAX + 1) <= i /\ i <= INT_MAX
  <2>1. \A l, m \in Int : i \in l .. m <=> i \in Int /\ l <= i /\ i <= m
    OBVIOUS
  <2>2. -(INT_MAX + 1) \in Int /\ INT_MAX \in Int
    BY <1>1
  <2> QED BY <2>1, <2>2 DEF SInt
<1> QED BY <1>1, <1>2, <1>3, <1>4

(* The low bits of a number are a number that fits, and a number that fits *)
(* is its own low bits.                                                    *)
LEMMA LowBits ==
  ASSUME NEW m \in Nat \ {0}, NEW n \in Nat
  PROVE  /\ n % m \in Nat /\ n % m < m
         /\ n < m => n % m = n
  OBVIOUS

(* A decimal that is read fits the type of its member, and is kept if it   *)
(* is one of that type.                                                    *)
LEMMA Converted ==
  ASSUME NEW n \in Nat
  PROVE  /\ AsUShort(Dec(n)) \in UShort /\ (n \in UShort => AsUShort(Dec(n)) = n)
         /\ AsUInt(Dec(n)) \in UInt /\ (n \in UInt => AsUInt(Dec(n)) = n)
         /\ AsInt(Dec(n)) \in SInt /\ (n \in SInt => AsInt(Dec(n)) = n)
<1>1. /\ INT_MAX \in Nat /\ 65535 <= INT_MAX /\ UINT_MAX \in Nat /\ UINT_MAX = 2 * INT_MAX + 1
      /\ ULLONG_MAX \in Nat /\ UINT_MAX <= ULLONG_MAX
  BY Ranges
<1> DEFINE l == ULongLong(Dec(n))
           s == 65536
           u == UINT_MAX + 1
<1>2. l \in Nat /\ (n <= ULLONG_MAX => l = n)
  <2>1. Dec(n).dec = n
    BY DEF Dec
  <2> QED BY <1>1, <2>1 DEF ULongLong
<1>3. s \in Nat \ {0} /\ u \in Nat \ {0}
  BY <1>1
<1>4. AsUShort(Dec(n)) = l % s /\ AsUInt(Dec(n)) = l % u
  BY DEF AsUShort, AsUInt, USHRT_MAX
<1> HIDE DEF l
<1>5. l % s \in Nat /\ l % s <= 65535 /\ (l <= 65535 => l % s = l)
  BY <1>2, <1>3, LowBits
<1>6. l % u \in Nat /\ l % u < u /\ (l < u => l % u = l)
  <2> HIDE DEF u
  <2> QED BY <1>2, <1>3, LowBits
<1>7. AsUShort(Dec(n)) \in UShort /\ (n \in UShort => AsUShort(Dec(n)) = n)
  BY <1>1, <1>2, <1>4, <1>5, Ranges
<1>8. AsUInt(Dec(n)) \in UInt /\ (n \in UInt => AsUInt(Dec(n)) = n)
  BY <1>1, <1>2, <1>4, <1>6, Ranges
<1>9. AsInt(Dec(n)) \in SInt /\ (n \in SInt => AsInt(Dec(n)) = n)
  <2> DEFINE k == AsUInt(Dec(n))
  <2>1. AsInt(Dec(n)) = IF k > INT_MAX THEN k - (UINT_MAX + 1) ELSE k
    BY DEF AsInt
  <2>2. k \in Int /\ 0 <= k /\ k <= UINT_MAX
    BY <1>8, Ranges
  <2>3. n \in SInt => k = n /\ n <= INT_MAX
    BY <1>1, <1>8, Ranges
  <2> HIDE DEF k
  <2>4. AsInt(Dec(n)) \in Int /\ -(INT_MAX + 1) <= AsInt(Dec(n)) /\ AsInt(Dec(n)) <= INT_MAX
    BY <1>1, <2>1, <2>2
  <2>5. n \in SInt => AsInt(Dec(n)) = n
    BY <1>1, <2>1, <2>2, <2>3
  <2> QED BY <2>4, <2>5, Ranges
<1> QED BY <1>7, <1>8, <1>9

----------------------------------------------------------------------------
(* The port of the I2C property.                                           *)
HeldI2C == {I2C(Dec(n)) : n \in SInt}

(* The port of an I2C property.                                            *)
LEMMA I2CFields ==
  ASSUME NEW port
  PROVE  /\ I2C(port).type = "wfd_I2C" /\ I2C(port).none = FALSE
         /\ I2C(port).members = <<port>> /\ I2C(port).members[1] = port
  BY DEF I2C, Property

(* wfd_I2C is read back, but that no port is printed as "none" whatever    *)
(* the number was.                                                         *)
LEMMA I2CIsReadBack ==
  ASSUME NEW p \in HeldI2C
  PROVE  PropertyIsReadBack(HeldI2C, p)
<1>1. PICK n \in SInt : p = I2C(Dec(n))
  BY DEF HeldI2C
<1>2. /\ p.type = "wfd_I2C" /\ p.none = FALSE /\ p.members = <<Dec(n)>> /\ p.members[1] = Dec(n)
      /\ p.members[1].dec = n
  <2>1. p.type = "wfd_I2C" /\ p.none = FALSE /\ p.members = <<Dec(n)>> /\ p.members[1] = Dec(n)
    BY <1>1, I2CFields
  <2>2. Dec(n).dec = n
    BY Tokens
  <2> QED BY <2>1, <2>2
<1> DEFINE x == IF n > 0 THEN Dec(n) ELSE NONE
           k == IF n > 0 THEN n ELSE -1
           v == <<x>>
           read == ReadI2C(v)
           q == I2C(Dec(k))
<1>3. PropertyToString(p) = v
  BY <1>2, PropertyTexts DEF I2CToString
<1>4. ReadProperty(p.type, v) = read
  BY <1>2, PropertyReaders
<1>5. x \in PlainText /\ Terminal(x) \in {"NUM", "none"} /\ PortOf(x) = Dec(k)
  <2>1. CASE n > 0
    <3>0. n \in Nat
      BY <1>1, <2>1, Ranges
    <3>1. Dec(n) \in PlainText
      BY <3>0 DEF PlainText
    <3>2. Dec(n) # NONE /\ Terminal(Dec(n)) = "NUM"
      BY Tokens DEF NONE
    <3>3. AsInt(Dec(n)) = n
      BY <1>1, <3>0, Converted
    <3> QED BY <2>1, <3>1, <3>2, <3>3 DEF PortOf
  <2>2. CASE ~(n > 0)
    <3>1. NONE \in PlainText /\ Terminal(NONE) = "none"
      BY WordTokens, WordSets DEF NONE
    <3> QED BY <2>2, <3>1 DEF PortOf
  <2> QED BY <2>1, <2>2
<1>6. read = {q}
  <2> DEFINE A == {"NUM", "none"}
  <2>1. Terminal(x) \in A
    BY <1>5
  <2> HIDE DEF A, x, k
  <2>2. Derives(<<A>>, <<x>>)
    BY <2>1, OneToken
  <2>3. v[1] = x
    OBVIOUS
  <2> QED BY <1>5, <2>2, <2>3 DEF ReadI2C, When, A
<1>7. k \in SInt /\ (k > 0 \/ k = -1) /\ (n > 0 \/ n = -1 => k = n)
  BY <1>1, Ranges
<1>8. q \in HeldI2C
  BY <1>7 DEF HeldI2C
<1>9. SoundProperty(q) /\ (SoundProperty(p) => n > 0 \/ n = -1)
  <2> HIDE DEF k
  <2>1. q.type = "wfd_I2C" /\ q.none = FALSE /\ q.members[1].dec = k
    <3>1. q.type = "wfd_I2C" /\ q.none = FALSE /\ q.members[1] = Dec(k)
      BY I2CFields
    <3>2. Dec(k).dec = k
      BY Tokens
    <3> QED BY <3>1, <3>2
  <2>2. p.none \in BOOLEAN /\ q.none \in BOOLEAN
    BY <1>2, <2>1
  <2>3. SoundProperty(q) <=> q.members[1].dec > 0 \/ q.members[1].dec = -1
    BY <2>1, <2>2, SoundnessByName
  <2>4. SoundProperty(p) <=> p.members[1].dec > 0 \/ p.members[1].dec = -1
    BY <1>2, <2>2, SoundnessByName
  <2> QED BY <1>2, <1>7, <2>1, <2>3, <2>4
<1>10. SoundProperty(p) => q = p
  BY <1>1, <1>7, <1>9
<1>11. v \in Seq(PlainText)
  BY <1>5
<1>12. p.type \notin HexMode
  BY <1>2 DEF HexMode
<1> HIDE DEF v, read, q
<1>13. \A r \in read : r \in HeldI2C /\ SoundProperty(r)
  BY <1>6, <1>8, <1>9
<1>14. SoundProperty(p) => read = {p}
  BY <1>6, <1>10
<1> QED BY <1>3, <1>4, <1>11, <1>12, <1>13, <1>14, PlainIsReadBack

(* A port that is read is an int, -1 for "none".                           *)
LEMMA PortRead ==
  ASSUME NEW t \in PlainText, Terminal(t) \in {"NUM", "none"}
  PROVE  \E n \in SInt : PortOf(t) = Dec(n)
<1>1. CASE t = NONE
  BY <1>1, Ranges DEF PortOf
<1>2. CASE t # NONE
  <2>1. Terminal(t) # "none"
    BY <1>2, PlainWord, WordSets DEF NONE
  <2>2. PICK n \in Nat : t = Dec(n)
    BY <2>1, PlainTokens
  <2>3. AsInt(t) \in SInt
    BY <2>2, Converted
  <2> QED BY <1>2, <2>3 DEF PortOf
<1> QED BY <1>1, <1>2

(* What is read under that name is a property its class can hold.          *)
LEMMA I2CRead ==
  ASSUME NEW tokens \in Seq(PlainText), NEW q \in ReadI2C(tokens)
  PROVE  q \in HeldI2C
<1> DEFINE A == {"NUM", "none"}
<1>1. Derives(<<A>>, tokens) /\ q = I2C(PortOf(tokens[1]))
  BY DEF ReadI2C, When
<1> HIDE DEF A
<1>2. tokens[1] \in PlainText /\ Terminal(tokens[1]) \in A
  BY <1>1, OneRead
<1>3. \E n \in SInt : PortOf(tokens[1]) = Dec(n)
  BY <1>2, PortRead DEF A
<1> QED BY <1>1, <1>3 DEF HeldI2C

----------------------------------------------------------------------------
(* Whether standby and resume are supported.                               *)
HeldStandbyResume == {StandbyResumeCapability(s) : s \in BOOLEAN}

(* wfd_standby_resume_capability is "none" when it is not supported.       *)
LEMMA StandbyResumeFields ==
  ASSUME NEW s \in BOOLEAN
  PROVE  /\ StandbyResumeCapability(s).type = "wfd_standby_resume_capability"
         /\ StandbyResumeCapability(s).none = ~s
  BY DEF StandbyResumeCapability, NoneProperty

(* wfd_standby_resume_capability is read back.                             *)
LEMMA StandbyResumeIsReadBack ==
  ASSUME NEW p \in HeldStandbyResume
  PROVE  PropertyIsReadBack(HeldStandbyResume, p)
<1>1. PICK s \in BOOLEAN : p = StandbyResumeCapability(s)
  BY DEF HeldStandbyResume
<1>2. p.type = "wfd_standby_resume_capability" /\ p.none = ~s
  BY <1>1, StandbyResumeFields
<1> DEFINE x == IF p.none THEN NONE ELSE Word("supported")
           v == <<x>>
           read == ReadStandbyResumeCapability(v)
<1>3. PropertyToString(p) = v
  BY <1>2, PropertyTexts DEF StandbyResumeCapabilityToString
<1>4. ReadProperty(p.type, v) = read
  BY <1>2, PropertyReaders
<1>5. x \in PlainText /\ Terminal(x) \in {"none", "supported"} /\ (x # NONE <=> s)
  <2>1. NONE \in PlainText /\ Terminal(NONE) = "none" /\ Word("supported") \in PlainText
        /\ Terminal(Word("supported")) = "supported"
    BY WordTokens, WordSets DEF NONE
  <2>2. Word("supported") # NONE
    BY <2>1
  <2> QED BY <1>2, <2>1, <2>2
<1>6. read = {p}
  <2> DEFINE A == {"none", "supported"}
  <2>1. Terminal(x) \in A
    BY <1>5
  <2> HIDE DEF A, x
  <2>2. Derives(<<A>>, <<x>>)
    BY <2>1, OneToken
  <2>3. v[1] = x
    OBVIOUS
  <2>4. StandbyResumeCapability(v[1] # NONE) = p
    <3>1. CASE s
      BY <1>1, <1>5, <2>3, <3>1
    <3>2. CASE ~s
      BY <1>1, <1>5, <2>3, <3>2
    <3> QED BY <3>1, <3>2
  <2> QED BY <2>2, <2>4 DEF ReadStandbyResumeCapability, When, A
<1>7. SoundProperty(p)
  <2>1. p.none \in BOOLEAN
    BY <1>2
  <2>2. p.type = "wfd_standby_resume_capability"
    BY <1>2
  <2> QED BY <2>1, <2>2, SoundnessByName
<1>8. v \in Seq(PlainText)
  BY <1>5
<1>9. p.type \notin HexMode
  BY <1>2 DEF HexMode
<1> HIDE DEF v, read
<1> QED BY <1>3, <1>4, <1>6, <1>7, <1>8, <1>9, PlainIsReadBack

(* What is read under that name is a property its class can hold.          *)
LEMMA StandbyResumeRead ==
  ASSUME NEW tokens, NEW q \in ReadStandbyResumeCapability(tokens)
  PROVE  q \in HeldStandbyResume
<1>1. q = StandbyResumeCapability(tokens[1] # NONE)
  BY DEF ReadStandbyResumeCapability, When
<1>2. CASE tokens[1] # NONE
  <2>1. q = StandbyResumeCapability(TRUE)
    BY <1>1, <1>2
  <2> QED BY <2>1 DEF HeldStandbyResume
<1>3. CASE tokens[1] = NONE
  <2>1. q = StandbyResumeCapability(FALSE)
    BY <1>1, <1>3
  <2> QED BY <2>1 DEF HeldStandbyResume
<1> QED BY <1>2, <1>3

(* Three and four tokens.                                                  *)
LEMMA ThreeTokens ==
  ASSUME NEW A, NEW B, NEW C, NEW x, NEW y, NEW z
  PROVE  Derives(<<A, B, C>>, <<x, y, z>>) <=> Terminal(x) \in A /\ Terminal(y) \in B /\ Terminal(z) \in C
<1>1. /\ DOMAIN <<x, y, z>> = 1 .. 3 /\ <<x, y, z>>[1] = x /\ <<x, y, z>>[2] = y /\ <<x, y, z>>[3] = z
      /\ Len(<<x, y, z>>) = 3 /\ Len(<<A, B, C>>) = 3
      /\ <<A, B, C>>[1] = A /\ <<A, B, C>>[2] = B /\ <<A, B, C>>[3] = C
  OBVIOUS
<1> QED BY <1>1 DEF Derives

(* A text of three tokens.                                                 *)
LEMMA ThreeRead ==
  ASSUME NEW A, NEW B, NEW C, NEW S, NEW t \in Seq(S), Derives(<<A, B, C>>, t)
  PROVE  /\ t = <<t[1], t[2], t[3]>> /\ t[1] \in S /\ t[2] \in S /\ t[3] \in S
         /\ Terminal(t[1]) \in A /\ Terminal(t[2]) \in B /\ Terminal(t[3]) \in C
<1>1. Len(t) = 3
  BY DEF Derives
<1>2. t[1] \in S /\ t[2] \in S /\ t[3] \in S
  <2>1. \A i \in 1 .. Len(t) : t[i] \in S
    OBVIOUS
  <2> QED BY <1>1, <2>1
<1> DEFINE s == <<t[1], t[2], t[3]>>
<1>3. s \in Seq(S) /\ Len(s) = 3 /\ s[1] = t[1] /\ s[2] = t[2] /\ s[3] = t[3]
  BY <1>2
<1> HIDE DEF s
<1>4. t = s
  BY <1>1, <1>3, SeqEqual
<1>5. t = <<t[1], t[2], t[3]>>
  BY <1>4 DEF s
<1> QED BY <1>2, <1>5, ThreeTokens

(* What a production of four takes.                                        *)
LEMMA FourTokens ==
  ASSUME NEW A, NEW B, NEW C, NEW D, NEW x, NEW y, NEW z, NEW w
  PROVE  Derives(<<A, B, C, D>>, <<x, y, z, w>>) <=>
           Terminal(x) \in A /\ Terminal(y) \in B /\ Terminal(z) \in C /\ Terminal(w) \in D
<1>1. /\ DOMAIN <<x, y, z, w>> = 1 .. 4 /\ <<x, y, z, w>>[1] = x /\ <<x, y, z, w>>[2] = y
      /\ <<x, y, z, w>>[3] = z /\ <<x, y, z, w>>[4] = w
      /\ Len(<<x, y, z, w>>) = 4 /\ Len(<<A, B, C, D>>) = 4
      /\ <<A, B, C, D>>[1] = A /\ <<A, B, C, D>>[2] = B /\ <<A, B, C, D>>[3] = C /\ <<A, B, C, D>>[4] = D
  OBVIOUS
<1> QED BY <1>1 DEF Derives

(* A text of four tokens.                                                  *)
LEMMA FourRead ==
  ASSUME NEW A, NEW B, NEW C, NEW D, NEW S, NEW t \in Seq(S), Derives(<<A, B, C, D>>, t)
  PROVE  /\ t = <<t[1], t[2], t[3], t[4]>> /\ t[1] \in S /\ t[2] \in S /\ t[3] \in S /\ t[4] \in S
         /\ Terminal(t[1]) \in A /\ Terminal(t[2]) \in B /\ Terminal(t[3]) \in C /\ Terminal(t[4]) \in D
<1>1. Len(t) = 4
  BY DEF Derives
<1>2. t[1] \in S /\ t[2] \in S /\ t[3] \in S /\ t[4] \in S
  BY <1>1
<1> DEFINE s == <<t[1], t[2], t[3], t[4]>>
<1>3. s \in Seq(S) /\ Len(s) = 4 /\ s[1] = t[1] /\ s[2] = t[2] /\ s[3] = t[3] /\ s[4] = t[4]
  BY <1>2
<1> HIDE DEF s
<1>4. t = s
  BY <1>1, <1>3, SeqEqual
<1>5. t = <<t[1], t[2], t[3], t[4]>>
  BY <1>4 DEF s
<1> QED BY <1>2, <1>5, FourTokens

(* A decimal number is a token of its own kind.                            *)
LEMMA DecTokens ==
  ASSUME NEW n \in Nat
  PROVE  Dec(n) \in PlainText /\ Terminal(Dec(n)) = "NUM" /\ Dec(n).dec = n /\ Dec(n) # NONE
  BY Tokens DEF PlainText, NONE

(* A token that is a number holds one.                                     *)
LEMMA PlainNumber ==
  ASSUME NEW t \in PlainText, Terminal(t) = "NUM"
  PROVE  t.dec \in Nat /\ t = Dec(t.dec)
<1>1. PICK n \in Nat : t = Dec(n)
  BY PlainTokens
<1> QED BY <1>1, DecTokens

(* "none" is a token outside the hexadecimal mode too.                     *)
LEMMA NoneTokens ==
  /\ NONE \in PlainText /\ Terminal(NONE) = "none"
  BY WordTokens, WordSets DEF NONE

(* Most classes say "none", and no other text of theirs is the same.       *)
LEMMA NoneDerives ==
  ASSUME NEW P, Len(P) # 1
  PROVE  ~Derives(P, <<NONE>>)
<1>1. Len(<<NONE>>) = 1
  OBVIOUS
<1> QED BY <1>1 DEF Derives

----------------------------------------------------------------------------
HeldContentProtection ==
  {NoneProperty("wfd_content_protection")} \cup
  {Property("wfd_content_protection", <<Word(s), Dec(n)>>, <<>>) : s \in ContentProtection, n \in UInt}

(* wfd_content_protection is read back.                                    *)
LEMMA ContentProtectionIsReadBack ==
  ASSUME NEW p \in HeldContentProtection
  PROVE  PropertyIsReadBack(HeldContentProtection, p)
<1> DEFINE type == "wfd_content_protection"
           v == ContentProtectionToString(p)
           read == ReadContentProtection(v)
           P == <<ContentProtection, {"port="}, {"NUM"}>>
<1>1. CASE p = NoneProperty(type)
  <2>1. p.type = type /\ p.none = TRUE
    BY <1>1 DEF NoneProperty
  <2>2. v = <<NONE>> /\ v \in Seq(PlainText)
    BY <2>1, NoneText DEF ContentProtectionToString
  <2>3. PropertyToString(p) = v /\ ReadProperty(p.type, v) = read
    BY <2>1, PropertyTexts, PropertyReaders
  <2>4. read = {p}
    <3>1. Len(P) = 3
      OBVIOUS
    <3>2. ~Derives(P, <<NONE>>)
      BY <3>1, NoneDerives
    <3> QED BY <1>1, <2>2, <3>2 DEF ReadContentProtection, NoneIf, When
  <2>5. SoundProperty(p) /\ p.type \notin HexMode
    <3>1. p.none \in BOOLEAN
      BY <2>1
    <3>2. SoundProperty(p)
      BY <2>1, <3>1, SoundnessByName
    <3> QED BY <2>1, <3>2 DEF HexMode
  <2> HIDE DEF v, read
  <2> QED BY <2>2, <2>3, <2>4, <2>5, PlainIsReadBack
<1>2. ASSUME NEW s \in ContentProtection, NEW n \in UInt, p = Property(type, <<Word(s), Dec(n)>>, <<>>)
      PROVE  PropertyIsReadBack(HeldContentProtection, p)
  <2>1. p.type = type /\ p.none = FALSE /\ p.members = <<Word(s), Dec(n)>>
    BY <1>2 DEF Property
  <2>2. PropertyToString(p) = v /\ ReadProperty(p.type, v) = read
    BY <2>1, PropertyTexts, PropertyReaders
  <2>3. v = <<Word(s), Word("port="), Dec(n)>>
    BY <2>1 DEF ContentProtectionToString
  <2>4. /\ Word(s) \in PlainText /\ Terminal(Word(s)) = s
        /\ Word("port=") \in PlainText /\ Terminal(Word("port=")) = "port="
        /\ Dec(n) \in PlainText /\ Terminal(Dec(n)) = "NUM" /\ AsUInt(Dec(n)) = n
    <3>1. n \in Nat
      BY Ranges
    <3> QED BY <3>1, WordTokens, WordSets, DecTokens, Converted
  <2>5. v \in Seq(PlainText) /\ v # <<NONE>> /\ v[1] = Word(s) /\ v[3] = Dec(n)
    <3>1. Len(v) = 3 /\ Len(<<NONE>>) = 1
      BY <2>3
    <3> QED BY <2>3, <2>4, <3>1
  <2>6. Derives(P, v)
    <3> DEFINE B == {"port="}
               C == {"NUM"}
    <3>1. Terminal(Word(s)) \in ContentProtection /\ Terminal(Word("port=")) \in B /\ Terminal(Dec(n)) \in C
      BY <2>4
    <3> HIDE DEF B, C
    <3>2. Derives(<<ContentProtection, B, C>>, <<Word(s), Word("port="), Dec(n)>>)
      BY <3>1, ThreeTokens
    <3> QED BY <2>3, <3>2 DEF B, C
  <2>7. read = {p}
    <3>1. p = Property(type, <<v[1], Dec(AsUInt(v[3]))>>, <<>>)
      BY <1>2, <2>4, <2>5
    <3> HIDE DEF v, P
    <3> QED BY <2>5, <2>6, <3>1 DEF ReadContentProtection, NoneIf, When, P
  <2>8. SoundProperty(p) /\ p.type \notin HexMode
    <3>1. p.none \in BOOLEAN
      BY <2>1
    <3>2. SoundProperty(p)
      BY <2>1, <3>1, SoundnessByName
    <3> QED BY <2>1, <3>2 DEF HexMode
  <2> HIDE DEF v, read
  <2> QED BY <2>2, <2>5, <2>7, <2>8, PlainIsReadBack
<1>3. \/ p = NoneProperty(type)
      \/ \E s \in ContentProtection, n \in UInt : p = Property(type, <<Word(s), Dec(n)>>, <<>>)
  BY DEF HeldContentProtection
<1> QED BY <1>1, <1>2, <1>3

(* What is read under that name is a property its class can hold.          *)
LEMMA ContentProtectionRead ==
  ASSUME NEW tokens \in Seq(PlainText), NEW q \in ReadContentProtection(tokens)
  PROVE  q \in HeldContentProtection
<1> DEFINE B == {"port="}
           C == {"NUM"}
<1>1. \/ q = NoneProperty("wfd_content_protection")
      \/ /\ Derives(<<ContentProtection, B, C>>, tokens)
         /\ q = Property("wfd_content_protection", <<tokens[1], Dec(AsUInt(tokens[3]))>>, <<>>)
  BY DEF ReadContentProtection, NoneIf, When
<1> HIDE DEF B, C
<1>2. ASSUME Derives(<<ContentProtection, B, C>>, tokens)
      PROVE  \E s \in ContentProtection, n \in UInt : tokens[1] = Word(s) /\ AsUInt(tokens[3]) = n
  <2>1. /\ tokens[1] \in PlainText /\ tokens[3] \in PlainText
        /\ Terminal(tokens[1]) \in ContentProtection /\ Terminal(tokens[3]) \in C
    BY <1>2, ThreeRead
  <2>2. tokens[1] = Word(Terminal(tokens[1]))
    BY <2>1, PlainWord, WordSets
  <2>3. PICK n \in Nat : tokens[3] = Dec(n)
    BY <2>1, PlainTokens DEF C
  <2>4. AsUInt(tokens[3]) \in UInt
    BY <2>3, Converted
  <2> QED BY <2>1, <2>2, <2>4
<1> QED BY <1>1, <1>2 DEF HeldContentProtection

----------------------------------------------------------------------------
HeldClientRtpPorts == {ClientRtpPorts(a, b) : a \in UShort, b \in UShort}

(* The ports of wfd_client_rtp_ports.                                      *)
LEMMA ClientRtpPortsFields ==
  ASSUME NEW a, NEW b
  PROVE  /\ ClientRtpPorts(a, b).type = "wfd_client_rtp_ports" /\ ClientRtpPorts(a, b).none = FALSE
         /\ ClientRtpPorts(a, b).members = <<Dec(a), Dec(b)>>
  BY DEF ClientRtpPorts, Property

(* wfd_client_rtp_ports is read back.                                      *)
LEMMA ClientRtpPortsIsReadBack ==
  ASSUME NEW p \in HeldClientRtpPorts
  PROVE  PropertyIsReadBack(HeldClientRtpPorts, p)
<1> DEFINE v == ClientRtpPortsToString(p)
           read == ReadClientRtpPorts(v)
           P == <<{"RTP/AVP/UDP"}, {"NUM"}, {"NUM"}, {"mode=play"}>>
<1>1. PICK a \in UShort, b \in UShort : p = ClientRtpPorts(a, b)
  BY DEF HeldClientRtpPorts
<1>2. p.type = "wfd_client_rtp_ports" /\ p.none = FALSE /\ p.members = <<Dec(a), Dec(b)>>
  BY <1>1, ClientRtpPortsFields
<1>3. PropertyToString(p) = v /\ ReadProperty(p.type, v) = read
  BY <1>2, PropertyTexts, PropertyReaders
<1>4. v = <<Word("RTP/AVP/UDP"), Dec(a), Dec(b), Word("mode=play")>>
  BY <1>2 DEF ClientRtpPortsToString
<1>5. /\ Word("RTP/AVP/UDP") \in PlainText /\ Terminal(Word("RTP/AVP/UDP")) = "RTP/AVP/UDP"
      /\ Word("mode=play") \in PlainText /\ Terminal(Word("mode=play")) = "mode=play"
  BY WordTokens, WordSets
<1>6. /\ Dec(a) \in PlainText /\ Terminal(Dec(a)) = "NUM" /\ Dec(a).dec = a
      /\ Dec(b) \in PlainText /\ Terminal(Dec(b)) = "NUM" /\ Dec(b).dec = b
      /\ AsUShort(Dec(a)) = a /\ AsUShort(Dec(b)) = b
  <2>1. a \in Nat /\ b \in Nat
    BY Ranges
  <2> QED BY <2>1, DecTokens, Converted
<1>7. v \in Seq(PlainText) /\ v[2] = Dec(a) /\ v[3] = Dec(b)
  BY <1>4, <1>5, <1>6
<1>8. Derives(P, v)
  <2> DEFINE A == {"RTP/AVP/UDP"}
             B == {"NUM"}
             C == {"mode=play"}
  <2>1. /\ Terminal(Word("RTP/AVP/UDP")) \in A /\ Terminal(Dec(a)) \in B /\ Terminal(Dec(b)) \in B
        /\ Terminal(Word("mode=play")) \in C
    BY <1>5, <1>6
  <2> HIDE DEF A, B, C
  <2>2. Derives(<<A, B, B, C>>, <<Word("RTP/AVP/UDP"), Dec(a), Dec(b), Word("mode=play")>>)
    BY <2>1, FourTokens
  <2> QED BY <1>4, <2>2 DEF A, B, C
<1>9. read = {p}
  <2>1. AsUShort(v[2]) = a /\ AsUShort(v[3]) = b
    BY <1>6, <1>7
  <2> HIDE DEF v
  <2> QED BY <1>1, <1>8, <2>1 DEF ReadClientRtpPorts, When
<1>10. SoundProperty(p) /\ p.type \notin HexMode
  <2>1. p.none \in BOOLEAN
    BY <1>2
  <2>2. SoundProperty(p)
    BY <1>2, <2>1, SoundnessByName
  <2> QED BY <1>2, <2>2 DEF HexMode
<1> HIDE DEF v, read
<1> QED BY <1>3, <1>7, <1>9, <1>10, PlainIsReadBack

(* What is read under that name is a property its class can hold.          *)
LEMMA ClientRtpPortsRead ==
  ASSUME NEW tokens \in Seq(PlainText), NEW q \in ReadClientRtpPorts(tokens)
  PROVE  q \in HeldClientRtpPorts
<1> DEFINE A == {"RTP/AVP/UDP"}
           B == {"NUM"}
           C == {"mode=play"}
<1>1. Derives(<<A, B, B, C>>, tokens) /\ q = ClientRtpPorts(AsUShort(tokens[2]), AsUShort(tokens[3]))
  BY DEF ReadClientRtpPorts, When
<1> HIDE DEF A, B, C
<1>2. tokens[2] \in PlainText /\ tokens[3] \in PlainText /\ Terminal(tokens[2]) \in B /\ Terminal(tokens[3]) \in B
  BY <1>1, FourRead
<1>3. AsUShort(tokens[2]) \in UShort /\ AsUShort(tokens[3]) \in UShort
  BY <1>2, PlainTokens, Converted DEF B
<1> QED BY <1>1, <1>3 DEF HeldClientRtpPorts

----------------------------------------------------------------------------
FirstUrls == {NONE, Url(0, TRUE), Url(0, FALSE)}
SecondUrls == {NONE, Url(1, TRUE), Url(1, FALSE)}
HeldPresentationUrl == {PresentationUrl(u, v) : u \in FirstUrls, v \in SecondUrls}

(* The URLs of wfd_presentation_url.                                       *)
LEMMA PresentationUrlFields ==
  ASSUME NEW u, NEW v
  PROVE  /\ PresentationUrl(u, v).type = "wfd_presentation_url" /\ PresentationUrl(u, v).none = FALSE
         /\ PresentationUrl(u, v).members = <<u, v>>
  BY DEF PresentationUrl, Property

(* A URL is not "none".                                                    *)
LEMMA UrlFields ==
  ASSUME NEW s, NEW a
  PROVE  Url(s, a).address = a /\ Url(s, a) # NONE
<1>1. DOMAIN Url(s, a) = {"stream", "address"} /\ Url(s, a).address = a
  BY DEF Url
<1>2. DOMAIN NONE = {"word"}
  BY DEF NONE, Word
<1> QED BY <1>1, <1>2

UrlTokenOf(u, terminal) ==
  /\ u \in PlainText
  /\ Terminal(u) \in {terminal, "none"} <=> (u = NONE \/ u.address)

(* Which terminal each URL of a presentation has.                          *)
LEMMA UrlTokensOf ==
  ASSUME NEW u
  PROVE  (u \in FirstUrls => UrlTokenOf(u, "URL_0")) /\ (u \in SecondUrls => UrlTokenOf(u, "URL_1"))
<1>1. \A x \in {NONE, Url(0, TRUE), Url(1, TRUE), Url(0, FALSE), Url(1, FALSE)} : x \in PlainText
  BY NoneTokens DEF PlainText
<1>2. /\ Terminal(Url(0, TRUE)) = "URL_0" /\ Terminal(Url(1, TRUE)) = "URL_1"
      /\ Terminal(Url(0, FALSE)) = "unmatched" /\ Terminal(Url(1, FALSE)) = "unmatched"
  BY UrlTokens DEF Url
<1>3. CASE u = NONE
  BY <1>1, <1>3, NoneTokens DEF UrlTokenOf
<1>4. ASSUME u = Url(0, TRUE) PROVE UrlTokenOf(u, "URL_0")
  BY <1>1, <1>2, <1>4, UrlFields DEF UrlTokenOf
<1>5. ASSUME u = Url(1, TRUE) PROVE UrlTokenOf(u, "URL_1")
  BY <1>1, <1>2, <1>5, UrlFields DEF UrlTokenOf
<1>6. ASSUME u = Url(0, FALSE) PROVE UrlTokenOf(u, "URL_0")
  BY <1>1, <1>2, <1>6, UrlFields DEF UrlTokenOf
<1>7. ASSUME u = Url(1, FALSE) PROVE UrlTokenOf(u, "URL_1")
  BY <1>1, <1>2, <1>7, UrlFields DEF UrlTokenOf
<1> QED BY <1>3, <1>4, <1>5, <1>6, <1>7 DEF FirstUrls, SecondUrls

(* wfd_presentation_url is read back.                                      *)
LEMMA PresentationUrlIsReadBack ==
  ASSUME NEW p \in HeldPresentationUrl
  PROVE  PropertyIsReadBack(HeldPresentationUrl, p)
<1>1. PICK x \in FirstUrls, y \in SecondUrls : p = PresentationUrl(x, y)
  BY DEF HeldPresentationUrl
<1> DEFINE v == PresentationUrlToString(p)
           read == ReadPresentationUrl(v)
           A == {"URL_0", "none"}
           B == {"URL_1", "none"}
           whole == (x = NONE \/ x.address) /\ (y = NONE \/ y.address)
<1>2. p.type = "wfd_presentation_url" /\ p.none = FALSE /\ p.members = <<x, y>>
  BY <1>1, PresentationUrlFields
<1>3. PropertyToString(p) = v /\ ReadProperty(p.type, v) = read
  BY <1>2, PropertyTexts, PropertyReaders
<1>4. v = <<x, y>>
  BY <1>2 DEF PresentationUrlToString
<1>5. /\ x \in PlainText /\ (Terminal(x) \in A <=> x = NONE \/ x.address)
      /\ y \in PlainText /\ (Terminal(y) \in B <=> y = NONE \/ y.address)
  BY UrlTokensOf DEF UrlTokenOf
<1>6. v \in Seq(PlainText) /\ v[1] = x /\ v[2] = y
  BY <1>4, <1>5
<1>7. Derives(<<A, B>>, v) <=> whole
  <2> HIDE DEF A, B
  <2>1. Derives(<<A, B>>, <<x, y>>) <=> Terminal(x) \in A /\ Terminal(y) \in B
    BY TwoTokens
  <2> QED BY <1>4, <1>5, <2>1, Zenon
<1>8. read = IF whole THEN {p} ELSE {}
  <2>1. p = PresentationUrl(v[1], v[2])
    BY <1>1, <1>6
  <2> HIDE DEF v, whole
  <2> QED BY <1>7, <2>1 DEF ReadPresentationUrl, When
<1>9. SoundProperty(p) <=> whole
  <2>1. p.none \in BOOLEAN
    BY <1>2
  <2>2. SoundProperty(p) <=> \A i \in 1 .. 2 : p.members[i] = NONE \/ p.members[i].address
    BY <1>2, <2>1, SoundnessByName
  <2>3. p.members[1] = x /\ p.members[2] = y /\ 1 .. 2 = {1, 2}
    BY <1>2
  <2> QED BY <2>2, <2>3
<1>10. p.type \notin HexMode
  BY <1>2 DEF HexMode
<1> HIDE DEF v, read, whole
<1>11. \A r \in read : r \in HeldPresentationUrl /\ SoundProperty(r)
  BY <1>8, <1>9
<1>12. SoundProperty(p) => read = {p}
  BY <1>8, <1>9
<1> QED BY <1>3, <1>6, <1>10, <1>11, <1>12, PlainIsReadBack

(* What is read under that name is a property its class can hold.          *)
LEMMA PresentationUrlRead ==
  ASSUME NEW tokens \in Seq(PlainText), NEW q \in ReadPresentationUrl(tokens)
  PROVE  q \in HeldPresentationUrl
<1> DEFINE A == {"URL_0", "none"}
           B == {"URL_1", "none"}
<1>1. Derives(<<A, B>>, tokens) /\ q = PresentationUrl(tokens[1], tokens[2])
  BY DEF ReadPresentationUrl, When
<1> HIDE DEF A, B
<1>2. Len(tokens) = 2
  BY <1>1 DEF Derives
<1>3. tokens = <<tokens[1], tokens[2]>> /\ tokens[1] \in PlainText /\ tokens[2] \in PlainText
  BY <1>2, TwoOf
<1>4. Terminal(tokens[1]) \in A /\ Terminal(tokens[2]) \in B
  BY <1>1, <1>3, TwoTokens
<1>5. tokens[1] \in FirstUrls
  <2>1. CASE Terminal(tokens[1]) = "URL_0"
    BY <1>3, <2>1, PlainTokens DEF FirstUrls
  <2>2. CASE Terminal(tokens[1]) = "none"
    BY <1>3, <2>2, PlainWord, WordSets DEF FirstUrls, NONE
  <2> QED BY <1>4, <2>1, <2>2 DEF A
<1>6. tokens[2] \in SecondUrls
  <2>1. CASE Terminal(tokens[2]) = "URL_1"
    BY <1>3, <2>1, PlainTokens DEF SecondUrls
  <2>2. CASE Terminal(tokens[2]) = "none"
    BY <1>3, <2>2, PlainWord, WordSets DEF SecondUrls, NONE
  <2> QED BY <1>4, <2>1, <2>2 DEF B
<1> QED BY <1>1, <1>5, <1>6 DEF HeldPresentationUrl

----------------------------------------------------------------------------
HeldGeneric == {GenericProperty("vendor_key", Chars(c)) : c \in Seq(Nat)}

(* The value of a property no production names.                            *)
LEMMA GenericFields ==
  ASSUME NEW x
  PROVE  /\ GenericProperty("vendor_key", x).type = "vendor_key" /\ GenericProperty("vendor_key", x).none = FALSE
         /\ GenericProperty("vendor_key", x).members = <<x>>
  BY DEF GenericProperty, Property

(* One token is a string if it has two characters.                         *)
LEMMA StringOf ==
  ASSUME NEW c
  PROVE  HasString(<<Chars(c)>>) <=> Len(c) >= 2
<1> DEFINE x == Chars(c)
           t == << x >>
<1>1. DOMAIN t = 1 .. 1 /\ t[1] = x
  OBVIOUS
<1>2. \A i \in 1 .. 1 : i = 1
  OBVIOUS
<1>3. Terminal(x) = "STRING" /\ x.chars = c
  BY CharsFields
<1> HIDE DEF t, x
<1>4. HasString(t) <=> Terminal(x) = "STRING" /\ Len(x.chars) >= 2
  BY <1>1, <1>2 DEF HasString
<1> QED BY <1>3, <1>4 DEF t, x

(* A property no production names is read back.                            *)
LEMMA GenericIsReadBack ==
  ASSUME NEW p \in HeldGeneric
  PROVE  PropertyIsReadBack(HeldGeneric, p)
<1>1. PICK c \in Seq(Nat) : p = GenericProperty("vendor_key", Chars(c))
  BY DEF HeldGeneric
<1> DEFINE v == GenericPropertyToString(p)
           read == ReadGenericProperty("vendor_key", v)
           A == {"STRING"}
           whole == Len(c) >= 2
<1>2. p.type = "vendor_key" /\ p.none = FALSE /\ p.members = <<Chars(c)>>
  BY <1>1, GenericFields
<1>3. PropertyToString(p) = v /\ ReadProperty(p.type, v) = read
  BY <1>2, PropertyTexts, PropertyReaders
<1>4. v = <<Chars(c)>>
  BY <1>2 DEF GenericPropertyToString
<1>5. Chars(c) \in PlainText /\ Terminal(Chars(c)) \in A /\ Chars(c).chars = c
  BY CharsFields DEF PlainText
<1>6. v \in Seq(PlainText) /\ v[1] = Chars(c) /\ v[1].chars = c
  BY <1>4, <1>5
<1>7. Derives(<<A>>, v)
  <2> HIDE DEF A
  <2> QED BY <1>4, <1>5, OneToken
<1>8. read = IF whole THEN {p} ELSE {}
  <2>1. HasString(v) <=> whole
    BY <1>4, StringOf
  <2> HIDE DEF v
  <2> QED BY <1>1, <1>6, <1>7, <2>1 DEF ReadGenericProperty, When
<1>9. SoundProperty(p) <=> whole
  <2>1. p.none \in BOOLEAN
    BY <1>2
  <2>2. SoundProperty(p) <=> Len(p.members[1].chars) >= 2
    BY <1>2, <2>1, SoundnessByName
  <2>3. p.members[1] = Chars(c)
    BY <1>2
  <2> QED BY <1>5, <2>2, <2>3
<1>10. p.type \notin HexMode
  BY <1>2 DEF HexMode
<1> HIDE DEF v, read, whole
<1>11. \A r \in read : r \in HeldGeneric /\ SoundProperty(r)
  BY <1>8, <1>9
<1>12. SoundProperty(p) => read = {p}
  BY <1>8, <1>9
<1> QED BY <1>3, <1>6, <1>10, <1>11, <1>12, PlainIsReadBack

(* What is read as one is a property the generic class can hold.           *)
LEMMA GenericRead ==
  ASSUME NEW tokens \in Seq(PlainText), NEW q \in ReadGenericProperty("vendor_key", tokens)
  PROVE  q \in HeldGeneric
<1> DEFINE A == {"STRING"}
<1>1. Derives(<<A>>, tokens) /\ q = GenericProperty("vendor_key", tokens[1])
  BY DEF ReadGenericProperty, When
<1> HIDE DEF A
<1>2. tokens[1] \in PlainText /\ Terminal(tokens[1]) \in A
  BY <1>1, OneRead
<1>3. \E c \in Seq(Nat) : tokens[1] = Chars(c)
  BY <1>2, PlainTokens DEF A
<1> QED BY <1>1, <1>3 DEF HeldGeneric

----------------------------------------------------------------------------
(* UIBCCapability: the items of its three lists, and their tokens.         *)
UIBCItems(i) ==
  CASE i = 1 -> {<<Word(w)>> : w \in InputCategory}
    [] i = 2 -> {<<Word(w)>> : w \in InputType}
    [] OTHER -> {<<Word(w), Word("/"), Word(path)>> : w \in InputType, path \in InputPath}

ListWords == {"comma", "/"} \cup InputCategory \cup InputType \cup InputPath
ListText == {Word(w) : w \in ListWords}

HeldUIBCLists ==
  {<<a, b, c>> : a \in Seq(UIBCItems(1)), b \in Seq(UIBCItems(2)), c \in Seq(UIBCItems(3))}
HeldUIBCCapability ==
  {NoneProperty("wfd_uibc_capability")} \cup
  {UIBCCapability(lists, Dec(n)) : lists \in HeldUIBCLists, n \in SInt}

(* The tokens inside a list are not the ones that end it.                  *)
LEMMA ListWordTokens ==
  ASSUME NEW t \in ListText
  PROVE  t \in PlainText /\ t # NONE /\ t # Word("semicolon")
<1>1. PICK w \in ListWords : t = Word(w)
  BY DEF ListText
<1>2. w \in Words /\ w # "none" /\ w # "semicolon"
  BY WordSets DEF ListWords, InputCategory, InputType, InputPath
<1>3. Terminal(t) = w /\ t \in PlainText
  BY <1>1, <1>2, WordTokens
<1>4. Terminal(NONE) = "none" /\ Terminal(Word("semicolon")) = "semicolon"
  BY Tokens DEF NONE
<1> QED BY <1>2, <1>3, <1>4

(* How many tokens an item of each list of wfd_uibc_capability has.        *)
LEMMA UIBCListTypes ==
  ASSUME NEW i \in 1 .. 3
  PROVE  Len(UIBCLists[i]) \in Lengths /\ Len(UIBCLists[i]) = IF i = 3 THEN 3 ELSE 1
<1>1. Len(UIBCLists[1]) = 1 /\ Len(UIBCLists[2]) = 1 /\ Len(UIBCLists[3]) = 3
  BY DEF UIBCLists
<1>2. i = 1 \/ i = 2 \/ i = 3
  OBVIOUS
<1>3. CASE i = 1
  BY <1>1, <1>3 DEF Lengths
<1>4. CASE i = 2
  BY <1>1, <1>4 DEF Lengths
<1>5. CASE i = 3
  BY <1>1, <1>5 DEF Lengths
<1> QED BY <1>2, <1>3, <1>4, <1>5

(* The items of those lists are texts of their grammar.                    *)
LEMMA UIBCItemText ==
  ASSUME NEW i \in 1 .. 3, NEW item \in UIBCItems(i)
  PROVE  item \in Seq(ListText) /\ Len(item) = Len(UIBCLists[i]) /\ Derives(UIBCLists[i], item)
<1>1. i = 1 \/ i = 2 \/ i = 3
  OBVIOUS
<1>2. \A w \in ListWords : Word(w) \in ListText /\ Terminal(Word(w)) = w
  BY Tokens DEF ListText
<1>3. CASE i = 1
  <2>1. PICK w \in InputCategory : item = <<Word(w)>>
    BY <1>3 DEF UIBCItems
  <2>2. Word(w) \in ListText /\ Terminal(Word(w)) \in InputCategory
    BY <1>2 DEF ListWords
  <2>3. Derives(<<InputCategory>>, item)
    BY <2>1, <2>2, OneToken
  <2>4. UIBCLists[1] = <<InputCategory>>
    BY DEF UIBCLists
  <2>5. item \in Seq(ListText) /\ Len(item) = 1
    BY <2>1, <2>2
  <2> QED BY <1>3, <2>3, <2>4, <2>5, UIBCListTypes
<1>4. CASE i = 2
  <2>1. PICK w \in InputType : item = <<Word(w)>>
    BY <1>4 DEF UIBCItems
  <2>2. Word(w) \in ListText /\ Terminal(Word(w)) \in InputType
    BY <1>2 DEF ListWords
  <2>3. Derives(<<InputType>>, item)
    BY <2>1, <2>2, OneToken
  <2>4. UIBCLists[2] = <<InputType>>
    BY DEF UIBCLists
  <2>5. item \in Seq(ListText) /\ Len(item) = 1
    BY <2>1, <2>2
  <2> QED BY <1>4, <2>3, <2>4, <2>5, UIBCListTypes
<1>5. CASE i = 3
  <2>1. PICK w \in InputType, path \in InputPath : item = <<Word(w), Word("/"), Word(path)>>
    BY <1>5 DEF UIBCItems
  <2> DEFINE B == {"/"}
  <2>2. /\ Word(w) \in ListText /\ Terminal(Word(w)) \in InputType
        /\ Word("/") \in ListText /\ Terminal(Word("/")) \in B
        /\ Word(path) \in ListText /\ Terminal(Word(path)) \in InputPath
    BY <1>2 DEF ListWords
  <2>4. UIBCLists[3] = <<InputType, B, InputPath>>
    BY DEF UIBCLists
  <2> HIDE DEF B
  <2>3. Derives(<<InputType, B, InputPath>>, item)
    BY <2>1, <2>2, ThreeTokens
  <2>5. item \in Seq(ListText) /\ Len(item) = 3
    BY <2>1, <2>2
  <2> QED BY <1>5, <2>3, <2>4, <2>5, UIBCListTypes
<1> QED BY <1>1, <1>3, <1>4, <1>5

(* What the grammar takes for an item is one.                              *)
LEMMA UIBCItemRead ==
  ASSUME NEW i \in 1 .. 3, NEW item \in Seq(PlainText), Derives(UIBCLists[i], item)
  PROVE  item \in UIBCItems(i)
<1>1. i = 1 \/ i = 2 \/ i = 3
  OBVIOUS
<1>2. CASE i = 1
  <2>1. Derives(<<InputCategory>>, item)
    BY <1>2 DEF UIBCLists
  <2>2. item = <<item[1]>> /\ item[1] \in PlainText /\ Terminal(item[1]) \in InputCategory
    BY <2>1, OneRead
  <2>3. item[1] = Word(Terminal(item[1]))
    BY <2>2, PlainWord, WordSets
  <2> QED BY <1>2, <2>2, <2>3 DEF UIBCItems
<1>3. CASE i = 2
  <2>1. Derives(<<InputType>>, item)
    BY <1>3 DEF UIBCLists
  <2>2. item = <<item[1]>> /\ item[1] \in PlainText /\ Terminal(item[1]) \in InputType
    BY <2>1, OneRead
  <2>3. item[1] = Word(Terminal(item[1]))
    BY <2>2, PlainWord, WordSets
  <2> QED BY <1>3, <2>2, <2>3 DEF UIBCItems
<1>4. CASE i = 3
  <2> DEFINE B == {"/"}
  <2>1. Derives(<<InputType, B, InputPath>>, item)
    BY <1>4 DEF UIBCLists
  <2>4. \A x \in B : x = "/"
    OBVIOUS
  <2> HIDE DEF B
  <2>2. /\ item = <<item[1], item[2], item[3]>>
        /\ item[1] \in PlainText /\ item[2] \in PlainText /\ item[3] \in PlainText
        /\ Terminal(item[1]) \in InputType /\ Terminal(item[2]) \in B /\ Terminal(item[3]) \in InputPath
    BY <2>1, ThreeRead
  <2>3. item[1] = Word(Terminal(item[1])) /\ item[2] = Word("/") /\ item[3] = Word(Terminal(item[3]))
    BY <2>2, <2>4, PlainWord, WordSets
  <2> QED BY <1>4, <2>2, <2>3 DEF UIBCItems
<1> QED BY <1>1, <1>2, <1>3, <1>4

(* A list behind its word: where its semicolon is, and what is in front of *)
(* it.                                                                     *)
UIBCPart(i, items) == <<Word(UIBCWords[i])>> \o UIBCListToString(i, items)

UIBCPartText(i, items, a) ==
  /\ a \in Seq(PlainText) /\ Len(a) >= 2 /\ a[1] = Word(UIBCWords[i])
  /\ \A j \in 1 .. Len(a) : a[j] = Word("semicolon") <=> (j = Len(a) /\ items # <<>>)
  /\ items # <<>> =>
       /\ SubSeq(a, 2, Len(a) - 1) # <<NONE>>
       /\ IsList(UIBCLists[i], SubSeq(a, 2, Len(a) - 1))
       /\ Items(Len(UIBCLists[i]), SubSeq(a, 2, Len(a) - 1)) = items

(* A list of items is printed so that it is read back.                     *)
LEMMA UIBCListIsReadBack ==
  ASSUME NEW i \in 1 .. 3, NEW items \in Seq(UIBCItems(i)), items # <<>>
  PROVE  LET n == Len(UIBCLists[i])
             list == Listed(n, items)
         IN /\ list \in Seq(ListText) /\ Len(list) \in Nat \ {0}
            /\ IsList(UIBCLists[i], list) /\ Items(n, list) = items
<1> DEFINE n == Len(UIBCLists[i])
           P == UIBCLists[i]
<1>1. n \in Lengths /\ Len(P) = n
  BY UIBCListTypes
<1>2. \A k \in 1 .. Len(items) : items[k] \in Seq(ListText) /\ Len(items[k]) = n /\ Derives(P, items[k])
  BY UIBCItemText
<1> HIDE DEF n, P
<1>3. items \in Seq(Seq(ListText))
  <2>1. items = [k \in 1 .. Len(items) |-> items[k]] /\ Len(items) \in Nat
    BY LenProperties
  <2> QED BY <1>2, <2>1
<1>4. Word("comma") \in ListText
  BY DEF ListText, ListWords
<1>5. Items(n, Listed(n, items)) = items
  BY <1>1, <1>2, <1>3, <1>4, ListedRound
<1>6. IsList(P, Listed(n, items))
  BY <1>1, <1>2, <1>3, <1>4, ListedRound
<1>7. Listed(n, items) \in Seq(ListText)
  BY <1>1, <1>2, <1>3, <1>4, ListedTokens
<1>8. Listed(n, items) # <<>>
  BY <1>6 DEF IsList
<1>9. Len(Listed(n, items)) \in Nat \ {0}
  BY <1>7, <1>8, EmptySeq
<1> QED BY <1>5, <1>6, <1>7, <1>9 DEF n, P

(* A list with its word before and its semicolon after it.                 *)
LEMMA UIBCPartIsReadBack ==
  ASSUME NEW i \in 1 .. 3, NEW items \in Seq(UIBCItems(i))
  PROVE  UIBCPartText(i, items, UIBCPart(i, items))
<1> DEFINE w == Word(UIBCWords[i])
           semi == Word("semicolon")
           a == UIBCPart(i, items)
<1>1. w \in PlainText /\ w # semi /\ semi \in PlainText /\ NONE \in PlainText /\ NONE # semi
  <2>1. UIBCWords[i] \in {"input_category_list=", "generic_cap_list=", "hidc_cap_list="}
    BY DEF UIBCWords
  <2>2. Terminal(w) = UIBCWords[i] /\ Terminal(semi) = "semicolon" /\ Terminal(NONE) = "none"
    BY Tokens DEF NONE
  <2> QED BY <2>1, <2>2, WordTokens, WordSets, NoneTokens
<1> HIDE DEF w, semi
<1>2. CASE items = <<>>
  <2>1. a = <<w>> \o <<NONE>>
    BY <1>2 DEF UIBCPart, UIBCListToString, w
  <2>2. Concatenated(PlainText, <<w>>, <<NONE>>, 1, 1)
    <3>1. <<w>> \in Seq(PlainText) /\ <<NONE>> \in Seq(PlainText) /\ Len(<<w>>) = 1 /\ Len(<<NONE>>) = 1
      BY <1>1
    <3> QED BY <3>1, Concat
  <2> HIDE DEF a
  <2>3. a \in Seq(PlainText) /\ Len(a) = 2 /\ a[1] = w /\ a[2] = NONE
    BY <2>1, <2>2 DEF Concatenated
  <2>4. \A j \in 1 .. 2 : a[j] # semi
    BY <2>3, <1>1
  <2> QED BY <1>2, <2>3, <2>4 DEF UIBCPartText, w, semi, a
<1>3. CASE items # <<>>
  <2> DEFINE n == Len(UIBCLists[i])
             list == Listed(n, items)
             m == Len(list)
             tail == list \o <<semi>>
  <2>1. /\ list \in Seq(ListText) /\ m \in Nat \ {0}
        /\ IsList(UIBCLists[i], list) /\ Items(n, list) = items
    BY <1>3, UIBCListIsReadBack
  <2>2. a = <<w>> \o tail
    BY <1>3 DEF UIBCPart, UIBCListToString, w, semi
  <2> HIDE DEF list, n, a
  <2>3. list \in Seq(PlainText) /\ \A j \in 1 .. m : list[j] # semi /\ list[j] # NONE /\ list[j] \in PlainText
    <3>1. ASSUME NEW j \in 1 .. m PROVE list[j] # semi /\ list[j] # NONE /\ list[j] \in PlainText
      <4>1. list[j] \in ListText
        BY <2>1
      <4> QED BY <4>1, ListWordTokens DEF semi
    <3>2. list = [j \in 1 .. m |-> list[j]]
      BY <2>1, LenProperties
    <3> QED BY <3>1, <3>2, <2>1
  <2>4. Concatenated(PlainText, list, <<semi>>, m, 1)
    <3>1. <<semi>> \in Seq(PlainText) /\ Len(<<semi>>) = 1
      BY <1>1
    <3> QED BY <2>1, <2>3, <3>1, Concat
  <2>5. /\ tail \in Seq(PlainText) /\ Len(tail) = m + 1 /\ tail[m + 1] = semi
        /\ \A j \in 1 .. m : tail[j] = list[j]
    <3>1. m + 1 \in m + 1 .. m + 1 /\ m + 1 - m = 1
      BY <2>1
    <3>2. tail[m + 1] = <<semi>>[1]
      BY <2>4, <3>1 DEF Concatenated
    <3> QED BY <2>4, <3>2 DEF Concatenated
  <2> HIDE DEF m, tail
  <2>6. Concatenated(PlainText, <<w>>, tail, 1, m + 1)
    <3>1. <<w>> \in Seq(PlainText) /\ Len(<<w>>) = 1 /\ m + 1 \in Nat
      BY <1>1, <2>1
    <3> QED BY <2>5, <3>1, Concat
  <2>7. /\ a \in Seq(PlainText) /\ Len(a) = m + 2 /\ a[1] = w
        /\ \A j \in 2 .. m + 2 : a[j] = tail[j - 1]
    <3>1. 1 + (m + 1) = m + 2
      BY <2>1
    <3>2. a[1] = <<w>>[1]
      BY <2>2, <2>6 DEF Concatenated
    <3> QED BY <2>1, <2>2, <2>6, <3>1, <3>2 DEF Concatenated
  <2>8. \A j \in 1 .. m + 2 : a[j] = semi <=> j = m + 2
    <3> TAKE j \in 1 .. m + 2
    <3>1. CASE j = 1
      BY <2>1, <2>7, <3>1, <1>1
    <3>2. CASE j \in 2 .. m + 1
      <4>1. j - 1 \in 1 .. m /\ j \in 2 .. m + 2 /\ j # m + 2
        BY <2>1, <3>2
      <4>2. a[j] = list[j - 1]
        BY <4>1, <2>5, <2>7
      <4> QED BY <4>1, <4>2, <2>3
    <3>3. CASE j = m + 2
      <4>1. j \in 2 .. m + 2 /\ j - 1 = m + 1
        BY <2>1, <3>3
      <4>2. a[j] = tail[m + 1]
        BY <4>1, <2>7
      <4> QED BY <4>2, <3>3, <2>5
    <3> QED BY <2>1, <3>1, <3>2, <3>3
  <2>9. SubSeq(a, 2, Len(a) - 1) = list
    <3>1. 1 + 1 = 2 /\ 1 + m = Len(a) - 1 /\ 1 + m <= Len(a)
      BY <2>1, <2>7
    <3>2. \A j \in 1 .. m : a[1 + j] = list[j]
      <4> TAKE j \in 1 .. m
      <4>1. 1 + j \in 2 .. m + 2 /\ 1 + j - 1 = j
        BY <2>1
      <4> QED BY <4>1, <2>5, <2>7
    <3>3. SubSeq(a, 1 + 1, 1 + m) = list
      <4>1. Len(list) = m
        BY DEF m
      <4> QED BY <2>1, <2>3, <2>7, <3>1, <3>2, <4>1, Slice
    <3> QED BY <3>1, <3>3
  <2>10. list # <<NONE>>
    <3>1. list[1] # NONE
      BY <2>1, <2>3
    <3> QED BY <3>1
  <2>11. Len(a) >= 2
    BY <2>1, <2>7
  <2> QED BY <1>3, <2>1, <2>7, <2>8, <2>9, <2>10, <2>11 DEF UIBCPartText, w, semi, a, n
<1> QED BY <1>2, <1>3

(* Four pieces one after the other.                                        *)
Joined(S, a, b, c, d, t) ==
  LET x == Len(a)
      y == x + Len(b)
      z == y + Len(c)
  IN /\ t \in Seq(S) /\ Len(t) = z + Len(d)
     /\ \A j \in 1 .. x : t[j] = a[j]
     /\ \A j \in x + 1 .. y : t[j] = b[j - x] /\ j - x \in 1 .. Len(b)
     /\ \A j \in y + 1 .. z : t[j] = c[j - y] /\ j - y \in 1 .. Len(c)
     /\ \A j \in z + 1 .. z + Len(d) : t[j] = d[j - z] /\ j - z \in 1 .. Len(d)

(* Four texts one after the other, place by place.                         *)
LEMMA JoinedPieces ==
  ASSUME NEW S, NEW a \in Seq(S), NEW b \in Seq(S), NEW c \in Seq(S), NEW d \in Seq(S)
  PROVE  Joined(S, a, b, c, d, ((a \o b) \o c) \o d)
<1> DEFINE x == Len(a)
           y == x + Len(b)
           z == y + Len(c)
           u == a \o b
           v == u \o c
           t == v \o d
<1>1. x \in Nat /\ Len(b) \in Nat /\ Len(c) \in Nat /\ Len(d) \in Nat /\ y \in Nat /\ z \in Nat
  OBVIOUS
<1>2. Concatenated(S, a, b, x, Len(b))
  BY <1>1, Concat
<1>3. u \in Seq(S) /\ Len(u) = y /\ (\A j \in 1 .. x : u[j] = a[j])
      /\ \A j \in x + 1 .. y : u[j] = b[j - x] /\ j - x \in 1 .. Len(b)
  BY <1>2 DEF Concatenated
<1> HIDE DEF u
<1>4. Concatenated(S, u, c, y, Len(c))
  BY <1>1, <1>3, Concat
<1>5. v \in Seq(S) /\ Len(v) = z /\ (\A j \in 1 .. y : v[j] = u[j])
      /\ \A j \in y + 1 .. z : v[j] = c[j - y] /\ j - y \in 1 .. Len(c)
  BY <1>4 DEF Concatenated
<1> HIDE DEF v
<1>6. Concatenated(S, v, d, z, Len(d))
  BY <1>1, <1>5, Concat
<1>7. t \in Seq(S) /\ Len(t) = z + Len(d) /\ (\A j \in 1 .. z : t[j] = v[j])
      /\ \A j \in z + 1 .. z + Len(d) : t[j] = d[j - z] /\ j - z \in 1 .. Len(d)
  BY <1>6 DEF Concatenated
<1> HIDE DEF t
<1>8. (\A j \in 1 .. x : j \in 1 .. y /\ j \in 1 .. z) /\ (\A j \in x + 1 .. y : j \in 1 .. y /\ j \in 1 .. z)
      /\ \A j \in y + 1 .. z : j \in 1 .. z
  BY <1>1
<1> HIDE DEF x, y, z
<1>9. \A j \in 1 .. x : t[j] = a[j]
  BY <1>3, <1>5, <1>7, <1>8
<1>10. \A j \in x + 1 .. y : t[j] = b[j - x] /\ j - x \in 1 .. Len(b)
  BY <1>3, <1>5, <1>7, <1>8
<1>11. \A j \in y + 1 .. z : t[j] = c[j - y] /\ j - y \in 1 .. Len(c)
  BY <1>5, <1>7, <1>8
<1> USE DEF x, y, z
<1>12. Joined(S, a, b, c, d, t)
  BY <1>7, <1>9, <1>10, <1>11 DEF Joined
<1> QED BY <1>12 DEF t, u, v

Associates(x, y, z) == (x \o y) \o z = x \o (y \o z)

(* Texts are put one after the other in any grouping.                      *)
LEMMA Association ==
  ASSUME NEW S, NEW x \in Seq(S), NEW y \in Seq(S), NEW z \in Seq(S)
  PROVE  Associates(x, y, z)
  BY ConcatAssociative DEF Associates

SevenAssociate(p, q, r, s, t, u, v) ==
  p \o q \o r \o s \o t \o u \o v = (((p \o q) \o (r \o s)) \o (t \o u)) \o v

(* The same of the seven texts of wfd_uibc_capability.                     *)
LEMMA SevenPieces ==
  ASSUME NEW S, NEW p \in Seq(S), NEW q \in Seq(S), NEW r \in Seq(S), NEW s \in Seq(S),
         NEW t \in Seq(S), NEW u \in Seq(S), NEW v \in Seq(S)
  PROVE  SevenAssociate(p, q, r, s, t, u, v)
<1> DEFINE x == p \o q
           y == x \o r \o s
<1>1. x \in Seq(S)
  BY ConcatProperties
<1> HIDE DEF x
<1>2. Associates(x, r, s)
  BY <1>1, Association
<1>3. y \in Seq(S)
  BY <1>1, ConcatProperties
<1> HIDE DEF y
<1>4. Associates(y, t, u)
  BY <1>3, Association
<1>5. x \o r \o s = x \o (r \o s)
  BY <1>2, Zenon DEF Associates
<1>6. y \o t \o u = y \o (t \o u)
  BY <1>4, Zenon DEF Associates
<1> QED BY <1>5, <1>6, Zenon DEF x, y, SevenAssociate

UIBCPort(n) == IF n > 0 THEN <<Word("port="), Dec(n)>> ELSE <<NONE>>

(* The port of wfd_uibc_capability: a number, or "none" that is not taken  *)
(* back.                                                                   *)
LEMMA UIBCPortText ==
  ASSUME NEW n \in SInt
  PROVE  /\ UIBCPort(n) \in Seq(PlainText) /\ Len(UIBCPort(n)) \in Nat \ {0}
         /\ \A j \in 1 .. Len(UIBCPort(n)) : UIBCPort(n)[j] # Word("semicolon")
         /\ Derives(<<{"port="}, {"NUM", "none"}>>, UIBCPort(n)) <=> n > 0
         /\ n > 0 => PortOf(UIBCPort(n)[2]) = Dec(n)
<1> DEFINE semi == Word("semicolon")
           A == {"port="}
           B == {"NUM", "none"}
<1>1. /\ Terminal(semi) = "semicolon"
      /\ Word("port=") \in PlainText /\ Terminal(Word("port=")) = "port="
      /\ NONE \in PlainText /\ Terminal(NONE) = "none"
  BY WordTokens, WordSets, NoneTokens
<1> HIDE DEF semi
<1>2. CASE n > 0
  <2>1. n \in Nat
    BY <1>2, Ranges
  <2>2. Dec(n) \in PlainText /\ Terminal(Dec(n)) = "NUM" /\ Dec(n) # NONE /\ AsInt(Dec(n)) = n
    BY <2>1, DecTokens, Converted
  <2>3. Terminal(Word("port=")) \in A /\ Terminal(Dec(n)) \in B
    BY <1>1, <2>2
  <2> HIDE DEF A, B
  <2>4. UIBCPort(n) = <<Word("port="), Dec(n)>>
    BY <1>2 DEF UIBCPort
  <2>5. Derives(<<A, B>>, <<Word("port="), Dec(n)>>)
    BY <2>3, TwoTokens
  <2>6. PortOf(Dec(n)) = Dec(n)
    BY <2>2 DEF PortOf
  <2>7. /\ UIBCPort(n) \in Seq(PlainText) /\ Len(UIBCPort(n)) = 2
        /\ UIBCPort(n)[1] = Word("port=") /\ UIBCPort(n)[2] = Dec(n)
    BY <1>1, <2>2, <2>4
  <2>8. \A j \in 1 .. 2 : UIBCPort(n)[j] # semi
    <3>1. Word("port=") # semi /\ Dec(n) # semi
      BY <1>1, <2>2
    <3>2. \A j \in 1 .. 2 : j = 1 \/ j = 2
      OBVIOUS
    <3> QED BY <2>7, <3>1, <3>2
  <2> QED BY <1>2, <2>4, <2>5, <2>6, <2>7, <2>8 DEF A, B, semi
<1>3. CASE ~(n > 0)
  <2>1. UIBCPort(n) = <<NONE>>
    BY <1>3 DEF UIBCPort
  <2>2. Len(<<A, B>>) # 1
    OBVIOUS
  <2>3. ~Derives(<<A, B>>, <<NONE>>)
    BY <2>2, NoneDerives
  <2>4. UIBCPort(n) \in Seq(PlainText) /\ Len(UIBCPort(n)) = 1 /\ UIBCPort(n)[1] = NONE
    BY <2>1, <1>1
  <2>5. \A j \in 1 .. 1 : UIBCPort(n)[j] # semi
    <3>1. NONE # semi
      BY <1>1
    <3> QED BY <2>4, <3>1
  <2> QED BY <1>3, <2>1, <2>3, <2>4, <2>5 DEF semi
<1> QED BY <1>2, <1>3

(* The text of the property, and where its semicolons are.                 *)
UIBCText(lists, n) ==
  (((UIBCPart(1, lists[1]) \o UIBCPart(2, lists[2])) \o UIBCPart(3, lists[3]))) \o UIBCPort(n)

(* The text of wfd_uibc_capability is its three lists and its port.        *)
LEMMA UIBCTextOf ==
  ASSUME NEW lists \in HeldUIBCLists, NEW n \in SInt,
         NEW p, p = UIBCCapability(lists, Dec(n))
  PROVE  UIBCCapabilityToString(p) = UIBCText(lists, n)
<1>1. PICK a \in Seq(UIBCItems(1)), b \in Seq(UIBCItems(2)), c \in Seq(UIBCItems(3)) : lists = <<a, b, c>>
  BY DEF HeldUIBCLists
<1>2. p.none = FALSE /\ p.lists = lists /\ p.members = <<Dec(n)>> /\ p.members[1] = Dec(n)
  BY DEF UIBCCapability, Property
<1>3. p.members[1].dec = n
  <2>1. Dec(n).dec = n
    BY Tokens
  <2> QED BY <1>2, <2>1
<1> DEFINE x == UIBCListToString(1, lists[1])
           y == UIBCListToString(2, lists[2])
           z == UIBCListToString(3, lists[3])
           u == <<Word("input_category_list=")>>
           v == <<Word("generic_cap_list=")>>
           w == <<Word("hidc_cap_list=")>>
           r == UIBCPort(n)
<1>4. UIBCCapabilityToString(p) = u \o x \o v \o y \o w \o z \o r
  <2>1. r = IF p.members[1].dec > 0 THEN <<Word("port="), p.members[1]>> ELSE <<NONE>>
    BY <1>2, <1>3 DEF UIBCPort
  <2> HIDE DEF r
  <2> QED BY <1>2, <2>1, Zenon DEF UIBCCapabilityToString
<1>5. UIBCPart(1, lists[1]) = u \o x /\ UIBCPart(2, lists[2]) = v \o y /\ UIBCPart(3, lists[3]) = w \o z
  BY DEF UIBCPart, UIBCWords
<1>6. u \in Seq(PlainText) /\ v \in Seq(PlainText) /\ w \in Seq(PlainText) /\ r \in Seq(PlainText)
  BY WordTokens, WordSets, UIBCPortText
<1>7. x \in Seq(PlainText) /\ y \in Seq(PlainText) /\ z \in Seq(PlainText)
  <2>1. ASSUME NEW i \in 1 .. 3, NEW items \in Seq(UIBCItems(i))
        PROVE  UIBCListToString(i, items) \in Seq(PlainText)
    <3>1. CASE items = <<>>
      BY <3>1, NoneTokens DEF UIBCListToString
    <3>2. CASE items # <<>>
      <4> DEFINE list == Listed(Len(UIBCLists[i]), items)
                 semi == Word("semicolon")
      <4>1. list \in Seq(ListText) /\ Len(list) \in Nat
        BY <3>2, UIBCListIsReadBack
      <4> HIDE DEF list, semi
      <4>2. \A j \in 1 .. Len(list) : list[j] \in PlainText
        <5>1. \A j \in 1 .. Len(list) : list[j] \in ListText
          BY <4>1
        <5> QED BY <5>1, ListWordTokens
      <4>3. list = [j \in 1 .. Len(list) |-> list[j]]
        BY <4>1, LenProperties
      <4>0. Len(list) \in Nat
        BY <4>1
      <4>4. list \in Seq(PlainText)
        BY <4>0, <4>2, <4>3
      <4>5. semi \in PlainText
        BY WordTokens, WordSets DEF semi
      <4>6. <<semi>> \in Seq(PlainText)
        BY <4>5
      <4>7. list \o <<semi>> \in Seq(PlainText)
        BY <4>4, <4>6, ConcatProperties
      <4> QED BY <3>2, <4>7 DEF UIBCListToString, list, semi
    <3> QED BY <3>1, <3>2
  <2>2. lists[1] = a /\ lists[2] = b /\ lists[3] = c /\ 1 \in 1 .. 3 /\ 2 \in 1 .. 3 /\ 3 \in 1 .. 3
    BY <1>1
  <2>3. x \in Seq(PlainText)
    BY <2>1, <2>2
  <2>4. y \in Seq(PlainText)
    BY <2>1, <2>2
  <2>5. z \in Seq(PlainText)
    BY <2>1, <2>2
  <2> QED BY <2>3, <2>4, <2>5
<1> HIDE DEF x, y, z, u, v, w, r
<1>9. SevenAssociate(u, x, v, y, w, z, r)
  BY <1>6, <1>7, SevenPieces
<1>8. u \o x \o v \o y \o w \o z \o r = (((u \o x) \o (v \o y)) \o (w \o z)) \o r
  BY <1>9, Zenon DEF SevenAssociate
<1> QED BY <1>4, <1>5, <1>8 DEF UIBCText, r

(* A piece of a text, and what is between its first and its last token.    *)
PieceAt(t, k, a) == k + Len(a) <= Len(t) /\ \A j \in 1 .. Len(a) : t[k + j] = a[j]

InnerPiece(t, k, a) ==
  /\ t[k + 1] = a[1]
  /\ SubSeq(t, k + 2, k + Len(a) - 1) = SubSeq(a, 2, Len(a) - 1)

(* What is between the first and the last token of a piece.                *)
LEMMA Inner ==
  ASSUME NEW S, NEW t \in Seq(S), NEW a \in Seq(S), NEW k \in Nat, Len(a) >= 2, PieceAt(t, k, a)
  PROVE  InnerPiece(t, k, a)
<1>1. /\ k + Len(a) <= Len(t) /\ \A j \in 1 .. Len(a) : t[k + j] = a[j]
  BY DEF PieceAt
<1>2. t[k + 1] = a[1]
  BY <1>1
<1> DEFINE n == Len(a) - 2
           f == k + 1
           inner == SubSeq(a, 2, Len(a) - 1)
<1>3. n \in Nat /\ 1 + n <= Len(a) /\ 1 + 1 = 2 /\ 1 + n = Len(a) - 1
  OBVIOUS
<1>4. /\ SubSeq(a, 1 + 1, 1 + n) \in Seq(S) /\ Len(SubSeq(a, 1 + 1, 1 + n)) = n
      /\ \A j \in 1 .. n : SubSeq(a, 1 + 1, 1 + n)[j] = a[1 + j]
  BY <1>3, SliceTokens
<1>5. inner = SubSeq(a, 1 + 1, 1 + n)
  BY <1>3
<1>6. inner \in Seq(S) /\ Len(inner) = n /\ \A j \in 1 .. n : inner[j] = a[1 + j]
  BY <1>4, <1>5
<1> HIDE DEF inner
<1>7. f \in Nat /\ f + n <= Len(t) /\ f + 1 = k + 2 /\ f + n = k + Len(a) - 1
  BY <1>1, <1>3
<1>8. \A j \in 1 .. n : t[f + j] = inner[j]
  <2> TAKE j \in 1 .. n
  <2>1. 1 + j \in 1 .. Len(a) /\ f + j = k + (1 + j)
    BY <1>3
  <2> QED BY <1>1, <1>6, <2>1
<1>9. SubSeq(t, f + 1, f + n) = inner
  <2> HIDE DEF f, n
  <2> QED BY <1>3, <1>6, <1>7, <1>8, Slice
<1>10. SubSeq(t, k + 2, k + Len(a) - 1) = inner
  <2> HIDE DEF f, n
  <2> QED BY <1>7, <1>9
<1> QED BY <1>2, <1>10 DEF InnerPiece, inner

(* A piece is where its tokens are.                                        *)
LEMMA PieceFrom ==
  ASSUME NEW S, NEW t \in Seq(S), NEW a \in Seq(S), NEW x \in Nat, NEW y,
         y = x + Len(a), y <= Len(t), \A j \in x + 1 .. y : t[j] = a[j - x]
  PROVE  PieceAt(t, x, a)
<1>1. ASSUME NEW j \in 1 .. Len(a) PROVE t[x + j] = a[j]
  <2> DEFINE i == x + j
  <2>1. i \in x + 1 .. y /\ i - x = j
    OBVIOUS
  <2> HIDE DEF i
  <2>2. t[i] = a[i - x]
    BY <2>1
  <2>3. t[i] = a[j]
    BY <2>1, <2>2
  <2> QED BY <2>3 DEF i
<1> QED BY <1>1 DEF PieceAt

(* Where each of four texts put together begins.                           *)
LEMMA JoinedAt ==
  ASSUME NEW S, NEW a \in Seq(S), NEW b \in Seq(S), NEW c \in Seq(S), NEW d \in Seq(S),
         NEW t, Joined(S, a, b, c, d, t)
  PROVE  /\ PieceAt(t, 0, a) /\ PieceAt(t, Len(a), b) /\ PieceAt(t, Len(a) + Len(b), c)
         /\ PieceAt(t, Len(a) + Len(b) + Len(c), d)
<1> DEFINE x == Len(a)
           y == x + Len(b)
           z == y + Len(c)
           e == z + Len(d)
<1>1. /\ t \in Seq(S) /\ Len(t) = e
      /\ \A j \in 1 .. x : t[j] = a[j]
      /\ \A j \in x + 1 .. y : t[j] = b[j - x]
      /\ \A j \in y + 1 .. z : t[j] = c[j - y]
      /\ \A j \in z + 1 .. e : t[j] = d[j - z]
  BY DEF Joined
<1>2. x \in Nat /\ y \in Nat /\ z \in Nat /\ e \in Nat /\ x <= e /\ y <= e /\ z <= e /\ e <= Len(t)
  BY <1>1
<1>3. PieceAt(t, 0, a)
  BY <1>1, <1>2 DEF PieceAt
<1>7. y = x + Len(b) /\ z = y + Len(c) /\ e = z + Len(d)
  OBVIOUS
<1> HIDE DEF x, y, z, e
<1>4. PieceAt(t, x, b)
  BY <1>1, <1>2, <1>7, PieceFrom
<1>5. PieceAt(t, y, c)
  BY <1>1, <1>2, <1>7, PieceFrom
<1>6. PieceAt(t, z, d)
  BY <1>1, <1>2, <1>7, PieceFrom
<1> QED BY <1>3, <1>4, <1>5, <1>6 DEF x, y, z

(* Where the lists of a printed property end.                              *)
SemicolonsAt(t, ends, lists, x, y, z, n) ==
  /\ x \in Nat /\ y \in Nat /\ z \in Nat /\ 2 <= x /\ x < y /\ y < z /\ z < Len(t)
  /\ t \in Seq(PlainText) /\ Len(t) \in Nat
  /\ \A j \in DOMAIN t : j \in ends <=> \/ j = x /\ lists[1] # <<>>
                                        \/ j = y /\ lists[2] # <<>>
                                        \/ j = z /\ lists[3] # <<>>
  /\ PieceAt(t, 0, UIBCPart(1, lists[1])) /\ Len(UIBCPart(1, lists[1])) = x
  /\ PieceAt(t, x, UIBCPart(2, lists[2])) /\ x + Len(UIBCPart(2, lists[2])) = y
  /\ PieceAt(t, y, UIBCPart(3, lists[3])) /\ y + Len(UIBCPart(3, lists[3])) = z
  /\ PieceAt(t, z, UIBCPort(n)) /\ Len(t) = z + Len(UIBCPort(n))

Semicolons(t) == {i \in DOMAIN t : t[i] = Word("semicolon")}

(* The three lists of wfd_uibc_capability hold their items.                *)
LEMMA HeldLists ==
  ASSUME NEW lists \in HeldUIBCLists
  PROVE  \A i \in 1 .. 3 : lists[i] \in Seq(UIBCItems(i))
<1>1. PICK a \in Seq(UIBCItems(1)), b \in Seq(UIBCItems(2)), c \in Seq(UIBCItems(3)) : lists = <<a, b, c>>
  BY DEF HeldUIBCLists
<1>2. lists[1] = a /\ lists[2] = b /\ lists[3] = c
  BY <1>1
<1>3. \A i \in 1 .. 3 : i = 1 \/ i = 2 \/ i = 3
  OBVIOUS
<1> QED BY <1>2, <1>3

(* The semicolons of the text are the ends of its three lists.             *)
LEMMA UIBCSemicolons ==
  ASSUME NEW lists \in HeldUIBCLists, NEW n \in SInt
  PROVE  LET t == UIBCText(lists, n)
         IN \E x, y, z \in Nat : SemicolonsAt(t, Semicolons(t), lists, x, y, z, n)
<1> DEFINE semi == Word("semicolon")
           a == UIBCPart(1, lists[1])
           b == UIBCPart(2, lists[2])
           c == UIBCPart(3, lists[3])
           d == UIBCPort(n)
           t == UIBCText(lists, n)
           x == Len(a)
           y == x + Len(b)
           z == y + Len(c)
<1>1. lists[1] \in Seq(UIBCItems(1)) /\ lists[2] \in Seq(UIBCItems(2)) /\ lists[3] \in Seq(UIBCItems(3))
  BY HeldLists
<1>2. UIBCPartText(1, lists[1], a)
  BY <1>1, UIBCPartIsReadBack
<1>3. UIBCPartText(2, lists[2], b)
  BY <1>1, UIBCPartIsReadBack
<1>4. UIBCPartText(3, lists[3], c)
  BY <1>1, UIBCPartIsReadBack
<1>5. /\ a \in Seq(PlainText) /\ Len(a) >= 2
      /\ \A j \in 1 .. Len(a) : a[j] = semi <=> (j = Len(a) /\ lists[1] # <<>>)
  BY <1>2 DEF UIBCPartText
<1>6. /\ b \in Seq(PlainText) /\ Len(b) >= 2
      /\ \A j \in 1 .. Len(b) : b[j] = semi <=> (j = Len(b) /\ lists[2] # <<>>)
  BY <1>3 DEF UIBCPartText
<1>7. /\ c \in Seq(PlainText) /\ Len(c) >= 2
      /\ \A j \in 1 .. Len(c) : c[j] = semi <=> (j = Len(c) /\ lists[3] # <<>>)
  BY <1>4 DEF UIBCPartText
<1>8. d \in Seq(PlainText) /\ Len(d) \in Nat \ {0} /\ \A j \in 1 .. Len(d) : d[j] # semi
  BY UIBCPortText
<1>9. t = ((a \o b) \o c) \o d
  BY DEF UIBCText
<1> HIDE DEF semi, a, b, c, d, t
<1>10. Joined(PlainText, a, b, c, d, t)
  BY <1>5, <1>6, <1>7, <1>8, <1>9, JoinedPieces
<1>11. /\ PieceAt(t, 0, a) /\ PieceAt(t, x, b) /\ PieceAt(t, y, c) /\ PieceAt(t, z, d)
  BY <1>5, <1>6, <1>7, <1>8, <1>10, JoinedAt
<1>12. /\ x \in Nat /\ y \in Nat /\ z \in Nat /\ Len(d) \in Nat \ {0} /\ 2 <= x /\ x + 2 <= y /\ y + 2 <= z
       /\ y - x = Len(b) /\ z - y = Len(c)
  BY <1>5, <1>6, <1>7, <1>8
<1>13. /\ t \in Seq(PlainText) /\ Len(t) = z + Len(d)
       /\ \A j \in 1 .. x : t[j] = a[j]
       /\ \A j \in x + 1 .. y : t[j] = b[j - x] /\ j - x \in 1 .. Len(b)
       /\ \A j \in y + 1 .. z : t[j] = c[j - y] /\ j - y \in 1 .. Len(c)
       /\ \A j \in z + 1 .. z + Len(d) : t[j] = d[j - z] /\ j - z \in 1 .. Len(d)
  BY <1>10 DEF Joined
<1>19. x = Len(a)
  OBVIOUS
<1> HIDE DEF x, y, z
<1>14. ASSUME NEW j \in DOMAIN t
       PROVE  t[j] = semi <=> \/ j = x /\ lists[1] # <<>>
                              \/ j = y /\ lists[2] # <<>>
                              \/ j = z /\ lists[3] # <<>>
  <2>1. j \in 1 .. z + Len(d)
    BY <1>13
  <2>2. CASE j \in 1 .. x
    BY <1>5, <1>12, <1>13, <1>19, <2>2
  <2>3. CASE j \in x + 1 .. y
    <3>1. t[j] = b[j - x] /\ j - x \in 1 .. Len(b) /\ (j - x = Len(b) <=> j = y) /\ j # x /\ j # z
      BY SMTT(30), <1>12, <1>13, <2>3
    <3> QED BY <1>6, <3>1
  <2>4. CASE j \in y + 1 .. z
    <3>1. t[j] = c[j - y] /\ j - y \in 1 .. Len(c) /\ (j - y = Len(c) <=> j = z) /\ j # x /\ j # y
      BY <1>12, <1>13, <2>4
    <3> QED BY <1>7, <3>1
  <2>5. CASE j \in z + 1 .. z + Len(d)
    <3>1. t[j] = d[j - z] /\ j - z \in 1 .. Len(d) /\ j # x /\ j # y /\ j # z
      BY <1>12, <1>13, <2>5
    <3> QED BY <1>8, <3>1
  <2> QED BY <1>12, <2>1, <2>2, <2>3, <2>4, <2>5
<1>15. x < y /\ y < z /\ z < Len(t) /\ Len(t) \in Nat
  BY <1>12, <1>13
<1>16. \A j \in DOMAIN t : j \in Semicolons(t) <=> t[j] = semi
  BY DEF Semicolons, semi
<1>17. x + Len(b) = y /\ y + Len(c) = z
  BY DEF x, y, z
<1>18. SemicolonsAt(t, Semicolons(t), lists, x, y, z, n)
  BY <1>11, <1>12, <1>13, <1>14, <1>15, <1>16, <1>17, <1>19 DEF SemicolonsAt, a, b, c, d
<1> QED BY <1>12, <1>18 DEF t

(* Three semicolons are in one order.                                      *)
LEMMA OneOrder ==
  ASSUME NEW t, NEW lists, NEW n, NEW x \in Nat, NEW y \in Nat, NEW z \in Nat,
         SemicolonsAt(t, Semicolons(t), lists, x, y, z, n)
  PROVE  \A e : e \in Ascending(Semicolons(t)) <=>
                  e = <<x, y, z>> /\ lists[1] # <<>> /\ lists[2] # <<>> /\ lists[3] # <<>>
<1> DEFINE ends == Semicolons(t)
           whole == lists[1] # <<>> /\ lists[2] # <<>> /\ lists[3] # <<>>
<1>1. DOMAIN t = 1 .. Len(t) /\ Len(t) \in Nat /\ 2 <= x /\ x < y /\ y < z /\ z < Len(t)
  BY DEF SemicolonsAt
<1>2. \A j \in DOMAIN t : j \in ends <=> \/ j = x /\ lists[1] # <<>>
                                         \/ j = y /\ lists[2] # <<>>
                                         \/ j = z /\ lists[3] # <<>>
  BY DEF SemicolonsAt
<1>3. \A j \in ends : j \in DOMAIN t
  BY DEF Semicolons
<1>4. x \in DOMAIN t /\ y \in DOMAIN t /\ z \in DOMAIN t
  BY <1>1
<1> HIDE DEF ends
<1>5. /\ x \in ends <=> lists[1] # <<>>
      /\ y \in ends <=> lists[2] # <<>>
      /\ z \in ends <=> lists[3] # <<>>
      /\ \A j \in ends : j = x \/ j = y \/ j = z
  BY <1>1, <1>2, <1>3, <1>4
<1>6. ASSUME NEW e \in Ascending(ends)
      PROVE  e = <<x, y, z>> /\ whole
  <2>1. /\ e \in ends \X ends \X ends
        /\ e[1] < e[2] /\ e[2] < e[3] /\ ends = {e[1], e[2], e[3]}
    BY DEF Ascending
  <2>2. e = <<e[1], e[2], e[3]>> /\ e[1] \in ends /\ e[2] \in ends /\ e[3] \in ends
    BY <2>1
  <2>3. /\ e[1] = x \/ e[1] = y \/ e[1] = z
        /\ e[2] = x \/ e[2] = y \/ e[2] = z
        /\ e[3] = x \/ e[3] = y \/ e[3] = z
    BY <1>5, <2>2
  <2>4. e[1] = x /\ e[2] = y /\ e[3] = z
    BY <1>1, <2>1, <2>3
  <2>5. e = <<x, y, z>>
    BY <2>2, <2>4
  <2> QED BY <1>5, <2>2, <2>4, <2>5
<1>7. ASSUME whole PROVE <<x, y, z>> \in Ascending(ends)
  <2>1. x \in ends /\ y \in ends /\ z \in ends
    BY <1>5, <1>7
  <2>2. ends = {x, y, z}
    BY <1>5, <2>1
  <2>3. <<x, y, z>> \in ends \X ends \X ends
    BY <2>1
  <2>4. <<x, y, z>>[1] = x /\ <<x, y, z>>[2] = y /\ <<x, y, z>>[3] = z
    OBVIOUS
  <2> QED BY <1>1, <2>2, <2>3, <2>4 DEF Ascending
<1> QED BY <1>6, <1>7 DEF ends

(* A list that is there, read from the tokens k + 1 .. e of a text.        *)
UIBCListAt(i, items, t, k, e) ==
  /\ t[k + 1] = Word(UIBCWords[i])
  /\ IsList(UIBCLists[i], SubSeq(t, k + 2, e - 1))
  /\ UIBCList(i, SubSeq(t, k + 2, e - 1)) = items

(* A list is read from its piece of the text.                              *)
LEMMA UIBCPieceRead ==
  ASSUME NEW i \in 1 .. 3, NEW items \in Seq(UIBCItems(i)), items # <<>>,
         NEW t \in Seq(PlainText), NEW k \in Nat, NEW e,
         PieceAt(t, k, UIBCPart(i, items)), k + Len(UIBCPart(i, items)) = e
  PROVE  UIBCListAt(i, items, t, k, e)
<1> DEFINE a == UIBCPart(i, items)
           inner == SubSeq(a, 2, Len(a) - 1)
<1>1. UIBCPartText(i, items, a)
  BY UIBCPartIsReadBack
<1>2. /\ a \in Seq(PlainText) /\ Len(a) >= 2 /\ a[1] = Word(UIBCWords[i])
      /\ inner # <<NONE>> /\ IsList(UIBCLists[i], inner)
      /\ Items(Len(UIBCLists[i]), inner) = items
  BY <1>1 DEF UIBCPartText
<1>3. PieceAt(t, k, a) /\ k + Len(a) = e
  OBVIOUS
<1> HIDE DEF a
<1>4. InnerPiece(t, k, a)
  BY <1>2, <1>3, Inner
<1>5. t[k + 1] = a[1] /\ SubSeq(t, k + 2, e - 1) = inner
  BY SMTT(30), <1>3, <1>4 DEF InnerPiece
<1> HIDE DEF inner
<1>6. UIBCList(i, inner) = items
  BY <1>2 DEF UIBCList
<1> QED BY <1>2, <1>5, <1>6 DEF UIBCListAt

UIBCListsAre(t, cut, lists) ==
  LET part == [i \in 1 .. 3 |-> SubSeq(t, cut[i] + 2, cut[i + 1] - 1)]
  IN /\ \A i \in 1 .. 3 : /\ t[cut[i] + 1] = Word(UIBCWords[i])
                          /\ part[i] = <<NONE>> \/ IsList(UIBCLists[i], part[i])
     /\ [i \in 1 .. 3 |-> UIBCList(i, part[i])] = lists

(* The three lists are read from the pieces between the semicolons.        *)
LEMMA UIBCListsRead ==
  ASSUME NEW lists \in HeldUIBCLists, lists[1] # <<>>, lists[2] # <<>>, lists[3] # <<>>,
         NEW n, NEW t, NEW x \in Nat, NEW y \in Nat, NEW z \in Nat,
         SemicolonsAt(t, Semicolons(t), lists, x, y, z, n)
  PROVE  UIBCListsAre(t, <<0, x, y, z>>, lists)
<1> DEFINE cut == <<0, x, y, z>>
           part == [i \in 1 .. 3 |-> SubSeq(t, cut[i] + 2, cut[i + 1] - 1)]
           f == [i \in 1 .. 3 |-> UIBCList(i, part[i])]
<1>1. /\ t \in Seq(PlainText)
      /\ PieceAt(t, 0, UIBCPart(1, lists[1])) /\ 0 + Len(UIBCPart(1, lists[1])) = x
      /\ PieceAt(t, x, UIBCPart(2, lists[2])) /\ x + Len(UIBCPart(2, lists[2])) = y
      /\ PieceAt(t, y, UIBCPart(3, lists[3])) /\ y + Len(UIBCPart(3, lists[3])) = z
  <2>1. Len(UIBCPart(1, lists[1])) = x
    BY DEF SemicolonsAt
  <2>2. 0 + x = x
    OBVIOUS
  <2> QED BY <2>1, <2>2 DEF SemicolonsAt
<1>2. lists[1] \in Seq(UIBCItems(1)) /\ lists[2] \in Seq(UIBCItems(2)) /\ lists[3] \in Seq(UIBCItems(3))
  BY HeldLists
<1>3. 1 \in 1 .. 3 /\ 2 \in 1 .. 3 /\ 3 \in 1 .. 3 /\ 0 \in Nat
  OBVIOUS
<1>4. UIBCListAt(1, lists[1], t, 0, x)
  BY <1>1, <1>2, <1>3, UIBCPieceRead
<1>5. UIBCListAt(2, lists[2], t, x, y)
  BY <1>1, <1>2, <1>3, UIBCPieceRead
<1>6. UIBCListAt(3, lists[3], t, y, z)
  BY <1>1, <1>2, <1>3, UIBCPieceRead
<1>7. cut[1] = 0 /\ cut[2] = x /\ cut[3] = y /\ cut[4] = z
  OBVIOUS
<1>8. \A i \in 1 .. 3 : UIBCListAt(i, lists[i], t, cut[i], cut[i + 1])
  <2>1. cut[1 + 1] = x /\ cut[2 + 1] = y /\ cut[3 + 1] = z
    BY <1>7
  <2> HIDE DEF cut
  <2>2. \A i \in 1 .. 3 : i = 1 \/ i = 2 \/ i = 3
    OBVIOUS
  <2> QED BY <1>4, <1>5, <1>6, <1>7, <2>1, <2>2
<1> HIDE DEF cut
<1>9. ASSUME NEW i \in 1 .. 3
      PROVE  /\ t[cut[i] + 1] = Word(UIBCWords[i]) /\ IsList(UIBCLists[i], part[i])
             /\ UIBCList(i, part[i]) = lists[i]
  <2>1. part[i] = SubSeq(t, cut[i] + 2, cut[i + 1] - 1)
    OBVIOUS
  <2>2. UIBCListAt(i, lists[i], t, cut[i], cut[i + 1])
    BY <1>8
  <2> HIDE DEF part
  <2> QED BY <2>1, <2>2 DEF UIBCListAt
<1> HIDE DEF part
<1>10. f = lists
  <2>1. PICK a \in Seq(UIBCItems(1)), b \in Seq(UIBCItems(2)), c \in Seq(UIBCItems(3)) : lists = <<a, b, c>>
    BY DEF HeldUIBCLists
  <2> DEFINE S == {a, b, c}
  <2>2. lists \in Seq(S) /\ Len(lists) = 3 /\ \A i \in 1 .. 3 : lists[i] \in S
    BY <2>1
  <2> HIDE DEF S
  <2>3. \A i \in 1 .. 3 : f[i] = lists[i]
    BY <1>9
  <2>4. f = [i \in 1 .. 3 |-> f[i]]
    OBVIOUS
  <2> HIDE DEF f
  <2>5. f \in Seq(S) /\ Len(f) = 3
    BY <2>2, <2>3, <2>4
  <2> QED BY <2>2, <2>3, <2>5, SeqEqual
<1>11. \A i \in 1 .. 3 : /\ t[cut[i] + 1] = Word(UIBCWords[i])
                         /\ part[i] = <<NONE>> \/ IsList(UIBCLists[i], part[i])
  BY <1>9
<1>12. UIBCListsAre(t, cut, lists)
  BY <1>10, <1>11, Zenon DEF UIBCListsAre, part, f
<1> QED BY <1>12 DEF cut

(* The whole text is read, if no list is empty and there is a port.        *)
LEMMA UIBCWholeRead ==
  ASSUME NEW lists \in HeldUIBCLists, lists[1] # <<>>, lists[2] # <<>>, lists[3] # <<>>,
         NEW n \in SInt, NEW t, NEW x \in Nat, NEW y \in Nat, NEW z \in Nat,
         SemicolonsAt(t, Semicolons(t), lists, x, y, z, n)
  PROVE  ReadUIBCLists(t, <<0, x, y, z>>) = When(n > 0, UIBCCapability(lists, Dec(n)))
<1> DEFINE cut == <<0, x, y, z>>
           part == [i \in 1 .. 3 |-> SubSeq(t, cut[i] + 2, cut[i + 1] - 1)]
           f == [i \in 1 .. 3 |-> UIBCList(i, part[i])]
           last == SubSeq(t, cut[4] + 1, Len(t))
           P == <<{"port="}, {"NUM", "none"}>>
           found == \A i \in 1 .. 3 : /\ t[cut[i] + 1] = Word(UIBCWords[i])
                                      /\ part[i] = <<NONE>> \/ IsList(UIBCLists[i], part[i])
<1>1. UIBCListsAre(t, cut, lists)
  BY UIBCListsRead
<1>2. found /\ f = lists
  BY <1>1, Zenon DEF UIBCListsAre
<1>3. ReadUIBCLists(t, cut) = When(found /\ Derives(P, last), UIBCCapability(f, PortOf(last[2])))
  BY Zenon DEF ReadUIBCLists
<1>4. last = UIBCPort(n)
  <2>1. /\ t \in Seq(PlainText) /\ Len(t) \in Nat
        /\ PieceAt(t, z, UIBCPort(n)) /\ Len(t) = z + Len(UIBCPort(n))
    BY DEF SemicolonsAt
  <2>2. UIBCPort(n) \in Seq(PlainText) /\ Len(UIBCPort(n)) \in Nat
    BY UIBCPortText
  <2>3. \A j \in 1 .. Len(UIBCPort(n)) : t[z + j] = UIBCPort(n)[j]
    BY <2>1 DEF PieceAt
  <2>4. cut[4] = z
    OBVIOUS
  <2> DEFINE b == UIBCPort(n)
             m == Len(b)
  <2>5. m \in Nat /\ z + m = Len(t) /\ z + m <= Len(t) /\ Len(b) = m /\ b \in Seq(PlainText)
    BY <2>1, <2>2
  <2>7. \A j \in 1 .. m : t[z + j] = b[j]
    BY <2>3
  <2> HIDE DEF cut, b, m
  <2>6. SubSeq(t, z + 1, z + m) = b
    <3>1. t \in Seq(PlainText)
      BY <2>1
    <3> QED BY <2>5, <2>7, <3>1, Slice, ZenonT(30)
  <2>8. last = SubSeq(t, z + 1, z + m)
    BY <2>4, <2>5
  <2>9. last = b
    BY <2>6, <2>8
  <2> QED BY <2>9 DEF b
<1> HIDE DEF found, f, last, cut
<1>5. Derives(P, last) <=> n > 0
  BY <1>4, UIBCPortText
<1> HIDE DEF P
<1>6. CASE n > 0
  <2>1. PortOf(last[2]) = Dec(n)
    BY <1>4, <1>6, UIBCPortText
  <2> QED BY <1>2, <1>3, <1>5, <1>6, <2>1 DEF When, cut
<1>7. CASE ~(n > 0)
  BY <1>3, <1>5, <1>7 DEF When, cut
<1> QED BY <1>6, <1>7

(* Nothing else can be read from the text of wfd_uibc_capability.          *)
THEOREM UIBCTextRead ==
  ASSUME NEW lists \in HeldUIBCLists, NEW n \in SInt, NEW p, p = UIBCCapability(lists, Dec(n))
  PROVE  LET t == UIBCText(lists, n)
             whole == lists[1] # <<>> /\ lists[2] # <<>> /\ lists[3] # <<>> /\ n > 0
         IN /\ t \in Seq(PlainText)
            /\ \A q \in ReadUIBCCapability(t) : q = p /\ whole
            /\ whole => p \in ReadUIBCCapability(t)
<1> DEFINE t == UIBCText(lists, n)
           ends == Semicolons(t)
           listed == lists[1] # <<>> /\ lists[2] # <<>> /\ lists[3] # <<>>
           Read(e) == ReadUIBCLists(t, <<0, e[1], e[2], e[3]>>)
<1>1. PICK x \in Nat, y \in Nat, z \in Nat : SemicolonsAt(t, Semicolons(t), lists, x, y, z, n)
  BY UIBCSemicolons
<1> HIDE DEF t
<1>2. t \in Seq(PlainText) /\ Len(t) # 1
  BY <1>1 DEF SemicolonsAt
<1>3. NoneIf(t, "wfd_uibc_capability") = {}
  <2>1. Len(<<NONE>>) = 1
    OBVIOUS
  <2>2. t # <<NONE>>
    BY <1>2, <2>1
  <2> QED BY <2>2 DEF NoneIf, When
<1>4. ReadUIBCCapability(t) = UNION {Read(e) : e \in Ascending(ends)}
  <2>1. ReadUIBCCapability(t) = NoneIf(t, "wfd_uibc_capability") \cup UNION {Read(e) : e \in Ascending(ends)}
    BY Zenon DEF ReadUIBCCapability, Semicolons
  <2> HIDE DEF Read, ends
  <2> QED BY <1>3, <2>1
<1>5. \A e : e \in Ascending(ends) <=> e = <<x, y, z>> /\ listed
  BY <1>1, OneOrder
<1>6. listed => Read(<<x, y, z>>) = When(n > 0, p)
  <2>1. <<x, y, z>>[1] = x /\ <<x, y, z>>[2] = y /\ <<x, y, z>>[3] = z
    OBVIOUS
  <2>2. Read(<<x, y, z>>) = ReadUIBCLists(t, <<0, x, y, z>>)
    BY <2>1, Zenon
  <2>3. listed => ReadUIBCLists(t, <<0, x, y, z>>) = When(n > 0, p)
    BY <1>1, UIBCWholeRead
  <2> QED BY <2>2, <2>3
<1> HIDE DEF Read, ends, listed
<1>7. ASSUME NEW q \in ReadUIBCCapability(t) PROVE q = p /\ listed /\ n > 0
  <2>1. PICK e \in Ascending(ends) : q \in Read(e)
    BY <1>4
  <2>2. e = <<x, y, z>> /\ listed
    BY <1>5, <2>1
  <2>3. q \in When(n > 0, p)
    BY <1>6, <2>1, <2>2
  <2> QED BY <2>2, <2>3 DEF When
<1>8. listed /\ n > 0 => p \in ReadUIBCCapability(t)
  <2> SUFFICES ASSUME listed, n > 0 PROVE p \in ReadUIBCCapability(t)
    OBVIOUS
  <2>1. <<x, y, z>> \in Ascending(ends)
    BY <1>5
  <2>2. p \in Read(<<x, y, z>>)
    BY <1>6 DEF When
  <2> QED BY <1>4, <2>1, <2>2
<1> QED BY <1>2, <1>7, <1>8 DEF t, listed

(* wfd_uibc_capability is read back.                                       *)
LEMMA UIBCCapabilityIsReadBack ==
  ASSUME NEW p \in HeldUIBCCapability
  PROVE  PropertyIsReadBack(HeldUIBCCapability, p)
<1> DEFINE type == "wfd_uibc_capability"
           v == UIBCCapabilityToString(p)
           read == ReadUIBCCapability(v)
<1>1. CASE p = NoneProperty(type)
  <2>1. p.type = type /\ p.none = TRUE
    BY <1>1 DEF NoneProperty
  <2>2. v = <<NONE>> /\ v \in Seq(PlainText)
    BY <2>1, NoneText DEF UIBCCapabilityToString
  <2>3. PropertyToString(p) = v /\ ReadProperty(p.type, v) = read
    BY <2>1, PropertyTexts, PropertyReaders
  <2>4. read = {p}
    <3> DEFINE t == <<NONE>>
               Read(e) == ReadUIBCLists(t, <<0, e[1], e[2], e[3]>>)
               ends == Semicolons(t)
    <3>1. ReadUIBCCapability(t) = NoneIf(t, type) \cup UNION {Read(e) : e \in Ascending(ends)}
      BY Zenon DEF ReadUIBCCapability, Semicolons
    <3>2. ends = {}
      <4>1. Terminal(NONE) = "none" /\ Terminal(Word("semicolon")) = "semicolon"
        BY WordTokens, WordSets DEF NONE
      <4>2. NONE # Word("semicolon")
        BY <4>1
      <4>3. DOMAIN t = {1} /\ t[1] = NONE
        OBVIOUS
      <4> HIDE DEF t
      <4> QED BY <4>2, <4>3 DEF Semicolons
    <3>3. Ascending(ends) = {}
      BY <3>2 DEF Ascending
    <3>4. NoneIf(t, type) = {p}
      BY <1>1 DEF NoneIf, When
    <3> HIDE DEF Read, ends
    <3>5. read = ReadUIBCCapability(t)
      BY <2>2
    <3> HIDE DEF t, read
    <3> QED BY <3>1, <3>3, <3>4, <3>5
  <2>5. SoundProperty(p) /\ p.type \notin HexMode
    <3>1. p.none \in BOOLEAN
      BY <2>1
    <3>2. SoundProperty(p)
      BY <2>1, <3>1, SoundnessByName
    <3> QED BY <2>1, <3>2 DEF HexMode
  <2> HIDE DEF v, read
  <2> QED BY <2>2, <2>3, <2>4, <2>5, PlainIsReadBack
<1>2. ASSUME NEW lists \in HeldUIBCLists, NEW n \in SInt, p = UIBCCapability(lists, Dec(n))
      PROVE  PropertyIsReadBack(HeldUIBCCapability, p)
  <2> DEFINE whole == lists[1] # <<>> /\ lists[2] # <<>> /\ lists[3] # <<>> /\ n > 0
  <2>1. p.type = type /\ p.none = FALSE /\ p.members = <<Dec(n)>> /\ p.lists = lists
    BY <1>2 DEF UIBCCapability, Property
  <2>2. PropertyToString(p) = v /\ ReadProperty(p.type, v) = read
    BY <2>1, PropertyTexts, PropertyReaders
  <2>3. v = UIBCText(lists, n)
    BY <1>2, UIBCTextOf
  <2>4. /\ v \in Seq(PlainText)
        /\ \A q \in read : q = p /\ whole
        /\ whole => p \in read
    BY <1>2, <2>3, UIBCTextRead
  <2> HIDE DEF v, read
  <2>5. SoundProperty(p) <=> whole
    <3>1. p.none \in BOOLEAN
      BY <2>1
    <3>2. SoundProperty(p) <=> p.none \/ (/\ \A i \in 1 .. 3 : p.lists[i] # <<>>
                                          /\ p.members[1].dec > 0)
      BY <2>1, <3>1, SoundnessByName
    <3>3. Dec(n).dec = n
      BY Tokens
    <3>4. p.members[1] = Dec(n)
      BY <2>1
    <3>5. p.members[1].dec = n
      BY <3>3, <3>4
    <3>6. (\A i \in 1 .. 3 : lists[i] # <<>>) <=> lists[1] # <<>> /\ lists[2] # <<>> /\ lists[3] # <<>>
      <4>1. \A i \in 1 .. 3 : i = 1 \/ i = 2 \/ i = 3
        OBVIOUS
      <4> QED BY <4>1
    <3> QED BY <2>1, <3>2, <3>5, <3>6
  <2>6. \A q \in read : q \in HeldUIBCCapability /\ SoundProperty(q)
    BY <2>4, <2>5
  <2>7. SoundProperty(p) => read = {p}
    BY <2>4, <2>5
  <2>8. p.type \notin HexMode
    BY <2>1 DEF HexMode
  <2> QED BY <2>2, <2>4, <2>6, <2>7, <2>8, PlainIsReadBack
<1>3. \/ p = NoneProperty(type)
      \/ \E lists \in HeldUIBCLists, n \in SInt : p = UIBCCapability(lists, Dec(n))
  BY DEF HeldUIBCCapability
<1> QED BY <1>1, <1>2, <1>3

----------------------------------------------------------------------------
(* A part of a text is a text.                                             *)
LEMMA AnySlice ==
  ASSUME NEW S, NEW t \in Seq(S), NEW m \in Nat \ {0}, NEW n \in Nat, n <= Len(t)
  PROVE  SubSeq(t, m, n) \in Seq(S)
<1>1. CASE m <= n
  BY <1>1, SubSeqProperties
<1>2. CASE ~(m <= n)
  <2>1. SubSeq(t, m, n) = <<>>
    BY <1>2
  <2> QED BY <2>1
<1> QED BY <1>1, <1>2

(* What is read as a list is a sequence of its items.                      *)
LEMMA UIBCListRead ==
  ASSUME NEW i \in 1 .. 3, NEW piece \in Seq(PlainText), piece = <<NONE>> \/ IsList(UIBCLists[i], piece)
  PROVE  UIBCList(i, piece) \in Seq(UIBCItems(i))
<1> DEFINE P == UIBCLists[i]
           n == Len(P)
           items == Items(n, piece)
<1>1. n \in Lengths
  BY UIBCListTypes
<1>2. CASE piece = <<NONE>>
  BY <1>2 DEF UIBCList
<1>3. CASE piece # <<NONE>>
  <2>1. IsList(P, piece) /\ UIBCList(i, piece) = items
    BY <1>3 DEF UIBCList
  <2> HIDE DEF P
  <2>2. PICK K \in Nat \ {0} :
           /\ DOMAIN items = 1 .. K
           /\ \A k \in 1 .. K : /\ Item(n, piece, k) \in Seq(PlainText) /\ Len(Item(n, piece, k)) = n
                                /\ Derives(P, Item(n, piece, k))
    <3>1. Len(P) = n
      OBVIOUS
    <3> HIDE DEF n
    <3> QED BY <1>1, <2>1, <3>1, ListRead
  <2>3. \A k \in 1 .. K : items[k] = Item(n, piece, k)
    BY <2>2 DEF Items
  <2>4. items = [k \in 1 .. K |-> items[k]]
    BY <2>2 DEF Items
  <2>5. \A k \in 1 .. K : items[k] \in UIBCItems(i)
    BY <2>2, <2>3, UIBCItemRead DEF P
  <2> HIDE DEF items
  <2>6. items \in Seq(UIBCItems(i))
    BY <2>4, <2>5
  <2> QED BY <2>1, <2>6
<1> QED BY <1>2, <1>3

(* What is read between any three semicolons is a property the class can   *)
(* hold.                                                                   *)
LEMMA UIBCListsHeld ==
  ASSUME NEW t \in Seq(PlainText), NEW x \in Nat, NEW y \in Nat, NEW z \in Nat,
         0 < x, x < y, y < z, z <= Len(t), NEW q \in ReadUIBCLists(t, <<0, x, y, z>>)
  PROVE  q \in HeldUIBCCapability
<1> DEFINE cut == <<0, x, y, z>>
           part == [i \in 1 .. 3 |-> SubSeq(t, cut[i] + 2, cut[i + 1] - 1)]
           f == [i \in 1 .. 3 |-> UIBCList(i, part[i])]
           last == SubSeq(t, cut[4] + 1, Len(t))
           A == {"port="}
           B == {"NUM", "none"}
           found == \A i \in 1 .. 3 : /\ t[cut[i] + 1] = Word(UIBCWords[i])
                                      /\ part[i] = <<NONE>> \/ IsList(UIBCLists[i], part[i])
<1>1. ReadUIBCLists(t, cut) = When(found /\ Derives(<<A, B>>, last), UIBCCapability(f, PortOf(last[2])))
  BY Zenon DEF ReadUIBCLists
<1>2. cut[1] = 0 /\ cut[2] = x /\ cut[3] = y /\ cut[4] = z
  OBVIOUS
<1>3. \A i \in 1 .. 3 : cut[i] + 2 \in Nat \ {0} /\ cut[i + 1] - 1 \in Nat /\ cut[i + 1] - 1 <= Len(t)
  <2>1. cut[1 + 1] = x /\ cut[2 + 1] = y /\ cut[3 + 1] = z /\ Len(t) \in Nat
    OBVIOUS
  <2> HIDE DEF cut
  <2>2. \A i \in 1 .. 3 : i = 1 \/ i = 2 \/ i = 3
    OBVIOUS
  <2> QED BY <1>2, <2>1, <2>2
<1>4. \A i \in 1 .. 3 : part[i] \in Seq(PlainText)
  <2> TAKE i \in 1 .. 3
  <2>1. part[i] = SubSeq(t, cut[i] + 2, cut[i + 1] - 1)
    OBVIOUS
  <2> DEFINE m == cut[i] + 2
             n == cut[i + 1] - 1
  <2>2. m \in Nat \ {0} /\ n \in Nat /\ n <= Len(t)
    BY <1>3
  <2>3. part[i] = SubSeq(t, m, n)
    BY <2>1
  <2> HIDE DEF m, n, part
  <2> QED BY <2>2, <2>3, AnySlice
<1>5. last \in Seq(PlainText)
  <2> DEFINE m == cut[4] + 1
             n == Len(t)
  <2>2. m \in Nat \ {0} /\ n \in Nat /\ n <= Len(t)
    BY <1>2
  <2>3. last = SubSeq(t, m, n)
    OBVIOUS
  <2> HIDE DEF m, n, last
  <2> QED BY <2>2, <2>3, AnySlice
<1> HIDE DEF cut, part, last, A, B
<1>6. /\ found /\ Derives(<<A, B>>, last)
      /\ q = UIBCCapability(f, PortOf(last[2]))
  <2>1. q \in When(found /\ Derives(<<A, B>>, last), UIBCCapability(f, PortOf(last[2])))
    BY <1>1 DEF cut
  <2> HIDE DEF found, f
  <2> QED BY <2>1 DEF When
<1>7. \A i \in 1 .. 3 : f[i] \in Seq(UIBCItems(i))
  BY <1>4, <1>6, UIBCListRead
<1>8. f \in HeldUIBCLists
  <2>1. f = <<f[1], f[2], f[3]>>
    <3> DEFINE s == <<f[1], f[2], f[3]>>
               S == {f[1], f[2], f[3]}
    <3>1. s \in Seq(S) /\ Len(s) = 3 /\ s[1] = f[1] /\ s[2] = f[2] /\ s[3] = f[3]
      OBVIOUS
    <3>2. f = [i \in 1 .. 3 |-> f[i]]
      OBVIOUS
    <3>3. \A i \in 1 .. 3 : f[i] \in S /\ f[i] = s[i]
      <4>1. \A i \in 1 .. 3 : i = 1 \/ i = 2 \/ i = 3
        OBVIOUS
      <4> HIDE DEF f, s
      <4> QED BY <3>1, <4>1
    <3> HIDE DEF f, s, S
    <3>4. f \in Seq(S) /\ Len(f) = 3
      BY <3>2, <3>3
    <3>5. f = s
      BY <3>1, <3>3, <3>4, SeqEqual
    <3> QED BY <3>5 DEF s
  <2>2. f[1] \in Seq(UIBCItems(1)) /\ f[2] \in Seq(UIBCItems(2)) /\ f[3] \in Seq(UIBCItems(3))
    BY <1>7
  <2> HIDE DEF f
  <2> QED BY <2>1, <2>2 DEF HeldUIBCLists
<1>9. \E n \in SInt : PortOf(last[2]) = Dec(n)
  <2>1. Len(<<A, B>>) = 2 /\ <<A, B>>[2] = B
    OBVIOUS
  <2>2. Len(last) = 2 /\ \A i \in DOMAIN last : Terminal(last[i]) \in <<A, B>>[i]
    BY <1>6, <2>1 DEF Derives
  <2>3. 2 \in DOMAIN last /\ last[2] \in PlainText
    <3>1. Len(last) = 2
      BY <2>2
    <3>2. DOMAIN last = 1 .. Len(last) /\ \A i \in 1 .. Len(last) : last[i] \in PlainText
      BY <1>5, ElementOfSeq, LenProperties
    <3>3. 2 \in 1 .. Len(last)
      BY <3>1
    <3> QED BY <3>2, <3>3
  <2>4. Terminal(last[2]) \in <<A, B>>[2]
    BY <2>2, <2>3
  <2>5. Terminal(last[2]) \in B
    BY <2>1, <2>4
  <2> QED BY <2>3, <2>5, PortRead DEF B
<1> HIDE DEF f
<1> QED BY <1>6, <1>8, <1>9 DEF HeldUIBCCapability

(* What is read under that name is a property its class can hold.          *)
LEMMA UIBCCapabilityRead ==
  ASSUME NEW tokens \in Seq(PlainText), NEW q \in ReadUIBCCapability(tokens)
  PROVE  q \in HeldUIBCCapability
<1> DEFINE ends == Semicolons(tokens)
           Read(e) == ReadUIBCLists(tokens, <<0, e[1], e[2], e[3]>>)
<1>1. ReadUIBCCapability(tokens) = NoneIf(tokens, "wfd_uibc_capability") \cup UNION {Read(e) : e \in Ascending(ends)}
  BY Zenon DEF ReadUIBCCapability, Semicolons
<1> HIDE DEF Read
<1>2. CASE q \in NoneIf(tokens, "wfd_uibc_capability")
  BY <1>2 DEF NoneIf, When, HeldUIBCCapability
<1>3. ASSUME NEW e \in Ascending(ends), q \in Read(e)
      PROVE  q \in HeldUIBCCapability
  <2>1. \A i \in ends : i \in Nat /\ 0 < i /\ i <= Len(tokens)
    BY DEF Semicolons
  <2>2. e \in ends \X ends \X ends /\ e[1] < e[2] /\ e[2] < e[3]
    BY DEF Ascending
  <2> HIDE DEF ends
  <2>3. e[1] \in ends /\ e[2] \in ends /\ e[3] \in ends
    BY <2>2
  <2>4. q \in ReadUIBCLists(tokens, <<0, e[1], e[2], e[3]>>)
    BY <1>3 DEF Read
  <2> DEFINE x == e[1]
             y == e[2]
             z == e[3]
  <2>5. /\ x \in Nat /\ y \in Nat /\ z \in Nat /\ 0 < x /\ x < y /\ y < z /\ z <= Len(tokens)
        /\ q \in ReadUIBCLists(tokens, <<0, x, y, z>>)
    BY <2>1, <2>2, <2>3, <2>4
  <2> HIDE DEF x, y, z
  <2> QED BY <2>5, UIBCListsHeld
<1> QED BY <1>1, <1>2, <1>3

----------------------------------------------------------------------------
(* The names of the exchange, and the properties a class may hold.         *)
Names == PropertyName \cup {"vendor_key"}

HeldAs(name) ==
  CASE name = "wfd_audio_codecs" -> HeldAudioCodecs
    [] name = "wfd_video_formats" -> HeldVideoFormats
    [] name = "wfd_3d_video_formats" -> HeldFormats3d
    [] name = "wfd_content_protection" -> HeldContentProtection
    [] name = "wfd_display_edid" -> HeldDisplayEdid
    [] name = "wfd_coupled_sink" -> HeldCoupledSink
    [] name = "wfd_trigger_method" -> HeldTriggerMethod
    [] name = "wfd_presentation_url" -> HeldPresentationUrl
    [] name = "wfd_client_rtp_ports" -> HeldClientRtpPorts
    [] name = "wfd_route" -> HeldRoute
    [] name = "wfd_I2C" -> HeldI2C
    [] name = "wfd_av_format_change_timing" -> HeldAVFormatChangeTiming
    [] name = "wfd_preferred_display_mode" -> HeldPreferredDisplayMode
    [] name = "wfd_uibc_capability" -> HeldUIBCCapability
    [] name = "wfd_uibc_setting" -> HeldUIBCSetting
    [] name = "wfd_standby_resume_capability" -> HeldStandbyResume
    [] name = "wfd_connector_type" -> HeldConnectorType
    [] name \in Bare -> {Property(name, <<>>, <<>>)}
    [] OTHER -> HeldGeneric

(* What the class of each name can hold.                                   *)
LEMMA HeldByName ==
  /\ HeldAs("wfd_audio_codecs") = HeldAudioCodecs
  /\ HeldAs("wfd_video_formats") = HeldVideoFormats
  /\ HeldAs("wfd_3d_video_formats") = HeldFormats3d
  /\ HeldAs("wfd_content_protection") = HeldContentProtection
  /\ HeldAs("wfd_display_edid") = HeldDisplayEdid
  /\ HeldAs("wfd_coupled_sink") = HeldCoupledSink
  /\ HeldAs("wfd_trigger_method") = HeldTriggerMethod
  /\ HeldAs("wfd_presentation_url") = HeldPresentationUrl
  /\ HeldAs("wfd_client_rtp_ports") = HeldClientRtpPorts
  /\ HeldAs("wfd_route") = HeldRoute
  /\ HeldAs("wfd_I2C") = HeldI2C
  /\ HeldAs("wfd_av_format_change_timing") = HeldAVFormatChangeTiming
  /\ HeldAs("wfd_preferred_display_mode") = HeldPreferredDisplayMode
  /\ HeldAs("wfd_uibc_capability") = HeldUIBCCapability
  /\ HeldAs("wfd_uibc_setting") = HeldUIBCSetting
  /\ HeldAs("wfd_standby_resume_capability") = HeldStandbyResume
  /\ HeldAs("wfd_connector_type") = HeldConnectorType
  /\ HeldAs("vendor_key") = HeldGeneric
  /\ \A name \in Bare : HeldAs(name) = {Property(name, <<>>, <<>>)}
  BY DEF HeldAs, Bare

(* The names, one by one.                                                  *)
LEMMA ByName ==
  ASSUME NEW name \in Names
  PROVE  \/ name \in Bare
         \/ name = "wfd_audio_codecs"
         \/ name = "wfd_video_formats"
         \/ name = "wfd_3d_video_formats"
         \/ name = "wfd_content_protection"
         \/ name = "wfd_display_edid"
         \/ name = "wfd_coupled_sink"
         \/ name = "wfd_trigger_method"
         \/ name = "wfd_presentation_url"
         \/ name = "wfd_client_rtp_ports"
         \/ name = "wfd_route"
         \/ name = "wfd_I2C"
         \/ name = "wfd_av_format_change_timing"
         \/ name = "wfd_preferred_display_mode"
         \/ name = "wfd_uibc_capability"
         \/ name = "wfd_uibc_setting"
         \/ name = "wfd_standby_resume_capability"
         \/ name = "wfd_connector_type"
         \/ name = "vendor_key"
  BY DEF Names, PropertyName, Bare

(* What is read as wfd_video_formats is a property its class can hold.     *)
LEMMA VideoFormatsRead ==
  ASSUME NEW tokens \in Seq(LexedText), NEW q \in ReadVideoFormats(tokens)
  PROVE  q \in HeldVideoFormats
<1>1. q \in ReadFormats("wfd_video_formats", Pair, H264Codec, CodecProduction(9), tokens)
  BY PairTypes DEF ReadVideoFormats, ReadH264Codec, CodecProduction
<1>2. H264Codec \in Seq(1 .. 16) /\ Len(H264Codec) = 9 + 2
  BY H264CodecTypes DEF CodecTypes
<1> DEFINE m == 9
<1>3. m \in {7, 9} /\ q \in ReadFormats("wfd_video_formats", Pair, H264Codec, CodecProduction(m), tokens) /\ Len(H264Codec) = m + 2
  BY <1>1, <1>2
<1> HIDE DEF m
<1>4. q \in HeldFormats("wfd_video_formats", H264Codec)
  BY <1>2, <1>3, FormatsRead
<1> QED BY <1>4 DEF HeldVideoFormats

(* What is read as wfd_3d_video_formats is a property its class can hold.  *)
LEMMA Formats3dRead ==
  ASSUME NEW tokens \in Seq(LexedText), NEW q \in ReadFormats3d(tokens)
  PROVE  q \in HeldFormats3d
<1>1. q \in ReadFormats("wfd_3d_video_formats", Pair, H264Codec3d, CodecProduction(7), tokens)
  BY PairTypes DEF ReadFormats3d, ReadH264Codec3d, CodecProduction
<1>2. H264Codec3d \in Seq(1 .. 16) /\ Len(H264Codec3d) = 7 + 2
  BY H264Codec3dTypes DEF CodecTypes
<1> DEFINE m == 7
<1>3. m \in {7, 9} /\ q \in ReadFormats("wfd_3d_video_formats", Pair, H264Codec3d, CodecProduction(m), tokens) /\ Len(H264Codec3d) = m + 2
  BY <1>1, <1>2
<1> HIDE DEF m
<1>4. q \in HeldFormats("wfd_3d_video_formats", H264Codec3d)
  BY <1>2, <1>3, FormatsRead
<1> QED BY <1>4 DEF HeldFormats3d

(* What is read behind a name is held by its class.                        *)
THEOREM ReadIsHeld ==
  ASSUME NEW name \in Names, NEW v \in Seq(PropertyText(name)), NEW q \in ReadProperty(name, v)
  PROVE  q \in HeldAs(name)
<1>1. CASE name = "wfd_audio_codecs"
  <2>1. v \in Seq(HexText) /\ q \in ReadAudioCodecs(LexHex(v))
    BY <1>1, PropertyTextTypes, PropertyReaders DEF HexMode
  <2>2. LexHex(v) \in Seq(LexedText)
    BY <2>1, LexHexText
  <2>3. q \in HeldAudioCodecs
    BY <2>1, <2>2, AudioCodecsRead
  <2> QED BY <1>1, <2>3, HeldByName
<1>2. CASE name = "wfd_video_formats"
  <2>1. v \in Seq(HexText) /\ q \in ReadVideoFormats(LexHex(v))
    BY <1>2, PropertyTextTypes, PropertyReaders DEF HexMode
  <2>2. LexHex(v) \in Seq(LexedText)
    BY <2>1, LexHexText
  <2>3. q \in HeldVideoFormats
    BY <2>1, <2>2, VideoFormatsRead
  <2> QED BY <1>2, <2>3, HeldByName
<1>3. CASE name = "wfd_3d_video_formats"
  <2>1. v \in Seq(HexText) /\ q \in ReadFormats3d(LexHex(v))
    BY <1>3, PropertyTextTypes, PropertyReaders DEF HexMode
  <2>2. LexHex(v) \in Seq(LexedText)
    BY <2>1, LexHexText
  <2>3. q \in HeldFormats3d
    BY <2>1, <2>2, Formats3dRead
  <2> QED BY <1>3, <2>3, HeldByName
<1>4. CASE name = "wfd_content_protection"
  <2>1. v \in Seq(PlainText) /\ q \in ReadContentProtection(v)
    BY <1>4, PropertyTextTypes, PropertyReaders DEF HexMode
  <2>3. q \in HeldContentProtection
    BY <2>1, ContentProtectionRead
  <2> QED BY <1>4, <2>3, HeldByName
<1>5. CASE name = "wfd_display_edid"
  <2>1. v \in Seq(HexText) /\ q \in ReadDisplayEdid(LexHex(v))
    BY <1>5, PropertyTextTypes, PropertyReaders DEF HexMode
  <2>2. LexHex(v) \in Seq(LexedText)
    BY <2>1, LexHexText
  <2>3. q \in HeldDisplayEdid
    BY <2>1, <2>2, DisplayEdidRead
  <2> QED BY <1>5, <2>3, HeldByName
<1>6. CASE name = "wfd_coupled_sink"
  <2>1. v \in Seq(HexText) /\ q \in ReadCoupledSink(LexHex(v))
    BY <1>6, PropertyTextTypes, PropertyReaders DEF HexMode
  <2>2. LexHex(v) \in Seq(LexedText)
    BY <2>1, LexHexText
  <2>3. q \in HeldCoupledSink
    BY <2>1, <2>2, CoupledSinkRead
  <2> QED BY <1>6, <2>3, HeldByName
<1>7. CASE name = "wfd_trigger_method"
  <2>1. v \in Seq(PlainText) /\ q \in ReadTriggerMethod(v)
    BY <1>7, PropertyTextTypes, PropertyReaders DEF HexMode
  <2>3. q \in HeldTriggerMethod
    BY <2>1, WordRead, WordSets DEF HeldTriggerMethod, ReadTriggerMethod
  <2> QED BY <1>7, <2>3, HeldByName
<1>8. CASE name = "wfd_presentation_url"
  <2>1. v \in Seq(PlainText) /\ q \in ReadPresentationUrl(v)
    BY <1>8, PropertyTextTypes, PropertyReaders DEF HexMode
  <2>3. q \in HeldPresentationUrl
    BY <2>1, PresentationUrlRead
  <2> QED BY <1>8, <2>3, HeldByName
<1>9. CASE name = "wfd_client_rtp_ports"
  <2>1. v \in Seq(PlainText) /\ q \in ReadClientRtpPorts(v)
    BY <1>9, PropertyTextTypes, PropertyReaders DEF HexMode
  <2>3. q \in HeldClientRtpPorts
    BY <2>1, ClientRtpPortsRead
  <2> QED BY <1>9, <2>3, HeldByName
<1>10. CASE name = "wfd_route"
  <2>1. v \in Seq(PlainText) /\ q \in ReadRoute(v)
    BY <1>10, PropertyTextTypes, PropertyReaders DEF HexMode
  <2>3. q \in HeldRoute
    BY <2>1, WordRead, WordSets DEF HeldRoute, ReadRoute
  <2> QED BY <1>10, <2>3, HeldByName
<1>11. CASE name = "wfd_I2C"
  <2>1. v \in Seq(PlainText) /\ q \in ReadI2C(v)
    BY <1>11, PropertyTextTypes, PropertyReaders DEF HexMode
  <2>3. q \in HeldI2C
    BY <2>1, I2CRead
  <2> QED BY <1>11, <2>3, HeldByName
<1>12. CASE name = "wfd_av_format_change_timing"
  <2>1. v \in Seq(HexText) /\ q \in ReadAVFormatChangeTiming(LexHex(v))
    BY <1>12, PropertyTextTypes, PropertyReaders DEF HexMode
  <2>2. LexHex(v) \in Seq(LexedText)
    BY <2>1, LexHexText
  <2>3. q \in HeldAVFormatChangeTiming
    BY <2>1, <2>2, AVFormatChangeTimingRead
  <2> QED BY <1>12, <2>3, HeldByName
<1>13. CASE name = "wfd_preferred_display_mode"
  <2>1. v \in Seq(HexText) /\ q \in ReadPreferredDisplayMode(LexHex(v))
    BY <1>13, PropertyTextTypes, PropertyReaders DEF HexMode
  <2>2. LexHex(v) \in Seq(LexedText)
    BY <2>1, LexHexText
  <2>3. q \in HeldPreferredDisplayMode
    BY <2>1, <2>2, PreferredDisplayModeRead
  <2> QED BY <1>13, <2>3, HeldByName
<1>14. CASE name = "wfd_uibc_capability"
  <2>1. v \in Seq(PlainText) /\ q \in ReadUIBCCapability(v)
    BY <1>14, PropertyTextTypes, PropertyReaders DEF HexMode
  <2>3. q \in HeldUIBCCapability
    BY <2>1, UIBCCapabilityRead
  <2> QED BY <1>14, <2>3, HeldByName
<1>15. CASE name = "wfd_uibc_setting"
  <2>1. v \in Seq(PlainText) /\ q \in ReadUIBCSetting(v)
    BY <1>15, PropertyTextTypes, PropertyReaders DEF HexMode
  <2>3. q \in HeldUIBCSetting
    BY <2>1, WordRead, WordSets DEF HeldUIBCSetting, ReadUIBCSetting
  <2> QED BY <1>15, <2>3, HeldByName
<1>16. CASE name = "wfd_standby_resume_capability"
  <2>1. v \in Seq(PlainText) /\ q \in ReadStandbyResumeCapability(v)
    BY <1>16, PropertyTextTypes, PropertyReaders DEF HexMode
  <2>3. q \in HeldStandbyResume
    BY <2>1, StandbyResumeRead
  <2> QED BY <1>16, <2>3, HeldByName
<1>17. CASE name = "wfd_connector_type"
  <2>1. v \in Seq(HexText) /\ q \in ReadConnectorType(LexHex(v))
    BY <1>17, PropertyTextTypes, PropertyReaders DEF HexMode
  <2>2. LexHex(v) \in Seq(LexedText)
    BY <2>1, LexHexText
  <2>3. q \in HeldConnectorType
    BY <2>1, <2>2, ConnectorTypeRead
  <2> QED BY <1>17, <2>3, HeldByName
<1>18. CASE name = "vendor_key"
  <2>1. v \in Seq(PlainText) /\ q \in ReadGenericProperty("vendor_key", v)
    BY <1>18, PropertyTextTypes, PropertyReaders DEF HexMode
  <2>3. q \in HeldGeneric
    BY <2>1, GenericRead
  <2> QED BY <1>18, <2>3, HeldByName
<1>19. name \notin Bare
  BY DEF ReadProperty, Bare
<1> QED BY <1>1, <1>2, <1>3, <1>4, <1>5, <1>6, <1>7, <1>8, <1>9, <1>10, <1>11, <1>12, <1>13, <1>14, <1>15, <1>16, <1>17, <1>18, <1>19, ByName

(* A property is read back, behind its name.                               *)
THEOREM HeldIsReadBack ==
  ASSUME NEW name \in Names, name \notin Bare, NEW p \in HeldAs(name)
  PROVE  PropertyIsReadBack(HeldAs(name), p)
<1>1. CASE name = "wfd_audio_codecs"
  <2>1. p \in HeldAudioCodecs /\ HeldAs(name) = HeldAudioCodecs
    BY <1>1, HeldByName
  <2> QED BY <2>1, AudioCodecsAreReadBack
<1>2. CASE name = "wfd_video_formats"
  <2>1. p \in HeldVideoFormats /\ HeldAs(name) = HeldVideoFormats
    BY <1>2, HeldByName
  <2> QED BY <2>1, VideoFormatsAreReadBack
<1>3. CASE name = "wfd_3d_video_formats"
  <2>1. p \in HeldFormats3d /\ HeldAs(name) = HeldFormats3d
    BY <1>3, HeldByName
  <2> QED BY <2>1, Formats3dAreReadBack
<1>4. CASE name = "wfd_content_protection"
  <2>1. p \in HeldContentProtection /\ HeldAs(name) = HeldContentProtection
    BY <1>4, HeldByName
  <2> QED BY <2>1, ContentProtectionIsReadBack
<1>5. CASE name = "wfd_display_edid"
  <2>1. p \in HeldDisplayEdid /\ HeldAs(name) = HeldDisplayEdid
    BY <1>5, HeldByName
  <2> QED BY <2>1, DisplayEdidIsReadBack
<1>6. CASE name = "wfd_coupled_sink"
  <2>1. p \in HeldCoupledSink /\ HeldAs(name) = HeldCoupledSink
    BY <1>6, HeldByName
  <2> QED BY <2>1, CoupledSinkIsReadBack
<1>7. CASE name = "wfd_trigger_method"
  <2>1. p \in HeldTriggerMethod /\ HeldAs(name) = HeldTriggerMethod
    BY <1>7, HeldByName
  <2> QED BY <2>1, WordsAreReadBack
<1>8. CASE name = "wfd_presentation_url"
  <2>1. p \in HeldPresentationUrl /\ HeldAs(name) = HeldPresentationUrl
    BY <1>8, HeldByName
  <2> QED BY <2>1, PresentationUrlIsReadBack
<1>9. CASE name = "wfd_client_rtp_ports"
  <2>1. p \in HeldClientRtpPorts /\ HeldAs(name) = HeldClientRtpPorts
    BY <1>9, HeldByName
  <2> QED BY <2>1, ClientRtpPortsIsReadBack
<1>10. CASE name = "wfd_route"
  <2>1. p \in HeldRoute /\ HeldAs(name) = HeldRoute
    BY <1>10, HeldByName
  <2> QED BY <2>1, WordsAreReadBack
<1>11. CASE name = "wfd_I2C"
  <2>1. p \in HeldI2C /\ HeldAs(name) = HeldI2C
    BY <1>11, HeldByName
  <2> QED BY <2>1, I2CIsReadBack
<1>12. CASE name = "wfd_av_format_change_timing"
  <2>1. p \in HeldAVFormatChangeTiming /\ HeldAs(name) = HeldAVFormatChangeTiming
    BY <1>12, HeldByName
  <2> QED BY <2>1, AVFormatChangeTimingIsReadBack
<1>13. CASE name = "wfd_preferred_display_mode"
  <2>1. p \in HeldPreferredDisplayMode /\ HeldAs(name) = HeldPreferredDisplayMode
    BY <1>13, HeldByName
  <2> QED BY <2>1, PreferredDisplayModeIsReadBack
<1>14. CASE name = "wfd_uibc_capability"
  <2>1. p \in HeldUIBCCapability /\ HeldAs(name) = HeldUIBCCapability
    BY <1>14, HeldByName
  <2> QED BY <2>1, UIBCCapabilityIsReadBack
<1>15. CASE name = "wfd_uibc_setting"
  <2>1. p \in HeldUIBCSetting /\ HeldAs(name) = HeldUIBCSetting
    BY <1>15, HeldByName
  <2> QED BY <2>1, WordsAreReadBack
<1>16. CASE name = "wfd_standby_resume_capability"
  <2>1. p \in HeldStandbyResume /\ HeldAs(name) = HeldStandbyResume
    BY <1>16, HeldByName
  <2> QED BY <2>1, StandbyResumeIsReadBack
<1>17. CASE name = "wfd_connector_type"
  <2>1. p \in HeldConnectorType /\ HeldAs(name) = HeldConnectorType
    BY <1>17, HeldByName
  <2> QED BY <2>1, ConnectorTypeIsReadBack
<1>18. CASE name = "vendor_key"
  <2>1. p \in HeldGeneric /\ HeldAs(name) = HeldGeneric
    BY <1>18, HeldByName
  <2> QED BY <2>1, GenericIsReadBack
<1> QED BY <1>1, <1>2, <1>3, <1>4, <1>5, <1>6, <1>7, <1>8, <1>9, <1>10, <1>11, <1>12, <1>13, <1>14, <1>15, <1>16, <1>17, <1>18, ByName

(* The members of what a class may hold have its C types.                  *)
LEMMA VectorsTyped ==
  ASSUME NEW members \in Seq(1 .. 16), NEW c \in Vectors(members)
  PROVE  WellTyped(members, c)
<1>1. \A i \in 1 .. Len(members) : c[i] \in Number(members[i])
  BY DEF Vectors
<1>2. DOMAIN members = 1 .. Len(members)
  OBVIOUS
<1>3. \A w : \A n \in Number(w) : "num" \in DOMAIN n /\ Len(n.num) <= w
  BY DEF Number
<1> QED BY <1>1, <1>2, <1>3 DEF WellTyped

(* The members of an audio codec have their C types.                       *)
LEMMA AudioCodecTyped ==
  ASSUME NEW c \in AudioCodecValues
  PROVE  WellTyped(AudioCodec, c)
<1>1. PICK f \in AudioFormat, modes \in Number(UINT), latency \in Number(USHORT) : c = <<Word(f), modes, latency>>
  BY DEF AudioCodecValues
<1>2. c[2] \in Number(UINT) /\ c[3] \in Number(USHORT)
  BY <1>1
<1>3. DOMAIN AudioCodec = 1 .. 3 /\ AudioCodec[1] = AsRead /\ AudioCodec[2] = UINT /\ AudioCodec[3] = USHORT
  BY DEF AudioCodec
<1>4. \A w : \A n \in Number(w) : "num" \in DOMAIN n /\ Len(n.num) <= w
  BY DEF Number
<1>5. \A i \in 1 .. 3 : i = 1 \/ i = 2 \/ i = 3
  OBVIOUS
<1> QED BY <1>2, <1>3, <1>4, <1>5 DEF WellTyped

(* Two members have their C types.                                         *)
LEMMA PairTyped ==
  ASSUME NEW a, NEW b, NEW x, NEW y,
         a # AsRead => x \in Number(a), b # AsRead => y \in Number(b)
  PROVE  WellTyped(<<a, b>>, <<x, y>>)
<1>1. /\ DOMAIN <<a, b>> = 1 .. 2 /\ <<a, b>>[1] = a /\ <<a, b>>[2] = b
      /\ <<x, y>>[1] = x /\ <<x, y>>[2] = y
  OBVIOUS
<1>4. \A w : \A n \in Number(w) : "num" \in DOMAIN n /\ Len(n.num) <= w
  BY DEF Number
<1>5. \A i \in 1 .. 2 : i = 1 \/ i = 2
  OBVIOUS
<1> DEFINE s == <<a, b>>
           t == <<x, y>>
<1>6. DOMAIN s = 1 .. 2 /\ s[1] = a /\ s[2] = b /\ t[1] = x /\ t[2] = y
  BY <1>1
<1> HIDE DEF s, t
<1>7. WellTyped(s, t)
  BY <1>4, <1>5, <1>6 DEF WellTyped
<1> QED BY <1>7 DEF s, t

(* When the members of a property have their C types, name by name.        *)
LEMMA TypesByName ==
  ASSUME NEW p, p.none \in BOOLEAN
  PROVE  /\ p.none => TypedProperty(p)
         /\ p.type = "wfd_audio_codecs" /\ (\A i \in DOMAIN p.lists : WellTyped(AudioCodec, p.lists[i])) => TypedProperty(p)
         /\ p.type = "wfd_video_formats" /\ WellTyped(VideoFormats, p.members)
              /\ (\A i \in DOMAIN p.lists : WellTyped(H264Codec, p.lists[i])) => TypedProperty(p)
         /\ p.type = "wfd_3d_video_formats" /\ WellTyped(Formats3d, p.members)
              /\ (\A i \in DOMAIN p.lists : WellTyped(H264Codec3d, p.lists[i])) => TypedProperty(p)
         /\ p.type = "wfd_preferred_display_mode" /\ WellTyped(PreferredDisplayMode, p.members) => TypedProperty(p)
         /\ p.type = "wfd_coupled_sink" /\ WellTyped(CoupledSink, p.members) => TypedProperty(p)
         /\ p.type = "wfd_display_edid" /\ WellTyped(DisplayEdid, p.members) => TypedProperty(p)
         /\ p.type = "wfd_av_format_change_timing" /\ WellTyped(AVFormatChangeTiming, p.members) => TypedProperty(p)
         /\ p.type = "wfd_connector_type" /\ WellTyped(ConnectorType, p.members) => TypedProperty(p)
         /\ p.type = "wfd_client_rtp_ports" /\ (\A i \in 1 .. 2 : p.members[i].dec \in UShort) => TypedProperty(p)
         /\ p.type = "wfd_content_protection" /\ p.members[2].dec \in UInt => TypedProperty(p)
         /\ p.type \in {"wfd_I2C", "wfd_uibc_capability"} /\ p.members[1].dec \in SInt => TypedProperty(p)
         /\ p.type \in {"wfd_trigger_method", "wfd_presentation_url", "wfd_route",
                        "wfd_uibc_setting", "wfd_standby_resume_capability",
                        "wfd_standby", "wfd_idr_request", "vendor_key"} => TypedProperty(p)
  BY DEF TypedProperty

(* A property of numbers has the C types of its members.                   *)
LEMMA HeldNumbersTyped ==
  ASSUME NEW type, NEW members \in Seq(1 .. 16), NEW p \in HeldNumbers(type, members)
  PROVE  p.type = type /\ p.none = FALSE /\ WellTyped(members, p.members)
<1>1. PICK ms \in Vectors(members) : p = Property(type, ms, <<>>)
  BY DEF HeldNumbers
<1>2. p.type = type /\ p.none = FALSE /\ p.members = ms
  BY <1>1 DEF Property
<1> QED BY <1>2, VectorsTyped

(* A property that is "none" has no members to check.                      *)
LEMMA HeldNoneTyped ==
  ASSUME NEW type, NEW p, p = NoneProperty(type)
  PROVE  p.type = type /\ p.none = TRUE /\ TypedProperty(p)
<1>1. p.type = type /\ p.none = TRUE
  BY DEF NoneProperty
<1>2. p.none \in BOOLEAN
  BY <1>1
<1> QED BY <1>1, <1>2, TypesByName

(* Formats have the C types of their members.                              *)
LEMMA HeldFormatsTyped ==
  ASSUME NEW type, NEW codec \in Seq(1 .. 16), NEW p \in HeldFormats(type, codec)
  PROVE  /\ p.type = type /\ p.none \in BOOLEAN
         /\ ~p.none => WellTyped(Pair, p.members) /\ \A i \in DOMAIN p.lists : WellTyped(codec, p.lists[i])
<1>1. CASE p = NoneProperty(type)
  BY <1>1 DEF NoneProperty
<1>2. ASSUME NEW ms \in Vectors(Pair), NEW cs \in Seq(Vectors(codec)), p = Property(type, ms, cs)
      PROVE  /\ p.type = type /\ p.none \in BOOLEAN
             /\ WellTyped(Pair, p.members) /\ \A i \in DOMAIN p.lists : WellTyped(codec, p.lists[i])
  <2>1. p.type = type /\ p.none = FALSE /\ p.members = ms /\ p.lists = cs
    BY <1>2 DEF Property
  <2>2. WellTyped(Pair, ms)
    BY PairTypes, VectorsTyped
  <2>3. \A i \in DOMAIN cs : cs[i] \in Vectors(codec)
    OBVIOUS
  <2>4. \A i \in DOMAIN cs : WellTyped(codec, cs[i])
    BY <2>3, VectorsTyped
  <2> QED BY <2>1, <2>2, <2>4
<1>3. \/ p = NoneProperty(type)
      \/ \E ms \in Vectors(Pair), cs \in Seq(Vectors(codec)) : p = Property(type, ms, cs)
  BY DEF HeldFormats
<1> QED BY <1>1, <1>2, <1>3

TypedAs(name, p) == p.type = name /\ p.none \in BOOLEAN /\ TypedProperty(p)

(* Every property that may be held has its type.                           *)
THEOREM HeldIsTyped ==
  ASSUME NEW name \in Names, NEW p \in HeldAs(name)
  PROVE  TypedAs(name, p)
<1>1. CASE name = "wfd_audio_codecs"
  <2>1. \/ p = NoneProperty(name)
        \/ \E cs \in Seq(AudioCodecValues) : p = Property(name, <<>>, cs)
    BY <1>1, HeldByName DEF HeldAudioCodecs
  <2>2. CASE p = NoneProperty(name)
    BY <2>2, HeldNoneTyped DEF TypedAs
  <2>3. ASSUME NEW cs \in Seq(AudioCodecValues), p = Property(name, <<>>, cs)
        PROVE  TypedAs(name, p)
    <3>1. p.type = name /\ p.none = FALSE /\ p.lists = cs
      BY <2>3 DEF Property
    <3>2. \A i \in DOMAIN cs : cs[i] \in AudioCodecValues
      OBVIOUS
    <3>3. \A i \in DOMAIN cs : WellTyped(AudioCodec, cs[i])
      BY <3>2, AudioCodecTyped
    <3>4. p.none \in BOOLEAN
      BY <3>1
    <3>5. TypedProperty(p)
      BY <1>1, <3>1, <3>3, <3>4, TypesByName
    <3> QED BY <3>1, <3>4, <3>5 DEF TypedAs
  <2> QED BY <2>1, <2>2, <2>3
<1>2. CASE name = "wfd_video_formats"
  <2>1. p \in HeldFormats(name, H264Codec) /\ H264Codec \in Seq(1 .. 16)
    BY <1>2, HeldByName, H264CodecTypes DEF HeldVideoFormats, CodecTypes
  <2>2. /\ p.type = name /\ p.none \in BOOLEAN
        /\ ~p.none => WellTyped(VideoFormats, p.members) /\ \A i \in DOMAIN p.lists : WellTyped(H264Codec, p.lists[i])
    BY <2>1, HeldFormatsTyped, PairTypes
  <2>3. TypedProperty(p)
    BY <1>2, <2>2, TypesByName
  <2> QED BY <2>2, <2>3 DEF TypedAs
<1>3. CASE name = "wfd_3d_video_formats"
  <2>1. p \in HeldFormats(name, H264Codec3d) /\ H264Codec3d \in Seq(1 .. 16)
    BY <1>3, HeldByName, H264Codec3dTypes DEF HeldFormats3d, CodecTypes
  <2>2. /\ p.type = name /\ p.none \in BOOLEAN
        /\ ~p.none => WellTyped(Formats3d, p.members) /\ \A i \in DOMAIN p.lists : WellTyped(H264Codec3d, p.lists[i])
    BY <2>1, HeldFormatsTyped, PairTypes
  <2>3. TypedProperty(p)
    BY <1>3, <2>2, TypesByName
  <2> QED BY <2>2, <2>3 DEF TypedAs
<1>4. CASE name = "wfd_preferred_display_mode"
  <2>1. p \in HeldNumbers(name, PreferredDisplayMode)
    BY <1>4, HeldByName DEF HeldPreferredDisplayMode
  <2>2. p.type = name /\ p.none = FALSE /\ WellTyped(PreferredDisplayMode, p.members)
    BY <2>1, HeldNumbersTyped, ModeVectors
  <2>3. p.none \in BOOLEAN
    BY <2>2
  <2>4. TypedProperty(p)
    BY <1>4, <2>2, <2>3, TypesByName
  <2> QED BY <2>2, <2>3, <2>4 DEF TypedAs
<1>5. CASE name = "wfd_av_format_change_timing"
  <2>1. p \in HeldNumbers(name, AVFormatChangeTiming)
    BY <1>5, HeldByName DEF HeldAVFormatChangeTiming
  <2>2. p.type = name /\ p.none = FALSE /\ WellTyped(AVFormatChangeTiming, p.members)
    BY <2>1, HeldNumbersTyped, AVFormatChangeTimingTypes
  <2>3. p.none \in BOOLEAN
    BY <2>2
  <2>4. TypedProperty(p)
    BY <1>5, <2>2, <2>3, TypesByName
  <2> QED BY <2>2, <2>3, <2>4 DEF TypedAs
<1>6. CASE name = "wfd_connector_type"
  <2>1. p = NoneProperty(name) \/ p \in HeldNumbers(name, ConnectorType)
    BY <1>6, HeldByName DEF HeldConnectorType
  <2>2. CASE p = NoneProperty(name)
    BY <2>2, HeldNoneTyped DEF TypedAs
  <2>3. CASE p \in HeldNumbers(name, ConnectorType)
    <3>2. p.type = name /\ p.none = FALSE /\ WellTyped(ConnectorType, p.members)
      BY <2>3, HeldNumbersTyped, ConnectorTypeTypes
    <3>3. p.none \in BOOLEAN
      BY <3>2
    <3>4. TypedProperty(p)
      BY <1>6, <3>2, <3>3, TypesByName
    <3> QED BY <3>2, <3>3, <3>4 DEF TypedAs
  <2> QED BY <2>1, <2>2, <2>3
<1>7. CASE name = "wfd_coupled_sink"
  <2>0. p \in HeldCoupledSink
    BY <1>7, HeldByName
  <2> DEFINE type == "wfd_coupled_sink"
  <2>1. \/ p = NoneProperty(type)
        \/ \E status \in Number(UCHAR), address \in Number(ULL) : p = Property(type, <<status, address>>, <<>>)
    BY <2>0 DEF HeldCoupledSink
  <2>2. CASE p = NoneProperty(type)
    BY <1>7, <2>2, HeldNoneTyped DEF TypedAs
  <2>3. ASSUME NEW status \in Number(UCHAR), NEW address \in Number(ULL), p = Property(type, <<status, address>>, <<>>)
        PROVE  TypedAs(name, p)
    <3>1. p.type = name /\ p.none = FALSE /\ p.members = <<status, address>>
      BY <1>7, <2>3 DEF Property
    <3>2. WellTyped(<<UCHAR, ULL>>, <<status, address>>)
      BY PairTyped
    <3>3. p.none \in BOOLEAN
      BY <3>1
    <3>4. WellTyped(CoupledSink, p.members)
      BY <3>1, <3>2 DEF CoupledSink
    <3>5. TypedProperty(p)
      BY <1>7, <3>1, <3>4, <3>3, TypesByName
    <3> QED BY <3>1, <3>3, <3>5 DEF TypedAs
  <2> QED BY <2>1, <2>2, <2>3
<1>8. CASE name = "wfd_display_edid"
  <2>0. p \in HeldDisplayEdid
    BY <1>8, HeldByName
  <2>1. \/ p = NoneProperty(name)
        \/ \E blocks \in Number(USHORT), bytes \in EdidBytes : p = Property(name, <<blocks, bytes>>, <<>>)
    BY <1>8, <2>0 DEF HeldDisplayEdid
  <2>2. CASE p = NoneProperty(name)
    BY <2>2, HeldNoneTyped DEF TypedAs
  <2>3. ASSUME NEW blocks \in Number(USHORT), NEW bytes \in EdidBytes, p = Property(name, <<blocks, bytes>>, <<>>)
        PROVE  TypedAs(name, p)
    <3>1. p.type = name /\ p.none = FALSE /\ p.members = <<blocks, bytes>>
      BY <2>3 DEF Property
    <3>2. WellTyped(<<USHORT, AsRead>>, <<blocks, bytes>>)
      BY PairTyped
    <3>3. p.none \in BOOLEAN
      BY <3>1
    <3>4. WellTyped(DisplayEdid, p.members)
      BY <3>1, <3>2 DEF DisplayEdid
    <3>5. TypedProperty(p)
      BY <1>8, <3>1, <3>4, <3>3, TypesByName
    <3> QED BY <3>1, <3>3, <3>5 DEF TypedAs
  <2> QED BY <2>1, <2>2, <2>3
<1>9. CASE name = "wfd_client_rtp_ports"
  <2>1. PICK a \in UShort, b \in UShort : p = ClientRtpPorts(a, b)
    BY <1>9, HeldByName DEF HeldClientRtpPorts
  <2>2. p.type = name /\ p.none = FALSE /\ p.members = <<Dec(a), Dec(b)>>
    BY <1>9, <2>1, ClientRtpPortsFields
  <2>3. Dec(a).dec = a /\ Dec(b).dec = b
    BY Tokens
  <2>4. p.members[1] = Dec(a) /\ p.members[2] = Dec(b)
    BY <2>2
  <2>5. \A i \in 1 .. 2 : p.members[i].dec \in UShort
    <3>1. p.members[1].dec = a /\ p.members[2].dec = b
      BY <2>3, <2>4
    <3>2. \A i \in 1 .. 2 : i = 1 \/ i = 2
      OBVIOUS
    <3> QED BY <3>1, <3>2
  <2>6. p.none \in BOOLEAN
    BY <2>2
  <2>7. TypedProperty(p)
    BY <1>9, <2>2, <2>5, <2>6, TypesByName
  <2> QED BY <2>2, <2>6, <2>7 DEF TypedAs
<1>10. ASSUME name \in {"wfd_trigger_method", "wfd_presentation_url", "wfd_route",
                        "wfd_uibc_setting", "wfd_standby_resume_capability",
                        "wfd_standby", "wfd_idr_request", "vendor_key"},
              p.type = name, p.none \in BOOLEAN
       PROVE  TypedAs(name, p)
  BY <1>10, TypesByName DEF TypedAs
<1>11. CASE name = "wfd_content_protection"
  <2>1. p \in HeldContentProtection
    BY <1>11, HeldByName
  <2>2. \/ p = NoneProperty(name)
        \/ \E s \in ContentProtection, n \in UInt : p = Property(name, <<Word(s), Dec(n)>>, <<>>)
    BY <1>11, <2>1 DEF HeldContentProtection
  <2>3. CASE p = NoneProperty(name)
    BY <2>3, HeldNoneTyped DEF TypedAs
  <2>4. ASSUME NEW s, NEW n \in UInt, p = Property(name, <<Word(s), Dec(n)>>, <<>>)
        PROVE  TypedAs(name, p)
    <3>1. p.type = name /\ p.none = FALSE /\ p.members[2] = Dec(n)
      BY <2>4 DEF Property
    <3>2. p.members[2].dec \in UInt
      BY <3>1, Tokens
    <3>3. p.none \in BOOLEAN
      BY <3>1
    <3>4. TypedProperty(p)
      BY <1>11, <3>1, <3>2, <3>3, TypesByName
    <3> QED BY <3>1, <3>3, <3>4 DEF TypedAs
  <2> QED BY <2>2, <2>3, <2>4
<1>12. CASE name \in WordTypes
  <2>1. p \in HeldTriggerMethod \/ p \in HeldRoute \/ p \in HeldUIBCSetting
    BY <1>12, HeldByName DEF WordTypes
  <2>2. \E words : p \in HeldWord(name, words)
    BY <1>12, <2>1, HeldByName DEF HeldTriggerMethod, HeldRoute, HeldUIBCSetting, WordTypes
  <2>3. p.type = name /\ p.none = FALSE
    BY <2>2 DEF HeldWord, Property
  <2> QED BY <1>10, <1>12, <2>3 DEF WordTypes
<1>13. CASE name = "wfd_presentation_url"
  <2>0. p \in HeldPresentationUrl
    BY <1>13, HeldByName
  <2>2. PICK u \in FirstUrls, v \in SecondUrls : p = PresentationUrl(u, v)
    BY <2>0 DEF HeldPresentationUrl
  <2>1. p.type = name /\ p.none = FALSE
    BY <1>13, <2>2, PresentationUrlFields
  <2> QED BY <1>10, <1>13, <2>1
<1>14. CASE name = "wfd_I2C"
  <2>1. p \in HeldI2C
    BY <1>14, HeldByName
  <2>2. PICK n \in SInt : p = I2C(Dec(n))
    BY <2>1 DEF HeldI2C
  <2>3. p.type = name /\ p.none = FALSE /\ p.members[1] = Dec(n)
    BY <1>14, <2>2, I2CFields
  <2>4. p.members[1].dec \in SInt
    BY <2>3, Tokens
  <2>5. p.none \in BOOLEAN
    BY <2>3
  <2>6. TypedProperty(p)
    BY <1>14, <2>3, <2>4, <2>5, TypesByName
  <2> QED BY <2>3, <2>5, <2>6 DEF TypedAs
<1>15. CASE name = "wfd_uibc_capability"
  <2>1. p \in HeldUIBCCapability
    BY <1>15, HeldByName
  <2>2. \/ p = NoneProperty(name)
        \/ \E lists \in HeldUIBCLists, n \in SInt : p = UIBCCapability(lists, Dec(n))
    BY <1>15, <2>1 DEF HeldUIBCCapability
  <2>3. CASE p = NoneProperty(name)
    BY <2>3, HeldNoneTyped DEF TypedAs
  <2>4. ASSUME NEW lists, NEW n \in SInt, p = UIBCCapability(lists, Dec(n))
        PROVE  TypedAs(name, p)
    <3>1. p.type = name /\ p.none = FALSE /\ p.members[1] = Dec(n)
      BY <1>15, <2>4 DEF UIBCCapability, Property
    <3>2. p.members[1].dec \in SInt
      BY <3>1, Tokens
    <3>3. p.none \in BOOLEAN
      BY <3>1
    <3>4. TypedProperty(p)
      BY <1>15, <3>1, <3>2, <3>3, TypesByName
    <3> QED BY <3>1, <3>3, <3>4 DEF TypedAs
  <2> QED BY <2>2, <2>3, <2>4
<1>16. CASE name = "wfd_standby_resume_capability"
  <2>1. p \in HeldStandbyResume
    BY <1>16, HeldByName
  <2>2. PICK supported \in BOOLEAN : p = StandbyResumeCapability(supported)
    BY <2>1 DEF HeldStandbyResume
  <2> DEFINE c == StandbyResumeCapability(supported)
  <2>4. c.type = "wfd_standby_resume_capability" /\ c.none = ~supported
    BY StandbyResumeFields
  <2>5. c.none \in BOOLEAN
    BY <2>4
  <2>6. p = c
    BY <2>2
  <2> HIDE DEF c
  <2>3. p.type = name /\ p.none \in BOOLEAN
    BY <1>16, <2>4, <2>5, <2>6
  <2> QED BY <1>10, <1>16, <2>3
<1>17. CASE name \in Bare
  <2>1. p = Property(name, <<>>, <<>>)
    BY <1>17, HeldByName
  <2>2. p.type = name /\ p.none = FALSE
    BY <2>1 DEF Property
  <2> QED BY <1>10, <1>17, <2>2 DEF Bare
<1>18. CASE name = "vendor_key"
  <2>1. p.type = name /\ p.none \in BOOLEAN
    BY <1>18, HeldByName, GenericFields DEF HeldGeneric
  <2> QED BY <1>10, <1>18, <2>1
<1> QED BY <1>1, <1>2, <1>3, <1>4, <1>5, <1>6, <1>7, <1>8, <1>9, <1>11, <1>12, <1>13, <1>14, <1>15, <1>16,
           <1>17, <1>18, ByName DEF WordTypes

----------------------------------------------------------------------------
(* Reading line after line: what has been read after i lines.  One lemma   *)
(* for each of the three readers.                                          *)
HeaderAreRead(lines, n, f) ==
  f = [i \in 0 .. n |-> IF i = 0 THEN {Header} ELSE UNION {ReadHeaderLine(r, lines[i]) : r \in f[i - 1]}]

HeaderReadUpTo(lines) == {n \in Nat : \E f : HeaderAreRead(lines, n, f)}

(* What has been read after each line of a header.                         *)
LEMMA HeaderResults ==
  ASSUME NEW lines, NEW n \in Nat
  PROVE  \E f : HeaderAreRead(lines, n, f)
<1> DEFINE S == HeaderReadUpTo(lines)
           Step(i, g) == UNION {ReadHeaderLine(r, lines[i]) : r \in g}
           E == {Header}
<1>1. 0 \in S
  <2> DEFINE f == [i \in 0 .. 0 |-> E]
  <2>1. f = [i \in 0 .. 0 |-> IF i = 0 THEN E ELSE Step(i, f[i - 1])]
    <3> HIDE DEF E, Step
    <3> QED OBVIOUS
  <2>2. HeaderAreRead(lines, 0, f)
    <3> HIDE DEF f
    <3> QED BY <2>1, Zenon DEF HeaderAreRead
  <2> QED BY <2>2 DEF HeaderReadUpTo
<1>2. ASSUME NEW m \in Nat, m \in S PROVE m + 1 \in S
  <2>1. PICK f : HeaderAreRead(lines, m, f)
    BY <1>2 DEF HeaderReadUpTo
  <2>2. f = [i \in 0 .. m |-> IF i = 0 THEN E ELSE Step(i, f[i - 1])]
    BY <2>1, Zenon DEF HeaderAreRead
  <2> DEFINE g == [i \in 0 .. m + 1 |-> IF i = m + 1 THEN Step(i, f[m]) ELSE f[i]]
  <2> HIDE DEF Step, E
  <2>3. ASSUME NEW i \in 0 .. m + 1 PROVE g[i] = IF i = 0 THEN E ELSE Step(i, g[i - 1])
    <3>1. CASE i = m + 1
      <4>1. g[i] = Step(i, f[m]) /\ i - 1 = m /\ i - 1 \in 0 .. m + 1 /\ i - 1 # m + 1 /\ i # 0
        BY <3>1
      <4>2. g[i - 1] = f[m]
        BY <4>1
      <4> HIDE DEF g
      <4> QED BY <4>1, <4>2
    <3>2. CASE i # m + 1
      <4>1. i \in 0 .. m /\ g[i] = f[i]
        BY <3>2
      <4>2. i # 0 => i - 1 \in 0 .. m + 1 /\ i - 1 # m + 1
        BY <4>1
      <4>3. i # 0 => g[i - 1] = f[i - 1]
        BY <4>2
      <4>4. f[i] = IF i = 0 THEN E ELSE Step(i, f[i - 1])
        BY <2>2, <4>1
      <4> HIDE DEF g
      <4> QED BY <4>1, <4>3, <4>4
    <3> QED BY <3>1, <3>2
  <2>4. g = [i \in 0 .. m + 1 |-> g[i]]
    OBVIOUS
  <2> HIDE DEF g
  <2>5. g = [i \in 0 .. m + 1 |-> IF i = 0 THEN E ELSE Step(i, g[i - 1])]
    BY <2>3, <2>4
  <2>6. HeaderAreRead(lines, m + 1, g)
    BY <2>5, Zenon DEF HeaderAreRead, Step, E
  <2> QED BY <2>6 DEF HeaderReadUpTo
<1> HIDE DEF S
<1>3. Nat \subseteq S
  BY <1>1, <1>2, Induction
<1> QED BY <1>3 DEF S, HeaderReadUpTo

(* Reading a header is reading it line by line.                            *)
LEMMA HeaderAreReadByLine ==
  ASSUME NEW lines, Len(lines) \in Nat
  PROVE  \E f : HeaderAreRead(lines, Len(lines), f) /\ ReadLines(ReadHeaderLine, Header, lines) = f[Len(lines)]
<1>1. \E f : HeaderAreRead(lines, Len(lines), f)
  BY HeaderResults
<1> DEFINE f == CHOOSE f : HeaderAreRead(lines, Len(lines), f)
<1>2. HeaderAreRead(lines, Len(lines), f)
  BY <1>1
<1>3. ReadLines(ReadHeaderLine, Header, lines) = f[Len(lines)]
  BY Zenon DEF ReadLines, HeaderAreRead
<1> HIDE DEF f
<1> QED BY <1>2, <1>3

PropertiesAreRead(lines, n, f) ==
  f = [i \in 0 .. n |-> IF i = 0 THEN {Payload} ELSE UNION {ReadPropertyLine(r, lines[i]) : r \in f[i - 1]}]

PropertiesReadUpTo(lines) == {n \in Nat : \E f : PropertiesAreRead(lines, n, f)}

(* What has been read after each line of properties.                       *)
LEMMA PropertiesResults ==
  ASSUME NEW lines, NEW n \in Nat
  PROVE  \E f : PropertiesAreRead(lines, n, f)
<1> DEFINE S == PropertiesReadUpTo(lines)
           Step(i, g) == UNION {ReadPropertyLine(r, lines[i]) : r \in g}
           E == {Payload}
<1>1. 0 \in S
  <2> DEFINE f == [i \in 0 .. 0 |-> E]
  <2>1. f = [i \in 0 .. 0 |-> IF i = 0 THEN E ELSE Step(i, f[i - 1])]
    <3> HIDE DEF E, Step
    <3> QED OBVIOUS
  <2>2. PropertiesAreRead(lines, 0, f)
    <3> HIDE DEF f
    <3> QED BY <2>1, Zenon DEF PropertiesAreRead
  <2> QED BY <2>2 DEF PropertiesReadUpTo
<1>2. ASSUME NEW m \in Nat, m \in S PROVE m + 1 \in S
  <2>1. PICK f : PropertiesAreRead(lines, m, f)
    BY <1>2 DEF PropertiesReadUpTo
  <2>2. f = [i \in 0 .. m |-> IF i = 0 THEN E ELSE Step(i, f[i - 1])]
    BY <2>1, Zenon DEF PropertiesAreRead
  <2> DEFINE g == [i \in 0 .. m + 1 |-> IF i = m + 1 THEN Step(i, f[m]) ELSE f[i]]
  <2> HIDE DEF Step, E
  <2>3. ASSUME NEW i \in 0 .. m + 1 PROVE g[i] = IF i = 0 THEN E ELSE Step(i, g[i - 1])
    <3>1. CASE i = m + 1
      <4>1. g[i] = Step(i, f[m]) /\ i - 1 = m /\ i - 1 \in 0 .. m + 1 /\ i - 1 # m + 1 /\ i # 0
        BY <3>1
      <4>2. g[i - 1] = f[m]
        BY <4>1
      <4> HIDE DEF g
      <4> QED BY <4>1, <4>2
    <3>2. CASE i # m + 1
      <4>1. i \in 0 .. m /\ g[i] = f[i]
        BY <3>2
      <4>2. i # 0 => i - 1 \in 0 .. m + 1 /\ i - 1 # m + 1
        BY <4>1
      <4>3. i # 0 => g[i - 1] = f[i - 1]
        BY <4>2
      <4>4. f[i] = IF i = 0 THEN E ELSE Step(i, f[i - 1])
        BY <2>2, <4>1
      <4> HIDE DEF g
      <4> QED BY <4>1, <4>3, <4>4
    <3> QED BY <3>1, <3>2
  <2>4. g = [i \in 0 .. m + 1 |-> g[i]]
    OBVIOUS
  <2> HIDE DEF g
  <2>5. g = [i \in 0 .. m + 1 |-> IF i = 0 THEN E ELSE Step(i, g[i - 1])]
    BY <2>3, <2>4
  <2>6. PropertiesAreRead(lines, m + 1, g)
    BY <2>5, Zenon DEF PropertiesAreRead, Step, E
  <2> QED BY <2>6 DEF PropertiesReadUpTo
<1> HIDE DEF S
<1>3. Nat \subseteq S
  BY <1>1, <1>2, Induction
<1> QED BY <1>3 DEF S, PropertiesReadUpTo

(* Reading properties is reading them line by line.                        *)
LEMMA PropertiesAreReadByLine ==
  ASSUME NEW lines, Len(lines) \in Nat
  PROVE  \E f : PropertiesAreRead(lines, Len(lines), f) /\ ReadLines(ReadPropertyLine, Payload, lines) = f[Len(lines)]
<1>1. \E f : PropertiesAreRead(lines, Len(lines), f)
  BY PropertiesResults
<1> DEFINE f == CHOOSE f : PropertiesAreRead(lines, Len(lines), f)
<1>2. PropertiesAreRead(lines, Len(lines), f)
  BY <1>1
<1>3. ReadLines(ReadPropertyLine, Payload, lines) = f[Len(lines)]
  BY Zenon DEF ReadLines, PropertiesAreRead
<1> HIDE DEF f
<1> QED BY <1>2, <1>3

ErrorsAreRead(lines, n, f) ==
  f = [i \in 0 .. n |-> IF i = 0 THEN {Payload} ELSE UNION {ReadErrorLine(r, lines[i]) : r \in f[i - 1]}]

ErrorsReadUpTo(lines) == {n \in Nat : \E f : ErrorsAreRead(lines, n, f)}

(* What has been read after each line of errors.                           *)
LEMMA ErrorsResults ==
  ASSUME NEW lines, NEW n \in Nat
  PROVE  \E f : ErrorsAreRead(lines, n, f)
<1> DEFINE S == ErrorsReadUpTo(lines)
           Step(i, g) == UNION {ReadErrorLine(r, lines[i]) : r \in g}
           E == {Payload}
<1>1. 0 \in S
  <2> DEFINE f == [i \in 0 .. 0 |-> E]
  <2>1. f = [i \in 0 .. 0 |-> IF i = 0 THEN E ELSE Step(i, f[i - 1])]
    <3> HIDE DEF E, Step
    <3> QED OBVIOUS
  <2>2. ErrorsAreRead(lines, 0, f)
    <3> HIDE DEF f
    <3> QED BY <2>1, Zenon DEF ErrorsAreRead
  <2> QED BY <2>2 DEF ErrorsReadUpTo
<1>2. ASSUME NEW m \in Nat, m \in S PROVE m + 1 \in S
  <2>1. PICK f : ErrorsAreRead(lines, m, f)
    BY <1>2 DEF ErrorsReadUpTo
  <2>2. f = [i \in 0 .. m |-> IF i = 0 THEN E ELSE Step(i, f[i - 1])]
    BY <2>1, Zenon DEF ErrorsAreRead
  <2> DEFINE g == [i \in 0 .. m + 1 |-> IF i = m + 1 THEN Step(i, f[m]) ELSE f[i]]
  <2> HIDE DEF Step, E
  <2>3. ASSUME NEW i \in 0 .. m + 1 PROVE g[i] = IF i = 0 THEN E ELSE Step(i, g[i - 1])
    <3>1. CASE i = m + 1
      <4>1. g[i] = Step(i, f[m]) /\ i - 1 = m /\ i - 1 \in 0 .. m + 1 /\ i - 1 # m + 1 /\ i # 0
        BY <3>1
      <4>2. g[i - 1] = f[m]
        BY <4>1
      <4> HIDE DEF g
      <4> QED BY <4>1, <4>2
    <3>2. CASE i # m + 1
      <4>1. i \in 0 .. m /\ g[i] = f[i]
        BY <3>2
      <4>2. i # 0 => i - 1 \in 0 .. m + 1 /\ i - 1 # m + 1
        BY <4>1
      <4>3. i # 0 => g[i - 1] = f[i - 1]
        BY <4>2
      <4>4. f[i] = IF i = 0 THEN E ELSE Step(i, f[i - 1])
        BY <2>2, <4>1
      <4> HIDE DEF g
      <4> QED BY <4>1, <4>3, <4>4
    <3> QED BY <3>1, <3>2
  <2>4. g = [i \in 0 .. m + 1 |-> g[i]]
    OBVIOUS
  <2> HIDE DEF g
  <2>5. g = [i \in 0 .. m + 1 |-> IF i = 0 THEN E ELSE Step(i, g[i - 1])]
    BY <2>3, <2>4
  <2>6. ErrorsAreRead(lines, m + 1, g)
    BY <2>5, Zenon DEF ErrorsAreRead, Step, E
  <2> QED BY <2>6 DEF ErrorsReadUpTo
<1> HIDE DEF S
<1>3. Nat \subseteq S
  BY <1>1, <1>2, Induction
<1> QED BY <1>3 DEF S, ErrorsReadUpTo

(* Reading errors is reading them line by line.                            *)
LEMMA ErrorsAreReadByLine ==
  ASSUME NEW lines, Len(lines) \in Nat
  PROVE  \E f : ErrorsAreRead(lines, Len(lines), f) /\ ReadLines(ReadErrorLine, Payload, lines) = f[Len(lines)]
<1>1. \E f : ErrorsAreRead(lines, Len(lines), f)
  BY ErrorsResults
<1> DEFINE f == CHOOSE f : ErrorsAreRead(lines, Len(lines), f)
<1>2. ErrorsAreRead(lines, Len(lines), f)
  BY <1>1
<1>3. ReadLines(ReadErrorLine, Payload, lines) = f[Len(lines)]
  BY Zenon DEF ReadLines, ErrorsAreRead
<1> HIDE DEF f
<1> QED BY <1>2, <1>3

----------------------------------------------------------------------------
(* Maps from the names of the exchange.                                    *)
PutIn(map, key, value, put) ==
  /\ DOMAIN put = {key} \cup DOMAIN map /\ put[key] = value
  /\ \A k \in DOMAIN map : k # key => put[k] = map[k]
  /\ put = [k \in DOMAIN put |-> put[k]]

(* A map with one entry more, or another value for one.                    *)
LEMMA PutIsIn ==
  ASSUME NEW map, NEW key, NEW value
  PROVE  PutIn(map, key, value, Put(map, key, value))
<1> DEFINE put == Put(map, key, value)
<1>1. /\ DOMAIN put = {key} \cup DOMAIN map /\ put[key] = value
      /\ \A k \in DOMAIN map : k # key => put[k] = map[k]
      /\ put = [k \in DOMAIN put |-> put[k]]
  BY DEF Put
<1> HIDE DEF put
<1>2. PutIn(map, key, value, put)
  BY <1>1 DEF PutIn
<1> QED BY <1>2 DEF put

(* What a payload may hold.                                                *)
Codes == Seq(UShort) \ {<<>>}

HeldProperties(map) ==
  /\ map = [n \in DOMAIN map |-> map[n]] /\ DOMAIN map \subseteq Names
  /\ \A n \in DOMAIN map : map[n] \in HeldAs(n)

HeldErrors(map) ==
  /\ map = [n \in DOMAIN map |-> map[n]] /\ DOMAIN map \subseteq Names
  /\ \A n \in DOMAIN map : map[n] \in Codes

PayloadOf(properties, parameters, errors) ==
  [properties |-> properties, parameters |-> parameters, errors |-> errors]

HeldPayload(p) ==
  /\ p = PayloadOf(p.properties, p.parameters, p.errors)
  /\ HeldProperties(p.properties) /\ p.parameters \in Seq(Names) /\ HeldErrors(p.errors)

(* Where a payload may be: errors in a reply with 303, which has nothing   *)
(* else, and names only where there are no properties.                     *)
ErrorReply(kind, code) == kind = "REPLY" /\ code = 303

HeldIn(kind, code, p) ==
  /\ HeldPayload(p)
  /\ p.parameters # <<>> => p.properties = <<>>
  /\ IF ErrorReply(kind, code) THEN p.properties = <<>> /\ p.parameters = <<>> ELSE p.errors = <<>>

(* The three parts of a payload.                                           *)
LEMMA PayloadFields ==
  ASSUME NEW a, NEW b, NEW c
  PROVE  PayloadOf(a, b, c).properties = a /\ PayloadOf(a, b, c).parameters = b /\ PayloadOf(a, b, c).errors = c
  BY DEF PayloadOf

(* The empty map.                                                          *)
LEMMA NoMap ==
  HeldProperties(<<>>) /\ HeldErrors(<<>>) /\ <<>> \in Seq(Names) /\ DOMAIN <<>> = {}
<1>1. DOMAIN <<>> = {}
  OBVIOUS
<1>2. <<>> = [n \in DOMAIN <<>> |-> <<>>[n]]
  BY <1>1
<1> QED BY <1>1, <1>2 DEF HeldProperties, HeldErrors

(* A map with no names is the empty one.                                   *)
LEMMA EmptyMap ==
  ASSUME NEW map, map = [n \in DOMAIN map |-> map[n]], DOMAIN map = {}
  PROVE  map = <<>>
  OBVIOUS

(* The empty payload can be held in any message.                           *)
LEMMA EmptyPayload ==
  /\ Payload = PayloadOf(<<>>, <<>>, <<>>) /\ HeldPayload(Payload)
  /\ \A kind, code : HeldIn(kind, code, Payload)
<1>1. Payload = PayloadOf(<<>>, <<>>, <<>>)
  BY DEF Payload, PayloadOf
<1>2. Payload.properties = <<>> /\ Payload.parameters = <<>> /\ Payload.errors = <<>>
  BY <1>1, PayloadFields
<1>3. HeldPayload(Payload)
  BY <1>1, <1>2, NoMap DEF HeldPayload
<1> QED BY <1>1, <1>2, <1>3 DEF HeldIn

----------------------------------------------------------------------------
(* The lines of a body, of properties and names or of errors.              *)
LineOf(name, colon, tokens) == [name |-> name, colon |-> colon, tokens |-> tokens]

WellFormed(line) ==
  /\ line = LineOf(line.name, line.colon, line.tokens)
  /\ line.name \in Names /\ line.colon \in BOOLEAN
  /\ line.colon => line.tokens \in Seq(PropertyText(line.name))

ErrorLine(line) ==
  /\ line = LineOf(line.name, line.colon, line.tokens)
  /\ line.name \in Names /\ line.tokens \in Seq(PlainText)

WellFormedBody(kind, code, body) ==
  /\ Len(body) \in Nat /\ body = [i \in 1 .. Len(body) |-> body[i]]
  /\ \A i \in 1 .. Len(body) : IF ErrorReply(kind, code) THEN ErrorLine(body[i]) ELSE WellFormed(body[i])

(* The parts of a line.                                                    *)
LEMMA LineFields ==
  ASSUME NEW a, NEW b, NEW c
  PROVE  /\ LineOf(a, b, c).name = a /\ LineOf(a, b, c).colon = b /\ LineOf(a, b, c).tokens = c
         /\ Line(a, c) = LineOf(a, TRUE, c) /\ BareLine(a) = LineOf(a, FALSE, <<>>)
  BY DEF LineOf, Line, BareLine

(* A line of a property that was read.                                     *)
OnlyProperties(p) == HeldPayload(p) /\ p.parameters = <<>> /\ p.errors = <<>>
OnlyErrors(p) == HeldPayload(p) /\ p.properties = <<>> /\ p.parameters = <<>>

(* A payload with one property more.                                       *)
LEMMA PropertyAdded ==
  ASSUME NEW payload, OnlyProperties(payload), NEW name \in Names, NEW p \in HeldAs(name)
  PROVE  /\ OnlyProperties(AddProperty(payload, p))
         /\ AddProperty(payload, p) = PayloadOf(Put(payload.properties, name, p), <<>>, <<>>)
<1> DEFINE map == Put(payload.properties, name, p)
<1>1. p.type = name
  BY HeldIsTyped DEF TypedAs
<1>2. payload = PayloadOf(payload.properties, <<>>, <<>>) /\ HeldProperties(payload.properties)
  BY DEF OnlyProperties, HeldPayload
<1>3. AddProperty(payload, p) = [payload EXCEPT !.properties = map]
  BY <1>1, Zenon DEF AddProperty
<1>4. HeldProperties(map)
  <2>0. PutIn(payload.properties, name, p, map)
    BY PutIsIn
  <2> HIDE DEF map
  <2>1. /\ DOMAIN map = {name} \cup DOMAIN payload.properties
        /\ map[name] = p
        /\ \A k \in DOMAIN payload.properties : k # name => map[k] = payload.properties[k]
        /\ map = [k \in DOMAIN map |-> map[k]]
    BY <2>0 DEF PutIn
  <2>2. DOMAIN payload.properties \subseteq Names /\ \A k \in DOMAIN payload.properties : payload.properties[k] \in HeldAs(k)
    BY <1>2 DEF HeldProperties
  <2>3. ASSUME NEW k \in DOMAIN map PROVE map[k] \in HeldAs(k)
    BY <2>1, <2>2
  <2> QED BY <2>1, <2>2, <2>3 DEF HeldProperties
<1> HIDE DEF map
<1>5. AddProperty(payload, p) = PayloadOf(map, <<>>, <<>>)
  BY <1>2, <1>3 DEF PayloadOf
<1>6. OnlyProperties(PayloadOf(map, <<>>, <<>>))
  <2> DEFINE r == PayloadOf(map, <<>>, <<>>)
  <2>1. r.properties = map /\ r.parameters = <<>> /\ r.errors = <<>>
    BY PayloadFields
  <2>2. r = PayloadOf(r.properties, r.parameters, r.errors)
    BY <2>1
  <2> HIDE DEF r
  <2>3. HeldPayload(r)
    BY <1>4, <2>1, <2>2, NoMap DEF HeldPayload
  <2>4. OnlyProperties(r)
    BY <2>1, <2>3 DEF OnlyProperties
  <2> QED BY <2>4 DEF r
<1> QED BY <1>5, <1>6 DEF map

(* A line of a body adds properties to a payload of properties.            *)
LEMMA PropertyLineRead ==
  ASSUME NEW payload, OnlyProperties(payload), NEW line, WellFormed(line),
         NEW q \in ReadPropertyLine(payload, line)
  PROVE  OnlyProperties(q)
<1>1. PICK p : /\ p \in IF line.colon THEN ReadProperty(line.name, line.tokens)
                        ELSE When(line.name \in Bare, Property(line.name, <<>>, <<>>))
               /\ q = AddProperty(payload, p)
  BY DEF ReadPropertyLine
<1>2. line.name \in Names /\ line.colon \in BOOLEAN
  BY DEF WellFormed
<1>3. p \in HeldAs(line.name)
  <2>1. CASE line.colon
    <3>1. line.tokens \in Seq(PropertyText(line.name))
      BY <2>1 DEF WellFormed
    <3>2. p \in ReadProperty(line.name, line.tokens)
      BY <1>1, <2>1
    <3> QED BY <1>2, <3>1, <3>2, ReadIsHeld
  <2>2. CASE ~line.colon
    BY <1>1, <2>2, HeldByName DEF When
  <2> QED BY <2>1, <2>2
<1> QED BY <1>1, <1>2, <1>3, PropertyAdded

(* A line of errors adds errors to a payload of errors.                    *)
LEMMA ErrorLineRead ==
  ASSUME NEW payload, OnlyErrors(payload), NEW line, ErrorLine(line),
         NEW q \in ReadErrorLine(payload, line)
  PROVE  OnlyErrors(q)
<1> DEFINE items == Items(1, line.tokens)
           codes == [k \in DOMAIN items |-> AsUShort(items[k][1])]
           map == Put(payload.errors, line.name, codes)
           P == <<{"NUM"}>>
<1>1. IsList(P, line.tokens) /\ q = [payload EXCEPT !.errors = map]
  <2> DEFINE ok == line.colon /\ line.name # "wfd_standby" /\ IsList(P, line.tokens)
             r == [payload EXCEPT !.errors = map]
  <2>1. q \in When(ok, r)
    BY SMT DEF ReadErrorLine
  <2>2. ok => IsList(P, line.tokens)
    OBVIOUS
  <2> HIDE DEF ok, r, P
  <2>3. ok /\ q = r
    BY <2>1 DEF When
  <2> QED BY <2>2, <2>3 DEF r
<1>2. codes \in Codes
  <2>1. 1 \in Lengths /\ Len(P) = 1 /\ line.tokens \in Seq(PlainText)
    BY DEF Lengths, ErrorLine
  <2> DEFINE t == line.tokens
  <2> HIDE DEF P, t
  <2>8. t \in Seq(PlainText) /\ IsList(P, t)
    BY <1>1, <2>1 DEF t
  <2>2. PICK K \in Nat \ {0} :
          /\ DOMAIN Items(1, t) = 1 .. K
          /\ \A k \in 1 .. K : /\ Item(1, t, k) \in Seq(PlainText) /\ Len(Item(1, t, k)) = 1
                               /\ Derives(P, Item(1, t, k))
    <3> DEFINE n == 1
    <3>1. n \in Lengths /\ Len(P) = n
      BY <2>1
    <3> HIDE DEF n
    <3>2. \E K \in Nat \ {0} :
          /\ DOMAIN Items(n, t) = 1 .. K
          /\ \A k \in 1 .. K : /\ Item(n, t, k) \in Seq(PlainText) /\ Len(Item(n, t, k)) = n
                               /\ Derives(P, Item(n, t, k))
      BY <2>8, <3>1, ListRead
    <3> QED BY <3>2 DEF n
  <2>3. \A k \in 1 .. K : Items(1, t)[k] = Item(1, t, k)
    BY <2>2 DEF Items
  <2>4. ASSUME NEW k \in 1 .. K PROVE AsUShort(Items(1, t)[k][1]) \in UShort
    <3> DEFINE item == Item(1, t, k)
    <3>1. item \in Seq(PlainText) /\ Derives(<<{"NUM"}>>, item)
      BY <2>2 DEF P
    <3> HIDE DEF item
    <3>2. item[1] \in PlainText /\ Terminal(item[1]) \in {"NUM"}
      <4> DEFINE A == {"NUM"}
      <4>1. Derives(<<A>>, item)
        BY <3>1
      <4> HIDE DEF A
      <4>2. item[1] \in PlainText /\ Terminal(item[1]) \in A
        BY <3>1, <4>1, OneRead
      <4> QED BY <4>2 DEF A
    <3>3. PICK n \in Nat : item[1] = Dec(n)
      BY <3>2, PlainTokens
    <3>4. AsUShort(item[1]) \in UShort
      BY <3>3, Converted
    <3> QED BY <2>3, <3>4 DEF item
  <2> DEFINE c == [k \in 1 .. K |-> AsUShort(Items(1, t)[k][1])]
  <2>5. codes = c
    BY <2>2 DEF t
  <2>6. c \in Seq(UShort) /\ Len(c) = K
    BY <2>4
  <2> HIDE DEF c, codes
  <2>7. c # <<>>
    BY <2>6
  <2> QED BY <2>5, <2>6, <2>7 DEF Codes
<1> HIDE DEF codes
<1>3. HeldErrors(payload.errors) /\ payload = PayloadOf(<<>>, <<>>, payload.errors) /\ line.name \in Names
  BY DEF OnlyErrors, HeldPayload, ErrorLine
<1>4. HeldErrors(map)
  <2>0. PutIn(payload.errors, line.name, codes, map)
    BY PutIsIn
  <2> HIDE DEF map
  <2>1. /\ DOMAIN map = {line.name} \cup DOMAIN payload.errors
        /\ map[line.name] = codes
        /\ \A k \in DOMAIN payload.errors : k # line.name => map[k] = payload.errors[k]
        /\ map = [k \in DOMAIN map |-> map[k]]
    BY <2>0 DEF PutIn
  <2>2. DOMAIN payload.errors \subseteq Names /\ \A k \in DOMAIN payload.errors : payload.errors[k] \in Codes
    BY <1>3 DEF HeldErrors
  <2>3. ASSUME NEW k \in DOMAIN map PROVE map[k] \in Codes
    BY <1>2, <2>1, <2>2
  <2> QED BY <1>3, <2>1, <2>2, <2>3 DEF HeldErrors
<1> HIDE DEF map
<1>5. q = PayloadOf(<<>>, <<>>, map)
  BY <1>1, <1>3 DEF PayloadOf
<1>6. q.properties = <<>> /\ q.parameters = <<>> /\ q.errors = map
  BY <1>5, PayloadFields
<1>7. q = PayloadOf(q.properties, q.parameters, q.errors)
  BY <1>5, <1>6
<1>8. HeldPayload(q)
  BY <1>4, <1>6, <1>7, NoMap DEF HeldPayload
<1> QED BY <1>6, <1>8 DEF OnlyErrors

----------------------------------------------------------------------------
(* Every header that can be read is good if the empty one is and every     *)
(* line keeps it so; and lines that build one header after another are     *)
(* read as the last of them.  So for properties and for errors.            *)

(* The same for the lines of properties.                                   *)
LEMMA PropertiesAllRead ==
  ASSUME NEW lines, Len(lines) \in Nat, NEW Good, Payload \in Good,
         \A i \in 1 .. Len(lines) : \A r \in Good : ReadPropertyLine(r, lines[i]) \subseteq Good
  PROVE  ReadLines(ReadPropertyLine, Payload, lines) \subseteq Good
<1>1. PICK f : PropertiesAreRead(lines, Len(lines), f) /\ ReadLines(ReadPropertyLine, Payload, lines) = f[Len(lines)]
  BY PropertiesAreReadByLine
<1> DEFINE n == Len(lines)
<1> HIDE DEF n
<1>2. n \in Nat /\ \A i \in 0 .. n : f[i] = IF i = 0 THEN {Payload} ELSE UNION {ReadPropertyLine(r, lines[i]) : r \in f[i - 1]}
  <2>1. f = [i \in 0 .. n |-> IF i = 0 THEN {Payload} ELSE UNION {ReadPropertyLine(r, lines[i]) : r \in f[i - 1]}]
    BY <1>1, Zenon DEF PropertiesAreRead, n
  <2> QED BY <2>1 DEF n
<1> DEFINE S == {i \in Nat : i <= n => f[i] \subseteq Good}
<1>3. 0 \in S
  <2>1. 0 \in 0 .. n
    BY <1>2
  <2>2. f[0] = {Payload}
    BY <1>2, <2>1
  <2> QED BY <2>2
<1>4. ASSUME NEW i \in Nat, i \in S PROVE i + 1 \in S
  <2> SUFFICES ASSUME i + 1 <= n PROVE f[i + 1] \subseteq Good
    OBVIOUS
  <2> DEFINE j == i + 1
  <2>1. j \in 1 .. n /\ j \in 0 .. n /\ j # 0 /\ j - 1 = i /\ f[i] \subseteq Good
    BY <1>2, <1>4
  <2> HIDE DEF j
  <2>2. f[j] = UNION {ReadPropertyLine(r, lines[j]) : r \in f[j - 1]}
    BY <1>2, <2>1
  <2>3. f[j] = UNION {ReadPropertyLine(r, lines[j]) : r \in f[i]}
    BY <2>1, <2>2
  <2>4. \A r \in f[i] : ReadPropertyLine(r, lines[j]) \subseteq Good
    BY <2>1 DEF n
  <2>5. f[j] \subseteq Good
    BY <2>3, <2>4
  <2> QED BY <2>5 DEF j
<1> HIDE DEF S
<1>5. Nat \subseteq S
  BY <1>3, <1>4, Induction
<1>6. n \in S
  BY <1>2, <1>5
<1>7. f[n] \subseteq Good
  BY <1>2, <1>6 DEF S
<1> QED BY <1>1, <1>7 DEF n

(* Lines that each make one payload of the one before.                    *)
LEMMA PropertiesOneRead ==
  ASSUME NEW lines, Len(lines) \in Nat, NEW g, g[0] = Payload,
         \A i \in 1 .. Len(lines) : ReadPropertyLine(g[i - 1], lines[i]) = {g[i]}
  PROVE  ReadLines(ReadPropertyLine, Payload, lines) = {g[Len(lines)]}
<1>1. PICK f : PropertiesAreRead(lines, Len(lines), f) /\ ReadLines(ReadPropertyLine, Payload, lines) = f[Len(lines)]
  BY PropertiesAreReadByLine
<1> DEFINE n == Len(lines)
<1> HIDE DEF n
<1>2. n \in Nat /\ \A i \in 0 .. n : f[i] = IF i = 0 THEN {Payload} ELSE UNION {ReadPropertyLine(r, lines[i]) : r \in f[i - 1]}
  <2>1. f = [i \in 0 .. n |-> IF i = 0 THEN {Payload} ELSE UNION {ReadPropertyLine(r, lines[i]) : r \in f[i - 1]}]
    BY <1>1, Zenon DEF PropertiesAreRead, n
  <2> QED BY <2>1 DEF n
<1> DEFINE S == {i \in Nat : i <= n => f[i] = {g[i]}}
<1>3. 0 \in S
  <2>1. 0 \in 0 .. n
    BY <1>2
  <2>2. f[0] = {g[0]}
    BY <1>2, <2>1
  <2> QED BY <2>2
<1>4. ASSUME NEW i \in Nat, i \in S PROVE i + 1 \in S
  <2> SUFFICES ASSUME i + 1 <= n PROVE f[i + 1] = {g[i + 1]}
    OBVIOUS
  <2> DEFINE j == i + 1
  <2>1. j \in 1 .. n /\ j \in 0 .. n /\ j # 0 /\ j - 1 = i /\ f[i] = {g[i]}
    BY <1>2, <1>4
  <2> HIDE DEF j
  <2>2. f[j] = UNION {ReadPropertyLine(r, lines[j]) : r \in f[j - 1]}
    BY <1>2, <2>1
  <2>3. f[j] = UNION {ReadPropertyLine(r, lines[j]) : r \in {g[i]}}
    BY <2>1, <2>2
  <2>4. ReadPropertyLine(g[i], lines[j]) = {g[j]}
    BY <2>1 DEF n
  <2>5. f[j] = {g[j]}
    BY <2>3, <2>4
  <2> QED BY <2>5 DEF j
<1> HIDE DEF S
<1>5. Nat \subseteq S
  BY <1>3, <1>4, Induction
<1>6. n \in S
  BY <1>2, <1>5
<1>7. f[n] = {g[n]}
  BY <1>2, <1>6 DEF S
<1> QED BY <1>1, <1>7 DEF n

(* The same for the lines of errors.                                       *)
LEMMA ErrorsAllRead ==
  ASSUME NEW lines, Len(lines) \in Nat, NEW Good, Payload \in Good,
         \A i \in 1 .. Len(lines) : \A r \in Good : ReadErrorLine(r, lines[i]) \subseteq Good
  PROVE  ReadLines(ReadErrorLine, Payload, lines) \subseteq Good
<1>1. PICK f : ErrorsAreRead(lines, Len(lines), f) /\ ReadLines(ReadErrorLine, Payload, lines) = f[Len(lines)]
  BY ErrorsAreReadByLine
<1> DEFINE n == Len(lines)
<1> HIDE DEF n
<1>2. n \in Nat /\ \A i \in 0 .. n : f[i] = IF i = 0 THEN {Payload} ELSE UNION {ReadErrorLine(r, lines[i]) : r \in f[i - 1]}
  <2>1. f = [i \in 0 .. n |-> IF i = 0 THEN {Payload} ELSE UNION {ReadErrorLine(r, lines[i]) : r \in f[i - 1]}]
    BY <1>1, Zenon DEF ErrorsAreRead, n
  <2> QED BY <2>1 DEF n
<1> DEFINE S == {i \in Nat : i <= n => f[i] \subseteq Good}
<1>3. 0 \in S
  <2>1. 0 \in 0 .. n
    BY <1>2
  <2>2. f[0] = {Payload}
    BY <1>2, <2>1
  <2> QED BY <2>2
<1>4. ASSUME NEW i \in Nat, i \in S PROVE i + 1 \in S
  <2> SUFFICES ASSUME i + 1 <= n PROVE f[i + 1] \subseteq Good
    OBVIOUS
  <2> DEFINE j == i + 1
  <2>1. j \in 1 .. n /\ j \in 0 .. n /\ j # 0 /\ j - 1 = i /\ f[i] \subseteq Good
    BY <1>2, <1>4
  <2> HIDE DEF j
  <2>2. f[j] = UNION {ReadErrorLine(r, lines[j]) : r \in f[j - 1]}
    BY <1>2, <2>1
  <2>3. f[j] = UNION {ReadErrorLine(r, lines[j]) : r \in f[i]}
    BY <2>1, <2>2
  <2>4. \A r \in f[i] : ReadErrorLine(r, lines[j]) \subseteq Good
    BY <2>1 DEF n
  <2>5. f[j] \subseteq Good
    BY <2>3, <2>4
  <2> QED BY <2>5 DEF j
<1> HIDE DEF S
<1>5. Nat \subseteq S
  BY <1>3, <1>4, Induction
<1>6. n \in S
  BY <1>2, <1>5
<1>7. f[n] \subseteq Good
  BY <1>2, <1>6 DEF S
<1> QED BY <1>1, <1>7 DEF n

(* Lines that each make one payload of the one before.                    *)
LEMMA ErrorsOneRead ==
  ASSUME NEW lines, Len(lines) \in Nat, NEW g, g[0] = Payload,
         \A i \in 1 .. Len(lines) : ReadErrorLine(g[i - 1], lines[i]) = {g[i]}
  PROVE  ReadLines(ReadErrorLine, Payload, lines) = {g[Len(lines)]}
<1>1. PICK f : ErrorsAreRead(lines, Len(lines), f) /\ ReadLines(ReadErrorLine, Payload, lines) = f[Len(lines)]
  BY ErrorsAreReadByLine
<1> DEFINE n == Len(lines)
<1> HIDE DEF n
<1>2. n \in Nat /\ \A i \in 0 .. n : f[i] = IF i = 0 THEN {Payload} ELSE UNION {ReadErrorLine(r, lines[i]) : r \in f[i - 1]}
  <2>1. f = [i \in 0 .. n |-> IF i = 0 THEN {Payload} ELSE UNION {ReadErrorLine(r, lines[i]) : r \in f[i - 1]}]
    BY <1>1, Zenon DEF ErrorsAreRead, n
  <2> QED BY <2>1 DEF n
<1> DEFINE S == {i \in Nat : i <= n => f[i] = {g[i]}}
<1>3. 0 \in S
  <2>1. 0 \in 0 .. n
    BY <1>2
  <2>2. f[0] = {g[0]}
    BY <1>2, <2>1
  <2> QED BY <2>2
<1>4. ASSUME NEW i \in Nat, i \in S PROVE i + 1 \in S
  <2> SUFFICES ASSUME i + 1 <= n PROVE f[i + 1] = {g[i + 1]}
    OBVIOUS
  <2> DEFINE j == i + 1
  <2>1. j \in 1 .. n /\ j \in 0 .. n /\ j # 0 /\ j - 1 = i /\ f[i] = {g[i]}
    BY <1>2, <1>4
  <2> HIDE DEF j
  <2>2. f[j] = UNION {ReadErrorLine(r, lines[j]) : r \in f[j - 1]}
    BY <1>2, <2>1
  <2>3. f[j] = UNION {ReadErrorLine(r, lines[j]) : r \in {g[i]}}
    BY <2>1, <2>2
  <2>4. ReadErrorLine(g[i], lines[j]) = {g[j]}
    BY <2>1 DEF n
  <2>5. f[j] = {g[j]}
    BY <2>3, <2>4
  <2> QED BY <2>5 DEF j
<1> HIDE DEF S
<1>5. Nat \subseteq S
  BY <1>3, <1>4, Induction
<1>6. n \in S
  BY <1>2, <1>5
<1>7. f[n] = {g[n]}
  BY <1>2, <1>6 DEF S
<1> QED BY <1>1, <1>7 DEF n

----------------------------------------------------------------------------
(* The payloads that lines of properties, and lines of errors, can make.   *)
AnyProperty == UNION {HeldAs(n) : n \in Names}
PropertyPayloads ==
  {PayloadOf(map, <<>>, <<>>) : map \in UNION {[D -> AnyProperty] : D \in SUBSET Names}}
ErrorPayloads ==
  {PayloadOf(<<>>, <<>>, map) : map \in UNION {[D -> Codes] : D \in SUBSET Names}}

(* The payloads of properties, and of errors, as sets.                     *)
LEMMA ArePayloads ==
  ASSUME NEW p
  PROVE  /\ OnlyProperties(p) => p \in PropertyPayloads
         /\ OnlyErrors(p) => p \in ErrorPayloads
<1>1. ASSUME OnlyProperties(p) PROVE p \in PropertyPayloads
  <2> DEFINE map == p.properties
             D == DOMAIN map
  <2>1. HeldProperties(map) /\ p = PayloadOf(map, <<>>, <<>>)
    BY <1>1 DEF OnlyProperties, HeldPayload
  <2> HIDE DEF map
  <2>2. D \in SUBSET Names /\ map = [n \in D |-> map[n]] /\ \A n \in D : map[n] \in HeldAs(n)
    BY <2>1 DEF HeldProperties
  <2> HIDE DEF D
  <2>3. \A n \in D : map[n] \in AnyProperty
    BY <2>2 DEF AnyProperty
  <2>4. map \in [D -> AnyProperty]
    BY <2>2, <2>3
  <2>5. map \in UNION {[E -> AnyProperty] : E \in SUBSET Names}
    BY <2>2, <2>4
  <2> QED BY <2>1, <2>5 DEF PropertyPayloads
<1>2. ASSUME OnlyErrors(p) PROVE p \in ErrorPayloads
  <2> DEFINE map == p.errors
             D == DOMAIN map
  <2>1. HeldErrors(map) /\ p = PayloadOf(<<>>, <<>>, map)
    BY <1>2 DEF OnlyErrors, HeldPayload
  <2> HIDE DEF map
  <2>2. D \in SUBSET Names /\ map = [n \in D |-> map[n]] /\ \A n \in D : map[n] \in Codes
    BY <2>1 DEF HeldErrors
  <2> HIDE DEF D
  <2>4. map \in [D -> Codes]
    BY <2>2
  <2>5. map \in UNION {[E -> Codes] : E \in SUBSET Names}
    BY <2>2, <2>4
  <2> QED BY <2>1, <2>5 DEF ErrorPayloads
<1> QED BY <1>1, <1>2

(* Reading begins with a payload of either kind.                           *)
LEMMA StartPayloads == OnlyProperties(Payload) /\ OnlyErrors(Payload)
<1>1. Payload.properties = <<>> /\ Payload.parameters = <<>> /\ Payload.errors = <<>>
  BY DEF Payload
<1> QED BY <1>1, EmptyPayload DEF OnlyProperties, OnlyErrors

(* What lines of properties, or of errors, are read as is held.            *)
LEMMA PropertiesHeld ==
  ASSUME NEW lines, Len(lines) \in Nat, \A i \in 1 .. Len(lines) : WellFormed(lines[i]),
         NEW q \in ReadLines(ReadPropertyLine, Payload, lines)
  PROVE  OnlyProperties(q)
<1> DEFINE Good == {p \in PropertyPayloads : OnlyProperties(p)}
<1>1. Payload \in Good
  BY StartPayloads, ArePayloads
<1>2. ASSUME NEW i \in 1 .. Len(lines), NEW r \in Good PROVE ReadPropertyLine(r, lines[i]) \subseteq Good
  <2>1. SUFFICES ASSUME NEW s \in ReadPropertyLine(r, lines[i]) PROVE s \in Good
    OBVIOUS
  <2>2. OnlyProperties(s)
    BY PropertyLineRead
  <2> QED BY <2>2, ArePayloads
<1>4. \A p \in Good : OnlyProperties(p)
  OBVIOUS
<1> HIDE DEF Good
<1>3. ReadLines(ReadPropertyLine, Payload, lines) \subseteq Good
  BY <1>1, <1>2, PropertiesAllRead
<1> QED BY <1>3, <1>4

(* There is no production for errors of wfd_standby.                       *)
LEMMA ErrorIsRead ==
  ASSUME NEW payload, NEW line, NEW q \in ReadErrorLine(payload, line)
  PROVE  /\ line.colon /\ line.name # "wfd_standby" /\ IsList(<<{"NUM"}>>, line.tokens)
         /\ q = [payload EXCEPT !.errors = Put(payload.errors, line.name,
                  [k \in DOMAIN Items(1, line.tokens) |-> AsUShort(Items(1, line.tokens)[k][1])])]
<1> DEFINE codes == [k \in DOMAIN Items(1, line.tokens) |-> AsUShort(Items(1, line.tokens)[k][1])]
           map == Put(payload.errors, line.name, codes)
           ok == line.colon /\ line.name # "wfd_standby" /\ IsList(<<{"NUM"}>>, line.tokens)
           r == [payload EXCEPT !.errors = map]
<1>1. q \in When(ok, r)
  BY SMT DEF ReadErrorLine
<1> HIDE DEF ok, r
<1>2. ok /\ q = r
  BY <1>1 DEF When
<1> QED BY <1>2 DEF ok, r

ErrorsOf(p) == OnlyErrors(p) /\ "wfd_standby" \notin DOMAIN p.errors

(* Only errors are read from lines of errors.                              *)
LEMMA ErrorsHeld ==
  ASSUME NEW lines, Len(lines) \in Nat, \A i \in 1 .. Len(lines) : ErrorLine(lines[i]),
         NEW q \in ReadLines(ReadErrorLine, Payload, lines)
  PROVE  ErrorsOf(q)
<1> DEFINE Good == {p \in ErrorPayloads : ErrorsOf(p)}
<1>1. Payload \in Good
  <2>1. Payload.errors = <<>> /\ DOMAIN <<>> = {}
    BY DEF Payload
  <2> QED BY <2>1, StartPayloads, ArePayloads DEF ErrorsOf
<1>2. ASSUME NEW i \in 1 .. Len(lines), NEW r \in Good PROVE ReadErrorLine(r, lines[i]) \subseteq Good
  <2>1. SUFFICES ASSUME NEW s \in ReadErrorLine(r, lines[i]) PROVE s \in Good
    OBVIOUS
  <2> DEFINE line == lines[i]
             codes == [k \in DOMAIN Items(1, line.tokens) |-> AsUShort(Items(1, line.tokens)[k][1])]
             ok == line.colon /\ line.name # "wfd_standby" /\ IsList(<<{"NUM"}>>, line.tokens)
             map == Put(r.errors, line.name, codes)
             new == [r EXCEPT !.errors = map]
  <2>2. OnlyErrors(s)
    BY ErrorLineRead DEF ErrorsOf
  <2>3. ok /\ s = new
    BY ErrorIsRead
  <2>4. ok => line.name # "wfd_standby"
    OBVIOUS
  <2>5. PutIn(r.errors, line.name, codes, map)
    BY PutIsIn
  <2>6. r = PayloadOf(<<>>, <<>>, r.errors) /\ "wfd_standby" \notin DOMAIN r.errors
    BY DEF ErrorsOf, OnlyErrors, HeldPayload
  <2> HIDE DEF ok, map, codes, line
  <2>8. s = PayloadOf(<<>>, <<>>, map)
    BY <2>6, <2>3 DEF PayloadOf
  <2>9. s.errors = map
    BY <2>8, PayloadFields
  <2>10. "wfd_standby" \notin DOMAIN map
    BY <2>4, <2>5, <2>6, <2>3 DEF PutIn
  <2> QED BY <2>2, <2>9, <2>10, ArePayloads DEF ErrorsOf
<1>4. \A p \in Good : ErrorsOf(p)
  OBVIOUS
<1> HIDE DEF Good
<1>3. ReadLines(ReadErrorLine, Payload, lines) \subseteq Good
  BY <1>1, <1>2, ErrorsAllRead
<1> QED BY <1>3, <1>4

----------------------------------------------------------------------------
(* Which lexer reads the body that follows a header.                       *)
LEMMA LexerIs ==
  ASSUME NEW message, message # NoMessage
  PROVE  LexerFor(message) =
           IF ErrorReply(message.kind, message.code) THEN "error"
           ELSE IF message.kind = "REPLY" THEN "reply" ELSE "request"
  BY DEF LexerFor, ErrorReply

(* Whatever is read from a body, by one of the three ways there are.       *)
Names1(lines) == PayloadOf(<<>>, [i \in DOMAIN lines |-> lines[i].name], <<>>)

(* A body is read as errors, as names, or as properties.                   *)
LEMMA PayloadIsRead ==
  ASSUME NEW lexer, NEW lines, NEW q \in ReadPayload(lexer, lines)
  PROVE  \/ lexer = "error" /\ q \in ReadLines(ReadErrorLine, Payload, lines)
         \/ /\ lexer # "error" /\ q = Names1(lines)
            /\ \A i \in DOMAIN lines : IsParameter(lexer, lines[i])
         \/ /\ lexer # "error" /\ q \in ReadLines(ReadPropertyLine, Payload, lines)
            /\ \A i \in DOMAIN lines : ~IsParameter(lexer, lines[i])
<1> DEFINE parameters == {i \in DOMAIN lines : IsParameter(lexer, lines[i])}
           names == [i \in DOMAIN lines |-> lines[i].name]
           E == ReadLines(ReadErrorLine, Payload, lines)
           P == ReadLines(ReadPropertyLine, Payload, lines)
           N == {[Payload EXCEPT !.parameters = names]}
<1>1. ReadPayload(lexer, lines) =
        IF lexer = "error" THEN E ELSE IF parameters = DOMAIN lines THEN N
        ELSE IF parameters = {} THEN P ELSE {}
  BY Zenon DEF ReadPayload
<1>2. [Payload EXCEPT !.parameters = names] = PayloadOf(<<>>, names, <<>>)
  <2> HIDE DEF names
  <2> QED BY DEF Payload, PayloadOf
<1>3. parameters = DOMAIN lines => \A i \in DOMAIN lines : IsParameter(lexer, lines[i])
  OBVIOUS
<1>4. parameters = {} => \A i \in DOMAIN lines : ~IsParameter(lexer, lines[i])
  OBVIOUS
<1>5. N = {Names1(lines)}
  BY <1>2, Zenon DEF Names1
<1> HIDE DEF parameters, names, E, P, N
<1>6. q \in IF lexer = "error" THEN E ELSE IF parameters = DOMAIN lines THEN N
            ELSE IF parameters = {} THEN P ELSE {}
  BY <1>1
<1>7. \/ lexer = "error" /\ q \in E
      \/ lexer # "error" /\ parameters = DOMAIN lines /\ q \in N
      \/ lexer # "error" /\ parameters = {} /\ q \in P
  BY <1>6
<1>8. CASE lexer = "error" /\ q \in E
  BY <1>8 DEF E
<1>9. CASE lexer # "error" /\ parameters = DOMAIN lines /\ q \in N
  BY <1>3, <1>5, <1>9
<1>10. CASE lexer # "error" /\ parameters = {} /\ q \in P
  BY <1>4, <1>10 DEF P
<1> QED BY <1>7, <1>8, <1>9, <1>10

(* What is read from a body of lines that the classes or other makers      *)
(* write is a payload that the classes can hold.                           *)
THEOREM PayloadIsHeld ==
  ASSUME NEW message, message # NoMessage, NEW body,
         WellFormedBody(message.kind, message.code, body),
         NEW q \in ReadPayload(LexerFor(message), body)
  PROVE  HeldIn(message.kind, message.code, q)
<1> DEFINE kind == message.kind
           code == message.code
           lexer == LexerFor(message)
<1>1. lexer = "error" <=> ErrorReply(kind, code)
  BY LexerIs
<1>2. Len(body) \in Nat /\ DOMAIN body = 1 .. Len(body)
  BY DEF WellFormedBody
<1>3. \A i \in 1 .. Len(body) : IF ErrorReply(kind, code) THEN ErrorLine(body[i]) ELSE WellFormed(body[i])
  BY DEF WellFormedBody
<1> HIDE DEF kind, code
<1>4. \/ lexer = "error" /\ q \in ReadLines(ReadErrorLine, Payload, body)
      \/ lexer # "error" /\ q = Names1(body)
      \/ lexer # "error" /\ q \in ReadLines(ReadPropertyLine, Payload, body)
  BY PayloadIsRead
<1> HIDE DEF lexer
<1>5. CASE lexer = "error" /\ q \in ReadLines(ReadErrorLine, Payload, body)
  <2>1. OnlyErrors(q) /\ ErrorReply(kind, code)
    BY <1>1, <1>2, <1>3, <1>5, ErrorsHeld DEF ErrorsOf
  <2>2. HeldIn(kind, code, q)
    BY <2>1 DEF OnlyErrors, HeldIn
  <2> QED BY <2>2 DEF kind, code
<1>6. CASE lexer # "error" /\ q = Names1(body)
  <2> DEFINE names == [i \in DOMAIN body |-> body[i].name]
  <2>1. \A i \in 1 .. Len(body) : body[i].name \in Names
    BY <1>1, <1>3, <1>6 DEF WellFormed
  <2>2. names \in Seq(Names)
    BY <1>2, <2>1
  <2> HIDE DEF names
  <2>3. q = PayloadOf(<<>>, names, <<>>)
    BY <1>6, Zenon DEF Names1, names
  <2>4. q.properties = <<>> /\ q.parameters = names /\ q.errors = <<>>
    BY <2>3, PayloadFields
  <2>5. HeldPayload(q)
    BY <2>2, <2>3, <2>4, NoMap DEF HeldPayload
  <2>6. HeldIn(kind, code, q)
    BY <1>1, <1>6, <2>4, <2>5 DEF HeldIn
  <2> QED BY <2>6 DEF kind, code
<1>7. CASE lexer # "error" /\ q \in ReadLines(ReadPropertyLine, Payload, body)
  <2>1. OnlyProperties(q) /\ ~ErrorReply(kind, code)
    BY <1>1, <1>2, <1>3, <1>7, PropertiesHeld
  <2>2. HeldIn(kind, code, q)
    BY <2>1 DEF OnlyProperties, HeldIn
  <2> QED BY <2>2 DEF kind, code
<1> QED BY <1>4, <1>5, <1>6, <1>7

----------------------------------------------------------------------------
(* The names of a map in the order in which they are printed.              *)
InOrderOf(D, s) ==
  /\ s \in Seq(D)
  /\ \A i, j \in 1 .. Len(s) : s[i] = s[j] => i = j
  /\ \A d \in D : \E i \in 1 .. Len(s) : s[i] = d

(* There are finitely many names.                                          *)
LEMMA NamesAreFinite == IsFiniteSet(Names)
<1> DEFINE Listing == <<"wfd_audio_codecs", "wfd_video_formats", "wfd_3d_video_formats", "wfd_content_protection",
   "wfd_display_edid", "wfd_coupled_sink", "wfd_trigger_method", "wfd_presentation_url",
   "wfd_client_rtp_ports", "wfd_route", "wfd_I2C", "wfd_av_format_change_timing",
   "wfd_preferred_display_mode", "wfd_uibc_capability", "wfd_uibc_setting",
   "wfd_standby_resume_capability", "wfd_standby", "wfd_connector_type", "wfd_idr_request", "vendor_key">>
           f == [i \in 1 .. 20 |-> Listing[i]]
<1>1. \A i \in 1 .. 20 : f[i] \in Names
  BY DEF Names, PropertyName
<1>2. \A name \in Names : \E i \in 1 .. 20 : f[i] = name
  BY DEF Names, PropertyName
<1> HIDE DEF f
<1>3. f \in [1 .. 20 -> Names]
  BY <1>1 DEF f
<1>4. f \in Surjection(1 .. 20, Names)
  BY <1>2, <1>3, Zenon DEF Surjection
<1>5. IsFiniteSet(1 .. 20)
  <2> DEFINE n == 20
             m == 1
  <2>1. n \in Int /\ m \in Int
    OBVIOUS
  <2> HIDE DEF n, m
  <2>2. IsFiniteSet(m .. n)
    BY <2>1, FS_Interval
  <2> QED BY <2>2 DEF n, m
<1> QED BY <1>4, <1>5, FS_Surjection

(* A finite set can be put in order.                                       *)
LEMMA FiniteInOrder ==
  ASSUME NEW D, IsFiniteSet(D)
  PROVE  InOrderOf(D, SetToSeq(D))
<1> DEFINE n == Cardinality(D)
           s == SetToSeq(D)
<1>1. n \in Nat /\ ExistsBijection(1 .. n, D)
  BY FS_CardinalityType
<1>2. \E f \in [1 .. n -> D] : IsInjective(f)
  BY <1>1, Zenon DEF ExistsBijection, Bijection, Injection
<1>3. s \in [1 .. n -> D] /\ IsInjective(s)
  BY <1>2, Zenon DEF SetToSeq
<1> HIDE DEF s, n
<1>4. s \in Seq(D) /\ Len(s) = n /\ DOMAIN s = 1 .. n
  BY <1>1, <1>3
<1>5. s \in Injection(1 .. n, D)
  BY <1>3, Zenon DEF Injection
<1>6. Cardinality(1 .. n) = Cardinality(D)
  BY <1>1, FS_Interval DEF n
<1>7. s \in Surjection(1 .. n, D)
  BY <1>5, <1>6, FS_Injection
<1>8. \A d \in D : \E i \in 1 .. n : s[i] = d
  BY <1>7, Zenon DEF Surjection
<1>9. \A i, j \in 1 .. n : s[i] = s[j] => i = j
  BY <1>3, <1>4 DEF IsInjective
<1> QED BY <1>4, <1>8, <1>9 DEF InOrderOf, s

(* Names can be put in order, and in the reverse order.                    *)
LEMMA NamesInOrder ==
  ASSUME NEW D \in SUBSET Names
  PROVE  InOrderOf(D, SetToSeq(D)) /\ InOrderOf(D, Reverse(SetToSeq(D)))
<1>1. IsFiniteSet(D)
  BY NamesAreFinite, FS_Subset
<1> DEFINE s == SetToSeq(D)
           r == Reverse(s)
           n == Len(s)
<1>2. InOrderOf(D, s)
  BY <1>1, FiniteInOrder
<1> HIDE DEF s
<1>3. s \in Seq(D) /\ n \in Nat
  BY <1>2 DEF InOrderOf
<1>4. r \in Seq(D) /\ Len(r) = n /\ \A i \in 1 .. n : r[i] = s[n - i + 1]
  BY <1>3 DEF Reverse
<1> HIDE DEF r
<1>5. ASSUME NEW i \in 1 .. n, NEW j \in 1 .. n, r[i] = r[j] PROVE i = j
  <2>1. n - i + 1 \in 1 .. n /\ n - j + 1 \in 1 .. n /\ s[n - i + 1] = s[n - j + 1]
    BY <1>3, <1>4, <1>5
  <2>2. n - i + 1 = n - j + 1
    BY <1>2, <2>1 DEF InOrderOf
  <2> QED BY <1>3, <2>2
<1>6. ASSUME NEW d \in D PROVE \E i \in 1 .. n : r[i] = d
  <2>1. PICK i \in 1 .. n : s[i] = d
    BY <1>2 DEF InOrderOf
  <2> DEFINE j == n - i + 1
  <2>2. j \in 1 .. n /\ n - j + 1 = i
    BY <1>3
  <2> HIDE DEF j
  <2>3. r[j] = d
    BY <1>4, <2>1, <2>2
  <2> QED BY <2>2, <2>3
<1>7. InOrderOf(D, r)
  BY <1>4, <1>5, <1>6 DEF InOrderOf
<1> QED BY <1>2, <1>7 DEF r, s

(* The only function on no name is the empty sequence.                     *)
LEMMA NoNames == SetToSeq({}) = <<>> /\ Reverse(SetToSeq({})) = <<>>
<1> DEFINE s == SetToSeq({})
           r == Reverse(s)
<1>1. s \in Seq({}) /\ r \in Seq({})
  BY NamesInOrder DEF InOrderOf
<1> HIDE DEF s, r
<1>2. \A t \in Seq({}) : t = <<>>
  <2> SUFFICES ASSUME NEW t \in Seq({}), t # <<>> PROVE FALSE
    OBVIOUS
  <2>1. t[1] \in {}
    OBVIOUS
  <2> QED BY <2>1
<1> QED BY <1>1, <1>2 DEF r, s

----------------------------------------------------------------------------
(* What a payload that can be held is, and what it prints.                 *)
OnlyNames(p) == HeldPayload(p) /\ p.properties = <<>> /\ p.errors = <<>>

(* A payload that is held is properties, names or errors: never two of     *)
(* them.                                                                   *)
LEMMA HeldIsOne ==
  ASSUME NEW kind, NEW code, NEW p, HeldIn(kind, code, p)
  PROVE  \/ ~ErrorReply(kind, code) /\ OnlyProperties(p)
         \/ ~ErrorReply(kind, code) /\ OnlyNames(p)
         \/ ErrorReply(kind, code) /\ OnlyErrors(p)
  BY DEF HeldIn, OnlyProperties, OnlyNames, OnlyErrors

(* Nothing before or after a text leaves it as it is.                      *)
LEMMA NoLines ==
  ASSUME NEW f, DOMAIN f = {}, f = [i \in DOMAIN f |-> f[i]], NEW g, DOMAIN g = {}, g = [i \in DOMAIN g |-> g[i]],
         NEW S, NEW s \in Seq(S)
  PROVE  (s \o f) \o g = s /\ (f \o s) \o g = s /\ (f \o g) \o s = s
<1>1. f = <<>> /\ g = <<>>
  BY EmptyMap
<1> QED BY <1>1

PrintedProperties(p, s) == [i \in 1 .. Len(s) |-> PropertyLine(p.properties[s[i]])]
PrintedNames(p) == [i \in 1 .. Len(p.parameters) |-> BareLine(p.parameters[i])]
PrintedErrors(p, s) == [i \in 1 .. Len(s) |-> Line(s[i], PropertyErrorsToString(p.errors[s[i]]))]

(* A payload is printed property by property, name by name, error by       *)
(* error.                                                                  *)
LEMMA PrintsParts ==
  ASSUME NEW p, HeldPayload(p)
  PROVE  \E s, t : /\ InOrderOf(DOMAIN p.properties, s) /\ InOrderOf(DOMAIN p.errors, t)
                   /\ DOMAIN p.properties = {} => s = <<>>
                   /\ DOMAIN p.errors = {} => t = <<>>
                   /\ PayloadToString(p) = (PrintedProperties(p, s) \o PrintedNames(p)) \o PrintedErrors(p, t)
<1> DEFINE s == SetToSeq(DOMAIN p.properties)
           t == Reverse(SetToSeq(DOMAIN p.errors))
<1>1. InOrderOf(DOMAIN p.properties, s) /\ InOrderOf(DOMAIN p.errors, t)
  <2>1. DOMAIN p.properties \in SUBSET Names /\ DOMAIN p.errors \in SUBSET Names
    BY DEF HeldPayload, HeldProperties, HeldErrors
  <2> QED BY <2>1, NamesInOrder
<1>2. /\ DOMAIN p.properties = {} => s = <<>>
      /\ DOMAIN p.errors = {} => t = <<>>
  BY NoNames
<1>3. PayloadToString(p) =
        [i \in DOMAIN s |-> PropertyLine(p.properties[s[i]])]
          \o [i \in DOMAIN p.parameters |-> BareLine(p.parameters[i])]
          \o [i \in DOMAIN t |-> Line(t[i], PropertyErrorsToString(p.errors[t[i]]))]
  BY Zenon DEF PayloadToString
<1> HIDE DEF s, t
<1>4. DOMAIN s = 1 .. Len(s) /\ DOMAIN t = 1 .. Len(t) /\ DOMAIN p.parameters = 1 .. Len(p.parameters)
  BY <1>1 DEF InOrderOf, HeldPayload
<1>5. PayloadToString(p) = (PrintedProperties(p, s) \o PrintedNames(p)) \o PrintedErrors(p, t)
  BY <1>3, <1>4, Zenon DEF PrintedProperties, PrintedNames, PrintedErrors
<1> QED BY <1>1, <1>2, <1>5

(* Each kind of payload prints lines of its kind alone.                    *)
LEMMA PrintsProperties ==
  ASSUME NEW p, OnlyProperties(p)
  PROVE  \E s : InOrderOf(DOMAIN p.properties, s) /\ PayloadToString(p) = PrintedProperties(p, s)
<1>1. HeldPayload(p) /\ p.parameters = <<>> /\ p.errors = <<>>
  BY DEF OnlyProperties
<1>2. PICK s, t : /\ InOrderOf(DOMAIN p.properties, s)
                  /\ DOMAIN p.errors = {} => t = <<>>
                  /\ PayloadToString(p) = (PrintedProperties(p, s) \o PrintedNames(p)) \o PrintedErrors(p, t)
  BY <1>1, PrintsParts
<1>3. t = <<>>
  BY <1>1, <1>2
<1> DEFINE a == PrintedProperties(p, s)
           b == PrintedNames(p)
           c == PrintedErrors(p, t)
           S == {PropertyLine(p.properties[n]) : n \in DOMAIN p.properties}
<1>4. DOMAIN b = {} /\ b = [i \in DOMAIN b |-> b[i]]
  BY <1>1 DEF PrintedNames
<1>5. DOMAIN c = {} /\ c = [i \in DOMAIN c |-> c[i]]
  BY <1>3 DEF PrintedErrors
<1>6. a \in Seq(S)
  <2>1. s \in Seq(DOMAIN p.properties) /\ \A i \in 1 .. Len(s) : s[i] \in DOMAIN p.properties
    BY <1>2 DEF InOrderOf
  <2>2. \A i \in 1 .. Len(s) : PropertyLine(p.properties[s[i]]) \in S
    BY <2>1
  <2> HIDE DEF S
  <2> QED BY <2>1, <2>2 DEF PrintedProperties
<1> HIDE DEF a, b, c, S
<1>7. (a \o b) \o c = a
  BY <1>4, <1>5, <1>6, NoLines
<1> QED BY <1>2, <1>7 DEF a, b, c

(* A payload of names prints its names.                                    *)
LEMMA PrintsNames ==
  ASSUME NEW p, OnlyNames(p)
  PROVE  PayloadToString(p) = PrintedNames(p)
<1>1. HeldPayload(p) /\ p.properties = <<>> /\ p.errors = <<>> /\ p.parameters \in Seq(Names)
  BY DEF OnlyNames, HeldPayload
<1>2. PICK s, t : /\ DOMAIN p.properties = {} => s = <<>>
                  /\ DOMAIN p.errors = {} => t = <<>>
                  /\ PayloadToString(p) = (PrintedProperties(p, s) \o PrintedNames(p)) \o PrintedErrors(p, t)
  BY <1>1, PrintsParts
<1>3. s = <<>> /\ t = <<>>
  BY <1>1, <1>2
<1> DEFINE a == PrintedProperties(p, s)
           b == PrintedNames(p)
           c == PrintedErrors(p, t)
           S == {BareLine(n) : n \in Names}
<1>4. DOMAIN a = {} /\ a = [i \in DOMAIN a |-> a[i]]
  BY <1>3 DEF PrintedProperties
<1>5. DOMAIN c = {} /\ c = [i \in DOMAIN c |-> c[i]]
  BY <1>3 DEF PrintedErrors
<1>6. b \in Seq(S)
  <2>1. \A i \in 1 .. Len(p.parameters) : BareLine(p.parameters[i]) \in S
    BY <1>1
  <2> HIDE DEF S
  <2> QED BY <1>1, <2>1 DEF PrintedNames
<1> HIDE DEF a, b, c, S
<1>7. (a \o b) \o c = b
  BY <1>4, <1>5, <1>6, NoLines
<1> QED BY <1>2, <1>7 DEF a, b, c

(* A payload of errors prints its errors.                                  *)
LEMMA PrintsErrors ==
  ASSUME NEW p, OnlyErrors(p)
  PROVE  \E t : InOrderOf(DOMAIN p.errors, t) /\ PayloadToString(p) = PrintedErrors(p, t)
<1>1. HeldPayload(p) /\ p.properties = <<>> /\ p.parameters = <<>>
  BY DEF OnlyErrors
<1>2. PICK s, t : /\ InOrderOf(DOMAIN p.errors, t)
                  /\ DOMAIN p.properties = {} => s = <<>>
                  /\ PayloadToString(p) = (PrintedProperties(p, s) \o PrintedNames(p)) \o PrintedErrors(p, t)
  BY <1>1, PrintsParts
<1>3. s = <<>>
  BY <1>1, <1>2
<1> DEFINE a == PrintedProperties(p, s)
           b == PrintedNames(p)
           c == PrintedErrors(p, t)
           S == {Line(n, PropertyErrorsToString(p.errors[n])) : n \in DOMAIN p.errors}
<1>4. DOMAIN b = {} /\ b = [i \in DOMAIN b |-> b[i]]
  BY <1>1 DEF PrintedNames
<1>5. DOMAIN a = {} /\ a = [i \in DOMAIN a |-> a[i]]
  BY <1>3 DEF PrintedProperties
<1>6. c \in Seq(S)
  <2>1. t \in Seq(DOMAIN p.errors) /\ \A i \in 1 .. Len(t) : t[i] \in DOMAIN p.errors
    BY <1>2 DEF InOrderOf
  <2>2. \A i \in 1 .. Len(t) : Line(t[i], PropertyErrorsToString(p.errors[t[i]])) \in S
    BY <2>1
  <2> HIDE DEF S
  <2> QED BY <2>1, <2>2 DEF PrintedErrors
<1> HIDE DEF a, b, c, S
<1>7. (a \o b) \o c = c
  BY <1>4, <1>5, <1>6, NoLines
<1> QED BY <1>2, <1>7 DEF a, b, c

----------------------------------------------------------------------------
(* The text of error codes is read as the codes it was printed from.       *)
CodesIn(items) == [k \in DOMAIN items |-> AsUShort(items[k][1])]
CodesOf(tokens) == CodesIn(Items(1, tokens))

CodesAreReadBack(codes) ==
  LET v == PropertyErrorsToString(codes)
  IN v \in Seq(PlainText) /\ IsList(<<{"NUM"}>>, v) /\ CodesOf(v) = codes

(* Error codes are read back.                                              *)
LEMMA ErrorsAreReadBack ==
  ASSUME NEW codes \in Codes
  PROVE  CodesAreReadBack(codes)
<1> DEFINE items == [i \in DOMAIN codes |-> <<Dec(codes[i])>>]
           n == 1
           P == <<{"NUM"}>>
           K == Len(codes)
           v == Listed(n, items)
<1>1. codes \in Seq(UShort) /\ codes # <<>> /\ K \in Nat /\ DOMAIN codes = 1 .. K /\ \A i \in 1 .. K : codes[i] \in UShort
  BY DEF Codes
<1>2. \A i \in 1 .. K : codes[i] \in Nat /\ codes[i] <= 65535
  BY <1>1, Ranges
<1>3. Word("comma") \in PlainText /\ \A i \in 1 .. K : Dec(codes[i]) \in PlainText
  <2>1. Word("comma") \in PlainText
    BY DEF PlainText, Words
  <2> QED BY <1>2, <2>1, DecTokens
<1>4. n \in Lengths /\ Len(P) = n
  BY DEF Lengths
<1>5. /\ items \in Seq(Seq(PlainText)) /\ Len(items) = K
      /\ \A i \in 1 .. K : items[i] = <<Dec(codes[i])>> /\ Len(items[i]) = 1
  <2>1. \A i \in 1 .. K : <<Dec(codes[i])>> \in Seq(PlainText)
    BY <1>3
  <2>2. items = [i \in 1 .. K |-> <<Dec(codes[i])>>]
    BY <1>1
  <2> HIDE DEF items
  <2>3. /\ Len(items) = K /\ \A i \in 1 .. K : items[i] = <<Dec(codes[i])>> /\ Len(items[i]) = 1
    BY <1>1, <2>2
  <2>4. items \in Seq(Seq(PlainText))
    BY <1>1, <2>1, <2>2
  <2> QED BY <2>3, <2>4
<1>6. items # <<>> /\ \A k \in 1 .. Len(items) : Len(items[k]) = n
  BY <1>1, <1>5
<1>7. PropertyErrorsToString(codes) = v
  BY Zenon DEF PropertyErrorsToString
<1>8. \A i \in 1 .. K : Derives(P, items[i])
  <2> SUFFICES ASSUME NEW i \in 1 .. K PROVE Derives(P, <<Dec(codes[i])>>)
    BY <1>5
  <2> DEFINE item == <<Dec(codes[i])>>
             A == {"NUM"}
  <2>1. Terminal(Dec(codes[i])) = "NUM"
    BY <1>2, DecTokens
  <2> HIDE DEF A
  <2>2. Terminal(Dec(codes[i])) \in A
    BY <2>1 DEF A
  <2>3. Derives(<<A>>, <<Dec(codes[i])>>)
    BY <2>2 DEF Derives
  <2> QED BY <2>3 DEF A
<1> HIDE DEF items, n, P, K
<1>9. v \in Seq(PlainText)
  BY <1>3, <1>4, <1>5, <1>6, ListedTokens
<1>10. Items(n, v) = items /\ IsList(P, v)
  BY <1>3, <1>4, <1>5, <1>6, <1>8, ListedRound
<1> HIDE DEF v
<1>11. CodesOf(v) = codes
  <2>1. Items(1, v) = items
    BY <1>10 DEF n
  <2>2. DOMAIN items = 1 .. K
    BY <1>5
  <2> DEFINE c == CodesIn(items)
  <2>3. CodesOf(v) = c
    BY <2>1 DEF CodesOf
  <2>4. ASSUME NEW k \in 1 .. K PROVE AsUShort(items[k][1]) = codes[k]
    <3>1. items[k][1] = Dec(codes[k])
      BY <1>5
    <3>2. codes[k] \in Nat /\ codes[k] \in UShort
      BY <1>1, <1>2
    <3> QED BY <3>1, <3>2, Converted
  <2>5. DOMAIN c = 1 .. K /\ (\A k \in 1 .. K : c[k] = codes[k]) /\ c = [k \in DOMAIN c |-> c[k]]
    BY <2>2, <2>4 DEF CodesIn
  <2> HIDE DEF c
  <2>6. codes = [k \in 1 .. K |-> codes[k]]
    BY <1>1
  <2>7. c = codes
    BY <2>5, <2>6
  <2> QED BY <2>3, <2>7
<1> QED BY <1>7, <1>9, <1>10, <1>11 DEF CodesAreReadBack, P

----------------------------------------------------------------------------
(* What is printed is a body that can be read.                             *)
LEMMA BareNames ==
  ASSUME NEW name \in Names
  PROVE  /\ WellFormed(BareLine(name))
         /\ BareLine(name).name = name /\ BareLine(name).colon = FALSE
<1> DEFINE line == BareLine(name)
<1>1. line = LineOf(name, FALSE, <<>>)
  BY LineFields
<1> HIDE DEF line
<1>2. line.name = name /\ line.colon = FALSE /\ line.tokens = <<>>
  BY <1>1 DEF LineOf
<1>3. line = LineOf(line.name, line.colon, line.tokens)
  BY <1>1, <1>2
<1>4. WellFormed(line)
  BY <1>2, <1>3 DEF WellFormed
<1> QED BY <1>2, <1>4 DEF line

(* The line a property is printed on.                                      *)
LEMMA PropertyLineIs ==
  ASSUME NEW name \in Names, NEW p \in HeldAs(name)
  PROVE  /\ PropertyLine(p) = IF name \in Bare THEN BareLine(name) ELSE Line(name, PropertyToString(p))
         /\ WellFormed(PropertyLine(p))
<1>1. p.type = name
  BY HeldIsTyped DEF TypedAs
<1>2. PropertyLine(p) = IF name \in Bare THEN BareLine(name) ELSE Line(name, PropertyToString(p))
  BY <1>1 DEF PropertyLine
<1>3. CASE name \in Bare
  BY <1>2, <1>3, BareNames
<1>4. CASE name \notin Bare
  <2> DEFINE v == PropertyToString(p)
             line == Line(name, v)
  <2>1. v \in Seq(PropertyText(name))
    BY <1>1, <1>4, HeldIsReadBack DEF PropertyIsReadBack
  <2> HIDE DEF v
  <2>2. line = LineOf(name, TRUE, v)
    BY LineFields
  <2> HIDE DEF line
  <2>3. line.name = name /\ line.colon = TRUE /\ line.tokens = v
    BY <2>2 DEF LineOf
  <2>4. line = LineOf(line.name, line.colon, line.tokens)
    BY <2>2, <2>3
  <2>5. WellFormed(line)
    BY <2>1, <2>3, <2>4 DEF WellFormed
  <2> QED BY <1>2, <1>4, <2>5 DEF line, v
<1> QED BY <1>2, <1>3, <1>4

(* The line the errors of a property are printed on.                       *)
LEMMA ErrorLineIs ==
  ASSUME NEW name \in Names, NEW codes \in Codes
  PROVE  ErrorLine(Line(name, PropertyErrorsToString(codes)))
<1> DEFINE v == PropertyErrorsToString(codes)
           line == Line(name, v)
<1>1. v \in Seq(PlainText)
  BY ErrorsAreReadBack DEF CodesAreReadBack
<1> HIDE DEF v
<1>2. line = LineOf(name, TRUE, v)
  BY LineFields
<1> HIDE DEF line
<1>3. line.name = name /\ line.colon = TRUE /\ line.tokens = v
  BY <1>2 DEF LineOf
<1>4. line = LineOf(line.name, line.colon, line.tokens)
  BY <1>2, <1>3
<1>5. ErrorLine(line)
  BY <1>1, <1>3, <1>4 DEF ErrorLine
<1> QED BY <1>5 DEF line, v

(* A payload that can be held is printed as lines of the grammar's tokens. *)
THEOREM PrintedIsWellFormed ==
  ASSUME NEW kind, NEW code, NEW p, HeldIn(kind, code, p)
  PROVE  WellFormedBody(kind, code, PayloadToString(p))
<1> DEFINE body == PayloadToString(p)
<1>1. CASE ~ErrorReply(kind, code) /\ OnlyProperties(p)
  <2>1. PICK s : InOrderOf(DOMAIN p.properties, s) /\ PayloadToString(p) = PrintedProperties(p, s)
    BY <1>1, PrintsProperties
  <2>2. s \in Seq(DOMAIN p.properties) /\ HeldProperties(p.properties)
    BY <1>1, <2>1 DEF InOrderOf, OnlyProperties, HeldPayload
  <2>3. ASSUME NEW i \in 1 .. Len(s) PROVE WellFormed(PropertyLine(p.properties[s[i]]))
    <3>1. s[i] \in Names /\ p.properties[s[i]] \in HeldAs(s[i])
      BY <2>2 DEF HeldProperties
    <3> QED BY <3>1, PropertyLineIs
  <2>4. Len(body) = Len(s) /\ Len(s) \in Nat /\ body = [i \in 1 .. Len(s) |-> body[i]]
        /\ \A i \in 1 .. Len(s) : body[i] = PropertyLine(p.properties[s[i]])
    BY <2>1, <2>2 DEF PrintedProperties
  <2> HIDE DEF body
  <2>5. WellFormedBody(kind, code, body)
    BY <1>1, <2>3, <2>4 DEF WellFormedBody
  <2> QED BY <2>5 DEF body
<1>2. CASE ~ErrorReply(kind, code) /\ OnlyNames(p)
  <2>1. p.parameters \in Seq(Names)
    BY <1>2 DEF OnlyNames, HeldPayload
  <2>2. body = PrintedNames(p)
    BY <1>2, PrintsNames
  <2> DEFINE n == Len(p.parameters)
  <2>3. Len(body) = n /\ n \in Nat /\ body = [i \in 1 .. n |-> body[i]]
        /\ \A i \in 1 .. n : body[i] = BareLine(p.parameters[i])
    BY <2>1, <2>2 DEF PrintedNames
  <2> HIDE DEF body
  <2>4. ASSUME NEW i \in 1 .. n PROVE WellFormed(body[i])
    <3>1. p.parameters[i] \in Names
      BY <2>1
    <3>2. WellFormed(BareLine(p.parameters[i]))
      BY <3>1, BareNames
    <3> QED BY <2>3, <3>2
  <2>5. WellFormedBody(kind, code, body)
    BY <1>2, <2>3, <2>4 DEF WellFormedBody
  <2> QED BY <2>5 DEF body
<1>3. CASE ErrorReply(kind, code) /\ OnlyErrors(p)
  <2>1. PICK s : InOrderOf(DOMAIN p.errors, s) /\ PayloadToString(p) = PrintedErrors(p, s)
    BY <1>3, PrintsErrors
  <2>2. s \in Seq(DOMAIN p.errors) /\ HeldErrors(p.errors)
    BY <1>3, <2>1 DEF InOrderOf, OnlyErrors, HeldPayload
  <2>3. ASSUME NEW i \in 1 .. Len(s) PROVE ErrorLine(Line(s[i], PropertyErrorsToString(p.errors[s[i]])))
    <3>1. s[i] \in Names /\ p.errors[s[i]] \in Codes
      BY <2>2 DEF HeldErrors
    <3> QED BY <3>1, ErrorLineIs
  <2>4. Len(body) = Len(s) /\ Len(s) \in Nat /\ body = [i \in 1 .. Len(s) |-> body[i]]
        /\ \A i \in 1 .. Len(s) : body[i] = Line(s[i], PropertyErrorsToString(p.errors[s[i]]))
    BY <2>1, <2>2 DEF PrintedErrors
  <2> HIDE DEF body
  <2>5. WellFormedBody(kind, code, body)
    BY <1>3, <2>3, <2>4 DEF WellFormedBody
  <2> QED BY <2>5 DEF body
<1> QED BY <1>1, <1>2, <1>3, HeldIsOne
====
