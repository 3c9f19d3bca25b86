------------------------------ MODULE WfdText ------------------------------
(***************************************************************************)
(* Numbers and words as the classes of src/wfd_parser print them and as    *)
(* its lexers read them back.                                              *)
(*                                                                         *)
(* A number is the sequence of its hexadecimal digits, the first one not   *)
(* 0: <<>> is zero.  A token is a record with one field: a number, a       *)
(* decimal, a word, a run of characters.  The spaces between tokens, which *)
(* every to_string() writes where the grammar wants one, are left out; a   *)
(* word stands for a terminal of the grammar, a comma and a semicolon too. *)
(***************************************************************************)
EXTENDS Integers, Sequences, SequencesExt

CONSTANTS
  INT_MAX,        \* the largest int
  ULLONG_MAX      \* the largest unsigned long long, the parser's type of a decimal

(* The types of the members that are written as decimals.                  *)
USHRT_MAX == 65535
UINT_MAX == 2 * INT_MAX + 1
UShort == 0 .. USHRT_MAX
UInt == 0 .. UINT_MAX
SInt == -(INT_MAX + 1) .. INT_MAX

ASSUME TextAssumption == /\ INT_MAX \in Nat /\ ULLONG_MAX \in Nat
                         /\ USHRT_MAX <= INT_MAX /\ UINT_MAX <= ULLONG_MAX

(* The C types of the members that are written in hexadecimal, in digits;  *)
(* an enumeration and a string are read as they stand.                     *)
UCHAR == 2
USHORT == 4
UINT == 8
INT == 8
ULL == 16
AsRead == 0

Word(w) == [word |-> w]
Dec(n) == [dec |-> n]
Num(digits) == [num |-> digits]
NONE == Word("none")

(* A run of characters; only its length and identity matter.               *)
Chars(s) == [chars |-> s]

(* A presentation URL: its stream, and whether its host ends with an IPv4  *)
(* address behind at least one other character, as the lexer asks.         *)
Url(stream, address) == [stream |-> stream, address |-> address]

Stripped(digits) ==
  LET first == CHOOSE i \in 1 .. Len(digits) + 1 :
                 /\ \A j \in 1 .. i - 1 : digits[j] = 0
                 /\ i <= Len(digits) => digits[i] # 0
  IN SubSeq(digits, first, Len(digits))

Repeated(digit, n) == [i \in 1 .. n |-> digit]

(* -1 in a type of w digits.                                               *)
MinusOne(w) == Num(Repeated(15, w))

(* Assigning a number to a member keeps its low digits; "none" is -1.      *)
Assigned(w, token) ==
  CASE w = AsRead   -> token
    [] w # AsRead /\ token = NONE -> MinusOne(w)
    [] OTHER -> LET d == token.num
                IN Num(Stripped(SubSeq(d, IF Len(d) > w THEN Len(d) - w + 1 ELSE 1, Len(d))))

Assign(members, tokens) == [i \in DOMAIN members |-> Assigned(members[i], tokens[i])]

(* strtoull takes its largest value for a decimal that is larger.          *)
ULongLong(token) == IF token.dec > ULLONG_MAX THEN ULLONG_MAX ELSE token.dec

(* Assigning it to a member of a smaller type keeps its low bits.          *)
AsUShort(token) == ULongLong(token) % (USHRT_MAX + 1)
AsUInt(token) == ULongLong(token) % (UINT_MAX + 1)

(* A slip: a member as wide as the number of the parser.                   *)
AsIntOfAnyWidth(token) == ULongLong(token)

AsInt(token) ==
  LET low == AsUInt(token)
  IN IF low > INT_MAX THEN low - (UINT_MAX + 1) ELSE low

(* std::to_string of an int: the lexers have no token for a sign and its   *)
(* digits.                                                                 *)
IntTokens(n) == IF n < 0 THEN <<Word("-"), Dec(-n)>> ELSE <<Dec(n)>>

(* snprintf("%0nX") into n + 1 bytes: padded on the left, and what does    *)
(* not fit is cut off on the right.                                        *)
MAKE_HEX_STRING(n, number) ==
  LET d == number.num
  IN Chars(IF Len(d) < n THEN Repeated(0, n - Len(d)) \o d ELSE SubSeq(d, 1, n))

Hex(widths, numbers) == [i \in DOMAIN widths |-> MAKE_HEX_STRING(widths[i], numbers[i])]

(* An int printed if it is not negative.                                   *)
Negative(number) == Len(number.num) = INT /\ number.num[1] >= 8
IntToString(n, number) == IF Negative(number) THEN NONE ELSE MAKE_HEX_STRING(n, number)

(* Items of n tokens one after the other, with a comma between them.       *)
Listed(n, items) ==
  [i \in 1 .. Len(items) * (n + 1) - 1 |->
     IF i % (n + 1) = 0 THEN Word("comma") ELSE items[i \div (n + 1) + 1][i % (n + 1)]]

----------------------------------------------------------------------------
(* The rest of a line in the lexer's NUM_AS_HEX_MODE: up to 16 digits are  *)
(* a number, more are a string.                                            *)
HexToken(token) ==
  IF "chars" \in DOMAIN token /\ Len(token.chars) <= 16 THEN Num(Stripped(token.chars)) ELSE token

LexHex(tokens) == [i \in DOMAIN tokens |-> HexToken(tokens[i])]

(* The terminal of the grammar that a token is.                            *)
Terminal(token) ==
  CASE "word" \in DOMAIN token -> token.word
    [] "num" \in DOMAIN token \/ "dec" \in DOMAIN token -> "NUM"
    [] "chars" \in DOMAIN token -> "STRING"
    [] token = Url(0, TRUE) -> "URL_0"
    [] token = Url(1, TRUE) -> "URL_1"
    [] OTHER -> "unmatched"

(* A production is a sequence of sets of terminals.                        *)
Derives(production, tokens) ==
  /\ Len(tokens) = Len(production)
  /\ \A i \in DOMAIN tokens : Terminal(tokens[i]) \in production[i]

Nums(n) == [i \in 1 .. n |-> {"NUM"}]

(* What a production builds, if it derives the tokens: a set of one value  *)
(* or of none, so that alternatives are unions and no value is an error.   *)
When(derived, value) == IF derived THEN {value} ELSE {}

(* The items of a list whose items have n tokens each.                     *)
Item(n, tokens, k) == SubSeq(tokens, (k - 1) * (n + 1) + 1, (k - 1) * (n + 1) + n)
Items(n, tokens) == [k \in 1 .. (Len(tokens) + 1) \div (n + 1) |-> Item(n, tokens, k)]

(* The value of each item of a list, as a value of the type codec.         *)
AssignItems(codec, n, tokens) ==
  [k \in DOMAIN Items(n, tokens) |-> Assign(codec, Item(n, tokens, k))]

IsList(production, tokens) ==
  LET n == Len(production)
  IN /\ tokens # <<>> /\ (Len(tokens) + 1) % (n + 1) = 0
     /\ \A i \in DOMAIN tokens : i % (n + 1) = 0 => tokens[i] = Word("comma")
     /\ \A k \in DOMAIN Items(n, tokens) : Derives(production, Item(n, tokens, k))
=============================================================================
