------------------------------- MODULE Base64 -------------------------------
(***************************************************************************)
(* lualib-src/lua-base64.c: bytes to text and back.  A character of the       *)
(* alphabet is written as its place in b64tbl, 0 to 63.                      *)
(***************************************************************************)
EXTENDS Integers, Sequences, SequencesExt

CONSTANTS
  Bytes,    \* bytes to encode
  Sextets,  \* characters to decode
  MaxBytes, MaxText,  \* bounds: lengths
  MaxBehind           \* bound: characters from the first '\0' on

Equ == 64      \* b64equ
Space == 65    \* what isspace() says yes to
Other == 66    \* no character of b64tbl
Nul == 67      \* '\0'
Error == << -1 >>

Constants ==
  /\ Bytes \subseteq 0 .. 255 /\ Sextets \subseteq 0 .. 63
  /\ MaxBytes \in Nat /\ MaxText \in Nat /\ MaxBehind \in Nat

VARIABLES
  bytes,   \* a string to encode
  text     \* a string to decode

vars == << bytes, text >>

-----------------------------------------------------------------------------
(* base64_encode                                                           *)

\* Four characters of three bytes, the last of which are 0 if there are n < 3.
Quad(a, b, c, n) ==
  << a \div 4,
     (a % 4) * 16 + b \div 16,
     IF n = 1 THEN Equ ELSE (b % 16) * 4 + c \div 64,
     IF n = 3 THEN c % 64 ELSE Equ >>

base64_encode(src) ==
  LET at(i) == IF i <= Len(src) THEN src[i] ELSE 0
      quad(g) == Quad(at(3 * g - 2), at(3 * g - 1), at(3 * g),
                      IF 3 * g <= Len(src) THEN 3 ELSE Len(src) % 3)
  IN  FlattenSeq([g \in 1 .. (Len(src) + 2) \div 3 |-> quad(g)])

(* encode gives nil for the empty string: its length less one wraps around.   *)
(* Otherwise the text has the length it allocates, without the final '\0'    *)
(* for which base64_encode finds no room.                                   *)
lb64enc(src) ==
  IF src = << >> THEN Error
  ELSE SubSeq(base64_encode(src), 1, ((Len(src) - 1) \div 3) * 4 + 4)

-----------------------------------------------------------------------------
(* base64_decode.  Its loop is in a state 0 to 3; behind "=" it waits for a    *)
(* second one, or for nothing but spaces.  dst[idx] is the last of dst.      *)

Start == [state |-> 0, dst |-> << >>]

\* What its loops get to see: they end at the first '\0', the one behind the text
\* or one in it.
CString(src) ==
  LET nul == SelectInSeq(src, LAMBDA ch : ch = Nul)
  IN  IF nul = 0 THEN src ELSE SubSeq(src, 1, nul - 1)

\* The bits of a character go to the last byte and to a new one.
Shift(s, high, low) ==
  [state |-> (s.state + 1) % 4,
   dst   |-> (IF s.dst = << >> THEN << >> ELSE ReplaceAt(s.dst, Len(s.dst), Last(s.dst) + high)) \o low]

Sextet(s, ch) ==
  CASE s.state = 0 -> [state |-> 1, dst |-> Append(s.dst, ch * 4)]
    [] s.state = 1 -> Shift(s, ch \div 16, << (ch % 16) * 16 >>)
    [] s.state = 2 -> Shift(s, ch \div 4, << (ch % 4) * 64 >>)
    [] s.state = 3 -> Shift(s, ch, << >>)

WaitEqu == 4
WaitEnd == 5
Failed == 6

Consume(s, ch) ==
  CASE s.state = Failed \/ ch = Space -> s
    [] s.state = WaitEqu -> [s EXCEPT !.state = IF ch = Equ THEN WaitEnd ELSE Failed]
    [] s.state = WaitEnd -> [s EXCEPT !.state = Failed]
    [] s.state \in {2, 3} /\ ch = Equ -> [s EXCEPT !.state = IF s.state = 2 THEN WaitEqu ELSE WaitEnd]
    [] s.state \in {0, 1} /\ ch = Equ -> [s EXCEPT !.state = Failed]
    [] s.state \in 0 .. 3 /\ ch = Other -> [s EXCEPT !.state = Failed]
    [] s.state \in 0 .. 3 /\ ch \in 0 .. 63 -> Sextet(s, ch)

\* mutated: what remains of the bits is not looked at
MutFinish(s) ==
  CASE s.state = 0 -> s.dst
    [] s.state = WaitEnd -> Front(s.dst)
    [] OTHER -> Error

(* At the end of the text whole bytes are there, or padding and bits of 0.    *)
Finish(s) ==
  CASE s.state = 0 -> s.dst
    [] s.state = WaitEnd /\ Last(s.dst) = 0 -> Front(s.dst)
    [] OTHER -> Error

\* decode raises an error for -1, a length that no string has.
lb64dec(src) == Finish(FoldLeft(Consume, Start, CString(src)))

-----------------------------------------------------------------------------
(* The strings there are.                                                  *)

Init == bytes = << >> /\ text = << >>

MoreBytes ==
  /\ text = << >> /\ Len(bytes) < MaxBytes
  /\ \E b \in Bytes : bytes' = Append(bytes, b)
  /\ UNCHANGED text

MoreText ==
  /\ bytes = << >> /\ Len(text) < MaxText
  /\ FoldLeft(Consume, Start, CString(text)).state # Failed
  /\ \E ch \in Sextets \cup {Equ, Space, Other, Nul} : text' = Append(text, ch)
  /\ Len(text') - Len(CString(text')) <= MaxBehind
  /\ UNCHANGED bytes

Next == MoreBytes \/ MoreText

Spec == Init /\ [][Next]_vars

-----------------------------------------------------------------------------

TextOf(src) ==
  lb64dec(text) \notin {Error, << >>} =>
    lb64enc(lb64dec(text)) = SelectSeq(src, LAMBDA ch : ch # Space)

(* lua-base64.c:16-157, 159-196: what is encoded is decoded again, and a text *)
(* that can be decoded is, but for spaces and up to its first '\0', the one   *)
(* its bytes are encoded as: no other padding, no bits left over.            *)
TextExact ==
  /\ bytes # << >> => lb64dec(lb64enc(bytes)) = bytes
  /\ TextOf(CString(text))

(* lua-base64.c:159-177: the empty string is encoded too.                      *)
EmptyEncodes == lb64enc(bytes) # Error

(* lua-base64.c:68, 133, 142: also behind a '\0' there is nothing else.        *)
WholeTextRead == TextOf(text)
=============================================================================
