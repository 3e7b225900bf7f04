----------------------------- MODULE ByteArrays -----------------------------
(***************************************************************************)
(* KDUtils::ByteArray: a vector of bytes, the operations that cut and      *)
(* join it, and its base64 text, which the decoder reads one character at  *)
(* a time into an array it has allocated beforehand.                       *)
(***************************************************************************)
EXTENDS Integers, SequencesExt

CONSTANTS
    Values,    \* the bytes a program appends
    Strays,    \* the characters that may replace one of a text
    MaxBytes   \* bound: length of an array that is encoded

ASSUME CharactersAreBytes == Values \cup Strays \subseteq 0..255

VARIABLES
    data,      \* m_data
    text,      \* what toBase64 returned, perhaps damaged or cut since
    intact,    \* how many characters of it are as they were written
    phase,     \* "editing", "decoding", "decoded"
    position,  \* i of fromBase64: characters read
    pending,   \* pending4Bytes, as long as inIdx
    out        \* the bytes written, as long as outIdx

baVars == <<data, text, intact, phase, position, pending, out>>

BaTypeOK ==
    /\ data \in Seq(0..255) /\ text \in Seq(0..255) /\ out \in Seq(0..255)
    /\ intact \in 0..Len(text) /\ position \in 0..Len(text)
    /\ phase \in {"editing", "decoding", "decoded"}
    /\ pending \in Seq(0..127) /\ Len(pending) < 4

BaInit ==
    /\ data = <<>> /\ text = <<>> /\ out = <<>> /\ pending = <<>>
    /\ intact = 0 /\ position = 0 /\ phase = "editing"
-----------------------------------------------------------------------------
(* The array.  mid takes a length of 0 for the rest, and cuts any other to *)
(* the size of the array instead of to what is left of it: with pos + len  *)
(* past the end it reads beyond the array, for which SubSeq has no value,  *)
(* so the properties ask for pieces that end in the array.                 *)
Lesser(a, b) == IF a < b THEN a ELSE b

Mid(s, pos, len) ==
    IF pos >= Len(s) THEN <<>>
    ELSE SubSeq(s, pos + 1, pos + Lesser(IF len = 0 THEN Len(s) - pos ELSE len, Len(s)))

Left(s, len) == SubSeq(s, 1, Lesser(len, Len(s)))

\* Mutant: a length past the end removes nothing.
CutMutant(s, pos, len) ==
    IF pos + len > Len(s) THEN s
    ELSE SubSeq(s, 1, pos) \o SubSeq(s, pos + len + 1, Len(s))

\* remove
Cut(s, pos, len) ==
    IF pos >= Len(s) THEN s
    ELSE SubSeq(s, 1, pos) \o SubSeq(s, pos + Lesser(Len(s) - pos, len) + 1, Len(s))

IndexOf(s, v) ==
    IF \E i \in DOMAIN s : s[i] = v THEN SelectInSeq(s, LAMBDA x : x = v) - 1 ELSE -1

StartsWith(s, b) == Len(b) <= Len(s) /\ SubSeq(s, 1, Len(b)) = b

EndsWith(s, b) == Len(b) <= Len(s) /\ SubSeq(s, Len(s) - Len(b) + 1, Len(s)) = b

Resize(s, n) == IF n <= Len(s) THEN SubSeq(s, 1, n) ELSE s \o [i \in 1..n - Len(s) |-> 0]
-----------------------------------------------------------------------------
(* Base64.                                                                 *)
Pad == 61

Alphabet(x) ==
    CASE x < 26 -> 65 + x          \* A to Z
      [] x \in 26..51 -> 71 + x    \* a to z
      [] x \in 52..61 -> x - 4     \* 0 to 9
      [] x = 62 -> 43 [] x = 63 -> 47

\* The bits of byte i, from 0, of s; bytes past the end count as 0.
ByteAt(s, i) == IF i < Len(s) THEN s[i + 1] ELSE 0

Sextet(s, group, k) ==
    LET b(i) == ByteAt(s, (3 * group) + i)
    IN  CASE k = 0 -> b(0) \div 4
          [] k = 1 -> ((b(0) % 4) * 16) + (b(1) \div 16)
          [] k = 2 -> ((b(1) % 16) * 4) + (b(2) \div 64)
          [] k = 3 -> b(2) % 64

\* A group of three bytes makes four characters, an incomplete one is padded.
ToBase64(s) ==
    [c \in 1..(4 * ((Len(s) + 2) \div 3)) |->
        LET group == (c - 1) \div 4
            k     == (c - 1) % 4
        IN  IF k >= 2 /\ (3 * group) + k > Len(s) THEN Pad
            ELSE Alphabet(Sextet(s, group, k))]

\* getInverseFromB64, which takes the characters of URLs as well.
InverseFromB64(c) ==
    CASE c \in 65..90  -> c - 65 [] c \in 97..122 -> c - 71 [] c \in 48..57 -> c + 4
      [] c \in {43, 45} -> 62 [] c \in {47, 95} -> 63 [] OTHER -> -1

\* The table has 255 entries: that of the character 255 is whatever follows it.
Inverses(c) == IF c = 255 THEN {-1, 0, 63, 127} ELSE {InverseFromB64(c)}

\* The bytes that n pending values make.
Decoded(p, n) ==
    LET b == << ((p[1] * 4) + ((p[2] \div 16) % 4)) % 256,
                IF n > 2 THEN (((p[2] % 16) * 16) + ((p[3] \div 4) % 16)) % 256 ELSE 0,
                IF n > 3 THEN (((p[3] % 4) * 64) + p[4]) % 256 ELSE 0 >>
    IN  SubSeq(b, 1, n - 1)
-----------------------------------------------------------------------------
\* operator+=, remove and resize.
Edit ==
    /\ phase = "editing"
    /\ \E s \in {Append(data, v) : v \in Values}
                \cup {Cut(data, pos, len) : pos, len \in 0..MaxBytes}
                \cup {Resize(data, n) : n \in 0..MaxBytes} :
          Len(s) <= MaxBytes /\ data' = s
    /\ UNCHANGED <<text, intact, phase, position, pending, out>>

\* The text is written.  On its way it may lose its end, or have one of its
\* characters replaced.
Encode ==
    /\ phase = "editing"
    /\ LET written == ToBase64(data)
       IN  \/ text' = written /\ intact' = Len(written)
           \/ \E i \in DOMAIN written, c \in Strays :
                 text' = [written EXCEPT ![i] = c] /\ intact' = i - 1
           \/ \E n \in 0..Len(written) - 1 :
                 text' = SubSeq(written, 1, n) /\ intact' = n
    /\ phase' = "decoding" /\ position' = 0 /\ pending' = <<>> /\ out' = <<>>
    /\ UNCHANGED data

\* fromBase64 allocates this many bytes before it starts.
Allocated == (Len(text) * 3) \div 4

\* Mutant: the fourth value is pending until the next character.
TakeCharacterMutant ==
    /\ phase = "decoding" /\ position < Len(text)
    /\ \E inverse \in Inverses(text[position + 1]) :
          /\ text[position + 1] # Pad /\ inverse >= 0
          /\ IF Len(pending) = 3
             THEN out' = out \o Decoded(pending, 3) /\ pending' = <<inverse>>
             ELSE out' = out /\ pending' = Append(pending, inverse)
    /\ position' = position + 1
    /\ UNCHANGED <<data, text, intact, phase>>

TakeCharacter ==
    /\ phase = "decoding" /\ position < Len(text)
    /\ \E inverse \in Inverses(text[position + 1]) :
          /\ text[position + 1] # Pad /\ inverse >= 0
          /\ IF Len(pending) = 3
             THEN out' = out \o Decoded(Append(pending, inverse), 4) /\ pending' = <<>>
             ELSE out' = out /\ pending' = Append(pending, inverse)
    /\ position' = position + 1
    /\ UNCHANGED <<data, text, intact, phase>>

\* The end of the text, padding, or a character of no value.
Finish ==
    /\ phase = "decoding"
    /\ \/ position = Len(text)
       \/ position < Len(text)
          /\ (text[position + 1] = Pad \/ -1 \in Inverses(text[position + 1]))
    /\ out' = IF Len(pending) > 1 THEN out \o Decoded(pending, Len(pending)) ELSE out
    /\ phase' = "decoded" /\ pending' = <<>>
    /\ UNCHANGED <<data, text, intact, position>>

Again ==
    /\ phase = "decoded" /\ phase' = "editing"
    /\ text' = <<>> /\ intact' = 0 /\ position' = 0 /\ out' = <<>> /\ pending' = <<>>
    /\ UNCHANGED data

BaNext == Edit \/ Encode \/ TakeCharacter \/ Finish \/ Again

BaSpec == BaInit /\ [][BaNext]_baVars
-----------------------------------------------------------------------------
\* The decoder writes only into what it has allocated, also for texts that are
\* damaged or cut in any place (`out[outIdx++]` is not checked).
NeverOverruns == Len(out) <= Allocated

\* What is decoded is what was encoded, up to the first group of four characters
\* that is not there as it was written.
DecodesBack ==
    phase = "decoded" =>
        IF intact = Len(ToBase64(data)) THEN out = data
        ELSE LET whole == Lesser(3 * (intact \div 4), Len(data))
             IN  IsPrefix(SubSeq(data, 1, whole), out)

\* An array is the sum of what left and mid make of it at any place, remove
\* takes out what mid takes, and the searches agree with the pieces.
SlicesMakeTheWhole ==
    \A pos \in 0..Len(data) :
        /\ Left(data, pos) \o Mid(data, pos, 0) = data
        /\ StartsWith(data, Left(data, pos)) /\ EndsWith(data, Mid(data, pos, 0))
        /\ \A len \in 1..Len(data) - pos :
              Left(data, pos) \o Mid(data, pos, len) \o Mid(data, pos + len, 0) = data
        /\ \A len \in 0..Len(data) + 1 :
              Cut(data, pos, len) =
                  Left(data, pos)
                      \o IF pos + len >= Len(data) THEN <<>> ELSE Mid(data, pos + len, 0)
        /\ \A v \in Values :
              IndexOf(data, v) >= pos => v \notin Range(Left(data, pos))
=============================================================================
