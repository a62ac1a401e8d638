------------------------------- MODULE Base64 -------------------------------
(***************************************************************************)
(* src/SDK/Common/Base64.cpp: base64 through OpenSSL's BIO_f_base64 with  *)
(* BIO_FLAGS_BASE64_NO_NL, and the URL-safe variant built on it.          *)
(* A string is a sequence of ASCII codes, bytes are 0..255.  OpenSSL is   *)
(* not in the sources: its writer is RFC 4648 base64 without line breaks, *)
(* and its reader is the NO_NL path of b64_read (one read of at most 1024 *)
(* characters): EVP_DecodeBlock over the longest prefix whose length is a *)
(* multiple of four, minus one byte per '=' among that prefix's last two  *)
(* characters.  '=' decodes as zero bits in EVP_DecodeBlock's table.      *)
(***************************************************************************)
EXTENDS Integers, SequencesExt

Eq    == 61    \* '='
Plus  == 43    \* '+'
Slash == 47    \* '/'
Minus == 45    \* '-'
Under == 95    \* '_'

\* The digit of a 6-bit value: A-Z, a-z, 0-9, '+', '/'.
Digit(v) ==
    CASE v < 26 -> 65 + v
      [] v < 52 -> 71 + v
      [] v < 62 -> v - 4
      [] v = 62 -> Plus
      [] OTHER  -> Slash

\* EVP_DecodeBlock's table, on the alphabet and '='.
Value(c) ==
    CASE c >= 65 /\ c <= 90  -> c - 65
      [] c >= 97 /\ c <= 122 -> c - 71
      [] c >= 48 /\ c <= 57  -> c + 4
      [] c = Plus            -> 62
      [] c = Slash           -> 63
      [] OTHER               -> 0

\* BIO_write then BIO_flush: three bytes become four digits; a last group
\* of one or two bytes is zero-filled and ends in two or one '='.
RECURSIVE BioEncode(_)
BioEncode(b) ==
    IF b = <<>> THEN <<>>
    ELSE LET n == IF Len(b) < 3 THEN Len(b) ELSE 3
             x == b[1]
             y == IF n > 1 THEN b[2] ELSE 0
             z == IF n > 2 THEN b[3] ELSE 0
             q == <<x \div 4, (x % 4) * 16 + y \div 16, (y % 16) * 4 + z \div 64, z % 64>>
         IN [i \in 1..4 |-> IF i <= n + 1 THEN Digit(q[i]) ELSE Eq]
              \o BioEncode(SubSeq(b, n + 1, Len(b)))

\* EVP_DecodeBlock on a whole number of quads: three bytes per quad.
RECURSIVE DecodeBlock(_)
DecodeBlock(s) ==
    IF Len(s) < 4 THEN <<>>
    ELSE LET a == Value(s[1])  b == Value(s[2])  c == Value(s[3])  d == Value(s[4])
         IN <<a * 4 + b \div 16, (b % 16) * 16 + c \div 4, (c % 4) * 64 + d>>
              \o DecodeBlock(SubSeq(s, 5, Len(s)))

\* The bytes BIO_read hands back: jj = len & ~3 characters are decoded and
\* a trailing '=' or '==' of those jj is taken off.
BioRead(s) ==
    LET jj   == (Len(s) \div 4) * 4
        z    == DecodeBlock(SubSeq(s, 1, jj))
        pads == IF jj > 2 /\ s[jj] = Eq THEN IF s[jj - 1] = Eq THEN 2 ELSE 1 ELSE 0
    IN SubSeq(z, 1, Len(z) - pads)

\* Base64::Encode(bytes_t).
Encode(b) == BioEncode(b)

\* Mutant: padding is 2 when either of the last two characters is '='.
DecodePadEither(s) ==
    LET len        == Len(s)
        padding    == IF s[len] = Eq \/ s[len - 1] = Eq THEN 2
                      ELSE IF s[len] = Eq THEN 1 ELSE 0
        decodedLen == (len * 3) \div 4 - padding
    IN [buffer |-> decodedLen, bytes |-> BioRead(s)]

\* Base64::Decode.  padding counts a trailing '=' or '==' (read as
\* input[len - 1] and input[len - 2]; the model takes len >= 2, shorter
\* input makes the code read before the string); the buffer is allocated
\* with decodedLen bytes, BIO_read is allowed input.size() bytes into it,
\* and the result is resized to what BIO_read returned.
Decode(s) ==
    LET len        == Len(s)
        padding    == IF s[len] = Eq /\ s[len - 1] = Eq THEN 2
                      ELSE IF s[len] = Eq THEN 1 ELSE 0
        decodedLen == (len * 3) \div 4 - padding
    IN [buffer |-> decodedLen, bytes |-> BioRead(s)]

\* Replaces every character c of s by c2.
Swap(s, c, c2) == [i \in DOMAIN s |-> IF s[i] = c THEN c2 ELSE s[i]]

\* Base64::EncodeURL: the '=' removed, '+' as '-' and '/' as '_'.
EncodeURL(b) ==
    Swap(Swap(SelectSeq(Encode(b), LAMBDA c : c # Eq), Plus, Minus), Slash, Under)

\* Mutant: '-' and '_' are mapped back the wrong way round.
DecodeURLSwapped(s) ==
    LET str    == Swap(Swap(s, Minus, Slash), Under, Plus)
        append == 4 - (Len(str) % 4)
    IN Decode(IF append # 4 THEN str \o [i \in 1..append |-> Eq] ELSE str)

\* Base64::DecodeURL: '-' and '_' back to '+' and '/', '=' appended up to
\* a multiple of four, then Decode.
DecodeURL(s) ==
    LET str    == Swap(Swap(s, Minus, Plus), Under, Slash)
        append == 4 - (Len(str) % 4)
    IN Decode(IF append # 4 THEN str \o [i \in 1..append |-> Eq] ELSE str)
====
