------------------------------- MODULE Texts -------------------------------
(***************************************************************************)
(* The conversions of src/src/utils/StringUtils.h that requests and answers *)
(* depend on: wildcards in permissions and queries for modules, addresses,  *)
(* bytes as hexadecimal or Base64 text, and names whose UTF-8 was encoded   *)
(* twice.                                                                   *)
(*                                                                         *)
(* Each is an operator in the code's own terms; next to it stands what it   *)
(* is for, and a state is one input with the result, or one step of the     *)
(* matcher's loop.                                                          *)
(***************************************************************************)
EXTENDS Integers, Sequences, FiniteSets

CONSTANTS
  NameChars,    \* characters of names; the matcher's patterns also have "?" and "*"
  MaxText,      \* a bound on the length of texts
  ByteValues,   \* bytes to encode
  CodePoints,   \* of names in UTF-8, below 2048
  AddressSpan,  \* 2^64 in the code, the first value that does not fit
  AddressWidth  \* the digits an address has at least, 16 or 8

ASSUME TextsAssumption ==
    /\ MaxText \in Nat
    /\ ByteValues \subseteq 0..255
    /\ CodePoints \subseteq 0..2047
    /\ AddressSpan \in Nat \ {0} /\ AddressWidth \in Nat \ {0}

VARIABLE textJob   \* the input, and how far its conversion is

textVars == <<textJob>>

TextsOf(S, n) == UNION {[1..k -> S] : k \in 0..n}

-----------------------------------------------------------------------------
(* WildcardMatch().  Positions count from 1; star 0: no star yet.          *)

Matching(pattern, name) ==
    [kind |-> "match", pattern |-> pattern, name |-> name, p |-> 1, s |-> 1,
     star |-> 0, mark |-> 0, result |-> "none"]

\* What "*" and "?" mean: the characters of a pattern stand for parts of the
\* name that follow one another, and the first i of them end at ends[i].
StandsFor(pattern, name, ends, i) ==
    IF pattern[i] = "*" THEN ends[i - 1] <= ends[i]
    ELSE ends[i] = ends[i - 1] + 1 /\ pattern[i] \in {"?", name[ends[i]]}
Reference(pattern, name) ==
    \E ends \in [0..Len(pattern) -> 0..Len(name)] :
        /\ ends[0] = 0 /\ ends[Len(pattern)] = Len(name)
        /\ \A i \in 1..Len(pattern) : StandsFor(pattern, name, ends, i)

\* Mutant: the star takes another character, but the name goes on.
BacktrackShort(job) == [job EXCEPT !.p = job.star + 1, !.mark = @ + 1, !.s = job.s + 1]

\* The last star takes another character, and the rest is tried behind it.
Backtrack(job) == [job EXCEPT !.p = job.star + 1, !.mark = @ + 1, !.s = job.mark + 1]

MatchStep(job) ==
    LET p == job.p
        s == job.s
        more == p <= Len(job.pattern)
        fits == more /\ job.pattern[p] \in {job.name[s], "?"}
    IN  CASE s > Len(job.name) ->
               [job EXCEPT !.result =
                   IF \A i \in p..Len(job.pattern) : job.pattern[i] = "*" THEN "yes" ELSE "no"]
          [] s <= Len(job.name) /\ fits ->
               [job EXCEPT !.p = p + 1, !.s = s + 1]
          [] s <= Len(job.name) /\ ~fits /\ more /\ job.pattern[p] = "*" ->
               [job EXCEPT !.star = p, !.mark = s, !.p = p + 1]
          [] OTHER -> IF job.star # 0 THEN Backtrack(job) ELSE [job EXCEPT !.result = "no"]

-----------------------------------------------------------------------------
(* Bytes as text: ToBase64(), FromBase64(), BytesToHex(), HexToBytes().     *)
(* A Base64 digit is its number, a hexadecimal digit too.                   *)

Pad == -1
Space == -2
NoBytes == <<-3>>  \* what is no text, or no UTF-8
ByteAt(bytes, i) == IF i <= Len(bytes) THEN bytes[i] ELSE 0

\* The four digits of three bytes.
Digits(a, b, c) == <<a \div 4, (a % 4) * 16 + b \div 16, (b % 16) * 4 + c \div 64, c % 64>>

ToBase64(bytes) ==
    [k \in 1..4 * ((Len(bytes) + 2) \div 3) |->
        LET first == 3 * ((k - 1) \div 4)
            digit == ((k - 1) % 4) + 1
        IN  IF digit > Len(bytes) - first + 1 THEN Pad
            ELSE Digits(ByteAt(bytes, first + 1), ByteAt(bytes, first + 2), ByteAt(bytes, first + 3))[digit]]

BytesIn(digits) == 3 * (digits \div 4) + (IF digits % 4 = 0 THEN 0 ELSE (digits % 4) - 1)

\* Decoding ends at the first character that is no digit; a digit that is
\* missing in the last group is npos, cut to 255.
FromBase64(text) ==
    LET valid == IF \E i \in DOMAIN text : text[i] = Pad
                 THEN (CHOOSE i \in DOMAIN text :
                          text[i] = Pad /\ \A j \in 1..i - 1 : text[j] # Pad) - 1
                 ELSE Len(text)
        Digit(i) == IF i <= valid THEN text[i] ELSE 255
    IN  [k \in 1..BytesIn(valid) |->
            LET first == 4 * ((k - 1) \div 3)
                a == Digit(first + 1)
                b == Digit(first + 2)
                c == Digit(first + 3)
                d == Digit(first + 4)
            IN  CASE (k % 3) = 1 -> (a * 4 + ((b \div 16) % 4)) % 256
                  [] k % 3 = 2 -> ((b % 16) * 16 + ((c \div 4) % 16)) % 256
                  [] OTHER -> ((c % 4) * 64 + d) % 256]

BytesToHex(bytes) ==
    [k \in 1..2 * Len(bytes) |->
        IF (k % 2) = 1 THEN bytes[(k + 1) \div 2] \div 16 ELSE bytes[k \div 2] % 16]

\* Spaces are taken out wherever they stand; an odd number of digits is
\* refused.
WithoutSpaces(text) ==
    LET Upto[n \in 0..Len(text)] ==
            IF n = 0 THEN <<>>
            ELSE IF text[n] = Space THEN Upto[n - 1] ELSE Append(Upto[n - 1], text[n])
    IN  Upto[Len(text)]
HexToBytes(text) ==
    LET digits == WithoutSpaces(text)
    IN  IF Len(digits) % 2 # 0 THEN NoBytes
        ELSE [k \in 1..Len(digits) \div 2 |-> digits[2 * k - 1] * 16 + digits[2 * k]]

-----------------------------------------------------------------------------
(* ParseAddress() and FormatAddress().  A text is a sign, a prefix, a minus *)
(* behind it maybe, and hexadecimal digits, or not all of them digits       *)
(* (proper FALSE).                                                         *)

NoAddress == -1
AName == -2
AddressText(sign, prefix, minus, proper, digits) ==
    [sign |-> sign, prefix |-> prefix, minus |-> minus, proper |-> proper, digits |-> digits]
ValueOf(digits, base) ==
    LET Value[n \in 0..Len(digits)] == IF n = 0 THEN 0 ELSE Value[n - 1] * base + digits[n]
    IN  Value[Len(digits)]

\* std::all_of() with isxdigit(), or a prefix.
IsPlainNumber(text) == text.sign = "none" /\ (text.prefix \/ text.proper)

\* std::stoull() takes a plus, and a minus behind the prefix, which wraps.  A
\* number with a plus is no plain one, and decimal.
Number(text) ==
    LET value == ValueOf(text.digits, IF text.sign = "plus" THEN 10 ELSE 16)
    IN  IF \/ text.digits = <<>> \/ ~text.proper
           \/ value >= AddressSpan
           \/ text.sign = "plus" /\ text.prefix
           \/ text.sign = "plus" /\ \E i \in DOMAIN text.digits : text.digits[i] > 9
        THEN NoAddress
        ELSE IF text.minus THEN (AddressSpan - value) % AddressSpan ELSE value

\* Digits are hexadecimal without prefix too.  What looks like a number, by
\* its prefix or its digits, is never resolved as a name.
ParseAddress(text) ==
    CASE text.sign = "minus" -> NoAddress
      [] text.sign # "minus" /\ Number(text) # NoAddress -> Number(text)
      [] OTHER -> IF IsPlainNumber(text) THEN NoAddress ELSE AName

\* As many digits as the target's addresses have, or as the value needs.
FormatAddress(value, prefix) ==
    LET Left[n \in 0..AddressWidth + value] ==
            IF n = 0 THEN value ELSE Left[n - 1] \div 16
        Fits(n) == AddressWidth <= n /\ Left[n] = 0
        width == CHOOSE n \in 0..AddressWidth + value :
                     Fits(n) /\ \A m \in 0..n - 1 : ~Fits(m)
    IN  AddressText("none", prefix, FALSE, TRUE,
                    [k \in 1..width |-> Left[width - k] % 16])

-----------------------------------------------------------------------------
(* FixUtf8Mojibake().                                                       *)

EncodePoint(c) == IF c < 128 THEN <<c>> ELSE <<192 + c \div 64, 128 + (c % 64)>>
Utf8(points) ==
    LET Upto[n \in 0..Len(points)] == IF n = 0 THEN <<>> ELSE Upto[n - 1] \o EncodePoint(points[n])
    IN  Upto[Len(points)]

\* MultiByteToWideChar() with MB_ERR_INVALID_CHARS, for one and two bytes:
\* NoBytes, or the code points.
Utf16(bytes) ==
    LET Lead(i) == bytes[i] \in 194..223
        Follow(i) == i <= Len(bytes) /\ bytes[i] \in 128..191
        Upto[n \in 0..Len(bytes)] ==
            IF n = 0 THEN <<>>
            ELSE IF bytes[n] < 128 THEN Append(Upto[n - 1], bytes[n])
            ELSE IF Lead(n) THEN Upto[n - 1]
            ELSE Append(Upto[n - 1], (bytes[n - 1] - 192) * 64 + bytes[n] - 128)
    IN  IF \A i \in DOMAIN bytes : \/ bytes[i] < 128
                                   \/ Lead(i) /\ Follow(i + 1)
                                   \/ i > 1 /\ Follow(i) /\ Lead(i - 1)
        THEN Upto[Len(bytes)] ELSE NoBytes

\* Every code point is a byte, some are not ASCII, and as bytes they are
\* UTF-8 again.
FixUtf8Mojibake(bytes) ==
    LET wide == Utf16(bytes)
    IN  IF wide = NoBytes THEN bytes
        ELSE IF \/ \E i \in DOMAIN wide : wide[i] > 255
                \/ \A i \in DOMAIN wide : wide[i] < 128
             THEN bytes
        ELSE IF Utf16(wide) = NoBytes THEN bytes
        ELSE wide

-----------------------------------------------------------------------------
(* One input after the other.                                              *)

NoJob == [kind |-> "none"]
TextsInit == textJob = NoJob

GiveName ==
    /\ textJob = NoJob
    /\ \E pattern \in TextsOf(NameChars \cup {"?", "*"}, MaxText), name \in TextsOf(NameChars, MaxText) :
          textJob' = Matching(pattern, name)
StepMatch ==
    /\ textJob.kind = "match" /\ textJob.result = "none"
    /\ textJob' = MatchStep(textJob)
GiveBytes ==
    /\ textJob = NoJob
    /\ \E bytes \in TextsOf(ByteValues, MaxText + 1) : \E at \in 0..2 * Len(bytes) :
          textJob' = [kind |-> "bytes", bytes |-> bytes,
                      base64 |-> FromBase64(ToBase64(bytes)),
                      hex |-> LET text == BytesToHex(bytes)
                              IN  HexToBytes(SubSeq(text, 1, at) \o <<Space>>
                                             \o SubSeq(text, at + 1, Len(text)))]
GiveAddress ==
    /\ textJob = NoJob
    /\ \E sign \in {"none", "plus", "minus"}, prefix, minus, proper \in BOOLEAN,
          digits \in TextsOf({0, 1, 15}, MaxText) :
          /\ minus => prefix /\ sign = "none"
          /\ LET text == AddressText(sign, prefix, minus, proper, digits)
             IN  textJob' = [kind |-> "address", text |-> text, result |-> ParseAddress(text)]
GiveText ==
    /\ textJob = NoJob
    /\ \E points \in TextsOf(CodePoints, MaxText) :
          textJob' = [kind |-> "text", points |-> points,
                      once |-> FixUtf8Mojibake(Utf8(points)),
                      twice |-> FixUtf8Mojibake(Utf8(Utf8(points)))]

TextsNext == GiveName \/ StepMatch \/ GiveBytes \/ GiveAddress \/ GiveText

TextsSpec == TextsInit /\ [][TextsNext]_textVars

-----------------------------------------------------------------------------
(* Properties.                                                             *)

\* The loop with its one mark decides what the pattern means, for names
\* without a star in them: where a star of the pattern meets one in the name,
\* the loop takes it for a plain character.
MatchIsExact ==
    /\ textJob.kind = "match" /\ textJob.result # "none"
    /\ \A i \in DOMAIN textJob.name : textJob.name[i] # "*"
    => (textJob.result = "yes" <=> Reference(textJob.pattern, textJob.name))

\* What memory.read encodes, memory.write decodes to the same bytes.
BytesSurviveText ==
    textJob.kind = "bytes" => textJob.base64 = textJob.bytes /\ textJob.hex = textJob.bytes

\* Every address that an answer shows is read back as itself, with and without
\* its prefix, and a text that looks like a number is a number or an error,
\* never the name of a symbol.
NumbersAreNoNames ==
    textJob.kind = "address" =>
        /\ textJob.result = AName /\ textJob.text.sign = "none" =>
              ~textJob.text.prefix /\ ~textJob.text.proper
        /\ textJob.result \notin {AName, NoAddress} =>
              \A prefix \in BOOLEAN :
                  ParseAddress(FormatAddress(textJob.result, prefix)) = textJob.result

\* A name that was encoded twice is shown as it is, and one that was encoded
\* once is left alone unless it could be another name encoded twice.
EncodingIsUndoneOnce ==
    textJob.kind = "text" =>
        /\ textJob.twice = Utf8(textJob.points)
        /\ textJob.once # Utf8(textJob.points) => Utf16(textJob.points) # NoBytes

\* What the handlers make of a text: each conversion agrees with its meaning.
ConversionsAreExact ==
    MatchIsExact /\ BytesSurviveText /\ NumbersAreNoNames /\ EncodingIsUndoneOnce
=============================================================================
