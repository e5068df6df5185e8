-------------------------------- MODULE Utf8 --------------------------------
(***************************************************************************)
(* decodeUtf8() (src/src/ui/font5x7.cpp), which every text on either       *)
(* display goes through.  Stream titles arrive cut off and in other        *)
(* encodings, so it takes any bytes: a byte that starts no whole character *)
(* becomes one U+FFFD, and the next byte is looked at afresh.              *)
(***************************************************************************)
EXTENDS Integers, Sequences, SequencesExt

Bytes    == 0 .. 255
Replaced == 65533

\* How many bytes a character is that starts with this one, 0 if none does.
Length(lead) == CASE lead < 128         -> 1
                  [] lead \in 192 .. 223 -> 2
                  [] lead \in 224 .. 239 -> 3
                  [] lead \in 240 .. 247 -> 4
                  [] OTHER               -> 0
Payload(lead) == CASE Length(lead) = 2 -> lead % 32
                   [] Length(lead) = 3 -> lead % 16
                   [] Length(lead) = 4 -> lead % 8
                   [] OTHER            -> lead

Continues(byte) == byte \in 128 .. 191

\* A whole character is at position i of the text.
Valid(text, i) ==
    /\ Length(text[i]) > 0
    /\ i + Length(text[i]) - 1 <= Len(text)
    /\ \A k \in 1 .. Length(text[i]) - 1 : Continues(text[i + k])

Taken(text, i) == IF Valid(text, i) THEN Length(text[i]) ELSE 1

\* A lead byte's payload, and six bits of every byte after it.
Joined(payload, following) ==
    FoldLeft(LAMBDA codePoint, next : codePoint * 64 + (next % 64), payload, following)

CodePoint(text, i) == Joined(Payload(text[i]), SubSeq(text, i + 1, i + Length(text[i]) - 1))

DecodeUtf8(text) ==
    LET Rest[i \in 1 .. Len(text) + 1] ==
            IF i > Len(text) THEN <<>>
            ELSE <<IF Valid(text, i) THEN CodePoint(text, i) ELSE Replaced>>
                 \o Rest[i + Taken(text, i)]
    IN Rest[1]

----------------------------------------------------------------------------
(* What is asked of it.                                                    *)

\* UTF-8 as its standard defines it, the other way round: six bits of the character in
\* every byte but the first, the last ones last.
BytesOf(c) == CASE c < 128                  -> 1
                [] 128 <= c /\ c < 2048    -> 2
                [] 2048 <= c /\ c < 65536  -> 3
                [] 65536 <= c              -> 4
Upper(c)        == c \div 64
Continuation(c) == 128 + (c % 64)
Encoded(c) ==
    CASE BytesOf(c) = 1 -> <<c>>
      [] BytesOf(c) = 2 -> <<192 + Upper(c), Continuation(c)>>
      [] BytesOf(c) = 3 -> <<224 + Upper(Upper(c)), Continuation(Upper(c)), Continuation(c)>>
      [] BytesOf(c) = 4 -> <<240 + Upper(Upper(Upper(c))), Continuation(Upper(Upper(c))),
                             Continuation(Upper(c)), Continuation(c)>>
EncodedText(characters) == FlattenSeq([n \in DOMAIN characters |-> Encoded(characters[n])])

\* A text that is UTF-8 comes back as its characters.
RoundTrip(characters) == DecodeUtf8(EncodedText(characters)) = characters

\* Whatever stands between two characters spoils neither of them.
DamageIsLocal(before, damage, after) ==
    DecodeUtf8(Encoded(before) \o damage \o Encoded(after))
        = <<before>> \o DecodeUtf8(damage) \o <<after>>

\* The loop goes on by at least a byte, and by none past the end.
StaysInText(text) == \A i \in 1 .. Len(text) : Taken(text, i) \in 1 .. Len(text) - i + 1
=============================================================================
