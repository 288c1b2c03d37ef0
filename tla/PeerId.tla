------------------------------- MODULE PeerId -------------------------------
(***************************************************************************)
(* sf-peer-id: FixedSizePeerID<S>, its texts (FromStr, Display), its bytes *)
(* (write, from_bytes) and its serde form; with them the percent decoding  *)
(* of sf-server's extract_peer_id.rs, which turns the query of a request   *)
(* into the text of an identifier.                                         *)
(***************************************************************************)
EXTENDS Integers, Sequences, Outcome

(* A character is the value of the hexadecimal digit it stands for, with   *)
(* 16 added for the capitals A-F. All other characters are NotHex, but for *)
(* the percent sign, which introduces an escape in a query.                *)
NotHex  == 32
Percent == 33
HexChar == 0..15 \cup 26..31
Character == HexChar \cup {NotHex, Percent}
(* hex_char_to_value *)
HexValue(ch) == IF ch > 15 THEN ch - 16 ELSE ch

(* An identifier: the used bytes come first, and u8 holds their number.    *)
PeerID(S) == [size : 0..255, bytes : [1..S -> 0..255]]

-----------------------------------------------------------------------------
(* from_str. The characters are taken two by two, the first of a pair      *)
(* before the second; the last pair of a string of odd length has only one *)
(* and indexing the other panics. Bytes beyond the text are zero, and the  *)
(* size is cast to u8.                                                     *)
FromStr(S, s) ==
    IF Len(s) > 2 * S THEN Error("InvalidLength")
    ELSE IF \E i \in 1..Len(s) : s[i] \notin HexChar THEN Error("InvalidHexEncoding")
    ELSE IF Len(s) % 2 = 1 THEN Panic
    ELSE Ok([size  |-> (Len(s) \div 2) % 256,
             bytes |-> [i \in 1..S |->
                 IF 2 * i <= Len(s) THEN 16 * HexValue(s[2 * i - 1]) + HexValue(s[2 * i])
                 ELSE 0]])

(* fmt::Display: two digits for each byte in use.                          *)
Display(id) ==
    [i \in 1..2 * id.size |->
        IF i % 2 = 1 THEN id.bytes[(i + 1) \div 2] \div 16 ELSE id.bytes[i \div 2] % 16]

-----------------------------------------------------------------------------
(* unsigned_varint, of a u8.                                               *)
Varint(n) == IF n < 128 THEN <<n>> ELSE <<(n % 128) + 128, n \div 128>>

(* From<ReadError> for Error: the bytes ran out, or they are no varint of a*)
(* u8.                                                                     *)
ReadError(w) == IF Len(w) < 2 THEN Error("Io") ELSE Error("Varint")

(* What read_u8 makes of the front of w: the value and the bytes it took.  *)
ReadVarint(w) ==
    IF w # <<>> /\ w[1] < 128 THEN Ok([n |-> w[1], took |-> 1])
    ELSE IF Len(w) < 2 \/ w[2] = 0 \/ w[2] > 127 THEN ReadError(w)
    ELSE Ok([n |-> (w[1] % 128) + 128 * (w[2] % 2), took |-> 2])

(* write_peer_id: the size, then the bytes in use.                         *)
Write(id) == Varint(id.size) \o [i \in 1..id.size |-> id.bytes[i]]

(* Mutant: the rest of the array keeps what a shared buffer held.          *)
ReadPeerIdDirty(S, w) ==
    LET v == ReadVarint(w) IN
    IF v.tag # "ok" THEN v
    ELSE IF v.val.n > S % 256 THEN Error("InvalidLength")
    ELSE IF Len(w) < v.val.took + v.val.n THEN Error("Io")
    ELSE Ok([id |-> [size  |-> v.val.n,
                     bytes |-> [i \in 1..S |-> IF i <= v.val.n THEN w[v.val.took + i] ELSE w[1]]],
             took |-> v.val.took + v.val.n])

(* read_peer_id: the size is compared with S as a u8, and too few bytes are*)
(* an I/O error. It returns how many bytes it took as well.                *)
ReadPeerId(S, w) ==
    LET v == ReadVarint(w) IN
    IF v.tag # "ok" THEN v
    ELSE IF v.val.n > S % 256 THEN Error("InvalidLength")
    ELSE IF Len(w) < v.val.took + v.val.n THEN Error("Io")
    ELSE Ok([id |-> [size  |-> v.val.n,
                     bytes |-> [i \in 1..S |-> IF i <= v.val.n THEN w[v.val.took + i] ELSE 0]],
             took |-> v.val.took + v.val.n])

(* from_bytes: bytes left over are a wrong length.                         *)
FromBytes(S, w) ==
    LET r == ReadPeerId(S, w) IN
    IF r.tag # "ok" THEN r
    ELSE IF Len(w) > r.val.took THEN Error("InvalidLength")
    ELSE Ok(r.val.id)

(* Serialize writes into a buffer of 1 + S bytes, and visit_seq collects   *)
(* the elements of a JSON array into another one.                          *)
Serialize(S, id)  == IF Len(Write(id)) > 1 + S THEN Error("Serialize") ELSE Ok(Write(id))
Deserialize(S, w) == IF Len(w) > 1 + S THEN Error("Deserialize") ELSE FromBytes(S, w)

-----------------------------------------------------------------------------
(* PartialEq and Hash look at the bytes in use, the derived order at all.  *)
Used(id)        == <<id.size, [i \in 1..id.size |-> id.bytes[i]]>>
Eq(a, b)        == Used(a) = Used(b)
OrdEqual(a, b)  == a.size = b.size /\ a.bytes = b.bytes

-----------------------------------------------------------------------------
(* The ASCII code of a hexadecimal digit, and the character of a code.     *)
Code(ch)     == IF ch < 10 THEN 48 + ch ELSE IF ch < 16 THEN 87 + ch ELSE 39 + ch
CharOf(code) == IF \E ch \in HexChar : Code(ch) = code
                THEN CHOOSE ch \in HexChar : Code(ch) = code ELSE NotHex

(* An escape at position i of a query value, and whether it can be decoded:*)
(* both digits must be there, and be digits.                               *)
Escaped(v, i)   == CharOf(16 * HexValue(v[i + 1]) + HexValue(v[i + 2]))
Decodable(v, i) ==
    /\ i + 2 <= Len(v) /\ v[i + 1] \in HexChar /\ v[i + 2] \in HexChar
    /\ HexValue(v[i + 1]) < 8

(* Mutant: the bound check of an escape is off by one.                     *)
PercentDecodeShort(v) ==
    LET dec[i \in 1..Len(v) + 1] ==
            IF i > Len(v) THEN Ok(<<>>)
            ELSE IF v[i] = Percent /\ (~Decodable(v, i) \/ i + 2 >= Len(v)) THEN Error("Decode")
            ELSE LET rest == dec[IF v[i] = Percent THEN i + 3 ELSE i + 1] IN
                 IF rest.tag = "error" THEN rest
                 ELSE Ok(<<IF v[i] = Percent THEN Escaped(v, i) ELSE v[i]>> \o rest.val)
    IN dec[1]

(* percent_decode. A byte of 128 or more would have to be part of a longer *)
(* UTF-8 sequence: the model has none, and it is an error.                 *)
PercentDecode(v) ==
    LET dec[i \in 1..Len(v) + 1] ==
            IF i > Len(v) THEN Ok(<<>>)
            ELSE IF v[i] = Percent /\ ~Decodable(v, i) THEN Error("Decode")
            ELSE LET rest == dec[IF v[i] = Percent THEN i + 3 ELSE i + 1] IN
                 IF rest.tag = "error" THEN rest
                 ELSE Ok(<<IF v[i] = Percent THEN Escaped(v, i) ELSE v[i]>> \o rest.val)
    IN dec[1]
=============================================================================
