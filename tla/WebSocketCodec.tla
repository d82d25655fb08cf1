--------------------------- MODULE WebSocketCodec ---------------------------
(***************************************************************************)
(* The bytes of a WebSocket frame as WebSocketClientImplCurl writes and    *)
(* reads them.  A byte has BitsPerByte bits, 8 in the code, and the length *)
(* in a header one bit less; its last two values say that the length       *)
(* follows in 2 or in 8 bytes.                                             *)
(*                                                                         *)
(* A frame is [header, bytes]: the two bytes of the header are a record,   *)
(* with the fields that HostIsBigEndian places; the other bytes follow.    *)
(* The parameter bBig is HostIsBigEndian.                                  *)
(***************************************************************************)
EXTENDS Integers, SequencesExt

CONSTANT BitsPerByte

ASSUME CodecAssumption == BitsPerByte \in Nat /\ BitsPerByte >= 3

\* 2 ^ n, for every number of bits up to the 8 bytes of a length.
Power2[n \in 0 .. 8 * BitsPerByte] == IF n = 0 THEN 1 ELSE 2 * Power2[n - 1]

ByteSize == Power2[BitsPerByte]
Bytes == 0 .. ByteSize - 1

LengthIn2 == ByteSize \div 2 - 2
LengthIn8 == ByteSize \div 2 - 1

Text == 1
Close == 8

\* The k bytes of n, and the number that has these bytes.
BigEndian(n, k) == [i \in 1 .. k |-> (n \div Power2[BitsPerByte * (k - i)]) % ByteSize]

ValueOf(bytes) ==
    LET Value[i \in 0 .. Len(bytes)] == IF i = 0 THEN 0 ELSE Value[i - 1] * ByteSize + bytes[i]
    IN  Value[Len(bytes)]

ByHost(bBig, bytes) == IF bBig THEN bytes ELSE Reverse(bytes)
InMemory(bBig, n, k) == ByHost(bBig, BigEndian(n, k))
FromMemory(bBig, bytes) == ValueOf(ByHost(bBig, bytes))

net_to_host(bBig, bytes) == IF bBig THEN bytes ELSE Reverse(bytes)

\* The bits that one of a and b has, from the lowest on.
Xor[a \in Bytes] ==
    [b \in Bytes |-> IF a = 0 THEN b ELSE ((a + b) % 2) + 2 * Xor[a \div 2][b \div 2]]

WsMask(data, mask_key) == [i \in DOMAIN data |-> Xor[data[i]][mask_key[((i - 1) % 4) + 1]]]

-----------------------------------------------------------------------------
\* Mutant: a length that fills two bytes is written in two.
ExtendedBytesOneMore(len) ==
    CASE len < LengthIn2 -> 0
      [] len \in LengthIn2 .. Power2[2 * BitsPerByte] -> 2
      [] len > Power2[2 * BitsPerByte] -> 8

\* extendedBtyes of a message of len bytes.
ExtendedBytes(len) ==
    CASE len < LengthIn2 -> 0
      [] len \in LengthIn2 .. Power2[2 * BitsPerByte] - 1 -> 2
      [] len >= Power2[2 * BitsPerByte] -> 8

\* FILL_WS_HEADER. The types with a low opcode 0, Continuation and Close, are
\* neither masked nor given a length.
WsHeader(msg) ==
    LET bLow == msg.type % 8 # 0
        extended == ExtendedBytes(Len(msg.data)) IN
    [fin |-> TRUE, opcode |-> msg.type, masked |-> bLow,
     payloadlen |-> CASE ~bLow -> 0
                      [] bLow /\ extended = 0 -> Len(msg.data)
                      [] bLow /\ extended = 2 -> LengthIn2
                      [] bLow /\ extended = 8 -> LengthIn8]

\* The key goes out, and masks the payload, whatever the header says.
Send(bBig, msg, mask_key) ==
    LET extended == IF msg.type % 8 # 0 THEN ExtendedBytes(Len(msg.data)) ELSE 0
        size == net_to_host(bBig, InMemory(bBig, Len(msg.data), extended)) IN
    [header |-> WsHeader(msg), bytes |-> size \o mask_key \o WsMask(msg.data, mask_key)]

\* PARSE_WS_HEADER and UNMASK_PAYLOAD on the bytes that have arrived of a
\* frame: the message, or none as long as bytes are missing.
ReadFrame(bBig, header, bytes) ==
    LET extended == CASE header.payloadlen = LengthIn2 -> 2
                      [] header.payloadlen = LengthIn8 -> 8
                      [] OTHER -> 0
        key == extended + (IF header.masked THEN 4 ELSE 0)
        payloadlen == IF extended = 0 THEN header.payloadlen
                      ELSE FromMemory(bBig, net_to_host(bBig, SubSeq(bytes, 1, extended)))
        data == SubSeq(bytes, key + 1, key + payloadlen) IN
    IF Len(bytes) < key \/ Len(bytes) < key + payloadlen THEN {}
    ELSE {[type |-> header.opcode,
           data |-> IF header.masked THEN WsMask(data, SubSeq(bytes, extended + 1, key)) ELSE data]}

-----------------------------------------------------------------------------
(* The signalling server (external), as RFC 6455 has it: lengths are big    *)
(* endian and as short as they can be, its own frames are not masked, and   *)
(* it takes only frames that are.                                           *)

ServerFrame(msg) ==
    LET len == Len(msg.data)
        extended == CHOOSE k \in {0, 2, 8} :
            /\ len < (CASE k = 0 -> LengthIn2 [] k = 2 -> Power2[2 * BitsPerByte] [] k = 8 -> len + 1)
            /\ k # 0 => len >= LengthIn2
            /\ k = 8 => len >= Power2[2 * BitsPerByte] IN
    [header |-> [fin |-> TRUE, opcode |-> msg.type, masked |-> FALSE,
                 payloadlen |-> CASE extended = 0 -> len
                                  [] extended = 2 -> LengthIn2
                                  [] extended = 8 -> LengthIn8],
     bytes |-> BigEndian(len, extended) \o msg.data]

\* There is one way to write a message with a key: what the server makes of a
\* frame is the message whose frame it is.
ServerReads(frame, msg) ==
    LET plain == ServerFrame(msg)
        size == Len(plain.bytes) - Len(msg.data)
        mask_key == SubSeq(frame.bytes, size + 1, size + 4) IN
    /\ frame.header = [plain.header EXCEPT !.masked = TRUE]
    /\ Len(frame.bytes) = size + 4 + Len(msg.data)
    /\ SubSeq(frame.bytes, 1, size) = SubSeq(plain.bytes, 1, size)
    /\ \A i \in DOMAIN msg.data :
          Xor[frame.bytes[size + 4 + i]][mask_key[((i - 1) % 4) + 1]] = msg.data[i]
=============================================================================
