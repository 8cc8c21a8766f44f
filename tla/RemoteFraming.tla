---------------------------- MODULE RemoteFraming ----------------------------
(***************************************************************************)
(* Frames on a byte stream (remote/frame.hpp; cobs_encode, cobs_decode and *)
(* FrameDecoder of the SDK's protocol.py compute the same): a frame is its *)
(* content and a checksum, stuffed by COBS so that the only zero byte is   *)
(* the delimiter at its end.  A link collects bytes up to a delimiter and  *)
(* gives them to the decoder.                                              *)
(*                                                                         *)
(* A byte is 0..Block: Block stands for 0xFF, the code of a block that is  *)
(* not followed by a zero.  The checksum is one byte.                      *)
(***************************************************************************)
EXTENDS Integers, Sequences, SequencesExt

CONSTANT Block,             \* 0xFF
         FramingDesigns     \* the streams to consider

Byte == 0..Block

(* The contents of two frames and what precedes them; the capacities of    *)
(* the link's receive storage and of the decoder                           *)
FramingDesignType ==
    [first : Seq(Byte), second : Seq(Byte), noise : Seq(Byte), storage : Nat \ {0},
     decoder : Nat \ {0}]

ASSUME BlockAssumption == Block \in Nat \ {0, 1}
ASSUME FramingAssumption == FramingDesigns \subseteq FramingDesignType

VARIABLES
    fDesign,        \* the stream and the capacities
    stream,         \* bytes to come
    storage,        \* rx_storage_ of the link, up to rx_size_
    leased,         \* the bytes of an RX lease, given to the decoder
    encoded,        \* StreamDecoder::encoded_, up to encoded_size_
    dropping,       \* StreamDecoder::dropping_
    accepted        \* contents given to the handler

framingVars == <<fDesign, stream, storage, leased, encoded, dropping, accepted>>

-----------------------------------------------------------------------------
(* max_encoded_size                                                        *)
MaxEncoded(n) == n + n \div (Block - 1) + 2

(* cobs_encode: e.at is the place of the code of the current block *)
CloseBlock(e) == [out |-> Append([e.out EXCEPT ![e.at] = e.code], 0), at |-> Len(e.out) + 1, code |-> 1]
Stuff(e, b) ==
    LET more == [e EXCEPT !.out = Append(@, b), !.code = @ + 1] IN
    IF b = 0 THEN CloseBlock(e) ELSE IF more.code = Block THEN CloseBlock(more) ELSE more
CobsEncode(input) ==
    LET after[i \in 0..Len(input)] ==
            IF i = 0 THEN [out |-> <<0>>, at |-> 1, code |-> 1] ELSE Stuff(after[i - 1], input[i])
    IN CloseBlock(after[Len(input)]).out

(* cobs_decode, without the delimiter: what is decoded from place i on,    *)
(* and whether it could be                                                 *)
Malformed == [ok |-> FALSE, out |-> <<>>]
CobsDecode(input) ==
    LET n == Len(input)
        from[i \in 1..(n + 1)] ==
            IF i = n + 1 THEN [ok |-> TRUE, out |-> <<>>]
            ELSE LET code == input[i]
                     next == i + code
                 IN IF code = 0 \/ next > n + 1 THEN Malformed
                    ELSE LET rest == from[next] IN
                         [rest EXCEPT !.out =
                             SubSeq(input, i + 1, next - 1)
                             \o (IF code # Block /\ next <= n THEN <<0>> ELSE <<>>) \o @]
    IN from[1]

(* crc32c *)
Checksum(content) ==
    LET crc[i \in 0..Len(content)] ==
            IF i = 0 THEN 1 ELSE (3 * crc[i - 1] + content[i] + 1) % (Block + 1)
    IN crc[Len(content)]

(* encode and decode *)
Encode(content) == CobsEncode(Append(content, Checksum(content)))
Decode(bytes) ==
    LET d == CobsDecode(bytes) IN
    IF ~d.ok \/ Len(d.out) < 2 THEN Malformed
    ELSE [ok |-> Checksum(Front(d.out)) = Last(d.out), out |-> Front(d.out)]

-----------------------------------------------------------------------------
(* The link takes a byte.  Its storage starts over when it is full.        *)
(* Bug: or keeps what it has                                               *)
StoredOrLost(b) == IF Len(storage) = fDesign.storage THEN storage ELSE Append(storage, b)
Stored(b) == IF Len(storage) = fDesign.storage THEN <<b>> ELSE Append(storage, b)
Take ==
    /\ stream # <<>> /\ leased = <<>>
    /\ stream' = Tail(stream)
    /\ \/ /\ Head(stream) # 0
          /\ storage' = Stored(Head(stream))
          /\ UNCHANGED leased
       \/ /\ Head(stream) = 0
          /\ storage' = <<>>
          /\ leased' = Stored(0)
    /\ UNCHANGED <<fDesign, encoded, dropping, accepted>>

(* StreamDecoder::feed, a byte at a time *)
Feed ==
    /\ leased # <<>>
    /\ leased' = Tail(leased)
    /\ LET b == Head(leased)
           overflows == Len(encoded) = fDesign.decoder
       IN
       \/ /\ b = 0
          /\ LET r == Decode(encoded) IN
             accepted' = IF ~dropping /\ encoded # <<>> /\ r.ok THEN Append(accepted, r.out)
                         ELSE accepted
          /\ encoded' = <<>>
          /\ dropping' = FALSE
       \/ /\ b # 0
          /\ encoded' = IF overflows THEN <<>> ELSE IF dropping THEN encoded ELSE Append(encoded, b)
          /\ dropping' = (dropping \/ overflows)
          /\ UNCHANGED accepted
    /\ UNCHANGED <<fDesign, stream, storage>>

FramingStep == Take \/ Feed

FramingInit ==
    /\ fDesign \in FramingDesigns
    /\ stream = fDesign.noise \o Encode(fDesign.first) \o Encode(fDesign.second)
    /\ storage = <<>> /\ leased = <<>> /\ encoded = <<>> /\ dropping = FALSE /\ accepted = <<>>

-----------------------------------------------------------------------------
(* Properties *)

(* What is encoded fits max_encoded_size (frame.hpp:21-24), the bound all  *)
(* buffers are sized with, and its only zero is its last byte, whatever    *)
(* zeros and full blocks the content has.                                  *)
EncodedFits ==
    \A c \in {fDesign.first, fDesign.second} :
        /\ Len(Encode(c)) <= MaxEncoded(Len(c) + 1)
        /\ \A i \in 1..Len(Encode(c)) : Encode(c)[i] = 0 <=> i = Len(Encode(c))

(* The stream resynchronises: whatever came before, and however much of    *)
(* it, the last frame is decoded intact, and so is the first when a        *)
(* delimiter precedes it.                                                  *)
Resynchronised ==
    stream = <<>> /\ leased = <<>> =>
        /\ accepted # <<>> /\ Last(accepted) = fDesign.second
        /\ (fDesign.noise = <<>> \/ Last(fDesign.noise) = 0) =>
            Len(accepted) > 1 /\ Last(Front(accepted)) = fDesign.first

(* The framing keeps frames apart: an encoded frame fits its buffer and    *)
(* ends at its only zero, and a reader always finds the next one.          *)
FramesKept == EncodedFits /\ Resynchronised

=============================================================================
