----------------------------- MODULE MCPacketIO -----------------------------
(***************************************************************************)
(* Integers and payloads for PacketIO: numbers below 16 in two bytes of    *)
(* two bits each, the lower one first, and payloads that are empty or as   *)
(* long as a timestamp, of bytes that could be a size or a kind.           *)
(***************************************************************************)
EXTENDS PacketIO

MCByte == 0 .. 3

MCImage == [n \in 0 .. 15 |-> <<n % 4, n \div 4>>]

MCParameters == <<3>>

MCPayloads == {<<>>, <<2, 1>>}
=============================================================================
