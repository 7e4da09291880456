------------------------------ MODULE RtcpLayout ------------------------------
(***************************************************************************)
(* The layout of RTCP packets.  The first byte of a packet carries its     *)
(* header; text and measurements are filling.                              *)
(***************************************************************************)
EXTENDS PacketBytes

CONSTANT NoSsrc

HeaderSize == 4    \* sizeof(RTCPCommonHeader)
SenderInfoSize == 20   \* sizeof(RTCPSenderReport)
BlockSize == 24        \* sizeof(RTCPReceiverReport)
ItemHeaderSize == 2    \* sizeof(RTCPSDESHeader)

LengthModulus == 65536   \* the length field has 16 bits

RoundUp(n) == n + ((4 - (n % 4)) % 4)

\* A common header of a packet of `size` bytes.
Header(type, count, size) ==
    Word("head", [type |-> type, count |-> count, padding |-> FALSE,
                  length |-> (size \div WordSize - 1) % LengthModulus])

IsHead(b) == b.role = "head"

=============================================================================
