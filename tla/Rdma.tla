-------------------------------- MODULE Rdma --------------------------------
(***************************************************************************)
(* The sending half of the RDMA transport module                           *)
(* (src/inet/transportlayer/rdma/Rdma.cc): how handleUpperPacket turns one *)
(* application message into the packets handed to IPv4, and the RdmaHeader *)
(* they carry.  Lengths and offsets are byte counts, as in the code.       *)
(*                                                                         *)
(* A message is a record                                                   *)
(*   [src, dst, seq, len, srcPort, destPort, id]                           *)
(* and its application bytes are numbered 0 .. len - 1.                    *)
(***************************************************************************)
EXTENDS Integers

CONSTANTS
  RDMA_HEADER_LENGTH,      (* bytes of an RdmaHeader chunk                 *)
  RDMA_MAX_MESSAGE_SIZE,   (* largest message sent without fragmenting     *)
  FragmentUnit,            (* fragment payloads are multiples of this: 8   *)
  IdModulus                (* identification is a uint16_t: 2^16           *)

ASSUME RdmaAssumption ==
  /\ RDMA_HEADER_LENGTH \in Nat \ {0}
  /\ FragmentUnit \in Nat \ {0}
  /\ IdModulus \in Nat \ {0}
  /\ RDMA_MAX_MESSAGE_SIZE \in Nat
  /\ RDMA_MAX_MESSAGE_SIZE >= RDMA_HEADER_LENGTH + FragmentUnit
  /\ RDMA_MAX_MESSAGE_SIZE >= 2 * RDMA_HEADER_LENGTH

(***************************************************************************)
(* RdmaHeader.                                                             *)
(***************************************************************************)
RdmaHeaderWide(srcPort, destPort, identification) ==
  [ srcPort |-> srcPort, destPort |-> destPort, identification |-> identification,
    totalLengthField |-> -1, fragmentOffset |-> 0, moreFragments |-> FALSE ]

RdmaHeader(srcPort, destPort, identification) ==
  [ srcPort          |-> srcPort,
    destPort         |-> destPort,
    identification   |-> identification % IdModulus,
    totalLengthField |-> -1,
    fragmentOffset   |-> 0,
    moreFragments    |-> FALSE ]

(* dup() goes through the copy constructor, whose copy() takes the ports,  *)
(* the length field and the CRC; the three fragmentation fields of the     *)
(* duplicate have their member initialisers.                               *)
Dup(header) ==
  [ header EXCEPT !.identification = 0,
                  !.fragmentOffset = 0,
                  !.moreFragments  = FALSE ]

(* The header handleUpperPacket builds before it looks at the length.      *)
MessageHeader(m) == RdmaHeader(m.srcPort, m.destPort, m.id)

(***************************************************************************)
(* Fragmentation arithmetic of handleUpperPacket.                          *)
(***************************************************************************)
NeedsFragmentation(m) == RDMA_HEADER_LENGTH + m.len > RDMA_MAX_MESSAGE_SIZE

(* payloadLength: the header length is subtracted although the header is   *)
(* not part of the packet yet.                                             *)
PayloadLength(m) == m.len - RDMA_HEADER_LENGTH

FragmentLength ==
  ((RDMA_MAX_MESSAGE_SIZE - RDMA_HEADER_LENGTH) \div FragmentUnit) * FragmentUnit

(* The values that offset takes in the while loop.                         *)
Offsets(payloadLength) ==
  { offset \in 0 .. payloadLength - 1 : offset % FragmentLength = 0 }

IsLastFragmentStrict(payloadLength, offset) ==
  offset + FragmentLength > payloadLength

IsLastFragment(payloadLength, offset) ==
  offset + FragmentLength >= payloadLength

ThisFragmentLength(payloadLength, offset) ==
  IF IsLastFragment(payloadLength, offset) THEN payloadLength - offset
                                           ELSE FragmentLength

(***************************************************************************)
(* Packets.  A packet has hdrs copies of its header in front of len data   *)
(* bytes, which are the bytes from .. from + len - 1 of message msg.       *)
(***************************************************************************)
ByteLength(p) == p.hdrs * RDMA_HEADER_LENGTH + p.len

(* A byte of a packet: pos is its number in the message, -1 in a header.   *)
PacketByte(p, i) ==
  [ msg |-> p.msg,
    pos |-> IF i < p.hdrs * RDMA_HEADER_LENGTH
              THEN -1
              ELSE p.from + (i - p.hdrs * RDMA_HEADER_LENGTH) ]

WholePacket(m) ==
  [ msg  |-> m,
    hdr  |-> [ MessageHeader(m) EXCEPT
                 !.totalLengthField = RDMA_HEADER_LENGTH + m.len ],
    hdrs |-> 1,
    from |-> 0,
    len  |-> m.len ]

(* One iteration of the loop.  The header goes in twice: once by           *)
(* insertTransportProtocolHeader and once by insertAtFront.                *)
Fragment(m, offset) ==
  LET n == ThisFragmentLength(PayloadLength(m), offset)
  IN [ msg  |-> m,
       hdr  |-> [ Dup(MessageHeader(m)) EXCEPT
                    !.moreFragments    = ~IsLastFragment(PayloadLength(m), offset),
                    !.fragmentOffset   = MessageHeader(m).fragmentOffset + offset,
                    !.totalLengthField = RDMA_HEADER_LENGTH + n ],
       hdrs |-> 2,
       from |-> RDMA_HEADER_LENGTH + offset,
       len  |-> n ]

(* The packets handleUpperPacket sends for m; the loop sends them in the   *)
(* order of their fragmentOffset.                                          *)
HandleUpperPacket(m) ==
  IF NeedsFragmentation(m)
    THEN { Fragment(m, offset) : offset \in Offsets(PayloadLength(m)) }
    ELSE { WholePacket(m) }

=============================================================================
