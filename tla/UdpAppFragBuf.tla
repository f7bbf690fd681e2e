--------------------------- MODULE UdpAppFragBuf ----------------------------
(***************************************************************************)
(* UdpAppFragBuf (src/inet/applications/udpapp/fragBuff/UdpFragBuf.cc),    *)
(* the buffers in which MyUdpBasicApp puts the fragments of its messages   *)
(* together.  A buffer is found by the id of the message alone.  The       *)
(* regions of its ReassemblyBuffer are a function from the offsets held to *)
(* the byte held there (see module ChunkBuffer).                           *)
(***************************************************************************)
EXTENDS Integers

(* Byte i of a packet, as a byte of the message it was cut from.           *)
PacketByte(p, i) == [ src |-> p.src, seq |-> p.seq, at |-> p.offset + i ]

(* Key.id is a uint16_t.                                                   *)
Key(p) == p.id % 65536

NoBuffers == [ key \in {} |-> 0 ]

NewDatagramBuffer == [ bytes |-> [ i \in {} |-> 0 ], expectedLength |-> -1 ]

CurBuf(bufs, p) == IF Key(p) \in DOMAIN bufs THEN bufs[Key(p)] ELSE NewDatagramBuffer

(* ReassemblyBuffer.replace and setExpectedLength.                         *)
WithFragment(buf, p) ==
  LET held == p.offset .. p.offset + p.len - 1
  IN  [ bytes |-> [ i \in DOMAIN buf.bytes \cup held |->
                      IF i \in held THEN PacketByte(p, i - p.offset) ELSE buf.bytes[i] ],
        expectedLength |-> IF p.more THEN buf.expectedLength ELSE p.offset + p.len ]

IsCompleteByCount(buf) == buf.expectedLength > 0 /\ buf.expectedLength - 1 \in DOMAIN buf.bytes

IsComplete(buf) ==
  buf.expectedLength > 0 /\ DOMAIN buf.bytes = 0 .. buf.expectedLength - 1

Reassembly(bufs, p) == WithFragment(CurBuf(bufs, p), p)

(* bufs after addFragment: a buffer that is complete is erased.            *)
AddFragment(bufs, p) ==
  IF IsComplete(Reassembly(bufs, p))
    THEN [ key \in DOMAIN bufs \ {Key(p)} |-> bufs[key] ]
    ELSE [ key \in DOMAIN bufs \cup {Key(p)} |->
             IF key = Key(p) THEN Reassembly(bufs, p) ELSE bufs[key] ]

=============================================================================
