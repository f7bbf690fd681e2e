---------------------------- MODULE RdmaFragBuf -----------------------------
(***************************************************************************)
(* RdmaAppFragBuf (src/inet/applications/rdmaapp/fragBuff/RdmaFragBuf.cc), *)
(* the buffers in which RdmaBasicApp reassembles fragmented messages, over *)
(* inet's ReassemblyBuffer.                                                *)
(*                                                                         *)
(* bufs maps a key to a DatagramBuffer.  The regions of a ReassemblyBuffer *)
(* are adjacent-merged, so they are the function bytes from the offsets    *)
(* held to the byte held there (module ChunkBuffer checks the region list  *)
(* against this function).                                                 *)
(***************************************************************************)
EXTENDS Rdma

CONSTANT NoPacket          (* the null pointer                             *)

KeyWithoutLocalPort(p) ==
  [ id |-> p.hdr.identification, localPort |-> 0, remotePort |-> p.hdr.destPort ]

(* There is no source address in the key.                                  *)
Key(p) ==
  [ id         |-> p.hdr.identification,
    localPort  |-> p.hdr.srcPort,
    remotePort |-> p.hdr.destPort ]

NoBuffers == [ key \in {} |-> NoPacket ]

NewDatagramBuffer ==
  [ bytes |-> [ i \in {} |-> NoPacket ], expectedLength |-> -1, packet |-> NoPacket ]

(* ReassemblyBuffer.replace: the new bytes overwrite what was there.       *)
Replace(bytes, offset, n, chunk(_)) ==
  [ i \in DOMAIN bytes \cup (offset .. offset + n - 1) |->
      IF i \in offset .. offset + n - 1 THEN chunk(i - offset) ELSE bytes[i] ]

IsCompleteOffByOne(buf) ==
  buf.expectedLength > 0 /\ DOMAIN buf.bytes = 0 .. buf.expectedLength

(* One region, at offset 0, of the expected length.                        *)
IsComplete(buf) ==
  /\ buf.expectedLength > 0
  /\ DOMAIN buf.bytes = 0 .. buf.expectedLength - 1

CurBuf(bufs, key) ==
  IF key \in DOMAIN bufs THEN bufs[key] ELSE NewDatagramBuffer

WithFragmentNoOffset(buf, p) ==
  LET bytes == p.hdr.totalLengthField - RDMA_HEADER_LENGTH
      chunk(i) == PacketByte(p, RDMA_HEADER_LENGTH + i)
  IN [ bytes          |-> Replace(buf.bytes, p.hdr.fragmentOffset, bytes, chunk),
       expectedLength |-> IF p.hdr.moreFragments THEN buf.expectedLength ELSE bytes,
       packet         |-> IF p.hdr.fragmentOffset = 0 \/ buf.packet = NoPacket
                            THEN p
                            ELSE buf.packet ]

(* The bytes after the first header go in at the fragment's                *)
(* offset, a fragment without MORE sets the expected length, and the       *)
(* packet kept is the last one of offset 0 (or the first to arrive).       *)
WithFragment(buf, p) ==
  LET bytes == p.hdr.totalLengthField - RDMA_HEADER_LENGTH
      chunk(i) == PacketByte(p, RDMA_HEADER_LENGTH + i)
  IN [ bytes          |-> Replace(buf.bytes, p.hdr.fragmentOffset, bytes, chunk),
       expectedLength |-> IF p.hdr.moreFragments
                            THEN buf.expectedLength
                            ELSE p.hdr.fragmentOffset + bytes,
       packet         |-> IF p.hdr.fragmentOffset = 0 \/ buf.packet = NoPacket
                            THEN p
                            ELSE buf.packet ]

(* The buffer that p leads to, before the completeness test.               *)
Reassembly(bufs, p) == WithFragment(CurBuf(bufs, Key(p)), p)

AddFragmentNoErase(bufs, p) ==
  [ key \in DOMAIN bufs \cup {Key(p)} |->
      IF key = Key(p) THEN Reassembly(bufs, p) ELSE bufs[key] ]

(* bufs after addFragment: a complete datagram's buffer is erased.         *)
AddFragment(bufs, p) ==
  IF IsComplete(Reassembly(bufs, p))
    THEN [ key \in DOMAIN bufs \ {Key(p)} |-> bufs[key] ]
    ELSE [ key \in DOMAIN bufs \cup {Key(p)} |->
             IF key = Key(p) THEN Reassembly(bufs, p) ELSE bufs[key] ]

=============================================================================
