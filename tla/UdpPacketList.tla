---------------------------- MODULE UdpPacketList ----------------------------
(***************************************************************************)
(* udp_packet_list: datagrams one after the other in a buffer.  Whoever    *)
(* fills the list writes a datagram at data_end and then calls             *)
(* add_packet(); the buffer has room for one datagram of the largest size  *)
(* behind the limit that makes the list full.                              *)
(*                                                                         *)
(* A datagram in the buffer is where it starts, its size and what it is.   *)
(* Bytes behind data_end are never read and not modelled.                  *)
(***************************************************************************)
EXTENDS Naturals, Sequences

CONSTANTS
  MaxNpackets, MaxNbytes,   \* the arguments of the constructor
  MaxInputSize              \* constants::max_input_udp_packet_size

Empty == [npackets |-> 0, nbytes |-> 0, is_full |-> FALSE, packet_offsets |-> <<0>>, buf |-> {}]

BufSize == MaxNbytes + MaxInputSize
DataEnd(list) == list.nbytes

(* packet_offsets[i], from 0. *)
Offset(list, i) == list.packet_offsets[i + 1]

FullByCount(npackets, nbytes) == npackets >= MaxNpackets   \* mutant: the bytes are forgotten
IsFull(npackets, nbytes) == npackets >= MaxNpackets \/ nbytes >= MaxNbytes

AddThrows(list, nbytes) == nbytes = 0 \/ nbytes > MaxInputSize \/ list.is_full

(* The write at data_end destroys what it overlaps. *)
AddPacket(list, what, nbytes) ==
  LET at == DataEnd(list)
      end == at + nbytes
  IN  [npackets |-> list.npackets + 1,
       nbytes   |-> end,
       is_full  |-> IsFull(list.npackets + 1, end),
       packet_offsets |-> Append(list.packet_offsets, end),
       buf |-> {x \in list.buf : x.at + x.nbytes <= at \/ end <= x.at}
                 \union {[at |-> at, nbytes |-> nbytes, what |-> what]}]

(* What get_packet_data(i) and get_packet_nbytes(i) give: one datagram, if *)
(* it is intact.                                                           *)
PacketAt(list, i) ==
  {x \in list.buf : x.at = Offset(list, i) /\ x.at + x.nbytes = Offset(list, i + 1)}
===============================================================================
