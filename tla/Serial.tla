-------------------------------- MODULE Serial --------------------------------
(***************************************************************************)
(* The framing of packets on the serial line of qemud.c, at the level of   *)
(* bytes: serial_send puts a header before a payload and queues the two,   *)
(* fdhandler_event writes as much of the first packet of the queue as the  *)
(* descriptor takes, reads return any part of what is on the line, and     *)
(* serial_fd_receive finds the packets in it again.                        *)
(*                                                                         *)
(* The two ends of the line have the same format; here the receiving half  *)
(* of the code reads what its sending half has written.  The emulator may  *)
(* also put frames on the line that are to be ignored.                     *)
(*                                                                         *)
(* Packets come from a free list.  A packet is known by its number, so     *)
(* that it can be told who owns it.                                        *)
(***************************************************************************)
EXTENDS Integers, Sequences, FiniteSets

CONSTANTS
    MAX_PAYLOAD,  \* bytes in a packet
    Channels,     \* the channels messages are sent on
    Payloads,     \* what is sent on them
    Noise,        \* frames to be ignored, as bytes
    LineSize,     \* bytes the line holds before the end that writes must wait
    MaxSends,     \* bound: packets sent
    MaxNoise      \* bound: frames to be ignored

HEADER_SIZE  == 6
CHANNEL_SIZE == 2

\* A byte is the value of a hexadecimal digit, or NotHex for every other character.
NotHex == 16
Bytes  == 0..16

\* The greatest number of four digits.
MaxDatalen == 65535

ASSUME SerialAssumption ==
    /\ MAX_PAYLOAD \in Nat /\ MAX_PAYLOAD >= HEADER_SIZE /\ MAX_PAYLOAD < 65536
    /\ Channels \subseteq 0..255
    /\ Payloads \subseteq Seq(Bytes) /\ \A d \in Payloads : Len(d) \in 1..MAX_PAYLOAD
    /\ Noise \subseteq Seq(Bytes) /\ \A d \in Noise : Len(d) \in 1..MAX_PAYLOAD
    /\ LineSize \in Nat \ {0} /\ MaxSends \in Nat /\ MaxNoise \in Nat

VARIABLES
    free,         \* _free_packets, the last one freed first
    packets,      \* len bytes of the data of each packet ever allocated
    queue,        \* out_first: the packets to write
    out_pos,
    line,         \* written and not read
    reading, rpos,                         \* the packet serial_fd_receive goes through
    in_packet, in_datalen, in_channel,     \* in_len is the length of in_packet's data
    held,         \* packets that have been posted and that the receiver has not freed
    sent, posted, \* history: all the packets sent, all those posted
    noises        \* frames to be ignored so far

poolVars == <<free, packets>>
outVars  == <<queue, out_pos, sent, noises>>
inVars   == <<in_packet, in_datalen, in_channel, held, posted>>
vars == <<poolVars, outVars, line, reading, rpos, inVars>>

Ids == 1..Len(packets)
NoPacket == 0
Message == [channel : Channels, data : Payloads]

TypeOK ==
    /\ packets \in Seq(Seq(Bytes))
    /\ free \in Seq(Ids) /\ queue \in Seq(Ids) /\ held \subseteq Ids
    /\ out_pos \in Nat
    /\ line \in Seq(Bytes)
    /\ reading \in Ids \cup {NoPacket} /\ rpos \in Nat
    /\ in_packet \in Ids
    /\ in_datalen \in 0..MaxDatalen /\ in_channel \in -1..255
    /\ sent \in Seq(Message)
    /\ posted \in Seq([channel : 0..255, data : Seq(Bytes)])
    /\ noises \in 0..MaxNoise

-----------------------------------------------------------------------------
(* Numbers in hexadecimal, of two and of four digits.                      *)

AreHex(s) == \A i \in 1..Len(s) : s[i] # NotHex
AnyDigits2(s) == 16 * s[1] + s[2]
hex2int2(s) == IF AreHex(s) THEN 16 * s[1] + s[2] ELSE -1
hex2int4(s) == IF AreHex(s) THEN 4096 * s[1] + 256 * s[2] + 16 * s[3] + s[4] ELSE -1

int2hex2(v) == <<(v \div 16) % 16, v % 16>>
int2hex4(v) == <<(v \div 4096) % 16, (v \div 256) % 16, (v \div 16) % 16, v % 16>>

Header(m) == int2hex2(m.channel) \o int2hex4(Len(m.data))

\* A frame to be ignored is a whole one: a header that announces nothing, or one that
\* announces what follows it, on a channel that is no number.
Ignored(d) ==
    /\ Len(d) >= HEADER_SIZE
    /\ LET n == hex2int4(SubSeq(d, CHANNEL_SIZE + 1, HEADER_SIZE))
       IN  \/ n <= 0 /\ Len(d) = HEADER_SIZE
           \/ n > 0 /\ Len(d) = HEADER_SIZE + n /\ ~AreHex(SubSeq(d, 1, CHANNEL_SIZE))

ASSUME NoiseAssumption == \A d \in Noise : Ignored(d)

-----------------------------------------------------------------------------
(* The free list, as functions of pool: the list and the packets.          *)

Pool == [free |-> free, packets |-> packets]

packet_alloc(pool) ==
    IF pool.free # <<>>
    THEN [id |-> Head(pool.free), pool |-> [pool EXCEPT !.free = Tail(@)]]
    ELSE [id |-> Len(pool.packets) + 1, pool |-> [pool EXCEPT !.packets = Append(@, <<>>)]]

packet_free(pool, p) ==
    [free |-> <<p>> \o pool.free, packets |-> [pool.packets EXCEPT ![p] = <<>>]]

SetPool(pool) == free' = pool.free /\ packets' = pool.packets

Init ==
    /\ free = <<>> /\ packets = <<<<>>>>      \* serial_init allocates in_packet
    /\ queue = <<>> /\ out_pos = 0
    /\ line = <<>>
    /\ reading = NoPacket /\ rpos = 0
    /\ in_packet = 1 /\ in_datalen = 0 /\ in_channel = 0
    /\ held = {}
    /\ sent = <<>> /\ posted = <<>> /\ noises = 0

Idle == reading = NoPacket

-----------------------------------------------------------------------------
(* The sending half.                                                       *)

\* fdhandler_enqueue resets out_pos when the queue was empty.
Enqueued(ps) ==
    /\ queue' = queue \o ps
    /\ out_pos' = IF queue = <<>> THEN 0 ELSE out_pos

\* A client's packet has been read: serial_send.
serial_send(m) ==
    /\ Idle /\ Len(sent) < MaxSends
    /\ LET p == packet_alloc(Pool)
           h == packet_alloc(p.pool)
       IN  /\ SetPool([h.pool EXCEPT !.packets[p.id] = m.data, !.packets[h.id] = Header(m)])
           /\ Enqueued(<<h.id, p.id>>)
    /\ sent' = Append(sent, m)
    /\ UNCHANGED <<line, reading, rpos, inVars, noises>>

\* The emulator sends a frame that is to be ignored.
SendNoise(d) ==
    /\ Idle /\ noises < MaxNoise
    /\ LET p == packet_alloc(Pool)
       IN  /\ SetPool([p.pool EXCEPT !.packets[p.id] = d])
           /\ Enqueued(<<p.id>>)
    /\ noises' = noises + 1
    /\ UNCHANGED <<line, reading, rpos, inVars, sent>>

\* fdhandler_event, EPOLLOUT: n bytes fit.
WriteOut(n) ==
    /\ Idle /\ queue # <<>> /\ Len(line) + n <= LineSize
    /\ LET p == Head(queue)
           written == out_pos + n
       IN  /\ written <= Len(packets[p])
           /\ line' = line \o SubSeq(packets[p], out_pos + 1, written)
           /\ IF written = Len(packets[p])
              THEN /\ out_pos' = 0 /\ queue' = Tail(queue)
                   /\ SetPool(packet_free(Pool, p))
              ELSE out_pos' = written /\ UNCHANGED <<queue, poolVars>>
    /\ UNCHANGED <<reading, rpos, inVars, sent, noises>>

-----------------------------------------------------------------------------
(* The receiving half.                                                     *)

\* fdhandler_event, EPOLLIN: a read returns n bytes, and serial_fd_receive starts.
ReadIn(n) ==
    /\ Idle /\ n <= Len(line)
    /\ LET p == packet_alloc(Pool)
       IN  /\ SetPool([p.pool EXCEPT !.packets[p.id] = SubSeq(line, 1, n)])
           /\ reading' = p.id
    /\ rpos' = 0
    /\ line' = SubSeq(line, n + 1, Len(line))
    /\ UNCHANGED <<outVars, inVars>>

inp    == packets[in_packet]
avail  == Len(packets[reading]) - rpos
Lesser(a, b) == IF a < b THEN a ELSE b
CopiedAll(wanted) == SubSeq(packets[reading], rpos + 1, Len(packets[reading]))
Copied(wanted) == SubSeq(packets[reading], rpos + 1, rpos + Lesser(avail, wanted))

Reading == reading # NoPacket /\ rpos < Len(packets[reading])

\* A length that is none, or no number, leaves the next header to be read.
DatalenUnlessEmpty(n) == IF n = 0 THEN 0 ELSE n
Datalen(n) == IF n <= 0 THEN 0 ELSE n

\* inpos = 0: what has been copied is done with.
InputCleared == [packets EXCEPT ![in_packet] = <<>>]

\* One turn of the loop, in the header.
ReadHeader ==
    /\ Reading /\ in_datalen = 0
    /\ LET more   == Copied(HEADER_SIZE - Len(inp))
           header == inp \o more
       IN  /\ rpos' = rpos + Len(more)
           /\ IF Len(header) = HEADER_SIZE
              THEN LET n == hex2int4(SubSeq(header, CHANNEL_SIZE + 1, HEADER_SIZE))
                   IN  /\ in_datalen' = Datalen(n)
                       /\ in_channel' = hex2int2(SubSeq(header, 1, CHANNEL_SIZE))
                       /\ packets' = InputCleared
              ELSE /\ packets' = [packets EXCEPT ![in_packet] = header]
                   /\ UNCHANGED <<in_datalen, in_channel>>
    /\ UNCHANGED <<free, outVars, line, reading, in_packet, held, posted>>

SameInput(pool) == [id |-> in_packet, pool |-> pool]
NextInput(pool) == packet_alloc(pool)

\* One turn of the loop, in the payload: a whole one is posted, unless its channel is no
\* number, and another packet takes its place. A receiver that obeys a command frees the
\* packet before it returns; one that passes the data on to a client keeps it.
ReadPayload(keeps) ==
    /\ Reading /\ in_datalen # 0
    /\ LET more    == Copied(in_datalen - Len(inp))
           payload == inp \o more
           filled  == [Pool EXCEPT !.packets[in_packet] = payload]
           next    == NextInput(IF keeps THEN filled ELSE packet_free(filled, in_packet))
       IN  /\ rpos' = rpos + Len(more)
           /\ IF Len(payload) # in_datalen
              THEN /\ packets' = [packets EXCEPT ![in_packet] = payload]
                   /\ UNCHANGED <<free, in_datalen, in_packet, held, posted>>
              ELSE /\ in_datalen' = 0
                   /\ IF in_channel < 0
                      THEN /\ packets' = InputCleared
                           /\ UNCHANGED <<free, in_packet, held, posted>>
                      ELSE /\ posted' = Append(posted,
                                               [channel |-> in_channel, data |-> payload])
                           /\ held' = held \cup (IF keeps THEN {in_packet} ELSE {})
                           /\ in_packet' = next.id
                           /\ SetPool(next.pool)
    /\ UNCHANGED <<outVars, line, reading, in_channel>>

\* The end of serial_fd_receive.
FreeRead ==
    /\ reading # NoPacket /\ rpos = Len(packets[reading])
    /\ SetPool(packet_free(Pool, reading))
    /\ reading' = NoPacket /\ rpos' = 0
    /\ UNCHANGED <<outVars, line, inVars>>

\* The receiver has done with a packet it kept: the client has taken the data, or has gone.
ReceiverFrees(p) ==
    /\ Idle /\ p \in held
    /\ held' = held \ {p}
    /\ SetPool(packet_free(Pool, p))
    /\ UNCHANGED <<outVars, line, reading, rpos, in_packet, in_datalen, in_channel, posted>>

-----------------------------------------------------------------------------
Next ==
    \/ \E m \in Message : serial_send(m)
    \/ \E d \in Noise : SendNoise(d)
    \/ \E n \in 1..MAX_PAYLOAD : WriteOut(n)
    \/ \E n \in 1..MAX_PAYLOAD : ReadIn(n)
    \/ ReadHeader
    \/ \E keeps \in BOOLEAN : ReadPayload(keeps)
    \/ FreeRead
    \/ \E p \in Ids : ReceiverFrees(p)

\* The looper serves the descriptor as long as it is ready, and the other end of the line
\* takes bytes; a handler runs to its end.
Fairness ==
    /\ WF_vars(\E n \in 1..MAX_PAYLOAD : WriteOut(n))
    /\ WF_vars(\E n \in 1..MAX_PAYLOAD : ReadIn(n))
    /\ WF_vars(ReadHeader \/ (\E keeps \in BOOLEAN : ReadPayload(keeps)) \/ FreeRead)

Spec == Init /\ [][Next]_vars /\ Fairness
-----------------------------------------------------------------------------
(* Properties.                                                             *)

Owned == free \o queue \o <<in_packet>> \o (IF Idle THEN <<>> ELSE <<reading>>)

\* Every packet has one owner: the free list, the queue, the receiving half, or the
\* receiver it was posted to. None is freed twice, none is lost, and none is written over
\* while another part of the daemon holds it.
OwnedOnce ==
    /\ \A i, j \in 1..Len(Owned) : Owned[i] = Owned[j] => i = j
    /\ held \cap {Owned[i] : i \in 1..Len(Owned)} = {}
    /\ held \cup {Owned[i] : i \in 1..Len(Owned)} = Ids

\* What is copied into the input packet stays within it, and there is always something
\* to copy: the loop of serial_fd_receive ends.
InputFits ==
    /\ in_datalen <= MAX_PAYLOAD
    /\ Len(inp) < (IF in_datalen = 0 THEN HEADER_SIZE ELSE in_datalen)

\* The line is a pipe of messages: the packets posted are those sent, in their order, and
\* all of them come through.
Pipe == INSTANCE PacketPipe WITH Messages <- Message
IsPipe == Pipe!Spec
=============================================================================
