----------------------------- MODULE SerialProofs -----------------------------
(***************************************************************************)
(* Theorems about the framing of the serial line: for every size of        *)
(* packets and of the line, every payload, and whatever else the emulator  *)
(* puts on the line.                                                       *)
(***************************************************************************)
EXTENDS Serial, SequenceFacts, TLAPS

Data == Seq(Bytes)

-----------------------------------------------------------------------------
(* The free list.                                                          *)

IdsOf(pool) == 1..Len(pool.packets)

\* The packets that are not on the free list.
Taken(pool) == IdsOf(pool) \ Range(pool.free)

\* A packet is on the free list once, and has nothing in it then.
PoolOK(pool) ==
    /\ pool \in [free : Seq(IdsOf(pool)), packets : Seq(Data)]
    /\ Distinct(pool.free)
    /\ \A p \in Range(pool.free) : pool.packets[p] = <<>>

LEMMA PoolRange ==
    ASSUME NEW pool, PoolOK(pool)
    PROVE  /\ Range(pool.free) \subseteq IdsOf(pool) /\ Len(pool.packets) \in Nat
           /\ pool.free \in Seq(IdsOf(pool)) /\ pool.packets \in Seq(Data)
           /\ pool = [free |-> pool.free, packets |-> pool.packets]
<1>1. /\ pool.free \in Seq(IdsOf(pool)) /\ pool.packets \in Seq(Data)
      /\ pool = [free |-> pool.free, packets |-> pool.packets]
  BY DEF PoolOK
<1>2. Range(pool.free) \subseteq IdsOf(pool)
  BY <1>1, RangeOfSeq
<1>3. Len(pool.packets) \in Nat
  BY <1>1, LenProperties
<1> QED BY <1>1, <1>2, <1>3

\* A packet that is allocated is empty, and was nobody's.
LEMMA AllocTakes ==
    ASSUME NEW pool, PoolOK(pool)
    PROVE  LET a == packet_alloc(pool)
           IN  /\ PoolOK(a.pool) /\ IdsOf(pool) \subseteq IdsOf(a.pool)
               /\ a.id \in IdsOf(a.pool) /\ a.id \notin Taken(pool)
               /\ Taken(a.pool) = Taken(pool) \cup {a.id}
               /\ a.pool.packets[a.id] = <<>>
               /\ \A p \in Taken(pool) : a.pool.packets[p] = pool.packets[p]
<1> DEFINE a == packet_alloc(pool)
           ids == IdsOf(pool)
<1>1. /\ Range(pool.free) \subseteq ids /\ Len(pool.packets) \in Nat
      /\ pool.free \in Seq(ids) /\ pool.packets \in Seq(Data)
      /\ pool = [free |-> pool.free, packets |-> pool.packets]
      /\ Distinct(pool.free) /\ \A p \in Range(pool.free) : pool.packets[p] = <<>>
  BY PoolRange DEF PoolOK
<1>2. CASE pool.free # <<>>
  <2>1. a.id = Head(pool.free) /\ a.pool = [free |-> Tail(pool.free), packets |-> pool.packets]
    BY <1>1, <1>2 DEF packet_alloc
  <2> HIDE DEF ids, a
  <2>2. /\ Tail(pool.free) \in Seq(ids) /\ Distinct(Tail(pool.free))
        /\ Range(Tail(pool.free)) = Range(pool.free) \ {Head(pool.free)}
        /\ Head(pool.free) \in Range(pool.free)
    BY <1>1, <1>2, DistinctTail, HeadTailProperties
  <2>3. IdsOf(a.pool) = ids
    BY <2>1 DEF IdsOf, ids
  <2>4. PoolOK(a.pool)
    BY <1>1, <2>1, <2>2, <2>3 DEF PoolOK
  <2>5. Taken(a.pool) = Taken(pool) \cup {a.id} /\ a.id \in IdsOf(a.pool) /\ a.id \notin Taken(pool)
    BY <1>1, <2>1, <2>2, <2>3 DEF Taken, ids
  <2>6. a.pool.packets[a.id] = <<>> /\ \A p \in Taken(pool) : a.pool.packets[p] = pool.packets[p]
    BY <1>1, <2>1, <2>2
  <2> QED BY <2>3, <2>4, <2>5, <2>6 DEF a, ids
<1>3. CASE pool.free = <<>>
  <2> DEFINE n == Len(pool.packets) + 1
             more == Append(pool.packets, <<>>)
  <2>1. a.id = n /\ a.pool = [free |-> <<>>, packets |-> more]
    BY <1>1, <1>3 DEF packet_alloc
  <2> HIDE DEF a
  <2>2. <<>> \in Data /\ Range(<<>>) = {} /\ Distinct(<<>>)
    BY EmptyRange DEF Data, Distinct
  <2> HIDE DEF Data
  <2>3. /\ more \in Seq(Data) /\ Len(more) = n /\ more[n] = <<>>
        /\ \A p \in 1..Len(pool.packets) : more[p] = pool.packets[p]
    BY <1>1, <2>2, AppendProperties
  <2>4. IdsOf(a.pool) = ids \cup {n} /\ n \notin ids
    BY <1>1, <2>1, <2>3 DEF IdsOf
  <2> HIDE DEF n, more, ids
  <2>5. PoolOK(a.pool)
    BY <2>1, <2>2, <2>3 DEF PoolOK
  <2>6. Taken(a.pool) = IdsOf(a.pool) /\ Taken(pool) = ids
    BY <1>3, <2>1, <2>2 DEF Taken, ids
  <2> QED BY <2>1, <2>3, <2>4, <2>5, <2>6 DEF a, ids, IdsOf
<1> QED BY <1>2, <1>3

\* A packet that is freed is nobody's again.
LEMMA FreeReturns ==
    ASSUME NEW pool, PoolOK(pool), NEW p \in Taken(pool)
    PROVE  LET f == packet_free(pool, p)
           IN  /\ PoolOK(f) /\ IdsOf(f) = IdsOf(pool) /\ Taken(f) = Taken(pool) \ {p}
               /\ \A q \in Taken(f) : f.packets[q] = pool.packets[q]
<1> DEFINE f == packet_free(pool, p)
           ids == IdsOf(pool)
           h == <<p>> \o pool.free
           d == [pool.packets EXCEPT ![p] = <<>>]
<1>1. /\ Range(pool.free) \subseteq ids /\ Len(pool.packets) \in Nat
      /\ pool.free \in Seq(ids) /\ pool.packets \in Seq(Data)
      /\ Distinct(pool.free) /\ \A q \in Range(pool.free) : pool.packets[q] = <<>>
  BY PoolRange DEF PoolOK
<1>2. p \in ids /\ p \notin Range(pool.free)
  BY DEF Taken
<1>3. f = [free |-> h, packets |-> d]
  BY DEF packet_free
<1>4. <<>> \in Data
  BY DEF Data
<1> HIDE DEF Data
<1>5. /\ d \in Seq(Data) /\ Len(d) = Len(pool.packets)
      /\ \A q \in ids : d[q] = IF q = p THEN <<>> ELSE pool.packets[q]
  BY <1>1, <1>2, <1>4, ExceptSeq DEF IdsOf
<1> HIDE DEF ids, d, f
<1>6. h \in Seq(ids) /\ Range(h) = {p} \cup Range(pool.free) /\ Distinct(h)
  BY <1>1, <1>2, DistinctCons
<1> HIDE DEF h
<1>7. IdsOf(f) = ids
  BY <1>3, <1>5 DEF IdsOf, ids
<1>8. PoolOK(f)
  BY <1>1, <1>2, <1>3, <1>5, <1>6, <1>7 DEF PoolOK
<1>9. Taken(f) = Taken(pool) \ {p}
  BY <1>2, <1>3, <1>6, <1>7 DEF Taken, ids
<1>10. \A q \in Taken(f) : f.packets[q] = pool.packets[q]
  BY <1>3, <1>5, <1>7, <1>9 DEF Taken
<1> QED BY <1>7, <1>8, <1>9, <1>10 DEF f, ids

\* Data go into a packet that somebody has.
Fill(pool, p, d) == [pool EXCEPT !.packets[p] = d]

LEMMA FillKeeps ==
    ASSUME NEW pool, PoolOK(pool), NEW p \in Taken(pool), NEW d \in Data
    PROVE  LET f == Fill(pool, p, d)
           IN  /\ PoolOK(f) /\ IdsOf(f) = IdsOf(pool) /\ Taken(f) = Taken(pool)
               /\ f = [free |-> pool.free, packets |-> [pool.packets EXCEPT ![p] = d]]
               /\ f.packets[p] = d
               /\ \A q \in Taken(pool) \ {p} : f.packets[q] = pool.packets[q]
<1> DEFINE f == Fill(pool, p, d)
           ids == IdsOf(pool)
           e == [pool.packets EXCEPT ![p] = d]
<1>1. /\ Range(pool.free) \subseteq ids /\ Len(pool.packets) \in Nat
      /\ pool.free \in Seq(ids) /\ pool.packets \in Seq(Data)
      /\ pool = [free |-> pool.free, packets |-> pool.packets]
      /\ Distinct(pool.free) /\ \A q \in Range(pool.free) : pool.packets[q] = <<>>
  BY PoolRange DEF PoolOK
<1>2. p \in ids /\ p \notin Range(pool.free)
  BY DEF Taken
<1>3. f = [free |-> pool.free, packets |-> e]
  <2>1. PICK fr, pk : pool = [free |-> fr, packets |-> pk]
    BY <1>1
  <2>2. [[free |-> fr, packets |-> pk] EXCEPT !.packets[p] = d]
          = [free |-> fr, packets |-> [pk EXCEPT ![p] = d]]
    OBVIOUS
  <2> QED BY <2>1, <2>2 DEF Fill
<1> HIDE DEF Data
<1>4. /\ e \in Seq(Data) /\ Len(e) = Len(pool.packets)
      /\ \A q \in ids : e[q] = IF q = p THEN d ELSE pool.packets[q]
  BY <1>1, <1>2, ExceptSeq DEF IdsOf
<1> HIDE DEF ids, e, f
<1>5. IdsOf(f) = ids
  BY <1>3, <1>4 DEF IdsOf, ids
<1>6. PoolOK(f)
  BY <1>1, <1>2, <1>3, <1>4, <1>5 DEF PoolOK
<1>7. Taken(f) = Taken(pool)
  BY <1>3, <1>5 DEF Taken, ids
<1>8. f.packets[p] = d /\ \A q \in Taken(pool) \ {p} : f.packets[q] = pool.packets[q]
  BY <1>2, <1>3, <1>4 DEF Taken, ids
<1> QED BY <1>3, <1>5, <1>6, <1>7, <1>8 DEF f, ids, e
-----------------------------------------------------------------------------
(* Who owns the packets.                                                   *)

\* The packets in the queue q, the input packet i, the one being read (or none) b, and those
\* the receivers hold, h, are different packets, and all that is not on the free list.
Owners(pool, q, i, b, h) ==
    /\ PoolOK(pool) /\ q \in Seq(IdsOf(pool)) /\ Distinct(q)
    /\ Taken(pool) = Range(q) \cup {i} \cup b \cup h
    /\ i \notin Range(q) \cup b \cup h
    /\ (b \cup h) \cap Range(q) = {} /\ b \cap h = {}

Busy == IF Idle THEN {} ELSE {reading}
OwnerInv == Owners(Pool, queue, in_packet, Busy, held)

LEMMA TakenIds == \A pool : Taken(pool) \subseteq IdsOf(pool)
BY DEF Taken

LEMMA SetPoolSets ==
    ASSUME NEW pool, PoolOK(pool), SetPool(pool)
    PROVE  Pool' = pool
BY PoolRange DEF SetPool, Pool

\* Packets that were nobody's go into the queue.
LEMMA Outgoing ==
    ASSUME NEW pool, NEW q, NEW i, NEW b, NEW h, Owners(pool, q, i, b, h),
           NEW pool2, PoolOK(pool2), IdsOf(pool) \subseteq IdsOf(pool2),
           NEW ps \in Seq(IdsOf(pool2)), Distinct(ps), Range(ps) \cap Taken(pool) = {},
           Taken(pool2) = Taken(pool) \cup Range(ps)
    PROVE  Owners(pool2, q \o ps, i, b, h)
<1> DEFINE ids == IdsOf(pool2)
           u == q \o ps
<1>1. q \in Seq(ids) /\ Distinct(q)
  <2>1. q \in Seq(IdsOf(pool)) /\ Distinct(q)
    BY DEF Owners
  <2> HIDE DEF ids
  <2>2. IdsOf(pool) \subseteq ids
    BY DEF ids
  <2> QED BY <2>1, <2>2, SeqMonotonic
<1> HIDE DEF ids
<1>2. Range(q) \cap Range(ps) = {}
  BY DEF Owners
<1>3. u \in Seq(ids) /\ Range(u) = Range(q) \cup Range(ps) /\ Distinct(u)
  <2>1. ps \in Seq(ids)
    BY DEF ids
  <2> QED BY <1>1, <1>2, <2>1, ConcatProperties, RangeConcatenation, DistinctConcat
<1> HIDE DEF u
<1> QED BY <1>3 DEF Owners, ids, u

\* The first packet of the queue has been written, and is freed.
LEMMA Written ==
    ASSUME NEW pool, NEW q, NEW i, NEW b, NEW h, Owners(pool, q, i, b, h), q # <<>>
    PROVE  Head(q) \in Taken(pool) /\ Owners(packet_free(pool, Head(q)), Tail(q), i, b, h)
<1> DEFINE f == packet_free(pool, Head(q))
           t == Tail(q)
           ids == IdsOf(pool)
<1>1. q \in Seq(ids) /\ Distinct(q)
  BY DEF Owners
<1> HIDE DEF ids
<1>2. /\ t \in Seq(ids) /\ Distinct(t) /\ Range(t) = Range(q) \ {Head(q)}
      /\ Head(q) \in Range(q)
  BY <1>1, DistinctTail, HeadTailProperties
<1>3. Head(q) \in Taken(pool)
  BY <1>2 DEF Owners
<1>4. PoolOK(f) /\ IdsOf(f) = ids /\ Taken(f) = Taken(pool) \ {Head(q)}
  BY <1>3, FreeReturns DEF Owners, ids
<1> HIDE DEF f, t
<1>5. Owners(f, t, i, b, h)
  BY <1>2, <1>4 DEF Owners
<1> QED BY <1>3, <1>5 DEF f, t

\* One that somebody has is filled.
LEMMA Filled ==
    ASSUME NEW pool, NEW q, NEW i, NEW b, NEW h, Owners(pool, q, i, b, h),
           NEW p \in Taken(pool), NEW d \in Data
    PROVE  Owners(Fill(pool, p, d), q, i, b, h)
<1> DEFINE f == Fill(pool, p, d)
<1>1. PoolOK(pool)
  BY DEF Owners
<1>2. PoolOK(f) /\ IdsOf(f) = IdsOf(pool) /\ Taken(f) = Taken(pool)
  BY <1>1, FillKeeps
<1> HIDE DEF f
<1>3. Owners(f, q, i, b, h)
  BY <1>2 DEF Owners
<1> QED BY <1>3 DEF f

\* One that is read into is allocated.
LEMMA ReadingTakes ==
    ASSUME NEW pool, NEW q, NEW i, NEW h, Owners(pool, q, i, {}, h)
    PROVE  LET a == packet_alloc(pool)
           IN  a.id \in Taken(a.pool) /\ Owners(a.pool, q, i, {a.id}, h)
<1> DEFINE a == packet_alloc(pool)
           ids == IdsOf(a.pool)
<1>1. PoolOK(pool) /\ q \in Seq(IdsOf(pool)) /\ Distinct(q)
  BY DEF Owners
<1>2. /\ PoolOK(a.pool) /\ IdsOf(pool) \subseteq ids
      /\ a.id \notin Taken(pool) /\ Taken(a.pool) = Taken(pool) \cup {a.id}
  BY <1>1, AllocTakes
<1> HIDE DEF a
<1>3. q \in Seq(ids)
  <2> HIDE DEF ids
  <2> QED BY <1>1, <1>2, SeqMonotonic
<1>4. Owners(a.pool, q, i, {a.id}, h)
  BY <1>2, <1>3 DEF Owners
<1> QED BY <1>2, <1>4 DEF a

\* The input packet goes to the receiver, or back to the free list, and another takes its
\* place.
LEMMA InputReplaced ==
    ASSUME NEW pool, NEW q, NEW i, NEW b, NEW h, Owners(pool, q, i, b, h)
    PROVE  /\ LET a == packet_alloc(pool)
              IN  Owners(a.pool, q, a.id, b, h \cup {i}) /\ a.pool.packets[a.id] = <<>>
           /\ LET a == packet_alloc(packet_free(pool, i))
              IN  Owners(a.pool, q, a.id, b, h) /\ a.pool.packets[a.id] = <<>>
<1> DEFINE a == packet_alloc(pool)
           f == packet_free(pool, i)
           c == packet_alloc(f)
           ids == IdsOf(pool)
<1>1. PoolOK(pool) /\ q \in Seq(ids) /\ Distinct(q) /\ i \in Taken(pool)
  BY DEF Owners
<1>2. /\ PoolOK(a.pool) /\ ids \subseteq IdsOf(a.pool) /\ a.id \notin Taken(pool)
      /\ Taken(a.pool) = Taken(pool) \cup {a.id} /\ a.pool.packets[a.id] = <<>>
  BY <1>1, AllocTakes
<1>3. PoolOK(f) /\ IdsOf(f) = ids /\ Taken(f) = Taken(pool) \ {i}
  BY <1>1, FreeReturns
<1> HIDE DEF f
<1>4. /\ PoolOK(c.pool) /\ ids \subseteq IdsOf(c.pool) /\ c.id \notin Taken(f)
      /\ Taken(c.pool) = Taken(f) \cup {c.id} /\ c.pool.packets[c.id] = <<>>
  BY <1>3, AllocTakes
<1> HIDE DEF a, c, ids
<1>5. q \in Seq(IdsOf(a.pool)) /\ q \in Seq(IdsOf(c.pool))
  BY <1>1, <1>2, <1>4, SeqMonotonic
<1>6. Owners(a.pool, q, a.id, b, h \cup {i})
  BY <1>1, <1>2, <1>5 DEF Owners
<1>7. Owners(c.pool, q, c.id, b, h)
  BY <1>1, <1>3, <1>4, <1>5 DEF Owners
<1> QED BY <1>2, <1>4, <1>6, <1>7 DEF a, c, f

\* What has been read is freed, and what a receiver has done with.
LEMMA OthersFree ==
    ASSUME NEW pool, NEW q, NEW i, NEW b, NEW h, Owners(pool, q, i, b, h), NEW p \in b \cup h
    PROVE  /\ p \in Taken(pool)
           /\ Owners(packet_free(pool, p), q, i, b \ {p}, h \ {p})
BY FreeReturns DEF Owners

-----------------------------------------------------------------------------
(* The inductive invariant.                                                *)

\* What the input packet is filled up to.
Wanted == IF in_datalen = 0 THEN HEADER_SIZE ELSE in_datalen

LineTyped ==
    /\ out_pos \in Nat /\ line \in Data
    /\ rpos \in Nat
    /\ sent \in Seq(Message) /\ noises \in 0..MaxNoise

InputTyped ==
    /\ Len(inp) < Wanted
    /\ in_datalen \in Nat /\ in_datalen <= MaxDatalen /\ in_channel \in -1..255
    /\ posted \in Seq([channel : 0..255, data : Data])

SerialInv == OwnerInv /\ LineTyped /\ InputTyped

\* What every part of the daemon that has a packet finds in it.
LEMMA PacketsTyped ==
    ASSUME OwnerInv
    PROVE  /\ PoolOK(Pool) /\ Pool = [free |-> free, packets |-> packets]
           /\ \A p \in Taken(Pool) : packets[p] \in Data /\ Len(packets[p]) \in Nat
           /\ in_packet \in Taken(Pool) /\ inp \in Data /\ Len(inp) \in Nat
           /\ reading # NoPacket =>
                reading \in Taken(Pool) /\ reading # in_packet /\ Busy = {reading}
           /\ Taken(Pool) \subseteq IdsOf(Pool) /\ IdsOf(Pool) = Ids
<1>1. PoolOK(Pool) /\ Pool = [free |-> free, packets |-> packets]
  BY DEF OwnerInv, Owners, Pool
<1>2. packets \in Seq(Data) /\ IdsOf(Pool) = Ids
  BY <1>1 DEF PoolOK, IdsOf, Ids
<1>3. Taken(Pool) \subseteq IdsOf(Pool)
  BY TakenIds
<1>4. ASSUME NEW p \in Taken(Pool) PROVE packets[p] \in Data /\ Len(packets[p]) \in Nat
  <2>1. p \in 1..Len(packets)
    BY <1>2, <1>3 DEF Ids
  <2>2. packets[p] \in Data
    <3> HIDE DEF Data
    <3> QED BY <1>2, <2>1, ElementOfSeq
  <2> QED BY <2>2, LenProperties DEF Data
<1>5. in_packet \in Taken(Pool)
  BY DEF OwnerInv, Owners
<1>6. reading # NoPacket =>
        reading \in Taken(Pool) /\ reading # in_packet /\ Busy = {reading}
  BY DEF OwnerInv, Owners, Busy, Idle
<1> QED BY <1>1, <1>2, <1>3, <1>4, <1>5, <1>6 DEF inp

\* The packets that somebody has stay as they were, but for those of X.
Kept(X) == \A p \in Taken(Pool) \ X : packets'[p] = packets[p]

LEMMA ConstantsTyped ==
    /\ MAX_PAYLOAD \in Nat /\ LineSize \in Nat /\ MaxNoise \in Nat
    /\ \A m \in Message : m.channel \in 0..255 /\ m.data \in Data
    /\ \A d \in Noise : d \in Data
<1>1. MAX_PAYLOAD \in Nat /\ LineSize \in Nat /\ MaxNoise \in Nat
  BY SMT, SerialAssumption
<1>2. Noise \subseteq Data /\ Channels \subseteq 0..255 /\ Payloads \subseteq Data
  BY SMT, SerialAssumption DEF Data
<1>3. \A m \in Message : m.channel \in Channels /\ m.data \in Payloads
  BY DEF Message
<1>4. \A m \in Message : m.channel \in 0..255
  BY Zenon, <1>2, <1>3
<1>5. \A m \in Message : m.data \in Data
  BY Zenon, <1>2, <1>3
<1>6. \A d \in Noise : d \in Data
  BY Zenon, <1>2
<1> QED BY Zenon, <1>1, <1>4, <1>5, <1>6

LEMMA DigitTyped == \A n \in Nat : n % 16 \in Bytes
BY SMT DEF Bytes

LEMMA DivTyped == \A n \in Nat, d \in {16, 256, 4096} : n \div d \in Nat
BY SMT

\* A header is digits.
LEMMA HeaderTyped == \A m \in Message : Header(m) \in Data
<1> SUFFICES ASSUME NEW m \in Message PROVE Header(m) \in Data
  OBVIOUS
<1> DEFINE c == m.channel
           n == Len(m.data)
<1> HIDE DEF c, n
<1>1. c \in Nat /\ n \in Nat
  <2>1. c \in 0..255
    BY Zenon, ConstantsTyped DEF c
  <2>2. m.data \in Seq(Bytes)
    BY Zenon, ConstantsTyped DEF Data
  <2>3. n \in Nat
    BY <2>2, LenProperties DEF n
  <2> QED BY <2>1, <2>3
<1>2. int2hex2(c) \in Seq(Bytes)
  BY <1>1, DigitTyped, DivTyped DEF int2hex2
<1>3. int2hex4(n) \in Seq(Bytes)
  BY <1>1, DigitTyped, DivTyped DEF int2hex4
<1>4. Header(m) = int2hex2(c) \o int2hex4(n)
  BY DEF Header, c, n
<1> QED BY <1>2, <1>3, <1>4, ConcatProperties DEF Data

\* A part of a sequence of bytes.
LEMMA PartTyped ==
    ASSUME NEW s \in Data, NEW m \in Nat, NEW n \in Nat, n <= Len(s)
    PROVE  /\ SubSeq(s, m + 1, n) \in Data
           /\ Len(SubSeq(s, m + 1, n)) = IF m < n THEN n - m ELSE 0
           /\ \A i \in 1..Len(SubSeq(s, m + 1, n)) : SubSeq(s, m + 1, n)[i] = s[m + i]
<1>1. Len(s) \in Nat
  BY LenProperties DEF Data
<1>2. \A i \in m + 1..n : s[i] \in Bytes
  <2> TAKE i \in m + 1..n
  <2>1. i \in 1..Len(s)
    BY <1>1
  <2> QED BY <2>1, ElementOfSeq DEF Data
<1>3. /\ SubSeq(s, m + 1, n) \in Seq(Bytes)
      /\ Len(SubSeq(s, m + 1, n)) = IF m + 1 <= n THEN n - (m + 1) + 1 ELSE 0
      /\ \A i \in 1..n - (m + 1) + 1 : SubSeq(s, m + 1, n)[i] = s[m + 1 + i - 1]
  BY <1>2, SubSeqProperties
<1> QED BY <1>3 DEF Data

\* What is copied is something, and no more than is wanted.
LEMMA CopiedTyped ==
    ASSUME SerialInv, Reading, NEW n \in Nat \ {0}
    PROVE  /\ Copied(n) \in Data /\ Len(Copied(n)) \in 1..n
           /\ rpos + Len(Copied(n)) <= Len(packets[reading])
<1>1. /\ packets[reading] \in Data /\ Len(packets[reading]) \in Nat /\ rpos \in Nat
      /\ rpos < Len(packets[reading])
  BY PacketsTyped DEF SerialInv, Reading, LineTyped
<1> DEFINE k == Lesser(avail, n)
           to == rpos + k
<1>2. k \in 1..n /\ rpos + k <= Len(packets[reading])
  BY <1>1 DEF Lesser, avail
<1>3. Copied(n) = SubSeq(packets[reading], rpos + 1, to)
  BY DEF Copied
<1> HIDE DEF k
<1>4. to \in Nat /\ to <= Len(packets[reading]) /\ rpos < to /\ to - rpos = k
  BY <1>1, <1>2
<1> HIDE DEF to
<1>5. Copied(n) \in Data /\ Len(Copied(n)) = to - rpos
  BY <1>1, <1>3, <1>4, PartTyped
<1> QED BY <1>2, <1>4, <1>5

LEMMA CopiedAdvances ==
    ASSUME SerialInv, Reading, NEW n \in Nat \ {0}
    PROVE  Len(Copied(n)) \in Nat \ {0} /\ rpos + Len(Copied(n)) <= Len(packets[reading])
BY CopiedTyped

-----------------------------------------------------------------------------
(* The sending half.                                                       *)

LEMMA PoolChanges ==
    ASSUME OwnerInv, NEW pool, SetPool(pool), UNCHANGED <<reading, held, in_packet>>,
           Owners(pool, queue', in_packet, Busy, held)
    PROVE  OwnerInv'
<1>1. PoolOK(pool)
  BY DEF Owners
<1>2. Pool' = pool /\ Busy' = Busy
  BY <1>1, SetPoolSets DEF Busy, Idle
<1>3. Owners(Pool', queue', in_packet', Busy', held')
  BY <1>2
<1> QED BY <1>3 DEF OwnerInv, Owners, PoolOK, Taken, IdsOf

LEMMA InputKept ==
    ASSUME InputTyped, UNCHANGED <<in_packet, in_datalen, in_channel, posted>>, inp' = inp
    PROVE  InputTyped'
BY DEF InputTyped, Wanted

LEMMA SendTyped ==
    ASSUME SerialInv, NEW m \in Message, serial_send(m)
    PROVE  /\ SerialInv' /\ Kept({})
           /\ \E x, y : /\ queue' = queue \o <<x, y>>
                       /\ packets'[x] = Header(m) /\ packets'[y] = m.data
<1> DEFINE p == packet_alloc(Pool)
           h == packet_alloc(p.pool)
           d == m.data
           e == Header(m)
           f == Fill(h.pool, p.id, d)
           g == Fill(f, h.id, e)
           ps == <<h.id, p.id>>
<1>1. /\ SetPool(g) /\ Enqueued(ps) /\ sent' = Append(sent, m)
      /\ UNCHANGED <<line, reading, rpos, inVars, noises>>
  BY DEF serial_send, Fill
<1>2. /\ PoolOK(Pool) /\ Pool = [free |-> free, packets |-> packets]
      /\ in_packet \in Taken(Pool)
      /\ Owners(Pool, queue, in_packet, Busy, held)
  BY PacketsTyped DEF SerialInv, OwnerInv
<1>3. /\ PoolOK(p.pool) /\ IdsOf(Pool) \subseteq IdsOf(p.pool) /\ p.id \notin Taken(Pool)
      /\ Taken(p.pool) = Taken(Pool) \cup {p.id}
      /\ \A q \in Taken(Pool) : p.pool.packets[q] = Pool.packets[q]
  BY <1>2, AllocTakes
<1> HIDE DEF p
<1>4. /\ PoolOK(h.pool) /\ IdsOf(p.pool) \subseteq IdsOf(h.pool) /\ h.id \notin Taken(p.pool)
      /\ Taken(h.pool) = Taken(p.pool) \cup {h.id}
      /\ \A q \in Taken(p.pool) : h.pool.packets[q] = p.pool.packets[q]
  BY <1>3, AllocTakes
<1> HIDE DEF h
<1>5. d \in Data /\ e \in Data
  BY Zenon, ConstantsTyped, HeaderTyped
<1> HIDE DEF d, e
<1>6. /\ PoolOK(f) /\ IdsOf(f) = IdsOf(h.pool) /\ Taken(f) = Taken(h.pool)
      /\ \A q \in Taken(h.pool) \ {p.id} : f.packets[q] = h.pool.packets[q]
      /\ f.packets[p.id] = d
  <2>1. p.id \in Taken(h.pool) /\ PoolOK(h.pool) /\ d \in Data
    BY <1>3, <1>4, <1>5
  <2> QED BY <2>1, FillKeeps
<1> HIDE DEF f
<1>7. /\ PoolOK(g) /\ IdsOf(g) = IdsOf(f) /\ Taken(g) = Taken(f)
      /\ \A q \in Taken(f) \ {h.id} : g.packets[q] = f.packets[q]
      /\ g.packets[h.id] = e
  <2>1. h.id \in Taken(f) /\ PoolOK(f) /\ e \in Data
    BY <1>4, <1>5, <1>6
  <2> QED BY <2>1, FillKeeps
<1> HIDE DEF g
<1>8. h.id # p.id /\ {h.id, p.id} \cap Taken(Pool) = {} /\ Taken(g) = Taken(Pool) \cup {h.id, p.id}
  BY <1>3, <1>4, <1>6, <1>7
<1>9. h.id \in IdsOf(g) /\ p.id \in IdsOf(g) /\ IdsOf(Pool) \subseteq IdsOf(g)
  BY <1>3, <1>4, <1>6, <1>7, <1>8, TakenIds
<1>10. ps \in Seq(IdsOf(g)) /\ Distinct(ps) /\ Range(ps) = {h.id, p.id}
  BY <1>8, <1>9 DEF Distinct, Range
<1> HIDE DEF ps
<1>11. Owners(g, queue \o ps, in_packet, Busy, held)
  BY <1>2, <1>7, <1>8, <1>9, <1>10, Outgoing
<1>12. OwnerInv'
  BY <1>1, <1>11, PoolChanges DEF SerialInv, Enqueued, inVars
<1>13. Kept({}) /\ inp' = inp
  <2>1. packets' = g.packets /\ in_packet' = in_packet
    BY <1>1 DEF SetPool, inVars
  <2>2. ASSUME NEW q \in Taken(Pool) PROVE g.packets[q] = Pool.packets[q]
    <3>1. q \in Taken(p.pool) /\ q # p.id /\ q # h.id
      BY <1>3, <1>4
    <3> QED BY <1>3, <1>4, <1>6, <1>7, <3>1
  <2>3. Pool.packets = packets
    BY <1>2
  <2>4. Kept({})
    BY <2>1, <2>2, <2>3 DEF Kept
  <2> QED BY <1>2, <2>1, <2>2, <2>3, <2>4 DEF inp
<1>14. InputTyped'
  BY <1>1, <1>13, InputKept DEF SerialInv, inVars
<1>15. LineTyped'
  <2>1. sent' \in Seq(Message)
    BY <1>1, AppendProperties DEF SerialInv, LineTyped
  <2> QED BY <1>1, <2>1 DEF SerialInv, LineTyped, Enqueued
<1>16. /\ queue' = queue \o <<h.id, p.id>>
       /\ packets'[h.id] = Header(m) /\ packets'[p.id] = m.data
  <2>1. g.packets[h.id] = e /\ g.packets[p.id] = d
    BY <1>3, <1>4, <1>6, <1>7
  <2> QED BY <1>1, <2>1 DEF SetPool, Enqueued, ps, d, e
<1>17. SerialInv'
  BY <1>12, <1>14, <1>15 DEF SerialInv
<1> QED BY <1>13, <1>16, <1>17

LEMMA NoiseTyped ==
    ASSUME SerialInv, NEW d \in Noise, SendNoise(d)
    PROVE  /\ SerialInv' /\ Kept({})
           /\ \E x : queue' = queue \o <<x>> /\ packets'[x] = d
<1> DEFINE p == packet_alloc(Pool)
           g == Fill(p.pool, p.id, d)
           ps == <<p.id>>
<1>1. /\ SetPool(g) /\ Enqueued(ps) /\ noises' = noises + 1 /\ noises < MaxNoise
      /\ UNCHANGED <<line, reading, rpos, inVars, sent>>
  BY DEF SendNoise, Fill
<1>2. /\ PoolOK(Pool) /\ Pool = [free |-> free, packets |-> packets]
      /\ in_packet \in Taken(Pool)
      /\ Owners(Pool, queue, in_packet, Busy, held)
  BY PacketsTyped DEF SerialInv, OwnerInv
<1>3. /\ PoolOK(p.pool) /\ IdsOf(Pool) \subseteq IdsOf(p.pool) /\ p.id \notin Taken(Pool)
      /\ Taken(p.pool) = Taken(Pool) \cup {p.id}
      /\ \A q \in Taken(Pool) : p.pool.packets[q] = Pool.packets[q]
  BY <1>2, AllocTakes
<1> HIDE DEF p
<1>4. /\ PoolOK(g) /\ IdsOf(g) = IdsOf(p.pool) /\ Taken(g) = Taken(p.pool)
      /\ \A q \in Taken(p.pool) \ {p.id} : g.packets[q] = p.pool.packets[q]
      /\ g.packets[p.id] = d
  <2>1. p.id \in Taken(p.pool) /\ d \in Data
    BY <1>3, ConstantsTyped
  <2> QED BY <1>3, <2>1, FillKeeps
<1> HIDE DEF g
<1>5. p.id \in IdsOf(g) /\ IdsOf(Pool) \subseteq IdsOf(g)
  BY <1>3, <1>4, TakenIds
<1>6. ps \in Seq(IdsOf(g)) /\ Distinct(ps) /\ Range(ps) = {p.id}
  BY <1>5, Single, SingleDistinct
<1> HIDE DEF ps
<1>7. Owners(g, queue \o ps, in_packet, Busy, held)
  BY <1>2, <1>3, <1>4, <1>5, <1>6, Outgoing
<1>8. OwnerInv'
  BY <1>1, <1>7, PoolChanges DEF SerialInv, Enqueued, inVars
<1>9. Kept({}) /\ inp' = inp
  <2>1. packets' = g.packets /\ in_packet' = in_packet
    BY <1>1 DEF SetPool, inVars
  <2>2. ASSUME NEW q \in Taken(Pool) PROVE g.packets[q] = Pool.packets[q]
    <3>1. q \in Taken(p.pool) /\ q # p.id
      BY <1>3
    <3> QED BY <1>3, <1>4, <3>1
  <2>3. Pool.packets = packets
    BY <1>2
  <2>4. Kept({})
    BY <2>1, <2>2, <2>3 DEF Kept
  <2> QED BY <1>2, <2>1, <2>2, <2>3, <2>4 DEF inp
<1>10. InputTyped'
  BY <1>1, <1>9, InputKept DEF SerialInv, inVars
<1>11. LineTyped'
  BY <1>1, ConstantsTyped DEF SerialInv, LineTyped, Enqueued
<1>12. queue' = queue \o <<p.id>> /\ packets'[p.id] = d
  BY <1>1, <1>4 DEF SetPool, Enqueued, ps
<1>13. SerialInv'
  BY <1>8, <1>10, <1>11 DEF SerialInv
<1> QED BY <1>9, <1>12, <1>13

LEMMA WriteTyped ==
    ASSUME SerialInv, NEW n \in 1..MAX_PAYLOAD, WriteOut(n)
    PROVE  SerialInv' /\ Kept({Head(queue)})
<1> DEFINE p == Head(queue)
           written == out_pos + n
           g == packet_free(Pool, p)
<1>0. n \in Nat /\ 0 < n
  BY ConstantsTyped
<1>1. /\ queue # <<>> /\ written <= Len(packets[p])
      /\ line' = line \o SubSeq(packets[p], out_pos + 1, written)
      /\ \/ out_pos' = 0 /\ queue' = Tail(queue) /\ SetPool(g)
         \/ out_pos' = written /\ UNCHANGED <<queue, poolVars>>
      /\ UNCHANGED <<reading, rpos, inVars, sent, noises>>
  BY DEF WriteOut
<1>2. /\ PoolOK(Pool) /\ Pool = [free |-> free, packets |-> packets]
      /\ in_packet \in Taken(Pool)
      /\ Owners(Pool, queue, in_packet, Busy, held)
  BY PacketsTyped DEF SerialInv, OwnerInv
<1>3. p \in Taken(Pool) /\ Owners(g, Tail(queue), in_packet, Busy, held)
  BY <1>1, <1>2, Written
<1>4. Taken(g) = Taken(Pool) \ {p} /\ \A q \in Taken(g) : g.packets[q] = Pool.packets[q]
  BY <1>2, <1>3, FreeReturns
<1>5. packets[p] \in Data /\ out_pos \in Nat /\ line \in Data
  BY <1>3, PacketsTyped DEF SerialInv, LineTyped
<1> HIDE DEF p, g
<1>6. LineTyped'
  <2>1. written \in Nat /\ out_pos' \in Nat
    BY <1>0, <1>1, <1>5
  <2>2. SubSeq(packets[p], out_pos + 1, written) \in Data
    <3> HIDE DEF written
    <3> QED BY <1>1, <1>5, <2>1, PartTyped
  <2>3. line' \in Data
    <3> DEFINE s == SubSeq(packets[p], out_pos + 1, written)
    <3>1. line' = line \o s /\ s \in Data
      BY <1>1, <2>2
    <3> HIDE DEF s
    <3> QED BY <1>5, <3>1, ConcatProperties DEF Data
  <2> QED BY <1>1, <2>1, <2>3 DEF SerialInv, LineTyped
<1>7. CASE SetPool(g) /\ queue' = Tail(queue)
  <2>1. OwnerInv'
    BY <1>1, <1>3, <1>7, PoolChanges DEF SerialInv, inVars
  <2>2. inp' = inp
    <3>1. in_packet \in Taken(g)
      BY <1>3 DEF Owners
    <3> QED BY <1>1, <1>2, <1>4, <1>7, <3>1 DEF inp, SetPool, inVars
  <2>3. InputTyped'
    BY <1>1, <2>2, InputKept DEF SerialInv, inVars
  <2>4. Kept({Head(queue)})
    BY <1>2, <1>4, <1>7 DEF Kept, SetPool, p
  <2> QED BY <1>6, <2>1, <2>3, <2>4 DEF SerialInv
<1>8. CASE UNCHANGED <<queue, poolVars>>
  <2>1. OwnerInv'
    BY <1>1, <1>8 DEF SerialInv, OwnerInv, Owners, PoolOK, Taken, IdsOf, Pool, Busy, Idle,
       inVars, poolVars
  <2>2. InputTyped'
    BY <1>1, <1>8, InputKept DEF SerialInv, inVars, inp, poolVars
  <2>3. Kept({Head(queue)})
    BY <1>8 DEF Kept, poolVars
  <2> QED BY <1>6, <2>1, <2>2, <2>3 DEF SerialInv
<1> QED BY <1>1, <1>7, <1>8

-----------------------------------------------------------------------------
(* The receiving half.                                                     *)

\* What is in the packets that are not freed stays there.
LEMMA FreeKeepsInput ==
    ASSUME OwnerInv, NEW p \in Taken(Pool), p # in_packet, SetPool(packet_free(Pool, p)),
           UNCHANGED in_packet
    PROVE  inp' = inp /\ Kept({p})
<1> DEFINE f == packet_free(Pool, p)
<1>1. PoolOK(Pool) /\ Pool = [free |-> free, packets |-> packets] /\ in_packet \in Taken(Pool)
  BY PacketsTyped
<1>2. /\ Taken(f) = Taken(Pool) \ {p} /\ in_packet \in Taken(f)
      /\ \A q \in Taken(f) : f.packets[q] = Pool.packets[q]
  BY <1>1, FreeReturns
<1>3. packets' = f.packets
  BY DEF SetPool
<1> HIDE DEF f
<1> QED BY <1>1, <1>2, <1>3 DEF inp, Kept

LEMMA ReadTyped ==
    ASSUME SerialInv, NEW n \in 1..MAX_PAYLOAD, ReadIn(n)
    PROVE  /\ SerialInv' /\ Kept({})
           /\ reading' # NoPacket /\ packets'[reading'] = SubSeq(line, 1, n)
<1> DEFINE p == packet_alloc(Pool)
           s == SubSeq(line, 1, n)
           g == Fill(p.pool, p.id, s)
<1>0. n \in Nat
  BY ConstantsTyped
<1>1. /\ reading = NoPacket /\ n <= Len(line) /\ SetPool(g) /\ reading' = p.id /\ rpos' = 0
      /\ line' = SubSeq(line, n + 1, Len(line))
      /\ UNCHANGED <<outVars, inVars>>
  BY DEF ReadIn, Fill, Idle
<1>2. /\ PoolOK(Pool) /\ Pool = [free |-> free, packets |-> packets]
      /\ in_packet \in Taken(Pool)
      /\ Owners(Pool, queue, in_packet, {}, held)
  BY <1>1, PacketsTyped DEF SerialInv, OwnerInv, Busy, Idle
<1>3. /\ p.id \notin Taken(Pool)
      /\ Taken(p.pool) = Taken(Pool) \cup {p.id}
      /\ \A q \in Taken(Pool) : p.pool.packets[q] = Pool.packets[q]
  BY <1>2, AllocTakes
<1>4. p.id \in Taken(p.pool) /\ Owners(p.pool, queue, in_packet, {p.id}, held)
  BY <1>2, ReadingTakes
<1>5. line \in Data /\ Len(line) \in Nat
  BY LenProperties DEF SerialInv, LineTyped, Data
<1>6. s \in Data /\ line' \in Data
  <2>1. SubSeq(line, 0 + 1, n) \in Data
    BY <1>0, <1>1, <1>5, PartTyped
  <2>2. SubSeq(line, n + 1, Len(line)) \in Data
    <3> DEFINE len == Len(line)
    <3>1. line \in Data /\ len \in Nat /\ len <= Len(line)
      BY <1>5
    <3> HIDE DEF len
    <3>2. SubSeq(line, n + 1, len) \in Data
      BY <1>0, <3>1, PartTyped
    <3> QED BY <3>2 DEF len
  <2> QED BY <1>1, <2>1, <2>2
<1> HIDE DEF p, s
<1>7. Owners(g, queue, in_packet, {p.id}, held)
  BY <1>4, <1>6, Filled
<1>8. /\ PoolOK(g) /\ IdsOf(g) = IdsOf(p.pool)
      /\ \A q \in Taken(p.pool) \ {p.id} : g.packets[q] = p.pool.packets[q]
      /\ g.packets[p.id] = s
  <2>1. PoolOK(p.pool) /\ p.id \in Taken(p.pool)
    BY <1>4 DEF Owners
  <2> DEFINE pool == p.pool
             id == p.id
  <2>2. PoolOK(pool) /\ id \in Taken(pool) /\ g = Fill(pool, id, s) /\ s \in Data
    BY <1>6, <2>1
  <2> HIDE DEF pool, id, g
  <2>3. /\ PoolOK(g) /\ IdsOf(g) = IdsOf(pool)
        /\ \A q \in Taken(pool) \ {id} : g.packets[q] = pool.packets[q]
        /\ g.packets[id] = s
    BY <2>2, FillKeeps
  <2> QED BY <2>3 DEF pool, id
<1> HIDE DEF g
<1>9. Pool' = g
  BY <1>1, <1>8, SetPoolSets
<1>10. Busy' = {p.id}
  <2>1. p.id # NoPacket
    BY <1>4, TakenIds DEF IdsOf, NoPacket
  <2> QED BY <1>1, <2>1 DEF Busy, Idle
<1>11. OwnerInv'
  <2>1. UNCHANGED <<queue, in_packet, held>>
    BY <1>1 DEF outVars, inVars
  <2>2. Owners(Pool', queue', in_packet', Busy', held')
    BY <1>7, <1>9, <1>10, <2>1
  <2> QED BY <2>2 DEF OwnerInv, Owners, PoolOK, Taken, IdsOf
<1>12. inp' = inp
  BY <1>1, <1>2, <1>3, <1>8 DEF inp, SetPool, inVars
<1>13. InputTyped'
  BY <1>1, <1>12, InputKept DEF SerialInv, inVars
<1>14. LineTyped'
  BY <1>1, <1>6 DEF SerialInv, LineTyped, outVars
<1>15. Kept({})
  <2>1. ASSUME NEW q \in Taken(Pool) PROVE g.packets[q] = Pool.packets[q]
    BY <1>3, <1>8
  <2>2. packets' = g.packets /\ Pool.packets = packets
    BY <1>1, <1>2 DEF SetPool
  <2> QED BY <2>1, <2>2 DEF Kept
<1>16. reading' # NoPacket /\ packets'[reading'] = SubSeq(line, 1, n)
  BY <1>1, <1>8, <1>10 DEF SetPool, Busy, Idle, s
<1>17. SerialInv'
  BY <1>11, <1>13, <1>14 DEF SerialInv
<1> QED BY <1>15, <1>16, <1>17

LEMMA FreeReadTyped ==
    ASSUME SerialInv, FreeRead
    PROVE  SerialInv' /\ Kept({reading})
<1> DEFINE g == packet_free(Pool, reading)
<1>1. /\ reading # NoPacket /\ SetPool(g) /\ reading' = NoPacket /\ rpos' = 0
      /\ UNCHANGED <<outVars, line, inVars>>
  BY DEF FreeRead
<1>2. /\ PoolOK(Pool) /\ Busy = {reading} /\ reading \in Taken(Pool) /\ reading # in_packet
      /\ Owners(Pool, queue, in_packet, {reading}, held)
  BY <1>1, PacketsTyped DEF SerialInv, OwnerInv
<1>3. Owners(g, queue, in_packet, {}, held)
  <2>1. Owners(g, queue, in_packet, {reading} \ {reading}, held \ {reading})
    BY <1>2, OthersFree
  <2>2. {reading} \ {reading} = {} /\ held \ {reading} = held
    BY <1>2 DEF Owners
  <2> QED BY <2>1, <2>2
<1>4. PoolOK(g)
  BY <1>3 DEF Owners
<1>5. inp' = inp /\ Kept({reading})
  BY <1>1, <1>2, FreeKeepsInput DEF SerialInv, inVars
<1> HIDE DEF g
<1>6. Pool' = g
  BY <1>1, <1>4, SetPoolSets
<1>7. OwnerInv'
  <2>1. UNCHANGED <<queue, in_packet, held>> /\ Busy' = {}
    BY <1>1 DEF outVars, inVars, Busy, Idle
  <2>2. Owners(Pool', queue', in_packet', Busy', held')
    BY <1>3, <1>6, <2>1
  <2> QED BY <2>2 DEF OwnerInv, Owners, PoolOK, Taken, IdsOf
<1>8. InputTyped'
  BY <1>1, <1>5, InputKept DEF SerialInv, inVars
<1>9. LineTyped'
  BY <1>1 DEF SerialInv, LineTyped, outVars
<1> QED BY <1>5, <1>7, <1>8, <1>9 DEF SerialInv

LEMMA ReceiverTyped ==
    ASSUME SerialInv, NEW p, ReceiverFrees(p)
    PROVE  SerialInv' /\ Kept({p})
<1> DEFINE g == packet_free(Pool, p)
<1>1. /\ reading = NoPacket /\ p \in held /\ SetPool(g) /\ held' = held \ {p}
      /\ UNCHANGED <<outVars, line, reading, rpos, in_packet, in_datalen, in_channel, posted>>
  BY DEF ReceiverFrees, Idle
<1>2. PoolOK(Pool) /\ Owners(Pool, queue, in_packet, {}, held)
  BY <1>1, PacketsTyped DEF SerialInv, OwnerInv, Busy, Idle
<1>3. p \in Taken(Pool) /\ p # in_packet /\ Owners(g, queue, in_packet, {}, held \ {p})
  <2>1. p \in Taken(Pool) /\ Owners(g, queue, in_packet, {} \ {p}, held \ {p})
    BY <1>1, <1>2, OthersFree
  <2>2. {} \ {p} = {} /\ p # in_packet
    BY <1>1, <1>2 DEF Owners
  <2> QED BY <2>1, <2>2
<1>4. PoolOK(g)
  BY <1>3 DEF Owners
<1>5. inp' = inp /\ Kept({p})
  BY <1>1, <1>3, FreeKeepsInput DEF SerialInv
<1> HIDE DEF g
<1>6. Pool' = g
  BY <1>1, <1>4, SetPoolSets
<1>7. OwnerInv'
  <2>1. UNCHANGED <<queue, in_packet>> /\ Busy' = {}
    BY <1>1 DEF outVars, Busy, Idle
  <2>2. Owners(Pool', queue', in_packet', Busy', held')
    BY <1>1, <1>3, <1>6, <2>1
  <2> QED BY <2>2 DEF OwnerInv, Owners, PoolOK, Taken, IdsOf
<1>8. InputTyped'
  BY <1>1, <1>5, InputKept DEF SerialInv
<1>9. LineTyped'
  BY <1>1 DEF SerialInv, LineTyped, outVars
<1> QED BY <1>5, <1>7, <1>8, <1>9 DEF SerialInv

\* Into the input packet goes what has been copied, or it is emptied.
LEMMA InputFill ==
    ASSUME OwnerInv, NEW d \in Data, packets' = [packets EXCEPT ![in_packet] = d],
           UNCHANGED <<free, queue, reading, held, in_packet>>
    PROVE  OwnerInv' /\ inp' = d
<1> DEFINE g == Fill(Pool, in_packet, d)
<1>1. /\ PoolOK(Pool) /\ Pool = [free |-> free, packets |-> packets]
      /\ in_packet \in Taken(Pool) /\ Owners(Pool, queue, in_packet, Busy, held)
  BY PacketsTyped DEF OwnerInv
<1>2. Owners(g, queue, in_packet, Busy, held)
  BY <1>1, Filled
<1>3. /\ g = [free |-> Pool.free, packets |-> [Pool.packets EXCEPT ![in_packet] = d]]
      /\ g.packets[in_packet] = d
  BY <1>1, FillKeeps
<1> HIDE DEF g
<1>4. SetPool(g) /\ packets' = g.packets
  BY <1>1, <1>3 DEF SetPool
<1>5. OwnerInv'
  <2>1. Owners(g, queue', in_packet, Busy, held)
    BY <1>2
  <2> QED BY <1>4, <2>1, PoolChanges
<1> QED BY <1>3, <1>4, <1>5 DEF inp

\* What four digits say, and two.
LEMMA HexTyped ==
    ASSUME NEW s \in Data
    PROVE  /\ Len(s) = 4 => hex2int4(s) \in Int /\ hex2int4(s) <= MaxDatalen
           /\ Len(s) = 2 => hex2int2(s) \in -1..255
<1>1. ASSUME AreHex(s) PROVE \A i \in 1..Len(s) : s[i] \in 0..15
  <2>1. \A i \in 1..Len(s) : s[i] \in Bytes
    BY ElementOfSeq DEF Data
  <2>2. \A i \in 1..Len(s) : s[i] # NotHex
    BY <1>1 DEF AreHex
  <2>3. Bytes \ {NotHex} = 0..15
    BY DEF Bytes, NotHex
  <2> QED BY <2>1, <2>2, <2>3
<1>2. ASSUME Len(s) = 4 PROVE hex2int4(s) \in Int /\ hex2int4(s) <= MaxDatalen
  <2>1. CASE ~AreHex(s)
    BY <2>1 DEF hex2int4, MaxDatalen
  <2>2. CASE AreHex(s)
    <3>1. s[1] \in 0..15 /\ s[2] \in 0..15 /\ s[3] \in 0..15 /\ s[4] \in 0..15
      BY <1>1, <1>2, <2>2
    <3> DEFINE a == s[1]
               b == s[2]
               c == s[3]
               d == s[4]
    <3>3. hex2int4(s) = 4096 * a + 256 * b + 16 * c + d
      BY <2>2 DEF hex2int4
    <3>4. a \in 0..15 /\ b \in 0..15 /\ c \in 0..15 /\ d \in 0..15
      BY <3>1
    <3> HIDE DEF a, b, c, d
    <3>5. /\ 4096 * a + 256 * b + 16 * c + d \in Int
          /\ 4096 * a + 256 * b + 16 * c + d <= MaxDatalen
      BY SMT, <3>4 DEF MaxDatalen
    <3> QED BY <3>3, <3>5
  <2> QED BY <2>1, <2>2
<1>3. ASSUME Len(s) = 2 PROVE hex2int2(s) \in -1..255
  <2>1. CASE ~AreHex(s)
    BY <2>1 DEF hex2int2
  <2>2. CASE AreHex(s)
    <3>1. s[1] \in 0..15 /\ s[2] \in 0..15
      BY <1>1, <1>3, <2>2
    <3>2. \A a, b \in 0..15 : 16 * a + b \in -1..255
      BY SMT
    <3>3. hex2int2(s) = 16 * s[1] + s[2]
      BY <2>2 DEF hex2int2
    <3> QED BY <3>1, <3>2, <3>3
  <2> QED BY <2>1, <2>2
<1> QED BY <1>2, <1>3

LEMMA HeaderRead == SerialInv /\ ReadHeader => SerialInv'
<1> SUFFICES ASSUME SerialInv, ReadHeader PROVE SerialInv'
  OBVIOUS
<1> DEFINE more == Copied(HEADER_SIZE - Len(inp))
           header == inp \o more
           len == SubSeq(header, CHANNEL_SIZE + 1, HEADER_SIZE)
           channel == SubSeq(header, 1, CHANNEL_SIZE)
<1>1. /\ Reading /\ in_datalen = 0 /\ rpos' = rpos + Len(more)
      /\ \/ /\ Len(header) = HEADER_SIZE
            /\ in_datalen' = Datalen(hex2int4(len)) /\ in_channel' = hex2int2(channel)
            /\ packets' = [packets EXCEPT ![in_packet] = <<>>]
         \/ /\ Len(header) # HEADER_SIZE
            /\ packets' = [packets EXCEPT ![in_packet] = header]
            /\ UNCHANGED <<in_datalen, in_channel>>
      /\ UNCHANGED <<free, outVars, line, reading, in_packet, held, posted>>
  BY DEF ReadHeader, InputCleared
<1>2. OwnerInv /\ inp \in Data /\ Len(inp) \in Nat /\ Len(inp) < 6 /\ rpos \in Nat
  BY <1>1, PacketsTyped DEF SerialInv, InputTyped, LineTyped, Wanted, HEADER_SIZE
<1>3. more \in Data /\ Len(more) \in 1..(HEADER_SIZE - Len(inp))
  <2>1. HEADER_SIZE - Len(inp) \in Nat \ {0}
    BY SMTT(30), <1>2 DEF HEADER_SIZE
  <2> QED BY <1>1, <2>1, CopiedTyped
<1> HIDE DEF more
<1>4. header \in Data /\ Len(header) = Len(inp) + Len(more)
  BY <1>2, <1>3, ConcatProperties DEF Data
<1>5. Len(header) \in Nat /\ Len(header) <= 6
  BY <1>2, <1>3, <1>4 DEF HEADER_SIZE
<1> HIDE DEF header
<1>6. LineTyped'
  BY <1>1, <1>2, <1>3 DEF SerialInv, LineTyped, outVars
<1>7. UNCHANGED <<free, queue, reading, held, in_packet>>
  BY <1>1 DEF outVars
<1>8. CASE /\ Len(header) = HEADER_SIZE
           /\ in_datalen' = Datalen(hex2int4(len)) /\ in_channel' = hex2int2(channel)
           /\ packets' = [packets EXCEPT ![in_packet] = <<>>]
  <2>1. <<>> \in Data
    BY DEF Data
  <2>2. OwnerInv' /\ inp' = <<>>
    BY <1>2, <1>7, <1>8, <2>1, InputFill
  <2>3. len \in Data /\ Len(len) = 4
    <3>1. /\ CHANNEL_SIZE \in Nat /\ HEADER_SIZE \in Nat /\ HEADER_SIZE <= Len(header)
          /\ CHANNEL_SIZE < HEADER_SIZE /\ HEADER_SIZE - CHANNEL_SIZE = 4
      BY <1>8 DEF HEADER_SIZE, CHANNEL_SIZE
    <3> QED BY <1>4, <3>1, PartTyped
  <2>4. channel \in Data /\ Len(channel) = 2
    <3>1. 2 <= Len(header)
      BY <1>8 DEF HEADER_SIZE
    <3>2. /\ SubSeq(header, 0 + 1, 2) \in Data
          /\ Len(SubSeq(header, 0 + 1, 2)) = IF 0 < 2 THEN 2 - 0 ELSE 0
      BY <1>4, <3>1, PartTyped
    <3> QED BY <3>2 DEF CHANNEL_SIZE
  <2> HIDE DEF len, channel
  <2>5. in_datalen' \in Nat /\ in_datalen' <= MaxDatalen /\ in_channel' \in -1..255
    <3>1. hex2int4(len) \in Int /\ hex2int4(len) <= MaxDatalen /\ hex2int2(channel) \in -1..255
      BY <2>3, <2>4, HexTyped
    <3>2. 0 <= MaxDatalen
      BY DEF MaxDatalen
    <3> QED BY <1>8, <3>1, <3>2 DEF Datalen
  <2>6. Len(inp') = 0 /\ Wanted' \in Nat \ {0}
    BY <2>2, <2>5 DEF Wanted, HEADER_SIZE
  <2>7. InputTyped'
    BY <1>1, <2>5, <2>6 DEF SerialInv, InputTyped
  <2> QED BY <1>6, <2>2, <2>7 DEF SerialInv
<1>9. CASE /\ Len(header) # HEADER_SIZE
           /\ packets' = [packets EXCEPT ![in_packet] = header]
           /\ UNCHANGED <<in_datalen, in_channel>>
  <2>1. OwnerInv' /\ inp' = header
    BY <1>2, <1>4, <1>7, <1>9, InputFill
  <2>2. Len(inp') < Wanted'
    <3>1. Wanted' = 6
      BY <1>1, <1>9 DEF Wanted, HEADER_SIZE
    <3>2. Len(header) < 6
      <4> DEFINE n == Len(header)
      <4>1. n \in Nat /\ n <= 6 /\ n # 6
        BY <1>5, <1>9 DEF HEADER_SIZE
      <4> HIDE DEF n
      <4>2. n < 6
        BY <4>1
      <4> QED BY <4>2 DEF n
    <3>3. Len(inp') = Len(header)
      BY <2>1
    <3> HIDE DEF Wanted
    <3> QED BY <3>1, <3>2, <3>3
  <2>3. InputTyped'
    BY <1>1, <1>9, <2>2 DEF SerialInv, InputTyped
  <2> QED BY <1>6, <2>1, <2>3 DEF SerialInv
<1> QED BY <1>1, <1>8, <1>9

LEMMA PayloadRead ==
    ASSUME SerialInv, NEW keeps \in BOOLEAN, ReadPayload(keeps)
    PROVE  SerialInv' /\ (in_datalen' = 0 => inp' = <<>>)
<1> DEFINE more == Copied(in_datalen - Len(inp))
           payload == inp \o more
           filled == Fill(Pool, in_packet, payload)
           freed == packet_free(filled, in_packet)
           next == packet_alloc(IF keeps THEN filled ELSE freed)
           message == [channel |-> in_channel, data |-> payload]
<1>1. /\ Reading /\ in_datalen # 0 /\ rpos' = rpos + Len(more)
      /\ \/ /\ Len(payload) # in_datalen
            /\ packets' = [packets EXCEPT ![in_packet] = payload]
            /\ UNCHANGED <<free, in_datalen, in_packet, held, posted>>
         \/ /\ in_datalen' = 0
            /\ packets' = [packets EXCEPT ![in_packet] = <<>>]
            /\ UNCHANGED <<free, in_packet, held, posted>>
         \/ /\ in_datalen' = 0 /\ in_channel \in 0..255
            /\ posted' = Append(posted, message)
            /\ held' = held \cup (IF keeps THEN {in_packet} ELSE {})
            /\ in_packet' = next.id /\ SetPool(next.pool)
      /\ UNCHANGED <<outVars, line, reading, in_channel>>
  <2>1. in_channel \in -1..255
    BY DEF SerialInv, InputTyped
  <2>2. in_channel < 0 \/ in_channel \in 0..255
    BY <2>1
  <2> QED BY <2>2 DEF ReadPayload, InputCleared, NextInput, Fill
<1>2. /\ OwnerInv /\ inp \in Data /\ Len(inp) \in Nat /\ Len(inp) < in_datalen /\ rpos \in Nat
      /\ in_datalen \in Nat /\ PoolOK(Pool) /\ in_packet \in Taken(Pool)
      /\ Owners(Pool, queue, in_packet, Busy, held)
  BY <1>1, PacketsTyped DEF SerialInv, InputTyped, LineTyped, Wanted, OwnerInv
<1>3. more \in Data /\ Len(more) \in 1..(in_datalen - Len(inp))
  <2>1. in_datalen - Len(inp) \in Nat \ {0}
    BY <1>2
  <2> QED BY <1>1, <2>1, CopiedTyped
<1> HIDE DEF more
<1>4. payload \in Data /\ Len(payload) = Len(inp) + Len(more)
  BY <1>2, <1>3, ConcatProperties DEF Data
<1>5. Len(payload) \in Nat /\ Len(payload) <= in_datalen
  BY <1>2, <1>3, <1>4
<1> HIDE DEF payload
<1>6. LineTyped'
  BY <1>1, <1>2, <1>3 DEF SerialInv, LineTyped, outVars
<1>7. CASE /\ Len(payload) # in_datalen
           /\ packets' = [packets EXCEPT ![in_packet] = payload]
           /\ UNCHANGED <<free, in_datalen, in_packet, held, posted>>
  <2>1. UNCHANGED <<free, queue, reading, held, in_packet>>
    BY <1>1, <1>7 DEF outVars
  <2>2. OwnerInv' /\ inp' = payload
    BY <1>2, <1>4, <1>7, <2>1, InputFill
  <2>3. InputTyped'
    BY <1>1, <1>2, <1>5, <1>7, <2>2 DEF SerialInv, InputTyped, Wanted
  <2>4. in_datalen' # 0
    BY <1>1, <1>7
  <2> QED BY <1>6, <2>2, <2>3, <2>4 DEF SerialInv
<1>8. CASE /\ in_datalen' = 0
           /\ packets' = [packets EXCEPT ![in_packet] = <<>>]
           /\ UNCHANGED <<free, in_packet, held, posted>>
  <2>1. UNCHANGED <<free, queue, reading, held, in_packet>>
    BY <1>1, <1>8 DEF outVars
  <2>2. OwnerInv' /\ inp' = <<>>
    <3>1. <<>> \in Data
      BY DEF Data
    <3> QED BY <1>2, <1>8, <2>1, <3>1, InputFill
  <2>3. InputTyped'
    BY <1>1, <1>8, <2>2 DEF SerialInv, InputTyped, Wanted, HEADER_SIZE, MaxDatalen
  <2> QED BY <1>6, <2>2, <2>3 DEF SerialInv
<1>9. CASE /\ in_datalen' = 0 /\ in_channel \in 0..255
           /\ posted' = Append(posted, message)
           /\ held' = held \cup (IF keeps THEN {in_packet} ELSE {})
           /\ in_packet' = next.id /\ SetPool(next.pool)
  <2>1. Owners(filled, queue, in_packet, Busy, held)
    BY <1>2, <1>4, Filled
  <2> HIDE DEF filled
  <2>2. Owners(next.pool, queue, next.id, Busy, held') /\ next.pool.packets[next.id] = <<>>
    <3>1. CASE keeps
      <4>1. next = packet_alloc(filled) /\ held' = held \cup {in_packet}
        BY <1>9, <3>1
      <4> HIDE DEF next
      <4> QED BY <2>1, <4>1, InputReplaced
    <3>2. CASE ~keeps
      <4>1. next = packet_alloc(packet_free(filled, in_packet)) /\ held' = held
        BY <1>9, <3>2
      <4> HIDE DEF next
      <4> QED BY <2>1, <4>1, InputReplaced
    <3> QED BY <3>1, <3>2
  <2> HIDE DEF next
  <2>3. PoolOK(next.pool)
    BY <2>2 DEF Owners
  <2>4. Pool' = next.pool
    BY <1>9, <2>3, SetPoolSets
  <2>5. UNCHANGED queue /\ Busy' = Busy
    BY <1>1 DEF outVars, Busy, Idle
  <2>6. OwnerInv'
    <3>1. Owners(Pool', queue', in_packet', Busy', held')
      BY <1>9, <2>2, <2>4, <2>5
    <3> QED BY <3>1 DEF OwnerInv, Owners, PoolOK, Taken, IdsOf
  <2>7. inp' = <<>>
    BY <1>9, <2>2 DEF inp, SetPool
  <2>8. posted' \in Seq([channel : 0..255, data : Data])
    <3>1. message \in [channel : 0..255, data : Data]
      BY <1>4, <1>9
    <3>2. posted \in Seq([channel : 0..255, data : Data])
      BY DEF SerialInv, InputTyped
    <3> HIDE DEF message
    <3> QED BY <1>9, <3>1, <3>2, AppendProperties
  <2>9. InputTyped'
    BY <1>1, <1>9, <2>7, <2>8 DEF SerialInv, InputTyped, Wanted, HEADER_SIZE, MaxDatalen
  <2> QED BY <1>6, <2>6, <2>7, <2>9 DEF SerialInv
<1> QED BY <1>1, <1>7, <1>8, <1>9

-----------------------------------------------------------------------------
(* The theorems.                                                           *)

LEMMA SerialInductive == SerialInv /\ [Next]_vars => SerialInv'
<1> SUFFICES ASSUME SerialInv, [Next]_vars PROVE SerialInv'
  OBVIOUS
<1>1. CASE UNCHANGED vars
  <2>1. UNCHANGED <<poolVars, outVars, line, reading, rpos, inVars>>
    BY <1>1 DEF vars
  <2>2. OwnerInv'
    BY <2>1 DEF SerialInv, OwnerInv, Owners, PoolOK, Taken, IdsOf, Pool, Busy, Idle,
       poolVars, outVars, inVars
  <2>3. LineTyped'
    BY <2>1 DEF SerialInv, LineTyped, outVars
  <2>4. InputTyped'
    BY <2>1 DEF SerialInv, InputTyped, Wanted, inp, poolVars, inVars
  <2> QED BY <2>2, <2>3, <2>4 DEF SerialInv
<1>2. CASE \E m \in Message : serial_send(m)
  BY <1>2, SendTyped
<1>3. CASE \E d \in Noise : SendNoise(d)
  BY <1>3, NoiseTyped
<1>4. CASE \E n \in 1..MAX_PAYLOAD : WriteOut(n)
  BY <1>4, WriteTyped
<1>5. CASE \E n \in 1..MAX_PAYLOAD : ReadIn(n)
  BY <1>5, ReadTyped
<1>6. CASE ReadHeader
  BY <1>6, HeaderRead
<1>7. CASE \E keeps \in BOOLEAN : ReadPayload(keeps)
  BY <1>7, PayloadRead
<1>8. CASE FreeRead
  BY <1>8, FreeReadTyped
<1>9. CASE \E p \in Ids : ReceiverFrees(p)
  BY <1>9, ReceiverTyped
<1> QED BY <1>1, <1>2, <1>3, <1>4, <1>5, <1>6, <1>7, <1>8, <1>9 DEF Next

LEMMA SerialInitially == Init => SerialInv
<1> SUFFICES ASSUME Init PROVE SerialInv
  OBVIOUS
<1>1. Pool = [free |-> <<>>, packets |-> << <<>> >>] /\ in_packet = 1 /\ inp = <<>>
  BY DEF Init, Pool, inp
<1>2. << <<>> >> \in Seq(Data) /\ Len(<< <<>> >>) = 1
  <2>1. <<>> \in Data
    BY DEF Data
  <2> HIDE DEF Data
  <2> QED BY <2>1
<1>3. IdsOf(Pool) = {1} /\ Range(<<>>) = {}
  BY <1>1, <1>2, EmptyRange DEF IdsOf
<1>4. PoolOK(Pool)
  BY <1>1, <1>2, <1>3 DEF PoolOK, Distinct
<1>5. Taken(Pool) = {1}
  BY <1>1, <1>3 DEF Taken
<1>6. OwnerInv
  <2>1. queue = <<>> /\ Busy = {} /\ held = {} /\ Distinct(<<>>)
    BY DEF Init, Busy, Idle, Distinct
  <2> QED BY <1>1, <1>3, <1>4, <1>5, <2>1 DEF OwnerInv, Owners
<1>7. LineTyped
  BY ConstantsTyped DEF Init, LineTyped, Data
<1>8. InputTyped
  <2>1. Len(inp) = 0 /\ Wanted = 6
    BY <1>1 DEF Init, Wanted, HEADER_SIZE
  <2>2. in_datalen = 0 /\ in_channel = 0 /\ posted = <<>>
    BY DEF Init
  <2>3. 0 <= MaxDatalen
    BY DEF MaxDatalen
  <2> HIDE DEF Wanted
  <2> QED BY <2>1, <2>2, <2>3 DEF InputTyped
<1> QED BY <1>6, <1>7, <1>8 DEF SerialInv

LEMMA TypeImplied == SerialInv => TypeOK
<1> SUFFICES ASSUME SerialInv PROVE TypeOK
  OBVIOUS
<1>1. /\ PoolOK(Pool) /\ Pool = [free |-> free, packets |-> packets]
      /\ in_packet \in Taken(Pool) /\ Taken(Pool) \subseteq Ids /\ IdsOf(Pool) = Ids
      /\ Owners(Pool, queue, in_packet, Busy, held)
  BY PacketsTyped DEF SerialInv, OwnerInv
<1>2. packets \in Seq(Seq(Bytes)) /\ free \in Seq(Ids)
  BY <1>1 DEF PoolOK, Data
<1>3. queue \in Seq(Ids) /\ held \subseteq Ids /\ Busy \subseteq Ids /\ in_packet \in Ids
  BY <1>1 DEF Owners
<1>4. reading \in Ids \cup {NoPacket}
  BY <1>3 DEF Busy, Idle
<1>5. in_datalen \in 0..MaxDatalen
  <2>1. MaxDatalen \in Nat
    BY DEF MaxDatalen
  <2> QED BY <2>1 DEF SerialInv, InputTyped
<1>6. in_channel \in -1..255 /\ posted \in Seq([channel : 0..255, data : Seq(Bytes)])
  BY DEF SerialInv, InputTyped, Data
<1>7. /\ out_pos \in Nat /\ line \in Seq(Bytes) /\ rpos \in Nat
      /\ sent \in Seq(Message) /\ noises \in 0..MaxNoise
  BY DEF SerialInv, LineTyped, Data
<1>8. /\ packets \in Seq(Seq(Bytes))
      /\ free \in Seq(Ids) /\ queue \in Seq(Ids) /\ held \subseteq Ids
      /\ out_pos \in Nat
      /\ line \in Seq(Bytes)
      /\ reading \in Ids \cup {NoPacket} /\ rpos \in Nat
      /\ in_packet \in Ids
      /\ in_datalen \in 0..MaxDatalen /\ in_channel \in -1..255
      /\ sent \in Seq(Message)
      /\ posted \in Seq([channel : 0..255, data : Seq(Bytes)])
      /\ noises \in 0..MaxNoise
  BY <1>2, <1>3, <1>4, <1>5, <1>6, <1>7
<1> QED BY <1>8 DEF TypeOK

\* Every packet has one owner.
LEMMA OwnersImplied == SerialInv => OwnedOnce
<1> SUFFICES ASSUME SerialInv PROVE OwnedOnce
  OBVIOUS
<1> DEFINE i == <<in_packet>>
           b == IF Idle THEN <<>> ELSE <<reading>>
           fq == free \o queue
           fqi == fq \o i
           all == fqi \o b
<1>1. /\ PoolOK(Pool) /\ Pool = [free |-> free, packets |-> packets]
      /\ IdsOf(Pool) = Ids /\ Owners(Pool, queue, in_packet, Busy, held)
      /\ in_packet \in Taken(Pool)
  BY PacketsTyped DEF SerialInv, OwnerInv
<1>2. /\ free \in Seq(Ids) /\ queue \in Seq(Ids) /\ Distinct(free) /\ Distinct(queue)
      /\ Taken(Pool) = Ids \ Range(free)
  BY <1>1 DEF PoolOK, Owners, Taken
<1>3. /\ Taken(Pool) = Range(queue) \cup {in_packet} \cup Busy \cup held
      /\ in_packet \notin Range(queue) \cup Busy \cup held
      /\ (Busy \cup held) \cap Range(queue) = {} /\ Busy \cap held = {}
  BY <1>1 DEF Owners
<1>4. Range(free) \subseteq Ids /\ in_packet \in Ids /\ Busy \subseteq Ids
  BY <1>2, <1>3, RangeOfSeq
<1>5. i \in Seq(Ids) /\ Range(i) = {in_packet} /\ Distinct(i)
  BY <1>4, Single, SingleDistinct
<1>6. b \in Seq(Ids) /\ Range(b) = Busy /\ Distinct(b)
  <2>1. CASE Idle
    BY <2>1, EmptyRange DEF Busy, Distinct
  <2>2. CASE ~Idle
    <3>1. reading \in Ids
      BY <1>4, <2>2 DEF Busy
    <3> QED BY <2>2, <3>1, Single, SingleDistinct DEF Busy
  <2> QED BY <2>1, <2>2
<1>7. Owned = all
  BY DEF Owned
<1> HIDE DEF i, b
<1>8. fq \in Seq(Ids) /\ Range(fq) = Range(free) \cup Range(queue) /\ Distinct(fq)
  <2>1. fq \in Seq(Ids) /\ Range(fq) = Range(free) \cup Range(queue)
    BY <1>2, ConcatProperties, RangeConcatenation
  <2>2. Range(free) \cap Range(queue) = {}
    BY <1>2, <1>3
  <2> QED BY <1>2, <2>1, <2>2, DistinctConcat
<1> HIDE DEF fq
<1>9. fqi \in Seq(Ids) /\ Range(fqi) = Range(fq) \cup {in_packet} /\ Distinct(fqi)
  <2>1. fqi \in Seq(Ids) /\ Range(fqi) = Range(fq) \cup Range(i)
    BY <1>5, <1>8, ConcatProperties, RangeConcatenation
  <2>2. Range(fq) \cap Range(i) = {}
    BY <1>2, <1>3, <1>5, <1>8
  <2> QED BY <1>5, <1>8, <2>1, <2>2, DistinctConcat
<1> HIDE DEF fqi
<1>10. all \in Seq(Ids) /\ Range(all) = Range(fqi) \cup Busy /\ Distinct(all)
  <2>1. all \in Seq(Ids) /\ Range(all) = Range(fqi) \cup Range(b)
    BY <1>6, <1>9, ConcatProperties, RangeConcatenation
  <2>2. Range(fqi) \cap Range(b) = {}
    BY <1>2, <1>3, <1>6, <1>8, <1>9
  <2> QED BY <1>6, <1>9, <2>1, <2>2, DistinctConcat
<1> HIDE DEF all
<1>11. Range(Owned) = {Owned[k] : k \in 1..Len(Owned)} /\ Distinct(Owned)
  BY <1>7, <1>10, InRange
<1>12. Range(Owned) = Range(free) \cup Range(queue) \cup {in_packet} \cup Busy
  BY <1>7, <1>8, <1>9, <1>10
<1>13. held \cap Range(Owned) = {} /\ held \cup Range(Owned) = Ids
  <2>1. held \subseteq Ids \ Range(free)
    BY <1>2, <1>3
  <2>2. held \cap (Range(queue) \cup {in_packet} \cup Busy) = {}
    BY <1>3
  <2>3. Range(free) \cup (Range(queue) \cup {in_packet} \cup Busy \cup held) = Ids
    BY <1>2, <1>3, <1>4
  <2> QED BY <1>12, <2>1, <2>2, <2>3
<1> QED BY <1>11, <1>13 DEF OwnedOnce, Distinct

\* The variables keep their types: what a header says of the length of what follows is a
\* number that is not negative, whatever characters it is made of.
THEOREM TypeCorrect == Spec => []TypeOK
BY SerialInitially, SerialInductive, TypeImplied, PTL DEF Spec

\* At every moment every packet ever allocated is on the free list, or in the queue of the
\* serial line, or is being read into or out of, or is with the receiver it was posted to,
\* and in one place only: packet_free puts none on the list twice, none is lost, and
\* packet_alloc gives out none that somebody still uses.
THEOREM PacketsOwned == Spec => []OwnedOnce
BY SerialInitially, SerialInductive, OwnersImplied, PTL DEF Spec

\* The payload goes past what is being read out of, and past every packet but the input
\* packet: they stay as they were.
LEMMA PayloadKeeps ==
    ASSUME SerialInv, NEW keeps \in BOOLEAN, ReadPayload(keeps)
    PROVE  Kept({in_packet})
<1> SUFFICES ASSUME NEW p \in Taken(Pool), p # in_packet PROVE packets'[p] = packets[p]
  BY DEF Kept
<1> DEFINE payload == inp \o Copied(in_datalen - Len(inp))
           filled == Fill(Pool, in_packet, payload)
           freed == packet_free(filled, in_packet)
           kept == packet_alloc(filled)
           next == packet_alloc(freed)
<1>1. /\ PoolOK(Pool) /\ Pool = [free |-> free, packets |-> packets]
      /\ packets \in Seq(Data) /\ p \in Ids /\ in_packet \in Ids
      /\ in_packet \in Taken(Pool) /\ p \in Taken(Pool) /\ p # in_packet
      /\ inp \in Data /\ Len(inp) \in Nat /\ Reading
  BY PacketsTyped DEF SerialInv, ReadPayload, Reading, PoolOK
<1>2. payload \in Data
  <2>1. in_datalen - Len(inp) \in Nat \ {0}
    BY <1>1 DEF ReadPayload, SerialInv, InputTyped, Wanted
  <2>2. Copied(in_datalen - Len(inp)) \in Data
    BY <1>1, <2>1, CopiedTyped
  <2> QED BY <1>1, <2>2, ConcatProperties DEF Data
<1>3. \/ packets' = [packets EXCEPT ![in_packet] = payload]
      \/ packets' = [packets EXCEPT ![in_packet] = <<>>]
      \/ SetPool(kept.pool)
      \/ SetPool(next.pool)
  BY DEF ReadPayload, InputCleared, NextInput, Fill
<1> HIDE DEF payload
<1>4. /\ PoolOK(filled) /\ Taken(filled) = Taken(Pool)
      /\ filled.packets[p] = packets[p]
  <2>1. /\ PoolOK(Pool) /\ in_packet \in Taken(Pool) /\ p \in Taken(Pool) \ {in_packet}
        /\ Pool.packets = packets
    BY <1>1
  <2> HIDE DEF filled
  <2>2. /\ PoolOK(filled) /\ Taken(filled) = Taken(Pool)
        /\ \A q \in Taken(Pool) \ {in_packet} : filled.packets[q] = Pool.packets[q]
    BY <1>2, <2>1, FillKeeps DEF filled
  <2> QED BY <2>1, <2>2
<1> HIDE DEF filled
<1>5. PoolOK(freed) /\ p \in Taken(freed) /\ freed.packets[p] = packets[p]
  BY <1>1, <1>4, FreeReturns
<1> HIDE DEF freed
<1>6. kept.pool.packets[p] = packets[p] /\ next.pool.packets[p] = packets[p]
  <2>1. p \in Taken(filled)
    BY <1>1, <1>4
  <2>2. kept.pool.packets[p] = filled.packets[p]
    BY <1>4, <2>1, AllocTakes
  <2>3. next.pool.packets[p] = freed.packets[p]
    BY <1>5, AllocTakes
  <2> QED BY <1>4, <1>5, <2>2, <2>3
<1> HIDE DEF kept, next
<1>7. \A d : [packets EXCEPT ![in_packet] = d][p] = packets[p]
  BY <1>1 DEF Ids
<1> QED BY <1>3, <1>6, <1>7 DEF SetPool

\* A turn of the loop of serial_fd_receive takes bytes from the packet that is read, and no
\* more than are in it: whatever the headers say, "while (rpos < rcount)" ends, with rpos
\* at rcount.
THEOREM ReceiveAdvances ==
    Spec => [][ReadHeader \/ (\E keeps \in BOOLEAN : ReadPayload(keeps)) =>
                 rpos < rpos' /\ rpos' <= Len(packets'[reading])]_vars
<1>1. ASSUME SerialInv, ReadHeader
      PROVE  rpos < rpos' /\ rpos' <= Len(packets'[reading])
  <2> DEFINE more == Copied(HEADER_SIZE - Len(inp))
  <2>1. /\ Reading /\ rpos' = rpos + Len(more)
        /\ \E d : packets' = [packets EXCEPT ![in_packet] = d]
    BY <1>1 DEF ReadHeader, InputCleared
  <2>2. /\ packets \in Seq(Data) /\ reading \in Ids /\ reading # in_packet
        /\ Len(inp) \in Nat /\ Len(inp) < 6 /\ rpos \in Nat
    BY <1>1, <2>1, PacketsTyped
       DEF SerialInv, Reading, PoolOK, InputTyped, LineTyped, Wanted, ReadHeader, HEADER_SIZE
  <2>3. packets'[reading] = packets[reading]
    BY <2>1, <2>2 DEF Ids
  <2>4. HEADER_SIZE - Len(inp) \in Nat \ {0}
    <3> DEFINE n == Len(inp)
    <3>1. n \in Nat /\ n < 6
      BY <2>2
    <3> HIDE DEF n, more
    <3>2. HEADER_SIZE - n \in Nat \ {0}
      BY <3>1 DEF HEADER_SIZE
    <3> QED BY <3>2 DEF n
  <2>5. Len(more) \in Nat \ {0} /\ rpos + Len(more) <= Len(packets[reading])
    <3>1. Reading
      BY <2>1
    <3> QED BY <1>1, <2>4, <3>1, CopiedAdvances
  <2> HIDE DEF more
  <2> QED BY <2>1, <2>2, <2>3, <2>5
<1>2. ASSUME SerialInv, NEW keeps \in BOOLEAN, ReadPayload(keeps)
      PROVE  rpos < rpos' /\ rpos' <= Len(packets'[reading])
  <2> DEFINE more == Copied(in_datalen - Len(inp))
  <2>1. Reading /\ in_datalen # 0 /\ rpos' = rpos + Len(more)
    BY <1>2 DEF ReadPayload
  <2>2. in_datalen - Len(inp) \in Nat \ {0} /\ rpos \in Nat
    BY <1>2, <2>1, PacketsTyped DEF SerialInv, InputTyped, LineTyped, Wanted
  <2>3. packets'[reading] = packets[reading]
    <3>1. Kept({in_packet})
      BY <1>2, PayloadKeeps
    <3>2. reading \in Taken(Pool) \ {in_packet}
      BY <1>2, <2>1, PacketsTyped DEF SerialInv, Reading
    <3> QED BY <3>1, <3>2 DEF Kept
  <2>4. Len(more) \in Nat \ {0} /\ rpos + Len(more) <= Len(packets[reading])
    BY <1>2, <2>1, <2>2, CopiedAdvances
  <2> HIDE DEF more
  <2> QED BY <2>1, <2>2, <2>3, <2>4
<1>3. SerialInv /\ [Next]_vars =>
        [ReadHeader \/ (\E keeps \in BOOLEAN : ReadPayload(keeps)) =>
           rpos < rpos' /\ rpos' <= Len(packets'[reading])]_vars
  BY <1>1, <1>2
<1> QED BY <1>3, SerialInitially, SerialInductive, PTL DEF Spec

-----------------------------------------------------------------------------
(* The line as a pipe.  There is a stream s of all the bytes ever sent; what  *)
(* every part of the daemon has of it is there at some place, as are the      *)
(* frames it was made of.                                                     *)

\* In the stream the bytes b come after place p.
At(s, p, b) == \A j \in 1..Len(b) : s[p + j] = b[j]

\* Packets Q, written up to o bytes of the first, end the stream, whose length is e.
Writer(s, q, Q, o, e) ==
    /\ q[Len(Q) + 1] = e
    /\ \A i \in 1..Len(Q) :
         q[i + 1] = q[i] + Len(Q[i]) /\ q[i + 1] <= e /\ At(s, q[i], Q[i])
    /\ o \in Nat /\ (IF Q = <<>> THEN o = 0 ELSE o <= Len(Q[1]))

\* From place p to place e the stream has a frame: a packet, of which k have been sent before
\* and l with it, or one to be ignored.
Frame(s, p, e, k, l, S) ==
    \/ /\ l = k + 1 /\ l \in 1..Len(S)
       /\ At(s, p, Header(S[l])) /\ At(s, p + HEADER_SIZE, S[l].data)
       /\ e = p + HEADER_SIZE + Len(S[l].data)
    \/ l = k /\ \E d \in Noise : At(s, p, d) /\ e = p + Len(d)

\* The stream is n frames, cut at the places cut, with count[i] packets before frame i.
Framed(s, cut, count, n, S) ==
    /\ \A i \in 1..n : /\ Frame(s, cut[i], cut[i + 1], count[i], count[i + 1], S)
                       /\ cut[i + 1] <= cut[n + 1]
    /\ count[n + 1] = Len(S)

\* The receiving half is at place b in frame f, in its header or in its payload, which
\* is len bytes for channel c; the packets of the frames before are P.
Reader(b, f, cut, count, n, len, c, P, S) ==
    /\ f \in 1..n + 1
    /\ Len(P) = count[f] /\ Len(P) <= Len(S) /\ \A i \in 1..Len(P) : P[i] = S[i]
    /\ len = 0 => b = cut[f]
    /\ len # 0 =>
         /\ f <= n /\ b = cut[f] + HEADER_SIZE /\ cut[f + 1] = b + len
         /\ len \in 1..MAX_PAYLOAD
         /\ \/ c = -1 /\ count[f + 1] = count[f]
            \/ /\ count[f + 1] = count[f] + 1 /\ count[f + 1] \in 1..Len(S)
               /\ c = S[count[f + 1]].channel

\* The bytes U, not yet done with, are those from place b to place w.
Coming(s, b, U, w) == At(s, b, U) /\ w = b + Len(U)

Streams == [Nat -> Bytes]
Places  == [Nat -> Nat]
PipeOf(Q, o, U, len, c, P, S) ==
    \E s \in Streams, q \in Places, cut \in Places, count \in Places,
       n \in Nat, f \in Nat, b \in Nat :
        /\ Writer(s, q, Q, o, cut[n + 1]) /\ Framed(s, cut, count, n, S)
        /\ Coming(s, b, U, q[1] + o) /\ Reader(b, f, cut, count, n, len, c, P, S)

QueueData == [i \in 1..Len(queue) |-> packets[queue[i]]]
Rest   == IF Idle THEN <<>> ELSE SubSeq(packets[reading], rpos + 1, Len(packets[reading]))
Unread == (inp \o Rest) \o line

PipeInv == PipeOf(QueueData, out_pos, Unread, in_datalen, in_channel, posted, sent)
\* The stream is continued with the bytes d.
Continues(s, t, e) == \A j \in 1..e : t[j] = s[j]

LEMMA StreamContinued ==
    ASSUME NEW s \in Streams, NEW e \in Nat, NEW d \in Data
    PROVE  \E t \in Streams : Continues(s, t, e) /\ At(t, e, d)
<1> DEFINE t == [j \in Nat |-> IF j <= e THEN s[j]
                               ELSE IF j - e \in 1..Len(d) THEN d[j - e] ELSE 0]
<1>1. Len(d) \in Nat /\ \A j \in 1..Len(d) : d[j] \in Bytes
  BY LenProperties, ElementOfSeq DEF Data
<1>2. t \in Streams
  <2> SUFFICES ASSUME NEW j \in Nat
               PROVE  (IF j <= e THEN s[j]
                       ELSE IF j - e \in 1..Len(d) THEN d[j - e] ELSE 0) \in Bytes
    BY DEF Streams
  <2>1. s[j] \in Bytes /\ 0 \in Bytes
    BY DEF Streams, Bytes
  <2> QED BY <1>1, <2>1
<1>3. \A j \in 1..e : t[j] = s[j]
  OBVIOUS
<1>4. \A j \in 1..Len(d) : t[e + j] = d[j]
  <2> TAKE j \in 1..Len(d)
  <2>1. j \in Nat /\ e + j \in Nat /\ ~(e + j <= e) /\ (e + j) - e = j
    BY <1>1
  <2> QED BY <2>1
<1> HIDE DEF t
<1> QED BY <1>2, <1>3, <1>4 DEF Continues, At

\* What was in the stream still is.
LEMMA AtKept ==
    ASSUME NEW s, NEW t, NEW e \in Nat, Continues(s, t, e),
           NEW p \in Nat, NEW b \in Data, p + Len(b) <= e, At(s, p, b)
    PROVE  At(t, p, b)
<1>1. Len(b) \in Nat
  BY LenProperties DEF Data
<1>2. \A j \in 1..Len(b) : p + j \in 1..e
  BY <1>1
<1> QED BY <1>2 DEF At, Continues

\* A place holds one sequence of each length.
LEMMA AtUnique ==
    ASSUME NEW s, NEW p, NEW b \in Data, NEW d \in Data, Len(b) = Len(d),
           At(s, p, b), At(s, p, d)
    PROVE  b = d
<1>1. \A j \in 1..Len(b) : b[j] = d[j]
  BY DEF At
<1> QED BY <1>1, SeqEqual DEF Data

LEMMA DataConcat ==
    ASSUME NEW b \in Data, NEW d \in Data, NEW e \in Data
    PROVE  /\ b \o d \in Data /\ d \o e \in Data
           /\ (b \o d) \o e = b \o (d \o e) /\ b \o (d \o e) \in Data
BY ConcatProperties, ConcatAssociative DEF Data

LEMMA AtConcat ==
    ASSUME NEW s, NEW p \in Nat, NEW b \in Data, NEW d \in Data
    PROVE  At(s, p, b \o d) <=> At(s, p, b) /\ At(s, p + Len(b), d)
<1> DEFINE u == b \o d
<1>1. /\ Len(u) = Len(b) + Len(d) /\ Len(b) \in Nat /\ Len(d) \in Nat
      /\ \A j \in 1..Len(b) + Len(d) : u[j] = IF j <= Len(b) THEN b[j] ELSE d[j - Len(b)]
  BY ConcatProperties, LenProperties DEF Data
<1> HIDE DEF u
<1>2. ASSUME At(s, p, u) PROVE At(s, p, b) /\ At(s, p + Len(b), d)
  <2>1. ASSUME NEW j \in 1..Len(b) PROVE s[p + j] = b[j]
    <3>1. j \in 1..Len(u) /\ u[j] = b[j]
      BY <1>1
    <3> QED BY <1>2, <3>1 DEF At
  <2>2. ASSUME NEW j \in 1..Len(d) PROVE s[(p + Len(b)) + j] = d[j]
    <3>1. Len(b) + j \in 1..Len(b) + Len(d) /\ ~(Len(b) + j <= Len(b)) /\ (Len(b) + j) - Len(b) = j
      BY <1>1
    <3>2. u[Len(b) + j] = d[j]
      BY <1>1, <3>1
    <3>3. (p + Len(b)) + j = p + (Len(b) + j)
      BY <1>1
    <3> QED BY <1>1, <1>2, <3>1, <3>2, <3>3 DEF At
  <2> QED BY <2>1, <2>2 DEF At
<1>3. ASSUME At(s, p, b), At(s, p + Len(b), d) PROVE At(s, p, u)
  <2> SUFFICES ASSUME NEW j \in 1..Len(u) PROVE s[p + j] = u[j]
    BY DEF At
  <2>1. CASE j <= Len(b)
    <3>1. j \in 1..Len(b) /\ u[j] = b[j]
      BY <1>1, <2>1
    <3> QED BY <1>3, <3>1 DEF At
  <2>2. CASE ~(j <= Len(b))
    <3>1. j - Len(b) \in 1..Len(d) /\ p + j = (p + Len(b)) + (j - Len(b))
      BY <1>1, <2>2
    <3>2. u[j] = d[j - Len(b)]
      BY <1>1, <2>2
    <3> QED BY <1>3, <3>1, <3>2 DEF At
  <2> QED BY <2>1, <2>2
<1> QED BY <1>2, <1>3 DEF u

\* Nothing has been written past the end of the stream.
LEMMA WrittenSent ==
    ASSUME NEW s, NEW q \in Places, NEW Q \in Seq(Data), NEW o, NEW e \in Nat, Writer(s, q, Q, o, e)
    PROVE  q[1] + o <= e /\ q[1] \in Nat /\ o \in Nat
<1>1. Len(Q) \in Nat /\ q[1] \in Nat /\ o \in Nat
  BY LenProperties DEF Places, Writer
<1>2. CASE Q = <<>>
  BY <1>1, <1>2 DEF Writer
<1>3. CASE Q # <<>>
  <2>1. 1 \in 1..Len(Q) /\ Len(Q[1]) \in Nat
    <3>1. 1 \in 1..Len(Q)
      BY <1>3, EmptySeq, <1>1
    <3>2. Q[1] \in Data
      BY <3>1, ElementOfSeq
    <3> QED BY <3>1, <3>2, LenProperties DEF Data
  <2>2. q[1 + 1] = q[1] + Len(Q[1]) /\ q[1 + 1] <= e /\ o <= Len(Q[1])
    BY <1>3, <2>1 DEF Writer
  <2> QED BY <1>1, <2>1, <2>2
<1> QED BY <1>2, <1>3

LEMMA PlaceTyped == \A f \in Places, i \in Nat : f[i] \in Nat
BY DEF Places

\* From place k on, f is v.
From(f, k, v) == [i \in Nat |-> IF i <= k THEN f[i] ELSE v]

LEMMA FromPlaces ==
    ASSUME NEW f \in Places, NEW k \in Nat, NEW v \in Nat
    PROVE  /\ From(f, k, v) \in Places /\ From(f, k, v)[k + 1] = v
           /\ \A i \in 1..k : From(f, k, v)[i] = f[i]
BY DEF From, Places

\* A packet is queued.
LEMMA WriterGrows ==
    ASSUME NEW s, NEW t, NEW q \in Places, NEW Q \in Seq(Data), NEW o, NEW e \in Nat,
           Writer(s, q, Q, o, e), NEW d \in Data, Continues(s, t, e), At(t, e, d)
    PROVE  Writer(t, From(q, Len(Q) + 1, e + Len(d)), Append(Q, d), o, e + Len(d))
<1> DEFINE r == From(q, Len(Q) + 1, e + Len(d))
           R == Append(Q, d)
<1>1. /\ Len(Q) \in Nat /\ Len(d) \in Nat /\ R \in Seq(Data) /\ Len(R) = Len(Q) + 1
      /\ R # <<>> /\ R[Len(Q) + 1] = d /\ \A i \in 1..Len(Q) : R[i] = Q[i]
  <2>1. Len(Q) \in Nat
    BY LenProperties
  <2>2. Len(d) \in Nat
    BY LenProperties DEF Data
  <2>3. /\ R \in Seq(Data) /\ Len(R) = Len(Q) + 1
        /\ R # <<>> /\ R[Len(Q) + 1] = d /\ \A i \in 1..Len(Q) : R[i] = Q[i]
    BY AppendProperties
  <2> QED BY <2>1, <2>2, <2>3
<1>2. /\ r \in Places /\ r[Len(Q) + 2] = e + Len(d)
      /\ \A i \in 1..Len(Q) + 1 : r[i] = q[i]
  <2> DEFINE k == Len(Q) + 1
             l == e + Len(d)
  <2>1. k \in Nat /\ l \in Nat /\ k + 1 = Len(Q) + 2
    BY <1>1
  <2> HIDE DEF k, l
  <2>2. /\ From(q, k, l) \in Places /\ From(q, k, l)[k + 1] = l
        /\ \A i \in 1..k : From(q, k, l)[i] = q[i]
    BY <2>1, FromPlaces
  <2>3. r = From(q, k, l)
    BY DEF k, l
  <2> HIDE DEF r
  <2> QED BY <2>1, <2>2, <2>3 DEF k, l
<1> HIDE DEF r, R
<1>3. ASSUME NEW i \in 1..Len(R)
      PROVE  r[i + 1] = r[i] + Len(R[i]) /\ r[i + 1] <= e + Len(d) /\ At(t, r[i], R[i])
  <2>1. CASE i = Len(Q) + 1
    <3>1. r[i] = e /\ R[i] = d /\ r[i + 1] = e + Len(d)
      <4>1. i + 1 = Len(Q) + 2 /\ i \in 1..Len(Q) + 1
        BY <1>1, <2>1
      <4> QED BY <1>1, <1>2, <2>1, <4>1 DEF Writer
    <3> QED BY <1>1, <3>1
  <2>2. CASE i \in 1..Len(Q)
    <3>1. q[i + 1] = q[i] + Len(Q[i]) /\ q[i + 1] <= e /\ At(s, q[i], Q[i])
      BY <2>2 DEF Writer
    <3>2. r[i] = q[i] /\ r[i + 1] = q[i + 1] /\ R[i] = Q[i]
      BY <1>1, <1>2, <2>2
    <3>3. Q[i] \in Data /\ q[i] \in Nat /\ q[i + 1] \in Nat
      <4>1. Q[i] \in Data
        BY <2>2, ElementOfSeq
      <4>2. i \in Nat /\ i + 1 \in Nat
        BY <1>1, <2>2
      <4> QED BY <4>1, <4>2 DEF Places
    <3>4. At(t, q[i], Q[i])
      BY <3>1, <3>3, AtKept
    <3> QED BY <1>1, <3>1, <3>2, <3>3, <3>4
  <2> QED BY <1>1, <2>1, <2>2
<1>4. o \in Nat /\ o <= Len(R[1])
  <2>1. CASE Q = <<>>
    <3>1. o = 0 /\ R[1] = d
      BY <1>1, <2>1 DEF Writer
    <3> QED BY <1>1, <3>1
  <2>2. CASE Q # <<>>
    <3>1. R[1] = Q[1]
      BY <1>1, <2>2, EmptySeq
    <3> QED BY <2>2, <3>1 DEF Writer
  <2> QED BY <2>1, <2>2
<1>5. r[Len(R) + 1] = e + Len(d)
  <2>1. Len(R) + 1 = Len(Q) + 2
    BY <1>1
  <2> QED BY <1>2, <2>1
<1>6. Writer(t, r, R, o, e + Len(d))
  BY <1>1, <1>3, <1>4, <1>5 DEF Writer
<1> QED BY <1>6 DEF r, R

\* What is sent later takes nothing from what was sent.
Extends(S, R) == Len(S) <= Len(R) /\ \A i \in 1..Len(S) : R[i] = S[i]

LEMMA HeaderLength == \A m \in Message : Header(m) \in Data /\ Len(Header(m)) = HEADER_SIZE
<1> SUFFICES ASSUME NEW m \in Message PROVE Header(m) \in Data /\ Len(Header(m)) = HEADER_SIZE
  OBVIOUS
<1> DEFINE c == m.channel
           n == Len(m.data)
           a == int2hex2(c)
           b == int2hex4(n)
<1>1. Header(m) = a \o b
  BY DEF Header
<1> HIDE DEF c, n
<1>2. c \in Nat /\ n \in Nat
  <2>1. m.data \in Seq(Bytes) /\ c \in 0..255
    BY Zenon, ConstantsTyped DEF c, Data
  <2>2. n \in Nat
    BY <2>1, LenProperties DEF n
  <2> QED BY <2>1, <2>2
<1>3. a \in Seq(Bytes) /\ Len(a) = 2
  BY <1>2, DigitTyped, DivTyped DEF int2hex2
<1>4. b \in Seq(Bytes) /\ Len(b) = 4
  BY <1>2, DigitTyped, DivTyped DEF int2hex4
<1> HIDE DEF a, b
<1>5. a \o b \in Seq(Bytes) /\ Len(a \o b) = Len(a) + Len(b)
  BY <1>3, <1>4, ConcatProperties
<1>6. HEADER_SIZE = 2 + 4
  BY DEF HEADER_SIZE
<1> QED BY <1>1, <1>3, <1>4, <1>5, <1>6 DEF Data

\* A frame stays a frame.
LEMMA FrameKept ==
    ASSUME NEW s, NEW t, NEW x \in Nat, Continues(s, t, x),
           NEW S \in Seq(Message), NEW R \in Seq(Message), Extends(S, R),
           NEW p \in Nat, NEW e \in Nat, e <= x, NEW k, NEW l, Frame(s, p, e, k, l, S)
    PROVE  Frame(t, p, e, k, l, R)
<1>1. CASE /\ l = k + 1 /\ l \in 1..Len(S)
           /\ At(s, p, Header(S[l])) /\ At(s, p + HEADER_SIZE, S[l].data)
           /\ e = p + HEADER_SIZE + Len(S[l].data)
  <2> DEFINE m == S[l]
             h == Header(m)
             d == m.data
  <2>1. m \in Message /\ R[l] = m /\ l \in 1..Len(R)
    <3>1. m \in Message
      BY <1>1, ElementOfSeq
    <3>2. Len(S) \in Nat /\ Len(R) \in Nat
      BY LenProperties
    <3> QED BY <1>1, <3>1, <3>2 DEF Extends
  <2>2. h \in Data /\ Len(h) = HEADER_SIZE /\ d \in Data
    BY <2>1, HeaderLength, ConstantsTyped
  <2>3. At(s, p, h) /\ At(s, p + HEADER_SIZE, d) /\ e = p + HEADER_SIZE + Len(d)
    BY <1>1
  <2> HIDE DEF m, h, d
  <2>4. Len(d) \in Nat /\ HEADER_SIZE \in Nat
    BY <2>2, LenProperties DEF Data, HEADER_SIZE
  <2>5. /\ p + Len(h) <= x /\ (p + HEADER_SIZE) + Len(d) <= x
        /\ p + HEADER_SIZE \in Nat
    BY <2>2, <2>3, <2>4
  <2>6. At(t, p, h)
    BY <2>2, <2>3, <2>5, AtKept
  <2>7. At(t, p + HEADER_SIZE, d)
    <3> DEFINE y == p + HEADER_SIZE
    <3>1. y \in Nat /\ y + Len(d) <= x /\ At(s, y, d)
      BY <2>3, <2>5
    <3> HIDE DEF y
    <3>2. At(t, y, d)
      BY <2>2, <3>1, AtKept
    <3> QED BY <3>2 DEF y
  <2> QED BY <1>1, <2>1, <2>6, <2>7 DEF Frame, m, h, d
<1>2. CASE l = k /\ \E d \in Noise : At(s, p, d) /\ e = p + Len(d)
  <2>1. PICK d \in Noise : At(s, p, d) /\ e = p + Len(d)
    BY <1>2
  <2>2. d \in Data
    BY ConstantsTyped
  <2>3. At(t, p, d)
    BY <2>1, <2>2, AtKept
  <2> QED BY <1>2, <2>1, <2>3 DEF Frame
<1> QED BY <1>1, <1>2 DEF Frame

\* One more frame.
LEMMA FramedGrows ==
    ASSUME NEW s, NEW t, NEW cut \in Places, NEW count \in Places, NEW n \in Nat,
           NEW S \in Seq(Message), Framed(s, cut, count, n, S),
           NEW R \in Seq(Message), Extends(S, R),
           Continues(s, t, cut[n + 1]), NEW e \in Nat, cut[n + 1] <= e,
           Frame(t, cut[n + 1], e, count[n + 1], Len(R), R)
    PROVE  Framed(t, From(cut, n + 1, e), From(count, n + 1, Len(R)), n + 1, R)
<1> DEFINE cut2 == From(cut, n + 1, e)
           count2 == From(count, n + 1, Len(R))
<1>1. Len(R) \in Nat /\ \A i \in Nat : cut[i] \in Nat /\ count[i] \in Nat
  BY LenProperties DEF Places
<1>3. /\ cut2[(n + 1) + 1] = e /\ count2[(n + 1) + 1] = Len(R)
      /\ \A i \in 1..n + 1 : cut2[i] = cut[i] /\ count2[i] = count[i]
  <2> DEFINE k == n + 1
             l == Len(R)
  <2>1. k \in Nat /\ l \in Nat
    BY <1>1
  <2> HIDE DEF k, l
  <2>2. From(cut, k, e)[k + 1] = e /\ \A i \in 1..k : From(cut, k, e)[i] = cut[i]
    BY ZenonT(40), <2>1, FromPlaces
  <2>3. From(count, k, l)[k + 1] = l /\ \A i \in 1..k : From(count, k, l)[i] = count[i]
    BY ZenonT(40), <2>1, FromPlaces
  <2> QED BY <2>2, <2>3 DEF k, l
<1> HIDE DEF cut2, count2
<1>4. ASSUME NEW i \in 1..n + 1
      PROVE  /\ Frame(t, cut2[i], cut2[i + 1], count2[i], count2[i + 1], R)
             /\ cut2[i + 1] <= cut2[(n + 1) + 1]
  <2>1. CASE i = n + 1
    <3>1. /\ cut2[i] = cut[n + 1] /\ count2[i] = count[n + 1]
          /\ cut2[i + 1] = e /\ count2[i + 1] = Len(R)
      BY <1>3, <2>1
    <3> QED BY <1>3, <3>1
  <2>2. CASE i \in 1..n
    <3>1. i \in Nat /\ i + 1 \in Nat /\ i + 1 \in 1..n + 1
      BY <2>2
    <3>2. /\ cut2[i] = cut[i] /\ cut2[i + 1] = cut[i + 1]
          /\ count2[i] = count[i] /\ count2[i + 1] = count[i + 1]
      BY <1>3, <3>1
    <3>3. Frame(s, cut[i], cut[i + 1], count[i], count[i + 1], S) /\ cut[i + 1] <= cut[n + 1]
      BY <2>2 DEF Framed
    <3>4. cut[i] \in Nat /\ cut[i + 1] \in Nat /\ cut[n + 1] \in Nat
      BY <1>1, <3>1
    <3>5. Frame(t, cut[i], cut[i + 1], count[i], count[i + 1], R)
      BY <3>3, <3>4, FrameKept
    <3> QED BY <1>3, <3>2, <3>3, <3>4, <3>5
  <2> QED BY <2>1, <2>2
<1>5. Framed(t, cut2, count2, n + 1, R)
  BY <1>3, <1>4 DEF Framed
<1> QED BY <1>5 DEF cut2, count2

LEMMA ReaderKept ==
    ASSUME NEW b, NEW f, NEW cut, NEW count, NEW n \in Nat, NEW len, NEW c, NEW P,
           NEW S \in Seq(Message), Reader(b, f, cut, count, n, len, c, P, S), Len(P) \in Nat,
           NEW R \in Seq(Message), Extends(S, R), NEW cut2, NEW count2,
           \A i \in 1..n + 1 : cut2[i] = cut[i] /\ count2[i] = count[i]
    PROVE  Reader(b, f, cut2, count2, n + 1, len, c, P, R)
<1>1. Len(S) \in Nat /\ Len(R) \in Nat
  BY LenProperties
<1>2. /\ f \in 1..n + 1 /\ f \in 1..(n + 1) + 1
      /\ cut2[f] = cut[f] /\ count2[f] = count[f]
  BY DEF Reader
<1>3. Len(P) = count2[f] /\ Len(P) <= Len(R) /\ \A i \in 1..Len(P) : P[i] = R[i]
  BY <1>1, <1>2 DEF Reader, Extends
<1>4. len = 0 => b = cut2[f]
  BY <1>2 DEF Reader
<1>5. ASSUME len # 0
      PROVE  /\ f <= n + 1 /\ b = cut2[f] + HEADER_SIZE /\ cut2[f + 1] = b + len
             /\ len \in 1..MAX_PAYLOAD
             /\ \/ c = -1 /\ count2[f + 1] = count2[f]
                \/ /\ count2[f + 1] = count2[f] + 1 /\ count2[f + 1] \in 1..Len(R)
                   /\ c = R[count2[f + 1]].channel
  <2>1. /\ f <= n /\ b = cut[f] + HEADER_SIZE /\ cut[f + 1] = b + len /\ len \in 1..MAX_PAYLOAD
        /\ \/ c = -1 /\ count[f + 1] = count[f]
           \/ /\ count[f + 1] = count[f] + 1 /\ count[f + 1] \in 1..Len(S)
              /\ c = S[count[f + 1]].channel
    BY <1>5 DEF Reader
  <2>2. f + 1 \in 1..n + 1 /\ f <= n + 1
    BY <1>2, <2>1
  <2>3. cut2[f + 1] = cut[f + 1] /\ count2[f + 1] = count[f + 1]
    BY <2>2
  <2>4. \A i \in 1..Len(S) : i \in 1..Len(R) /\ R[i] = S[i]
    BY <1>1 DEF Extends
  <2> QED BY <1>2, <2>1, <2>2, <2>3, <2>4
<1> QED BY <1>2, <1>3, <1>4, <1>5 DEF Reader

\* What is to come is still there when the stream has been continued.
LEMMA ComingKept ==
    ASSUME NEW s, NEW t, NEW e \in Nat, Continues(s, t, e), NEW b \in Nat, NEW U \in Data,
           NEW w \in Nat, w <= e, Coming(s, b, U, w)
    PROVE  Coming(t, b, U, w)
<1>1. Len(U) \in Nat
  BY LenProperties DEF Data
<1>2. At(s, b, U) /\ w = b + Len(U)
  BY DEF Coming
<1>3. At(t, b, U)
  BY <1>1, <1>2, AtKept
<1> QED BY <1>2, <1>3 DEF Coming

\* A frame to be ignored goes into the queue.
LEMMA PipeNoise ==
    ASSUME NEW Q \in Seq(Data), NEW o, NEW U \in Data, NEW len, NEW c, NEW P, Len(P) \in Nat,
           NEW S \in Seq(Message), PipeOf(Q, o, U, len, c, P, S), NEW d \in Noise
    PROVE  PipeOf(Append(Q, d), o, U, len, c, P, S)
<1>1. PICK s \in Streams, q \in Places, cut \in Places, count \in Places,
           n \in Nat, f \in Nat, b \in Nat :
        /\ Writer(s, q, Q, o, cut[n + 1]) /\ Framed(s, cut, count, n, S)
        /\ Coming(s, b, U, q[1] + o) /\ Reader(b, f, cut, count, n, len, c, P, S)
  BY DEF PipeOf
<1> DEFINE e == cut[n + 1]
<1>2. e \in Nat /\ count[n + 1] = Len(S) /\ Extends(S, S)
  BY <1>1, LenProperties DEF Places, Framed, Extends
<1>3. d \in Data /\ Len(d) \in Nat
  BY ConstantsTyped, LenProperties DEF Data
<1>4. PICK t \in Streams : Continues(s, t, e) /\ At(t, e, d)
  BY <1>2, <1>3, StreamContinued
<1> DEFINE r == From(q, Len(Q) + 1, e + Len(d))
           cut2 == From(cut, n + 1, e + Len(d))
           count2 == From(count, n + 1, Len(S))
<1>5. Writer(t, r, Append(Q, d), o, e + Len(d)) /\ r \in Places /\ r[1] = q[1]
  <2>1. Writer(t, r, Append(Q, d), o, e + Len(d))
    BY <1>1, <1>2, <1>3, <1>4, WriterGrows
  <2> DEFINE k == Len(Q) + 1
             g == e + Len(d)
  <2>2. k \in Nat /\ 1 \in 1..k /\ g \in Nat
    <3>1. Len(Q) \in Nat
      BY LenProperties
    <3>2. \A i \in Nat : i + 1 \in Nat /\ 1 \in 1..i + 1
      BY SMT
    <3>3. g \in Nat
      BY SMT, <1>2, <1>3
    <3> QED BY <3>1, <3>2, <3>3
  <2> HIDE DEF k, g
  <2>3. r \in Places /\ r[1] = q[1]
    BY ZenonT(40), <2>2, FromPlaces DEF k, g
  <2> QED BY <2>1, <2>3
<1> HIDE DEF r
<1>6. Coming(t, b, U, r[1] + o)
  <2>1. q[1] + o <= e /\ q[1] + o \in Nat
    BY <1>1, <1>2, WrittenSent
  <2> QED BY <1>1, <1>2, <1>4, <1>5, <2>1, ComingKept
<1>7. Frame(t, e, e + Len(d), count[n + 1], Len(S), S)
  BY <1>2, <1>4 DEF Frame
<1>8. /\ cut2 \in Places /\ count2 \in Places
      /\ Framed(t, cut2, count2, n + 1, S) /\ cut2[(n + 1) + 1] = e + Len(d)
      /\ \A i \in 1..n + 1 : cut2[i] = cut[i] /\ count2[i] = count[i]
  <2> DEFINE g == e + Len(d)
             l == Len(S)
             k == n + 1
  <2>1. g \in Nat /\ l \in Nat /\ k \in Nat
    BY <1>2, <1>3, LenProperties
  <2>2. /\ Framed(s, cut, count, n, S) /\ Continues(s, t, cut[n + 1]) /\ cut[n + 1] <= g
        /\ Frame(t, cut[n + 1], g, count[n + 1], Len(S), S)
        /\ S \in Seq(Message) /\ Extends(S, S)
    BY <1>1, <1>2, <1>3, <1>4, <1>7
  <2> HIDE DEF g, e
  <2>3. Framed(t, From(cut, n + 1, g), From(count, n + 1, Len(S)), n + 1, S)
    BY <2>1, <2>2, FramedGrows
  <2> HIDE DEF k, l
  <2>4. /\ From(cut, k, g) \in Places /\ From(cut, k, g)[k + 1] = g
        /\ \A i \in 1..k : From(cut, k, g)[i] = cut[i]
    BY ZenonT(40), <2>1, FromPlaces
  <2>5. From(count, k, l) \in Places /\ \A i \in 1..k : From(count, k, l)[i] = count[i]
    BY ZenonT(40), <2>1, FromPlaces
  <2> QED BY <2>3, <2>4, <2>5 DEF g, k, l
<1> HIDE DEF cut2, count2
<1>9. Reader(b, f, cut2, count2, n + 1, len, c, P, S)
  BY <1>1, <1>2, <1>8, ReaderKept
<1> HIDE DEF e
<1>10. /\ Writer(t, r, Append(Q, d), o, cut2[(n + 1) + 1])
       /\ Framed(t, cut2, count2, n + 1, S)
       /\ Coming(t, b, U, r[1] + o) /\ Reader(b, f, cut2, count2, n + 1, len, c, P, S)
  BY <1>5, <1>6, <1>8, <1>9
<1>11. n + 1 \in Nat /\ r \in Places /\ cut2 \in Places /\ count2 \in Places
  BY <1>5, <1>8
<1> QED BY ZenonT(30), <1>10, <1>11 DEF PipeOf

\* A packet goes into the queue: its header, and then its data.
LEMMA PipeSend ==
    ASSUME NEW Q \in Seq(Data), NEW o, NEW U \in Data, NEW len, NEW c, NEW P, Len(P) \in Nat,
           NEW S \in Seq(Message), PipeOf(Q, o, U, len, c, P, S), NEW m \in Message
    PROVE  PipeOf(Append(Append(Q, Header(m)), m.data), o, U, len, c, P, Append(S, m))
<1> DEFINE h == Header(m)
           d == m.data
           R == Append(S, m)
<1>1. PICK s \in Streams, q \in Places, cut \in Places, count \in Places,
           n \in Nat, f \in Nat, b \in Nat :
        /\ Writer(s, q, Q, o, cut[n + 1]) /\ Framed(s, cut, count, n, S)
        /\ Coming(s, b, U, q[1] + o) /\ Reader(b, f, cut, count, n, len, c, P, S)
  BY DEF PipeOf
<1> DEFINE e == cut[n + 1]
           e2 == e + HEADER_SIZE
           e3 == e2 + Len(d)
<1>2. h \in Data /\ Len(h) = HEADER_SIZE /\ d \in Data /\ Len(d) \in Nat /\ HEADER_SIZE \in Nat
  <2>1. h \in Data /\ Len(h) = HEADER_SIZE /\ d \in Data
    BY HeaderLength, ConstantsTyped
  <2> HIDE DEF d, h
  <2>2. Len(d) \in Nat
    BY <2>1, LenProperties DEF Data
  <2> QED BY <2>1, <2>2 DEF HEADER_SIZE
<1>3. /\ R \in Seq(Message) /\ Len(R) = Len(S) + 1 /\ R[Len(R)] = m /\ Len(S) \in Nat
      /\ \A i \in 1..Len(S) : R[i] = S[i]
  BY AppendProperties, LenProperties
<1>4. e \in Nat /\ e2 \in Nat /\ e3 \in Nat /\ count[n + 1] = Len(S) /\ Extends(S, R)
  <2>1. e \in Nat /\ count[n + 1] = Len(S)
    BY <1>1 DEF Places, Framed
  <2>2. Extends(S, R)
    BY <1>3 DEF Extends
  <2> HIDE DEF e, d
  <2> QED BY <1>2, <2>1, <2>2
<1> HIDE DEF h, d, R
<1>5. PICK s2 \in Streams : Continues(s, s2, e) /\ At(s2, e, h)
  BY <1>2, <1>4, StreamContinued
<1>6. PICK t \in Streams : Continues(s2, t, e2) /\ At(t, e2, d)
  BY <1>2, <1>4, StreamContinued
<1>7. Continues(s, t, e) /\ At(t, e, h)
  <2>1. e <= e2 /\ e + Len(h) <= e2
    BY <1>2, <1>4
  <2>2. At(t, e, h)
    <3> HIDE DEF e, e2
    <3> QED BY <1>2, <1>4, <1>5, <1>6, <2>1, AtKept
  <2>3. \A j \in 1..e : j \in 1..e2
    BY <1>4, <2>1
  <2> QED BY <1>5, <1>6, <2>2, <2>3 DEF Continues
<1> DEFINE Q2 == Append(Q, h)
           q2 == From(q, Len(Q) + 1, e2)
           r == From(q2, Len(Q2) + 1, e3)
<1>8. /\ Writer(s2, q2, Q2, o, e2) /\ q2 \in Places /\ q2[1] = q[1]
      /\ Q2 \in Seq(Data) /\ Len(Q2) \in Nat
  <2>1. Writer(s, q, Q, o, e)
    BY <1>1
  <2>2. Q2 \in Seq(Data)
    <3> HIDE DEF Data
    <3> QED BY <1>2, AppendProperties
  <2>3. Len(Q) \in Nat /\ Len(Q2) \in Nat
    BY <2>2, LenProperties
  <2>4. From(q, Len(Q) + 1, e2) \in Places /\ From(q, Len(Q) + 1, e2)[1] = q[1]
    <3> DEFINE k == Len(Q) + 1
    <3>1. k \in Nat /\ 1 \in 1..k /\ e2 \in Nat
      BY <1>4, <2>3
    <3> HIDE DEF k, e2
    <3>2. From(q, k, e2) \in Places /\ \A i \in 1..k : From(q, k, e2)[i] = q[i]
      BY ZenonT(40), <3>1, FromPlaces
    <3> QED BY <3>1, <3>2 DEF k
  <2> HIDE DEF e
  <2>5. Writer(s2, From(q, Len(Q) + 1, e + Len(h)), Append(Q, h), o, e + Len(h))
    BY <1>2, <1>4, <1>5, <2>1, WriterGrows
  <2> QED BY <1>2, <2>2, <2>3, <2>4, <2>5
<1> HIDE DEF Q2, q2
<1>9. Writer(t, r, Append(Q2, d), o, e3) /\ r \in Places /\ r[1] = q[1]
  <2>1. r \in Places /\ r[1] = q2[1]
    <3> DEFINE k == Len(Q2) + 1
    <3>1. k \in Nat /\ 1 \in 1..k
      BY <1>8
    <3> HIDE DEF k, e3
    <3>2. q2 \in Places /\ e3 \in Nat
      BY <1>4, <1>8
    <3>3. From(q2, k, e3) \in Places /\ \A i \in 1..k : From(q2, k, e3)[i] = q2[i]
      BY ZenonT(40), <3>1, <3>2, FromPlaces
    <3> QED BY <3>1, <3>3 DEF k
  <2> HIDE DEF e2
  <2>2. Writer(t, From(q2, Len(Q2) + 1, e2 + Len(d)), Append(Q2, d), o, e2 + Len(d))
    BY <1>2, <1>4, <1>6, <1>8, WriterGrows
  <2> QED BY <1>8, <2>1, <2>2
<1> HIDE DEF r
<1>10. Coming(t, b, U, r[1] + o)
  <2> DEFINE w == q[1] + o
  <2>1. w <= e /\ w \in Nat
    BY SMTT(30), <1>1, <1>4, WrittenSent
  <2>2. r[1] + o = w
    BY <1>9
  <2>3. Coming(s, b, U, w) /\ Continues(s, t, e) /\ e \in Nat
    BY <1>1, <1>4, <1>7
  <2> HIDE DEF w, e
  <2>4. Coming(t, b, U, w)
    BY <2>1, <2>3, ComingKept
  <2> QED BY <2>2, <2>4
<1>11. Frame(t, e, e3, count[n + 1], Len(R), R)
  <2>1. Len(R) = count[n + 1] + 1 /\ Len(R) \in 1..Len(R)
    BY <1>3, <1>4
  <2>2. At(t, e, Header(R[Len(R)])) /\ At(t, e + HEADER_SIZE, R[Len(R)].data)
    BY <1>3, <1>6, <1>7 DEF h, d
  <2>3. e3 = e + HEADER_SIZE + Len(R[Len(R)].data)
    BY <1>3 DEF d
  <2> QED BY <2>1, <2>2, <2>3 DEF Frame
<1> DEFINE cut2 == From(cut, n + 1, e3)
           count2 == From(count, n + 1, Len(R))
<1>12. /\ cut2 \in Places /\ count2 \in Places
      /\ Framed(t, cut2, count2, n + 1, R) /\ cut2[(n + 1) + 1] = e3
      /\ \A i \in 1..n + 1 : cut2[i] = cut[i] /\ count2[i] = count[i]
  <2> DEFINE g == e3
             l == Len(R)
             k == n + 1
  <2>1. g \in Nat /\ l \in Nat /\ k \in Nat
    BY <1>3, <1>4
  <2>2. /\ Framed(s, cut, count, n, S) /\ Continues(s, t, cut[n + 1]) /\ cut[n + 1] <= g
        /\ Frame(t, cut[n + 1], g, count[n + 1], Len(R), R)
        /\ R \in Seq(Message) /\ Extends(S, R)
    <3>1. e <= g
      <4> DEFINE h2 == Len(d)
      <4>1. h2 \in Nat /\ HEADER_SIZE \in Nat /\ e \in Nat
        BY <1>2, <1>4
      <4> HIDE DEF e, h2
      <4> QED BY SMT, <4>1 DEF h2
    <3>2. /\ Framed(s, cut, count, n, S) /\ Continues(s, t, e)
          /\ Frame(t, e, g, count[n + 1], Len(R), R) /\ R \in Seq(Message) /\ Extends(S, R)
      BY <1>1, <1>2, <1>3, <1>4, <1>7, <1>11
    <3> QED BY <3>1, <3>2
  <2> HIDE DEF g, e, e3
  <2>3. Framed(t, From(cut, n + 1, g), From(count, n + 1, Len(R)), n + 1, R)
    BY <2>1, <2>2, FramedGrows
  <2> HIDE DEF k, l
  <2>4. /\ From(cut, k, g) \in Places /\ From(cut, k, g)[k + 1] = g
        /\ \A i \in 1..k : From(cut, k, g)[i] = cut[i]
    BY ZenonT(40), <2>1, FromPlaces
  <2>5. From(count, k, l) \in Places /\ \A i \in 1..k : From(count, k, l)[i] = count[i]
    BY ZenonT(40), <2>1, FromPlaces
  <2> QED BY <2>3, <2>4, <2>5 DEF g, k, l
<1> HIDE DEF cut2, count2
<1>13. Reader(b, f, cut2, count2, n + 1, len, c, P, R)
  BY <1>1, <1>3, <1>4, <1>12, ReaderKept
<1> HIDE DEF e, e2, e3
<1>14. /\ Writer(t, r, Append(Q2, d), o, cut2[(n + 1) + 1])
       /\ Framed(t, cut2, count2, n + 1, R)
       /\ Coming(t, b, U, r[1] + o) /\ Reader(b, f, cut2, count2, n + 1, len, c, P, R)
  BY <1>9, <1>10, <1>12, <1>13
<1>15. n + 1 \in Nat /\ r \in Places /\ cut2 \in Places /\ count2 \in Places
  BY <1>9, <1>12
<1>16. PipeOf(Append(Q2, d), o, U, len, c, P, R)
  BY ZenonT(30), <1>14, <1>15 DEF PipeOf
<1> QED BY <1>16 DEF Q2, h, d, R

\* Bytes of the first packet are written, perhaps the last ones of it.
LEMMA PipeWrite ==
    ASSUME NEW Q \in Seq(Data), Q # <<>>, NEW o, NEW U \in Data, NEW len, NEW c, NEW P,
           NEW S \in Seq(Message), PipeOf(Q, o, U, len, c, P, S),
           NEW k \in Nat, o <= k, k <= Len(Q[1])
    PROVE  LET V == U \o SubSeq(Q[1], o + 1, k)
           IN  /\ PipeOf(Q, k, V, len, c, P, S)
               /\ k = Len(Q[1]) => PipeOf(Tail(Q), 0, V, len, c, P, S)
<1> DEFINE a == Q[1]
           p == SubSeq(a, o + 1, k)
           V == U \o p
<1>1. PICK s \in Streams, q \in Places, cut \in Places, count \in Places,
           n \in Nat, f \in Nat, b \in Nat :
        /\ Writer(s, q, Q, o, cut[n + 1]) /\ Framed(s, cut, count, n, S)
        /\ Coming(s, b, U, q[1] + o) /\ Reader(b, f, cut, count, n, len, c, P, S)
  BY DEF PipeOf
<1>2. Len(Q) \in Nat /\ 1 \in 1..Len(Q) /\ a \in Data
  <2>1. Len(Q) \in Nat /\ 1 \in 1..Len(Q)
    <3> HIDE DEF Data
    <3>1. Len(Q) \in Nat \ {0}
      BY EmptySeq
    <3> QED BY <3>1
  <2> QED BY <2>1, ElementOfSeq
<1> HIDE DEF a
<1>3. /\ o \in Nat /\ Len(a) \in Nat /\ Len(U) \in Nat /\ q[1] \in Nat /\ q[2] \in Nat
      /\ k <= Len(a) /\ cut[n + 1] \in Nat
  <2>1. o \in Nat
    BY <1>1 DEF Writer
  <2>2. Len(a) \in Nat /\ Len(U) \in Nat
    BY <1>2, LenProperties DEF Data
  <2>3. q[1] \in Nat /\ q[2] \in Nat /\ cut[n + 1] \in Nat
    BY PlaceTyped
  <2>4. k <= Len(a)
    BY DEF a
  <2> QED BY <2>1, <2>2, <2>3, <2>4
<1>4. p \in Data /\ Len(p) = k - o /\ \A i \in 1..Len(p) : p[i] = a[o + i]
  <2>1. /\ p \in Data /\ Len(p) = (IF o < k THEN k - o ELSE 0)
        /\ \A i \in 1..Len(p) : p[i] = a[o + i]
    BY <1>2, <1>3, PartTyped
  <2> QED BY <1>3, <2>1
<1> HIDE DEF p
<1>5. At(s, q[1], a) /\ q[2] = q[1] + Len(a)
  <2>1. q[1 + 1] = q[1] + Len(Q[1]) /\ At(s, q[1], Q[1])
    BY <1>1, <1>2 DEF Writer
  <2> QED BY <2>1 DEF a
<1>6. At(s, q[1] + o, p)
  <2> SUFFICES ASSUME NEW j \in 1..Len(p) PROVE s[(q[1] + o) + j] = p[j]
    BY DEF At
  <2> DEFINE i == o + j
             w == q[1]
  <2>1. i \in 1..Len(a) /\ (w + o) + j = w + i /\ p[j] = a[i]
    <3> DEFINE m == Len(p)
               l == Len(a)
    <3>1. /\ j \in 1..m /\ m = k - o /\ o \in Nat /\ l \in Nat /\ k \in Nat /\ k <= l
          /\ w \in Nat /\ p[j] = a[o + j]
      BY <1>3, <1>4
    <3> HIDE DEF m, l, w
    <3>2. o + j \in 1..l /\ (w + o) + j = w + (o + j)
      BY SMTT(20), <3>1
    <3> QED BY <3>1, <3>2 DEF l, w
  <2>2. At(s, w, a)
    BY <1>5
  <2> HIDE DEF i, w
  <2>3. s[w + i] = a[i]
    BY <2>1, <2>2 DEF At
  <2> QED BY <2>1, <2>3 DEF w
<1>7. V \in Data /\ Len(V) = Len(U) + Len(p)
  BY ZenonT(40), <1>4, ConcatProperties DEF Data
<1>8. At(s, b, U) /\ q[1] + o = b + Len(U)
  BY <1>1 DEF Coming
<1>9. At(s, b, V) /\ q[1] + k = b + Len(V)
  <2>1. At(s, b, V)
    BY <1>4, <1>6, <1>8, AtConcat
  <2>2. q[1] + k = b + Len(V)
    <3> DEFINE x == q[1]
               l == Len(U)
               j == Len(p)
    <3>1. /\ x \in Nat /\ o \in Nat /\ l \in Nat /\ Len(V) = l + j
          /\ j = k - o /\ x + o = b + l
      BY <1>3, <1>4, <1>7, <1>8
    <3> HIDE DEF x, l, j, V
    <3>2. x + k = b + (l + j)
      BY <3>1
    <3> QED BY <3>1, <3>2 DEF x
  <2> QED BY <2>1, <2>2
<1> HIDE DEF V
<1>10. PipeOf(Q, k, V, len, c, P, S)
  <2>1. Writer(s, q, Q, k, cut[n + 1])
    BY <1>1 DEF Writer
  <2>2. Coming(s, b, V, q[1] + k)
    BY <1>9 DEF Coming
  <2> QED BY ZenonT(30), <1>1, <2>1, <2>2 DEF PipeOf
<1>11. ASSUME k = Len(Q[1]) PROVE PipeOf(Tail(Q), 0, V, len, c, P, S)
  <2> DEFINE r == [i \in Nat |-> q[i + 1]]
             T == Tail(Q)
  <2>1. /\ T \in Seq(Data) /\ Len(T) = Len(Q) - 1 /\ \A i \in 1..Len(T) : T[i] = Q[i + 1]
    <3> HIDE DEF Data
    <3> QED BY HeadTailProperties
  <2>2. r \in Places /\ r[1] = q[2] /\ \A i \in Nat : r[i] = q[i + 1]
    <3>1. \A i \in Nat : q[i + 1] \in Nat
      BY PlaceTyped
    <3>2. r \in Places /\ \A i \in Nat : r[i] = q[i + 1]
      BY <3>1 DEF Places
    <3> HIDE DEF r
    <3> QED BY <3>2
  <2> HIDE DEF r, T
  <2>3. ASSUME NEW i \in 1..Len(T)
        PROVE  r[i + 1] = r[i] + Len(T[i]) /\ r[i + 1] <= cut[n + 1] /\ At(s, r[i], T[i])
    <3>1. i \in Nat /\ i + 1 \in Nat /\ i + 1 \in 1..Len(Q)
      BY <1>2, <2>1
    <3>2. r[i] = q[i + 1] /\ r[i + 1] = q[(i + 1) + 1] /\ T[i] = Q[i + 1]
      BY <2>1, <2>2, <3>1
    <3>3. /\ q[(i + 1) + 1] = q[i + 1] + Len(Q[i + 1]) /\ q[(i + 1) + 1] <= cut[n + 1]
          /\ At(s, q[i + 1], Q[i + 1])
      BY <1>1, <3>1 DEF Writer
    <3> QED BY <3>2, <3>3
  <2>4. r[Len(T) + 1] = cut[n + 1]
    <3>1. Len(T) + 1 = Len(Q) /\ Len(Q) \in Nat
      BY <1>2, <2>1
    <3>2. q[Len(Q) + 1] = cut[n + 1]
      BY <1>1 DEF Writer
    <3>3. r[Len(Q)] = q[Len(Q) + 1]
      BY <2>2, <3>1
    <3> QED BY <3>1, <3>2, <3>3
  <2>5. IF T = <<>> THEN 0 = 0 ELSE 0 <= Len(T[1])
    <3>1. CASE T # <<>>
      <4>1. 1 \in 1..Len(T)
        <5> HIDE DEF Data
        <5>1. Len(T) \in Nat \ {0}
          BY <2>1, <3>1, EmptySeq
        <5> QED BY <5>1
      <4>2. T[1] \in Data
        BY <2>1, <4>1, ElementOfSeq
      <4>3. Len(T[1]) \in Nat
        BY <4>2, LenProperties DEF Data
      <4> QED BY <3>1, <4>3
    <3> QED BY <3>1
  <2>6. Writer(s, r, T, 0, cut[n + 1])
    BY <2>3, <2>4, <2>5 DEF Writer
  <2>7. Coming(s, b, V, r[1] + 0)
    <3>1. r[1] + 0 = q[1] + k
      BY <1>3, <1>5, <1>11, <2>2 DEF a
    <3> QED BY <1>9, <3>1 DEF Coming
  <2>8. PipeOf(T, 0, V, len, c, P, S)
    BY ZenonT(30), <1>1, <2>2, <2>6, <2>7 DEF PipeOf
  <2> QED BY <2>8 DEF T
<1> QED BY <1>10, <1>11 DEF V, p, a

\* The digits of a number.
LEMMA FirstDigits ==
    ASSUME NEW v \in Nat
    PROVE  v \div 256 = (v \div 16) \div 16 /\ v \div 4096 = (v \div 256) \div 16
BY SMT

LEMMA FirstDigit2 == \A v \in 0..255 : v \div 16 \in 0..15
BY SMT

LEMMA FirstDigit4 == \A v \in Nat : v <= MaxDatalen => v \div 4096 \in 0..15
BY SMTT(30) DEF MaxDatalen

LEMMA OneDigit == \A v \in 0..15 : v % 16 = v
BY SMT

LEMMA DigitsHex ==
    ASSUME NEW s, \A i \in 1..Len(s) : s[i] \in 0..15
    PROVE  AreHex(s)
BY DEF AreHex, NotHex

\* hex2int takes from a number what int2hex has made of it.
LEMMA HexInverse2 ==
    ASSUME NEW v \in 0..255
    PROVE  hex2int2(int2hex2(v)) = v
<1> DEFINE p == v \div 16
           z == v - 16 * p
           s == int2hex2(v)
<1>1. v \in Nat /\ p = v \div 16
  OBVIOUS
<1>2. p \in 0..15
  BY FirstDigit2
<1>3. s = <<p % 16, v % 16>>
  BY DEF int2hex2
<1> HIDE DEF p, s
<1>4. v % 16 = v - 16 * p /\ v - 16 * p \in 0..15
  BY SMT, <1>1
<1>5. p % 16 = p
  BY <1>2, OneDigit
<1>6. Len(s) = 2 /\ s[1] = p /\ s[2] = z /\ z \in 0..15
  BY <1>3, <1>4, <1>5
<1>7. 16 * p + z = v
  BY <1>1, <1>2
<1> HIDE DEF z
<1>8. \A i \in 1..Len(s) : s[i] \in 0..15
  BY <1>2, <1>6
<1>9. hex2int2(s) = 16 * s[1] + s[2]
  BY <1>8, DigitsHex DEF hex2int2
<1> QED BY <1>6, <1>7, <1>9 DEF s

LEMMA HexInverse4 ==
    ASSUME NEW v \in Nat, v <= MaxDatalen
    PROVE  hex2int4(int2hex4(v)) = v
<1> DEFINE p == v \div 16
           q == v \div 256
           r == v \div 4096
           s == int2hex4(v)
<1>2. q = p \div 16
  BY SMT, FirstDigits
<1>3. r = q \div 16
  BY SMT, FirstDigits
<1>4. r \in 0..15
  BY FirstDigit4
<1>5. p = v \div 16
  OBVIOUS
<1>6. s = <<r % 16, q % 16, p % 16, v % 16>>
  BY DEF int2hex4
<1> HIDE DEF p, q, r, s
<1>7. v % 16 = v - 16 * p /\ p \in Nat /\ v - 16 * p \in 0..15
  BY SMT, <1>5
<1>8. p \in Nat
  BY <1>7
<1>9. p % 16 = p - 16 * q /\ q \in Nat /\ p - 16 * q \in 0..15
  BY SMT, <1>2, <1>8
<1>10. q \in Nat
  BY <1>9
<1>11. q % 16 = q - 16 * r /\ q - 16 * r \in 0..15
  BY SMT, <1>3, <1>10
<1>12. r % 16 = r
  BY <1>4, OneDigit
<1> DEFINE x == q - 16 * r
           y == p - 16 * q
           z == v - 16 * p
<1>13. /\ Len(s) = 4 /\ s[1] = r /\ s[2] = x /\ s[3] = y /\ s[4] = z
       /\ x \in 0..15 /\ y \in 0..15 /\ z \in 0..15
  BY <1>6, <1>7, <1>9, <1>11, <1>12
<1>14. 4096 * r + 256 * x + 16 * y + z = v
  BY SMT, <1>4, <1>8, <1>10
<1> HIDE DEF x, y, z
<1>15. \A i \in 1..Len(s) : s[i] \in 0..15
  BY <1>4, <1>13
<1>16. AreHex(s)
  BY <1>15, DigitsHex
<1>17. hex2int4(s) = 4096 * s[1] + 256 * s[2] + 16 * s[3] + s[4]
  BY <1>16 DEF hex2int4
<1> QED BY <1>13, <1>14, <1>17 DEF s

\* Equal bytes are equal parts.
LEMMA PartsEqual ==
    ASSUME NEW b \in Data, NEW d \in Data, NEW m \in Nat, NEW n \in Nat,
           n <= Len(b), n <= Len(d), \A i \in 1..n : b[i] = d[i]
    PROVE  SubSeq(b, m + 1, n) = SubSeq(d, m + 1, n)
<1> DEFINE x == SubSeq(b, m + 1, n)
           y == SubSeq(d, m + 1, n)
<1>1. /\ x \in Data /\ Len(x) = (IF m < n THEN n - m ELSE 0)
      /\ \A i \in 1..Len(x) : x[i] = b[m + i]
  BY PartTyped
<1>2. /\ y \in Data /\ Len(y) = (IF m < n THEN n - m ELSE 0)
      /\ \A i \in 1..Len(y) : y[i] = d[m + i]
  BY PartTyped
<1> HIDE DEF x, y
<1>3. ASSUME NEW i \in 1..Len(x) PROVE x[i] = y[i]
  <2>1. m + i \in 1..n
    BY <1>1
  <2> QED BY <1>1, <1>2, <2>1
<1>4. x = y
  BY <1>1, <1>2, <1>3, SeqEqual DEF Data
<1> QED BY <1>4 DEF x, y

\* The two parts of a concatenation.
LEMMA ConcatParts ==
    ASSUME NEW b \in Data, NEW d \in Data, NEW m \in Nat, NEW n \in Nat,
           Len(b) = m, Len(b) + Len(d) = n
    PROVE  SubSeq(b \o d, 1, m) = b /\ SubSeq(b \o d, m + 1, n) = d
<1> DEFINE u == b \o d
           x == SubSeq(u, 0 + 1, m)
           y == SubSeq(u, m + 1, n)
<1>1. /\ u \in Data /\ Len(u) = Len(b) + Len(d) /\ Len(b) \in Nat /\ Len(d) \in Nat
      /\ \A j \in 1..Len(b) + Len(d) : u[j] = IF j <= Len(b) THEN b[j] ELSE d[j - Len(b)]
  BY ConcatProperties, LenProperties DEF Data
<1> HIDE DEF u
<1>2. /\ x \in Data /\ Len(x) = (IF 0 < m THEN m - 0 ELSE 0)
      /\ \A i \in 1..Len(x) : x[i] = u[0 + i]
  BY <1>1, PartTyped
<1>3. /\ y \in Data /\ Len(y) = (IF m < n THEN n - m ELSE 0)
      /\ \A i \in 1..Len(y) : y[i] = u[m + i]
  BY <1>1, PartTyped
<1> HIDE DEF x, y
<1>4. x = b
  <2>1. Len(x) = Len(b)
    BY <1>2
  <2>2. ASSUME NEW i \in 1..Len(x) PROVE x[i] = b[i]
    <3>1. 0 + i = i /\ i \in 1..Len(b) + Len(d) /\ i <= Len(b)
      BY <1>1, <2>1
    <3> QED BY <1>1, <1>2, <3>1
  <2> QED BY <1>2, <2>1, <2>2, SeqEqual DEF Data
<1>5. y = d
  <2>1. Len(y) = Len(d)
    BY <1>1, <1>3
  <2>2. ASSUME NEW i \in 1..Len(y) PROVE y[i] = d[i]
    <3>1. m + i \in 1..Len(b) + Len(d) /\ ~(m + i <= Len(b)) /\ (m + i) - Len(b) = i
      BY <1>1, <2>1
    <3> QED BY <1>1, <1>3, <3>1
  <2> QED BY <1>3, <2>1, <2>2, SeqEqual DEF Data
<1> QED BY <1>4, <1>5 DEF x, y, u

\* What a header says: the length of what follows, and its channel.
LengthIn(h)  == Datalen(hex2int4(SubSeq(h, CHANNEL_SIZE + 1, HEADER_SIZE)))
ChannelIn(h) == hex2int2(SubSeq(h, 1, CHANNEL_SIZE))

LEMMA MessageHeader ==
    ASSUME NEW m \in Message
    PROVE  /\ LengthIn(Header(m)) = Len(m.data) /\ Len(m.data) \in 1..MAX_PAYLOAD
           /\ ChannelIn(Header(m)) = m.channel
<1> DEFINE c == m.channel
           n == Len(m.data)
           a == int2hex2(c)
           b == int2hex4(n)
<1>1. n \in 1..MAX_PAYLOAD
  <2>1. m.data \in Payloads
    BY DEF Message
  <2> QED BY <2>1, SerialAssumption
<1>2. MAX_PAYLOAD \in Nat /\ MAX_PAYLOAD < 65536
  BY SerialAssumption
<1>3. c \in 0..255 /\ Header(m) = a \o b
  BY ConstantsTyped DEF Header
<1> HIDE DEF c, n
<1>4. n \in Nat /\ n <= MaxDatalen /\ 0 < n
  BY SMT, <1>1, <1>2 DEF MaxDatalen
<1>5. hex2int2(a) = c /\ hex2int4(b) = n
  <2>1. hex2int2(int2hex2(c)) = c
    BY Zenon, <1>3, HexInverse2
  <2>2. hex2int4(int2hex4(n)) = n
    BY Zenon, <1>4, HexInverse4
  <2> QED BY <2>1, <2>2
<1>6. a \in Data /\ Len(a) = 2
  <2>1. c \in Nat
    BY SMT, <1>3
  <2>2. c \div 16 \in Nat
    BY SMT, <2>1, DivTyped
  <2>3. (c \div 16) % 16 \in Bytes /\ c % 16 \in Bytes
    BY Zenon, <2>1, <2>2, DigitTyped
  <2> QED BY <2>3 DEF int2hex2, Data
<1>7. b \in Data /\ Len(b) = 4
  <2>1. n \div 4096 \in Nat /\ n \div 256 \in Nat /\ n \div 16 \in Nat
    BY SMT, <1>4, DivTyped
  <2>2. /\ (n \div 4096) % 16 \in Bytes /\ (n \div 256) % 16 \in Bytes
        /\ (n \div 16) % 16 \in Bytes /\ n % 16 \in Bytes
    BY SMT, <1>4, <2>1, DigitTyped
  <2> QED BY <2>2 DEF int2hex4, Data
<1> HIDE DEF a, b
<1>8. SubSeq(a \o b, 1, 2) = a /\ SubSeq(a \o b, 2 + 1, 6) = b
  <2> DEFINE j == 2
             k == 6
  <2>1. j \in Nat /\ k \in Nat /\ Len(a) = j /\ Len(a) + Len(b) = k
    BY <1>6, <1>7
  <2> HIDE DEF j, k
  <2>2. a \in Data /\ b \in Data
    BY <1>6, <1>7
  <2>3. SubSeq(a \o b, 1, j) = a /\ SubSeq(a \o b, j + 1, k) = b
    BY <2>1, <2>2, ConcatParts
  <2> QED BY <2>3 DEF j, k
<1>9. ChannelIn(a \o b) = hex2int2(a) /\ LengthIn(a \o b) = Datalen(hex2int4(b))
  BY <1>8 DEF ChannelIn, LengthIn, CHANNEL_SIZE, HEADER_SIZE
<1>10. Datalen(n) = n
  BY SMT, <1>4 DEF Datalen
<1> QED BY <1>1, <1>3, <1>5, <1>9, <1>10 DEF c, n

\* Of a frame to be ignored the header says that nothing follows, or what is on no channel.
LEMMA NoiseHeader ==
    ASSUME NEW d \in Noise, NEW h \in Data, Len(h) = HEADER_SIZE, NEW s, NEW p,
           At(s, p, h), At(s, p, d)
    PROVE  \/ LengthIn(h) = 0 /\ Len(d) = HEADER_SIZE
           \/ /\ LengthIn(h) \in 1..MAX_PAYLOAD /\ Len(d) = HEADER_SIZE + LengthIn(h)
              /\ ChannelIn(h) = -1
<1> DEFINE x == SubSeq(d, CHANNEL_SIZE + 1, HEADER_SIZE)
           y == SubSeq(d, 0 + 1, CHANNEL_SIZE)
           n == hex2int4(x)
<1>1. d \in Data /\ Ignored(d) /\ HEADER_SIZE = 6 /\ CHANNEL_SIZE = 2
  BY ConstantsTyped, NoiseAssumption DEF HEADER_SIZE, CHANNEL_SIZE
<1>2. Len(d) \in 1..MAX_PAYLOAD /\ MAX_PAYLOAD \in Nat
  BY SerialAssumption
<1>3. HEADER_SIZE <= Len(d)
  BY <1>1 DEF Ignored
<1>4. ASSUME NEW i \in 1..HEADER_SIZE PROVE h[i] = d[i]
  <2>1. i \in 1..Len(h) /\ i \in 1..Len(d)
    BY <1>1, <1>2, <1>3
  <2> QED BY <2>1 DEF At
<1>5. SubSeq(h, CHANNEL_SIZE + 1, HEADER_SIZE) = x
  <2>1. CHANNEL_SIZE \in Nat /\ HEADER_SIZE \in Nat /\ HEADER_SIZE <= Len(h)
    BY <1>1
  <2> HIDE DEF Data
  <2> QED BY <1>1, <1>3, <1>4, <2>1, PartsEqual
<1>6. SubSeq(h, 0 + 1, CHANNEL_SIZE) = y
  <2>1. 0 \in Nat /\ CHANNEL_SIZE \in Nat /\ CHANNEL_SIZE <= Len(h) /\ CHANNEL_SIZE <= Len(d)
    BY <1>1, <1>2, <1>3
  <2>2. \A i \in 1..CHANNEL_SIZE : h[i] = d[i]
    BY <1>1, <1>4
  <2> HIDE DEF Data
  <2> QED BY <1>1, <2>1, <2>2, PartsEqual
<1>7. 0 + 1 = 1
  OBVIOUS
<1>8. LengthIn(h) = Datalen(n) /\ ChannelIn(h) = hex2int2(y)
  BY <1>5, <1>6, <1>7 DEF LengthIn, ChannelIn
<1>9. \/ n <= 0 /\ Len(d) = HEADER_SIZE
      \/ n > 0 /\ Len(d) = HEADER_SIZE + n /\ hex2int2(y) = -1
  <2>1. \/ n <= 0 /\ Len(d) = HEADER_SIZE
        \/ n > 0 /\ Len(d) = HEADER_SIZE + n /\ ~AreHex(y)
    BY <1>1, <1>7 DEF Ignored
  <2>2. ~AreHex(y) => hex2int2(y) = -1
    BY DEF hex2int2
  <2> HIDE DEF n, y
  <2> QED BY <2>1, <2>2
<1>10. n \in Int
  <2>1. x \in Data /\ Len(x) = 4
    <3>1. CHANNEL_SIZE \in Nat /\ HEADER_SIZE \in Nat /\ CHANNEL_SIZE < HEADER_SIZE
          /\ HEADER_SIZE - CHANNEL_SIZE = 4
      BY <1>1
    <3> QED BY <1>1, <1>3, <3>1, PartTyped
  <2> HIDE DEF x
  <2> QED BY <2>1, HexTyped
<1> HIDE DEF n, y
<1>11. CASE n <= 0 /\ Len(d) = HEADER_SIZE
  BY <1>8, <1>11 DEF Datalen
<1>12. CASE n > 0 /\ Len(d) = HEADER_SIZE + n /\ hex2int2(y) = -1
  <2>1. Datalen(n) = n
    BY <1>10, <1>12 DEF Datalen
  <2>2. n \in 1..MAX_PAYLOAD
    BY <1>1, <1>2, <1>10, <1>12
  <2> QED BY <1>8, <1>12, <2>1, <2>2
<1> QED BY <1>9, <1>11, <1>12

\* The header of a frame says where the frame ends, and whether it is a packet.
LEMMA HeaderSays ==
    ASSUME NEW s, NEW p \in Nat, NEW e, NEW k, NEW l, NEW S \in Seq(Message),
           Frame(s, p, e, k, l, S), NEW h \in Data, Len(h) = HEADER_SIZE, At(s, p, h)
    PROVE  \/ LengthIn(h) = 0 /\ e = p + HEADER_SIZE /\ l = k
           \/ /\ LengthIn(h) \in 1..MAX_PAYLOAD /\ e = (p + HEADER_SIZE) + LengthIn(h)
              /\ \/ ChannelIn(h) = -1 /\ l = k
                 \/ l = k + 1 /\ l \in 1..Len(S) /\ ChannelIn(h) = S[l].channel
<1>1. CASE /\ l = k + 1 /\ l \in 1..Len(S)
           /\ At(s, p, Header(S[l])) /\ At(s, p + HEADER_SIZE, S[l].data)
           /\ e = p + HEADER_SIZE + Len(S[l].data)
  <2> DEFINE m == S[l]
             g == Header(m)
             n == Len(m.data)
  <2>1. m \in Message
    BY <1>1, ElementOfSeq
  <2>2. g \in Data /\ Len(g) = HEADER_SIZE /\ At(s, p, g)
    BY <1>1, <2>1, HeaderLength
  <2> HIDE DEF m
  <2>3. h = g
    <3> HIDE DEF g
    <3> QED BY <2>2, AtUnique
  <2>4. LengthIn(g) = n /\ n \in 1..MAX_PAYLOAD /\ ChannelIn(g) = m.channel
    BY <2>1, MessageHeader
  <2>5. e = (p + HEADER_SIZE) + n
    BY <1>1 DEF m
  <2> QED BY <1>1, <2>3, <2>4, <2>5 DEF m
<1>2. CASE l = k /\ \E d \in Noise : At(s, p, d) /\ e = p + Len(d)
  <2>1. PICK d \in Noise : At(s, p, d) /\ e = p + Len(d)
    BY <1>2
  <2>2. \/ LengthIn(h) = 0 /\ Len(d) = HEADER_SIZE
        \/ /\ LengthIn(h) \in 1..MAX_PAYLOAD /\ Len(d) = HEADER_SIZE + LengthIn(h)
           /\ ChannelIn(h) = -1
    BY <2>1, NoiseHeader
  <2>3. CASE LengthIn(h) = 0 /\ Len(d) = HEADER_SIZE
    BY <1>2, <2>1, <2>3
  <2>4. CASE /\ LengthIn(h) \in 1..MAX_PAYLOAD /\ Len(d) = HEADER_SIZE + LengthIn(h)
             /\ ChannelIn(h) = -1
    <3> DEFINE n == LengthIn(h)
    <3>1. n \in Nat /\ HEADER_SIZE \in Nat
      BY <2>4, ConstantsTyped DEF HEADER_SIZE
    <3>2. e = p + (HEADER_SIZE + n)
      BY <2>1, <2>4
    <3> HIDE DEF n
    <3>3. e = (p + HEADER_SIZE) + n
      BY <3>1, <3>2
    <3> QED BY <1>2, <2>4, <3>3 DEF n
  <2> QED BY <2>2, <2>3, <2>4
<1> QED BY <1>1, <1>2 DEF Frame

\* What is read ends where the writing has got to: past the end of the stream nothing is read.
LEMMA FrameRead ==
    ASSUME NEW s, NEW q \in Places, NEW Q \in Seq(Data), NEW o, NEW n \in Nat, NEW f \in Nat,
           NEW cut \in Places, NEW count \in Places, NEW S, NEW b \in Nat, NEW U \in Data,
           Writer(s, q, Q, o, cut[n + 1]), Framed(s, cut, count, n, S),
           Coming(s, b, U, q[1] + o), f \in 1..n + 1, b = cut[f], 0 < Len(U)
    PROVE  /\ f <= n /\ f + 1 \in Nat /\ f + 1 \in 1..n + 1
           /\ Frame(s, cut[f], cut[f + 1], count[f], count[f + 1], S)
<1>1. q[1] + o <= cut[n + 1] /\ q[1] \in Nat /\ o \in Nat
  BY PlaceTyped, WrittenSent
<1>2. q[1] + o = b + Len(U) /\ Len(U) \in Nat
  BY LenProperties DEF Coming, Data
<1>3. ASSUME f = n + 1 PROVE FALSE
  <2>1. b + Len(U) <= b
    BY <1>1, <1>2, <1>3
  <2> DEFINE l == Len(U)
  <2>2. l \in Nat /\ 0 < l /\ b + l <= b
    BY <1>2, <2>1
  <2> HIDE DEF l
  <2> QED BY <2>2
<1>4. f \in 1..n /\ f <= n /\ f + 1 \in Nat /\ f + 1 \in 1..n + 1
  BY <1>3
<1>5. Frame(s, cut[f], cut[f + 1], count[f], count[f + 1], S)
  BY <1>4 DEF Framed
<1> QED BY <1>4, <1>5

\* What follows a part that has been read is what comes next.
LEMMA ComingNext ==
    ASSUME NEW s, NEW b \in Nat, NEW h \in Data, NEW V \in Data, NEW w, Coming(s, b, h \o V, w)
    PROVE  /\ At(s, b, h) /\ Coming(s, b + Len(h), V, w) /\ b + Len(h) \in Nat
           /\ h \o V \in Data /\ Len(h \o V) = Len(h) + Len(V)
<1>1. h \o V \in Data /\ Len(h \o V) = Len(h) + Len(V) /\ Len(h) \in Nat /\ Len(V) \in Nat
  BY ConcatProperties, LenProperties DEF Data
<1>2. At(s, b, h) /\ At(s, b + Len(h), V)
  BY AtConcat DEF Coming
<1>3. w = b + Len(h \o V)
  BY DEF Coming
<1>4. w = (b + Len(h)) + Len(V)
  BY <1>1, <1>3
<1> QED BY <1>1, <1>2, <1>4 DEF Coming

\* A header has been read.
LEMMA PipeHeader ==
    ASSUME NEW Q \in Seq(Data), NEW o, NEW c, NEW P, NEW S \in Seq(Message),
           NEW h \in Data, Len(h) = HEADER_SIZE, NEW V \in Data,
           PipeOf(Q, o, h \o V, 0, c, P, S)
    PROVE  /\ PipeOf(Q, o, V, LengthIn(h), ChannelIn(h), P, S)
           /\ LengthIn(h) \in Nat /\ LengthIn(h) <= MAX_PAYLOAD
<1> DEFINE U == h \o V
           len == LengthIn(h)
           d == ChannelIn(h)
<1>1. PICK s \in Streams, q \in Places, cut \in Places, count \in Places,
           n \in Nat, f \in Nat, b \in Nat :
        /\ Writer(s, q, Q, o, cut[n + 1]) /\ Framed(s, cut, count, n, S)
        /\ Coming(s, b, U, q[1] + o) /\ Reader(b, f, cut, count, n, 0, c, P, S)
  BY DEF PipeOf
<1> DEFINE w == q[1] + o
           a == b + HEADER_SIZE
<1>2. /\ f \in 1..n + 1 /\ b = cut[f]
      /\ Len(P) = count[f] /\ Len(P) <= Len(S) /\ \A i \in 1..Len(P) : P[i] = S[i]
  BY <1>1 DEF Reader
<1>3. At(s, b, h) /\ Coming(s, a, V, w) /\ a \in Nat /\ U \in Data /\ Len(U) = Len(h) + Len(V)
  <2>1. Coming(s, b, h \o V, w)
    BY <1>1
  <2> HIDE DEF w
  <2>2. /\ At(s, b, h) /\ Coming(s, b + Len(h), V, w) /\ b + Len(h) \in Nat
        /\ h \o V \in Data /\ Len(h \o V) = Len(h) + Len(V)
    BY <2>1, ComingNext
  <2> QED BY <2>2
<1>4. 0 < Len(U)
  <2>1. Len(V) \in Nat /\ Len(h) = 6
    BY LenProperties DEF Data, HEADER_SIZE
  <2> HIDE DEF U
  <2> QED BY <1>3, <2>1
<1> HIDE DEF U
<1>5. /\ f <= n /\ f + 1 \in Nat /\ f + 1 \in 1..n + 1
      /\ Frame(s, cut[f], cut[f + 1], count[f], count[f + 1], S)
  BY <1>1, <1>2, <1>3, <1>4, FrameRead
<1> HIDE DEF len, d, a, w
<1>6. \/ len = 0 /\ cut[f + 1] = a /\ count[f + 1] = count[f]
      \/ /\ len \in 1..MAX_PAYLOAD /\ cut[f + 1] = a + len
         /\ \/ d = -1 /\ count[f + 1] = count[f]
            \/ /\ count[f + 1] = count[f] + 1 /\ count[f + 1] \in 1..Len(S)
               /\ d = S[count[f + 1]].channel
  <2> DEFINE e == cut[f + 1]
             k == count[f]
             l == count[f + 1]
  <2>1. Frame(s, b, e, k, l, S) /\ At(s, b, h)
    BY <1>2, <1>3, <1>5
  <2> HIDE DEF e, k, l
  <2>2. \/ LengthIn(h) = 0 /\ e = b + HEADER_SIZE /\ l = k
        \/ /\ LengthIn(h) \in 1..MAX_PAYLOAD /\ e = (b + HEADER_SIZE) + LengthIn(h)
           /\ \/ ChannelIn(h) = -1 /\ l = k
              \/ l = k + 1 /\ l \in 1..Len(S) /\ ChannelIn(h) = S[l].channel
    BY <2>1, HeaderSays
  <2> QED BY Zenon, <2>2 DEF len, d, a, e, k, l
<1>7. len \in Nat /\ len <= MAX_PAYLOAD
  BY <1>6, ConstantsTyped
<1>8. CASE len = 0 /\ cut[f + 1] = a /\ count[f + 1] = count[f]
  <2>1. Reader(a, f + 1, cut, count, n, len, d, P, S)
    BY <1>2, <1>5, <1>8 DEF Reader
  <2>2. PipeOf(Q, o, V, len, d, P, S)
    BY ZenonT(30), <1>1, <1>3, <1>5, <2>1 DEF PipeOf, w
  <2> QED BY <1>7, <2>2 DEF len, d
<1>9. CASE /\ len \in 1..MAX_PAYLOAD /\ cut[f + 1] = a + len
           /\ \/ d = -1 /\ count[f + 1] = count[f]
              \/ /\ count[f + 1] = count[f] + 1 /\ count[f + 1] \in 1..Len(S)
                 /\ d = S[count[f + 1]].channel
  <2>1. len # 0 /\ a = cut[f] + HEADER_SIZE
    BY <1>2, <1>9, ConstantsTyped DEF a
  <2>2. Reader(a, f, cut, count, n, len, d, P, S)
    BY <1>2, <1>5, <1>9, <2>1 DEF Reader
  <2>3. PipeOf(Q, o, V, len, d, P, S)
    BY ZenonT(30), <1>1, <1>3, <2>2 DEF PipeOf, w
  <2> QED BY <1>7, <2>3 DEF len, d
<1> QED BY <1>6, <1>8, <1>9

\* A payload has been read: one that is posted is that of the next packet that was sent.
LEMMA PipePayload ==
    ASSUME NEW Q \in Seq(Data), NEW o, NEW len, len # 0, NEW c, NEW S \in Seq(Message),
           NEW P \in Seq([channel : 0..255, data : Data]),
           NEW d \in Data, Len(d) = len, NEW V \in Data,
           PipeOf(Q, o, d \o V, len, c, P, S)
    PROVE  /\ c < 0 => PipeOf(Q, o, V, 0, c, P, S)
           /\ c \in Nat =>
                /\ Len(P) < Len(S) /\ [channel |-> c, data |-> d] = S[Len(P) + 1]
                /\ PipeOf(Q, o, V, 0, c, Append(P, [channel |-> c, data |-> d]), S)
<1> DEFINE U == d \o V
<1>1. PICK s \in Streams, q \in Places, cut \in Places, count \in Places,
           n \in Nat, f \in Nat, b \in Nat :
        /\ Writer(s, q, Q, o, cut[n + 1]) /\ Framed(s, cut, count, n, S)
        /\ Coming(s, b, U, q[1] + o) /\ Reader(b, f, cut, count, n, len, c, P, S)
  BY DEF PipeOf
<1> DEFINE w == q[1] + o
           a == b + len
           l == count[f + 1]
<1>2. /\ Len(P) = count[f] /\ Len(P) <= Len(S) /\ \A i \in 1..Len(P) : P[i] = S[i]
      /\ f \in 1..n + 1 /\ f <= n /\ b = cut[f] + HEADER_SIZE /\ cut[f + 1] = a
      /\ \/ c = -1 /\ l = count[f]
         \/ l = count[f] + 1 /\ l \in 1..Len(S) /\ c = S[l].channel
  BY <1>1 DEF Reader
<1>3. At(s, b, d) /\ Coming(s, a, V, w) /\ a \in Nat
  <2>1. Coming(s, b, d \o V, w)
    BY <1>1
  <2> HIDE DEF w, U
  <2>2. At(s, b, d) /\ Coming(s, b + Len(d), V, w) /\ b + Len(d) \in Nat
    BY <2>1, ComingNext
  <2> QED BY <2>2
<1>4. f \in 1..n /\ f + 1 \in Nat /\ f + 1 \in 1..n + 1
  BY <1>2
<1> HIDE DEF w, a, U
<1>5. ASSUME c = -1, l = count[f] PROVE PipeOf(Q, o, V, 0, c, P, S)
  <2>1. Reader(a, f + 1, cut, count, n, 0, c, P, S)
    BY <1>2, <1>4, <1>5 DEF Reader
  <2> QED BY ZenonT(30), <1>1, <1>3, <1>4, <2>1 DEF PipeOf, w
<1>6. ASSUME l = count[f] + 1, l \in 1..Len(S), c = S[l].channel
      PROVE  /\ c \in 0..255 /\ Len(P) < Len(S) /\ [channel |-> c, data |-> d] = S[Len(P) + 1]
             /\ PipeOf(Q, o, V, 0, c, Append(P, [channel |-> c, data |-> d]), S)
  <2> DEFINE m == S[l]
             e == m.data
             r == [channel |-> c, data |-> d]
             R == Append(P, r)
  <2>1. m \in Message
    BY <1>6, ElementOfSeq
  <2>2. m = [channel |-> m.channel, data |-> m.data] /\ m.channel \in 0..255 /\ m.data \in Data
    <3>1. m = [channel |-> m.channel, data |-> m.data]
      BY <2>1 DEF Message
    <3> QED BY <2>1, <3>1, ConstantsTyped
  <2>3. Frame(s, cut[f], cut[f + 1], count[f], l, S)
    BY <1>1, <1>4 DEF Framed
  <2>4. count[f] \in Nat /\ cut[f] \in Nat /\ HEADER_SIZE \in Nat
    BY PlaceTyped DEF HEADER_SIZE
  <2>5. l # count[f]
    BY <1>6, <2>4
  <2>6. At(s, cut[f] + HEADER_SIZE, e) /\ cut[f + 1] = cut[f] + HEADER_SIZE + Len(e)
    BY <2>3, <2>5 DEF Frame
  <2>7. Len(e) = Len(d)
    <3> DEFINE x == Len(e)
               y == Len(d)
    <3>1. x \in Nat /\ y \in Nat
      BY <2>2, LenProperties DEF Data
    <3>2. b \in Nat /\ a = b + y /\ a = b + x
      BY <1>2, <2>4, <2>6 DEF a
    <3> HIDE DEF x, y
    <3>3. x = y
      BY <3>1, <3>2
    <3> QED BY <3>3 DEF x, y
  <2>8. At(s, b, e)
    BY <1>2, <2>6
  <2> HIDE DEF e
  <2>9. e \in Data
    BY <2>2 DEF e
  <2>10. e = d
    BY <1>3, <2>7, <2>8, <2>9, AtUnique
  <2>11. r = m
    BY <1>6, <2>2, <2>10 DEF e
  <2>12. Len(P) \in Nat /\ l = Len(P) + 1 /\ Len(P) < Len(S)
    <3>1. Len(S) \in Nat
      BY LenProperties
    <3>2. Len(P) \in Nat /\ l = Len(P) + 1 /\ l <= Len(S)
      BY <1>2, <1>6, <2>4, <3>1
    <3> QED BY <3>1, <3>2
  <2>13. r \in [channel : 0..255, data : Data]
    BY <1>6, <2>2
  <2> HIDE DEF m, r
  <2>14. /\ Len(R) = l /\ R[l] = r
         /\ \A i \in 1..Len(P) : R[i] = P[i]
    BY <2>12, <2>13, AppendProperties
  <2> HIDE DEF R
  <2>15. \A i \in 1..Len(R) : R[i] = S[i]
    <3> TAKE i \in 1..Len(R)
    <3>1. CASE i = l
      BY <2>11, <2>14, <3>1 DEF m
    <3>2. CASE i \in 1..Len(P)
      BY <1>2, <2>14, <3>2
    <3>3. i = l \/ i \in 1..Len(P)
      BY <2>12, <2>14
    <3> QED BY <3>1, <3>2, <3>3
  <2>16. Reader(a, f + 1, cut, count, n, 0, c, R, S)
    <3>1. Len(R) = count[f + 1] /\ Len(R) <= Len(S)
      BY <1>6, <2>14
    <3> QED BY <1>2, <1>4, <2>15, <3>1 DEF Reader
  <2>17. PipeOf(Q, o, V, 0, c, R, S)
    BY ZenonT(30), <1>1, <1>3, <1>4, <2>16 DEF PipeOf, w
  <2> QED BY <1>6, <2>2, <2>11, <2>12, <2>17 DEF m, r, R
<1>7. CASE c = -1 /\ l = count[f]
  <2>1. ~(c \in Nat)
    BY <1>7
  <2> QED BY <1>5, <1>7, <2>1
<1>8. CASE l = count[f] + 1 /\ l \in 1..Len(S) /\ c = S[l].channel
  <2>1. ~(c < 0)
    <3>1. c \in 0..255
      BY <1>6, <1>8
    <3> QED BY <3>1
  <2> QED BY <1>6, <1>8, <2>1
<1> QED BY <1>2, <1>7, <1>8

-----------------------------------------------------------------------------
(* The daemon and the stream.                                              *)

\* The packets of the queue are somebody's, and nobody else's.
LEMMA QueueTyped ==
    ASSUME OwnerInv
    PROVE  /\ queue \in Seq(Ids) /\ Len(queue) \in Nat
           /\ QueueData \in Seq(Data) /\ Len(QueueData) = Len(queue)
           /\ \A i \in 1..Len(queue) :
                /\ QueueData[i] = packets[queue[i]] /\ queue[i] \in Taken(Pool)
                /\ queue[i] \notin {in_packet} \cup Busy \cup held
           /\ \A i, j \in 1..Len(queue) : queue[i] = queue[j] => i = j
<1>1. /\ Owners(Pool, queue, in_packet, Busy, held) /\ IdsOf(Pool) = Ids
      /\ \A p \in Taken(Pool) : packets[p] \in Data
  BY PacketsTyped DEF OwnerInv
<1>2. queue \in Seq(Ids) /\ Len(queue) \in Nat /\ Distinct(queue)
  <2>1. queue \in Seq(Ids) /\ Distinct(queue)
    BY <1>1 DEF Owners
  <2> QED BY <2>1, LenProperties
<1>3. \A i \in 1..Len(queue) : queue[i] \in Range(queue)
  BY <1>2, InRange
<1>4. /\ Range(queue) \subseteq Taken(Pool)
      /\ Range(queue) \cap ({in_packet} \cup Busy \cup held) = {}
  BY <1>1 DEF Owners
<1>5. ASSUME NEW i \in 1..Len(queue) PROVE packets[queue[i]] \in Data
  BY <1>1, <1>3, <1>4
<1>6. QueueData \in [1..Len(queue) -> Data]
  BY <1>5 DEF QueueData
<1>7. QueueData \in Seq(Data) /\ Len(QueueData) = Len(queue)
  <2> DEFINE n == Len(queue)
  <2>1. n \in Nat /\ QueueData \in [1..n -> Data]
    BY <1>2, <1>6
  <2> HIDE DEF n, Data
  <2>2. QueueData \in Seq(Data)
    BY <2>1, SeqDef
  <2>3. Len(QueueData) = n
    <3>1. Len(QueueData) \in Nat /\ DOMAIN QueueData = 1..Len(QueueData)
      BY <2>2, LenProperties
    <3>2. 1..Len(QueueData) = 1..n
      BY <2>1, <3>1
    <3> DEFINE k == Len(QueueData)
    <3>3. k \in Nat /\ 1..k = 1..n
      BY <3>1, <3>2
    <3> HIDE DEF k
    <3> QED BY <2>1, <3>3 DEF k
  <2> QED BY <2>2, <2>3 DEF n
<1>8. \A i \in 1..Len(queue) : QueueData[i] = packets[queue[i]]
  BY DEF QueueData
<1> QED BY <1>2, <1>3, <1>4, <1>7, <1>8 DEF Distinct

\* Nothing happens to the queue.
LEMMA QueueSame ==
    ASSUME OwnerInv, NEW X, Kept(X), UNCHANGED queue, X \subseteq {in_packet} \cup Busy \cup held
    PROVE  QueueData' = QueueData
<1>1. ASSUME NEW i \in 1..Len(queue) PROVE packets'[queue[i]] = packets[queue[i]]
  <2>1. queue[i] \in Taken(Pool) \ X
    BY QueueTyped
  <2> QED BY <2>1 DEF Kept
<1> QED BY <1>1 DEF QueueData

\* Packets are added to it.
LEMMA QueueMore ==
    ASSUME OwnerInv, Kept({}), NEW x, NEW d \in Data, packets'[x] = d
    PROVE  /\ queue' = queue \o <<x>> => QueueData' = Append(QueueData, d)
           /\ \A y : \A e \in Data :
                queue' = queue \o <<x, y>> /\ packets'[y] = e =>
                  QueueData' = Append(Append(QueueData, d), e)
<1> DEFINE n == Len(queue)
           Q == QueueData
           A == Append(Q, d)
<1>1. /\ n \in Nat /\ Q \in Seq(Data) /\ Len(Q) = n
      /\ \A i \in 1..n : Q[i] = packets[queue[i]] /\ queue[i] \in Taken(Pool)
      /\ queue \in Seq(Ids)
  BY QueueTyped
<1>2. \A i \in 1..n : packets'[queue[i]] = Q[i]
  BY <1>1 DEF Kept
<1> HIDE DEF Q, Data
<1>3. /\ A \in Seq(Data) /\ Len(A) = n + 1 /\ A[n + 1] = d
      /\ \A i \in 1..n : A[i] = Q[i]
  BY <1>1, AppendProperties
<1>4. A \in [1..n + 1 -> Data]
  BY <1>3, LenProperties
<1> HIDE DEF A
<1>5. ASSUME queue' = queue \o <<x>> PROVE QueueData' = A
  <2> DEFINE q == queue'
  <2>1. Len(q) = n + 1 /\ q[n + 1] = x /\ \A i \in 1..n : q[i] = queue[i]
    BY <1>1, <1>5
  <2> HIDE DEF q, n
  <2>2. ASSUME NEW i \in 1..n + 1 PROVE packets'[q[i]] = A[i]
    <3>1. i = n + 1 \/ i \in 1..n
      BY <1>1
    <3> QED BY <1>2, <1>3, <2>1, <3>1
  <2>3. QueueData' = [i \in 1..n + 1 |-> packets'[q[i]]]
    BY <2>1 DEF QueueData, q
  <2> QED BY <1>4, <2>2, <2>3
<1>6. ASSUME NEW y, NEW e \in Data, queue' = queue \o <<x, y>>, packets'[y] = e
      PROVE  QueueData' = Append(A, e)
  <2> DEFINE q == queue'
             B == Append(A, e)
             k == n + 1
  <2>1. Len(q) = k + 1 /\ q[k + 1] = y /\ q[k] = x /\ \A i \in 1..n : q[i] = queue[i]
    BY <1>1, <1>6
  <2>2. k \in Nat /\ k = n + 1
    BY <1>1
  <2>3. /\ B \in Seq(Data) /\ Len(B) = k + 1 /\ B[k + 1] = e
        /\ \A i \in 1..k : B[i] = A[i]
    BY <1>3, AppendProperties
  <2>4. B \in [1..k + 1 -> Data]
    BY <2>3, LenProperties
  <2> HIDE DEF q, n, B, k
  <2>5. ASSUME NEW i \in 1..k + 1 PROVE packets'[q[i]] = B[i]
    <3>1. i = k + 1 \/ i \in 1..k
      BY <2>2
    <3>2. i = k + 1 \/ i = k \/ i \in 1..n
      BY <1>1, <2>2
    <3>3. CASE i = k + 1
      BY <1>6, <2>1, <2>3, <3>3
    <3>4. CASE i = k
      <4>1. k \in 1..k
        BY <1>1, <2>2
      <4> QED BY <1>3, <2>1, <2>2, <2>3, <3>4, <4>1
    <3>5. CASE i \in 1..n
      <4>1. i \in 1..k
        BY <1>1, <2>2, <3>5
      <4> QED BY <1>2, <1>3, <2>1, <2>3, <3>5, <4>1
    <3> QED BY <3>2, <3>3, <3>4, <3>5
  <2>6. QueueData' = [i \in 1..k + 1 |-> packets'[q[i]]]
    BY <2>1 DEF QueueData, q
  <2>7. QueueData' = B
    BY <2>4, <2>5, <2>6
  <2> QED BY <2>7 DEF B
<1> QED BY <1>5, <1>6 DEF A, Q

\* The first leaves it.
LEMMA QueueLess ==
    ASSUME OwnerInv, queue # <<>>, Kept({Head(queue)}), queue' = Tail(queue)
    PROVE  QueueData' = Tail(QueueData)
<1> DEFINE n == Len(queue)
           Q == QueueData
           T == Tail(Q)
           t == Tail(queue)
<1>1. /\ n \in Nat /\ Q \in Seq(Data) /\ Len(Q) = n /\ queue \in Seq(Ids)
      /\ \A i \in 1..n : Q[i] = packets[queue[i]] /\ queue[i] \in Taken(Pool)
      /\ \A i, j \in 1..n : queue[i] = queue[j] => i = j
  BY QueueTyped
<1>2. 0 < n
  BY <1>1, EmptySeq
<1> HIDE DEF Q, Data
<1>3. Q # <<>>
  <2>1. Len(<<>>) = 0
    BY EmptySeq
  <2> QED BY <1>1, <1>2, <2>1
<1>4. /\ T \in Seq(Data) /\ Len(T) = n - 1
      /\ \A i \in 1..n - 1 : T[i] = Q[i + 1]
  BY <1>1, <1>3, HeadTailProperties
<1>5. T \in [1..n - 1 -> Data]
  BY <1>4, LenProperties
<1>6. Len(t) = n - 1 /\ \A i \in 1..n - 1 : t[i] = queue[i + 1]
  BY <1>1, HeadTailProperties
<1>7. Head(queue) = queue[1]
  BY <1>1
<1> HIDE DEF T, t, n
<1>8. ASSUME NEW i \in 1..n - 1 PROVE packets'[t[i]] = T[i]
  <2>1. i + 1 \in 1..n /\ 1 \in 1..n /\ i + 1 # 1
    BY <1>1, <1>2
  <2>2. queue[i + 1] # queue[1]
    BY <1>1, <2>1
  <2>3. queue[i + 1] \in Taken(Pool) \ {Head(queue)}
    BY <1>1, <1>7, <2>1, <2>2
  <2>4. packets'[queue[i + 1]] = packets[queue[i + 1]]
    BY <1>1, <2>3 DEF Kept
  <2>5. T[i] = Q[i + 1] /\ t[i] = queue[i + 1]
    BY Zenon, <1>4, <1>6
  <2> QED BY <1>1, <2>1, <2>4, <2>5
<1>9. QueueData' = [i \in 1..n - 1 |-> packets'[t[i]]]
  BY <1>6 DEF QueueData, t
<1> QED BY <1>5, <1>8, <1>9 DEF T, Q

\* What is being read, from where it has got to.
LEMMA RestTyped ==
    ASSUME SerialInv
    PROVE  /\ inp \in Data /\ Rest \in Data /\ line \in Data /\ inp \o Rest \in Data
           /\ Unread \in Data /\ Unread = inp \o (Rest \o line) /\ Rest \o line \in Data
           /\ Idle => Rest = <<>> /\ Unread = inp \o line
<1>1. OwnerInv /\ inp \in Data /\ line \in Data /\ rpos \in Nat
  BY PacketsTyped DEF SerialInv, LineTyped
<1>2. Rest \in Data
  <2>1. CASE Idle
    BY <2>1 DEF Rest, Data
  <2>2. CASE ~Idle
    <3> DEFINE d == packets[reading]
               k == Len(d)
    <3>1. d \in Data /\ k \in Nat /\ k <= Len(d)
      BY <1>1, <2>2, PacketsTyped DEF Idle
    <3>2. Rest = SubSeq(d, rpos + 1, k)
      BY <2>2 DEF Rest
    <3> HIDE DEF d, k
    <3> QED BY <1>1, <3>1, <3>2, PartTyped
  <2> QED BY <2>1, <2>2
<1>3. inp \o Rest \in Data /\ Rest \o line \in Data
  BY <1>1, <1>2, ConcatProperties DEF Data
<1>4. (inp \o Rest) \o line \in Data /\ (inp \o Rest) \o line = inp \o (Rest \o line)
  BY <1>1, <1>2, <1>3, ConcatProperties, ConcatAssociative DEF Data
<1>5. ASSUME Idle PROVE Rest = <<>> /\ Unread = inp \o line
  <2>1. Rest = <<>>
    BY <1>5 DEF Rest
  <2>2. inp \o <<>> = inp
    BY <1>1, ConcatEmptySeq DEF Data
  <2> QED BY <2>1, <2>2 DEF Unread
<1> QED BY <1>1, <1>2, <1>3, <1>4, <1>5 DEF Unread

\* The input packet is what it was when it has been kept.
LEMMA InputSame ==
    ASSUME OwnerInv, NEW X, Kept(X), in_packet \notin X, UNCHANGED in_packet
    PROVE  inp' = inp
<1>1. in_packet \in Taken(Pool) \ X
  BY PacketsTyped
<1> QED BY <1>1 DEF Kept, inp

\* With nothing to write, the writing begins anew.
LEMMA PipeEmpty ==
    ASSUME NEW Q, NEW o, NEW U, NEW len, NEW c, NEW P, NEW S, PipeOf(Q, o, U, len, c, P, S)
    PROVE  o \in Nat /\ (Q = <<>> => o = 0) /\ (Q # <<>> => o <= Len(Q[1]))
BY DEF PipeOf, Writer

\* What the actions do to the pipe: sending puts a packet in, a frame to be ignored puts in
\* what is no packet, and the bytes that are written and read stay in their order.
LEMMA SendPiped ==
    ASSUME SerialInv, PipeInv, NEW m \in Message, serial_send(m)
    PROVE  PipeInv' /\ sent' = Append(sent, m) /\ UNCHANGED posted
<1> DEFINE h == Header(m)
           d == m.data
<1>1. /\ Idle /\ Idle' /\ sent' = Append(sent, m)
      /\ out_pos' = IF queue = <<>> THEN 0 ELSE out_pos
      /\ UNCHANGED <<line, in_packet, in_datalen, in_channel, posted>>
  BY DEF serial_send, Enqueued, inVars, Idle
<1>2. OwnerInv /\ Kept({}) /\ SerialInv'
  BY SendTyped DEF SerialInv
<1>3. PICK x, y : queue' = queue \o <<x, y>> /\ packets'[x] = h /\ packets'[y] = d
  BY SendTyped
<1>4. h \in Data /\ d \in Data
  BY HeaderLength, ConstantsTyped
<1> HIDE DEF h, d
<1>5. QueueData' = Append(Append(QueueData, h), d)
  BY <1>2, <1>3, <1>4, QueueMore
<1>6. inp' = inp
  BY <1>1, <1>2, InputSame
<1>7. Unread' = Unread
  <2>1. Rest = <<>> /\ Rest' = <<>>
    BY <1>1 DEF Rest
  <2> QED BY <1>1, <1>6, <2>1 DEF Unread
<1>8. QueueData \in Seq(Data) /\ Unread \in Data /\ Len(posted) \in Nat /\ sent \in Seq(Message)
  <2>1. Unread \in Data
    BY RestTyped
  <2>2. Len(posted) \in Nat /\ sent \in Seq(Message)
    BY LenProperties DEF SerialInv, InputTyped, LineTyped
  <2> QED BY <1>2, <2>1, <2>2, QueueTyped
<1>9. out_pos' = out_pos
  <2>1. queue = <<>> => QueueData = <<>>
    <3>1. Len(QueueData) = Len(queue)
      BY <1>2, QueueTyped
    <3>2. Len(<<>>) = 0 /\ (QueueData # <<>> => Len(QueueData) # 0)
      BY <1>8, EmptySeq
    <3> QED BY <3>1, <3>2
  <2> QED BY <1>1, <2>1, PipeEmpty DEF PipeInv
<1>10. PipeOf(Append(Append(QueueData, h), d), out_pos, Unread, in_datalen, in_channel, posted,
              Append(sent, m))
  BY <1>8, PipeSend DEF PipeInv, h, d
<1>11. PipeInv'
  BY <1>1, <1>5, <1>7, <1>9, <1>10 DEF PipeInv
<1> QED BY <1>1, <1>11

LEMMA NoisePiped ==
    ASSUME SerialInv, PipeInv, NEW d \in Noise, SendNoise(d)
    PROVE  PipeInv' /\ UNCHANGED <<sent, posted>>
<1>1. /\ Idle /\ Idle'
      /\ out_pos' = IF queue = <<>> THEN 0 ELSE out_pos
      /\ UNCHANGED <<line, in_packet, in_datalen, in_channel, posted, sent>>
  BY DEF SendNoise, Enqueued, inVars, Idle
<1>2. OwnerInv /\ Kept({}) /\ SerialInv'
  BY NoiseTyped DEF SerialInv
<1>3. PICK x : queue' = queue \o <<x>> /\ packets'[x] = d
  BY NoiseTyped
<1>4. d \in Data
  BY ConstantsTyped
<1>5. QueueData' = Append(QueueData, d)
  BY <1>2, <1>3, <1>4, QueueMore
<1>6. inp' = inp
  BY <1>1, <1>2, InputSame
<1>7. Unread' = Unread
  <2>1. Rest = <<>> /\ Rest' = <<>>
    BY <1>1 DEF Rest
  <2> QED BY <1>1, <1>6, <2>1 DEF Unread
<1>8. QueueData \in Seq(Data) /\ Unread \in Data /\ Len(posted) \in Nat /\ sent \in Seq(Message)
  <2>1. Unread \in Data
    BY RestTyped
  <2>2. Len(posted) \in Nat /\ sent \in Seq(Message)
    BY LenProperties DEF SerialInv, InputTyped, LineTyped
  <2> QED BY <1>2, <2>1, <2>2, QueueTyped
<1>9. out_pos' = out_pos
  <2>1. queue = <<>> => QueueData = <<>>
    <3>1. Len(QueueData) = Len(queue)
      BY <1>2, QueueTyped
    <3>2. Len(<<>>) = 0 /\ (QueueData # <<>> => Len(QueueData) # 0)
      BY <1>8, EmptySeq
    <3> QED BY <3>1, <3>2
  <2> QED BY <1>1, <2>1, PipeEmpty DEF PipeInv
<1>10. PipeOf(Append(QueueData, d), out_pos, Unread, in_datalen, in_channel, posted, sent)
  BY <1>8, PipeNoise DEF PipeInv
<1>11. PipeInv'
  BY <1>1, <1>5, <1>7, <1>9, <1>10 DEF PipeInv
<1> QED BY <1>1, <1>11

LEMMA WritePiped ==
    ASSUME SerialInv, PipeInv, NEW n \in 1..MAX_PAYLOAD, WriteOut(n)
    PROVE  PipeInv' /\ UNCHANGED <<sent, posted>>
<1> DEFINE p == Head(queue)
           d == packets[p]
           k == out_pos + n
           part == SubSeq(d, out_pos + 1, k)
<1>1. /\ Idle /\ Idle' /\ queue # <<>> /\ k <= Len(d) /\ line' = line \o part
      /\ \/ k = Len(d) /\ out_pos' = 0 /\ queue' = Tail(queue)
         \/ out_pos' = k /\ UNCHANGED <<queue, packets>>
      /\ UNCHANGED <<in_packet, in_datalen, in_channel, posted, sent>>
  BY DEF WriteOut, inVars, poolVars, Idle
<1>2. OwnerInv /\ Kept({p}) /\ SerialInv'
  BY WriteTyped DEF SerialInv
<1>3. /\ QueueData \in Seq(Data) /\ Len(QueueData) = Len(queue) /\ QueueData # <<>>
      /\ QueueData[1] = d /\ d \in Data /\ p \in Taken(Pool) /\ p # in_packet
  <2>1. queue \in Seq(Ids)
    BY <1>2, QueueTyped
  <2>2. 1 \in 1..Len(queue) /\ p = queue[1]
    <3>1. Len(queue) \in Nat \ {0}
      BY <1>1, <2>1, EmptySeq
    <3> QED BY <2>1, <3>1
  <2>3. QueueData \in Seq(Data) /\ Len(QueueData) = Len(queue)
    BY <1>2, QueueTyped
  <2>4. QueueData # <<>>
    <3>1. Len(<<>>) = 0
      BY EmptySeq
    <3> QED BY <2>2, <2>3, <3>1
  <2>5. QueueData[1] = d /\ p \in Taken(Pool) /\ p # in_packet
    BY <1>2, <2>2, QueueTyped
  <2> QED BY <1>2, <2>3, <2>4, <2>5, PacketsTyped
<1>4. inp' = inp
  <2>1. in_packet \notin {p}
    BY <1>3
  <2> HIDE DEF p
  <2> QED BY <1>1, <1>2, <2>1, InputSame
<1>5. out_pos \in Nat /\ k \in Nat /\ out_pos <= k
  <2>1. n \in Nat /\ out_pos \in Nat
    BY ConstantsTyped DEF SerialInv, LineTyped
  <2> QED BY <2>1
<1> HIDE DEF p, d
<1>6. part \in Data
  BY <1>1, <1>3, <1>5, PartTyped
<1> HIDE DEF k, part
<1>7. Unread' = Unread \o part
  <2>1. inp \in Data /\ line \in Data /\ Unread = inp \o line
    BY <1>1, RestTyped
  <2>2. Rest' = <<>> /\ inp \o <<>> = inp
    BY <1>1, <2>1, ConcatEmptySeq DEF Rest, Data
  <2>3. Unread' = inp \o (line \o part)
    BY <1>1, <1>4, <2>2 DEF Unread
  <2>4. (inp \o line) \o part = inp \o (line \o part)
    BY <1>6, <2>1, ConcatAssociative DEF Data
  <2> QED BY <2>1, <2>3, <2>4
<1>8. Unread \in Data /\ sent \in Seq(Message)
  BY RestTyped DEF SerialInv, LineTyped
<1>9. /\ PipeOf(QueueData, k, Unread \o part, in_datalen, in_channel, posted, sent)
      /\ k = Len(d) =>
           PipeOf(Tail(QueueData), 0, Unread \o part, in_datalen, in_channel, posted, sent)
  <2>1. PipeOf(QueueData, out_pos, Unread, in_datalen, in_channel, posted, sent)
    BY DEF PipeInv
  <2>2. k <= Len(QueueData[1]) /\ part = SubSeq(QueueData[1], out_pos + 1, k)
    BY <1>1, <1>3 DEF part
  <2>3. /\ PipeOf(QueueData, k, Unread \o SubSeq(QueueData[1], out_pos + 1, k), in_datalen,
                  in_channel, posted, sent)
        /\ k = Len(QueueData[1]) =>
             PipeOf(Tail(QueueData), 0, Unread \o SubSeq(QueueData[1], out_pos + 1, k), in_datalen,
                    in_channel, posted, sent)
    BY <1>3, <1>5, <1>8, <2>1, <2>2, PipeWrite
  <2> QED BY <1>3, <2>2, <2>3
<1>10. CASE k = Len(d) /\ out_pos' = 0 /\ queue' = Tail(queue)
  <2>1. QueueData' = Tail(QueueData)
    BY <1>1, <1>2, <1>10, QueueLess DEF p
  <2> QED BY <1>1, <1>7, <1>9, <1>10, <2>1 DEF PipeInv
<1>11. CASE out_pos' = k /\ UNCHANGED <<queue, packets>>
  <2>1. QueueData' = QueueData
    BY <1>11 DEF QueueData
  <2> QED BY <1>1, <1>7, <1>9, <1>11, <2>1 DEF PipeInv
<1> QED BY <1>1, <1>10, <1>11

LEMMA ReadPiped ==
    ASSUME SerialInv, PipeInv, NEW n \in 1..MAX_PAYLOAD, ReadIn(n)
    PROVE  PipeInv' /\ UNCHANGED <<sent, posted>>
<1> DEFINE l == Len(line)
           x == SubSeq(line, 1, n)
           y == SubSeq(line, n + 1, l)
<1>1. /\ Idle /\ n <= l /\ line' = y /\ rpos' = 0
      /\ UNCHANGED <<queue, out_pos, in_packet, in_datalen, in_channel, posted, sent>>
  BY DEF ReadIn, inVars, outVars
<1>2. OwnerInv /\ Kept({}) /\ SerialInv' /\ reading' # NoPacket /\ packets'[reading'] = x
  BY ReadTyped DEF SerialInv
<1>3. inp' = inp /\ QueueData' = QueueData
  BY <1>1, <1>2, InputSame, QueueSame
<1>4. line \in Data /\ l \in Nat /\ n \in Nat /\ 1 <= n
  <2>1. line \in Data
    BY RestTyped
  <2>2. l \in Nat
    BY <2>1, LenProperties DEF Data
  <2> QED BY <2>1, <2>2, ConstantsTyped
<1>5. x \in Data /\ x \o y = line
  <2>1. 1 \in 1..Len(line) + 1 /\ n \in 1 - 1..Len(line) /\ l \in n..Len(line)
    BY <1>1, <1>4
  <2>2. SubSeq(line, 1, n) \o SubSeq(line, n + 1, l) = SubSeq(line, 1, l)
    <3> HIDE DEF l
    <3> QED BY <1>4, <2>1, ConcatAdjacentSubSeq DEF Data
  <2>3. SubSeq(line, 1, l) = line
    BY <1>4, SubSeqFull DEF Data
  <2>4. SubSeq(line, 0 + 1, n) \in Data
    BY <1>1, <1>4, PartTyped
  <2>5. 0 + 1 = 1
    OBVIOUS
  <2>6. x \in Data
    BY <2>4, <2>5
  <2>7. x \o y = line
    BY <2>2, <2>3
  <2> QED BY <2>6, <2>7
<1>6. Rest' = x
  <2>1. Rest' = SubSeq(packets'[reading'], rpos' + 1, Len(packets'[reading']))
    BY <1>2 DEF Rest, Idle
  <2>2. Rest' = SubSeq(x, 1, Len(x))
    BY <1>1, <1>2, <2>1
  <2> HIDE DEF x
  <2> QED BY <1>5, <2>2, SubSeqFull DEF Data
<1>7. y \in Data
  <2> HIDE DEF l
  <2> QED BY <1>1, <1>4, PartTyped DEF l
<1> HIDE DEF x, y
<1>8. Unread' = Unread
  <2>1. inp \in Data /\ Unread = inp \o line
    BY <1>1, RestTyped
  <2>2. Unread' = (inp \o x) \o y
    BY <1>1, <1>3, <1>6 DEF Unread
  <2>3. (inp \o x) \o y = inp \o (x \o y)
    BY <1>5, <1>7, <2>1, DataConcat
  <2> QED BY <1>5, <2>1, <2>2, <2>3
<1>9. PipeInv'
  BY <1>1, <1>3, <1>8 DEF PipeInv
<1> QED BY <1>1, <1>9

LEMMA FreePiped ==
    ASSUME SerialInv, PipeInv, FreeRead
    PROVE  PipeInv' /\ UNCHANGED <<sent, posted>>
<1>1. /\ ~Idle /\ Idle' /\ rpos = Len(packets[reading])
      /\ UNCHANGED <<queue, out_pos, line, in_packet, in_datalen, in_channel, posted, sent>>
  BY DEF FreeRead, inVars, outVars, Idle
<1>2. OwnerInv /\ Kept({reading}) /\ reading # in_packet /\ Busy = {reading}
  BY <1>1, FreeReadTyped, PacketsTyped DEF SerialInv, Idle
<1>3. inp' = inp /\ QueueData' = QueueData
  <2> DEFINE X == {reading}
  <2>1. Kept(X) /\ in_packet \notin X /\ X \subseteq {in_packet} \cup Busy \cup held
    BY <1>2
  <2> HIDE DEF X
  <2>2. inp' = inp
    BY <1>1, <1>2, <2>1, InputSame
  <2>3. QueueData' = QueueData
    BY <1>1, <1>2, <2>1, QueueSame
  <2> QED BY <2>2, <2>3
<1>4. Rest = <<>> /\ Rest' = <<>>
  <2>1. Rest' = <<>>
    BY <1>1 DEF Rest
  <2>2. Rest = SubSeq(packets[reading], rpos + 1, rpos) /\ rpos \in Nat
    BY <1>1 DEF Rest, SerialInv, LineTyped
  <2> QED BY <2>1, <2>2, SubSeqEmpty
<1>5. PipeInv'
  BY <1>1, <1>3, <1>4 DEF PipeInv, Unread
<1> QED BY <1>1, <1>5

LEMMA ReceiverPiped ==
    ASSUME SerialInv, PipeInv, NEW p, ReceiverFrees(p)
    PROVE  PipeInv' /\ UNCHANGED <<sent, posted>>
<1>1. /\ Idle /\ Idle' /\ p \in held
      /\ UNCHANGED <<queue, out_pos, line, in_packet, in_datalen, in_channel, posted, sent>>
  BY DEF ReceiverFrees, outVars, Idle
<1>2. OwnerInv /\ Kept({p}) /\ p # in_packet
  BY <1>1, ReceiverTyped DEF SerialInv, OwnerInv, Owners
<1>3. inp' = inp /\ QueueData' = QueueData
  <2> DEFINE X == {p}
  <2>1. Kept(X) /\ in_packet \notin X /\ X \subseteq {in_packet} \cup Busy \cup held
    BY <1>1, <1>2
  <2> HIDE DEF X
  <2>2. inp' = inp
    BY <1>1, <1>2, <2>1, InputSame
  <2>3. QueueData' = QueueData
    BY <1>1, <1>2, <2>1, QueueSame
  <2> QED BY <2>2, <2>3
<1>4. Rest = <<>> /\ Rest' = <<>>
  BY <1>1 DEF Rest
<1>5. PipeInv'
  BY <1>1, <1>3, <1>4 DEF PipeInv, Unread
<1> QED BY <1>1, <1>5

\* What is copied is what comes next of the packet that is read.
LEMMA RestRead ==
    ASSUME SerialInv, Reading, NEW n \in Nat \ {0}, Kept({in_packet}), UNCHANGED reading,
           rpos' = rpos + Len(Copied(n))
    PROVE  Copied(n) \in Data /\ Rest' \in Data /\ Rest = Copied(n) \o Rest'
<1> DEFINE d == packets[reading]
           e == packets'[reading]
           l == Len(d)
           c == Copied(n)
           k == rpos + Len(c)
           to == rpos + Lesser(avail, n)
<1>1. /\ OwnerInv /\ reading \in Taken(Pool) \ {in_packet} /\ ~Idle /\ ~Idle'
      /\ d \in Data /\ l \in Nat /\ rpos \in Nat
  BY PacketsTyped DEF SerialInv, Reading, LineTyped, Idle
<1>2. e = d
  BY <1>1 DEF Kept
<1>3. c \in Data /\ Len(c) \in 1..n /\ k <= l
  BY CopiedTyped
<1>4. c = SubSeq(d, rpos + 1, to) /\ to \in Nat /\ to <= l /\ rpos < to
  <2>1. avail = l - rpos /\ avail \in Nat /\ 0 < avail
    BY <1>1 DEF avail, Reading
  <2> DEFINE m == Lesser(avail, n)
  <2>2. m \in Nat /\ m <= avail /\ 0 < m
    BY <2>1 DEF Lesser
  <2>3. Copied(n) = SubSeq(d, rpos + 1, to)
    BY DEF Copied
  <2> HIDE DEF m, l
  <2>4. rpos + m \in Nat /\ rpos + m <= l /\ rpos < rpos + m
    BY SMT, <1>1, <2>1, <2>2
  <2> QED BY <2>3, <2>4 DEF m, l
<1>5. to = k
  <2>1. Len(c) = to - rpos
    <3> HIDE DEF c, d, to
    <3>1. Len(SubSeq(d, rpos + 1, to)) = IF rpos < to THEN to - rpos ELSE 0
      BY <1>1, <1>4, PartTyped DEF l
    <3> QED BY <1>4, <3>1
  <2> HIDE DEF c, to
  <2> QED BY <1>1, <1>4, <2>1
<1> HIDE DEF c, to
<1>6. Rest = SubSeq(d, rpos + 1, l) /\ Rest' = SubSeq(d, k + 1, l)
  <2>1. Rest = SubSeq(d, rpos + 1, l)
    BY <1>1 DEF Rest
  <2>2. Rest' = SubSeq(e, rpos' + 1, Len(e))
    BY <1>1 DEF Rest
  <2> QED BY <1>2, <2>1, <2>2 DEF c
<1> HIDE DEF d
<1>7. Rest' \in Data
  <2> DEFINE j == l
  <2>1. j \in Nat /\ j <= Len(d) /\ k \in Nat
    BY <1>1, <1>4, <1>5
  <2> HIDE DEF j, k, l
  <2>2. SubSeq(d, k + 1, j) \in Data
    BY <1>1, <2>1, PartTyped
  <2> QED BY <1>6, <2>2 DEF j
<1>8. SubSeq(d, rpos + 1, k) \o SubSeq(d, k + 1, l) = SubSeq(d, rpos + 1, l)
  <2> DEFINE m == rpos + 1
  <2>1. /\ m \in 1..Len(d) + 1 /\ k \in m - 1..Len(d) /\ l \in k..Len(d)
    BY <1>1, <1>4, <1>5
  <2> HIDE DEF m, k, l
  <2>2. SubSeq(d, m, k) \o SubSeq(d, k + 1, l) = SubSeq(d, m, l)
    BY <1>1, <2>1, ConcatAdjacentSubSeq DEF Data
  <2> QED BY <2>2 DEF m
<1>9. Rest = c \o Rest'
  BY <1>4, <1>5, <1>6, <1>8
<1> QED BY <1>3, <1>7, <1>9 DEF c

\* Of what has not been done with the input packet has the first bytes, however much of it
\* has been read.
LEMMA UnreadSplit ==
    ASSUME SerialInv, NEW c \in Data, NEW R \in Data, Rest = c \o R
    PROVE  /\ inp \o c \in Data /\ R \o line \in Data
           /\ Unread = (inp \o c) \o (R \o line)
           /\ ((inp \o c) \o R) \o line = Unread /\ (<<>> \o R) \o line = R \o line
<1>1. inp \in Data /\ line \in Data
  BY RestTyped
<1>2. inp \o c \in Data /\ R \o line \in Data /\ (inp \o c) \o R = inp \o (c \o R)
  <2> DEFINE i == inp
             z == line
  <2>1. i \in Data /\ z \in Data
    BY <1>1
  <2> HIDE DEF i, z
  <2>2. /\ i \o c \in Data /\ c \o R \in Data
        /\ (i \o c) \o R = i \o (c \o R) /\ i \o (c \o R) \in Data
    BY Zenon, <2>1, DataConcat
  <2>3. R \o z \in Data
    BY <2>1, ConcatProperties DEF Data
  <2> QED BY <2>2, <2>3 DEF i, z
<1> DEFINE h == inp \o c
<1>3. (h \o R) \o line = h \o (R \o line)
  <2> DEFINE z == line
  <2>1. h \in Data /\ z \in Data
    BY <1>1, <1>2
  <2> HIDE DEF h, z
  <2>2. /\ h \o R \in Data /\ R \o z \in Data
        /\ (h \o R) \o z = h \o (R \o z) /\ h \o (R \o z) \in Data
    BY Zenon, <2>1, DataConcat
  <2> QED BY <2>2 DEF z
<1>4. <<>> \o R = R
  BY ConcatEmptySeq DEF Data
<1> QED BY <1>1, <1>2, <1>3, <1>4 DEF Unread

LEMMA ExceptKeeps ==
    ASSUME OwnerInv, NEW d, packets' = [packets EXCEPT ![in_packet] = d]
    PROVE  Kept({in_packet})
<1>1. packets \in Seq(Data) /\ Taken(Pool) \subseteq Ids /\ in_packet \in Ids
  BY PacketsTyped DEF PoolOK
<1> HIDE DEF Data
<1>2. DOMAIN packets = Ids
  BY <1>1, LenProperties DEF Ids
<1>3. ASSUME NEW p \in Taken(Pool) \ {in_packet} PROVE packets'[p] = packets[p]
  BY <1>1, <1>2
<1> QED BY <1>3 DEF Kept

\* What the receiving half has of the queue and of the stream stays when it fills, or
\* empties, its input packet.
LEMMA InputPiped ==
    ASSUME OwnerInv, Kept({in_packet}), UNCHANGED queue
    PROVE  QueueData' = QueueData
<1> DEFINE X == {in_packet}
<1>1. Kept(X) /\ X \subseteq {in_packet} \cup Busy \cup held
  OBVIOUS
<1> HIDE DEF X
<1> QED BY <1>1, QueueSame

LEMMA HeaderPiped ==
    ASSUME SerialInv, PipeInv, ReadHeader
    PROVE  PipeInv' /\ UNCHANGED <<sent, posted>>
<1> DEFINE n == HEADER_SIZE - Len(inp)
           more == Copied(n)
           header == inp \o more
           R == Rest'
<1>1. /\ Reading /\ in_datalen = 0 /\ rpos' = rpos + Len(more)
      /\ \/ /\ Len(header) = HEADER_SIZE
            /\ in_datalen' = LengthIn(header) /\ in_channel' = ChannelIn(header)
            /\ packets' = [packets EXCEPT ![in_packet] = <<>>]
         \/ /\ packets' = [packets EXCEPT ![in_packet] = header]
            /\ UNCHANGED <<in_datalen, in_channel>>
      /\ UNCHANGED <<free, queue, out_pos, line, reading, in_packet, held, posted, sent>>
  BY DEF ReadHeader, InputCleared, outVars, LengthIn, ChannelIn
<1>2. OwnerInv /\ inp \in Data /\ n \in Nat \ {0}
  <2> DEFINE i == Len(inp)
  <2>1. OwnerInv /\ inp \in Data /\ i \in Nat /\ i < 6
    BY <1>1, PacketsTyped DEF SerialInv, InputTyped, Wanted, HEADER_SIZE
  <2> HIDE DEF i
  <2>2. HEADER_SIZE - i \in Nat \ {0}
    BY <2>1 DEF HEADER_SIZE
  <2> QED BY <2>1, <2>2 DEF i
<1> HIDE DEF n
<1>3. Kept({in_packet}) /\ QueueData' = QueueData
  BY <1>1, <1>2, ExceptKeeps, InputPiped
<1>4. more \in Data /\ R \in Data /\ Rest = more \o R
  BY <1>1, <1>2, <1>3, RestRead
<1> HIDE DEF more, R
<1>5. /\ header \in Data /\ R \o line \in Data /\ Unread = header \o (R \o line)
      /\ (header \o R) \o line = Unread /\ (<<>> \o R) \o line = R \o line
  BY <1>4, UnreadSplit
<1> HIDE DEF header
<1>6. QueueData \in Seq(Data) /\ sent \in Seq(Message)
  BY <1>2, QueueTyped DEF SerialInv, LineTyped
<1>7. CASE /\ Len(header) = HEADER_SIZE
           /\ in_datalen' = LengthIn(header) /\ in_channel' = ChannelIn(header)
           /\ packets' = [packets EXCEPT ![in_packet] = <<>>]
  <2>1. inp' = <<>>
    <3>1. <<>> \in Data
      BY DEF Data
    <3> QED BY <1>1, <1>2, <1>7, <3>1, InputFill
  <2>2. Unread' = R \o line
    BY <1>1, <1>5, <2>1 DEF Unread, R
  <2> DEFINE V == R \o line
  <2>3. V \in Data /\ PipeOf(QueueData, out_pos, header \o V, 0, in_channel, posted, sent)
    BY <1>1, <1>5 DEF PipeInv
  <2> HIDE DEF V
  <2>4. PipeOf(QueueData, out_pos, V, LengthIn(header), ChannelIn(header), posted, sent)
    BY <1>5, <1>6, <1>7, <2>3, PipeHeader
  <2>5. PipeInv'
    BY <1>1, <1>3, <1>7, <2>2, <2>4 DEF PipeInv, V
  <2> QED BY <1>1, <2>5
<1>8. CASE /\ packets' = [packets EXCEPT ![in_packet] = header]
           /\ UNCHANGED <<in_datalen, in_channel>>
  <2>1. inp' = header
    BY <1>1, <1>2, <1>5, <1>8, InputFill
  <2>2. Unread' = Unread
    BY <1>1, <1>5, <2>1 DEF Unread, R
  <2>3. PipeInv'
    BY <1>1, <1>3, <1>8, <2>2 DEF PipeInv
  <2> QED BY <1>1, <2>3
<1> QED BY <1>1, <1>7, <1>8

LEMMA PayloadPiped ==
    ASSUME SerialInv, PipeInv, NEW keeps \in BOOLEAN, ReadPayload(keeps)
    PROVE  /\ PipeInv' /\ UNCHANGED sent
           /\ \/ UNCHANGED posted
              \/ /\ Len(posted) < Len(sent)
                 /\ posted' = Append(posted, sent[Len(posted) + 1])
<1> DEFINE n == in_datalen - Len(inp)
           more == Copied(n)
           payload == inp \o more
           R == Rest'
           V == R \o line
           message == [channel |-> in_channel, data |-> payload]
<1>1. /\ Reading /\ in_datalen # 0 /\ rpos' = rpos + Len(more)
      /\ \/ /\ Len(payload) # in_datalen
            /\ packets' = [packets EXCEPT ![in_packet] = payload]
            /\ UNCHANGED <<free, in_datalen, in_packet, held, posted>>
         \/ /\ Len(payload) = in_datalen /\ in_datalen' = 0
            /\ \/ in_channel < 0 /\ UNCHANGED posted
               \/ ~(in_channel < 0) /\ posted' = Append(posted, message)
      /\ UNCHANGED <<queue, out_pos, line, reading, in_channel, sent>>
  BY DEF ReadPayload, outVars
<1>2. /\ OwnerInv /\ inp \in Data /\ n \in Nat \ {0} /\ in_channel \in -1..255
      /\ posted \in Seq([channel : 0..255, data : Data])
  BY <1>1, PacketsTyped DEF SerialInv, InputTyped, Wanted
<1> HIDE DEF n
<1>3. Kept({in_packet}) /\ QueueData' = QueueData
  BY <1>1, <1>2, PayloadKeeps, InputPiped
<1>4. more \in Data /\ R \in Data /\ Rest = more \o R
  BY <1>1, <1>2, <1>3, RestRead
<1>5. in_datalen' = 0 => inp' = <<>>
  BY PayloadRead
<1> HIDE DEF more, R
<1>6. /\ payload \in Data /\ V \in Data /\ Unread = payload \o V
      /\ (payload \o R) \o line = Unread /\ (<<>> \o R) \o line = V
  BY <1>4, UnreadSplit
<1> HIDE DEF payload
<1>7. QueueData \in Seq(Data) /\ sent \in Seq(Message)
  BY <1>2, QueueTyped DEF SerialInv, LineTyped
<1>8. CASE /\ Len(payload) # in_datalen
           /\ packets' = [packets EXCEPT ![in_packet] = payload]
           /\ UNCHANGED <<free, in_datalen, in_packet, held, posted>>
  <2>1. inp' = payload
    BY <1>1, <1>2, <1>6, <1>8, InputFill
  <2>2. Unread' = Unread
    BY <1>1, <1>6, <2>1 DEF Unread, R
  <2>3. PipeInv'
    BY <1>1, <1>3, <1>8, <2>2 DEF PipeInv
  <2> QED BY <1>1, <1>8, <2>3
<1>9. CASE /\ Len(payload) = in_datalen /\ in_datalen' = 0
           /\ \/ in_channel < 0 /\ UNCHANGED posted
              \/ ~(in_channel < 0) /\ posted' = Append(posted, message)
  <2>1. Unread' = V
    BY <1>1, <1>5, <1>6, <1>9 DEF Unread, R
  <2>2. PipeOf(QueueData, out_pos, payload \o V, in_datalen, in_channel, posted, sent)
    BY <1>6 DEF PipeInv
  <2> HIDE DEF V
  <2>3. /\ in_channel < 0 => PipeOf(QueueData, out_pos, V, 0, in_channel, posted, sent)
        /\ in_channel \in Nat =>
             /\ Len(posted) < Len(sent) /\ message = sent[Len(posted) + 1]
             /\ PipeOf(QueueData, out_pos, V, 0, in_channel, Append(posted, message), sent)
    <3> DEFINE Q == QueueData
               o == out_pos
               len == in_datalen
               c == in_channel
               P == posted
               S == sent
    <3>1. /\ Q \in Seq(Data) /\ S \in Seq(Message)
          /\ P \in Seq([channel : 0..255, data : Data])
          /\ payload \in Data /\ V \in Data /\ len # 0 /\ Len(payload) = len
          /\ PipeOf(Q, o, payload \o V, len, c, P, S)
      BY <1>1, <1>2, <1>6, <1>7, <1>9, <2>2
    <3> HIDE DEF Q, o, len, c, P, S, Data, Message
    <3>2. /\ c < 0 => PipeOf(Q, o, V, 0, c, P, S)
          /\ c \in Nat =>
               /\ Len(P) < Len(S) /\ [channel |-> c, data |-> payload] = S[Len(P) + 1]
               /\ PipeOf(Q, o, V, 0, c, Append(P, [channel |-> c, data |-> payload]), S)
      BY <3>1, PipePayload
    <3> QED BY <3>2 DEF Q, o, len, c, P, S
  <2> HIDE DEF message
  <2>4. CASE in_channel < 0 /\ UNCHANGED posted
    <3>1. PipeInv'
      BY <1>1, <1>3, <1>9, <2>1, <2>3, <2>4 DEF PipeInv
    <3> QED BY <1>1, <2>4, <3>1
  <2>5. CASE ~(in_channel < 0) /\ posted' = Append(posted, message)
    <3>1. in_channel \in Nat
      BY <1>2, <2>5
    <3>2. PipeInv'
      BY <1>1, <1>3, <1>9, <2>1, <2>3, <2>5, <3>1 DEF PipeInv
    <3> QED BY <1>1, <2>3, <2>5, <3>1, <3>2
  <2> QED BY <1>9, <2>4, <2>5
<1> QED BY <1>1, <1>8, <1>9

\* At first there is a stream, of which nothing has been sent.
LEMMA PipeInitially == Init => PipeInv
<1> SUFFICES ASSUME Init PROVE PipeInv
  OBVIOUS
<1> DEFINE s == [j \in Nat |-> 0]
<1>1. s \in Streams /\ s \in Places /\ \A i \in Nat : s[i] = 0
  BY DEF Streams, Places, Bytes
<1>2. /\ QueueData = <<>> /\ Len(QueueData) = 0 /\ out_pos = 0
      /\ Unread = <<>> /\ Len(Unread) = 0 /\ in_datalen = 0
      /\ sent = <<>> /\ posted = <<>> /\ Len(sent) = 0 /\ Len(posted) = 0
  <2>1. /\ queue = <<>> /\ packets = <<<<>>>> /\ line = <<>> /\ in_packet = 1 /\ Idle
        /\ out_pos = 0 /\ in_datalen = 0 /\ sent = <<>> /\ posted = <<>>
    BY DEF Init, Idle
  <2>2. Rest = <<>> /\ inp = <<>>
    BY <2>1 DEF Rest, inp
  <2>3. (<<>> \o <<>>) \o <<>> = <<>>
    OBVIOUS
  <2>4. Unread = <<>>
    BY <2>1, <2>2, <2>3 DEF Unread
  <2>5. QueueData = <<>>
    BY <2>1 DEF QueueData
  <2>6. Len(<<>>) = 0
    OBVIOUS
  <2> QED BY <2>1, <2>4, <2>5, <2>6
<1> HIDE DEF s
<1> DEFINE Q == QueueData
           U == Unread
<1>3. Writer(s, s, Q, 0, s[0 + 1])
  BY <1>1, <1>2 DEF Writer
<1>4. Framed(s, s, s, 0, sent)
  BY <1>1, <1>2 DEF Framed
<1>5. Coming(s, 0, U, s[1] + 0)
  BY <1>1, <1>2 DEF Coming, At
<1>6. Reader(0, 1, s, s, 0, 0, in_channel, posted, sent)
  BY <1>1, <1>2 DEF Reader
<1> HIDE DEF Q, U
<1>7. 0 \in Nat /\ 1 \in Nat
  OBVIOUS
<1>8. PipeOf(Q, 0, U, 0, in_channel, posted, sent)
  BY ZenonT(30), <1>1, <1>3, <1>4, <1>5, <1>6, <1>7 DEF PipeOf
<1> QED BY <1>2, <1>8 DEF PipeInv, Q, U

\* Every step keeps the pipe, and is one of the abstract pipe.
LEMMA PipeStep ==
    ASSUME SerialInv, PipeInv, [Next]_vars
    PROVE  /\ PipeInv'
           /\ \/ \E m \in Message : sent' = Append(sent, m) /\ UNCHANGED posted
              \/ /\ Len(posted) < Len(sent) /\ posted' = Append(posted, sent[Len(posted) + 1])
                 /\ UNCHANGED sent
              \/ UNCHANGED <<sent, posted>>
<1>1. ASSUME NEW m \in Message, serial_send(m)
      PROVE  PipeInv' /\ sent' = Append(sent, m) /\ UNCHANGED posted
  BY <1>1, SendPiped
<1>2. ASSUME NEW d \in Noise, SendNoise(d) PROVE PipeInv' /\ UNCHANGED <<sent, posted>>
  BY <1>2, NoisePiped
<1>3. ASSUME NEW n \in 1..MAX_PAYLOAD, WriteOut(n) PROVE PipeInv' /\ UNCHANGED <<sent, posted>>
  BY <1>3, WritePiped
<1>4. ASSUME NEW n \in 1..MAX_PAYLOAD, ReadIn(n) PROVE PipeInv' /\ UNCHANGED <<sent, posted>>
  BY <1>4, ReadPiped
<1>5. ASSUME ReadHeader PROVE PipeInv' /\ UNCHANGED <<sent, posted>>
  BY <1>5, HeaderPiped
<1>6. ASSUME NEW keeps \in BOOLEAN, ReadPayload(keeps)
      PROVE  /\ PipeInv' /\ UNCHANGED sent
             /\ \/ UNCHANGED posted
                \/ /\ Len(posted) < Len(sent)
                   /\ posted' = Append(posted, sent[Len(posted) + 1])
  BY <1>6, PayloadPiped
<1>7. ASSUME FreeRead PROVE PipeInv' /\ UNCHANGED <<sent, posted>>
  BY <1>7, FreePiped
<1>8. ASSUME NEW p \in Ids, ReceiverFrees(p) PROVE PipeInv' /\ UNCHANGED <<sent, posted>>
  BY <1>8, ReceiverPiped
<1>9. ASSUME UNCHANGED vars PROVE PipeInv' /\ UNCHANGED <<sent, posted>>
  <2>1. UNCHANGED <<packets, queue, out_pos, sent, line, reading, rpos, in_packet, in_datalen,
                    in_channel, posted>>
    BY <1>9 DEF vars, poolVars, outVars, inVars
  <2>2. QueueData' = QueueData /\ Unread' = Unread
    BY <2>1 DEF QueueData, Unread, Rest, inp, Idle
  <2> QED BY <2>1, <2>2 DEF PipeInv
<1> QED
  <2>1. ASSUME Next
        PROVE  \/ PipeInv' /\ UNCHANGED <<sent, posted>>
               \/ \E m \in Message : PipeInv' /\ sent' = Append(sent, m) /\ UNCHANGED posted
               \/ /\ PipeInv' /\ UNCHANGED sent
                  /\ \/ UNCHANGED posted
                     \/ /\ Len(posted) < Len(sent)
                        /\ posted' = Append(posted, sent[Len(posted) + 1])
    BY Zenon, <1>1, <1>2, <1>3, <1>4, <1>5, <1>6, <1>7, <1>8, <2>1 DEF Next
  <2>2. CASE Next
    BY Zenon, <2>1, <2>2
  <2>3. CASE UNCHANGED vars
    BY <1>9, <2>3
  <2> QED BY <2>2, <2>3

LEMMA PipeInductive == SerialInv /\ PipeInv /\ [Next]_vars => SerialInv' /\ PipeInv'
BY SerialInductive, PipeStep

\* The input packet has less in it than is wanted, and what is wanted is a header, or the
\* payload of a frame in the stream.
LEMMA InputImplied == SerialInv /\ PipeInv => InputFits
<1> SUFFICES ASSUME SerialInv, PipeInv PROVE InputFits
  OBVIOUS
<1>1. Len(inp) < (IF in_datalen = 0 THEN HEADER_SIZE ELSE in_datalen)
  BY DEF SerialInv, InputTyped, Wanted
<1>2. in_datalen # 0 => in_datalen \in 1..MAX_PAYLOAD
  BY DEF PipeInv, PipeOf, Reader
<1>3. in_datalen <= MAX_PAYLOAD
  BY <1>2, ConstantsTyped
<1> QED BY <1>1, <1>3 DEF InputFits

\* serial_fd_receive copies no more into the input packet than there is room for, whatever
\* the sizes of the reads: with frames of the sending half and of the emulator on the line
\* it never takes other bytes for a header, so that the length it goes by is never greater
\* than MAX_PAYLOAD; and there is always something left to copy.
THEOREM InputCorrect == Spec => []InputFits
BY SerialInitially, PipeInitially, PipeInductive, InputImplied, PTL DEF Spec

\* The line implements the pipe of messages of PacketPipe: however the bytes are cut by
\* writes and reads, and whatever is to be ignored between them, the packets posted are
\* those that were sent, in their order, and none twice. (That all of them come through is
\* checked only.)
THEOREM PipeCorrect == Spec => Pipe!Init /\ [][Pipe!Next]_<<sent, posted>>
<1>1. Init => Pipe!Init
  BY DEF Init, Pipe!Init
<1>2. SerialInv /\ PipeInv /\ [Next]_vars => [Pipe!Next]_<<sent, posted>>
  BY PipeStep DEF Pipe!Next, Pipe!Send, Pipe!Deliver
<1> QED
  BY <1>1, <1>2, SerialInitially, PipeInitially, PipeInductive, PTL DEF Spec
==============================================================================
