--------------------------- MODULE QemudLinkProofs ---------------------------
(***************************************************************************)
(* Theorems about what qemud's channels connect: that a message reaches    *)
(* only the client it is about, that the daemon and the emulator agree on  *)
(* who is connected but for what is on the line between them, and that a   *)
(* client gets the service of ConnectionService: its grant first, and then *)
(* the data sent to it, in order and without a gap.                        *)
(*                                                                         *)
(* All three hold as long as no channel number has been used twice, which  *)
(* is what last_channel < Channels says: the counter of the code is masked *)
(* and wraps around (qemud.c:1551), and a number that comes round again    *)
(* may still be that of messages on their way.                             *)
(*                                                                         *)
(* Link is the invariant, over what the daemon and the emulator know and   *)
(* what is on the line; each event is a lemma about Link, with no other    *)
(* state in it, and each action of the daemon is one event or two.         *)
(*                                                                         *)
(* OrderInv is the invariant of the service.  Flow says when something may *)
(* be on the line for a client, Served what a client has got and what is   *)
(* queued for it, and that the data on the line goes on where that ends.   *)
(***************************************************************************)
EXTENDS QemudProofs, SequenceFacts

\* One of the messages is of that kind on channel k.
Says(M, kind, k) == \E m \in M : m.kind = kind /\ m.channel = k

\* own is the client that each channel was ever given to. ch is the channel of each client,
\* T and F are the messages on the line to and from the emulator, em is the client that the
\* emulator has on each channel, last is the last channel used.
Owned(own, ch, T, F, em, last) ==
    /\ \A c \in Clients : ch[c] # NoChannel => ch[c] \in 1..last /\ own[ch[c]] = c
    /\ \A m \in T \cup F :
         m.channel \in 1..last /\ m.client \in Clients /\ own[m.channel] = m.client
    /\ \A k \in 0..Channels : em[k] # NoClient => k \in 1..last /\ own[k] = em[k]

\* A client the emulator has is there, or has been reported gone, or was thrown out.
EmulatorKnows(ch, T, em, ex) ==
    \A k \in 0..Channels : em[k] # NoClient /\ em[k] \notin ex =>
        ch[em[k]] = k \/ Says(T, "disconnect", k)

\* A request that the emulator has not seen has had no consequence yet.
RequestsNew(ch, T, F, em, ex) ==
    \A m \in T : m.kind = "connect" =>
        /\ em[m.channel] = NoClient
        /\ \A n \in F : n.channel # m.channel
        /\ m.client \in ex \/ ch[m.client] = m.channel \/ Says(T, "disconnect", m.channel)

\* A refusal or disconnection that is on the line is true, in both directions.
FarewellsTrue(ch, T, F, em) ==
    /\ \A n \in F : n.kind \in {"KO", "disconnect"} => em[n.channel] = NoClient
    /\ \A m \in T : m.kind = "disconnect" => \A c \in Clients : ch[c] # m.channel

\* A client that is registered, or is about to be, is the emulator's on its channel, or will
\* hear that it no longer is. reg is the set of the registered clients.
ClientsKnown(ch, reg, F, em) ==
    /\ \A c \in Clients : ch[c] # NoChannel /\ (c \in reg \/ Says(F, "OK", ch[c])) =>
         em[ch[c]] = c \/ Says(F, "disconnect", ch[c])
    /\ \A c \in reg : ch[c] # NoChannel

Link(own, ch, reg, T, F, em, ex, last) ==
    /\ own \in [0..Channels -> Clients \cup {NoClient}]
    /\ ch \in [Clients -> 0..Channels] /\ reg \subseteq Clients
    /\ em \in [0..Channels -> Clients \cup {NoClient}]
    /\ last \in 0..(Channels - 1)
    /\ Owned(own, ch, T, F, em, last)
    /\ EmulatorKnows(ch, T, em, ex)
    /\ RequestsNew(ch, T, F, em, ex)
    /\ FarewellsTrue(ch, T, F, em)
    /\ ClientsKnown(ch, reg, F, em)

-----------------------------------------------------------------------------
(* What the daemon does.                                                   *)

\* Data of a registered client goes on the line.
LEMMA LinkRelay ==
    ASSUME NEW own, NEW ch, NEW reg, NEW T, NEW F, NEW em, NEW ex, NEW last,
           Link(own, ch, reg, T, F, em, ex, last),
           NEW c \in reg, NEW e, e.kind = "data", e.channel = ch[c], e.client = c
    PROVE  Link(own, ch, reg, T \cup {e}, F, em, ex, last)
<1> USE DEF Link
<1>1. c \in Clients /\ ch[c] # NoChannel
  BY DEF ClientsKnown
<1>2. Owned(own, ch, T \cup {e}, F, em, last)
  BY <1>1 DEF Owned
<1>3. EmulatorKnows(ch, T \cup {e}, em, ex) /\ RequestsNew(ch, T \cup {e}, F, em, ex)
  BY DEF EmulatorKnows, RequestsNew, Says
<1>4. FarewellsTrue(ch, T \cup {e}, F, em)
  BY DEF FarewellsTrue
<1> QED BY <1>2, <1>3, <1>4

\* A client without a channel is given a number that has not been used.
LEMMA LinkOpen ==
    ASSUME NEW own, NEW ch, NEW reg, NEW T, NEW F, NEW em, NEW ex, NEW last,
           Link(own, ch, reg, T, F, em, ex, last),
           NEW c \in Clients, ch[c] = NoChannel, c \notin reg,
           NEW n \in Nat, last < n, n < Channels,
           NEW e, e.kind = "connect", e.channel = n, e.client = c
    PROVE  Link([own EXCEPT ![n] = c], [ch EXCEPT ![c] = n], reg, T \cup {e}, F, em, ex, n)
<1> USE DEF Link, NoChannel
<1> DEFINE o == [own EXCEPT ![n] = c]
           h == [ch EXCEPT ![c] = n]
<1>0. Channels \in Nat /\ last \in Nat
  BY QemudAssumption
<1>1. /\ n \in 0..Channels /\ n \in 1..n /\ n # Channels
      /\ \A k \in 1..last : k \in 1..n /\ k # n /\ k \in 0..Channels
  BY <1>0
<1>2. /\ o \in [0..Channels -> Clients \cup {NoClient}] /\ h \in [Clients -> 0..Channels]
      /\ o[n] = c /\ h[c] = n
      /\ \A k \in 1..last : o[k] = own[k]
      /\ \A d \in Clients : d # c => h[d] = ch[d]
  BY <1>1
<1> HIDE DEF o, h
<1>3. Owned(o, h, T \cup {e}, F, em, n)
  <2>1. \A d \in Clients : h[d] # NoChannel => h[d] \in 1..n /\ o[h[d]] = d
    BY <1>1, <1>2 DEF Owned
  <2>2. \A m \in T \cup F : m.channel \in 1..n /\ m.client \in Clients /\ o[m.channel] = m.client
    BY <1>1, <1>2 DEF Owned
  <2>3. \A k \in 0..Channels : em[k] # NoClient => k \in 1..n /\ o[k] = em[k]
    BY <1>1, <1>2 DEF Owned
  <2>4. e.channel \in 1..n /\ e.client \in Clients /\ o[e.channel] = e.client
    BY <1>1, <1>2
  <2> QED BY <2>1, <2>2, <2>3, <2>4 DEF Owned
<1>4. EmulatorKnows(h, T \cup {e}, em, ex)
  <2> SUFFICES ASSUME NEW k \in 0..Channels, em[k] # NoClient, em[k] \notin ex
               PROVE  h[em[k]] = k \/ Says(T \cup {e}, "disconnect", k)
    BY DEF EmulatorKnows
  <2>1. k \in 1..last /\ em[k] \in Clients
    BY DEF Owned
  <2>2. ch[em[k]] = k \/ Says(T, "disconnect", k)
    BY DEF EmulatorKnows
  <2>3. Says(T, "disconnect", k) => Says(T \cup {e}, "disconnect", k)
    BY DEF Says
  <2>4. ch[em[k]] = k => em[k] # c
    BY <1>0, <2>1
  <2> QED BY <1>2, <2>1, <2>2, <2>3, <2>4
<1>5. RequestsNew(h, T \cup {e}, F, em, ex)
  <2>1. em[n] = NoClient /\ \A m \in F : m.channel # n
    BY <1>1 DEF Owned
  <2>2. \A k : Says(T, "disconnect", k) => Says(T \cup {e}, "disconnect", k)
    BY DEF Says
  <2>3. \A m \in T : m.client \in Clients /\ m.channel \in 1..last
    BY DEF Owned
  <2>4. \A m \in T : ch[m.client] = m.channel => h[m.client] = m.channel
    BY <1>0, <1>1, <1>2, <2>3
  <2> QED BY <1>2, <2>1, <2>2, <2>4 DEF RequestsNew
<1>6. FarewellsTrue(h, T \cup {e}, F, em)
  BY <1>1, <1>2 DEF FarewellsTrue, Owned
<1>7. ClientsKnown(h, reg, F, em)
  <2>1. ~Says(F, "OK", n)
    BY <1>1 DEF Owned, Says
  <2> QED BY SMTT(30), <1>1, <1>2, <2>1 DEF ClientsKnown
<1>8. n \in 0..(Channels - 1)
  BY <1>0
<1> QED BY <1>2, <1>3, <1>4, <1>5, <1>6, <1>7, <1>8 DEF o, h

\* A client gives up its channel, if it has one: it is thrown out, or the emulator does not
\* have it any more and has seen its request.
LEMMA LinkDrop ==
    ASSUME NEW own, NEW ch, NEW reg, NEW T, NEW F, NEW em, NEW ex, NEW last,
           Link(own, ch, reg, T, F, em, ex, last),
           NEW c \in Clients, NEW exNow, ex \subseteq exNow,
           \/ c \in exNow
           \/ ch[c] = NoChannel
           \/ /\ em[ch[c]] = NoClient
              /\ \A m \in T : m.kind = "connect" => m.channel # ch[c]
    PROVE  Link(own, [ch EXCEPT ![c] = NoChannel], reg \ {c}, T, F, em, exNow, last)
<1> USE DEF Link
<1> DEFINE h == [ch EXCEPT ![c] = NoChannel]
<1>1. /\ h \in [Clients -> 0..Channels] /\ h[c] = NoChannel
      /\ \A d \in Clients : d # c => h[d] = ch[d]
  BY NoChannelType
<1> HIDE DEF h
<1>2. Owned(own, h, T, F, em, last)
  BY <1>1 DEF Owned
<1>3. EmulatorKnows(h, T, em, exNow)
  <2> SUFFICES ASSUME NEW k \in 0..Channels, em[k] # NoClient, em[k] \notin exNow
               PROVE  h[em[k]] = k \/ Says(T, "disconnect", k)
    BY DEF EmulatorKnows
  <2>1. em[k] \in Clients
    OBVIOUS
  <2>2. ch[em[k]] = k \/ Says(T, "disconnect", k)
    BY DEF EmulatorKnows
  <2>3. k # NoChannel
    BY QemudAssumption DEF Owned, NoChannel
  <2>4. em[k] = c /\ ch[c] = k => FALSE
    BY <2>3
  <2> QED BY <1>1, <2>1, <2>2, <2>4
<1>4. RequestsNew(h, T, F, em, exNow)
  <2> SUFFICES ASSUME NEW m \in T, m.kind = "connect", m.client \notin exNow
               PROVE  /\ em[m.channel] = NoClient
                      /\ \A n \in F : n.channel # m.channel
                      /\ h[m.client] = m.channel \/ Says(T, "disconnect", m.channel)
    BY DEF RequestsNew
  <2>1. m.client \in Clients /\ m.channel # NoChannel
    BY QemudAssumption DEF Owned, NoChannel
  <2>2. /\ em[m.channel] = NoClient
        /\ \A n \in F : n.channel # m.channel
        /\ ch[m.client] = m.channel \/ Says(T, "disconnect", m.channel)
    BY DEF RequestsNew
  <2>3. m.client = c /\ ch[c] = m.channel => FALSE
    BY <2>1
  <2> QED BY <1>1, <2>1, <2>2, <2>3
<1>5. FarewellsTrue(h, T, F, em)
  <2>1. \A m \in T : m.channel # NoChannel
    BY QemudAssumption DEF Owned, NoChannel
  <2> QED BY <1>1, <2>1 DEF FarewellsTrue
<1>6. ClientsKnown(h, reg \ {c}, F, em)
  BY <1>1 DEF ClientsKnown
<1> QED BY <1>1, <1>2, <1>3, <1>4, <1>5, <1>6 DEF h

\* A client that has a channel hangs up, and the emulator is told.
LEMMA LinkLeave ==
    ASSUME NEW own, NEW ch, NEW reg, NEW T, NEW F, NEW em, NEW ex, NEW last,
           Link(own, ch, reg, T, F, em, ex, last),
           NEW c \in Clients, ch[c] # NoChannel,
           NEW e, e.kind = "disconnect", e.channel = ch[c], e.client = c
    PROVE  Link(own, [ch EXCEPT ![c] = NoChannel], reg \ {c}, T \cup {e}, F, em, ex, last)
<1> USE DEF Link
<1> DEFINE h == [ch EXCEPT ![c] = NoChannel]
<1>1. /\ h \in [Clients -> 0..Channels] /\ h[c] = NoChannel
      /\ \A d \in Clients : d # c => h[d] = ch[d]
  BY NoChannelType
<1> HIDE DEF h
<1>2. Owned(own, h, T \cup {e}, F, em, last)
  BY <1>1 DEF Owned
<1>3. \A k : Says(T, "disconnect", k) => Says(T \cup {e}, "disconnect", k)
  BY DEF Says
<1>4. Says(T \cup {e}, "disconnect", ch[c])
  BY DEF Says
<1>5. EmulatorKnows(h, T \cup {e}, em, ex)
  BY <1>1, <1>3, <1>4 DEF EmulatorKnows
<1>6. RequestsNew(h, T \cup {e}, F, em, ex)
  <2>1. \A m \in T : m.client \in Clients
    BY DEF Owned
  <2> QED BY <1>1, <1>3, <1>4, <2>1 DEF RequestsNew
<1>7. FarewellsTrue(h, T \cup {e}, F, em)
  <2>1. \A m \in T : m.channel # NoChannel
    BY QemudAssumption DEF Owned, NoChannel
  <2>2. \A d \in Clients : h[d] # ch[c]
    BY <1>1 DEF Owned
  <2> QED BY <1>1, <2>1, <2>2 DEF FarewellsTrue
<1>8. ClientsKnown(h, reg \ {c}, F, em)
  BY <1>1 DEF ClientsKnown
<1> QED BY <1>1, <1>2, <1>5, <1>6, <1>7, <1>8 DEF h

\* A client whose request is granted is registered.
LEMMA LinkRegister ==
    ASSUME NEW own, NEW ch, NEW reg, NEW T, NEW F, NEW em, NEW ex, NEW last,
           Link(own, ch, reg, T, F, em, ex, last),
           NEW c \in Clients, NEW m \in F, m.kind = "OK", m.channel = ch[c]
    PROVE  Link(own, ch, reg \cup {c}, T, F, em, ex, last)
<1> USE DEF Link
<1>1. ch[c] # NoChannel
  BY QemudAssumption DEF Owned, NoChannel
<1>2. Says(F, "OK", ch[c])
  BY DEF Says
<1>3. ClientsKnown(ch, reg \cup {c}, F, em)
  BY <1>1, <1>2 DEF ClientsKnown
<1> QED BY <1>3

\* A message from the emulator has been dealt with.
LEMMA LinkTake ==
    ASSUME NEW own, NEW ch, NEW reg, NEW T, NEW F, NEW em, NEW ex, NEW last,
           Link(own, ch, reg, T, F, em, ex, last),
           NEW m \in F, NEW FNow, FNow \subseteq F, F \subseteq FNow \cup {m},
           m.kind = "disconnect" => \A c \in Clients : ch[c] # m.channel
    PROVE  Link(own, ch, reg, T, FNow, em, ex, last)
<1> USE DEF Link
<1>1. Owned(own, ch, T, FNow, em, last)
  BY DEF Owned
<1>2. RequestsNew(ch, T, FNow, em, ex)
  BY DEF RequestsNew
<1>3. FarewellsTrue(ch, T, FNow, em)
  BY DEF FarewellsTrue
<1>4. ClientsKnown(ch, reg, FNow, em)
  BY DEF ClientsKnown, Says
<1> QED BY <1>1, <1>2, <1>3, <1>4


-----------------------------------------------------------------------------
(* What the emulator does.                                                 *)

\* It grants a request, the first message on its channel.
LEMMA LinkGrant ==
    ASSUME NEW own, NEW ch, NEW reg, NEW T, NEW F, NEW em, NEW ex, NEW last,
           Link(own, ch, reg, T, F, em, ex, last),
           NEW m \in T, NEW TNow, TNow \subseteq T, T \subseteq TNow \cup {m},
           m.kind = "connect", \A n \in TNow : n.channel = m.channel => n.kind # "connect",
           NEW e, e.kind = "OK", e.channel = m.channel, e.client = m.client
    PROVE  Link(own, ch, reg, TNow, F \cup {e}, [em EXCEPT ![m.channel] = m.client], ex, last)
<1> USE DEF Link
<1> DEFINE x == [em EXCEPT ![m.channel] = m.client]
<1>0. m.channel \in 1..last /\ m.client \in Clients /\ own[m.channel] = m.client
  BY DEF Owned
<1>1. m.channel \in 0..Channels
  BY <1>0, QemudAssumption
<1>2. /\ x \in [0..Channels -> Clients \cup {NoClient}] /\ x[m.channel] = m.client
      /\ \A k \in 0..Channels : k # m.channel => x[k] = em[k]
  BY <1>0, <1>1
<1>3. /\ em[m.channel] = NoClient
      /\ \A n \in F : n.channel # m.channel
      /\ m.client \in ex \/ ch[m.client] = m.channel \/ Says(T, "disconnect", m.channel)
  BY DEF RequestsNew
<1> HIDE DEF x
<1>4. \A k : Says(T, "disconnect", k) => Says(TNow, "disconnect", k)
  BY DEF Says
<1>5. Owned(own, ch, TNow, F \cup {e}, x, last)
  BY <1>0, <1>2 DEF Owned
<1>6. EmulatorKnows(ch, TNow, x, ex)
  <2> SUFFICES ASSUME NEW k \in 0..Channels, x[k] # NoClient, x[k] \notin ex
               PROVE  ch[x[k]] = k \/ Says(TNow, "disconnect", k)
    BY DEF EmulatorKnows
  <2>1. CASE k = m.channel
    BY <1>2, <1>3, <1>4, <2>1
  <2>2. CASE k # m.channel
    BY <1>2, <1>4, <2>2 DEF EmulatorKnows
  <2> QED BY <2>1, <2>2
<1>7. RequestsNew(ch, TNow, F \cup {e}, x, ex)
  <2> SUFFICES ASSUME NEW n \in TNow, n.kind = "connect"
               PROVE  /\ x[n.channel] = NoClient
                      /\ \A f \in F \cup {e} : f.channel # n.channel
                      /\ \/ n.client \in ex \/ ch[n.client] = n.channel
                         \/ Says(TNow, "disconnect", n.channel)
    BY DEF RequestsNew
  <2>1. n.channel # m.channel /\ n.channel \in 0..Channels
    BY QemudAssumption DEF Owned
  <2>2. /\ em[n.channel] = NoClient
        /\ \A f \in F : f.channel # n.channel
        /\ n.client \in ex \/ ch[n.client] = n.channel \/ Says(T, "disconnect", n.channel)
    BY DEF RequestsNew
  <2> QED BY <1>2, <1>4, <2>1, <2>2
<1>8. FarewellsTrue(ch, TNow, F \cup {e}, x)
  <2>1. \A n \in F : n.channel # m.channel /\ n.channel \in 0..Channels
    BY <1>3, QemudAssumption DEF Owned
  <2> QED BY <1>2, <2>1 DEF FarewellsTrue
<1>9. ClientsKnown(ch, reg, F \cup {e}, x)
  <2> SUFFICES ASSUME NEW c \in Clients, ch[c] # NoChannel,
                      c \in reg \/ Says(F \cup {e}, "OK", ch[c])
               PROVE  x[ch[c]] = c \/ Says(F \cup {e}, "disconnect", ch[c])
    BY DEF ClientsKnown
  <2>1. own[ch[c]] = c /\ ch[c] \in 0..Channels
    BY DEF Owned
  <2>2. CASE ch[c] = m.channel
    BY <1>0, <1>2, <2>1, <2>2
  <2>3. CASE ch[c] # m.channel
    <3>1. Says(F \cup {e}, "OK", ch[c]) => Says(F, "OK", ch[c])
      BY <2>3 DEF Says
    <3>2. em[ch[c]] = c \/ Says(F, "disconnect", ch[c])
      BY <3>1 DEF ClientsKnown
    <3>3. Says(F, "disconnect", ch[c]) => Says(F \cup {e}, "disconnect", ch[c])
      BY DEF Says
    <3> QED BY <1>2, <2>1, <2>3, <3>2, <3>3
  <2> QED BY <2>2, <2>3
<1>10. \A c \in reg : ch[c] # NoChannel
  BY DEF ClientsKnown
<1> QED BY <1>2, <1>5, <1>6, <1>7, <1>8, <1>9 DEF x

\* It refuses one.
LEMMA LinkRefuse ==
    ASSUME NEW own, NEW ch, NEW reg, NEW T, NEW F, NEW em, NEW ex, NEW last,
           Link(own, ch, reg, T, F, em, ex, last),
           NEW m \in T, NEW TNow, TNow \subseteq T, T \subseteq TNow \cup {m},
           m.kind = "connect", \A n \in TNow : n.channel = m.channel => n.kind # "connect",
           NEW e, e.kind = "KO", e.channel = m.channel, e.client = m.client
    PROVE  Link(own, ch, reg, TNow, F \cup {e}, em, ex, last)
<1> USE DEF Link
<1>0. em[m.channel] = NoClient
  BY DEF RequestsNew
<1>1. \A k : Says(T, "disconnect", k) => Says(TNow, "disconnect", k)
  BY DEF Says
<1>2. Owned(own, ch, TNow, F \cup {e}, em, last)
  BY DEF Owned
<1>3. EmulatorKnows(ch, TNow, em, ex) /\ RequestsNew(ch, TNow, F \cup {e}, em, ex)
  BY <1>1 DEF EmulatorKnows, RequestsNew
<1>4. FarewellsTrue(ch, TNow, F \cup {e}, em)
  BY <1>0 DEF FarewellsTrue
<1>5. ClientsKnown(ch, reg, F \cup {e}, em)
  BY DEF ClientsKnown, Says
<1> QED BY <1>2, <1>3, <1>4, <1>5

\* It notes that a client is gone. No request comes after on that channel.
LEMMA LinkGone ==
    ASSUME NEW own, NEW ch, NEW reg, NEW T, NEW F, NEW em, NEW ex, NEW last,
           Link(own, ch, reg, T, F, em, ex, last),
           NEW m \in T, NEW TNow, TNow \subseteq T, T \subseteq TNow \cup {m},
           m.kind = "disconnect", \A n \in TNow : n.channel = m.channel => n.kind # "connect"
    PROVE  Link(own, ch, reg, TNow, F, [em EXCEPT ![m.channel] = NoClient], ex, last)
<1> USE DEF Link
<1> DEFINE x == [em EXCEPT ![m.channel] = NoClient]
<1>1. m.channel \in 0..Channels
  BY QemudAssumption DEF Owned
<1>2. /\ x \in [0..Channels -> Clients \cup {NoClient}] /\ x[m.channel] = NoClient
      /\ \A k \in 0..Channels : k # m.channel => x[k] = em[k]
  BY <1>1
<1> HIDE DEF x
<1>3. \A k : k # m.channel /\ Says(T, "disconnect", k) => Says(TNow, "disconnect", k)
  BY DEF Says
<1>4. Owned(own, ch, TNow, F, x, last)
  BY <1>2 DEF Owned
<1>5. EmulatorKnows(ch, TNow, x, ex)
  BY <1>2, <1>3 DEF EmulatorKnows
<1>6. RequestsNew(ch, TNow, F, x, ex)
  <2>1. \A n \in TNow : n.channel \in 0..Channels
    BY QemudAssumption DEF Owned
  <2> QED BY <1>2, <1>3, <2>1 DEF RequestsNew
<1>7. FarewellsTrue(ch, TNow, F, x)
  <2>1. \A n \in F : n.channel \in 0..Channels
    BY QemudAssumption DEF Owned
  <2> QED BY <1>2, <2>1 DEF FarewellsTrue
<1>8. ClientsKnown(ch, reg, F, x)
  <2>1. \A c \in Clients : ch[c] # m.channel
    BY DEF FarewellsTrue
  <2> QED BY <1>2, <2>1 DEF ClientsKnown
<1> QED BY <1>2, <1>4, <1>5, <1>6, <1>7, <1>8 DEF x

\* It reads data.
LEMMA LinkPass ==
    ASSUME NEW own, NEW ch, NEW reg, NEW T, NEW F, NEW em, NEW ex, NEW last,
           Link(own, ch, reg, T, F, em, ex, last),
           NEW m \in T, NEW TNow, TNow \subseteq T, T \subseteq TNow \cup {m}, m.kind = "data"
    PROVE  Link(own, ch, reg, TNow, F, em, ex, last)
<1> USE DEF Link
<1>1. \A k : Says(T, "disconnect", k) => Says(TNow, "disconnect", k)
  BY DEF Says
<1>2. Owned(own, ch, TNow, F, em, last) /\ FarewellsTrue(ch, TNow, F, em)
  BY DEF Owned, FarewellsTrue
<1>3. EmulatorKnows(ch, TNow, em, ex) /\ RequestsNew(ch, TNow, F, em, ex)
  BY <1>1 DEF EmulatorKnows, RequestsNew
<1> QED BY <1>2, <1>3

\* It sends data to a client it has.
LEMMA LinkSend ==
    ASSUME NEW own, NEW ch, NEW reg, NEW T, NEW F, NEW em, NEW ex, NEW last,
           Link(own, ch, reg, T, F, em, ex, last),
           NEW k \in 0..Channels, em[k] # NoClient,
           NEW e, e.kind = "data", e.channel = k, e.client = em[k]
    PROVE  Link(own, ch, reg, T, F \cup {e}, em, ex, last)
<1> USE DEF Link
<1>1. Owned(own, ch, T, F \cup {e}, em, last)
  BY DEF Owned
<1>2. RequestsNew(ch, T, F \cup {e}, em, ex) /\ FarewellsTrue(ch, T, F \cup {e}, em)
  BY DEF RequestsNew, FarewellsTrue
<1>3. ClientsKnown(ch, reg, F \cup {e}, em)
  BY DEF ClientsKnown, Says
<1> QED BY <1>1, <1>2, <1>3

\* It disconnects one.
LEMMA LinkCut ==
    ASSUME NEW own, NEW ch, NEW reg, NEW T, NEW F, NEW em, NEW ex, NEW last,
           Link(own, ch, reg, T, F, em, ex, last),
           NEW k \in 0..Channels, em[k] # NoClient,
           NEW e, e.kind = "disconnect", e.channel = k, e.client = em[k]
    PROVE  Link(own, ch, reg, T, F \cup {e}, [em EXCEPT ![k] = NoClient], ex, last)
<1> USE DEF Link
<1> DEFINE x == [em EXCEPT ![k] = NoClient]
<1>1. /\ x \in [0..Channels -> Clients \cup {NoClient}] /\ x[k] = NoClient
      /\ \A j \in 0..Channels : j # k => x[j] = em[j]
  OBVIOUS
<1> HIDE DEF x
<1>2. Owned(own, ch, T, F \cup {e}, x, last)
  BY <1>1 DEF Owned
<1>3. EmulatorKnows(ch, T, x, ex)
  BY <1>1 DEF EmulatorKnows
<1>4. RequestsNew(ch, T, F \cup {e}, x, ex)
  <2>1. \A m \in T : m.channel \in 0..Channels
    BY QemudAssumption DEF Owned
  <2> QED BY <1>1, <2>1 DEF RequestsNew
<1>5. FarewellsTrue(ch, T, F \cup {e}, x)
  <2>1. \A n \in F : n.channel \in 0..Channels
    BY QemudAssumption DEF Owned
  <2> QED BY <1>1, <2>1 DEF FarewellsTrue
<1>6. ClientsKnown(ch, reg, F \cup {e}, x)
  <2>1. Says(F \cup {e}, "disconnect", k)
    BY DEF Says
  <2>2. \A j : Says(F, "disconnect", j) => Says(F \cup {e}, "disconnect", j)
    BY DEF Says
  <2>3. \A j : Says(F \cup {e}, "OK", j) => Says(F, "OK", j)
    BY DEF Says
  <2> QED BY <1>1, <2>1, <2>2, <2>3 DEF ClientsKnown
<1> QED BY <1>1, <1>2, <1>3, <1>4, <1>5, <1>6 DEF x


-----------------------------------------------------------------------------
(* The handlers that the looper's hooks call.                              *)

HookUsers(l) == {l.hooks[i].user : i \in 1..Len(l.hooks)}

\* Hooks with the users that hooks of before had.
LEMMA UsersKept ==
    ASSUME NEW l, NEW m, \A i \in 1..Len(m.hooks) :
             \E j \in 1..Len(l.hooks) : m.hooks[i].user = l.hooks[j].user
    PROVE  HookUsers(m) \subseteq HookUsers(l)
BY DEF HookUsers

LEMMA ModifyUsers ==
    ASSUME NEW U, NEW l \in Loopers(U), NEW fd, NEW i, NEW mask
    PROVE  HookUsers(Modify(l, fd, i, mask)) = HookUsers(l)
<1>1. Modify(l, fd, i, mask).hooks = l.hooks
  BY DEF Modify, Loopers
<1> QED BY <1>1 DEF HookUsers

\* One hook is replaced by one with the same user.
LEMMA ReplaceUsers ==
    ASSUME NEW U, NEW l \in Loopers(U), NEW i \in 1..Len(l.hooks), NEW h,
           h.user = l.hooks[i].user, NEW m, m.hooks = [l.hooks EXCEPT ![i] = h]
    PROVE  HookUsers(m) \subseteq HookUsers(l)
<1>1. l.hooks \in Seq(Hooks(U))
  BY DEF Loopers
<1>2. /\ Len(m.hooks) = Len(l.hooks)
      /\ \A j \in 1..Len(l.hooks) : m.hooks[j] = IF j = i THEN h ELSE l.hooks[j]
  BY <1>1
<1> QED BY <1>2, UsersKept

LEMMA SetWantedUsers ==
    ASSUME NEW U, NEW l \in Loopers(U), NEW fd \in Fds, NEW i \in 1..Len(l.hooks),
           NEW mask \in SUBSET Events
    PROVE  HookUsers(SetWanted(l, fd, i, mask)) \subseteq HookUsers(l)
<1> DEFINE h == [l.hooks[i] EXCEPT !.wanted = mask]
           m == [l EXCEPT !.hooks[i].wanted = mask]
<1>1. l.hooks[i] \in Hooks(U) /\ l.hooks \in Seq(Hooks(U))
  BY HookAt DEF Loopers
<1>2. h \in Hooks(U) /\ h.user = l.hooks[i].user
  BY <1>1 DEF Hooks
<1>3. m.hooks = [l.hooks EXCEPT ![i] = h]
  BY DEF Loopers
<1>4. m \in Loopers(U)
  <2>1. [l.hooks EXCEPT ![i] = h] \in Seq(Hooks(U))
    <3> HIDE DEF h
    <3> QED BY <1>1, <1>2
  <2> QED BY <2>1 DEF Loopers
<1> HIDE DEF h, m
<1>5. HookUsers(m) \subseteq HookUsers(l)
  BY <1>2, <1>3, ReplaceUsers
<1>6. HookUsers(SetWanted(l, fd, i, mask)) = HookUsers(m)
  BY <1>4, ModifyUsers DEF SetWanted, m
<1> QED BY <1>5, <1>6

LEMMA EnableUsers ==
    ASSUME NEW U, NEW l \in Loopers(U), NEW fd, NEW event \in Events
    PROVE  HookUsers(Enable(l, fd, event)) \subseteq HookUsers(l)
<1>1. CASE Found(l, fd) = {} \/ event \in l.hooks[Find(l, fd)].wanted
  BY <1>1 DEF Enable
<1>2. CASE ~(Found(l, fd) = {} \/ event \in l.hooks[Find(l, fd)].wanted)
  <2>1. fd \in Fds /\ Find(l, fd) \in 1..Len(l.hooks)
    BY <1>2, FindInRange, FoundFd
  <2>2. l.hooks[Find(l, fd)] \in Hooks(U)
    BY <2>1, HookAt
  <2>3. l.hooks[Find(l, fd)].wanted \cup {event} \in SUBSET Events
    BY <2>2 DEF Hooks
  <2> QED BY <1>2, <2>1, <2>3, SetWantedUsers DEF Enable
<1> QED BY <1>1, <1>2

LEMMA DisableUsers ==
    ASSUME NEW U, NEW l \in Loopers(U), NEW fd, NEW event \in Events
    PROVE  HookUsers(Disable(l, fd, event)) \subseteq HookUsers(l)
<1>1. CASE Found(l, fd) = {} \/ event \notin l.hooks[Find(l, fd)].wanted
  BY <1>1 DEF Disable
<1>2. CASE ~(Found(l, fd) = {} \/ event \notin l.hooks[Find(l, fd)].wanted)
  <2>1. fd \in Fds /\ Find(l, fd) \in 1..Len(l.hooks)
    BY <1>2, FindInRange, FoundFd
  <2>2. l.hooks[Find(l, fd)] \in Hooks(U)
    BY <2>1, HookAt
  <2>3. l.hooks[Find(l, fd)].wanted \ {event} \in SUBSET Events
    BY <2>2 DEF Hooks
  <2> QED BY <1>2, <2>1, <2>3, SetWantedUsers DEF Disable
<1> QED BY <1>1, <1>2

LEMMA DelUsers ==
    ASSUME NEW U, NEW l \in Loopers(U), NEW fd
    PROVE  HookUsers(Del(l, fd)) \subseteq HookUsers(l)
<1>1. CASE Found(l, fd) = {}
  BY <1>1 DEF Del
<1>2. CASE Found(l, fd) # {}
  <2> DEFINE i == Find(l, fd)
             h == [l.hooks[i] EXCEPT !.state = "closing"]
  <2>1. i \in 1..Len(l.hooks)
    BY <1>2, FindInRange
  <2>2. Del(l, fd).hooks = [l.hooks EXCEPT ![i] = h]
    BY <1>2 DEF Del, Loopers
  <2> HIDE DEF i
  <2>3. h.user = l.hooks[i].user
    BY <2>1, HookAt DEF Hooks
  <2> HIDE DEF h
  <2> QED BY <2>1, <2>2, <2>3, ReplaceUsers
<1> QED BY <1>1, <1>2

LEMMA UnmarkUsers ==
    ASSUME NEW U, NEW l \in Loopers(U), NEW i \in 1..Len(l.hooks)
    PROVE  HookUsers(Unmark(l, i)) \subseteq HookUsers(l)
<1> DEFINE h == [l.hooks[i] EXCEPT !.events = {}]
<1>1. h.user = l.hooks[i].user
  BY HookAt DEF Hooks
<1>2. Unmark(l, i).hooks = [l.hooks EXCEPT ![i] = h]
  BY DEF Unmark, Loopers
<1> HIDE DEF h
<1> QED BY <1>1, <1>2, ReplaceUsers

LEMMA AddHookUsers ==
    ASSUME NEW U, NEW l \in Loopers(U), NEW fd \in Fds, NEW u \in U
    PROVE  HookUsers(AddHook(l, fd, u)) \subseteq HookUsers(l) \cup {u}
<1> DEFINE h == [fd |-> fd, user |-> u, wanted |-> {}, events |-> {}, state |-> "open"]
           m == AddHook(l, fd, u)
<1>1. h \in Hooks(U) /\ h.user = u /\ l.hooks \in Seq(Hooks(U))
  BY DEF Hooks, Loopers
<1>2. m.hooks = Append(l.hooks, h)
  BY DEF AddHook, Loopers
<1> HIDE DEF h, m
<1>3. /\ Len(m.hooks) = Len(l.hooks) + 1 /\ Len(l.hooks) \in Nat
      /\ \A i \in 1..Len(l.hooks) : m.hooks[i] = l.hooks[i]
      /\ m.hooks[Len(l.hooks) + 1] = h
  BY <1>1, <1>2
<1>4. \A i \in 1..Len(m.hooks) : i \in 1..Len(l.hooks) \/ i = Len(l.hooks) + 1
  BY <1>3
<1> QED BY <1>1, <1>3, <1>4 DEF HookUsers, m

LEMMA MarkedUsers ==
    ASSUME NEW U, NEW l \in Loopers(U), NEW ready, NEW m \in Marked(l, ready)
    PROVE  HookUsers(m) \subseteq HookUsers(l)
<1>1. l.hooks \in Seq(Hooks(U)) /\ \A i \in 1..Len(l.hooks) : l.hooks[i] \in Hooks(U)
  BY DEF Loopers
<1>2. PICK last \in [1..Len(l.hooks) -> Fds] :
        m = [l EXCEPT !.hooks = [i \in 1..Len(l.hooks) |-> [l.hooks[i] EXCEPT
                !.events = IF Pointing(l, ready, i) = {} THEN {}
                           ELSE Reported(l, last[i], ready[last[i]])]]]
  BY DEF Marked, Loopers
<1> DEFINE ev(i) == IF Pointing(l, ready, i) = {} THEN {}
                    ELSE Reported(l, last[i], ready[last[i]])
           hooks == [i \in 1..Len(l.hooks) |-> [l.hooks[i] EXCEPT !.events = ev(i)]]
<1>3. m.hooks = hooks
  BY <1>2 DEF Loopers
<1> HIDE DEF ev
<1>4. Len(l.hooks) \in Nat /\ Len(hooks) = Len(l.hooks)
  BY <1>1
<1>5. \A i \in 1..Len(l.hooks) : hooks[i].user = l.hooks[i].user
  BY <1>1 DEF Hooks
<1> HIDE DEF hooks
<1> QED BY <1>3, <1>4, <1>5, UsersKept

LEMMA SweepUsers ==
    ASSUME NEW U, NEW l \in Loopers(U), ClosingHooks(l) # {}
    PROVE  HookUsers(Sweep(l)) \subseteq HookUsers(l)
<1> DEFINE n == Len(l.hooks)
           f == FirstClosing(l)
           all == [l.hooks EXCEPT ![f] = LastHook(l)]
           m == Moved(l)
<1>1. l.hooks \in Seq(Hooks(U)) /\ n \in Nat
  BY DEF Loopers
<1>2. f \in 1..n /\ n >= 1
  <2>1. ClosingHooks(l) \in SUBSET Nat
    BY <1>1 DEF ClosingHooks
  <2>2. \E i \in ClosingHooks(l) : \A j \in ClosingHooks(l) : i <= j
    BY <2>1, LeastNatural
  <2>3. f \in ClosingHooks(l)
    BY <2>2 DEF FirstClosing
  <2>4. f \in 1..n
    BY <2>3 DEF ClosingHooks
  <2> HIDE DEF f, n
  <2> QED BY <1>1, <2>4
<1>3. m.hooks = SubSeq(all, 1, n - 1)
  BY DEF Moved, Loopers
<1>4. LastHook(l) = l.hooks[n] /\ LastHook(l) \in Hooks(U) /\ n \in 1..n
  BY <1>1, <1>2, HookAt DEF LastHook
<1> HIDE DEF f
<1>5. all \in Seq(Hooks(U)) /\ Len(all) = n
      /\ \A i \in 1..n : all[i] = IF i = f THEN LastHook(l) ELSE l.hooks[i]
  BY <1>1, <1>2, <1>4
<1> HIDE DEF all, m
<1>6. Len(m.hooks) = n - 1 /\ \A i \in 1..(n - 1) : m.hooks[i] = all[i]
  BY <1>1, <1>2, <1>3, <1>5
<1>7. \A i \in 1..Len(m.hooks) : \E j \in 1..n : m.hooks[i].user = l.hooks[j].user
  <2> SUFFICES ASSUME NEW i \in 1..Len(m.hooks)
               PROVE  \E j \in 1..n : m.hooks[i].user = l.hooks[j].user
    OBVIOUS
  <2>1. i \in 1..(n - 1) /\ i \in 1..n
    BY <1>1, <1>6
  <2> HIDE DEF n
  <2> QED BY <1>4, <1>5, <1>6, <2>1
<1>8. HookUsers(m) \subseteq HookUsers(l)
  BY <1>7, UsersKept
<1>9. HookUsers(Sweep(l)) = HookUsers(m)
  <2>1. SubSeq(all, 1, n - 1) \in Seq(Hooks(U))
    <3> HIDE DEF n
    <3> QED BY <1>1, <1>2, <1>5
  <2>2. m = [l EXCEPT !.hooks = SubSeq(all, 1, n - 1)]
    BY DEF m, Moved, Loopers, all, f
  <2>3. m \in Loopers(U)
    BY <2>1, <2>2 DEF Loopers
  <2> QED BY <2>3, ModifyUsers DEF Sweep, m
<1> QED BY <1>8, <1>9


-----------------------------------------------------------------------------
(* The connections.                                                        *)

\* A connection in the backlog is not accepted yet, and is there once. A handler that a hook
\* calls has been accepted. A connection without its client has no channel.
ConnsInv ==
    /\ Distinct(backlog)
    /\ \A c \in Range(backlog) : conn[c].state = "none"
    /\ \A c \in HookUsers(looper) : conn[c].state # "none"
    /\ \A c \in Clients : conn[c].state # "live" =>
         conn[c].channel = NoChannel /\ conn[c].registered = 0

LEMMA ConnsFrame ==
    ConnsInv /\ UNCHANGED <<backlog, conn>> /\ HookUsers(looper') \subseteq HookUsers(looper)
        => ConnsInv'
BY DEF ConnsInv

\* Connection c is another, with or without a client, but is still accepted.
LEMMA ConnsUpdate ==
    ASSUME TypeOK, ConnsInv, NEW c \in Clients, NEW r, conn' = [conn EXCEPT ![c] = r],
           conn[c].state # "none", r.state # "none",
           r.state # "live" => r.channel = NoChannel /\ r.registered = 0,
           backlog' = backlog, HookUsers(looper') \subseteq HookUsers(looper)
    PROVE  ConnsInv'
<1>1. \A x \in Clients : conn'[x] = IF x = c THEN r ELSE conn[x]
  BY DEF TypeOK
<1>2. Range(backlog) \subseteq Clients
  BY InRange DEF TypeOK
<1>3. HookUsers(looper) \subseteq Clients
  <2>1. looper \in Loopers(Clients)
    BY DEF TypeOK
  <2>2. \A i \in 1..Len(looper.hooks) : looper.hooks[i].user \in Clients
    BY <2>1, HookAt DEF Hooks
  <2> QED BY <2>2 DEF HookUsers
<1> QED BY <1>1, <1>2, <1>3 DEF ConnsInv

\* A connection that is closed loses its descriptor, and is otherwise what is said.
LEMMA UpdateConn ==
    ASSUME TypeOK, NEW c \in Clients, NEW r \in Conns, NEW unread, Update(c, r, unread)
    PROVE  /\ conn' = [conn EXCEPT ![c] = conn'[c]]
           /\ conn'[c].state = r.state /\ conn'[c].channel = r.channel
           /\ conn'[c].registered = r.registered /\ conn'[c].out = r.out
<1> DEFINE q == IF r.state = "freed" THEN [r EXCEPT !.fd = 0] ELSE r
<1>1. conn' = [conn EXCEPT ![c] = q]
  BY DEF Update
<1>2. /\ q.state = r.state /\ q.channel = r.channel
      /\ q.registered = r.registered /\ q.out = r.out
  BY DEF Conns
<1> HIDE DEF q
<1>3. conn'[c] = q
  BY <1>1 DEF TypeOK
<1> QED BY <1>1, <1>2, <1>3

LEMMA LooperAfterUsers ==
    ASSUME NEW l \in Loopers(Clients), NEW c, NEW r
    PROVE  HookUsers(LooperAfter(l, c, r)) \subseteq HookUsers(l)
BY DelUsers, EnableUsers, DisableUsers DEF LooperAfter, Events

\* The handler of the hook that is due.
LEMMA DueAccepted ==
    ASSUME TypeOK, ConnsInv, HookDue
    PROVE  /\ conn[Due].state # "none"
           /\ HookUsers(Unmarked) \subseteq HookUsers(looper)
<1>1. NextPending(looper) \in 1..Len(looper.hooks) /\ looper \in Loopers(Clients)
  BY DueType DEF TypeOK
<1>2. Due \in HookUsers(looper)
  BY <1>1 DEF Due, DueHook, HookUsers
<1>3. HookUsers(Unmarked) \subseteq HookUsers(looper)
  BY <1>1, UnmarkUsers DEF Unmarked
<1> QED BY <1>2, <1>3 DEF ConnsInv

\* What message m makes of a client that is there.
LEMMA AfterCases ==
    ASSUME NEW r \in Conns, r.state = "live", NEW m \in FromEmulator
    PROVE  \/ /\ m.kind = "data"
              /\ After(r, m).state = "live" /\ After(r, m).channel = r.channel
              /\ After(r, m).registered = r.registered /\ After(r, m).out = Append(r.out, m)
           \/ /\ m.kind = "OK"
              /\ After(r, m).state = "live" /\ After(r, m).channel = r.channel
              /\ After(r, m).registered = 1 /\ After(r, m).out = Append(r.out, m)
           \/ /\ m.kind = "KO"
              /\ After(r, m).state = "live" /\ After(r, m).channel = NoChannel
              /\ After(r, m).registered = 0 /\ After(r, m).out = Append(r.out, m)
           \/ /\ m.kind = "disconnect"
              /\ After(r, m).state \in {"closing", "freed"} /\ After(r, m).channel = NoChannel
              /\ After(r, m).registered = 0 /\ After(r, m).out \in {r.out, <<>>}
<1>1. CASE m.kind = "disconnect"
  <2>1. After(r, m) = ClientFree(r)
    BY <1>1 DEF After
  <2> QED BY <1>1, <2>1 DEF ClientFree, Closed, Connection
<1>2. CASE m.kind = "OK"
  <2>1. After(r, m) = Connection(r.state, r.fd, r.channel, 1, Append(r.out, m))
    BY <1>2 DEF After, ClientRegistration, Enqueue
  <2> QED BY <1>2, <2>1 DEF Connection
<1>3. CASE m.kind = "KO"
  <2>1. After(r, m) = Connection(r.state, r.fd, NoChannel, 0, Append(r.out, m))
    BY <1>3 DEF After, ClientRegistration, Enqueue
  <2> QED BY <1>3, <2>1 DEF Connection
<1>4. CASE m.kind = "data"
  <2>1. After(r, m) = [r EXCEPT !.out = Append(r.out, m)]
    BY <1>4 DEF After, Enqueue, Conns
  <2> HIDE DEF Conns
  <2>2. r = [state |-> r.state, fd |-> r.fd, channel |-> r.channel,
             registered |-> r.registered, out |-> r.out]
    BY DEF Conns
  <2>3. After(r, m) = [state |-> r.state, fd |-> r.fd, channel |-> r.channel,
                       registered |-> r.registered, out |-> Append(r.out, m)]
    BY <2>1, <2>2
  <2> QED BY <1>4, <2>3
<1> QED BY <1>1, <1>2, <1>3, <1>4 DEF FromEmulator, MessagesOf

\* What a read makes of the connection that is due, when nothing freed is used: nothing was
\* there, or data is relayed, or the client is thrown out, or it opens a channel.
ReadKeeps(c) ==
    /\ AfterRead(c).r = conn[c] /\ AfterRead(c).send = <<>>
    /\ last_channel' = last_channel /\ expelled' = expelled
ReadRelays(c) ==
    /\ conn[c].state = "live" /\ conn[c].registered = 1
    /\ AfterRead(c).r = conn[c]
    /\ \E e \in ToEmulator :
         /\ e.kind = "data" /\ e.channel = conn[c].channel /\ e.client = c
         /\ AfterRead(c).send = <<e>>
    /\ last_channel' = last_channel /\ expelled' = expelled
ReadExpels(c) ==
    /\ conn[c].state = "live"
    /\ AfterRead(c).r = ClientFree(conn[c]) /\ AfterRead(c).send = <<>>
    /\ last_channel' >= last_channel /\ expelled' = expelled \cup {c}
ReadOpens(c) ==
    /\ conn[c].state = "live" /\ conn[c].registered = 0
    /\ conn[c].channel \notin 1..(Channels - 1)
    /\ AfterRead(c).r = [conn[c] EXCEPT !.channel = NewChannel]
    /\ AfterRead(c).r \in Conns
    /\ \E e \in ToEmulator :
         /\ e.kind = "connect" /\ e.channel = NewChannel /\ e.client = c
         /\ AfterRead(c).send = <<e>>
    /\ last_channel < last_channel'
    /\ last_channel' < Channels => NewChannel = last_channel'
    /\ expelled' = expelled

LEMMA ReadCases ==
    ASSUME TypeInv, ConnsInv, HookDue, ~UsesFreed(Due), Read(Due)
    PROVE  ReadKeeps(Due) \/ ReadRelays(Due) \/ ReadExpels(Due) \/ ReadOpens(Due)
<1> DEFINE c == Due
           m == Head(inbox[c])
<1>0. TypeOK
  BY DEF TypeInv
<1>1. c \in Clients /\ conn[c].state # "none" /\ ~UsesFreed(c) /\ Read(c)
  BY <1>0, DueType, DueAccepted
<1>a. AfterRead(c).r \in Conns /\ last_channel' \in Nat
  BY <1>0, AfterReadType
<1> HIDE DEF c
<1>2. conn[c] \in Conns /\ inbox[c] \in Seq(FromClient) /\ last_channel \in Nat
      /\ Channels \in Nat \ {0}
  BY <1>0, <1>1, QemudAssumption DEF TypeOK
<1>3. CASE ~HasData(c)
  BY <1>1, <1>3 DEF AfterRead, Read, ReadKeeps, c
<1>4. CASE HasData(c)
  <2>1. conn[c].state = "live"
    BY <1>1, <1>2, <1>4 DEF UsesFreed, Conns
  <2>2. AfterRead(c) = ClientReceive(conn[c], c, m)
    BY <1>4 DEF AfterRead
  <2>3. m \in FromClient
    BY <1>2, <1>4 DEF HasData
  <2> HIDE DEF m
  <2>4. CASE conn[c].registered = 1
    <3> DEFINE e == Message("data", conn[c].channel, c, m.number)
    <3>1. AfterRead(c) = [r |-> conn[c], send |-> <<e>>]
      BY <2>2, <2>4 DEF ClientReceive, BadClient, Waits, Opens
    <3>2. /\ e \in ToEmulator
          /\ e.kind = "data" /\ e.channel = conn[c].channel /\ e.client = c
      BY <1>1, <1>2, <2>3 DEF Message, ToEmulator, FromClient, MessagesOf, Conns
    <3> HIDE DEF e
    <3>3. last_channel' = last_channel /\ expelled' = expelled
      BY <1>1, <2>4 DEF Read, Opens, BadClient, Waits
    <3> QED BY <2>1, <2>4, <3>1, <3>2, <3>3 DEF ReadRelays, c
  <2>5. CASE conn[c].registered = 0 /\ BadClient(conn[c], m)
    <3>1. AfterRead(c) = [r |-> ClientFree(conn[c]), send |-> <<>>]
      BY <2>2, <2>5 DEF ClientReceive, BadClient, Opens
    <3>2. expelled' = expelled \cup {c}
      BY <1>1, <1>4, <2>5 DEF Read, m
    <3>3. last_channel' >= last_channel
      <4>1. CASE Opens(conn[c])
        <5>1. \E k \in 1..Channels : ChannelFound(k)
          BY <1>1, <1>4, <4>1 DEF Read
        <5>2. Tries \in 1..Channels /\ last_channel' = last_channel + Tries
          BY <1>1, <1>2, <1>4, <4>1, <5>1, ChannelIsNew DEF Read
        <5> QED BY <1>2, <5>2
      <4>2. CASE ~Opens(conn[c])
        BY <1>1, <1>2, <4>2 DEF Read
      <4> QED BY <4>1, <4>2
    <3> QED BY <2>1, <3>1, <3>2, <3>3 DEF ReadExpels, c
  <2>6. CASE conn[c].registered = 0 /\ ~BadClient(conn[c], m)
    <3> DEFINE e == Message("connect", NewChannel, c, 0)
    <3>1. Opens(conn[c]) /\ conn[c].channel \notin 1..(Channels - 1)
      BY <2>6 DEF BadClient, Opens, Waits
    <3>2. \E k \in 1..Channels : ChannelFound(k)
      BY <1>1, <1>4, <3>1 DEF Read
    <3>3. /\ Tries \in 1..Channels /\ last_channel' = last_channel + Tries
          /\ NewChannel \in 0..(Channels - 1)
      BY <1>1, <1>2, <1>4, <3>1, <3>2, ChannelIsNew DEF Read
    <3>4. AfterRead(c) = [r |-> [conn[c] EXCEPT !.channel = NewChannel], send |-> <<e>>]
      BY <2>2, <2>6, <3>1 DEF ClientReceive, BadClient
    <3>5. /\ e \in ToEmulator
          /\ e.kind = "connect" /\ e.channel = NewChannel /\ e.client = c
      BY <1>1, <1>2, <3>3 DEF Message, ToEmulator, MessagesOf
    <3> HIDE DEF e
    <3>6. last_channel < last_channel' /\ (last_channel' < Channels => NewChannel = last_channel')
      BY <1>2, <3>3 DEF NewChannel
    <3>7. expelled' = expelled
      BY <1>1, <2>6 DEF Read, m
    <3> QED BY <1>a, <2>1, <2>6, <3>1, <3>4, <3>5, <3>6, <3>7 DEF ReadOpens, c
  <2> QED BY <1>2, <2>4, <2>5, <2>6 DEF Conns
<1> QED BY <1>3, <1>4 DEF c

\* What the callbacks of the clients leave of a connection after the read.
LEMMA ReadConn ==
    ASSUME TypeInv, ConnsInv, HookDue, ~UsesFreed(Due), Read(Due)
    PROVE  /\ AfterRead(Due).r \in Conns
           /\ AfterRead(Due).r.state # "none"
           /\ AfterRead(Due).r.state # "live" =>
                AfterRead(Due).r.channel = NoChannel /\ AfterRead(Due).r.registered = 0
<1> DEFINE c == Due
           r == AfterRead(Due).r
<1>0. TypeOK
  BY DEF TypeInv
<1>1. c \in Clients /\ conn[c].state # "none" /\ r \in Conns
  BY <1>0, DueType, DueAccepted, AfterReadType
<1>2. conn[c] \in Conns
  BY <1>0, <1>1 DEF TypeOK
<1>3. conn[c].state # "live" => conn[c].channel = NoChannel /\ conn[c].registered = 0
  BY <1>1 DEF ConnsInv
<1>4. ReadKeeps(c) \/ ReadRelays(c) \/ ReadExpels(c) \/ ReadOpens(c)
  BY ReadCases
<1>5. \/ r = conn[c] \/ r = ClientFree(conn[c])
      \/ conn[c].state = "live" /\ r = [conn[c] EXCEPT !.channel = NewChannel]
  BY <1>4 DEF ReadKeeps, ReadRelays, ReadExpels, ReadOpens
<1> HIDE DEF c, r
<1>6. CASE r = conn[c]
  BY <1>1, <1>3, <1>6 DEF c, r
<1>7. CASE r = ClientFree(conn[c])
  BY <1>1, <1>7 DEF ClientFree, Closed, Connection, c, r
<1>8. CASE conn[c].state = "live" /\ r = [conn[c] EXCEPT !.channel = NewChannel]
  <2>1. r.state = "live"
    BY <1>2, <1>8 DEF Conns
  <2> QED BY <1>1, <2>1 DEF c, r
<1> QED BY <1>5, <1>6, <1>7, <1>8

LEMMA ConnsInductive == TypeInv /\ ConnsInv /\ [Next]_vars => ConnsInv'
<1> SUFFICES ASSUME TypeInv, ConnsInv, [Next]_vars PROVE ConnsInv'
  OBVIOUS
<1> USE DEF daemonVars, lineVars, clientVars, emulatorVars
<1>0. TypeOK /\ looper \in Loopers(Clients)
  BY DEF TypeInv, TypeOK
<1>1. CASE EpollWait
  <2>1. HookUsers(looper') \subseteq HookUsers(looper)
    BY <1>0, <1>1, MarkedUsers DEF EpollWait
  <2> QED BY <1>1, <2>1, ConnsFrame DEF EpollWait
<1>2. CASE SweepHooks
  <2>1. HookUsers(looper') \subseteq HookUsers(looper)
    BY <1>0, <1>2, SweepUsers DEF SweepHooks
  <2> QED BY <1>2, <2>1, ConnsFrame DEF SweepHooks
<1>3. CASE SerialReceive
  <2> DEFINE m == Head(fromEmulator)
  <2>1. m \in FromEmulator
    BY <1>0, <1>3 DEF SerialReceive, TypeInv, TypeOK
  <2>2. backlog' = backlog
    BY <1>3 DEF SerialReceive
  <2> HIDE DEF m
  <2>3. CASE UNCHANGED <<conn, inbox, looper>>
    BY <2>2, <2>3, ConnsFrame
  <2>4. ASSUME NEW c \in Addressed(m), Update(c, After(conn[c], m), inbox[c]),
               looper' = LooperAfter(looper, c, After(conn[c], m))
        PROVE  ConnsInv'
    <3> DEFINE r == After(conn[c], m)
    <3>1. c \in Clients /\ conn[c].state = "live" /\ conn[c] \in Conns
      BY <1>0 DEF Addressed, ClientsAt, LiveClients, TypeOK
    <3>2. r \in Conns
      BY <2>1, <3>1, AfterType
    <3>3. r.state # "none" /\ (r.state # "live" => r.channel = NoChannel /\ r.registered = 0)
      BY <2>1, <3>1, AfterCases
    <3> HIDE DEF r
    <3>4. /\ conn' = [conn EXCEPT ![c] = conn'[c]] /\ conn'[c].state = r.state
          /\ conn'[c].channel = r.channel /\ conn'[c].registered = r.registered
      BY <1>0, <2>4, <3>1, <3>2, UpdateConn DEF r
    <3>5. HookUsers(looper') \subseteq HookUsers(looper)
      BY <1>0, <2>4, LooperAfterUsers
    <3> DEFINE q == conn'[c]
    <3>6. conn' = [conn EXCEPT ![c] = q] /\ q.state # "none"
          /\ (q.state # "live" => q.channel = NoChannel /\ q.registered = 0)
      BY <3>3, <3>4
    <3> HIDE DEF q
    <3> QED BY <1>0, <2>2, <3>1, <3>5, <3>6, ConnsUpdate
  <2> QED BY <1>3, <2>3, <2>4 DEF SerialReceive, m
<1>4. CASE Accept
  <2> DEFINE c == Head(backlog)
             r == Connection("live", LowestFd, NoChannel, 0, <<>>)
             l == AddHook(looper, LowestFd, c)
  <2>1. backlog \in Seq(Clients) /\ backlog # <<>> /\ c \in Clients
    BY <1>0, <1>4 DEF Accept, TypeInv, TypeOK
  <2>2. /\ conn' = [conn EXCEPT ![c] = r] /\ backlog' = Tail(backlog)
        /\ looper' = Enable(l, LowestFd, "IN") /\ FreeFds # {}
    BY <1>4 DEF Accept
  <2>3. r.state = "live"
    BY DEF Connection
  <2>4. Distinct(backlog') /\ Range(backlog') = Range(backlog) \ {c} /\ c \in Range(backlog)
    BY <2>1, <2>2, DistinctTail DEF ConnsInv
  <2>5. LowestFd \in Fds
    <3>1. FreeFds \in SUBSET Nat /\ FreeFds # {}
      BY <2>2, LooperAssumption DEF FreeFds
    <3>2. \E f \in FreeFds : \A g \in FreeFds : f <= g
      BY <3>1, LeastNatural
    <3>3. LowestFd \in FreeFds
      BY <3>2 DEF LowestFd
    <3> QED BY <3>3 DEF FreeFds
  <2>6. HookUsers(looper') \subseteq HookUsers(looper) \cup {c}
    <3> HIDE DEF c
    <3>1. l \in Loopers(Clients) /\ HookUsers(l) \subseteq HookUsers(looper) \cup {c}
      BY <1>0, <2>1, <2>5, AddHookType, AddHookUsers
    <3> HIDE DEF l
    <3>2. HookUsers(looper') \subseteq HookUsers(l)
      BY <2>2, <3>1, EnableUsers DEF Events
    <3> QED BY <3>1, <3>2
  <2> HIDE DEF c, r, l
  <2>7. \A x \in Clients : conn'[x] = IF x = c THEN r ELSE conn[x]
    BY <1>0, <2>2 DEF TypeOK
  <2>8. Range(backlog) \subseteq Clients
    BY <2>1, InRange
  <2>9. HookUsers(looper) \subseteq Clients
    <3>1. \A i \in 1..Len(looper.hooks) : looper.hooks[i].user \in Clients
      BY <1>0, HookAt DEF Hooks
    <3> QED BY <3>1 DEF HookUsers
  <2> QED BY <2>1, <2>3, <2>4, <2>6, <2>7, <2>8, <2>9 DEF ConnsInv
<1>5. CASE CallWild \/ CallKilled
  BY <1>5, ConnsFrame DEF CallWild, CallKilled
<1>6. CASE CallHangUp \/ CallReadWrite
  <2> DEFINE c == Due
             a == AfterRead(Due)
             w == [a.r EXCEPT !.out = Tail(@)]
  <2>1. HookDue /\ ~UsesFreed(Due) /\ Read(Due) /\ backlog' = backlog
    BY <1>6 DEF CallHangUp, CallReadWrite
  <2>2. /\ c \in Clients /\ conn[c].state # "none" /\ Unmarked \in Loopers(Clients)
        /\ HookUsers(Unmarked) \subseteq HookUsers(looper)
    BY <1>0, <2>1, DueType, DueAccepted
  <2>3. /\ a.r \in Conns /\ a.r.state # "none"
        /\ a.r.state # "live" => a.r.channel = NoChannel /\ a.r.registered = 0
    BY <2>1, ReadConn
  <2>4. \E r \in Conns :
          /\ r.state # "none"
          /\ r.state # "live" => r.channel = NoChannel /\ r.registered = 0
          /\ Update(c, r, Unread(Due))
          /\ looper' = Del(Unmarked, conn[c].fd) \/ looper' = LooperAfter(Unmarked, c, r)
    <3>1. CASE CallHangUp
      <4>1. Closed(a.r) \in Conns
        BY <2>3, ClosedType
      <4>2. /\ Closed(a.r).state = "freed" /\ Closed(a.r).channel = NoChannel
            /\ Closed(a.r).registered = 0
        BY DEF Closed, Connection
      <4> QED BY <3>1, <4>1, <4>2 DEF CallHangUp
    <3>2. CASE CallReadWrite
      <4>1. CASE ~Writes(Due)
        BY <2>3, <3>2, <4>1 DEF CallReadWrite
      <4>2. CASE Writes(Due)
        <5>1. a.r.out # <<>>
          BY <4>2 DEF Writes
        <5>2. Update(c, w, Unread(Due)) /\ looper' = LooperAfter(Unmarked, c, w)
          BY <3>2, <4>2 DEF CallReadWrite
        <5> HIDE DEF a
        <5>3. Tail(a.r.out) \in Seq(ToClient)
          BY <2>3, <5>1 DEF Conns
        <5>4. w \in Conns /\ w.state = a.r.state /\ w.channel = a.r.channel
              /\ w.registered = a.r.registered
          BY <2>3, <5>3 DEF Conns
        <5> QED BY <2>3, <5>2, <5>4
      <4> QED BY <4>1, <4>2
    <3> QED BY <1>6, <3>1, <3>2
  <2> HIDE DEF a, w, c
  <2>5. PICK r \in Conns :
          /\ r.state # "none"
          /\ r.state # "live" => r.channel = NoChannel /\ r.registered = 0
          /\ Update(c, r, Unread(Due))
          /\ looper' = Del(Unmarked, conn[c].fd) \/ looper' = LooperAfter(Unmarked, c, r)
    BY <2>4
  <2>6. HookUsers(looper') \subseteq HookUsers(Unmarked)
    BY <2>2, <2>5, DelUsers, LooperAfterUsers
  <2> DEFINE q == conn'[c]
  <2>7. /\ conn' = [conn EXCEPT ![c] = q] /\ q.state = r.state
        /\ q.channel = r.channel /\ q.registered = r.registered
    BY <1>0, <2>2, <2>5, UpdateConn
  <2> HIDE DEF q
  <2> QED BY <1>0, <2>1, <2>2, <2>5, <2>6, <2>7, ConnsUpdate
<1>7. CASE ClientStep
  <2> PICK c \in Clients : Connect(c) \/ Ask(c) \/ Write(c) \/ HangUp(c)
    BY <1>7 DEF ClientStep
  <2>1. CASE Connect(c)
    <3> DEFINE t == <<c>>
    <3>1. backlog \in Seq(Clients) /\ t \in Seq(Clients) /\ Range(t) = {c} /\ Distinct(t)
      BY <1>0, Single, SingleDistinct DEF TypeOK
    <3>2. c \notin Range(backlog)
      BY <2>1, <3>1, InRange DEF Connect, Queued
    <3> HIDE DEF t
    <3>3. Distinct(backlog \o t) /\ Range(backlog \o t) = Range(backlog) \cup {c}
      BY <3>1, <3>2, DistinctConcat, RangeConcatenation DEF ConnsInv
    <3>4. backlog' = backlog \o t
      BY <2>1, <3>1, AppendIsConcat DEF Connect, t
    <3>5. conn[c].state = "none" /\ UNCHANGED <<conn, looper>>
      BY <2>1 DEF Connect
    <3> QED BY <3>3, <3>4, <3>5 DEF ConnsInv
  <2>2. CASE Ask(c) \/ Write(c) \/ HangUp(c)
    BY <2>2, ConnsFrame DEF Ask, Write, HangUp
  <2> QED BY <2>1, <2>2
<1>8. CASE EmulatorStep
  BY <1>8, ConnsFrame DEF EmulatorStep, EmulatorReceive, EmulatorSend, EmulatorDisconnect
<1>9. CASE UNCHANGED vars
  BY <1>9, ConnsFrame DEF vars
<1> QED BY <1>1, <1>2, <1>3, <1>4, <1>5, <1>6, <1>7, <1>8, <1>9 DEF Next, Daemon

LEMMA ConnsInitially == Init => ConnsInv
<1> SUFFICES ASSUME Init PROVE ConnsInv
  OBVIOUS
<1>1. Range(<<>>) = {} /\ Distinct(<<>>)
  BY EmptyRange DEF Distinct
<1>2. HookUsers(looper) = {}
  BY DEF Init, NewLooper, HookUsers
<1>3. \A c \in Clients : conn[c].channel = NoChannel /\ conn[c].registered = 0
  BY DEF Init, NewConn, Connection
<1> QED BY <1>1, <1>2, <1>3 DEF Init, ConnsInv

-----------------------------------------------------------------------------
(* The invariant of the channels.                                          *)

ChannelOf  == [c \in Clients |-> conn[c].channel]
Registered == {c \in Clients : conn[c].registered = 1}

\* A request is the first message on its channel.
ConnectFirst(line) ==
    \A i, j \in 1..Len(line) :
        i < j /\ line[i].channel = line[j].channel => line[j].kind # "connect"

\* What a client has been sent, or is to be, is its own.
Mail(c) == Range(answers[c]) \cup Range(received[c])
OwnMail ==
    \A c \in Clients : /\ \A m \in Range(conn[c].out) : m.client = c
                       /\ \A m \in Mail(c) : m.client = c

LinkNow(own) == Link(own, ChannelOf, Registered, Range(toEmulator), Range(fromEmulator),
                     emulator, expelled, last_channel)

LinkInv == last_channel < Channels =>
    /\ \E own : LinkNow(own)
    /\ ConnectFirst(toEmulator)
    /\ OwnMail

\* A number that is not used is skipped.
LEMMA LinkSkip ==
    ASSUME NEW own, NEW ch, NEW reg, NEW T, NEW F, NEW em, NEW ex, NEW last,
           Link(own, ch, reg, T, F, em, ex, last),
           NEW n \in Nat, last <= n, n < Channels
    PROVE  Link(own, ch, reg, T, F, em, ex, n)
<1> USE DEF Link
<1>1. n \in 0..(Channels - 1) /\ \A k \in 1..last : k \in 1..n
  BY QemudAssumption
<1>2. Owned(own, ch, T, F, em, n)
  BY <1>1 DEF Owned
<1> QED BY <1>1, <1>2

\* A message after the others, that is no request or the first on its channel.
LEMMA ConnectFirstAppend ==
    ASSUME NEW S, NEW s \in Seq(S), NEW e \in S, ConnectFirst(s),
           e.kind = "connect" => \A m \in Range(s) : m.channel # e.channel
    PROVE  ConnectFirst(Append(s, e))
<1> DEFINE t == Append(s, e)
<1>1. /\ Len(t) = Len(s) + 1 /\ Len(s) \in Nat
      /\ \A i \in 1..Len(s) : t[i] = s[i] /\ t[Len(s) + 1] = e
  OBVIOUS
<1>2. t[Len(s) + 1] = e
  OBVIOUS
<1> HIDE DEF t
<1> SUFFICES ASSUME NEW i \in 1..Len(t), NEW j \in 1..Len(t), i < j,
                    t[i].channel = t[j].channel
             PROVE  t[j].kind # "connect"
  BY DEF ConnectFirst, t
<1>3. i \in 1..Len(s)
  BY <1>1
<1>4. CASE j \in 1..Len(s)
  BY <1>1, <1>3, <1>4 DEF ConnectFirst
<1>5. CASE j = Len(s) + 1
  <2>1. s[i] \in Range(s)
    BY <1>3, InRange
  <2> QED BY <1>1, <1>2, <1>3, <1>5, <2>1
<1> QED BY <1>1, <1>4, <1>5

\* Once the first message is taken there is no request on its channel.
LEMMA ConnectFirstTail ==
    ASSUME NEW S, NEW s \in Seq(S), s # <<>>, ConnectFirst(s)
    PROVE  /\ ConnectFirst(Tail(s))
           /\ \A m \in Range(Tail(s)) : m.channel = Head(s).channel => m.kind # "connect"
<1> DEFINE t == Tail(s)
<1>1. /\ t \in Seq(S) /\ Len(t) = Len(s) - 1 /\ Len(s) \in Nat \ {0} /\ Head(s) = s[1]
      /\ \A i \in 1..Len(t) : t[i] = s[i + 1]
  BY HeadTailProperties, EmptySeq
<1> HIDE DEF t
<1>2. \A i \in 1..Len(t) : i + 1 \in 1..Len(s) /\ 1 \in 1..Len(s) /\ 1 < i + 1
  BY <1>1
<1>3. ConnectFirst(t)
  <2> SUFFICES ASSUME NEW i \in 1..Len(t), NEW j \in 1..Len(t), i < j,
                      t[i].channel = t[j].channel
               PROVE  t[j].kind # "connect"
    BY DEF ConnectFirst
  <2>1. i + 1 < j + 1
    BY <1>1
  <2> QED BY <1>1, <1>2, <2>1 DEF ConnectFirst
<1>4. ASSUME NEW m \in Range(t), m.channel = Head(s).channel PROVE m.kind # "connect"
  <2>1. PICK i \in 1..Len(t) : t[i] = m
    BY <1>1, InRange
  <2> QED BY <1>1, <1>2, <1>4, <2>1 DEF ConnectFirst
<1> QED BY <1>3, <1>4 DEF t

LEMMA LinkFrame ==
    /\ LinkInv
    /\ UNCHANGED <<conn, toEmulator, fromEmulator, emulator, expelled, last_channel, answers,
                   received>>
    => LinkInv'
BY DEF LinkInv, LinkNow, ChannelOf, Registered, OwnMail, Mail, ConnectFirst

\* What the invariant looks at in the connections, when one changes.
LEMMA ViewsUpdate ==
    ASSUME TypeOK, NEW c \in Clients, NEW r, conn' = [conn EXCEPT ![c] = r],
           r.channel \in 0..Channels
    PROVE  /\ ChannelOf \in [Clients -> 0..Channels] /\ ChannelOf[c] = conn[c].channel
           /\ ChannelOf' = [ChannelOf EXCEPT ![c] = r.channel]
           /\ r.channel = conn[c].channel => ChannelOf' = ChannelOf
           /\ r.registered = 1 => Registered' = Registered \cup {c}
           /\ r.registered = 0 => Registered' = Registered \ {c}
           /\ c \in Registered <=> conn[c].registered = 1
<1>1. \A x \in Clients : conn'[x] = IF x = c THEN r ELSE conn[x]
  BY DEF TypeOK
<1>2. \A x \in Clients : conn[x].channel \in 0..Channels
  BY DEF TypeOK, Conns
<1>3. ChannelOf' = [x \in Clients |-> IF x = c THEN r.channel ELSE conn[x].channel]
  BY <1>1 DEF ChannelOf
<1>4. ChannelOf' = [ChannelOf EXCEPT ![c] = r.channel]
  BY <1>3 DEF ChannelOf
<1>5. r.channel = conn[c].channel => ChannelOf' = ChannelOf
  BY <1>3 DEF ChannelOf
<1>6. /\ r.registered = 1 => Registered' = Registered \cup {c}
      /\ r.registered = 0 => Registered' = Registered \ {c}
  BY <1>1 DEF Registered
<1> QED BY <1>2, <1>4, <1>5, <1>6 DEF ChannelOf, Registered

\* What is written to a client is added to its mail, and to no other's.
LEMMA GetsMail ==
    ASSUME TypeOK, NEW c \in Clients, NEW p, Gets(c, p)
    PROVE  \A x \in Clients : \A m \in Mail(x)' : m \in Mail(x) \/ (x = c /\ m = p)
<1>0. answers \in [Clients -> Seq(Answer)] /\ received \in [Clients -> Seq(Data)]
  BY DEF TypeOK
<1>1. CASE p \in Answer /\ answers' = [answers EXCEPT ![c] = Append(@, p)] /\ received' = received
  <2> DEFINE s == Append(answers[c], p)
  <2>1. Range(s) = Range(answers[c]) \cup {p}
    BY <1>0, <1>1, AppendRange
  <2>2. answers' = [answers EXCEPT ![c] = s]
    BY <1>1
  <2> HIDE DEF s
  <2>3. \A x \in Clients : answers'[x] = IF x = c THEN s ELSE answers[x]
    BY <1>0, <2>2
  <2> QED BY <1>1, <2>1, <2>3 DEF Mail
<1>2. CASE p \in Data /\ received' = [received EXCEPT ![c] = Append(@, p)] /\ answers' = answers
  <2> DEFINE s == Append(received[c], p)
  <2>1. Range(s) = Range(received[c]) \cup {p}
    BY <1>0, <1>2, AppendRange
  <2>2. received' = [received EXCEPT ![c] = s]
    BY <1>2
  <2> HIDE DEF s
  <2>3. \A x \in Clients : received'[x] = IF x = c THEN s ELSE received[x]
    BY <1>0, <2>2
  <2> QED BY <1>2, <2>1, <2>3 DEF Mail
<1> QED BY <1>1, <1>2 DEF Gets

\* What a client has been sent is its own if what it is sent now is.
LEMMA OwnMailUpdate ==
    ASSUME TypeOK, OwnMail, NEW c \in Clients, NEW r, conn' = [conn EXCEPT ![c] = r],
           \A m \in Range(r.out) : m.client = c,
           \/ UNCHANGED <<answers, received>>
           \/ \E m : Gets(c, m) /\ m.client = c
    PROVE  OwnMail'
<1>1. \A x \in Clients : conn'[x] = IF x = c THEN r ELSE conn[x]
  BY DEF TypeOK
<1>2. \A x \in Clients : \A m \in Range(conn'[x].out) : m.client = x
  BY <1>1 DEF OwnMail
<1>3. \A x \in Clients : \A m \in Mail(x)' : m.client = x
  <2>1. CASE UNCHANGED <<answers, received>>
    BY <2>1 DEF OwnMail, Mail
  <2>2. ASSUME NEW e, Gets(c, e), e.client = c
        PROVE  \A x \in Clients : \A m \in Mail(x)' : m.client = x
    <3>1. \A x \in Clients : \A m \in Mail(x)' : m \in Mail(x) \/ (x = c /\ m = e)
      BY <2>2, GetsMail
    <3> QED BY <2>2, <3>1 DEF OwnMail
  <2> QED BY <2>1, <2>2
<1> QED BY <1>2, <1>3 DEF OwnMail

\* Whoever is addressed by a message is who it is about.
LEMMA LinkSerial == TypeInv /\ ConnsInv /\ LinkInv /\ SerialReceive => LinkInv'
<1> SUFFICES ASSUME TypeInv, ConnsInv, LinkInv, SerialReceive, last_channel < Channels
             PROVE  (\E own : LinkNow(own)') /\ ConnectFirst(toEmulator)' /\ OwnMail'
  BY DEF LinkInv, SerialReceive
<1> DEFINE m == Head(fromEmulator)
           T == Range(toEmulator)
           F == Range(fromEmulator)
           FNow == Range(Tail(fromEmulator))
<1>0. TypeOK
  BY DEF TypeInv
<1>1. PICK own : Link(own, ChannelOf, Registered, T, F, emulator, expelled, last_channel)
  BY DEF LinkInv, LinkNow
<1>2. ConnectFirst(toEmulator)' /\ OwnMail
  BY DEF LinkInv, SerialReceive, ConnectFirst
<1>3. fromEmulator \in Seq(FromEmulator) /\ fromEmulator # <<>> /\ m \in FromEmulator
  BY <1>0 DEF TypeInv, TypeOK, SerialReceive
<1>4. F = {m} \cup FNow /\ m \in F
  BY <1>3, HeadTailRange
<1>5. /\ T = Range(toEmulator)' /\ FNow = Range(fromEmulator)'
      /\ UNCHANGED <<emulator, expelled, last_channel, answers, received>>
  BY DEF SerialReceive, emulatorVars
<1> HIDE DEF m, T, F, FNow
<1>6. /\ m.channel \in 1..last_channel /\ m.client \in Clients /\ own[m.channel] = m.client
      /\ m.channel # NoChannel
  BY <1>1, <1>4, QemudAssumption DEF Link, Owned, NoChannel
<1>7. ASSUME ChannelOf' = ChannelOf, Registered' = Registered,
             m.kind = "disconnect" => \A c \in Clients : ChannelOf[c] # m.channel
      PROVE  LinkNow(own)'
  <2>1. Link(own, ChannelOf, Registered, T, FNow, emulator, expelled, last_channel)
    <3> HIDE DEF Link
    <3> QED BY <1>1, <1>4, <1>7, LinkTake
  <2> QED BY <1>5, <1>7, <2>1 DEF LinkNow
<1>8. CASE Addressed(m) = {} /\ UNCHANGED <<conn, inbox, looper>>
  <2>1. ChannelOf' = ChannelOf /\ Registered' = Registered /\ OwnMail'
    BY <1>2, <1>5, <1>8 DEF ChannelOf, Registered, OwnMail, Mail
  <2>2. m.kind = "disconnect" => \A c \in Clients : ChannelOf[c] # m.channel
    BY <1>6, <1>8 DEF Addressed, ClientsAt, LiveClients, ChannelOf, ConnsInv
  <2> QED BY <1>2, <1>7, <2>1, <2>2
<1>9. ASSUME NEW c \in Addressed(m), Update(c, After(conn[c], m), inbox[c])
      PROVE  (\E o : LinkNow(o)') /\ OwnMail'
  <2> DEFINE a == After(conn[c], m)
             r == conn'[c]
  <2>1. /\ c \in Clients /\ conn[c].state = "live" /\ conn[c] \in Conns
        /\ conn[c].channel = m.channel
    BY <1>0 DEF Addressed, ClientsAt, LiveClients, TypeOK
  <2>2. a \in Conns
    BY <1>3, <2>1, AfterType
  <2>3. /\ conn' = [conn EXCEPT ![c] = r]
        /\ r.state = a.state /\ r.channel = a.channel
        /\ r.registered = a.registered /\ r.out = a.out
    BY <1>0, <1>9, <2>1, <2>2, UpdateConn
  <2>4. \/ /\ m.kind = "data"
           /\ a.channel = conn[c].channel /\ a.registered = conn[c].registered
           /\ a.out = Append(conn[c].out, m)
        \/ /\ m.kind = "OK"
           /\ a.channel = conn[c].channel /\ a.registered = 1 /\ a.out = Append(conn[c].out, m)
        \/ /\ m.kind = "KO"
           /\ a.channel = NoChannel /\ a.registered = 0 /\ a.out = Append(conn[c].out, m)
        \/ /\ m.kind = "disconnect"
           /\ a.channel = NoChannel /\ a.registered = 0 /\ a.out \in {conn[c].out, <<>>}
    BY <1>3, <2>1, AfterCases
  <2> HIDE DEF r, a
  <2>5. r.channel \in 0..Channels
    BY <2>1, <2>3, <2>4, NoChannelType DEF Conns
  <2>6. /\ ChannelOf \in [Clients -> 0..Channels] /\ ChannelOf[c] = m.channel
        /\ ChannelOf' = [ChannelOf EXCEPT ![c] = r.channel]
        /\ r.channel = m.channel => ChannelOf' = ChannelOf
        /\ r.registered = 1 => Registered' = Registered \cup {c}
        /\ r.registered = 0 => Registered' = Registered \ {c}
        /\ c \in Registered <=> conn[c].registered = 1
    <3>1. conn' = [conn EXCEPT ![c] = r]
      BY <2>3
    <3>2. /\ ChannelOf \in [Clients -> 0..Channels] /\ ChannelOf[c] = conn[c].channel
          /\ ChannelOf' = [ChannelOf EXCEPT ![c] = r.channel]
          /\ r.channel = conn[c].channel => ChannelOf' = ChannelOf
          /\ r.registered = 1 => Registered' = Registered \cup {c}
          /\ r.registered = 0 => Registered' = Registered \ {c}
          /\ c \in Registered <=> conn[c].registered = 1
      BY <1>0, <2>1, <2>5, <3>1, ViewsUpdate
    <3> QED BY <2>1, <3>2
  <2>7. m.client = c
    BY <1>1, <1>6, <2>1, <2>6 DEF Link, Owned
  <2>8. OwnMail'
    <3>1. conn[c].out \in Seq(ToClient) /\ \A x \in Range(conn[c].out) : x.client = c
      BY <1>2, <2>1 DEF Conns, OwnMail
    <3>2. m.kind # "disconnect" => m \in ToClient
      BY <1>3 DEF FromEmulator, ToClient, MessagesOf
    <3>3. m.kind # "disconnect" => Range(Append(conn[c].out, m)) = Range(conn[c].out) \cup {m}
      BY <3>1, <3>2, AppendRange
    <3>4. Range(<<>>) = {}
      BY EmptyRange
    <3>5. \A x \in Range(r.out) : x.client = c
      BY <2>3, <2>4, <2>7, <3>1, <3>3, <3>4
    <3> QED BY <1>0, <1>2, <1>5, <2>1, <2>3, <3>5, OwnMailUpdate
  <2>9. CASE m.kind = "data"
    <3>1. r.channel = m.channel /\ r.registered = conn[c].registered
      BY <2>1, <2>3, <2>4, <2>9
    <3>2. ChannelOf' = ChannelOf
      BY <2>6, <3>1
    <3>3. Registered' = Registered
      <4>1. conn[c].registered = 1 \/ conn[c].registered = 0
        BY <2>1 DEF Conns
      <4>2. c \in Registered <=> conn[c].registered = 1
        BY <2>6
      <4>3. CASE conn[c].registered = 1
        BY <2>6, <3>1, <4>2, <4>3
      <4>4. CASE conn[c].registered = 0
        BY <2>6, <3>1, <4>2, <4>4
      <4> QED BY <4>1, <4>3, <4>4
    <3> QED BY <1>7, <2>8, <2>9, <3>2, <3>3
  <2>10. CASE m.kind = "OK"
    <3>1. r.channel = m.channel /\ r.registered = 1
      BY <2>1, <2>3, <2>4, <2>10
    <3>2. ChannelOf' = ChannelOf /\ Registered' = Registered \cup {c}
      BY <2>6, <3>1
    <3>3. Link(own, ChannelOf, Registered \cup {c}, T, F, emulator, expelled, last_channel)
      BY <1>1, <1>4, <2>1, <2>6, <2>10, LinkRegister
    <3>4. Link(own, ChannelOf, Registered \cup {c}, T, FNow, emulator, expelled, last_channel)
      BY <1>4, <2>10, <3>3, LinkTake
    <3> QED BY <1>5, <2>8, <3>2, <3>4 DEF LinkNow
  <2>11. CASE m.kind \in {"KO", "disconnect"}
    <3> DEFINE h == [ChannelOf EXCEPT ![c] = NoChannel]
               g == Registered \ {c}
    <3>1. r.channel = NoChannel /\ r.registered = 0
      BY <2>3, <2>4, <2>11
    <3>2. ChannelOf' = h /\ Registered' = g
      BY <2>6, <3>1
    <3>3. emulator[ChannelOf[c]] = NoClient
      BY <1>1, <1>4, <2>6, <2>11 DEF Link, FarewellsTrue
    <3>4. \A x \in T : x.kind = "connect" => x.channel # ChannelOf[c]
      BY <1>1, <1>4, <2>6 DEF Link, RequestsNew
    <3>5. Link(own, h, g, T, F, emulator, expelled, last_channel)
      BY <1>1, <2>1, <3>3, <3>4, LinkDrop
    <3>6. \A d \in Clients : h[d] # m.channel
      <4>1. \A d \in Clients : ChannelOf[d] = m.channel => d = c
        BY <1>1, <1>6, <2>7 DEF Link, Owned
      <4> QED BY <1>6, <2>6, <4>1
    <3> HIDE DEF h, g
    <3>7. Link(own, h, g, T, FNow, emulator, expelled, last_channel)
      BY <1>4, <3>5, <3>6, LinkTake
    <3> QED BY <1>5, <2>8, <3>2, <3>7 DEF LinkNow
  <2> QED BY <2>4, <2>9, <2>10, <2>11
<1>10. \/ Addressed(m) = {} /\ UNCHANGED <<conn, inbox, looper>>
       \/ \E c \in Addressed(m) : Update(c, After(conn[c], m), inbox[c])
  BY DEF SerialReceive, m
<1> QED BY <1>2, <1>8, <1>9, <1>10

\* A message more, or none.
LEMMA LineExtends ==
    ASSUME NEW S, NEW s \in Seq(S)
    PROVE  /\ s \o <<>> = s
           /\ \A e \in S : s \o <<e>> = Append(s, e) /\ Range(s \o <<e>>) = Range(s) \cup {e}
                           /\ s \o <<e>> \in Seq(S)
<1>1. s \o <<>> = s
  BY ConcatEmptySeq
<1>2. ASSUME NEW e \in S
      PROVE  s \o <<e>> = Append(s, e) /\ Range(s \o <<e>>) = Range(s) \cup {e}
             /\ s \o <<e>> \in Seq(S)
  <2>1. s \o <<e>> = Append(s, e)
    BY AppendIsConcat
  <2>2. Append(s, e) \in Seq(S) /\ Range(Append(s, e)) = Range(s) \cup {e}
    BY AppendRange
  <2> QED BY <2>1, <2>2
<1> QED BY <1>1, <1>2

\* The numbers are used in their order.
LEMMA ReadAdvances ==
    ASSUME TypeInv, ConnsInv, HookDue, ~UsesFreed(Due), Read(Due)
    PROVE  /\ last_channel <= last_channel'
           /\ last_channel' < Channels => last_channel < Channels
<1>1. TypeOK
  BY DEF TypeInv
<1>2. last_channel \in Nat /\ last_channel' \in Nat /\ Channels \in Nat
  BY <1>1, AfterReadType, QemudAssumption DEF TypeOK
<1>3. ReadKeeps(Due) \/ ReadRelays(Due) \/ ReadExpels(Due) \/ ReadOpens(Due)
  BY ReadCases
<1>4. last_channel <= last_channel'
  BY <1>2, <1>3 DEF ReadKeeps, ReadRelays, ReadExpels, ReadOpens
<1> QED BY <1>2, <1>4

\* What the read of a client's callback makes of the connection, of the line and of the
\* numbers used keeps the invariant, before anything is written or closed.
LEMMA LinkRead ==
    ASSUME TypeInv, ConnsInv, LinkInv, HookDue, ~UsesFreed(Due), Read(Due),
           last_channel' < Channels
    PROVE  LET c    == Due
               a    == AfterRead(Due)
               line == toEmulator \o a.send
           IN  /\ \E own : Link(own, [ChannelOf EXCEPT ![c] = a.r.channel],
                                IF a.r.registered = 1 THEN Registered \cup {c}
                                                      ELSE Registered \ {c},
                                Range(line), Range(fromEmulator), emulator, expelled',
                                last_channel')
               /\ line \in Seq(ToEmulator) /\ ConnectFirst(line)
               /\ \A m \in Range(a.r.out) : m.client = c
<1> DEFINE c == Due
           a == AfterRead(Due)
           T == Range(toEmulator)
           F == Range(fromEmulator)
           line == toEmulator \o a.send
           h == [ChannelOf EXCEPT ![c] = a.r.channel]
           g == IF a.r.registered = 1 THEN Registered \cup {c} ELSE Registered \ {c}
<1>0. TypeOK
  BY DEF TypeInv
<1>1. /\ c \in Clients /\ conn[c] \in Conns /\ a.r \in Conns /\ last_channel' \in Nat
      /\ last_channel \in Nat /\ toEmulator \in Seq(ToEmulator) /\ Channels \in Nat
  BY <1>0, DueType, AfterReadType, QemudAssumption DEF TypeOK
<1>2. ReadKeeps(c) \/ ReadRelays(c) \/ ReadExpels(c) \/ ReadOpens(c)
  BY ReadCases
<1>3. last_channel <= last_channel'
  BY ReadAdvances
<1>4. last_channel < Channels
  BY ReadAdvances
<1>5. PICK own : Link(own, ChannelOf, Registered, T, F, emulator, expelled, last_channel)
  BY <1>4 DEF LinkInv, LinkNow
<1>6. ConnectFirst(toEmulator) /\ \A m \in Range(conn[c].out) : m.client = c
  BY <1>1, <1>4 DEF LinkInv, OwnMail
<1>7. /\ ChannelOf \in [Clients -> 0..Channels] /\ ChannelOf[c] = conn[c].channel
      /\ c \in Registered <=> conn[c].registered = 1
  BY <1>0, <1>1 DEF ChannelOf, Registered, TypeOK, Conns
<1>8. /\ toEmulator \o <<>> = toEmulator
      /\ \A e \in ToEmulator : /\ toEmulator \o <<e>> = Append(toEmulator, e)
                               /\ Range(toEmulator \o <<e>>) = T \cup {e}
                               /\ toEmulator \o <<e>> \in Seq(ToEmulator)
  BY <1>1, LineExtends
<1> DEFINE Goal == /\ \E o : Link(o, h, g, Range(line), F, emulator, expelled', last_channel')
                   /\ line \in Seq(ToEmulator) /\ ConnectFirst(line)
                   /\ \A m \in Range(a.r.out) : m.client = c
<1>9. a.r = conn[c] => h = ChannelOf /\ g = Registered
  <2> HIDE DEF a, c
  <2>1. ASSUME a.r = conn[c] PROVE h = ChannelOf
    BY <1>7, <2>1
  <2>2. ASSUME a.r = conn[c] PROVE g = Registered
    BY <1>7, <2>2
  <2> QED BY <2>1, <2>2
<1>10. ASSUME ReadKeeps(c) PROVE Goal
  <2>1. a.r = conn[c] /\ line = toEmulator /\ last_channel' = last_channel /\ expelled' = expelled
    BY <1>8, <1>10 DEF ReadKeeps
  <2> HIDE DEF line, h, g, a, c, Link
  <2> QED BY <1>1, <1>5, <1>6, <1>9, <2>1
<1>11. ASSUME ReadRelays(c) PROVE Goal
  <2>1. PICK e \in ToEmulator : /\ e.kind = "data" /\ e.channel = conn[c].channel /\ e.client = c
                                /\ a.send = <<e>>
    BY <1>11 DEF ReadRelays
  <2>2. a.r = conn[c] /\ c \in Registered /\ last_channel' = last_channel /\ expelled' = expelled
    BY <1>7, <1>11 DEF ReadRelays
  <2>3. Range(line) = T \cup {e} /\ line \in Seq(ToEmulator) /\ line = Append(toEmulator, e)
    BY <1>8, <2>1
  <2> HIDE DEF line, h, g, a, c, T, F
  <2>4. Link(own, ChannelOf, Registered, T \cup {e}, F, emulator, expelled, last_channel)
    BY <1>5, <1>7, <2>1, <2>2, LinkRelay
  <2>5. ConnectFirst(line)
    BY <1>1, <1>6, <2>1, <2>3, ConnectFirstAppend
  <2> HIDE DEF Link
  <2> QED BY <1>6, <1>9, <2>2, <2>3, <2>4, <2>5
<1>12. ASSUME ReadExpels(c) PROVE Goal
  <2>1. /\ a.r = ClientFree(conn[c]) /\ line = toEmulator
        /\ expelled' = expelled \cup {c}
    BY <1>8, <1>12 DEF ReadExpels
  <2>2. a.r.channel = NoChannel /\ a.r.registered = 0 /\ a.r.out \in {conn[c].out, <<>>}
    <3> HIDE DEF a
    <3> QED BY <2>1 DEF ClientFree, Closed, Connection
  <2>3. h = [ChannelOf EXCEPT ![c] = NoChannel] /\ g = Registered \ {c}
    <3> HIDE DEF a
    <3> QED BY <2>2
  <2>4. Link(own, [ChannelOf EXCEPT ![c] = NoChannel], Registered \ {c}, T, F, emulator,
             expelled', last_channel)
    <3> DEFINE x == expelled'
    <3>1. c \in x /\ expelled \subseteq x
      BY <2>1
    <3> HIDE DEF x, c, T, F
    <3>2. Link(own, [ChannelOf EXCEPT ![c] = NoChannel], Registered \ {c}, T, F, emulator,
               x, last_channel)
      BY <1>1, <1>5, <3>1, LinkDrop
    <3> QED BY <3>2 DEF x
  <2> HIDE DEF h, g, line, a, c, T, F
  <2>5. Link(own, h, g, T, F, emulator, expelled', last_channel')
    <3> DEFINE n == last_channel'
               x == expelled'
    <3>1. Link(own, h, g, T, F, emulator, x, last_channel) /\ n \in Nat /\ last_channel <= n
          /\ n < Channels
      BY <1>1, <1>3, <2>3, <2>4
    <3> HIDE DEF n, x
    <3>2. Link(own, h, g, T, F, emulator, x, n)
      BY <3>1, LinkSkip
    <3> QED BY <3>2 DEF n, x
  <2>6. Range(<<>>) = {}
    BY EmptyRange
  <2>7. \A m \in Range(a.r.out) : m.client = c
    BY <1>6, <2>2, <2>6
  <2> HIDE DEF Link
  <2> QED BY <1>1, <1>6, <2>1, <2>5, <2>7 DEF T
<1>13. ASSUME ReadOpens(c) PROVE Goal
  <2> DEFINE n == last_channel'
  <2>1. PICK e \in ToEmulator : /\ e.kind = "connect" /\ e.channel = NewChannel /\ e.client = c
                                /\ a.send = <<e>>
    BY <1>13 DEF ReadOpens
  <2>2. /\ conn[c].registered = 0 /\ conn[c].channel \notin 1..(Channels - 1)
        /\ a.r = [conn[c] EXCEPT !.channel = NewChannel]
        /\ last_channel < n /\ n = NewChannel /\ expelled' = expelled
    BY <1>13 DEF ReadOpens
  <2>3. a.r.channel = n /\ a.r.registered = 0 /\ a.r.out = conn[c].out
    <3> HIDE DEF a, n
    <3> QED BY <1>1, <2>2 DEF Conns
  <2>4. Range(line) = T \cup {e} /\ line \in Seq(ToEmulator) /\ line = Append(toEmulator, e)
    BY <1>8, <2>1
  <2>5. h = [ChannelOf EXCEPT ![c] = n] /\ g = Registered /\ c \notin Registered
    <3> HIDE DEF a, n
    <3> QED BY <1>7, <2>2, <2>3
  <2>6. n \in Nat /\ n < Channels
    BY <1>1
  <2> HIDE DEF h, g, line, a, c, T, F, n
  <2>7. ChannelOf[c] = NoChannel
    <3>1. ChannelOf[c] # NoChannel => ChannelOf[c] \in 1..last_channel
      BY <1>1, <1>5 DEF Link, Owned
    <3>2. \A k \in 1..last_channel : k \in 1..(Channels - 1)
      BY <1>1, <1>4
    <3> QED BY <1>7, <2>2, <3>1, <3>2
  <2>8. Link([own EXCEPT ![n] = c], [ChannelOf EXCEPT ![c] = n], Registered, T \cup {e}, F,
             emulator, expelled, n)
    BY <1>1, <1>5, <2>1, <2>2, <2>5, <2>6, <2>7, LinkOpen
  <2>9. ConnectFirst(line)
    <3>1. \A m \in T : m.channel # n
      <4>1. \A m \in T : m.channel \in 1..last_channel
        BY <1>5 DEF Link, Owned
      <4> QED BY <1>1, <2>2, <2>6, <4>1
    <3> QED BY <1>1, <1>6, <2>1, <2>2, <2>4, <3>1, ConnectFirstAppend DEF T
  <2> HIDE DEF Link
  <2>10. Link([own EXCEPT ![n] = c], h, g, Range(line), F, emulator, expelled', n)
    BY <2>2, <2>4, <2>5, <2>8
  <2> QED BY <1>6, <2>3, <2>4, <2>9, <2>10 DEF n
<1> HIDE DEF ReadKeeps, ReadRelays, ReadExpels, ReadOpens
<1>14. Goal
  BY <1>2, <1>10, <1>11, <1>12, <1>13
<1> QED BY <1>14

\* The handler is closed, and the emulator told if it is to be.
LEMMA LinkHangUp == TypeInv /\ ConnsInv /\ LinkInv /\ CallHangUp => LinkInv'
<1> SUFFICES ASSUME TypeInv, ConnsInv, LinkInv, CallHangUp, last_channel' < Channels
             PROVE  (\E own : LinkNow(own)') /\ ConnectFirst(toEmulator)' /\ OwnMail'
  BY DEF LinkInv
<1> DEFINE c == Due
           a == AfterRead(Due)
           F == Range(fromEmulator)
           line == toEmulator \o a.send
           h == [ChannelOf EXCEPT ![c] = a.r.channel]
           g == IF a.r.registered = 1 THEN Registered \cup {c} ELSE Registered \ {c}
           q == conn'[c]
           x == expelled'
           n == last_channel'
<1>0. TypeOK /\ HookDue /\ ~UsesFreed(Due) /\ Read(Due)
  BY DEF TypeInv, CallHangUp
<1>1. c \in Clients /\ a.r \in Conns /\ n \in Nat /\ Channels \in Nat
  BY <1>0, DueType, AfterReadType, QemudAssumption
<1>2. /\ \E own : Link(own, h, g, Range(line), F, emulator, x, n)
      /\ line \in Seq(ToEmulator) /\ ConnectFirst(line)
  BY <1>0, LinkRead
<1>3. /\ toEmulator' = line \o CloseNotice(a.r, c)
      /\ fromEmulator' = fromEmulator /\ emulator' = emulator /\ UNCHANGED <<answers, received>>
      /\ Update(c, Closed(a.r), Unread(Due))
  BY DEF CallHangUp, emulatorVars
<1>4. Closed(a.r) \in Conns
  BY <1>1, ClosedType
<1>5. conn' = [conn EXCEPT ![c] = q] /\ q.channel = NoChannel /\ q.registered = 0 /\ q.out = <<>>
  <2>1. /\ Closed(a.r).channel = NoChannel /\ Closed(a.r).registered = 0
        /\ Closed(a.r).out = <<>>
    BY DEF Closed, Connection
  <2> HIDE DEF a, c
  <2> QED BY <1>0, <1>1, <1>3, <1>4, <2>1, UpdateConn
<1>6. OwnMail'
  <2>1. OwnMail
    <3>1. last_channel < Channels
      BY <1>0, ReadAdvances
    <3> QED BY <3>1 DEF LinkInv
  <2> HIDE DEF q, c
  <2>2. \A m \in Range(q.out) : m.client = c
    BY <1>5, EmptyRange
  <2> QED BY <1>0, <1>1, <1>3, <1>5, <2>1, <2>2, OwnMailUpdate
<1> HIDE DEF q
<1>7. /\ ChannelOf \in [Clients -> 0..Channels]
      /\ ChannelOf' = [ChannelOf EXCEPT ![c] = NoChannel] /\ Registered' = Registered \ {c}
  <2>1. q.channel \in 0..Channels
    BY <1>5, NoChannelType
  <2>2. /\ ChannelOf \in [Clients -> 0..Channels]
        /\ ChannelOf' = [ChannelOf EXCEPT ![c] = q.channel]
        /\ q.registered = 0 => Registered' = Registered \ {c}
    BY <1>0, <1>1, <1>5, <2>1, ViewsUpdate
  <2> QED BY <1>5, <2>2
<1>8. /\ [h EXCEPT ![c] = NoChannel] = ChannelOf' /\ g \ {c} = Registered' /\ h[c] = a.r.channel
  <2> HIDE DEF a, c
  <2>1. [h EXCEPT ![c] = NoChannel] = [ChannelOf EXCEPT ![c] = NoChannel] /\ h[c] = a.r.channel
    BY <1>1, <1>7
  <2>2. g \ {c} = Registered \ {c}
    OBVIOUS
  <2> QED BY <1>7, <2>1, <2>2
<1>9. a.r.state # "live" => a.r.channel = NoChannel
  BY <1>0, ReadConn
<1> HIDE DEF h, g, line, F, x, n
<1>10. PICK own : Link(own, h, g, Range(line), F, emulator, x, n)
  BY <1>2
<1>11. a.r.channel # NoChannel => a.r.channel \in 1..(Channels - 1)
  <2>1. h[c] # NoChannel => h[c] \in 1..n
    BY <1>1, <1>10 DEF Link, Owned
  <2>2. n < Channels
    BY DEF n
  <2>3. \A k \in 1..n : k \in 1..(Channels - 1)
    BY <1>1, <2>2
  <2> QED BY <1>8, <2>1, <2>3
<1>12. CASE a.r.channel # NoChannel
  <2> DEFINE e == Message("disconnect", a.r.channel, c, 0)
  <2>1. CloseNotice(a.r, c) = <<e>>
    BY <1>9, <1>11, <1>12 DEF CloseNotice
  <2>2. e \in ToEmulator /\ e.kind = "disconnect" /\ e.channel = h[c] /\ e.client = c
    <3> HIDE DEF a, c
    <3> QED BY <1>1, <1>8 DEF Message, ToEmulator, MessagesOf, Conns
  <2> HIDE DEF e, a
  <2>3. toEmulator' = Append(line, e) /\ Range(toEmulator') = Range(line) \cup {e}
    BY <1>2, <1>3, <2>1, <2>2, LineExtends
  <2>4. Link(own, [h EXCEPT ![c] = NoChannel], g \ {c}, Range(line) \cup {e}, F, emulator, x, n)
    <3> HIDE DEF c
    <3> QED BY <1>1, <1>8, <1>10, <1>12, <2>2, LinkLeave
  <2>5. ConnectFirst(toEmulator')
    BY <1>2, <2>2, <2>3, ConnectFirstAppend
  <2>6. LinkNow(own)'
    BY <1>3, <1>8, <2>3, <2>4 DEF LinkNow, F, x, n
  <2> QED BY <1>6, <2>5, <2>6 DEF ConnectFirst
<1>13. CASE a.r.channel = NoChannel
  <2>1. CloseNotice(a.r, c) = <<>>
    BY <1>1, <1>13 DEF CloseNotice, NoChannel
  <2> HIDE DEF a
  <2>2. toEmulator' = line
    BY <1>2, <1>3, <2>1, LineExtends
  <2>3. Link(own, [h EXCEPT ![c] = NoChannel], g \ {c}, Range(line), F, emulator, x, n)
    <3> HIDE DEF c
    <3> QED BY <1>1, <1>8, <1>10, <1>13, LinkDrop
  <2>4. LinkNow(own)'
    BY <1>3, <1>8, <2>2, <2>3 DEF LinkNow, F, x, n
  <2>5. ConnectFirst(toEmulator')
    BY <1>2, <2>2
  <2> QED BY <1>6, <2>4, <2>5 DEF ConnectFirst
<1> QED BY <1>12, <1>13

\* What was read is written on, the packet due to the client that is its own.
LEMMA LinkReadWrite == TypeInv /\ ConnsInv /\ LinkInv /\ CallReadWrite => LinkInv'
<1> SUFFICES ASSUME TypeInv, ConnsInv, LinkInv, CallReadWrite, last_channel' < Channels
             PROVE  (\E own : LinkNow(own)') /\ ConnectFirst(toEmulator)' /\ OwnMail'
  BY DEF LinkInv
<1> DEFINE c == Due
           a == AfterRead(Due)
           F == Range(fromEmulator)
           line == toEmulator \o a.send
           h == [ChannelOf EXCEPT ![c] = a.r.channel]
           g == IF a.r.registered = 1 THEN Registered \cup {c} ELSE Registered \ {c}
           w == IF Writes(Due) THEN [a.r EXCEPT !.out = Tail(@)] ELSE a.r
           q == conn'[c]
           x == expelled'
           n == last_channel'
<1>0. TypeOK /\ HookDue /\ ~UsesFreed(Due) /\ Read(Due)
  BY DEF TypeInv, CallReadWrite
<1>1. c \in Clients /\ a.r \in Conns /\ n \in Nat /\ Channels \in Nat
  BY <1>0, DueType, AfterReadType, QemudAssumption
<1>2. /\ \E own : Link(own, h, g, Range(line), F, emulator, x, n)
      /\ line \in Seq(ToEmulator) /\ ConnectFirst(line)
      /\ \A m \in Range(a.r.out) : m.client = c
  BY <1>0, LinkRead
<1>3. /\ toEmulator' = line /\ fromEmulator' = fromEmulator /\ emulator' = emulator
      /\ IF Writes(Due) THEN Gets(c, Head(a.r.out)) ELSE UNCHANGED <<asked, answers, received>>
      /\ Update(c, w, Unread(Due))
  BY DEF CallReadWrite, emulatorVars
<1>4. Writes(Due) => a.r.out # <<>>
  BY DEF Writes
<1>5. OwnMail
  <2>1. last_channel < Channels
    BY <1>0, ReadAdvances
  <2> QED BY <2>1 DEF LinkInv
<1> HIDE DEF a
<1>6. a.r.out \in Seq(ToClient)
  BY <1>1 DEF Conns
<1>7. /\ w \in Conns /\ w.channel = a.r.channel /\ w.registered = a.r.registered
      /\ \A m \in Range(w.out) : m.client = c
  <2>1. CASE Writes(Due)
    <3> DEFINE t == Tail(a.r.out)
    <3>1. /\ t \in Seq(ToClient) /\ Range(t) \subseteq Range(a.r.out)
      BY <1>4, <1>6, <2>1, HeadThenTail, HeadTailRange
    <3>2. w = [a.r EXCEPT !.out = t]
      BY <2>1
    <3> HIDE DEF t, w, c
    <3>3. /\ w \in Conns /\ w.channel = a.r.channel /\ w.registered = a.r.registered
          /\ w.out = t
      BY <1>1, <3>1, <3>2 DEF Conns
    <3> QED BY <1>2, <3>1, <3>3
  <2>2. CASE ~Writes(Due)
    <3>1. w = a.r
      BY <2>2
    <3> HIDE DEF w, c
    <3> QED BY <1>1, <1>2, <3>1
  <2> QED BY <2>1, <2>2
<1> HIDE DEF w
<1>8. /\ conn' = [conn EXCEPT ![c] = q] /\ q.channel = a.r.channel
      /\ q.registered = a.r.registered /\ q.out = w.out
  BY <1>0, <1>1, <1>3, <1>7, UpdateConn
<1> HIDE DEF q, c, h, g, line, F, x, n
<1>9. OwnMail'
  <2>1. UNCHANGED <<answers, received>> \/ \E m : Gets(c, m) /\ m.client = c
    <3>1. CASE Writes(Due)
      <4>1. Head(a.r.out) \in ToClient /\ Head(a.r.out) \in Range(a.r.out)
        BY <1>4, <1>6, <3>1, HeadThenTail, HeadTailRange
      <4> QED BY <1>2, <1>3, <3>1, <4>1
    <3>2. CASE ~Writes(Due)
      BY <1>3, <3>2
    <3> QED BY <3>1, <3>2
  <2>2. \A m \in Range(q.out) : m.client = c
    BY <1>7, <1>8
  <2> QED BY <1>0, <1>1, <1>5, <1>8, <2>1, <2>2, OwnMailUpdate
<1>10. ChannelOf' = h /\ Registered' = g
  <2>1. q.channel \in 0..Channels /\ q.registered \in {0, 1}
    BY <1>1, <1>8 DEF Conns
  <2>2. /\ ChannelOf' = [ChannelOf EXCEPT ![c] = q.channel]
        /\ q.registered = 1 => Registered' = Registered \cup {c}
        /\ q.registered = 0 => Registered' = Registered \ {c}
    BY <1>0, <1>1, <1>8, <2>1, ViewsUpdate
  <2>3. ChannelOf' = h
    BY <1>8, <2>2 DEF h
  <2>4. CASE q.registered = 1
    BY <1>8, <2>2, <2>3, <2>4 DEF g
  <2>5. CASE q.registered = 0
    BY <1>8, <2>2, <2>3, <2>5 DEF g
  <2> QED BY <2>1, <2>4, <2>5
<1>11. PICK own : Link(own, h, g, Range(line), F, emulator, x, n)
  BY <1>2
<1>12. LinkNow(own)'
  BY <1>3, <1>10, <1>11 DEF LinkNow, F, x, n
<1> QED BY <1>2, <1>3, <1>9, <1>12 DEF ConnectFirst

\* The emulator deals with the first message of its line.
LEMMA LinkEmulatorReceive == TypeInv /\ LinkInv /\ EmulatorReceive => LinkInv'
<1> SUFFICES ASSUME TypeInv, LinkInv, EmulatorReceive, last_channel < Channels
             PROVE  (\E own : LinkNow(own)') /\ ConnectFirst(toEmulator)' /\ OwnMail'
  BY DEF LinkInv, EmulatorReceive, daemonVars
<1> DEFINE m == Head(toEmulator)
           T == Range(toEmulator)
           TNow == Range(Tail(toEmulator))
           F == Range(fromEmulator)
           ch == ChannelOf
           reg == Registered
<1>0. TypeOK
  BY DEF TypeInv
<1>1. PICK own : Link(own, ch, reg, T, F, emulator, expelled, last_channel)
  BY DEF LinkInv, LinkNow
<1>2. ConnectFirst(toEmulator) /\ OwnMail
  BY DEF LinkInv
<1>3. /\ toEmulator \in Seq(ToEmulator) /\ toEmulator # <<>> /\ m \in ToEmulator
      /\ fromEmulator \in Seq(FromEmulator)
  BY <1>0 DEF TypeOK, EmulatorReceive
<1>4. T = {m} \cup TNow /\ m \in T /\ TNow \subseteq T /\ T \subseteq TNow \cup {m}
  BY <1>3, HeadTailRange
<1>5. /\ ConnectFirst(Tail(toEmulator))
      /\ \A n \in TNow : n.channel = m.channel => n.kind # "connect"
  BY <1>2, <1>3, ConnectFirstTail
<1>6. /\ toEmulator' = Tail(toEmulator)
      /\ UNCHANGED <<conn, expelled, last_channel, answers, received>>
  BY DEF EmulatorReceive, daemonVars, clientVars
<1>7. OwnMail' /\ ConnectFirst(toEmulator)' /\ ch' = ch /\ reg' = reg /\ Range(toEmulator)' = TNow
  BY <1>2, <1>5, <1>6 DEF OwnMail, Mail, ConnectFirst, ChannelOf, Registered
<1>8. \/ /\ m.kind = "connect"
         /\ emulator' = [emulator EXCEPT ![m.channel] = m.client]
         /\ fromEmulator' = Append(fromEmulator, [m EXCEPT !.kind = "OK"])
      \/ /\ m.kind = "connect" /\ emulator' = emulator
         /\ fromEmulator' = Append(fromEmulator, [m EXCEPT !.kind = "KO"])
      \/ /\ m.kind = "disconnect"
         /\ emulator' = [emulator EXCEPT ![m.channel] = NoClient]
         /\ fromEmulator' = fromEmulator
      \/ m.kind = "data" /\ emulator' = emulator /\ fromEmulator' = fromEmulator
  BY DEF EmulatorReceive, Answered
<1> HIDE DEF m, T, TNow, ch, reg
<1>9. ASSUME NEW kind \in {"OK", "KO"},
             fromEmulator' = Append(fromEmulator, [m EXCEPT !.kind = kind])
      PROVE  \E e : /\ e.kind = kind /\ e.channel = m.channel /\ e.client = m.client
                    /\ Range(fromEmulator)' = F \cup {e}
  <2> DEFINE e == [m EXCEPT !.kind = kind]
  <2>1. /\ e \in FromEmulator /\ e.kind = kind /\ e.channel = m.channel /\ e.client = m.client
    BY <1>3 DEF ToEmulator, FromEmulator, MessagesOf
  <2>2. fromEmulator' = Append(fromEmulator, e)
    BY <1>9
  <2> HIDE DEF e
  <2>3. Range(fromEmulator)' = F \cup {e}
    BY <1>3, <2>1, <2>2, AppendRange
  <2> QED BY <2>1, <2>3
<1> HIDE DEF F
<1>10. ASSUME NEW FNow, FNow = Range(fromEmulator)', NEW em, em = emulator',
              Link(own, ch, reg, TNow, FNow, em, expelled, last_channel)
       PROVE  LinkNow(own)'
  BY <1>6, <1>7, <1>10 DEF LinkNow, ch, reg
<1>11. LinkNow(own)'
  <2>1. CASE /\ m.kind = "connect"
             /\ emulator' = [emulator EXCEPT ![m.channel] = m.client]
             /\ fromEmulator' = Append(fromEmulator, [m EXCEPT !.kind = "OK"])
    <3>1. PICK e : /\ e.kind = "OK" /\ e.channel = m.channel /\ e.client = m.client
                   /\ Range(fromEmulator)' = F \cup {e}
      BY <1>9, <2>1
    <3> DEFINE em == [emulator EXCEPT ![m.channel] = m.client]
    <3>2. Link(own, ch, reg, TNow, F \cup {e}, em, expelled, last_channel)
      BY <1>1, <1>4, <1>5, <2>1, <3>1, LinkGrant
    <3>3. em = emulator'
      BY <2>1
    <3> HIDE DEF em, Link
    <3> QED BY <1>10, <3>1, <3>2, <3>3
  <2>2. CASE /\ m.kind = "connect" /\ emulator' = emulator
             /\ fromEmulator' = Append(fromEmulator, [m EXCEPT !.kind = "KO"])
    <3>1. PICK e : /\ e.kind = "KO" /\ e.channel = m.channel /\ e.client = m.client
                   /\ Range(fromEmulator)' = F \cup {e}
      BY <1>9, <2>2
    <3>2. Link(own, ch, reg, TNow, F \cup {e}, emulator, expelled, last_channel)
      BY <1>1, <1>4, <1>5, <2>2, <3>1, LinkRefuse
    <3> HIDE DEF Link
    <3> QED BY <1>10, <2>2, <3>1, <3>2
  <2>3. CASE /\ m.kind = "disconnect"
             /\ emulator' = [emulator EXCEPT ![m.channel] = NoClient]
             /\ fromEmulator' = fromEmulator
    <3> DEFINE em == [emulator EXCEPT ![m.channel] = NoClient]
    <3>1. Link(own, ch, reg, TNow, F, em, expelled, last_channel)
      BY <1>1, <1>4, <1>5, <2>3, LinkGone
    <3>2. em = emulator' /\ F = Range(fromEmulator)'
      BY <2>3 DEF F
    <3> HIDE DEF em, Link
    <3> QED BY <1>10, <3>1, <3>2
  <2>4. CASE m.kind = "data" /\ emulator' = emulator /\ fromEmulator' = fromEmulator
    <3>1. Link(own, ch, reg, TNow, F, emulator, expelled, last_channel)
      BY <1>1, <1>4, <2>4, LinkPass
    <3>2. F = Range(fromEmulator)'
      BY <2>4 DEF F
    <3> HIDE DEF Link
    <3> QED BY <1>10, <2>4, <3>1, <3>2
  <2> QED BY <1>8, <2>1, <2>2, <2>3, <2>4
<1> QED BY <1>7, <1>11

\* It sends to a client it has, or disconnects one.
LEMMA LinkEmulatorSends ==
    ASSUME TypeInv, LinkInv, NEW k \in 0..(Channels - 1), EmulatorSend(k) \/ EmulatorDisconnect(k)
    PROVE  LinkInv'
<1> SUFFICES ASSUME last_channel < Channels
             PROVE  (\E own : LinkNow(own)') /\ ConnectFirst(toEmulator)' /\ OwnMail'
  BY DEF LinkInv, EmulatorSend, EmulatorDisconnect, daemonVars
<1> DEFINE T == Range(toEmulator)
           F == Range(fromEmulator)
           ch == ChannelOf
           reg == Registered
           d == emulator[k]
<1>0. TypeOK
  BY DEF TypeInv
<1>1. PICK own : Link(own, ch, reg, T, F, emulator, expelled, last_channel)
  BY DEF LinkInv, LinkNow
<1>2. k \in 0..Channels /\ d \in Clients /\ d # NoClient /\ fromEmulator \in Seq(FromEmulator)
  BY <1>0, QemudAssumption DEF TypeOK, EmulatorSend, EmulatorDisconnect
<1>3. UNCHANGED <<conn, toEmulator, expelled, last_channel, answers, received>>
  BY DEF EmulatorSend, EmulatorDisconnect, daemonVars, clientVars
<1>4. OwnMail' /\ ConnectFirst(toEmulator)' /\ ch' = ch /\ reg' = reg /\ Range(toEmulator)' = T
  BY <1>3 DEF LinkInv, OwnMail, Mail, ConnectFirst, ChannelOf, Registered
<1>5. CASE EmulatorSend(k)
  <2> DEFINE e == Message("data", k, d, emulatorSent[d] + 1)
  <2>1. e \in FromEmulator /\ e.kind = "data" /\ e.channel = k /\ e.client = d
    BY <1>0, <1>2 DEF TypeOK, Message, FromEmulator, MessagesOf
  <2>2. fromEmulator' = Append(fromEmulator, e) /\ emulator' = emulator
    BY <1>5 DEF EmulatorSend
  <2> HIDE DEF e, T, ch, reg
  <2>3. Range(fromEmulator)' = F \cup {e}
    BY <1>2, <2>1, <2>2, AppendRange
  <2> HIDE DEF F
  <2>4. Link(own, ch, reg, T, F \cup {e}, emulator, expelled, last_channel)
    BY <1>1, <1>2, <2>1, LinkSend
  <2>5. LinkNow(own)'
    BY <1>3, <1>4, <2>2, <2>3, <2>4 DEF LinkNow, ch, reg
  <2> QED BY <1>4, <2>5
<1>6. CASE EmulatorDisconnect(k)
  <2> DEFINE e == Message("disconnect", k, d, 0)
             em == [emulator EXCEPT ![k] = NoClient]
  <2>1. e \in FromEmulator /\ e.kind = "disconnect" /\ e.channel = k /\ e.client = d
    BY <1>2 DEF Message, FromEmulator, MessagesOf
  <2>2. fromEmulator' = Append(fromEmulator, e) /\ emulator' = em
    BY <1>6 DEF EmulatorDisconnect
  <2> HIDE DEF e, T, ch, reg
  <2>3. Range(fromEmulator)' = F \cup {e}
    BY <1>2, <2>1, <2>2, AppendRange
  <2> HIDE DEF F
  <2>4. Link(own, ch, reg, T, F \cup {e}, em, expelled, last_channel)
    BY <1>1, <1>2, <2>1, LinkCut
  <2> HIDE DEF em
  <2>5. LinkNow(own)'
    BY <1>3, <1>4, <2>2, <2>3, <2>4 DEF LinkNow, ch, reg
  <2> QED BY <1>4, <2>5
<1> QED BY <1>5, <1>6

LEMMA LinkInductive == TypeInv /\ ConnsInv /\ LinkInv /\ [Next]_vars => LinkInv'
<1> SUFFICES ASSUME TypeInv, ConnsInv, LinkInv, [Next]_vars PROVE LinkInv'
  OBVIOUS
<1> USE DEF daemonVars, lineVars, clientVars, emulatorVars
<1>1. CASE EpollWait \/ SweepHooks \/ CallWild \/ CallKilled
  BY <1>1, LinkFrame DEF EpollWait, SweepHooks, CallWild, CallKilled
<1>2. CASE SerialReceive \/ CallHangUp \/ CallReadWrite
  BY <1>2, LinkSerial, LinkHangUp, LinkReadWrite
<1>3. CASE Accept
  <2> DEFINE c == Head(backlog)
             r == Connection("live", LowestFd, NoChannel, 0, <<>>)
  <2>1. TypeOK /\ backlog \in Seq(Clients) /\ backlog # <<>> /\ c \in Clients
    BY <1>3 DEF Accept, TypeInv, TypeOK
  <2>2. conn' = [conn EXCEPT ![c] = r]
    BY <1>3 DEF Accept
  <2>3. r.channel = NoChannel /\ r.registered = 0 /\ r.out = <<>>
    BY DEF Connection
  <2>4. c \in Range(backlog)
    BY <2>1, HeadTailRange
  <2>5. conn[c].channel = NoChannel /\ conn[c].registered = 0
    BY <2>1, <2>4 DEF ConnsInv
  <2>6. UNCHANGED <<toEmulator, fromEmulator, emulator, expelled, last_channel, answers,
                  received>>
    BY <1>3 DEF Accept
  <2> HIDE DEF c, r
  <2>7. ChannelOf' = ChannelOf /\ Registered' = Registered
    <3>1. r.channel \in 0..Channels
      BY <2>3, NoChannelType
    <3>2. /\ r.channel = conn[c].channel => ChannelOf' = ChannelOf
          /\ r.registered = 0 => Registered' = Registered \ {c}
          /\ c \in Registered <=> conn[c].registered = 1
      BY <2>1, <2>2, <3>1, ViewsUpdate
    <3>3. c \notin Registered
      BY <2>5, <3>2
    <3> QED BY <2>3, <2>5, <3>2, <3>3
  <2>8. OwnMail => OwnMail'
    <3>1. \A m \in Range(r.out) : m.client = c
      BY <2>3, EmptyRange
    <3> QED BY <2>1, <2>2, <2>6, <3>1, OwnMailUpdate
  <2> QED BY <2>6, <2>7, <2>8 DEF LinkInv, LinkNow, ConnectFirst
<1>4. CASE ClientStep
  BY <1>4, LinkFrame DEF ClientStep, Connect, Ask, Write, HangUp
<1>5. CASE EmulatorStep
  BY <1>5, LinkEmulatorReceive, LinkEmulatorSends DEF EmulatorStep
<1>6. CASE UNCHANGED vars
  BY <1>6, LinkFrame DEF vars
<1> QED BY <1>1, <1>2, <1>3, <1>4, <1>5, <1>6 DEF Next, Daemon

LEMMA LinkInitially == Init => LinkInv
<1> SUFFICES ASSUME Init, last_channel < Channels
             PROVE  (\E own : LinkNow(own)) /\ ConnectFirst(toEmulator) /\ OwnMail
  BY DEF LinkInv
<1> DEFINE own == [k \in 0..Channels |-> NoClient]
<1>1. Range(toEmulator) = {} /\ Range(fromEmulator) = {}
  BY EmptyRange DEF Init
<1>2. \A c \in Clients : conn[c].channel = NoChannel /\ conn[c].registered = 0
                         /\ conn[c].out = <<>> /\ answers[c] = <<>> /\ received[c] = <<>>
  BY DEF Init, NewConn, Connection
<1>3. /\ ChannelOf = [c \in Clients |-> NoChannel] /\ Registered = {}
      /\ emulator = own /\ last_channel = 0
  BY <1>2 DEF Init, ChannelOf, Registered
<1>4. \A k \in 0..Channels : own[k] = NoClient
  OBVIOUS
<1>5. /\ own \in [0..Channels -> Clients \cup {NoClient}]
      /\ ChannelOf \in [Clients -> 0..Channels] /\ last_channel \in 0..(Channels - 1)
  BY <1>3, NoChannelType, QemudAssumption
<1> HIDE DEF own
<1>6. \A c \in Clients : ChannelOf[c] = NoChannel
  BY <1>3
<1>7. LinkNow(own)
  BY <1>1, <1>3, <1>4, <1>5, <1>6
     DEF LinkNow, Link, Owned, EmulatorKnows, RequestsNew, FarewellsTrue, ClientsKnown, Says
<1>8. OwnMail
  BY <1>2, EmptyRange DEF OwnMail, Mail
<1>9. ConnectFirst(toEmulator)
  BY DEF Init, ConnectFirst
<1> QED BY <1>7, <1>8, <1>9


-----------------------------------------------------------------------------
(* The theorems.                                                           *)

LEMMA LinkImplies ==
    ASSUME TypeOK, LinkInv, last_channel < Channels
    PROVE  NoCrossTalk /\ EmulatorAgrees
<1> DEFINE T == Range(toEmulator)
           F == Range(fromEmulator)
<1>1. PICK own : Link(own, ChannelOf, Registered, T, F, emulator, expelled, last_channel)
  BY DEF LinkInv, LinkNow
<1>2. OwnMail
  BY DEF LinkInv
<1>3. /\ toEmulator \in Seq(ToEmulator) /\ fromEmulator \in Seq(FromEmulator)
      /\ answers \in [Clients -> Seq(Answer)] /\ received \in [Clients -> Seq(Data)]
      /\ emulator \in [0..Channels -> Clients \cup {NoClient}]
  BY DEF TypeOK
<1>4. \A k : /\ Says(T, "disconnect", k) => On(toEmulator, "disconnect", k)
             /\ Says(F, "disconnect", k) => On(fromEmulator, "disconnect", k)
  <2>1. /\ \A m \in T : \E i \in 1..Len(toEmulator) : toEmulator[i] = m
        /\ \A m \in F : \E i \in 1..Len(fromEmulator) : fromEmulator[i] = m
    BY <1>3, InRange
  <2> QED BY <2>1 DEF Says, On
<1>5. NoCrossTalk
  <2>1. ASSUME NEW c \in Clients
        PROVE  /\ \A i \in 1..Len(answers[c]) : answers[c][i].client = c
               /\ \A i \in 1..Len(received[c]) : received[c][i].client = c
    <3>1. /\ \A i \in 1..Len(answers[c]) : answers[c][i] \in Range(answers[c])
          /\ \A i \in 1..Len(received[c]) : received[c][i] \in Range(received[c])
      BY <1>3, InRange
    <3> QED BY <1>2, <3>1 DEF OwnMail, Mail
  <2>2. ASSUME toEmulator # <<>>
        PROVE  emulator[Head(toEmulator).channel] \in {Head(toEmulator).client, NoClient}
    <3> DEFINE m == Head(toEmulator)
    <3>1. m \in T
      BY <1>3, <2>2, HeadTailRange
    <3> HIDE DEF m, T, F
    <3>2. m.channel \in 1..last_channel /\ own[m.channel] = m.client
      BY <1>1, <3>1 DEF Link, Owned
    <3>3. m.channel \in 0..Channels
      BY <1>1, <3>2, QemudAssumption DEF Link
    <3>4. emulator[m.channel] # NoClient => own[m.channel] = emulator[m.channel]
      BY <1>1, <3>3 DEF Link, Owned
    <3>5. emulator[m.channel] \in {m.client, NoClient}
      BY <3>2, <3>4
    <3> QED BY <3>5 DEF m
  <2> QED BY <2>1, <2>2 DEF NoCrossTalk
<1> HIDE DEF T, F
<1>6. EmulatorAgrees
  <2>1. ASSUME NEW k \in 0..(Channels - 1), emulator[k] \notin expelled \cup {NoClient}
        PROVE  conn[emulator[k]].channel = k \/ On(toEmulator, "disconnect", k)
    <3>1. k \in 0..Channels
      BY QemudAssumption
    <3>2. emulator[k] \in Clients
      BY <1>3, <2>1, <3>1
    <3>3. ChannelOf[emulator[k]] = k \/ Says(T, "disconnect", k)
      BY <1>1, <2>1, <3>1 DEF Link, EmulatorKnows
    <3> QED BY <1>4, <3>2, <3>3 DEF ChannelOf
  <2>2. ASSUME NEW c \in LiveClients, conn[c].registered = 1
        PROVE  emulator[conn[c].channel] = c \/ On(fromEmulator, "disconnect", conn[c].channel)
    <3>1. c \in Registered /\ c \in Clients /\ ChannelOf[c] = conn[c].channel
      BY <2>2 DEF Registered, LiveClients, ChannelOf
    <3>2. emulator[ChannelOf[c]] = c \/ Says(F, "disconnect", ChannelOf[c])
      BY <1>1, <3>1 DEF Link, ClientsKnown
    <3> QED BY <1>4, <3>1, <3>2
  <2> QED BY <2>1, <2>2 DEF EmulatorAgrees
<1> QED BY <1>5, <1>6

LinkAll == TypeInv /\ ConnsInv /\ LinkInv

LEMMA LinkAlways == Spec => []LinkAll
<1>1. Init => LinkAll
  BY TypeInitially, ConnsInitially, LinkInitially DEF LinkAll
<1>2. LinkAll /\ [Next]_vars => LinkAll'
  BY TypeInductive, ConnsInductive, LinkInductive DEF LinkAll
<1> QED BY <1>1, <1>2, PTL DEF Spec

\* Until the channel numbers come round, a client gets answers to its own requests and data
\* for itself only, and the emulator gets no data on a channel but of the client it has there,
\* whatever was on the line when clients left, were refused, were thrown out or were
\* disconnected, and whoever came after them.
THEOREM CrossTalkFree == Spec => [](last_channel < Channels => NoCrossTalk)
<1>1. LinkAll => (last_channel < Channels => NoCrossTalk)
  BY LinkImplies DEF LinkAll, TypeInv
<1> QED BY <1>1, LinkAlways, PTL

\* Until then the two sides agree on who is connected, but for the disconnections on the line
\* and for the clients thrown out, of whom the emulator is not told.
THEOREM SidesAgree == Spec => [](last_channel < Channels => EmulatorAgrees)
<1>1. LinkAll => (last_channel < Channels => EmulatorAgrees)
  BY LinkImplies DEF LinkAll, TypeInv
<1> QED BY <1>1, LinkAlways, PTL

-----------------------------------------------------------------------------
\* The clients whose connection has no Client any more, and those that have had a grant.
GoneClients == {c \in Clients : conn[c].state \in {"closing", "freed"}}
Told        == {c \in Clients : Granted(c)}

\* The numbers of the data messages for client c among the messages F.
DataFor(F, c) == {m \in F : m.kind = "data" /\ m.client = c}
Numbers(F, c) == {m.number : m \in DataFor(F, c)}

\* On the line from the emulator the data for a client is in order, and an answer comes before
\* everything else on its channel.
DataInOrder(line) ==
    \A i, j \in 1..Len(line) :
        i < j /\ line[i].kind = "data" /\ line[j].kind = "data"
              /\ line[i].client = line[j].client => line[i].number < line[j].number
AnswersFirst(line) ==
    \A i, j \in 1..Len(line) :
        i < j /\ line[i].channel = line[j].channel => line[j].kind \notin {"OK", "KO"}

\* The emulator is told of, and the daemon throws out, clients that are gone. What the
\* emulator sends a client that is not gone is on its channel, and comes after its grant; a
\* client that is registered has had its answer.
Flow(gone, ch, reg, T, F, em, ex, sent) ==
    /\ \A m \in T : m.kind = "disconnect" => m.client \in gone
    /\ ex \subseteq gone
    /\ \A m \in F : m.kind = "data" => m.number \in 1..sent[m.client]
    /\ \A m \in F : m.kind = "data" /\ m.client \notin gone =>
         m.channel = ch[m.client] /\ (m.client \in reg \/ Says(F, "OK", m.channel))
    /\ \A k \in 0..Channels : em[k] # NoClient /\ em[k] \notin gone =>
         em[k] \in reg \/ Says(F, "OK", k)
    /\ \A c \in reg : \A m \in F : m.channel = ch[c] => m.kind \notin {"OK", "KO"}

\* The data in q is the last that is in it, and is numbered on from d.
Numbered(q, d) ==
    \A i \in 1..Len(q) : q[i].kind = "data" =>
        /\ q[i].number = (IF i > 1 /\ q[i - 1].kind = "data" THEN q[i - 1].number ELSE d) + 1
        /\ \A j \in i..Len(q) : q[j].kind = "data"
Reached(q, d) == IF q # <<>> /\ q[Len(q)].kind = "data" THEN q[Len(q)].number ELSE d

\* Client c has been written d data messages and is to be written q; numbers are those of the
\* data on the line to it, and s have been sent.
Served(c, q, d, told, gone, reg, numbers, s) ==
    /\ Numbered(q, d) /\ d <= s
    /\ \A i \in 1..Len(q) : q[i].kind = "data" =>
         q[i].number <= s /\ (c \in told \/ \E j \in 1..(i - 1) : q[j].kind = "OK")
    /\ c \notin gone \cup reg => d = 0 /\ \A i \in 1..Len(q) : q[i].kind # "data"
    /\ c \in reg => c \in told \/ \E i \in 1..Len(q) : q[i].kind = "OK"
    /\ c \notin gone => numbers = (Reached(q, d) + 1)..s

FlowNow == Flow(GoneClients, ChannelOf, Registered, Range(toEmulator), Range(fromEmulator),
                emulator, expelled, emulatorSent)
ServedNow == \A c \in Clients :
    Served(c, conn[c].out, Len(received[c]), Told, GoneClients, Registered,
           Numbers(Range(fromEmulator), c), emulatorSent[c])

OrderInv == last_channel < Channels =>
    FlowNow /\ ServedNow /\ DataInOrder(fromEmulator) /\ AnswersFirst(fromEmulator)

-----------------------------------------------------------------------------
(* What a client has been written and is to be written.                    *)

LEMMA TailParts ==
    ASSUME NEW S, NEW q \in Seq(S), q # <<>>
    PROVE  /\ Tail(q) \in Seq(S) /\ Len(q) \in Nat \ {0} /\ Len(Tail(q)) = Len(q) - 1
           /\ Head(q) = q[1] /\ q[1] \in S
           /\ \A i \in 1..Len(Tail(q)) : i + 1 \in 1..Len(q) /\ Tail(q)[i] = q[i + 1]
<1> DEFINE t == Tail(q)
<1>1. /\ t \in Seq(S) /\ Len(t) = Len(q) - 1 /\ Len(q) \in Nat \ {0} /\ Head(q) = q[1]
      /\ \A i \in 1..Len(t) : t[i] = q[i + 1]
  BY HeadTailProperties, EmptySeq
<1>2. q[1] \in S
  BY <1>1, ElementOfSeq
<1> HIDE DEF t
<1> QED BY <1>1, <1>2 DEF t

LEMMA AppendParts ==
    ASSUME NEW S, NEW q \in Seq(S), NEW m \in S
    PROVE  /\ Append(q, m) \in Seq(S) /\ Len(q) \in Nat /\ Len(Append(q, m)) = Len(q) + 1
           /\ Append(q, m) # <<>> /\ Append(q, m)[Len(q) + 1] = m
           /\ \A i \in 1..Len(q) : Append(q, m)[i] = q[i]
BY AppendType, AppendProperties, LenProperties

LEMMA QueuedNumbers ==
    ASSUME NEW q \in Seq(ToClient)
    PROVE  \A i \in 1..Len(q) : q[i].number \in Nat
<1> TAKE i \in 1..Len(q)
<1>1. q[i] \in ToClient
  BY ElementOfSeq
<1> QED BY <1>1 DEF ToClient, MessagesOf

\* Data is queued whose number is the next.
LEMMA ServedData ==
    ASSUME NEW q \in Seq(ToClient), NEW d \in Nat, NEW s \in Nat, NEW m \in ToClient,
           NEW c, NEW told, NEW gone, NEW reg, NEW numbers,
           Served(c, q, d, told, gone, reg, numbers, s),
           m.kind = "data", m.number \in numbers, \A n \in numbers : m.number <= n,
           c \in reg, c \notin gone
    PROVE  Served(c, Append(q, m), d, told, gone, reg, numbers \ {m.number}, s)
<1> DEFINE r == Append(q, m)
           l == Len(q) + 1
           a == Reached(q, d)
<1>1. /\ r \in Seq(ToClient) /\ Len(q) \in Nat /\ Len(r) = l /\ r # <<>> /\ r[l] = m
      /\ \A i \in 1..Len(q) : r[i] = q[i]
  BY AppendParts
<1>2. \A i \in 1..Len(q) : q[i].number \in Nat
  BY QueuedNumbers
<1>3. a \in Nat
  BY <1>1, <1>2, EmptySeq DEF Reached
<1>4. numbers = (a + 1)..s
  BY DEF Served
<1> HIDE DEF a
<1>5. m.number = a + 1 /\ m.number <= s /\ m.number \in Nat
  BY <1>3, <1>4 DEF ToClient, MessagesOf
<1>6. Reached(r, d) = a + 1
  BY <1>1, <1>5 DEF Reached
<1>7. numbers \ {m.number} = (Reached(r, d) + 1)..s
  BY <1>3, <1>4, <1>5, <1>6
<1> HIDE DEF r
<1>8. Numbered(r, d)
  <2> SUFFICES ASSUME NEW i \in 1..l, r[i].kind = "data"
               PROVE  /\ r[i].number =
                           (IF i > 1 /\ r[i - 1].kind = "data" THEN r[i - 1].number ELSE d) + 1
                      /\ \A j \in i..l : r[j].kind = "data"
    BY <1>1 DEF Numbered
  <2>1. CASE i \in 1..Len(q)
    <3>1. /\ q[i].number = (IF i > 1 /\ q[i - 1].kind = "data" THEN q[i - 1].number ELSE d) + 1
          /\ \A j \in i..Len(q) : q[j].kind = "data"
      BY <1>1, <2>1 DEF Served, Numbered
    <3>2. i > 1 => i - 1 \in 1..Len(q)
      BY <1>1, <2>1
    <3>3. ASSUME NEW j \in i..l PROVE r[j].kind = "data"
      <4>1. CASE j \in 1..Len(q)
        BY <1>1, <3>1, <4>1
      <4>2. j = l \/ j \in 1..Len(q)
        BY <1>1
      <4> QED BY <1>1, <4>1, <4>2
    <3> QED BY <1>1, <2>1, <3>1, <3>2, <3>3
  <2>2. CASE i = l
    <3>1. \A j \in i..l : j = l
      BY <1>1, <2>2
    <3>2. (IF i > 1 /\ r[i - 1].kind = "data" THEN r[i - 1].number ELSE d) = a
      <4>1. CASE q = <<>>
        BY <1>1, <2>2, <4>1 DEF Reached, a
      <4>2. CASE q # <<>>
        <5>1. i > 1 /\ i - 1 = Len(q) /\ Len(q) \in 1..Len(q)
          BY <1>1, <2>2, <4>2, EmptySeq
        <5> QED BY <1>1, <4>2, <5>1 DEF Reached, a
      <4> QED BY <4>1, <4>2
    <3> QED BY <1>1, <1>5, <2>2, <3>1, <3>2
  <2> QED BY <1>1, <2>1, <2>2
<1>9. ASSUME NEW i \in 1..l, r[i].kind = "data"
      PROVE  r[i].number <= s /\ (c \in told \/ \E j \in 1..(i - 1) : r[j].kind = "OK")
  <2>1. CASE i \in 1..Len(q)
    <3>1. q[i].number <= s /\ (c \in told \/ \E j \in 1..(i - 1) : q[j].kind = "OK")
      BY <1>1, <1>9, <2>1 DEF Served
    <3>2. \A j \in 1..(i - 1) : j \in 1..Len(q)
      BY <1>1, <2>1
    <3> QED BY <1>1, <2>1, <3>1, <3>2
  <2>2. CASE i = l
    <3>1. c \in told \/ \E j \in 1..Len(q) : q[j].kind = "OK"
      BY DEF Served
    <3>2. \A j \in 1..Len(q) : j \in 1..(i - 1)
      BY <1>1, <2>2
    <3> QED BY <1>1, <1>5, <2>2, <3>1, <3>2
  <2> QED BY <1>1, <2>1, <2>2
<1>10. c \in told \/ \E i \in 1..l : r[i].kind = "OK"
  <2>1. \A i \in 1..Len(q) : i \in 1..l
    BY <1>1
  <2> QED BY <1>1, <2>1 DEF Served
<1> QED BY <1>1, <1>7, <1>8, <1>9, <1>10 DEF Served, r


\* An answer is queued for a client that has none: it is granted or refused.
LEMMA ServedAnswer ==
    ASSUME NEW q \in Seq(ToClient), NEW d \in Nat, NEW s \in Nat, NEW m \in ToClient,
           NEW c, NEW told, NEW gone, NEW reg, NEW numbers,
           Served(c, q, d, told, gone, reg, numbers, s),
           m.kind # "data", c \notin reg, c \notin gone,
           NEW reg2, c \in reg2 => m.kind = "OK"
    PROVE  Served(c, Append(q, m), d, told, gone, reg2, numbers, s)
<1> DEFINE r == Append(q, m)
           l == Len(q) + 1
<1>1. /\ Len(q) \in Nat /\ Len(r) = l /\ r # <<>> /\ r[l] = m /\ l \in 1..l
      /\ \A i \in 1..Len(q) : r[i] = q[i]
      /\ \A i \in 1..l : i \in 1..Len(q) \/ i = l
  BY AppendParts
<1>2. d = 0 /\ \A i \in 1..Len(q) : q[i].kind # "data"
  BY DEF Served
<1> HIDE DEF r
<1>3. \A i \in 1..l : r[i].kind # "data"
  BY <1>1, <1>2
<1>4. Reached(r, d) = d
  BY <1>1, <1>3 DEF Reached
<1>5. Reached(q, d) = d
  BY <1>1, <1>2, EmptySeq DEF Reached
<1>6. Numbered(r, d)
  BY <1>1, <1>3 DEF Numbered
<1> HIDE DEF l
<1> QED BY <1>1, <1>2, <1>3, <1>4, <1>5, <1>6 DEF Served, r

\* A client that is gone gets at most what is queued for it.
LEMMA ServedGone ==
    ASSUME NEW q \in Seq(ToClient), NEW d \in Nat, NEW s \in Nat,
           NEW c, NEW told, NEW gone, NEW reg, NEW numbers,
           Served(c, q, d, told, gone, reg, numbers, s),
           NEW r \in {q, <<>>}, NEW gone2, c \in gone2, NEW reg2, c \notin reg2, NEW numbers2
    PROVE  Served(c, r, d, told, gone2, reg2, numbers2, s)
<1>1. CASE r = q
  BY <1>1 DEF Served
<1>2. CASE r = <<>>
  <2>1. 1..Len(<<>>) = {}
    OBVIOUS
  <2>2. d <= s
    BY DEF Served
  <2> QED BY <1>2, <2>1, <2>2 DEF Served, Numbered
<1> QED BY <1>1, <1>2

\* The first packet of the queue is written.
LEMMA ServedWrite ==
    ASSUME NEW q \in Seq(ToClient), q # <<>>, NEW d \in Nat, NEW s \in Nat,
           NEW c, NEW told, NEW gone, NEW reg, NEW numbers,
           Served(c, q, d, told, gone, reg, numbers, s),
           NEW d2, d2 = IF Head(q).kind = "data" THEN d + 1 ELSE d,
           NEW told2, c \in told2 <=> c \in told \/ Head(q).kind = "OK"
    PROVE  /\ Served(c, Tail(q), d2, told2, gone, reg, numbers, s)
           /\ Head(q).kind = "data" => Head(q).number = d + 1 /\ d + 1 <= s /\ c \in told
<1> DEFINE r == Tail(q)
           l == Len(q)
<1>1. /\ l \in Nat \ {0} /\ Len(r) = l - 1 /\ Head(q) = q[1] /\ 1 \in 1..l /\ l \in 1..l
      /\ \A i \in 1..(l - 1) : i + 1 \in 1..l /\ r[i] = q[i + 1]
      /\ r \in Seq(ToClient)
  BY TailParts
<1>2. \A i \in 1..l : q[i].kind = "data" =>
        /\ q[i].number = (IF i > 1 /\ q[i - 1].kind = "data" THEN q[i - 1].number ELSE d) + 1
        /\ \A j \in i..l : q[j].kind = "data"
  BY DEF Served, Numbered
<1>3. \A i \in 1..l : q[i].kind = "data" =>
        q[i].number <= s /\ (c \in told \/ \E j \in 1..(i - 1) : q[j].kind = "OK")
  BY DEF Served
<1> HIDE DEF r, l
<1>4. q[1].kind = "data" => q[1].number = d + 1 /\ d + 1 <= s /\ c \in told
  <2>1. ~(1 > 1) /\ 1..(1 - 1) = {}
    OBVIOUS
  <2> QED BY <1>1, <1>2, <1>3, <2>1
<1>5. Numbered(r, d2)
  <2> SUFFICES ASSUME NEW i \in 1..(l - 1), r[i].kind = "data"
               PROVE  /\ r[i].number =
                           (IF i > 1 /\ r[i - 1].kind = "data" THEN r[i - 1].number ELSE d2) + 1
                      /\ \A j \in i..(l - 1) : r[j].kind = "data"
    BY <1>1 DEF Numbered
  <2>1. i + 1 \in 1..l /\ r[i] = q[i + 1] /\ i + 1 > 1 /\ (i + 1) - 1 = i
    BY <1>1
  <2>2. /\ q[i + 1].number = (IF q[i].kind = "data" THEN q[i].number ELSE d) + 1
        /\ \A j \in (i + 1)..l : q[j].kind = "data"
    BY <1>2, <2>1
  <2>3. \A j \in i..(l - 1) : r[j].kind = "data"
    <3> TAKE j \in i..(l - 1)
    <3>1. j \in 1..(l - 1) /\ j + 1 \in (i + 1)..l
      BY <1>1
    <3> QED BY <1>1, <2>2, <3>1
  <2>4. CASE i = 1
    <3>1. q[1].kind = "data" => q[1].number = d2
      BY <1>1, <1>4
    <3>2. q[1].kind # "data" => d = d2
      BY <1>1
    <3> QED BY <2>1, <2>2, <2>3, <2>4, <3>1, <3>2
  <2>5. CASE i # 1
    <3>1. i > 1 /\ i - 1 \in 1..(l - 1) /\ (i - 1) + 1 = i
      BY <1>1, <2>5
    <3>2. r[i - 1] = q[i]
      BY <1>1, <3>1
    <3>3. i \in 1..l
      BY <1>1
    <3>4. q[i].kind = "data" \/ d2 = d
      <4>1. q[1].kind = "data" => q[i].kind = "data"
        <5>1. i \in 1..l /\ 1 \in 1..l
          BY <1>1
        <5>2. q[1].kind = "data" => \A j \in 1..l : q[j].kind = "data"
          BY <1>2, <5>1
        <5> QED BY <5>1, <5>2
      <4> QED BY <1>1, <4>1
    <3> QED BY <2>1, <2>2, <2>3, <3>1, <3>2, <3>4
  <2> QED BY <2>4, <2>5
<1>6. Reached(r, d2) = Reached(q, d)
  <2>1. CASE l = 1
    <3>1. r = <<>>
      BY <1>1, <2>1, EmptySeq
    <3>2. q[1].kind = "data" => q[1].number = d + 1
      BY <1>4
    <3> QED BY <1>1, <2>1, <3>1, <3>2 DEF Reached, l
  <2>2. CASE l # 1
    <3>1. l - 1 \in 1..(l - 1) /\ (l - 1) + 1 = l
      BY <1>1, <2>2
    <3>2. r # <<>> /\ Len(r) = l - 1 /\ r[l - 1] = q[l]
      BY <1>1, <3>1, EmptySeq
    <3>3. q[l].kind = "data" \/ d2 = d
      BY <1>1, <1>2
    <3> QED BY <3>2, <3>3 DEF Reached, l
  <2> QED BY <2>1, <2>2
<1>7. ASSUME NEW i \in 1..(l - 1), r[i].kind = "data"
      PROVE  r[i].number <= s /\ (c \in told2 \/ \E j \in 1..(i - 1) : r[j].kind = "OK")
  <2>1. i + 1 \in 1..l /\ r[i] = q[i + 1] /\ (i + 1) - 1 = i
    BY <1>1
  <2>2. q[i + 1].number <= s /\ (c \in told \/ \E j \in 1..i : q[j].kind = "OK")
    BY <1>3, <1>7, <2>1
  <2>3. ASSUME NEW j \in 1..i, q[j].kind = "OK"
        PROVE  c \in told2 \/ \E k \in 1..(i - 1) : r[k].kind = "OK"
    <3>1. CASE j = 1
      BY <1>1, <2>3, <3>1
    <3>2. CASE j # 1
      <4>1. j - 1 \in 1..(i - 1) /\ j - 1 \in 1..(l - 1) /\ (j - 1) + 1 = j
        BY <1>1, <3>2
      <4> QED BY <1>1, <2>3, <4>1
    <3> QED BY <3>1, <3>2
  <2> QED BY <2>1, <2>2, <2>3
<1>8. ASSUME c \in reg PROVE c \in told2 \/ \E i \in 1..(l - 1) : r[i].kind = "OK"
  <2>1. c \in told \/ \E i \in 1..l : q[i].kind = "OK"
    BY <1>8 DEF Served, l
  <2>2. ASSUME NEW j \in 1..l, q[j].kind = "OK"
        PROVE  c \in told2 \/ \E k \in 1..(l - 1) : r[k].kind = "OK"
    <3>1. CASE j = 1
      BY <1>1, <2>2, <3>1
    <3>2. CASE j # 1
      <4>1. j - 1 \in 1..(l - 1) /\ (j - 1) + 1 = j
        BY <1>1, <3>2
      <4> QED BY <1>1, <2>2, <4>1
    <3> QED BY <3>1, <3>2
  <2> QED BY <2>1, <2>2
<1>9. ASSUME c \notin gone \cup reg
      PROVE  d2 = 0 /\ \A i \in 1..(l - 1) : r[i].kind # "data"
  <2>1. d = 0 /\ \A i \in 1..l : q[i].kind # "data"
    BY <1>9 DEF Served, l
  <2> QED BY <1>1, <2>1
<1>10. d2 <= s
  <2>1. d <= s
    BY DEF Served
  <2> QED BY <1>1, <1>4, <2>1
<1>11. c \notin gone => numbers = (Reached(q, d) + 1)..s
  BY DEF Served
<1>12. Served(c, r, d2, told2, gone, reg, numbers, s)
  BY <1>1, <1>5, <1>6, <1>7, <1>8, <1>9, <1>10, <1>11 DEF Served
<1> QED BY <1>1, <1>4, <1>12 DEF r

\* One message more is sent.
LEMMA ServedSend ==
    ASSUME NEW q \in Seq(ToClient), NEW d \in Nat, NEW s \in Nat,
           NEW c, NEW told, NEW gone, NEW reg, NEW numbers,
           Served(c, q, d, told, gone, reg, numbers, s)
    PROVE  Served(c, q, d, told, gone, reg, numbers \cup {s + 1}, s + 1)
<1> DEFINE a == Reached(q, d)
<1>1. Len(q) \in Nat /\ \A i \in 1..Len(q) : q[i].number \in Nat
  BY QueuedNumbers, LenProperties
<1>2. a \in Nat /\ a <= s
  <2>1. d <= s /\ \A i \in 1..Len(q) : q[i].kind = "data" => q[i].number <= s
    BY DEF Served
  <2>2. q # <<>> => Len(q) \in 1..Len(q)
    BY <1>1, EmptySeq
  <2> QED BY <1>1, <2>1, <2>2 DEF Reached
<1>3. c \notin gone => numbers = (a + 1)..s
  BY DEF Served
<1> HIDE DEF a
<1>4. ((a + 1)..s) \cup {s + 1} = (a + 1)..(s + 1)
  BY <1>2
<1>5. d <= s + 1 /\ \A i \in 1..Len(q) : q[i].kind = "data" => q[i].number <= s + 1
  BY <1>1 DEF Served
<1> QED BY <1>3, <1>4, <1>5 DEF Served, a


-----------------------------------------------------------------------------
(* What is on the line.                                                    *)

\* A client the emulator has, and that is not gone, is on its channel.
LEMMA EmulatorsClient ==
    ASSUME NEW own, NEW ch, NEW reg, NEW T, NEW F, NEW em, NEW ex, NEW last, NEW gone, NEW sent,
           Link(own, ch, reg, T, F, em, ex, last),
           Flow(gone, ch, reg, T, F, em, ex, sent),
           NEW k \in 0..Channels, em[k] # NoClient, em[k] \notin gone
    PROVE  ch[em[k]] = k
<1>1. ch[em[k]] = k \/ Says(T, "disconnect", k)
  BY DEF Link, EmulatorKnows, Flow
<1>2. ASSUME NEW m \in T, m.kind = "disconnect", m.channel = k PROVE FALSE
  <2>1. m.client = em[k]
    BY <1>2 DEF Link, Owned
  <2> QED BY <1>2, <2>1 DEF Flow
<1> QED BY <1>1, <1>2 DEF Says

\* No answer is on the way to a registered client, so none is given to a request of one.
LEMMA RequestNotRegistered ==
    ASSUME NEW own, NEW ch, NEW reg, NEW T, NEW F, NEW em, NEW ex, NEW last,
           Link(own, ch, reg, T, F, em, ex, last),
           NEW m \in T, m.kind = "connect", NEW c \in reg
    PROVE  ch[c] # m.channel
<1> SUFFICES ASSUME ch[c] = m.channel PROVE FALSE
  OBVIOUS
<1>1. c \in Clients /\ ch[c] # NoChannel
  BY DEF Link, ClientsKnown
<1>2. em[ch[c]] = c \/ Says(F, "disconnect", ch[c])
  BY <1>1 DEF Link, ClientsKnown
<1>3. em[m.channel] = NoClient /\ \A n \in F : n.channel # m.channel
  BY DEF Link, RequestsNew
<1> QED BY <1>1, <1>2, <1>3, QemudAssumption DEF Says

\* A client opens a channel, and the request goes on the line.
LEMMA FlowOpen ==
    ASSUME NEW own, NEW ch, NEW reg, NEW T, NEW F, NEW em, NEW ex, NEW last, NEW gone, NEW sent,
           Link(own, ch, reg, T, F, em, ex, last),
           Flow(gone, ch, reg, T, F, em, ex, sent),
           NEW c \in Clients, ch[c] = NoChannel, c \notin reg, NEW n,
           NEW e, e.kind = "connect"
    PROVE  Flow(gone, [ch EXCEPT ![c] = n], reg, T \cup {e}, F, em, ex, sent)
<1> DEFINE h == [ch EXCEPT ![c] = n]
<1>1. \A d \in Clients : d # c => h[d] = ch[d]
  BY DEF Link
<1> HIDE DEF h
<1>2. \A m \in F : m.client \in Clients /\ m.channel # NoChannel
  BY QemudAssumption DEF Link, Owned, NoChannel
<1>3. reg \subseteq Clients
  BY DEF Link
<1>4. \A m \in F : m.kind = "data" /\ m.client \notin gone =>
        m.channel = h[m.client] /\ (m.client \in reg \/ Says(F, "OK", m.channel))
  BY <1>1, <1>2 DEF Flow
<1>5. \A d \in reg : \A m \in F : m.channel = h[d] => m.kind \notin {"OK", "KO"}
  BY <1>1, <1>3 DEF Flow
<1> QED BY <1>4, <1>5 DEF Flow, h

\* A client is gone, by itself or thrown out, and the emulator may be told.
LEMMA FlowLeave ==
    ASSUME NEW own, NEW ch, NEW reg, NEW T, NEW F, NEW em, NEW ex, NEW last, NEW gone, NEW sent,
           Link(own, ch, reg, T, F, em, ex, last),
           Flow(gone, ch, reg, T, F, em, ex, sent),
           NEW c \in Clients, NEW n, NEW ex2, ex2 \subseteq ex \cup {c},
           NEW T2, \A m \in T2 : m.kind = "disconnect" => m \in T \/ m.client = c
    PROVE  Flow(gone \cup {c}, [ch EXCEPT ![c] = n], reg \ {c}, T2, F, em, ex2, sent)
<1> DEFINE h == [ch EXCEPT ![c] = n]
<1>1. \A d \in Clients : d # c => h[d] = ch[d]
  BY DEF Link
<1> HIDE DEF h
<1>2. (\A m \in F : m.client \in Clients) /\ reg \subseteq Clients
  BY DEF Link, Owned
<1>3. \A m \in F : m.kind = "data" /\ m.client \notin gone \cup {c} =>
        m.channel = h[m.client] /\ (m.client \in reg \ {c} \/ Says(F, "OK", m.channel))
  BY <1>1, <1>2 DEF Flow
<1>4. \A d \in reg \ {c} : \A m \in F : m.channel = h[d] => m.kind \notin {"OK", "KO"}
  BY <1>1, <1>2 DEF Flow
<1>5. \A k \in 0..Channels : em[k] # NoClient /\ em[k] \notin gone \cup {c} =>
        em[k] \in reg \ {c} \/ Says(F, "OK", k)
  BY DEF Flow
<1>6. (\A m \in T2 : m.kind = "disconnect" => m.client \in gone \cup {c}) /\ ex2 \subseteq gone \cup {c}
  BY DEF Flow
<1>7. \A m \in F : m.kind = "data" => m.number \in 1..sent[m.client]
  BY DEF Flow
<1> QED BY <1>3, <1>4, <1>5, <1>6, <1>7 DEF Flow, h

\* The daemon takes a message that is no grant.
LEMMA FlowTake ==
    ASSUME NEW ch, NEW reg, NEW T, NEW F, NEW em, NEW ex, NEW gone, NEW sent,
           Flow(gone, ch, reg, T, F, em, ex, sent),
           NEW m, m.kind # "OK", NEW F2, F = {m} \cup F2
    PROVE  Flow(gone, ch, reg, T, F2, em, ex, sent)
<1>1. \A k : Says(F, "OK", k) => Says(F2, "OK", k)
  BY DEF Says
<1> QED BY <1>1 DEF Flow

\* It takes a grant, for a client that it registers or for none.
LEMMA FlowGranted ==
    ASSUME NEW own, NEW ch, NEW reg, NEW T, NEW F, NEW em, NEW ex, NEW last, NEW gone, NEW sent,
           Link(own, ch, reg, T, F, em, ex, last),
           Flow(gone, ch, reg, T, F, em, ex, sent),
           NEW m, m.kind = "OK", NEW F2, F = {m} \cup F2,
           \A n \in F2 : n.channel = m.channel => n.kind \notin {"OK", "KO"},
           NEW new \in SUBSET Clients,
           \A c \in Clients : ch[c] = m.channel => c \in new,
           \A c \in new : ch[c] = m.channel
    PROVE  Flow(gone, ch, reg \cup new, T, F2, em, ex, sent)
<1>1. \A k : k # m.channel /\ Says(F, "OK", k) => Says(F2, "OK", k)
  BY DEF Says
<1>2. \A n \in F2 : n.client \in Clients
  BY DEF Link, Owned
<1>3. \A n \in F2 : n.kind = "data" /\ n.client \notin gone =>
        n.channel = ch[n.client] /\ (n.client \in reg \cup new \/ Says(F2, "OK", n.channel))
  BY <1>1, <1>2 DEF Flow
<1>4. ASSUME NEW k \in 0..Channels, em[k] # NoClient, em[k] \notin gone
      PROVE  em[k] \in reg \cup new \/ Says(F2, "OK", k)
  <2>1. em[k] \in Clients
    BY <1>4 DEF Link
  <2>2. ch[em[k]] = k
    BY <1>4, EmulatorsClient
  <2> QED BY <1>1, <1>4, <2>1, <2>2 DEF Flow
<1>5. \A c \in reg \cup new : \A n \in F2 : n.channel = ch[c] => n.kind \notin {"OK", "KO"}
  BY DEF Flow
<1> QED BY <1>3, <1>4, <1>5 DEF Flow

\* It takes a refusal, and the client it is for has its channel no more.
LEMMA FlowRefused ==
    ASSUME NEW own, NEW ch, NEW reg, NEW T, NEW F, NEW em, NEW ex, NEW last, NEW gone, NEW sent,
           Link(own, ch, reg, T, F, em, ex, last),
           Flow(gone, ch, reg, T, F, em, ex, sent),
           NEW m, m.kind = "KO", NEW F2, F = {m} \cup F2,
           \A n \in F2 : n.channel = m.channel => n.kind \notin {"OK", "KO"},
           NEW c \in Clients, ch[c] = m.channel
    PROVE  /\ c \notin reg
           /\ Flow(gone, [ch EXCEPT ![c] = NoChannel], reg, T, F2, em, ex, sent)
<1> DEFINE h == [ch EXCEPT ![c] = NoChannel]
<1>1. \A d \in Clients : d # c => h[d] = ch[d]
  BY DEF Link
<1> HIDE DEF h
<1>2. c \notin reg
  BY DEF Flow
<1>3. \A k : Says(F, "OK", k) <=> Says(F2, "OK", k)
  BY DEF Says
<1>4. ~Says(F2, "OK", m.channel)
  BY DEF Says
<1>5. (\A n \in F2 : n.client \in Clients) /\ reg \subseteq Clients
  BY DEF Link, Owned
<1>6. \A n \in F2 : n.kind = "data" /\ n.client \notin gone =>
        n.channel = h[n.client] /\ (n.client \in reg \/ Says(F2, "OK", n.channel))
  BY <1>1, <1>2, <1>3, <1>4, <1>5 DEF Flow
<1>7. \A d \in reg : \A n \in F2 : n.channel = h[d] => n.kind \notin {"OK", "KO"}
  BY <1>1, <1>2, <1>5 DEF Flow
<1>8. Flow(gone, h, reg, T, F2, em, ex, sent)
  BY <1>3, <1>6, <1>7 DEF Flow
<1> QED BY <1>2, <1>8 DEF h



\* The emulator reads its line, forgets a client or disconnects it.
LEMMA FlowLess ==
    ASSUME NEW own, NEW ch, NEW reg, NEW T, NEW F, NEW em, NEW ex, NEW last, NEW gone, NEW sent,
           Link(own, ch, reg, T, F, em, ex, last),
           Flow(gone, ch, reg, T, F, em, ex, sent),
           NEW TNow, TNow \subseteq T,
           NEW E, \A e \in E : e.kind = "disconnect",
           NEW x, \A k \in 0..Channels : x[k] \in {em[k], NoClient}
    PROVE  Flow(gone, ch, reg, TNow, F \cup E, x, ex, sent)
<1>1. \A k : Says(F \cup E, "OK", k) <=> Says(F, "OK", k)
  BY DEF Says
<1>2. \A k \in 0..Channels : x[k] # NoClient /\ x[k] \notin gone => x[k] \in reg \/ Says(F, "OK", k)
  BY DEF Flow
<1>3. \A m \in F \cup E : m.kind = "data" => m \in F
  OBVIOUS
<1>4. \A c \in reg : \A m \in F \cup E : m.channel = ch[c] => m.kind \notin {"OK", "KO"}
  BY DEF Flow
<1> QED BY <1>1, <1>2, <1>3, <1>4 DEF Flow

\* It answers a request.
LEMMA FlowAnswer ==
    ASSUME NEW own, NEW ch, NEW reg, NEW T, NEW F, NEW em, NEW ex, NEW last, NEW gone, NEW sent,
           Link(own, ch, reg, T, F, em, ex, last),
           Flow(gone, ch, reg, T, F, em, ex, sent),
           NEW m \in T, m.kind = "connect", NEW TNow, TNow \subseteq T,
           NEW e, e.kind \in {"OK", "KO"}, e.channel = m.channel,
           NEW x, \A k \in 0..Channels : x[k] = em[k] \/ (k = m.channel /\ e.kind = "OK")
    PROVE  Flow(gone, ch, reg, TNow, F \cup {e}, x, ex, sent)
<1>1. /\ \A k : Says(F, "OK", k) => Says(F \cup {e}, "OK", k)
      /\ e.kind = "OK" => Says(F \cup {e}, "OK", m.channel)
  BY DEF Says
<1>2. \A k \in 0..Channels : x[k] # NoClient /\ x[k] \notin gone =>
        x[k] \in reg \/ Says(F \cup {e}, "OK", k)
  BY <1>1 DEF Flow
<1>3. \A c \in reg : ch[c] # e.channel
  BY RequestNotRegistered
<1>4. \A c \in reg : \A n \in F \cup {e} : n.channel = ch[c] => n.kind \notin {"OK", "KO"}
  BY <1>3 DEF Flow
<1>5. \A n \in F \cup {e} : n.kind = "data" => n \in F
  OBVIOUS
<1> QED BY <1>1, <1>2, <1>4, <1>5 DEF Flow

\* It sends data to a client that it has.
LEMMA FlowSend ==
    ASSUME NEW own, NEW ch, NEW reg, NEW T, NEW F, NEW em, NEW ex, NEW last, NEW gone,
           NEW sent \in [Clients -> Nat],
           Link(own, ch, reg, T, F, em, ex, last),
           Flow(gone, ch, reg, T, F, em, ex, sent),
           NEW k \in 0..Channels, em[k] # NoClient,
           NEW e, e.kind = "data", e.channel = k, e.client = em[k],
           e.number = sent[em[k]] + 1
    PROVE  Flow(gone, ch, reg, T, F \cup {e}, em, ex, [sent EXCEPT ![em[k]] = @ + 1])
<1> DEFINE c == em[k]
           s == [sent EXCEPT ![c] = @ + 1]
<1>1. c \in Clients /\ \A m \in F : m.client \in Clients
  BY DEF Link, Owned
<1>2. c \notin gone => ch[c] = k
  BY EmulatorsClient
<1>3. c \notin gone => c \in reg \/ Says(F, "OK", k)
  BY DEF Flow
<1> HIDE DEF c
<1>4. /\ \A d \in Clients : sent[d] \in Nat /\ s[d] = IF d = c THEN sent[d] + 1 ELSE sent[d]
  BY <1>1
<1> HIDE DEF s
<1>5. \A d \in Clients : 1..sent[d] \subseteq 1..s[d]
  BY <1>4
<1>6. sent[c] + 1 \in 1..s[c]
  BY <1>1, <1>4
<1>7. \A m \in F \cup {e} : m.kind = "data" => m.number \in 1..s[m.client]
  BY <1>1, <1>5, <1>6 DEF Flow, c
<1>8. \A j : Says(F, "OK", j) <=> Says(F \cup {e}, "OK", j)
  BY DEF Says
<1>9. \A m \in F \cup {e} : m.kind = "data" /\ m.client \notin gone =>
        m.channel = ch[m.client] /\ (m.client \in reg \/ Says(F, "OK", m.channel))
  BY <1>2, <1>3 DEF Flow, c
<1>10. \A d \in reg : \A m \in F \cup {e} : m.channel = ch[d] => m.kind \notin {"OK", "KO"}
  BY DEF Flow
<1> QED BY <1>7, <1>8, <1>9, <1>10 DEF Flow, s, c

\* The numbers of the data for a client, with a message more on the line.
LEMMA NumbersMore ==
    ASSUME NEW F, NEW m, NEW c
    PROVE  /\ m.kind = "data" /\ m.client = c =>
                Numbers(F \cup {m}, c) = Numbers(F, c) \cup {m.number}
           /\ ~(m.kind = "data" /\ m.client = c) => Numbers(F \cup {m}, c) = Numbers(F, c)
<1>1. CASE m.kind = "data" /\ m.client = c
  <2>1. DataFor(F \cup {m}, c) = DataFor(F, c) \cup {m}
    BY <1>1 DEF DataFor
  <2> QED BY <1>1, <2>1 DEF Numbers
<1>2. CASE ~(m.kind = "data" /\ m.client = c)
  <2>1. DataFor(F \cup {m}, c) = DataFor(F, c)
    BY <1>2 DEF DataFor
  <2> QED BY <1>2, <2>1 DEF Numbers
<1> QED BY <1>1, <1>2

-----------------------------------------------------------------------------
(* The order of the messages on the line.                                  *)

\* A message is the last for its client and its channel.
LEMMA OrderAppend ==
    ASSUME NEW S, NEW s \in Seq(S), NEW e \in S, DataInOrder(s), AnswersFirst(s),
           e.kind = "data" => \A m \in DataFor(Range(s), e.client) : m.number < e.number,
           e.kind \in {"OK", "KO"} => \A m \in Range(s) : m.channel # e.channel
    PROVE  DataInOrder(Append(s, e)) /\ AnswersFirst(Append(s, e))
<1> DEFINE t == Append(s, e)
<1>1. /\ Len(t) = Len(s) + 1 /\ Len(s) \in Nat /\ t[Len(s) + 1] = e
      /\ \A i \in 1..Len(s) : t[i] = s[i]
  BY AppendParts
<1>2. \A i \in 1..Len(s) : s[i] \in Range(s)
  BY InRange
<1> HIDE DEF t
<1> SUFFICES ASSUME NEW i \in 1..Len(t), NEW j \in 1..Len(t), i < j
             PROVE  /\ t[i].kind = "data" /\ t[j].kind = "data" /\ t[i].client = t[j].client =>
                         t[i].number < t[j].number
                    /\ t[i].channel = t[j].channel => t[j].kind \notin {"OK", "KO"}
  BY DEF DataInOrder, AnswersFirst, t
<1>3. i \in 1..Len(s)
  BY <1>1
<1>4. CASE j \in 1..Len(s)
  BY <1>1, <1>3, <1>4 DEF DataInOrder, AnswersFirst
<1>5. CASE j = Len(s) + 1
  <2>1. t[i] \in Range(s) /\ t[j] = e
    BY <1>1, <1>2, <1>3, <1>5
  <2> QED BY <2>1 DEF DataFor
<1> QED BY <1>1, <1>4, <1>5

\* Once the first message is taken no answer is on its channel, and data for its client comes
\* after it.
LEMMA OrderTail ==
    ASSUME NEW S, NEW s \in Seq(S), s # <<>>, DataInOrder(s), AnswersFirst(s)
    PROVE  /\ DataInOrder(Tail(s)) /\ AnswersFirst(Tail(s))
           /\ \A m \in Range(Tail(s)) : m.channel = Head(s).channel => m.kind \notin {"OK", "KO"}
           /\ Head(s).kind = "data" =>
                \A m \in DataFor(Range(Tail(s)), Head(s).client) : Head(s).number < m.number
<1> DEFINE t == Tail(s)
<1>1. /\ t \in Seq(S) /\ Len(s) \in Nat \ {0} /\ Len(t) = Len(s) - 1 /\ Head(s) = s[1]
      /\ \A i \in 1..Len(t) : i + 1 \in 1..Len(s) /\ t[i] = s[i + 1]
  BY TailParts
<1> HIDE DEF t
<1>2. \A i \in 1..Len(t) : 1 \in 1..Len(s) /\ 1 < i + 1
  BY <1>1
<1>3. DataInOrder(t) /\ AnswersFirst(t)
  <2>1. ASSUME NEW i \in 1..Len(t), NEW j \in 1..Len(t), i < j
        PROVE  /\ t[i].kind = "data" /\ t[j].kind = "data" /\ t[i].client = t[j].client =>
                    t[i].number < t[j].number
               /\ t[i].channel = t[j].channel => t[j].kind \notin {"OK", "KO"}
    <3>1. i + 1 < j + 1
      BY <1>1, <2>1
    <3> QED BY <1>1, <3>1 DEF DataInOrder, AnswersFirst
  <2> QED BY <2>1 DEF DataInOrder, AnswersFirst
<1>4. ASSUME NEW m \in Range(t)
      PROVE  /\ m.channel = Head(s).channel => m.kind \notin {"OK", "KO"}
             /\ Head(s).kind = "data" /\ m.kind = "data" /\ m.client = Head(s).client =>
                  Head(s).number < m.number
  <2>1. PICK i \in 1..Len(t) : t[i] = m
    BY <1>1, InRange
  <2> QED BY <1>1, <1>2, <2>1 DEF DataInOrder, AnswersFirst
<1> QED BY <1>3, <1>4 DEF t, DataFor


-----------------------------------------------------------------------------
(* What each step makes of it.                                             *)

\* Whether connection c has lost its client, when it becomes r.
GoneAfter(c, r) == IF r.state \in {"closing", "freed"} THEN GoneClients \cup {c}
                                                       ELSE GoneClients \ {c}

LEMMA GoneUpdate ==
    ASSUME TypeOK, NEW c \in Clients, NEW r, conn' = [conn EXCEPT ![c] = r]
    PROVE  /\ GoneClients' = GoneAfter(c, r)
           /\ c \in GoneClients <=> conn[c].state \in {"closing", "freed"}
<1>1. \A x \in Clients : conn'[x] = IF x = c THEN r ELSE conn[x]
  BY DEF TypeOK
<1> QED BY <1>1 DEF GoneClients, GoneAfter

\* What Served looks at of a client.
LEMMA ServedSame ==
    ASSUME NEW q, NEW d, NEW s, NEW c, NEW told, NEW gone, NEW reg, NEW numbers,
           Served(c, q, d, told, gone, reg, numbers, s),
           NEW told2, c \in told2 <=> c \in told, NEW gone2, c \in gone2 <=> c \in gone,
           NEW reg2, c \in reg2 <=> c \in reg,
           NEW numbers2, numbers2 = numbers \/ c \in gone
    PROVE  Served(c, q, d, told2, gone2, reg2, numbers2, s)
BY DEF Served

\* One connection has changed.
LEMMA ServedUpdate ==
    ASSUME TypeOK, ServedNow, NEW c \in Clients, NEW r, conn' = [conn EXCEPT ![c] = r],
           NEW told, told = Told', NEW gone, gone = GoneClients', NEW reg, reg = Registered',
           NEW F, F = Range(fromEmulator)', emulatorSent' = emulatorSent,
           \A x \in Clients : x # c =>
             /\ received'[x] = received[x]
             /\ x \in told <=> x \in Told
             /\ Numbers(F, x) = Numbers(Range(fromEmulator), x),
           Served(c, r.out, Len(received'[c]), told, gone, reg, Numbers(F, c), emulatorSent[c])
    PROVE  ServedNow'
<1>1. \A x \in Clients : conn'[x] = IF x = c THEN r ELSE conn[x]
  BY DEF TypeOK
<1>2. ASSUME NEW x \in Clients
      PROVE  Served(x, conn'[x].out, Len(received'[x]), told, gone, reg, Numbers(F, x),
                    emulatorSent[x])
  <2>1. CASE x = c
    BY <1>1, <2>1
  <2>2. CASE x # c
    <3>1. x \in gone <=> x \in GoneClients
      BY <1>1, <2>2 DEF GoneClients
    <3>2. x \in reg <=> x \in Registered
      BY <1>1, <2>2 DEF Registered
    <3>3. Served(x, conn[x].out, Len(received[x]), Told, GoneClients, Registered,
                 Numbers(Range(fromEmulator), x), emulatorSent[x])
      BY DEF ServedNow
    <3> QED BY <1>1, <2>2, <3>1, <3>2, <3>3, ServedSame
  <2> QED BY <2>1, <2>2
<1> QED BY <1>2 DEF ServedNow

LEMMA OrderFrame ==
    /\ OrderInv
    /\ UNCHANGED <<conn, toEmulator, fromEmulator, emulator, expelled, last_channel, answers,
                   received, emulatorSent>>
    => OrderInv'
BY DEF OrderInv, FlowNow, ServedNow, ChannelOf, Registered, GoneClients, Told, Granted,
       DataInOrder, AnswersFirst

\* What is written to a client.
LEMMA GetsTold ==
    ASSUME TypeOK, NEW c \in Clients, NEW p, Gets(c, p)
    PROVE  /\ p.kind # "data" => p \in Answer /\ received' = received
           /\ p.kind = "data" => /\ p \in Data /\ answers' = answers
                                 /\ received' = [received EXCEPT ![c] = Append(@, p)]
           /\ Told' = IF p.kind = "OK" THEN Told \cup {c} ELSE Told
           /\ \A x \in Clients : x # c => received'[x] = received[x]
           /\ Len(received'[c]) = IF p.kind = "data" THEN Len(received[c]) + 1
                                                     ELSE Len(received[c])
<1>0. answers \in [Clients -> Seq(Answer)] /\ received \in [Clients -> Seq(Data)]
  BY DEF TypeOK
<1>1. (p \in Answer => p.kind \in {"OK", "KO"}) /\ (p \in Data => p.kind = "data")
  BY DEF Answer, Data, MessagesOf
<1>2. CASE p \in Answer /\ answers' = [answers EXCEPT ![c] = Append(@, p)] /\ received' = received
  <2> DEFINE s == Append(answers[c], p)
  <2>1. /\ Len(answers[c]) \in Nat /\ Len(s) = Len(answers[c]) + 1
        /\ s[Len(answers[c]) + 1] = p
        /\ \A i \in 1..Len(answers[c]) : s[i] = answers[c][i]
    BY <1>0, <1>2, AppendParts
  <2>2. answers' = [answers EXCEPT ![c] = s]
    BY <1>2
  <2> HIDE DEF s
  <2>3. \A x \in Clients : answers'[x] = IF x = c THEN s ELSE answers[x]
    BY <1>0, <2>2
  <2>4. (\E i \in 1..Len(s) : s[i].kind = "OK") <=>
          p.kind = "OK" \/ \E i \in 1..Len(answers[c]) : answers[c][i].kind = "OK"
    <3>1. /\ \A i \in 1..Len(answers[c]) : i \in 1..Len(s)
          /\ Len(answers[c]) + 1 \in 1..Len(s)
          /\ \A i \in 1..Len(s) : i \in 1..Len(answers[c]) \/ i = Len(answers[c]) + 1
      BY <2>1
    <3> QED BY <2>1, <3>1
  <2>5. \A x \in Clients : Granted(x)' <=> Granted(x) \/ (x = c /\ p.kind = "OK")
    BY <2>3, <2>4 DEF Granted
  <2>6. Told' = IF p.kind = "OK" THEN Told \cup {c} ELSE Told
    BY <2>5 DEF Told
  <2> QED BY <1>1, <1>2, <2>6
<1>3. CASE p \in Data /\ received' = [received EXCEPT ![c] = Append(@, p)] /\ answers' = answers
  <2> DEFINE s == Append(received[c], p)
  <2>1. Len(s) = Len(received[c]) + 1
    BY <1>0, <1>3, AppendParts
  <2>2. received' = [received EXCEPT ![c] = s]
    BY <1>3
  <2> HIDE DEF s
  <2>3. \A x \in Clients : received'[x] = IF x = c THEN s ELSE received[x]
    BY <1>0, <2>2
  <2>4. Told' = Told
    BY <1>3 DEF Told, Granted
  <2> QED BY <1>1, <1>3, <2>1, <2>3, <2>4
<1> QED BY <1>2, <1>3 DEF Gets


LEMMA FlowRelay ==
    ASSUME NEW ch, NEW reg, NEW T, NEW F, NEW em, NEW ex, NEW gone, NEW sent,
           Flow(gone, ch, reg, T, F, em, ex, sent), NEW e, e.kind = "data"
    PROVE  Flow(gone, ch, reg, T \cup {e}, F, em, ex, sent)
BY DEF Flow

\* What the read of a client's callback makes of the connection and of the line keeps the
\* order, before anything is written or closed.
LEMMA OrderRead ==
    ASSUME TypeInv, ConnsInv, LinkInv, OrderInv, HookDue, ~UsesFreed(Due), Read(Due),
           last_channel' < Channels
    PROVE  LET c    == Due
               a    == AfterRead(Due)
               gone == GoneAfter(c, a.r)
               reg  == IF a.r.registered = 1 THEN Registered \cup {c} ELSE Registered \ {c}
           IN  /\ Flow(gone, [ChannelOf EXCEPT ![c] = a.r.channel], reg,
                       Range(toEmulator \o a.send), Range(fromEmulator), emulator, expelled',
                       emulatorSent)
               /\ Served(c, a.r.out, Len(received[c]), Told, gone, reg,
                         Numbers(Range(fromEmulator), c), emulatorSent[c])
<1> DEFINE c == Due
           a == AfterRead(Due)
           T == Range(toEmulator)
           F == Range(fromEmulator)
           line == toEmulator \o a.send
           h == [ChannelOf EXCEPT ![c] = a.r.channel]
           g == IF a.r.registered = 1 THEN Registered \cup {c} ELSE Registered \ {c}
           l == GoneAfter(c, a.r)
           M == Numbers(F, c)
           s == emulatorSent[c]
           n == Len(received[c])
           Goal == /\ Flow(l, h, g, Range(line), F, emulator, expelled', emulatorSent)
                   /\ Served(c, a.r.out, n, Told, l, g, M, s)
<1>0. TypeOK
  BY DEF TypeInv
<1>1. /\ c \in Clients /\ conn[c] \in Conns /\ a.r \in Conns
      /\ toEmulator \in Seq(ToEmulator) /\ Channels \in Nat /\ last_channel \in Nat
      /\ s \in Nat /\ n \in Nat /\ conn[c].out \in Seq(ToClient)
  <2>1. c \in Clients /\ a.r \in Conns
    BY <1>0, DueType, AfterReadType
  <2>2. received[c] \in Seq(Data)
    BY <1>0, <2>1 DEF TypeOK
  <2>3. n \in Nat
    BY <2>2, LenProperties
  <2> HIDE DEF n, c, a
  <2> QED BY <1>0, <2>1, <2>3, QemudAssumption DEF TypeOK, Conns, s
<1>2. ReadKeeps(c) \/ ReadRelays(c) \/ ReadExpels(c) \/ ReadOpens(c)
  BY ReadCases
<1>3. last_channel < Channels
  BY ReadAdvances
<1>4. PICK own : Link(own, ChannelOf, Registered, T, F, emulator, expelled, last_channel)
  BY <1>3 DEF LinkInv, LinkNow
<1>5. /\ Flow(GoneClients, ChannelOf, Registered, T, F, emulator, expelled, emulatorSent)
      /\ Served(c, conn[c].out, n, Told, GoneClients, Registered, M, s)
  BY <1>1, <1>3 DEF OrderInv, FlowNow, ServedNow
<1>6. /\ ChannelOf \in [Clients -> 0..Channels] /\ ChannelOf[c] = conn[c].channel
      /\ c \in Registered <=> conn[c].registered = 1
  BY <1>0, <1>1 DEF ChannelOf, Registered, TypeOK, Conns
<1>7. c \in GoneClients <=> conn[c].state \in {"closing", "freed"}
  BY <1>1 DEF GoneClients
<1>8. /\ toEmulator \o <<>> = toEmulator
      /\ \A e \in ToEmulator : Range(toEmulator \o <<e>>) = T \cup {e}
  BY <1>1, LineExtends
<1> HIDE DEF T, F, M, s, n
<1>9. a.r = conn[c] => h = ChannelOf /\ g = Registered /\ l = GoneClients
  <2> HIDE DEF a, c
  <2>1. ASSUME a.r = conn[c] PROVE h = ChannelOf
    BY <1>6, <2>1
  <2>2. ASSUME a.r = conn[c] PROVE g = Registered
    BY <1>6, <2>2
  <2>3. ASSUME a.r = conn[c] PROVE l = GoneClients
    BY <1>7, <2>3 DEF GoneAfter
  <2> QED BY <2>1, <2>2, <2>3
<1>10. ASSUME ReadKeeps(c) PROVE Goal
  <2>1. a.r = conn[c] /\ line = toEmulator /\ expelled' = expelled
    BY <1>8, <1>10 DEF ReadKeeps
  <2> HIDE DEF line, h, g, l, a, c
  <2> QED BY <1>5, <1>9, <2>1 DEF T
<1>11. ASSUME ReadRelays(c) PROVE Goal
  <2>1. PICK e \in ToEmulator : e.kind = "data" /\ a.send = <<e>>
    BY <1>11 DEF ReadRelays
  <2>2. a.r = conn[c] /\ expelled' = expelled
    BY <1>11 DEF ReadRelays
  <2>3. Range(line) = T \cup {e}
    BY <1>8, <2>1
  <2> HIDE DEF line, h, g, l, a, c
  <2>4. Flow(GoneClients, ChannelOf, Registered, T \cup {e}, F, emulator, expelled, emulatorSent)
    BY <1>5, <2>1, FlowRelay
  <2> QED BY <1>5, <1>9, <2>2, <2>3, <2>4
<1>12. ASSUME ReadExpels(c) PROVE Goal
  <2>1. /\ a.r = ClientFree(conn[c]) /\ line = toEmulator
        /\ expelled' = expelled \cup {c}
    BY <1>8, <1>12 DEF ReadExpels
  <2> HIDE DEF line, a, c
  <2>2. /\ a.r.channel = NoChannel /\ a.r.registered = 0 /\ a.r.out \in {conn[c].out, <<>>}
        /\ a.r.state \in {"closing", "freed"}
    BY <2>1 DEF ClientFree, Closed, Connection
  <2>3. /\ h = [ChannelOf EXCEPT ![c] = NoChannel] /\ g = Registered \ {c}
        /\ l = GoneClients \cup {c}
    BY <2>2 DEF GoneAfter
  <2> HIDE DEF h, g, l
  <2>4. Flow(GoneClients \cup {c}, [ChannelOf EXCEPT ![c] = NoChannel], Registered \ {c}, T, F,
             emulator, expelled \cup {c}, emulatorSent)
    BY <1>1, <1>4, <1>5, FlowLeave
  <2>5. c \in l /\ c \notin g
    BY <2>3
  <2>6. Served(c, a.r.out, n, Told, l, g, M, s)
    BY <1>1, <1>5, <2>2, <2>5, ServedGone
  <2> QED BY <2>1, <2>3, <2>4, <2>6 DEF T
<1>13. ASSUME ReadOpens(c) PROVE Goal
  <2>1. PICK e \in ToEmulator : e.kind = "connect" /\ a.send = <<e>>
    BY <1>13 DEF ReadOpens
  <2>2. /\ conn[c].registered = 0 /\ conn[c].channel \notin 1..(Channels - 1)
        /\ a.r = [conn[c] EXCEPT !.channel = NewChannel] /\ conn[c].state = "live"
        /\ expelled' = expelled
    BY <1>13 DEF ReadOpens
  <2>3. Range(line) = T \cup {e}
    BY <1>8, <2>1
  <2> HIDE DEF line, a, c
  <2>4. /\ a.r.channel = NewChannel /\ a.r.registered = 0 /\ a.r.out = conn[c].out
        /\ a.r.state = "live"
    BY <1>1, <2>2 DEF Conns
  <2>5. h = [ChannelOf EXCEPT ![c] = NewChannel] /\ g = Registered /\ c \notin Registered
        /\ l = GoneClients
    BY <1>6, <1>7, <2>2, <2>4 DEF GoneAfter
  <2> HIDE DEF h, g, l
  <2>6. ChannelOf[c] = NoChannel
    <3>1. ChannelOf[c] # NoChannel => ChannelOf[c] \in 1..last_channel
      BY <1>1, <1>4 DEF Link, Owned
    <3>2. \A k \in 1..last_channel : k \in 1..(Channels - 1)
      BY <1>1, <1>3
    <3> QED BY <1>6, <2>2, <3>1, <3>2
  <2>7. Flow(GoneClients, [ChannelOf EXCEPT ![c] = NewChannel], Registered, T \cup {e}, F,
             emulator, expelled, emulatorSent)
    BY <1>1, <1>4, <1>5, <2>1, <2>5, <2>6, FlowOpen
  <2> QED BY <1>5, <2>2, <2>3, <2>4, <2>5, <2>7
<1> HIDE DEF ReadKeeps, ReadRelays, ReadExpels, ReadOpens
<1>14. Goal
  BY <1>2, <1>10, <1>11, <1>12, <1>13
<1> QED BY <1>14 DEF F, M, s, n

\* The handler is closed.
LEMMA OrderHangUp == TypeInv /\ ConnsInv /\ LinkInv /\ OrderInv /\ CallHangUp => OrderInv'
<1> SUFFICES ASSUME TypeInv, ConnsInv, LinkInv, OrderInv, CallHangUp, last_channel' < Channels
             PROVE  FlowNow' /\ ServedNow' /\ DataInOrder(fromEmulator)'
                    /\ AnswersFirst(fromEmulator)'
  BY DEF OrderInv
<1> DEFINE c == Due
           a == AfterRead(Due)
           T == Range(toEmulator)
           F == Range(fromEmulator)
           q == conn'[c]
           x == expelled'
           TNow == Range(toEmulator)'
<1>0. TypeOK /\ HookDue /\ ~UsesFreed(Due) /\ Read(Due)
  BY DEF TypeInv, CallHangUp
<1>1. /\ c \in Clients /\ a.r \in Conns /\ toEmulator \in Seq(ToEmulator)
      /\ conn[c].out \in Seq(ToClient) /\ received[c] \in Seq(Data) /\ emulatorSent[c] \in Nat
  <2>1. c \in Clients /\ a.r \in Conns
    BY <1>0, DueType, AfterReadType
  <2> HIDE DEF c, a
  <2> QED BY <1>0, <2>1 DEF TypeOK, Conns
<1>2. last_channel < Channels
  BY <1>0, ReadAdvances
<1>3. PICK own : Link(own, ChannelOf, Registered, T, F, emulator, expelled, last_channel)
  BY <1>2 DEF LinkInv, LinkNow
<1>4. /\ FlowNow /\ ServedNow /\ DataInOrder(fromEmulator) /\ AnswersFirst(fromEmulator)
  BY <1>2 DEF OrderInv
<1>5. /\ toEmulator' = toEmulator \o a.send \o CloseNotice(a.r, c)
      /\ UNCHANGED <<fromEmulator, emulator, answers, received, emulatorSent>>
      /\ Update(c, Closed(a.r), Unread(Due))
  BY DEF CallHangUp, emulatorVars
<1>6. conn' = [conn EXCEPT ![c] = q] /\ q.channel = NoChannel /\ q.registered = 0 /\ q.out = <<>>
      /\ q.state = "freed"
  <2>1. /\ Closed(a.r).channel = NoChannel /\ Closed(a.r).registered = 0
        /\ Closed(a.r).out = <<>> /\ Closed(a.r).state = "freed"
    BY DEF Closed, Connection
  <2>2. Closed(a.r) \in Conns
    BY <1>1, ClosedType
  <2> HIDE DEF a, c
  <2> QED BY <1>0, <1>1, <1>5, <2>1, <2>2, UpdateConn
<1>7. /\ \E e \in ToEmulator : e.kind # "disconnect" /\ a.send \in {<<>>, <<e>>}
      /\ x \subseteq expelled \cup {c}
  <2>1. ReadKeeps(c) \/ ReadRelays(c) \/ ReadExpels(c) \/ ReadOpens(c)
    BY <1>0, ReadCases
  <2>2. Message("data", 0, c, 0) \in ToEmulator /\ Message("data", 0, c, 0).kind # "disconnect"
    BY <1>1, QemudAssumption DEF Message, ToEmulator, MessagesOf
  <2>3. \/ a.send = <<>>
        \/ \E e \in ToEmulator : e.kind \in {"data", "connect"} /\ a.send = <<e>>
    BY <2>1 DEF ReadKeeps, ReadRelays, ReadExpels, ReadOpens
  <2>4. x \subseteq expelled \cup {c}
    BY <2>1 DEF ReadKeeps, ReadRelays, ReadExpels, ReadOpens
  <2> HIDE DEF a, c
  <2> QED BY <2>2, <2>3, <2>4
<1>8. /\ a.r.channel \in 0..Channels
      /\ CloseNotice(a.r, c) \in {<<>>, <<Message("disconnect", a.r.channel, c, 0)>>}
  <2> HIDE DEF a, c
  <2> QED BY <1>1 DEF CloseNotice, Conns
<1> HIDE DEF a, q, x
<1>9. \A m \in TNow : m.kind = "disconnect" => m \in T \/ m.client = c
  <2> DEFINE e == Message("disconnect", a.r.channel, c, 0)
             line == toEmulator \o a.send
  <2>1. e \in ToEmulator /\ e.client = c
    <3> HIDE DEF c
    <3> QED BY <1>1, <1>8 DEF Message, ToEmulator, MessagesOf
  <2>2. line \in Seq(ToEmulator) /\ \A m \in Range(line) : m \in T \/ m.kind # "disconnect"
    <3>1. PICK d \in ToEmulator : d.kind # "disconnect" /\ a.send \in {<<>>, <<d>>}
      BY <1>7
    <3>2. CASE a.send = <<>>
      BY <1>1, <3>2, LineExtends
    <3>3. CASE a.send = <<d>>
      <4>1. line \in Seq(ToEmulator) /\ Range(line) = T \cup {d}
        BY <1>1, <3>3, LineExtends
      <4> QED BY <3>1, <4>1
    <3> QED BY <3>1, <3>2, <3>3
  <2> HIDE DEF line, e, c
  <2>3. CASE toEmulator' = line \o <<>>
    <3>1. TNow = Range(line)
      BY <2>2, <2>3, LineExtends
    <3> QED BY <2>2, <3>1
  <2>4. CASE toEmulator' = line \o <<e>>
    <3>1. TNow = Range(line) \cup {e}
      BY <2>1, <2>2, <2>4, LineExtends
    <3> QED BY <2>1, <2>2, <3>1
  <2> QED BY <1>5, <1>8, <2>3, <2>4 DEF line, e
<1>10. /\ ChannelOf' = [ChannelOf EXCEPT ![c] = NoChannel] /\ Registered' = Registered \ {c}
       /\ GoneClients' = GoneClients \cup {c}
  <2> HIDE DEF c
  <2>1. q.channel \in 0..Channels
    BY <1>6, NoChannelType
  <2>2. /\ ChannelOf' = [ChannelOf EXCEPT ![c] = q.channel]
        /\ q.registered = 0 => Registered' = Registered \ {c}
    BY <1>0, <1>1, <1>6, <2>1, ViewsUpdate
  <2>3. GoneClients' = GoneAfter(c, q)
    BY <1>0, <1>1, <1>6, GoneUpdate
  <2> QED BY <1>6, <2>2, <2>3 DEF GoneAfter
<1> HIDE DEF T, TNow
<1>11. Flow(GoneClients \cup {c}, [ChannelOf EXCEPT ![c] = NoChannel], Registered \ {c}, TNow, F,
            emulator, x, emulatorSent)
  <2> HIDE DEF c, F
  <2>1. Flow(GoneClients, ChannelOf, Registered, T, F, emulator, expelled, emulatorSent)
    BY <1>4 DEF FlowNow, T, F
  <2> QED BY <1>1, <1>3, <1>7, <1>9, <2>1, FlowLeave
<1>12. FlowNow'
  BY <1>5, <1>10, <1>11 DEF FlowNow, TNow, F, x
<1>13. ServedNow'
  <2> HIDE DEF c
  <2> DEFINE told == Told'
             gone == GoneClients'
             reg == Registered'
             FNow == Range(fromEmulator)'
  <2>1. told = Told /\ FNow = F /\ received' = received /\ emulatorSent' = emulatorSent
    BY <1>5 DEF Told, Granted, F
  <2>2. c \in gone /\ c \notin reg
    BY <1>10
  <2> HIDE DEF told, gone, reg, FNow
  <2>3. Served(c, conn[c].out, Len(received[c]), Told, GoneClients, Registered,
               Numbers(F, c), emulatorSent[c])
    BY <1>1, <1>4 DEF ServedNow, F
  <2>4. Len(received[c]) \in Nat
    BY <1>1, LenProperties
  <2>5. q.out \in {conn[c].out, <<>>}
    BY <1>6
  <2>6. Served(c, q.out, Len(received[c]), Told, gone, reg, Numbers(F, c), emulatorSent[c])
    BY <1>1, <2>2, <2>3, <2>4, <2>5, ServedGone
  <2> QED BY <1>0, <1>1, <1>4, <1>6, <2>1, <2>6, ServedUpdate DEF told, gone, reg, FNow, F
<1> QED BY <1>4, <1>5, <1>12, <1>13 DEF DataInOrder, AnswersFirst


\* What was read is written on, and the data that is written is the next.
LEMMA OrderReadWrite ==
    ASSUME TypeInv, ConnsInv, LinkInv, OrderInv, CallReadWrite, last_channel' < Channels
    PROVE  /\ OrderInv'
           /\ LET p == Head(AfterRead(Due).r.out)
              IN  Writes(Due) /\ p.kind = "data" =>
                    /\ p.number = Len(received[Due]) + 1 /\ p.number <= emulatorSent[Due]
                    /\ Due \in Told
<1> DEFINE c == Due
           a == AfterRead(Due)
           F == Range(fromEmulator)
           line == toEmulator \o a.send
           h == [ChannelOf EXCEPT ![c] = a.r.channel]
           g == IF a.r.registered = 1 THEN Registered \cup {c} ELSE Registered \ {c}
           l == GoneAfter(c, a.r)
           w == IF Writes(Due) THEN [a.r EXCEPT !.out = Tail(@)] ELSE a.r
           p == Head(a.r.out)
           q == conn'[c]
           x == expelled'
           M == Numbers(F, c)
           s == emulatorSent[c]
           n == Len(received[c])
<1>0. TypeOK /\ HookDue /\ ~UsesFreed(Due) /\ Read(Due)
  BY DEF TypeInv, CallReadWrite
<1>1. /\ c \in Clients /\ a.r \in Conns /\ s \in Nat /\ n \in Nat
  <2>1. c \in Clients /\ a.r \in Conns
    BY <1>0, DueType, AfterReadType
  <2>2. received[c] \in Seq(Data) /\ s \in Nat
    BY <1>0, <2>1 DEF TypeOK
  <2> QED BY <2>1, <2>2, LenProperties
<1>2. /\ Flow(l, h, g, Range(line), F, emulator, x, emulatorSent)
      /\ Served(c, a.r.out, n, Told, l, g, M, s)
  BY <1>0, OrderRead
<1>3. /\ toEmulator' = line /\ UNCHANGED <<fromEmulator, emulator, emulatorSent>>
      /\ IF Writes(Due) THEN Gets(c, p) ELSE UNCHANGED <<asked, answers, received>>
      /\ Update(c, w, Unread(Due))
  BY DEF CallReadWrite, emulatorVars
<1>4. Writes(Due) => a.r.out # <<>>
  BY DEF Writes
<1>5. last_channel < Channels
  BY <1>0, ReadAdvances
<1>6. ServedNow /\ DataInOrder(fromEmulator) /\ AnswersFirst(fromEmulator)
  BY <1>5 DEF OrderInv
<1> HIDE DEF a, c, h, g, l, line, F, x, M, s, n, p
<1>7. a.r.out \in Seq(ToClient)
  BY <1>1 DEF Conns
<1>8. /\ w \in Conns /\ w.channel = a.r.channel /\ w.registered = a.r.registered
      /\ w.state = a.r.state
      /\ w.out = IF Writes(Due) THEN Tail(a.r.out) ELSE a.r.out
  <2>1. CASE Writes(Due)
    <3> DEFINE t == Tail(a.r.out)
    <3>1. t \in Seq(ToClient)
      BY <1>4, <1>7, <2>1, HeadThenTail
    <3>2. w = [a.r EXCEPT !.out = t]
      BY <2>1
    <3> HIDE DEF t, w
    <3>3. /\ w \in Conns /\ w.channel = a.r.channel /\ w.registered = a.r.registered
          /\ w.state = a.r.state /\ w.out = t
      BY <1>1, <3>1, <3>2 DEF Conns
    <3> QED BY <2>1, <3>3 DEF t
  <2>2. CASE ~Writes(Due)
    <3>1. w = a.r
      BY <2>2
    <3> HIDE DEF w
    <3> QED BY <1>1, <2>2, <3>1
  <2> QED BY <2>1, <2>2
<1> HIDE DEF w
<1>9. /\ conn' = [conn EXCEPT ![c] = q] /\ q.channel = a.r.channel /\ q.state = a.r.state
      /\ q.registered = a.r.registered /\ q.out = w.out
  BY <1>0, <1>1, <1>3, <1>8, UpdateConn
<1> HIDE DEF q
<1>10. ChannelOf' = h /\ Registered' = g /\ GoneClients' = l
  <2>1. q.channel \in 0..Channels /\ q.registered \in {0, 1}
    BY <1>1, <1>9 DEF Conns
  <2>2. /\ ChannelOf' = [ChannelOf EXCEPT ![c] = q.channel]
        /\ q.registered = 1 => Registered' = Registered \cup {c}
        /\ q.registered = 0 => Registered' = Registered \ {c}
    BY <1>0, <1>1, <1>9, <2>1, ViewsUpdate
  <2>3. ChannelOf' = h
    BY <1>9, <2>2 DEF h
  <2>4. GoneClients' = l
    <3>1. GoneClients' = GoneAfter(c, q)
      BY <1>0, <1>1, <1>9, GoneUpdate
    <3> QED BY <1>9, <3>1 DEF GoneAfter, l
  <2>5. CASE q.registered = 1
    BY <1>9, <2>2, <2>3, <2>4, <2>5 DEF g
  <2>6. CASE q.registered = 0
    BY <1>9, <2>2, <2>3, <2>4, <2>6 DEF g
  <2> QED BY <2>1, <2>5, <2>6
<1>11. FlowNow'
  BY <1>2, <1>3, <1>10 DEF FlowNow, F, x
<1> DEFINE told == Told'
           num == Len(received'[c])
<1>12. /\ \A y \in Clients : y # c => received'[y] = received[y] /\ (y \in told <=> y \in Told)
       /\ Served(c, w.out, num, told, l, g, M, s)
       /\ Writes(Due) /\ p.kind = "data" => p.number = n + 1 /\ n + 1 <= s /\ c \in Told
  <2>1. CASE Writes(Due)
    <3>1. /\ told = IF p.kind = "OK" THEN Told \cup {c} ELSE Told
          /\ \A y \in Clients : y # c => received'[y] = received[y]
          /\ num = IF p.kind = "data" THEN n + 1 ELSE n
      BY <1>0, <1>1, <1>3, <2>1, GetsTold DEF n
    <3> HIDE DEF told, num
    <3>2. /\ Served(c, Tail(a.r.out), num, told, l, g, M, s)
          /\ p.kind = "data" => p.number = n + 1 /\ n + 1 <= s /\ c \in Told
      <4> DEFINE o == a.r.out
      <4>1. o \in Seq(ToClient) /\ o # <<>> /\ Served(c, o, n, Told, l, g, M, s) /\ p = Head(o)
        BY <1>2, <1>4, <1>7, <2>1 DEF p
      <4> HIDE DEF o
      <4>2. num = IF Head(o).kind = "data" THEN n + 1 ELSE n
        BY <3>1, <4>1
      <4>3. c \in told <=> c \in Told \/ Head(o).kind = "OK"
        BY <3>1, <4>1
      <4>4. /\ Served(c, Tail(o), num, told, l, g, M, s)
            /\ Head(o).kind = "data" => Head(o).number = n + 1 /\ n + 1 <= s /\ c \in Told
        BY <1>1, <4>1, <4>2, <4>3, ServedWrite
      <4> QED BY <4>1, <4>4 DEF o
    <3> QED BY <1>8, <2>1, <3>1, <3>2
  <2>2. CASE ~Writes(Due)
    <3>1. told = Told /\ num = n /\ received' = received
      BY <1>3, <2>2 DEF Told, Granted, n
    <3> HIDE DEF told, num
    <3> QED BY <1>2, <1>8, <2>2, <3>1
  <2> QED BY <2>1, <2>2
<1>13. ServedNow'
  <2> DEFINE FNow == Range(fromEmulator)'
             gone == GoneClients'
             reg == Registered'
  <2>1. FNow = F /\ gone = l /\ reg = g /\ emulatorSent' = emulatorSent
    BY <1>3, <1>10 DEF F
  <2> HIDE DEF told, gone, reg, FNow
  <2>2. Served(c, q.out, Len(received'[c]), told, gone, reg, Numbers(FNow, c), emulatorSent[c])
    BY <1>9, <1>12, <2>1 DEF M, s
  <2> QED BY <1>0, <1>1, <1>6, <1>9, <1>12, <2>1, <2>2, ServedUpdate DEF told, gone, reg, FNow, F
<1>14. OrderInv'
  BY <1>3, <1>6, <1>11, <1>13 DEF OrderInv, DataInOrder, AnswersFirst
<1>15. Writes(Due) /\ p.kind = "data" => p.number = n + 1 /\ p.number <= s /\ c \in Told
  BY <1>12
<1> QED BY <1>14, <1>15 DEF p, n, s, c, a


\* Data for a client that has not left is addressed to it, and it has been registered.
LEMMA DataAddressed ==
    ASSUME NEW own, NEW ch, NEW reg, NEW T, NEW F, NEW em, NEW ex, NEW last, NEW gone, NEW sent,
           Link(own, ch, reg, T, F, em, ex, last),
           Flow(gone, ch, reg, T, F, em, ex, sent),
           NEW m \in F, m.kind = "data", m.client \notin gone,
           NEW FNow, F = {m} \cup FNow,
           \A n \in FNow : n.channel = m.channel => n.kind \notin {"OK", "KO"}
    PROVE  m.client \in reg /\ ch[m.client] = m.channel
<1>1. m.channel = ch[m.client] /\ (m.client \in reg \/ Says(F, "OK", m.channel))
  BY DEF Flow
<1>2. ~Says(F, "OK", m.channel)
  BY DEF Says
<1> QED BY <1>1, <1>2

LEMMA OrderSerial == TypeInv /\ ConnsInv /\ LinkInv /\ OrderInv /\ SerialReceive => OrderInv'
<1> SUFFICES ASSUME TypeInv, ConnsInv, LinkInv, OrderInv, SerialReceive, last_channel < Channels
             PROVE  FlowNow' /\ ServedNow' /\ DataInOrder(fromEmulator)'
                    /\ AnswersFirst(fromEmulator)'
  BY DEF OrderInv, SerialReceive
<1> DEFINE m == Head(fromEmulator)
           T == Range(toEmulator)
           F == Range(fromEmulator)
           FNow == Range(Tail(fromEmulator))
           ch == ChannelOf
           reg == Registered
           gone == GoneClients
<1>0. TypeOK
  BY DEF TypeInv
<1>1. PICK own : Link(own, ch, reg, T, F, emulator, expelled, last_channel)
  BY DEF LinkInv, LinkNow
<1>2. /\ Flow(gone, ch, reg, T, F, emulator, expelled, emulatorSent)
      /\ ServedNow /\ DataInOrder(fromEmulator) /\ AnswersFirst(fromEmulator)
  BY DEF OrderInv, FlowNow
<1>3. fromEmulator \in Seq(FromEmulator) /\ fromEmulator # <<>> /\ m \in FromEmulator
  BY <1>0 DEF TypeInv, TypeOK, SerialReceive
<1>4. F = {m} \cup FNow /\ m \in F
  BY <1>3, HeadTailRange
<1>5. /\ T = Range(toEmulator)' /\ FNow = Range(fromEmulator)'
      /\ fromEmulator' = Tail(fromEmulator)
      /\ UNCHANGED <<emulator, expelled, last_channel, answers, received, emulatorSent>>
  BY DEF SerialReceive, emulatorVars
<1>6. /\ DataInOrder(fromEmulator)' /\ AnswersFirst(fromEmulator)'
      /\ \A x \in FNow : x.channel = m.channel => x.kind \notin {"OK", "KO"}
      /\ m.kind = "data" => \A x \in DataFor(FNow, m.client) : m.number < x.number
  BY <1>2, <1>3, <1>5, OrderTail DEF DataInOrder, AnswersFirst
<1>7. \/ Addressed(m) = {} /\ UNCHANGED <<conn, inbox, looper>>
      \/ \E c \in Addressed(m) : Update(c, After(conn[c], m), inbox[c])
  BY DEF SerialReceive, m
<1>8. /\ Told' = Told
      /\ \A c \in Clients : c \in gone => c \notin reg
      /\ \A c \in Clients : ch[c] # NoChannel => conn[c].state = "live"
      /\ \A c \in Clients : ch[c] = conn[c].channel /\ (c \in reg <=> conn[c].registered = 1)
      /\ \A c \in Clients : c \in gone <=> conn[c].state \in {"closing", "freed"}
  BY <1>5 DEF Told, Granted, ConnsInv, ChannelOf, Registered, GoneClients
<1> HIDE DEF m, T, F, FNow, ch, reg, gone
<1>9. /\ m.channel \in 1..last_channel /\ m.client \in Clients /\ own[m.channel] = m.client
      /\ m.channel # NoChannel /\ m.channel # 0
  BY <1>1, <1>4, QemudAssumption DEF Link, Owned, NoChannel
<1>10. \A c \in Clients : Numbers(F, c) = IF m.kind = "data" /\ m.client = c
                                          THEN Numbers(FNow, c) \cup {m.number}
                                          ELSE Numbers(FNow, c)
  <2>1. F = FNow \cup {m}
    BY <1>4
  <2> TAKE c \in Clients
  <2>2. /\ m.kind = "data" /\ m.client = c =>
             Numbers(FNow \cup {m}, c) = Numbers(FNow, c) \cup {m.number}
        /\ ~(m.kind = "data" /\ m.client = c) => Numbers(FNow \cup {m}, c) = Numbers(FNow, c)
    BY ZenonT(30), NumbersMore
  <2> QED BY ONLY <2>1, <2>2
<1>11. CASE Addressed(m) = {} /\ UNCHANGED <<conn, inbox, looper>>
  <2>1. ChannelOf' = ch /\ Registered' = reg /\ GoneClients' = gone
    BY <1>11 DEF ChannelOf, Registered, GoneClients, ch, reg, gone
  <2>2. \A c \in Clients : ch[c] = m.channel => m.kind = "data" /\ m.channel = 0
    BY <1>8, <1>9, <1>11 DEF Addressed, ClientsAt, LiveClients
  <2>3. \A c \in Clients : ch[c] # m.channel
    BY <1>9, <2>2
  <2>4. Flow(gone, ch, reg, T, FNow, emulator, expelled, emulatorSent)
    <3>1. CASE m.kind = "OK"
      <4>1. Flow(gone, ch, reg \cup {}, T, FNow, emulator, expelled, emulatorSent)
        BY <1>1, <1>2, <1>4, <1>6, <2>3, <3>1, FlowGranted
      <4> QED BY <4>1
    <3>2. CASE m.kind # "OK"
      BY <1>2, <1>4, <3>2, FlowTake
    <3> QED BY <3>1, <3>2
  <2>5. m.kind = "data" => m.client \in gone
    BY <1>1, <1>2, <1>4, <1>6, <1>9, <2>3, DataAddressed
  <2>6. ServedNow'
    <3> DEFINE told == Told'
               l == GoneClients'
               g == Registered'
    <3>1. told = Told /\ l = gone /\ g = reg
      BY <1>8, <2>1
    <3> HIDE DEF told, l, g
    <3>2. ASSUME NEW c \in Clients
          PROVE  Served(c, conn[c].out, Len(received[c]), told, l, g, Numbers(FNow, c),
                        emulatorSent[c])
      <4>1. Served(c, conn[c].out, Len(received[c]), Told, gone, reg, Numbers(F, c),
                   emulatorSent[c])
        BY <1>2 DEF ServedNow, gone, reg, F
      <4>2. Numbers(FNow, c) = Numbers(F, c) \/ c \in gone
        BY <1>10, <2>5
      <4> QED BY <3>1, <4>1, <4>2, ServedSame
    <3> QED BY <1>5, <1>11, <3>2 DEF ServedNow, told, l, g
  <2>7. FlowNow'
    BY <1>5, <2>1, <2>4 DEF FlowNow
  <2> QED BY <1>6, <2>6, <2>7
<1>12. ASSUME NEW c \in Addressed(m), Update(c, After(conn[c], m), inbox[c])
       PROVE  FlowNow' /\ ServedNow'
  <2> DEFINE a == After(conn[c], m)
             r == conn'[c]
             q == conn[c].out
             l == GoneClients'
             g == Registered'
             M == Numbers(F, c)
             s == emulatorSent[c]
             n == Len(received[c])
             h == [ch EXCEPT ![c] = NoChannel]
  <2>1. /\ c \in Clients /\ conn[c].state = "live" /\ conn[c] \in Conns
        /\ conn[c].channel = m.channel
    BY <1>0 DEF Addressed, ClientsAt, LiveClients, TypeOK
  <2>2. a \in Conns
    BY <1>3, <2>1, AfterType
  <2>3. /\ conn' = [conn EXCEPT ![c] = r]
        /\ r.state = a.state /\ r.channel = a.channel
        /\ r.registered = a.registered /\ r.out = a.out
    BY <1>0, <1>12, <2>1, <2>2, UpdateConn
  <2>4. \/ /\ m.kind = "data" /\ a.state = "live"
           /\ a.channel = conn[c].channel /\ a.registered = conn[c].registered
           /\ a.out = Append(conn[c].out, m)
        \/ /\ m.kind = "OK" /\ a.state = "live"
           /\ a.channel = conn[c].channel /\ a.registered = 1 /\ a.out = Append(conn[c].out, m)
        \/ /\ m.kind = "KO" /\ a.state = "live"
           /\ a.channel = NoChannel /\ a.registered = 0 /\ a.out = Append(conn[c].out, m)
        \/ /\ m.kind = "disconnect" /\ a.state \in {"closing", "freed"}
           /\ a.channel = NoChannel /\ a.registered = 0 /\ a.out \in {conn[c].out, <<>>}
    BY <1>3, <2>1, AfterCases
  <2>5. q \in Seq(ToClient) /\ s \in Nat /\ n \in Nat /\ conn[c].registered \in {0, 1}
    <3>1. received[c] \in Seq(Data)
      BY <1>0, <2>1 DEF TypeOK
    <3>2. n \in Nat
      BY <3>1, LenProperties
    <3> HIDE DEF n
    <3> QED BY <1>0, <2>1, <3>2 DEF TypeOK, Conns
  <2>6. m.kind # "disconnect" => m \in ToClient
    BY <1>3 DEF FromEmulator, ToClient, MessagesOf
  <2> HIDE DEF r, a, q, s, n
  <2>7. r.channel \in 0..Channels
    BY <2>1, <2>3, <2>4, NoChannelType DEF Conns
  <2>8. /\ ch \in [Clients -> 0..Channels] /\ ch[c] = m.channel
        /\ ChannelOf' = [ch EXCEPT ![c] = r.channel]
        /\ r.channel = m.channel => ChannelOf' = ch
        /\ r.registered = 1 => g = reg \cup {c}
        /\ r.registered = 0 => g = reg \ {c}
        /\ c \in reg <=> conn[c].registered = 1
    <3>1. conn' = [conn EXCEPT ![c] = r]
      BY <2>3
    <3>2. /\ ChannelOf \in [Clients -> 0..Channels] /\ ChannelOf[c] = conn[c].channel
          /\ ChannelOf' = [ChannelOf EXCEPT ![c] = r.channel]
          /\ r.channel = conn[c].channel => ChannelOf' = ChannelOf
          /\ r.registered = 1 => Registered' = Registered \cup {c}
          /\ r.registered = 0 => Registered' = Registered \ {c}
          /\ c \in Registered <=> conn[c].registered = 1
      BY <1>0, <2>1, <2>7, <3>1, ViewsUpdate
    <3> QED BY <2>1, <3>2 DEF ch, reg
  <2>9. /\ l = GoneAfter(c, r) /\ c \notin gone
    <3>1. conn' = [conn EXCEPT ![c] = r]
      BY <2>3
    <3>2. l = GoneAfter(c, r)
      BY <1>0, <2>1, <3>1, GoneUpdate
    <3> QED BY <1>8, <2>1, <3>2
  <2>10. l = IF r.state \in {"closing", "freed"} THEN gone \cup {c} ELSE gone
    BY <2>9 DEF GoneAfter, gone
  <2>11. m.client = c /\ \A d \in Clients : ch[d] = m.channel => d = c
    BY <1>1, <1>9, <2>1, <2>8 DEF Link, Owned
  <2>12. Served(c, q, n, Told, gone, reg, M, s)
    BY <1>2, <2>1 DEF ServedNow, gone, reg, F, q, n, s
  <2> HIDE DEF l, g
  <2>13. ASSUME Flow(l, ChannelOf', g, T, FNow, emulator, expelled, emulatorSent),
                Served(c, r.out, n, Told, l, g, Numbers(FNow, c), s)
         PROVE  FlowNow' /\ ServedNow'
    <3>1. FlowNow'
      BY <1>5, <2>13 DEF FlowNow, l, g
    <3> DEFINE told == Told'
               FNew == Range(fromEmulator)'
    <3>2. told = Told /\ FNew = FNow /\ received' = received /\ emulatorSent' = emulatorSent
      BY <1>5, <1>8
    <3>3. \A x \in Clients : x # c => Numbers(FNow, x) = Numbers(Range(fromEmulator), x)
      BY <1>10, <2>11 DEF F
    <3> HIDE DEF told, FNew
    <3>4. Served(c, r.out, Len(received'[c]), told, l, g, Numbers(FNew, c), emulatorSent[c])
      BY <2>13, <3>2 DEF n, s
    <3>5. conn' = [conn EXCEPT ![c] = r]
      BY <2>3
    <3>6. \A x \in Clients : x # c =>
            /\ received'[x] = received[x]
            /\ x \in told <=> x \in Told
            /\ Numbers(FNew, x) = Numbers(Range(fromEmulator), x)
      BY <3>2, <3>3
    <3>7. ServedNow'
      BY <1>0, <1>2, <2>1, <3>2, <3>4, <3>5, <3>6, ServedUpdate DEF told, l, g, FNew
    <3> QED BY <3>1, <3>7
  <2>14. CASE m.kind = "data"
    <3>1. c \in reg /\ ch[c] = m.channel
      BY <1>1, <1>2, <1>4, <1>6, <2>9, <2>11, <2>14, DataAddressed
    <3>2. ChannelOf' = ch /\ g = reg /\ l = gone /\ r.out = Append(q, m)
      <4>1. /\ r.channel = m.channel /\ r.registered = 1 /\ r.state = "live"
            /\ r.out = Append(q, m)
        BY <2>1, <2>3, <2>4, <2>8, <2>14, <3>1 DEF q
      <4> QED BY <2>8, <2>10, <3>1, <4>1
    <3>3. Flow(gone, ch, reg, T, FNow, emulator, expelled, emulatorSent)
      BY <1>2, <1>4, <2>14, FlowTake
    <3>4. /\ M = Numbers(FNow, c) \cup {m.number}
          /\ \A x \in Numbers(FNow, c) : m.number < x
      BY <1>6, <1>10, <2>1, <2>11, <2>14 DEF Numbers, M
    <3>5. /\ m.number \in Nat /\ m.number \in M /\ m \in ToClient
          /\ \A x \in M : m.number <= x
          /\ M \ {m.number} = Numbers(FNow, c)
      <4>1. m.number \in Nat
        BY <1>3 DEF FromEmulator, MessagesOf
      <4>2. \A x \in Numbers(FNow, c) : x \in Nat
        <5>1. \A x \in FNow : x.number \in Nat
          <6>1. F \subseteq FromEmulator
            BY <1>3, InRange DEF F
          <6> QED BY <1>4, <6>1 DEF FromEmulator, MessagesOf
        <5> QED BY <5>1 DEF Numbers, DataFor
      <4> DEFINE N == Numbers(FNow, c)
      <4> HIDE DEF N, M
      <4>3. m.number \notin N
        BY <3>4, <4>1 DEF N
      <4> QED BY <2>6, <2>14, <3>4, <4>1, <4>2, <4>3 DEF N
    <3> HIDE DEF M
    <3>6. Served(c, Append(q, m), n, Told, gone, reg, M \ {m.number}, s)
      BY <2>5, <2>9, <2>12, <2>14, <3>1, <3>5, ServedData
    <3> QED BY <2>13, <3>2, <3>3, <3>5, <3>6
  <2>15. ASSUME m.kind # "data" PROVE M = Numbers(FNow, c)
    BY <1>10, <2>1, <2>15
  <2> HIDE DEF M
  <2>16. CASE m.kind = "OK"
    <3>1. ChannelOf' = ch /\ g = reg \cup {c} /\ l = gone /\ r.out = Append(q, m)
      <4>1. /\ r.channel = m.channel /\ r.registered = 1 /\ r.state = "live"
            /\ r.out = Append(q, m)
        BY <2>1, <2>3, <2>4, <2>16 DEF q
      <4> QED BY <2>8, <2>10, <4>1
    <3>2. Flow(gone, ch, reg \cup {c}, T, FNow, emulator, expelled, emulatorSent)
      <4> DEFINE new == {c}
      <4>1. /\ Flow(gone, ch, reg, T, F, emulator, expelled, emulatorSent)
            /\ F = {m} \cup FNow
            /\ \A x \in FNow : x.channel = m.channel => x.kind \notin {"OK", "KO"}
        BY <1>2, <1>4, <1>6
      <4>2. new \in SUBSET Clients /\ \A d \in new : ch[d] = m.channel
        BY <2>1, <2>8
      <4>3. \A d \in Clients : ch[d] = m.channel => d \in new
        BY <2>11
      <4> HIDE DEF new
      <4>4. Flow(gone, ch, reg \cup new, T, FNow, emulator, expelled, emulatorSent)
        BY <1>1, <2>16, <4>1, <4>2, <4>3, FlowGranted
      <4> QED BY <4>4 DEF new
    <3>3. c \notin reg
      BY <1>2, <1>4, <2>8, <2>16 DEF Flow
    <3>4. Served(c, Append(q, m), n, Told, gone, reg \cup {c}, M, s)
      BY <2>5, <2>6, <2>9, <2>12, <2>16, <3>3, ServedAnswer
    <3> QED BY <2>13, <2>15, <2>16, <3>1, <3>2, <3>4
  <2>17. CASE m.kind = "KO"
    <3>1. ChannelOf' = h /\ g = reg \ {c} /\ l = gone /\ r.out = Append(q, m)
      <4>1. /\ r.channel = NoChannel /\ r.registered = 0 /\ r.state = "live"
            /\ r.out = Append(q, m)
        BY <2>1, <2>3, <2>4, <2>17 DEF q
      <4> QED BY <2>8, <2>10, <4>1
    <3>2. c \notin reg /\ Flow(gone, h, reg, T, FNow, emulator, expelled, emulatorSent)
      <4>1. /\ Flow(gone, ch, reg, T, F, emulator, expelled, emulatorSent)
            /\ F = {m} \cup FNow /\ c \in Clients /\ ch[c] = m.channel
            /\ \A x \in FNow : x.channel = m.channel => x.kind \notin {"OK", "KO"}
        BY <1>2, <1>4, <1>6, <2>1, <2>8
      <4>2. c \notin reg
        BY <1>2, <1>4, <2>8, <2>17 DEF Flow
      <4>3. Flow(gone, [ch EXCEPT ![c] = NoChannel], reg, T, FNow, emulator, expelled,
                 emulatorSent)
        BY SMTT(30), <1>1, <2>17, <4>1, FlowRefused
      <4> QED BY <4>2, <4>3
    <3>3. g = reg
      BY <3>1, <3>2
    <3>4. Served(c, Append(q, m), n, Told, gone, reg, M, s)
      BY <2>5, <2>6, <2>9, <2>12, <2>17, <3>2, ServedAnswer
    <3> HIDE DEF h
    <3> QED BY <2>13, <2>15, <2>17, <3>1, <3>2, <3>3, <3>4
  <2>18. CASE m.kind = "disconnect"
    <3>1. ChannelOf' = h /\ g = reg \ {c} /\ l = gone \cup {c} /\ r.out \in {q, <<>>}
      <4>1. /\ r.channel = NoChannel /\ r.registered = 0 /\ r.state \in {"closing", "freed"}
            /\ r.out \in {q, <<>>}
        BY <2>3, <2>4, <2>18 DEF q
      <4> QED BY <2>8, <2>10, <4>1
    <3>2. Flow(gone \cup {c}, h, reg \ {c}, T, F, emulator, expelled, emulatorSent)
      BY <1>1, <1>2, <2>1, FlowLeave
    <3>3. Flow(gone \cup {c}, h, reg \ {c}, T, FNow, emulator, expelled, emulatorSent)
      <4> HIDE DEF h
      <4> QED BY <1>4, <2>18, <3>2, FlowTake
    <3>4. c \in l /\ c \notin g
      BY <3>1
    <3>5. Served(c, r.out, n, Told, l, g, Numbers(FNow, c), s)
      BY SMTT(30), <2>5, <2>12, <3>1, <3>4, ServedGone
    <3> HIDE DEF h
    <3> QED BY <2>13, <3>1, <3>3, <3>5
  <2> QED BY <2>4, <2>14, <2>16, <2>17, <2>18
<1> QED BY <1>6, <1>7, <1>11, <1>12


\* The connections stay as they are, and what is new on the line is no data.
LEMMA ServedStays ==
    ASSUME ServedNow, UNCHANGED <<conn, answers, received, emulatorSent>>,
           NEW FNow, FNow = Range(fromEmulator)',
           \A c \in Clients : Numbers(FNow, c) = Numbers(Range(fromEmulator), c)
    PROVE  ServedNow'
BY DEF ServedNow, Told, Granted, GoneClients, Registered

LEMMA OrderEmulatorReceive == TypeInv /\ LinkInv /\ OrderInv /\ EmulatorReceive => OrderInv'
<1> SUFFICES ASSUME TypeInv, LinkInv, OrderInv, EmulatorReceive, last_channel < Channels
             PROVE  FlowNow' /\ ServedNow' /\ DataInOrder(fromEmulator)'
                    /\ AnswersFirst(fromEmulator)'
  BY DEF OrderInv, EmulatorReceive, daemonVars
<1> DEFINE m == Head(toEmulator)
           T == Range(toEmulator)
           TNow == Range(Tail(toEmulator))
           F == Range(fromEmulator)
           ch == ChannelOf
           reg == Registered
           gone == GoneClients
           x == emulator'
           FNow == Range(fromEmulator)'
<1>0. TypeOK
  BY DEF TypeInv
<1>1. PICK own : Link(own, ch, reg, T, F, emulator, expelled, last_channel)
  BY DEF LinkInv, LinkNow
<1>2. /\ Flow(gone, ch, reg, T, F, emulator, expelled, emulatorSent)
      /\ ServedNow /\ DataInOrder(fromEmulator) /\ AnswersFirst(fromEmulator)
  BY DEF OrderInv, FlowNow
<1>3. /\ toEmulator \in Seq(ToEmulator) /\ toEmulator # <<>> /\ m \in ToEmulator
      /\ fromEmulator \in Seq(FromEmulator)
      /\ emulator \in [0..Channels -> Clients \cup {NoClient}]
  BY <1>0 DEF TypeOK, EmulatorReceive
<1>4. m \in T /\ TNow \subseteq T
  BY <1>3, HeadTailRange
<1>5. /\ toEmulator' = Tail(toEmulator)
      /\ UNCHANGED <<conn, expelled, last_channel, answers, received, emulatorSent>>
  BY DEF EmulatorReceive, daemonVars, clientVars
<1>6. ch' = ch /\ reg' = reg /\ gone' = gone /\ Range(toEmulator)' = TNow
  BY <1>5 DEF ChannelOf, Registered, GoneClients
<1>7. \/ \E kind \in {"OK", "KO"} :
           /\ m.kind = "connect"
           /\ x = emulator \/ (kind = "OK" /\ x = [emulator EXCEPT ![m.channel] = m.client])
           /\ fromEmulator' = Append(fromEmulator, [m EXCEPT !.kind = kind])
      \/ /\ x \in {emulator, [emulator EXCEPT ![m.channel] = NoClient]}
         /\ fromEmulator' = fromEmulator
  BY DEF EmulatorReceive, Answered
<1> HIDE DEF m, T, TNow, F, ch, reg, gone, x, FNow
<1>8. m.channel \in 0..Channels
  BY <1>1, <1>4, QemudAssumption DEF Link, Owned
<1>9. ASSUME Flow(gone, ch, reg, TNow, FNow, x, expelled, emulatorSent)
      PROVE  FlowNow'
  BY <1>5, <1>6, <1>9 DEF FlowNow, ch, reg, gone, x, FNow
<1>10. ASSUME NEW kind \in {"OK", "KO"}, m.kind = "connect",
              x = emulator \/ (kind = "OK" /\ x = [emulator EXCEPT ![m.channel] = m.client]),
              fromEmulator' = Append(fromEmulator, [m EXCEPT !.kind = kind])
       PROVE  FlowNow' /\ ServedNow' /\ DataInOrder(fromEmulator)' /\ AnswersFirst(fromEmulator)'
  <2> DEFINE e == [m EXCEPT !.kind = kind]
  <2>1. e \in FromEmulator /\ e.kind = kind /\ e.channel = m.channel
    BY <1>3 DEF ToEmulator, FromEmulator, MessagesOf
  <2>2. fromEmulator' = Append(fromEmulator, e)
    BY <1>10
  <2> HIDE DEF e
  <2>3. FNow = F \cup {e}
    BY <1>3, <2>1, <2>2, AppendRange DEF F, FNow
  <2>4. \A k \in 0..Channels : x[k] = emulator[k] \/ (k = m.channel /\ e.kind = "OK")
    BY <1>3, <1>10, <2>1
  <2>5. Flow(gone, ch, reg, TNow, F \cup {e}, x, expelled, emulatorSent)
    BY <1>1, <1>2, <1>4, <1>10, <2>1, <2>4, FlowAnswer
  <2>6. \A n \in F : n.channel # e.channel
    BY <1>1, <1>4, <1>10, <2>1 DEF Link, RequestsNew
  <2>7. DataInOrder(Append(fromEmulator, e)) /\ AnswersFirst(Append(fromEmulator, e))
    BY <1>2, <1>3, <2>1, <2>6, OrderAppend DEF F
  <2>8. \A c \in Clients : Numbers(FNow, c) = Numbers(F, c)
    <3> TAKE c \in Clients
    <3>1. e.kind # "data"
      BY <2>1
    <3>2. Numbers(F \cup {e}, c) = Numbers(F, c)
      BY ZenonT(30), <3>1, NumbersMore
    <3> QED BY <2>3, <3>2
  <2>9. ServedNow'
    BY <1>2, <1>5, <2>8, ServedStays DEF F, FNow
  <2> QED BY <1>9, <2>2, <2>3, <2>5, <2>7, <2>9 DEF DataInOrder, AnswersFirst
<1>11. CASE /\ x \in {emulator, [emulator EXCEPT ![m.channel] = NoClient]}
            /\ fromEmulator' = fromEmulator
  <2> DEFINE E == {}
  <2>1. \A k \in 0..Channels : x[k] \in {emulator[k], NoClient}
    BY <1>3, <1>11
  <2>2. \A e \in E : e.kind = "disconnect"
    OBVIOUS
  <2>3. F \cup E = F /\ FNow = F
    BY <1>11 DEF F, FNow
  <2> HIDE DEF E
  <2>4. Flow(gone, ch, reg, TNow, F \cup E, x, expelled, emulatorSent)
    BY <1>1, <1>2, <1>4, <2>1, <2>2, FlowLess
  <2>5. ServedNow'
    BY <1>2, <1>5, <2>3, ServedStays DEF F, FNow
  <2> QED BY <1>2, <1>9, <1>11, <2>3, <2>4, <2>5 DEF DataInOrder, AnswersFirst
<1> QED BY <1>7, <1>10, <1>11

LEMMA OrderEmulatorSends ==
    ASSUME TypeInv, LinkInv, OrderInv, NEW k \in 0..(Channels - 1),
           EmulatorSend(k) \/ EmulatorDisconnect(k)
    PROVE  OrderInv'
<1> SUFFICES ASSUME last_channel < Channels
             PROVE  FlowNow' /\ ServedNow' /\ DataInOrder(fromEmulator)'
                    /\ AnswersFirst(fromEmulator)'
  BY DEF OrderInv, EmulatorSend, EmulatorDisconnect, daemonVars
<1> DEFINE T == Range(toEmulator)
           F == Range(fromEmulator)
           ch == ChannelOf
           reg == Registered
           gone == GoneClients
           d == emulator[k]
           FNow == Range(fromEmulator)'
<1>0. TypeOK
  BY DEF TypeInv
<1>1. PICK own : Link(own, ch, reg, T, F, emulator, expelled, last_channel)
  BY DEF LinkInv, LinkNow
<1>2. /\ Flow(gone, ch, reg, T, F, emulator, expelled, emulatorSent)
      /\ ServedNow /\ DataInOrder(fromEmulator) /\ AnswersFirst(fromEmulator)
  BY DEF OrderInv, FlowNow
<1>3. k \in 0..Channels /\ d \in Clients /\ d # NoClient /\ fromEmulator \in Seq(FromEmulator)
      /\ emulatorSent \in [Clients -> Nat]
      /\ emulator \in [0..Channels -> Clients \cup {NoClient}]
  BY <1>0, QemudAssumption DEF TypeOK, EmulatorSend, EmulatorDisconnect
<1>4. UNCHANGED <<conn, toEmulator, expelled, last_channel, answers, received>>
  BY DEF EmulatorSend, EmulatorDisconnect, daemonVars, clientVars
<1>5. ch' = ch /\ reg' = reg /\ gone' = gone /\ Range(toEmulator)' = T /\ Told' = Told
  BY <1>4 DEF ChannelOf, Registered, GoneClients, Told, Granted
<1>6. CASE EmulatorSend(k)
  <2> DEFINE s == emulatorSent[d] + 1
             e == Message("data", k, d, s)
             sent == [emulatorSent EXCEPT ![d] = @ + 1]
  <2>1. /\ e \in FromEmulator /\ e.kind = "data" /\ e.channel = k /\ e.client = d /\ e.number = s
    BY <1>3 DEF Message, FromEmulator, MessagesOf
  <2>2. fromEmulator' = Append(fromEmulator, e) /\ emulator' = emulator /\ emulatorSent' = sent
    BY <1>6 DEF EmulatorSend
  <2>3. \A c \in Clients : sent[c] = IF c = d THEN emulatorSent[c] + 1 ELSE emulatorSent[c]
    BY <1>3
  <2> HIDE DEF e, T, F, ch, reg, gone, FNow, sent
  <2>4. FNow = F \cup {e}
    BY <1>3, <2>1, <2>2, AppendRange DEF F, FNow
  <2>5. Flow(gone, ch, reg, T, F \cup {e}, emulator, expelled,
             [emulatorSent EXCEPT ![emulator[k]] = @ + 1])
    BY <1>1, <1>2, <1>3, <2>1, FlowSend
  <2>6. FlowNow'
    BY <1>4, <1>5, <2>2, <2>4, <2>5 DEF FlowNow, ch, reg, gone, FNow, sent
  <2>7. \A n \in DataFor(F, d) : n.number < s
    <3>1. \A n \in DataFor(F, d) : n.number \in 1..emulatorSent[d]
      BY <1>2 DEF Flow, DataFor
    <3> QED BY <1>3, <3>1
  <2> HIDE DEF s, d
  <2>8. DataInOrder(Append(fromEmulator, e)) /\ AnswersFirst(Append(fromEmulator, e))
    BY <1>2, <1>3, <2>1, <2>7, OrderAppend DEF F
  <2>9. ASSUME NEW c \in Clients
        PROVE  Served(c, conn[c].out, Len(received[c]), Told, gone, reg, Numbers(FNow, c), sent[c])
    <3>1. Served(c, conn[c].out, Len(received[c]), Told, gone, reg, Numbers(F, c),
                 emulatorSent[c])
      BY <1>2 DEF ServedNow, gone, reg, F
    <3>2. /\ conn[c].out \in Seq(ToClient) /\ Len(received[c]) \in Nat /\ emulatorSent[c] \in Nat
      <4>1. received[c] \in Seq(Data) /\ conn[c] \in Conns
        BY <1>0 DEF TypeOK
      <4> QED BY <1>3, <4>1, LenProperties DEF Conns
    <3>3. CASE c = d
      <4>1. Numbers(FNow, c) = Numbers(F, c) \cup {s}
        BY <2>1, <2>4, <3>3, NumbersMore
      <4>2. sent[c] = emulatorSent[c] + 1 /\ s = emulatorSent[c] + 1
        BY <2>3, <3>3 DEF s
      <4> QED BY <3>1, <3>2, <4>1, <4>2, ServedSend
    <3>4. CASE c # d
      <4>1. Numbers(FNow, c) = Numbers(F, c)
        BY <2>1, <2>4, <3>4, NumbersMore
      <4> QED BY <2>3, <3>1, <3>4, <4>1
    <3> QED BY <3>3, <3>4
  <2>10. ServedNow'
    BY <1>4, <1>5, <2>2, <2>9 DEF ServedNow, gone, reg, FNow
  <2> QED BY <2>2, <2>6, <2>8, <2>10 DEF DataInOrder, AnswersFirst
<1>7. CASE EmulatorDisconnect(k)
  <2> DEFINE e == Message("disconnect", k, d, 0)
             x == [emulator EXCEPT ![k] = NoClient]
             E == {e}
  <2>1. e \in FromEmulator /\ e.kind = "disconnect"
    BY <1>3 DEF Message, FromEmulator, MessagesOf
  <2>2. fromEmulator' = Append(fromEmulator, e) /\ emulator' = x /\ emulatorSent' = emulatorSent
    BY <1>7 DEF EmulatorDisconnect
  <2>3. \A j \in 0..Channels : x[j] \in {emulator[j], NoClient}
    BY <1>3
  <2> HIDE DEF e, T, F, ch, reg, gone, FNow, x
  <2>4. FNow = F \cup E
    BY <1>3, <2>1, <2>2, AppendRange DEF F, FNow
  <2>5. \A n \in E : n.kind = "disconnect"
    BY <2>1
  <2>6. \A c \in Clients : Numbers(FNow, c) = Numbers(F, c)
    <3> TAKE c \in Clients
    <3>1. e.kind # "data"
      BY <2>1
    <3>2. Numbers(F \cup {e}, c) = Numbers(F, c)
      BY ZenonT(30), <3>1, NumbersMore
    <3> QED BY <2>4, <3>2
  <2> HIDE DEF E
  <2>7. Flow(gone, ch, reg, T, F \cup E, x, expelled, emulatorSent)
    BY <1>1, <1>2, <2>3, <2>5, FlowLess
  <2>8. FlowNow'
    BY <1>4, <1>5, <2>2, <2>4, <2>7 DEF FlowNow, ch, reg, gone, FNow
  <2>9. DataInOrder(Append(fromEmulator, e)) /\ AnswersFirst(Append(fromEmulator, e))
    BY <1>2, <1>3, <2>1, OrderAppend
  <2>10. ServedNow'
    BY <1>2, <1>4, <2>2, <2>6, ServedStays DEF F, FNow
  <2> QED BY <2>2, <2>8, <2>9, <2>10 DEF DataInOrder, AnswersFirst
<1> QED BY <1>6, <1>7


\* A connection that is accepted has nothing to be written, and has been written nothing.
LEMMA ServedAccept ==
    ASSUME NEW q \in Seq(ToClient), NEW d \in Nat, NEW s \in Nat,
           NEW c, NEW told, NEW gone, NEW reg, NEW numbers,
           Served(c, q, d, told, gone, reg, numbers, s), c \notin gone \cup reg
    PROVE  Served(c, <<>>, d, told, gone, reg, numbers, s)
<1>1. d = 0 /\ d <= s /\ \A i \in 1..Len(q) : q[i].kind # "data"
  BY DEF Served
<1>2. 1..Len(<<>>) = {}
  OBVIOUS
<1>3. Reached(q, d) = d /\ Reached(<<>>, d) = d
  <2>1. q # <<>> => Len(q) \in 1..Len(q)
    BY EmptySeq
  <2> QED BY <1>1, <2>1 DEF Reached
<1>4. numbers = (Reached(<<>>, d) + 1)..s
  BY <1>3 DEF Served
<1> QED BY <1>1, <1>2, <1>4 DEF Served, Numbered

LEMMA OrderAccept == TypeInv /\ ConnsInv /\ OrderInv /\ Accept => OrderInv'
<1> SUFFICES ASSUME TypeInv, ConnsInv, OrderInv, Accept, last_channel < Channels
             PROVE  FlowNow' /\ ServedNow' /\ DataInOrder(fromEmulator)'
                    /\ AnswersFirst(fromEmulator)'
  BY DEF OrderInv, Accept
<1> DEFINE c == Head(backlog)
           r == Connection("live", LowestFd, NoChannel, 0, <<>>)
           F == Range(fromEmulator)
           told == Told'
           gone == GoneClients'
           reg == Registered'
           FNow == Range(fromEmulator)'
<1>1. TypeOK /\ backlog \in Seq(Clients) /\ backlog # <<>> /\ c \in Clients
  BY SMTT(30) DEF Accept, TypeInv, TypeOK
<1>2. conn' = [conn EXCEPT ![c] = r]
  BY DEF Accept
<1>3. r.channel = NoChannel /\ r.registered = 0 /\ r.out = <<>> /\ r.state = "live"
  BY DEF Connection
<1>4. c \in Range(backlog)
  BY <1>1, HeadTailRange
<1>5. conn[c].channel = NoChannel /\ conn[c].registered = 0 /\ conn[c].state = "none"
  BY <1>1, <1>4 DEF ConnsInv
<1>6. UNCHANGED <<toEmulator, fromEmulator, emulator, expelled, last_channel, answers,
                received, emulatorSent>>
  BY DEF Accept, lineVars, emulatorVars
<1>7. told = Told /\ FNow = F
  BY <1>6 DEF Told, Granted
<1> HIDE DEF c, r, told, gone, reg, F, FNow
<1>8. c \notin GoneClients \cup Registered
  BY <1>5 DEF GoneClients, Registered
<1>9. ChannelOf' = ChannelOf /\ reg = Registered /\ gone = GoneClients
  <2>1. r.channel \in 0..Channels
    BY <1>3, NoChannelType
  <2>2. /\ r.channel = conn[c].channel => ChannelOf' = ChannelOf
        /\ r.registered = 0 => Registered' = Registered \ {c}
    BY <1>1, <1>2, <2>1, ViewsUpdate
  <2>3. GoneClients' = GoneAfter(c, r)
    BY <1>1, <1>2, GoneUpdate
  <2> QED BY <1>3, <1>5, <1>8, <2>2, <2>3 DEF GoneAfter, reg, gone
<1>10. FlowNow /\ ServedNow /\ DataInOrder(fromEmulator) /\ AnswersFirst(fromEmulator)
  BY DEF OrderInv
<1>11. FlowNow'
  BY <1>6, <1>9, <1>10 DEF FlowNow, gone, reg
<1>12. Served(c, r.out, Len(received'[c]), told, gone, reg, Numbers(FNow, c), emulatorSent[c])
  <2>1. Served(c, conn[c].out, Len(received[c]), Told, GoneClients, Registered, Numbers(F, c),
               emulatorSent[c])
    BY <1>1, <1>10 DEF ServedNow, F
  <2>2. /\ conn[c].out \in Seq(ToClient) /\ Len(received[c]) \in Nat /\ emulatorSent[c] \in Nat
    <3>1. received[c] \in Seq(Data) /\ conn[c] \in Conns /\ emulatorSent[c] \in Nat
      BY <1>1 DEF TypeOK
    <3> QED BY <3>1, LenProperties DEF Conns
  <2>3. Served(c, <<>>, Len(received[c]), Told, GoneClients, Registered, Numbers(F, c),
               emulatorSent[c])
    BY <1>8, <2>1, <2>2, ServedAccept
  <2> QED BY <1>3, <1>6, <1>7, <1>9, <2>3
<1>13. ServedNow'
  <2>1. ASSUME NEW x \in Clients
        PROVE  Served(x, conn'[x].out, Len(received'[x]), told, gone, reg, Numbers(FNow, x),
                      emulatorSent'[x])
    <3>1. conn'[x] = IF x = c THEN r ELSE conn[x]
      BY <1>1, <1>2 DEF TypeOK
    <3>2. CASE x = c
      BY <1>6, <1>12, <3>1, <3>2
    <3>3. CASE x # c
      <4>1. Served(x, conn[x].out, Len(received[x]), Told, GoneClients, Registered,
                   Numbers(F, x), emulatorSent[x])
        BY <1>10 DEF ServedNow, F
      <4> QED BY <1>6, <1>7, <1>9, <3>1, <3>3, <4>1
    <3> QED BY <3>2, <3>3
  <2> QED BY <2>1 DEF ServedNow, told, gone, reg, FNow
<1> QED BY <1>6, <1>10, <1>11, <1>13 DEF DataInOrder, AnswersFirst

LEMMA OrderInductive ==
    TypeInv /\ ConnsInv /\ LinkInv /\ OrderInv /\ [Next]_vars => OrderInv'
<1> SUFFICES ASSUME TypeInv, ConnsInv, LinkInv, OrderInv, [Next]_vars PROVE OrderInv'
  OBVIOUS
<1> USE DEF daemonVars, lineVars, clientVars, emulatorVars
<1>1. CASE EpollWait \/ SweepHooks \/ CallWild \/ CallKilled
  BY <1>1, OrderFrame DEF EpollWait, SweepHooks, CallWild, CallKilled
<1>2. CASE SerialReceive \/ CallHangUp \/ Accept
  BY <1>2, OrderSerial, OrderHangUp, OrderAccept
<1>3. CASE CallReadWrite
  <2>1. CASE last_channel' < Channels
    BY <1>3, <2>1, OrderReadWrite
  <2>2. CASE ~(last_channel' < Channels)
    BY <2>2 DEF OrderInv
  <2> QED BY <2>1, <2>2
<1>4. CASE ClientStep
  BY <1>4, OrderFrame DEF ClientStep, Connect, Ask, Write, HangUp
<1>5. CASE EmulatorStep
  BY <1>5, OrderEmulatorReceive, OrderEmulatorSends DEF EmulatorStep
<1>6. CASE UNCHANGED vars
  BY <1>6, OrderFrame DEF vars
<1> QED BY <1>1, <1>2, <1>3, <1>4, <1>5, <1>6 DEF Next, Daemon

LEMMA OrderInitially == Init => OrderInv
<1> SUFFICES ASSUME Init
             PROVE  FlowNow /\ ServedNow /\ DataInOrder(fromEmulator) /\ AnswersFirst(fromEmulator)
  BY DEF OrderInv
<1>1. Range(toEmulator) = {} /\ Range(fromEmulator) = {}
  BY EmptyRange DEF Init
<1>2. \A c \in Clients : conn[c].state = "none" /\ conn[c].registered = 0
                         /\ conn[c].out = <<>> /\ answers[c] = <<>> /\ received[c] = <<>>
                         /\ emulatorSent[c] = 0
  BY DEF Init, NewConn, Connection
<1>3. Registered = {} /\ GoneClients = {} /\ expelled = {}
      /\ \A k \in 0..Channels : emulator[k] = NoClient
  BY <1>2 DEF Init, Registered, GoneClients
<1>4. FlowNow
  BY <1>1, <1>3 DEF FlowNow, Flow
<1>5. \A c \in Clients : Numbers({}, c) = {}
  BY DEF Numbers, DataFor
<1>6. 1..0 = {} /\ Len(<<>>) = 0 /\ (0 + 1)..0 = {}
  OBVIOUS
<1>7. ServedNow
  <2> SUFFICES ASSUME NEW c \in Clients
               PROVE  Served(c, <<>>, 0, Told, {}, {}, {}, 0)
    BY <1>1, <1>2, <1>3, <1>5, <1>6 DEF ServedNow
  <2>1. Numbered(<<>>, 0) /\ Reached(<<>>, 0) = 0
    BY <1>6 DEF Numbered, Reached
  <2> QED BY <1>6, <2>1 DEF Served
<1>8. DataInOrder(fromEmulator) /\ AnswersFirst(fromEmulator)
  BY <1>6 DEF Init, DataInOrder, AnswersFirst
<1> QED BY <1>4, <1>7, <1>8

-----------------------------------------------------------------------------
(* The refinement.                                                         *)

Delivered   == [c \in Clients |-> [i \in 1..Len(received[c]) |-> received[c][i].number]]
ServiceNext == [Service!Next]_<<emulatorSent, Told, Delivered>>

LEMMA ServiceKept ==
    UNCHANGED <<emulatorSent, answers, received>> => ServiceNext
BY DEF ServiceNext, Told, Granted, Delivered

\* The emulator sends.
LEMMA ServiceSends ==
    ASSUME TypeOK, NEW k \in 0..(Channels - 1), EmulatorSend(k)
    PROVE  ServiceNext
<1> DEFINE c == emulator[k]
<1>1. c \in Clients
  BY QemudAssumption DEF TypeOK, EmulatorSend
<1>2. /\ emulatorSent' = [emulatorSent EXCEPT ![c] = @ + 1]
      /\ UNCHANGED <<answers, received>>
  BY DEF EmulatorSend, clientVars
<1> HIDE DEF c
<1>3. Told' = Told /\ Delivered' = Delivered
  BY <1>2 DEF Told, Granted, Delivered
<1>4. Service!Send(c)
  BY <1>2, <1>3 DEF Service!Send, Told, Delivered
<1> QED BY <1>1, <1>4 DEF ServiceNext, Service!Next

\* A packet is written.
LEMMA ServiceWrites ==
    ASSUME TypeOK, NEW c \in Clients, NEW p, Gets(c, p), emulatorSent' = emulatorSent,
           p.kind = "data" => /\ p.number = Len(received[c]) + 1 /\ p.number <= emulatorSent[c]
                              /\ c \in Told
    PROVE  ServiceNext
<1>1. /\ p.kind # "data" => p \in Answer /\ received' = received
      /\ p.kind = "data" => /\ p \in Data
                            /\ received' = [received EXCEPT ![c] = Append(@, p)]
      /\ Told' = IF p.kind = "OK" THEN Told \cup {c} ELSE Told
  BY GetsTold
<1>2. CASE p.kind # "data"
  <2>1. Delivered' = Delivered
    BY <1>1, <1>2 DEF Delivered
  <2>2. CASE Told' = Told
    BY <2>1, <2>2 DEF ServiceNext
  <2>3. CASE c \notin Told /\ Told' = Told \cup {c}
    <3>1. Service!Tell(c)
      BY <2>1, <2>3 DEF Service!Tell, Told, Delivered
    <3> QED BY <3>1 DEF ServiceNext, Service!Next
  <2> QED BY <1>1, <2>2, <2>3
<1>3. CASE p.kind = "data"
  <2> DEFINE n == Len(received[c])
             s == Append(received[c], p)
             old == Delivered[c]
             new == [i \in 1..Len(s) |-> s[i].number]
  <2>1. /\ received \in [Clients -> Seq(Data)] /\ received[c] \in Seq(Data)
        /\ \A i \in 1..Len(received[c]) : received[c][i].number \in Nat
    <3>1. received \in [Clients -> Seq(Data)] /\ received[c] \in Seq(Data)
      BY DEF TypeOK
    <3>2. \A i \in 1..Len(received[c]) : received[c][i] \in Data
      BY <3>1, ElementOfSeq
    <3> QED BY <3>1, <3>2 DEF Data, MessagesOf
  <2>2. /\ n \in Nat /\ Len(s) = n + 1 /\ s[n + 1] = p
        /\ \A i \in 1..n : s[i] = received[c][i]
    BY <1>1, <1>3, <2>1, AppendParts
  <2>3. old = [i \in 1..n |-> received[c][i].number]
    BY DEF Delivered
  <2>4. received' = [received EXCEPT ![c] = s]
    BY <1>1, <1>3
  <2> HIDE DEF s, n, new, old
  <2>5. old \in Seq(Nat) /\ Len(old) = n
    BY <2>1, <2>2, <2>3 DEF n
  <2>6. new = Append(old, n + 1)
    <3>1. new = [i \in 1..(n + 1) |-> s[i].number]
      BY <2>2 DEF new
    <3>2. \A i \in 1..n : s[i].number = old[i]
      BY <2>2, <2>3
    <3>3. s[n + 1].number = n + 1
      BY <1>3, <2>2 DEF n
    <3>4. \A i \in 1..(n + 1) : i \in 1..n \/ i = n + 1
      BY <2>2
    <3>5. new = [i \in 1..(n + 1) |-> IF i = n + 1 THEN n + 1 ELSE old[i]]
      BY <2>2, <3>1, <3>2, <3>3, <3>4
    <3>6. Append(old, n + 1) = [i \in 1..(n + 1) |-> IF i = n + 1 THEN n + 1 ELSE old[i]]
      BY <2>2, <2>5
    <3> QED BY <3>5, <3>6
  <2>7. Delivered' = [Delivered EXCEPT ![c] = new]
    <3>1. \A x \in Clients : received'[x] = IF x = c THEN s ELSE received[x]
      BY <2>1, <2>4
    <3> QED BY <3>1 DEF Delivered, new
  <2>8. Delivered' = [Delivered EXCEPT ![c] = Append(@, Len(@) + 1)]
    BY <2>5, <2>6, <2>7 DEF old
  <2>9. c \in Told /\ Told' = Told /\ Len(Delivered[c]) < emulatorSent[c]
    <3>1. emulatorSent[c] \in Nat
      BY DEF TypeOK
    <3> QED BY <1>1, <1>3, <2>2, <2>5, <3>1 DEF n, old
  <2>10. Service!Deliver(c)
    BY <2>8, <2>9 DEF Service!Deliver, Told, Delivered
  <2> QED BY <2>10 DEF ServiceNext, Service!Next
<1> QED BY <1>2, <1>3

LEMMA ServiceSteps ==
    ASSUME TypeInv, ConnsInv, LinkInv, OrderInv, [Next]_vars, last_channel' < Channels
    PROVE  ServiceNext
<1> USE DEF daemonVars, lineVars, clientVars, emulatorVars
<1>1. CASE CallReadWrite
  <2> DEFINE p == Head(AfterRead(Due).r.out)
  <2>1. TypeOK /\ Due \in Clients
    BY <1>1, DueType DEF TypeInv, CallReadWrite
  <2>2. Writes(Due) /\ p.kind = "data" =>
          /\ p.number = Len(received[Due]) + 1 /\ p.number <= emulatorSent[Due]
          /\ Due \in Told
    BY <1>1, OrderReadWrite
  <2>3. /\ emulatorSent' = emulatorSent
        /\ IF Writes(Due) THEN Gets(Due, p) ELSE UNCHANGED <<asked, answers, received>>
    BY <1>1 DEF CallReadWrite
  <2> HIDE DEF p
  <2>4. CASE Writes(Due)
    BY <2>1, <2>2, <2>3, <2>4, ServiceWrites
  <2>5. CASE ~Writes(Due)
    BY <2>3, <2>5, ServiceKept
  <2> QED BY <2>4, <2>5
<1>2. CASE \E k \in 0..(Channels - 1) : EmulatorSend(k)
  BY <1>2, ServiceSends DEF TypeInv
<1>3. CASE \/ EpollWait \/ SweepHooks \/ SerialReceive \/ Accept \/ CallWild \/ CallKilled
           \/ CallHangUp \/ ClientStep \/ EmulatorReceive
           \/ \E k \in 0..(Channels - 1) : EmulatorDisconnect(k)
           \/ UNCHANGED vars
  <2>1. UNCHANGED <<emulatorSent, answers, received>>
    BY <1>3 DEF EpollWait, SweepHooks, SerialReceive, Accept, CallWild, CallKilled, CallHangUp,
       ClientStep, Connect, Ask, Write, HangUp, EmulatorReceive, EmulatorDisconnect, vars
  <2> QED BY <2>1, ServiceKept
<1> QED BY <1>1, <1>2, <1>3 DEF Next, Daemon, EmulatorStep

\* Until the channel numbers come round qemud implements ConnectionService: a client is told
\* that its request is granted before it gets any data, and then gets what the emulator sends
\* to it in order and without a gap, whoever comes, asks, is refused, leaves, is thrown out or
\* is disconnected meanwhile.
THEOREM ServiceCorrect == Spec /\ [](last_channel < Channels) => DeliveredInOrder
<1>1. Init => Service!Init /\ LinkAll /\ OrderInv
  <2>1. Init => Service!Init
    <3> SUFFICES ASSUME Init PROVE Service!Init
      OBVIOUS
    <3>1. \A c \in Clients : received[c] = <<>> /\ answers[c] = <<>>
      BY DEF Init
    <3>2. {c \in Clients : Granted(c)} = {}
      BY <3>1 DEF Granted
    <3>3. \A c \in Clients : [i \in 1..Len(received[c]) |-> received[c][i].number] = <<>>
      BY <3>1
    <3> QED BY <3>2, <3>3 DEF Init, Service!Init
  <2> QED BY <2>1, OrderInitially, TypeInitially, ConnsInitially, LinkInitially DEF LinkAll
<1>2. LinkAll /\ OrderInv /\ [Next]_vars => LinkAll' /\ OrderInv'
  BY TypeInductive, ConnsInductive, LinkInductive, OrderInductive DEF LinkAll
<1>3. LinkAll /\ OrderInv /\ [Next]_vars /\ (last_channel < Channels)' => ServiceNext
  BY ServiceSteps DEF LinkAll
<1> QED BY <1>1, <1>2, <1>3, PTL DEF Spec, DeliveredInOrder, Service!Spec, ServiceNext, Told,
           Delivered

=============================================================================
