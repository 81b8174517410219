---------------------------- MODULE QemudProofs ----------------------------
(***************************************************************************)
(* Theorems about the qemud daemon, for any number of clients, descriptors *)
(* and channels, without bounds on what is asked and sent, and for clients *)
(* that wait for their answers and clients that do not.                    *)
(*                                                                         *)
(* TypeInv is the type invariant with what the marks of the serial port    *)
(* and of the control socket imply; UniqueChannels is inductive with it.   *)
(***************************************************************************)
EXTENDS Qemud, WellFoundedInduction, TLAPS

-----------------------------------------------------------------------------
(* The least of a set of naturals, which the model chooses in many places. *)

LEMMA LeastNatural ==
    ASSUME NEW S \in SUBSET Nat, S # {}
    PROVE  \E x \in S : \A y \in S : x <= y
<1> DEFINE R == {ss \in Nat \X Nat : ss[1] < ss[2]}
<1>1. IsWellFoundedOn(R, Nat)
  BY NatLessThanWellFounded DEF OpToRel
<1>2. \A x, y \in Nat : <<y, x>> \notin R => ~(y < x)
  OBVIOUS
<1> HIDE DEF R
<1>3. PICK x \in S : \A y \in S : <<y, x>> \notin R
  BY <1>1, WFMin
<1>4. \A y \in S : x <= y
  <2> SUFFICES ASSUME NEW y \in S PROVE x <= y
    OBVIOUS
  <2>1. ~(y < x)
    BY <1>2, <1>3
  <2> QED BY <2>1
<1> QED BY <1>4

-----------------------------------------------------------------------------
(* The operations of the looper map a looper to a looper.                  *)

\* The hook that a search of the array yields is in the array.
LEMMA FindInRange ==
    ASSUME NEW U, NEW l \in Loopers(U), NEW fd, Found(l, fd) # {}
    PROVE  Find(l, fd) \in 1..Len(l.hooks)
<1>1. l.hooks \in Seq(Hooks(U))
  BY DEF Loopers
<1>2. Found(l, fd) \in SUBSET Nat
  BY <1>1 DEF Found
<1>3. \E i \in Found(l, fd) : \A j \in Found(l, fd) : i <= j
  BY <1>2, LeastNatural
<1>4. Find(l, fd) \in Found(l, fd)
  BY <1>3 DEF Find
<1> QED BY <1>4 DEF Found

\* A descriptor that has a hook is one of the descriptors there are.
LEMMA FoundFd ==
    ASSUME NEW U, NEW l \in Loopers(U), NEW fd, Found(l, fd) # {}
    PROVE  fd \in Fds
<1>1. Find(l, fd) \in 1..Len(l.hooks)
  BY FindInRange
<1>2. PICK i \in 1..Len(l.hooks) : l.hooks[i].fd = fd
  BY DEF Found
<1>3. l.hooks \in Seq(Hooks(U))
  BY DEF Loopers
<1>4. l.hooks[i] \in Hooks(U)
  BY <1>2, <1>3
<1> QED BY <1>2, <1>4 DEF Hooks

LEMMA HookAt ==
    ASSUME NEW U, NEW l \in Loopers(U), NEW i \in 1..Len(l.hooks)
    PROVE  l.hooks[i] \in Hooks(U)
<1>1. l.hooks \in Seq(Hooks(U))
  BY DEF Loopers
<1> QED BY <1>1

\* Both parts of a looper are replaced.
LEMMA LooperOf ==
    ASSUME NEW U, NEW l \in Loopers(U), NEW hooks \in Seq(Hooks(U)),
           NEW fd \in Fds, NEW entry \in [ptr : Nat, wanted : SUBSET Events]
    PROVE  [hooks |-> hooks, epoll |-> [l.epoll EXCEPT ![fd] = entry]] \in Loopers(U)
BY DEF Loopers

LEMMA ModifyType ==
    ASSUME NEW U, NEW l \in Loopers(U), NEW fd \in Fds, NEW i \in Nat, NEW mask \in SUBSET Events
    PROVE  Modify(l, fd, i, mask) \in Loopers(U)
BY DEF Modify, Loopers

LEMMA SetWantedType ==
    ASSUME NEW U, NEW l \in Loopers(U), NEW fd \in Fds, NEW i \in 1..Len(l.hooks),
           NEW mask \in SUBSET Events
    PROVE  SetWanted(l, fd, i, mask) \in Loopers(U)
<1>1. l.hooks \in Seq(Hooks(U)) /\ i \in Nat
  BY DEF Loopers
<1>2. l.hooks[i] \in Hooks(U)
  BY <1>1
<1>3. [l.hooks[i] EXCEPT !.wanted = mask] \in Hooks(U)
  BY <1>2 DEF Hooks
<1>4. [l.hooks EXCEPT ![i] = [l.hooks[i] EXCEPT !.wanted = mask]] \in Seq(Hooks(U))
  BY <1>1, <1>3
<1>5. [l EXCEPT !.hooks[i].wanted = mask] \in Loopers(U)
  BY <1>4 DEF Loopers
<1> QED BY <1>1, <1>5, ModifyType DEF SetWanted

LEMMA EnableType ==
    ASSUME NEW U, NEW l \in Loopers(U), NEW fd, NEW event \in Events
    PROVE  Enable(l, fd, event) \in Loopers(U)
<1>1. CASE Found(l, fd) = {} \/ event \in l.hooks[Find(l, fd)].wanted
  BY <1>1 DEF Enable
<1>2. CASE ~(Found(l, fd) = {} \/ event \in l.hooks[Find(l, fd)].wanted)
  <2>1. fd \in Fds /\ Find(l, fd) \in 1..Len(l.hooks)
    BY <1>2, FindInRange, FoundFd
  <2>2. l.hooks[Find(l, fd)] \in Hooks(U)
    BY <2>1, HookAt
  <2>3. l.hooks[Find(l, fd)].wanted \cup {event} \in SUBSET Events
    BY <2>2 DEF Hooks
  <2> QED BY <1>2, <2>1, <2>3, SetWantedType DEF Enable
<1> QED BY <1>1, <1>2

LEMMA DisableType ==
    ASSUME NEW U, NEW l \in Loopers(U), NEW fd, NEW event \in Events
    PROVE  Disable(l, fd, event) \in Loopers(U)
<1>1. CASE Found(l, fd) = {} \/ event \notin l.hooks[Find(l, fd)].wanted
  BY <1>1 DEF Disable
<1>2. CASE ~(Found(l, fd) = {} \/ event \notin l.hooks[Find(l, fd)].wanted)
  <2>1. fd \in Fds /\ Find(l, fd) \in 1..Len(l.hooks)
    BY <1>2, FindInRange, FoundFd
  <2>2. l.hooks[Find(l, fd)] \in Hooks(U)
    BY <2>1, HookAt
  <2>3. l.hooks[Find(l, fd)].wanted \ {event} \in SUBSET Events
    BY <2>2 DEF Hooks
  <2> QED BY <1>2, <2>1, <2>3, SetWantedType DEF Disable
<1> QED BY <1>1, <1>2

LEMMA AddHookType ==
    ASSUME NEW U, NEW l \in Loopers(U), NEW fd \in Fds, NEW u \in U
    PROVE  AddHook(l, fd, u) \in Loopers(U)
<1> DEFINE h     == [fd |-> fd, user |-> u, wanted |-> {}, events |-> {}, state |-> "open"]
           hooks == Append(l.hooks, h)
           entry == [ptr |-> Len(l.hooks) + 1, wanted |-> {}]
<1>1. h \in Hooks(U)
  BY DEF Hooks
<1>2. l.hooks \in Seq(Hooks(U)) /\ Len(l.hooks) + 1 \in Nat
  BY DEF Loopers
<1>3. hooks \in Seq(Hooks(U))
  <2> HIDE DEF h
  <2> QED BY <1>1, <1>2
<1>4. entry \in [ptr : Nat, wanted : SUBSET Events]
  BY <1>2
<1>5. AddHook(l, fd, u) = [hooks |-> hooks, epoll |-> [l.epoll EXCEPT ![fd] = entry]]
  <2>1. AddHook(l, fd, u) = [l EXCEPT !.hooks = hooks, !.epoll[fd] = entry]
    BY DEF AddHook, Loopers
  <2> HIDE DEF hooks, entry
  <2> QED BY <2>1 DEF Loopers
<1> HIDE DEF hooks, entry
<1> QED BY <1>3, <1>4, <1>5, LooperOf

LEMMA DelType ==
    ASSUME NEW U, NEW l \in Loopers(U), NEW fd
    PROVE  Del(l, fd) \in Loopers(U)
<1>1. CASE Found(l, fd) = {}
  BY <1>1 DEF Del
<1>2. CASE Found(l, fd) # {}
  <2> DEFINE i == Find(l, fd)
  <2>1. fd \in Fds /\ i \in 1..Len(l.hooks) /\ l.hooks \in Seq(Hooks(U))
    BY <1>2, FindInRange, FoundFd DEF Loopers
  <2> HIDE DEF i
  <2>2. l.hooks[i] \in Hooks(U)
    BY <2>1, HookAt
  <2>3. [l.hooks[i] EXCEPT !.state = "closing"] \in Hooks(U)
    BY <2>2 DEF Hooks
  <2> DEFINE hooks == [l.hooks EXCEPT ![i] = [l.hooks[i] EXCEPT !.state = "closing"]]
  <2>4. hooks \in Seq(Hooks(U))
    BY <2>1, <2>3
  <2>5. NotWatched \in [ptr : Nat, wanted : SUBSET Events]
    BY DEF NotWatched
  <2>6. Del(l, fd) = [hooks |-> hooks, epoll |-> [l.epoll EXCEPT ![fd] = NotWatched]]
    BY <1>2 DEF Del, i, Loopers
  <2> HIDE DEF hooks
  <2> QED BY <2>1, <2>4, <2>5, <2>6, LooperOf
<1> QED BY <1>1, <1>2

LEMMA UnmarkType ==
    ASSUME NEW U, NEW l \in Loopers(U), NEW i \in 1..Len(l.hooks)
    PROVE  Unmark(l, i) \in Loopers(U)
<1>1. l.hooks \in Seq(Hooks(U))
  BY DEF Loopers
<1>2. l.hooks[i] \in Hooks(U)
  BY HookAt
<1>3. [l.hooks[i] EXCEPT !.events = {}] \in Hooks(U)
  BY <1>2 DEF Hooks
<1>4. [l.hooks EXCEPT ![i] = [l.hooks[i] EXCEPT !.events = {}]] \in Seq(Hooks(U))
  BY <1>1, <1>3
<1> QED BY <1>4 DEF Unmark, Loopers

\* The hooks differ from what they were in the events only, and these are events.
LEMMA MarkedType ==
    ASSUME NEW U, NEW l \in Loopers(U), NEW ready, \A f \in Fds : ready[f] \subseteq Events,
           NEW m \in Marked(l, ready)
    PROVE  m \in Loopers(U)
<1>1. l.hooks \in Seq(Hooks(U))
  BY DEF Loopers
<1>2. PICK last \in [1..Len(l.hooks) -> Fds] :
        m = [l EXCEPT !.hooks = [i \in 1..Len(l.hooks) |-> [l.hooks[i] EXCEPT
                !.events = IF Pointing(l, ready, i) = {} THEN {}
                           ELSE Reported(l, last[i], ready[last[i]])]]]
  BY DEF Marked, Loopers
<1> DEFINE ev(i) == IF Pointing(l, ready, i) = {} THEN {}
                    ELSE Reported(l, last[i], ready[last[i]])
<1>3. \A i \in 1..Len(l.hooks) : ev(i) \in SUBSET Events
  BY DEF Reported
<1>4. \A i \in 1..Len(l.hooks) : l.hooks[i] \in Hooks(U)
  BY <1>1
<1>5. m = [l EXCEPT !.hooks = [i \in 1..Len(l.hooks) |-> [l.hooks[i] EXCEPT !.events = ev(i)]]]
  BY <1>2
<1> HIDE DEF ev
<1>6. \A i \in 1..Len(l.hooks) : [l.hooks[i] EXCEPT !.events = ev(i)] \in Hooks(U)
  BY <1>3, <1>4 DEF Hooks
<1>7. [i \in 1..Len(l.hooks) |-> [l.hooks[i] EXCEPT !.events = ev(i)]] \in Seq(Hooks(U))
  BY <1>1, <1>6
<1> QED BY <1>5, <1>7 DEF Loopers

LEMMA SweepType ==
    ASSUME NEW U, NEW l \in Loopers(U), ClosingHooks(l) # {}
    PROVE  Sweep(l) \in Loopers(U)
<1>1. l.hooks \in Seq(Hooks(U))
  BY DEF Loopers
<1>2. FirstClosing(l) \in 1..Len(l.hooks)
  <2>1. ClosingHooks(l) \in SUBSET Nat
    BY <1>1 DEF ClosingHooks
  <2>2. \E i \in ClosingHooks(l) : \A j \in ClosingHooks(l) : i <= j
    BY <2>1, LeastNatural
  <2>3. FirstClosing(l) \in ClosingHooks(l)
    BY <2>2 DEF FirstClosing
  <2> QED BY <2>3 DEF ClosingHooks
<1>3. LastHook(l) \in Hooks(U)
  BY <1>1, <1>2 DEF LastHook
<1>4. Moved(l) \in Loopers(U)
  <2> DEFINE hooks == [l.hooks EXCEPT ![FirstClosing(l)] = LastHook(l)]
  <2>1. hooks \in Seq(Hooks(U)) /\ Len(hooks) = Len(l.hooks)
    BY <1>1, <1>2, <1>3
  <2> HIDE DEF hooks
  <2>2. Len(l.hooks) \in Nat /\ Len(l.hooks) >= 1
    BY <1>1, <1>2
  <2>3. SubSeq(hooks, 1, Len(l.hooks) - 1) \in Seq(Hooks(U))
    BY <2>1, <2>2
  <2>4. Moved(l) = [l EXCEPT !.hooks = SubSeq(hooks, 1, Len(l.hooks) - 1)]
    BY DEF Moved, hooks, Loopers
  <2> QED BY <2>3, <2>4 DEF Loopers
<1>5. LastHook(l).fd \in Fds /\ LastHook(l).wanted \in SUBSET Events
  BY <1>3 DEF Hooks
<1> QED BY <1>2, <1>4, <1>5, ModifyType DEF Sweep

-----------------------------------------------------------------------------
(* The operations of a connection map a connection to a connection.        *)

LEMMA ConnectionType ==
    ASSUME NEW r \in Conns, NEW state \in {"none", "live", "closing", "freed"},
           NEW ch \in 0..Channels, NEW registered \in {0, 1}, NEW out \in Seq(ToClient)
    PROVE  Connection(state, r.fd, ch, registered, out) \in Conns
BY DEF Connection, Conns

LEMMA NoChannelType == NoChannel \in 0..Channels
BY QemudAssumption DEF NoChannel

LEMMA ClosedType ==
    ASSUME NEW r \in Conns
    PROVE  Closed(r) \in Conns
<1>1. <<>> \in Seq(ToClient)
  OBVIOUS
<1> QED BY <1>1, NoChannelType, ConnectionType DEF Closed

LEMMA ClientFreeType ==
    ASSUME NEW r \in Conns
    PROVE  ClientFree(r) \in Conns
<1>1. r.out \in Seq(ToClient)
  BY DEF Conns
<1> QED BY <1>1, NoChannelType, ConnectionType, ClosedType DEF ClientFree

LEMMA EnqueueType ==
    ASSUME NEW q \in Seq(ToClient), NEW p \in ToClient
    PROVE  Enqueue(q, p) \in Seq(ToClient)
BY DEF Enqueue

LEMMA ClientRegistrationType ==
    ASSUME NEW r \in Conns, NEW m \in ToClient
    PROVE  ClientRegistration(r, m) \in Conns
<1>1. Enqueue(r.out, m) \in Seq(ToClient)
  BY EnqueueType DEF Conns
<1>2. r.state \in {"none", "live", "closing", "freed"} /\ r.channel \in 0..Channels
  BY DEF Conns
<1> QED BY <1>1, <1>2, NoChannelType, ConnectionType DEF ClientRegistration

LEMMA AfterType ==
    ASSUME NEW r \in Conns, NEW m \in FromEmulator
    PROVE  After(r, m) \in Conns
<1>1. CASE m.kind = "disconnect"
  BY <1>1, ClientFreeType DEF After
<1>2. CASE m.kind \in {"OK", "KO", "data"}
  <2>1. m \in ToClient
    BY <1>2 DEF FromEmulator, ToClient, MessagesOf
  <2>2. CASE m.kind = "data"
    <3>1. Enqueue(r.out, m) \in Seq(ToClient)
      BY <2>1, EnqueueType DEF Conns
    <3>2. [r EXCEPT !.out = Enqueue(r.out, m)] \in Conns
      BY <3>1 DEF Conns
    <3>3. After(r, m) = [r EXCEPT !.out = Enqueue(r.out, m)]
      BY <2>2 DEF After, Conns
    <3> QED BY <3>2, <3>3
  <2>3. CASE m.kind \in {"OK", "KO"}
    BY <2>1, <2>3, ClientRegistrationType DEF After
  <2> QED BY <1>2, <2>2, <2>3
<1> QED BY <1>1, <1>2 DEF FromEmulator, MessagesOf

\* The channel found is one that no client has.
LEMMA ChannelIsNew ==
    ASSUME last_channel \in Nat, \E k \in 1..Channels : ChannelFound(k)
    PROVE  /\ Tries \in 1..Channels
           /\ NewChannel \in 0..(Channels - 1)
           /\ NewChannel \notin TakenChannels
<1> DEFINE S == {k \in 1..Channels : ChannelFound(k)}
<1>1. S \in SUBSET Nat /\ S # {}
  OBVIOUS
<1>2. PICK k \in S : \A j \in S : k <= j
  BY <1>1, LeastNatural
<1>3. k \in 1..Channels /\ ChannelFound(k) /\ \A j \in 1..(k - 1) : ~ChannelFound(j)
  BY <1>2, QemudAssumption
<1>4. Tries \in 1..Channels /\ ChannelFound(Tries)
  BY <1>3 DEF Tries
<1>5. last_channel + Tries \in Nat
  BY <1>4, QemudAssumption
<1>6. NewChannel \in 0..(Channels - 1)
  BY <1>5, QemudAssumption DEF NewChannel
<1> QED BY <1>4, <1>6 DEF NewChannel, ChannelFound

LEMMA LooperAfterType ==
    ASSUME NEW l \in Loopers(Clients), NEW c, NEW r
    PROVE  LooperAfter(l, c, r) \in Loopers(Clients)
BY DelType, EnableType, DisableType DEF LooperAfter, Events

LEMMA ClientReceiveType ==
    ASSUME NEW c \in Clients, NEW r \in Conns, NEW m \in FromClient, last_channel \in Nat,
           Opens(r) => \E k \in 1..Channels : ChannelFound(k)
    PROVE  /\ ClientReceive(r, c, m).r \in Conns
           /\ ClientReceive(r, c, m).send \in Seq(ToEmulator)
<1>1. CASE r.registered = 1
  <2>1. Message("data", r.channel, c, m.number) \in ToEmulator
    BY DEF Message, ToEmulator, FromClient, MessagesOf, Conns
  <2>2. ClientReceive(r, c, m) = [r |-> r, send |-> <<Message("data", r.channel, c, m.number)>>]
    BY <1>1 DEF ClientReceive, BadClient, Waits, Opens
  <2> QED BY <2>1, <2>2
<1>2. CASE r.registered = 0 /\ BadClient(r, m)
  <2>1. ClientReceive(r, c, m) = [r |-> ClientFree(r), send |-> <<>>]
    BY <1>2 DEF ClientReceive, BadClient, Opens
  <2> QED BY <2>1, ClientFreeType
<1>3. CASE r.registered = 0 /\ ~BadClient(r, m)
  <2>1. Opens(r)
    BY <1>3 DEF BadClient, Opens
  <2>2. NewChannel \in 0..(Channels - 1)
    BY <2>1, ChannelIsNew
  <2>3. NewChannel \in 0..Channels
    BY <2>2, QemudAssumption
  <2>4. Message("connect", NewChannel, c, 0) \in ToEmulator
    BY <2>3 DEF Message, ToEmulator, MessagesOf
  <2>5. [r EXCEPT !.channel = NewChannel] \in Conns
    BY <2>3 DEF Conns
  <2>6. ClientReceive(r, c, m) = [r |-> [r EXCEPT !.channel = NewChannel],
                                  send |-> <<Message("connect", NewChannel, c, 0)>>]
    BY <1>3, <2>1 DEF ClientReceive, BadClient
  <2> QED BY <2>4, <2>5, <2>6
<1> QED BY <1>1, <1>2, <1>3 DEF Conns

\* A connection is replaced by a connection.
LEMMA UpdateType ==
    ASSUME TypeOK, NEW c \in Clients, NEW r \in Conns, NEW unread \in Seq(FromClient),
           Update(c, r, unread)
    PROVE  conn' \in [Clients -> Conns] /\ inbox' \in [Clients -> Seq(FromClient)]
<1>1. [r EXCEPT !.fd = 0] \in Conns
  BY DEF Conns
<1>2. conn \in [Clients -> Conns] /\ inbox \in [Clients -> Seq(FromClient)]
  BY DEF TypeOK
<1>3. <<>> \in Seq(FromClient)
  OBVIOUS
<1> QED BY <1>1, <1>2, <1>3 DEF Update

-----------------------------------------------------------------------------
(* The type invariant, with what a marked hook of the serial port or of    *)
(* the control socket says.                                                *)

TypeInv ==
    /\ TypeOK
    /\ serialPending => fromEmulator # <<>>
    /\ acceptPending => backlog # <<>>

\* What the hook that is due is.
LEMMA DueType ==
    ASSUME TypeOK, HookDue
    PROVE  /\ NextPending(looper) \in 1..Len(looper.hooks)
           /\ DueHook \in Hooks(Clients)
           /\ Due \in Clients
           /\ Unmarked \in Loopers(Clients)
<1>1. looper \in Loopers(Clients) /\ PendingHooks(looper) # {}
  BY DEF TypeOK, HookDue
<1>2. NextPending(looper) \in 1..Len(looper.hooks)
  <2>1. looper.hooks \in Seq(Hooks(Clients))
    BY <1>1 DEF Loopers
  <2>2. PendingHooks(looper) \in SUBSET Nat
    BY <2>1 DEF PendingHooks
  <2>3. \E i \in PendingHooks(looper) : \A j \in PendingHooks(looper) : i <= j
    BY <1>1, <2>2, LeastNatural
  <2>4. NextPending(looper) \in PendingHooks(looper)
    BY <2>3 DEF NextPending
  <2> QED BY <2>4 DEF PendingHooks
<1>3. DueHook \in Hooks(Clients)
  BY <1>1, <1>2, HookAt DEF DueHook
<1>4. Due \in Clients
  BY <1>3 DEF Due, Hooks
<1>5. Unmarked \in Loopers(Clients)
  BY <1>1, <1>2, UnmarkType DEF Unmarked
<1> QED BY <1>2, <1>3, <1>4, <1>5

\* What a read of the connection that is due makes of it.
LEMMA AfterReadType ==
    ASSUME TypeOK, HookDue, Read(Due)
    PROVE  /\ AfterRead(Due).r \in Conns
           /\ AfterRead(Due).send \in Seq(ToEmulator)
           /\ Unread(Due) \in Seq(FromClient)
           /\ last_channel' \in Nat
           /\ expelled' \subseteq Clients
<1> DEFINE c == Due
<1>1. c \in Clients
  BY DueType
<1> HIDE DEF c
<1>2. conn[c] \in Conns /\ inbox[c] \in Seq(FromClient) /\ last_channel \in Nat
      /\ expelled \subseteq Clients
  BY <1>1 DEF TypeOK
<1>3. CASE HasData(c)
  <2>1. inbox[c] # <<>> /\ (Opens(conn[c]) => \E k \in 1..Channels : ChannelFound(k))
    BY <1>3 DEF HasData, Read, c
  <2>2. Head(inbox[c]) \in FromClient /\ Tail(inbox[c]) \in Seq(FromClient)
    BY <1>2, <2>1
  <2>3. /\ AfterRead(c).r \in Conns
        /\ AfterRead(c).send \in Seq(ToEmulator)
    BY <1>1, <1>2, <1>3, <2>1, <2>2, ClientReceiveType DEF AfterRead
  <2>4. last_channel' \in Nat
    <3>1. CASE Opens(conn[c])
      <4>1. Tries \in 1..Channels
        BY <1>2, <2>1, <3>1, ChannelIsNew
      <4> QED BY <1>2, <1>3, <3>1, <4>1, QemudAssumption DEF Read, c
    <3>2. CASE ~Opens(conn[c])
      BY <1>2, <3>2 DEF Read, c
    <3> QED BY <3>1, <3>2
  <2> QED BY <1>1, <1>2, <1>3, <2>2, <2>3, <2>4 DEF Read, Unread, c
<1>4. CASE ~HasData(c)
  <2>1. <<>> \in Seq(ToEmulator)
    OBVIOUS
  <2> QED BY <1>2, <1>4, <2>1 DEF Read, Unread, AfterRead, c
<1> QED BY <1>3, <1>4

\* What has been written to the clients, with one packet more.
LEMMA GetsType ==
    ASSUME TypeOK, NEW c \in Clients, NEW p, Gets(c, p)
    PROVE  /\ answers' \in [Clients -> Seq(Answer)] /\ received' \in [Clients -> Seq(Data)]
           /\ asked' \subseteq asked
<1>0. answers \in [Clients -> Seq(Answer)] /\ received \in [Clients -> Seq(Data)]
  BY DEF TypeOK
<1>1. CASE p \in Answer /\ answers' = [answers EXCEPT ![c] = Append(@, p)] /\ asked' = asked \ {c}
           /\ UNCHANGED received
  BY <1>0, <1>1
<1>2. CASE p \in Data /\ received' = [received EXCEPT ![c] = Append(@, p)]
           /\ UNCHANGED <<answers, asked>>
  BY <1>0, <1>2
<1> QED BY <1>1, <1>2 DEF Gets

\* Each step of the daemon keeps every variable in its type.
LEMMA DaemonType == TypeInv /\ Daemon => TypeInv'
<1> SUFFICES ASSUME TypeInv, Daemon PROVE TypeInv'
  OBVIOUS
<1> USE DEF daemonVars, lineVars, clientVars, emulatorVars
<1>0. TypeOK
  BY DEF TypeInv
<1>1. CASE EpollWait
  <2>1. \A fd \in Fds : [f \in Fds |-> ReadyFd(f)][fd] \subseteq Events
    BY DEF ReadyFd, Ready, Events
  <2>2. looper' \in Loopers(Clients)
    BY <1>0, <1>1, <2>1, MarkedType DEF EpollWait, TypeOK
  <2>3. serialPending' \in BOOLEAN /\ acceptPending' \in BOOLEAN
    BY <1>1, Zenon DEF EpollWait
  <2>4. TypeOK'
    BY <1>0, <1>1, <2>2, <2>3 DEF EpollWait, TypeOK
  <2> QED BY <1>1, <2>4 DEF EpollWait, TypeInv
<1>2. CASE SweepHooks
  <2>1. looper' \in Loopers(Clients)
    BY <1>0, <1>2, SweepType DEF SweepHooks, TypeOK
  <2>2. TypeOK'
    BY <1>0, <1>2, <2>1 DEF SweepHooks, TypeOK
  <2> QED BY <1>2, <2>2 DEF SweepHooks, TypeInv
<1>3. CASE SerialReceive
  <2> DEFINE m == Head(fromEmulator)
  <2>1. fromEmulator # <<>>
    BY <1>3 DEF SerialReceive, TypeInv
  <2>2. m \in FromEmulator /\ Tail(fromEmulator) \in Seq(FromEmulator)
    BY <1>0, <2>1 DEF TypeOK
  <2> HIDE DEF m
  <2>3. /\ conn' \in [Clients -> Conns]
        /\ inbox' \in [Clients -> Seq(FromClient)]
        /\ looper' \in Loopers(Clients)
    <3>1. CASE UNCHANGED <<conn, inbox, looper>>
      BY <1>0, <3>1 DEF TypeOK
    <3>2. ASSUME NEW c \in Addressed(m), Update(c, After(conn[c], m), inbox[c]),
                 looper' = LooperAfter(looper, c, After(conn[c], m))
          PROVE  /\ conn' \in [Clients -> Conns]
                 /\ inbox' \in [Clients -> Seq(FromClient)]
                 /\ looper' \in Loopers(Clients)
      <4>1. c \in Clients
        BY DEF Addressed, ClientsAt, LiveClients
      <4>2. conn[c] \in Conns /\ inbox[c] \in Seq(FromClient) /\ looper \in Loopers(Clients)
        BY <1>0, <4>1 DEF TypeOK
      <4>3. After(conn[c], m) \in Conns
        BY <2>2, <4>2, AfterType
      <4>4. conn' \in [Clients -> Conns] /\ inbox' \in [Clients -> Seq(FromClient)]
        BY <1>0, <3>2, <4>1, <4>2, <4>3, UpdateType
      <4>5. looper' \in Loopers(Clients)
        BY <3>2, <4>2, LooperAfterType
      <4> QED BY <4>4, <4>5
    <3> QED BY <1>3, <3>1, <3>2 DEF SerialReceive, m
  <2>4. serialPending' \in BOOLEAN /\ (serialPending' => fromEmulator' # <<>>)
    BY <1>3, Zenon DEF SerialReceive
  <2>5. fromEmulator' = Tail(fromEmulator) /\ fromEmulator' \in Seq(FromEmulator)
    BY <1>3, <2>2 DEF SerialReceive
  <2>6. TypeOK'
    BY <1>0, <1>3, <2>3, <2>4, <2>5 DEF SerialReceive, TypeOK
  <2> QED BY <1>3, <2>4, <2>6 DEF SerialReceive, TypeInv
<1>4. CASE Accept
  <2> DEFINE c == Head(backlog)
  <2>1. c \in Clients /\ Tail(backlog) \in Seq(Clients)
    BY <1>0, <1>4 DEF Accept, TypeInv, TypeOK
  <2>2. LowestFd \in Fds
    <3>1. FreeFds \in SUBSET Nat /\ FreeFds # {}
      BY <1>4, LooperAssumption DEF Accept, FreeFds
    <3>2. \E f \in FreeFds : \A g \in FreeFds : f <= g
      BY <3>1, LeastNatural
    <3>3. LowestFd \in FreeFds
      BY <3>2 DEF LowestFd
    <3> QED BY <3>3 DEF FreeFds
  <2> HIDE DEF c
  <2>3. Connection("live", LowestFd, NoChannel, 0, <<>>) \in Conns
    BY <2>2, NoChannelType DEF Connection, Conns
  <2>4. conn' \in [Clients -> Conns]
    BY <1>0, <1>4, <2>3 DEF Accept, TypeOK
  <2>5. looper' \in Loopers(Clients)
    <3>1. AddHook(looper, LowestFd, c) \in Loopers(Clients)
      BY <1>0, <2>1, <2>2, AddHookType DEF TypeOK
    <3> QED BY <1>4, <3>1, EnableType DEF Accept, c, Events
  <2>6. acceptPending' = FALSE /\ acceptPending' \in BOOLEAN
    BY <1>4, Zenon DEF Accept
  <2>7. TypeOK'
    BY <1>0, <1>4, <2>1, <2>4, <2>5, <2>6 DEF Accept, TypeOK
  <2> QED BY <1>4, <2>6, <2>7 DEF Accept, TypeInv
<1>5. CASE CallWild
  <2>1. TypeOK'
    BY <1>0, <1>5 DEF CallWild, TypeOK
  <2> QED BY <1>5, <2>1 DEF CallWild, TypeInv
<1>6. CASE CallKilled
  <2>1. TypeOK'
    BY <1>0, <1>6 DEF CallKilled, TypeOK
  <2> QED BY <1>6, <2>1 DEF CallKilled, TypeInv
<1>7. CASE CallHangUp
  <2>1. HookDue /\ Read(Due)
    BY <1>7 DEF CallHangUp
  <2>2. /\ AfterRead(Due).r \in Conns
        /\ AfterRead(Due).send \in Seq(ToEmulator)
        /\ Unread(Due) \in Seq(FromClient)
        /\ last_channel' \in Nat
        /\ expelled' \subseteq Clients
    BY <1>0, <2>1, AfterReadType
  <2>3. Due \in Clients /\ Unmarked \in Loopers(Clients)
    BY <1>0, <2>1, DueType
  <2>4. conn' \in [Clients -> Conns] /\ inbox' \in [Clients -> Seq(FromClient)]
    BY <1>0, <1>7, <2>2, <2>3, ClosedType, UpdateType DEF CallHangUp
  <2>5. looper' \in Loopers(Clients)
    BY <1>7, <2>3, DelType DEF CallHangUp
  <2>6. CloseNotice(AfterRead(Due).r, Due) \in Seq(ToEmulator)
    <3> DEFINE r == AfterRead(Due).r
    <3> HIDE DEF r
    <3>1. r \in Conns
      BY <2>2 DEF r
    <3>2. Message("disconnect", r.channel, Due, 0) \in ToEmulator
      BY <2>3, <3>1 DEF Message, ToEmulator, MessagesOf, Conns
    <3>3. CloseNotice(r, Due) \in Seq(ToEmulator)
      BY <3>2 DEF CloseNotice
    <3> QED BY <3>3 DEF r
  <2>7. toEmulator' \in Seq(ToEmulator)
    BY <1>0, <1>7, <2>2, <2>6 DEF CallHangUp, TypeOK
  <2>8. TypeOK'
    BY <1>0, <1>7, <2>2, <2>4, <2>5, <2>7 DEF CallHangUp, TypeOK
  <2> QED BY <1>7, <2>8 DEF CallHangUp, TypeInv
<1>8. CASE CallReadWrite
  <2> DEFINE a == AfterRead(Due)
             r == IF Writes(Due) THEN [a.r EXCEPT !.out = Tail(@)] ELSE a.r
  <2>1. HookDue /\ Read(Due)
    BY <1>8 DEF CallReadWrite
  <2>2. /\ a.r \in Conns
        /\ a.send \in Seq(ToEmulator)
        /\ Unread(Due) \in Seq(FromClient)
        /\ last_channel' \in Nat
        /\ expelled' \subseteq Clients
    BY <1>0, <2>1, AfterReadType
  <2>3. Due \in Clients /\ Unmarked \in Loopers(Clients)
    BY <1>0, <2>1, DueType
  <2>4. Update(Due, r, Unread(Due)) /\ looper' = LooperAfter(Unmarked, Due, r)
        /\ toEmulator' = toEmulator \o a.send
    BY <1>8 DEF CallReadWrite
  <2>5. Writes(Due) => a.r.out # <<>>
    BY DEF Writes
  <2> HIDE DEF a
  <2>6. a.r.out \in Seq(ToClient)
    BY <2>2 DEF Conns
  <2>7. r \in Conns
    <3>1. CASE Writes(Due)
      <4>1. Tail(a.r.out) \in Seq(ToClient)
        BY <2>5, <2>6, <3>1
      <4>2. [a.r EXCEPT !.out = Tail(a.r.out)] \in Conns
        BY <2>2, <4>1 DEF Conns
      <4> QED BY <3>1, <4>2
    <3>2. CASE ~Writes(Due)
      BY <2>2, <3>2
    <3> QED BY <3>1, <3>2
  <2>8. /\ answers' \in [Clients -> Seq(Answer)] /\ received' \in [Clients -> Seq(Data)]
        /\ asked' \subseteq asked
    <3>1. Gets(Due, Head(a.r.out)) \/ UNCHANGED <<asked, answers, received>>
      BY <1>8 DEF CallReadWrite, a
    <3> QED BY <1>0, <2>3, <3>1, GetsType DEF TypeOK
  <2> HIDE DEF r
  <2>9. conn' \in [Clients -> Conns] /\ inbox' \in [Clients -> Seq(FromClient)]
    BY <1>0, <2>2, <2>3, <2>4, <2>7, UpdateType
  <2>10. looper' \in Loopers(Clients)
    BY <2>3, <2>4, LooperAfterType
  <2>11. toEmulator' \in Seq(ToEmulator)
    BY <1>0, <2>2, <2>4 DEF TypeOK
  <2>12. TypeOK'
    BY <1>0, <1>8, <2>2, <2>4, <2>8, <2>9, <2>10, <2>11 DEF CallReadWrite, TypeOK
  <2> QED BY <1>8, <2>12 DEF CallReadWrite, TypeInv
<1> QED BY <1>1, <1>2, <1>3, <1>4, <1>5, <1>6, <1>7, <1>8 DEF Daemon

\* What is appended to is not empty.
LEMMA AppendType ==
    ASSUME NEW S, NEW s \in Seq(S), NEW e \in S
    PROVE  Append(s, e) \in Seq(S) /\ Append(s, e) # <<>>
<1>1. Len(Append(s, e)) = Len(s) + 1 /\ Len(s) \in Nat
  OBVIOUS
<1>2. Len(Append(s, e)) # 0
  BY <1>1
<1> QED BY SMTT(30), <1>2

\* So does each step of a client.
LEMMA ClientStepType == TypeInv /\ ClientStep => TypeInv'
<1> SUFFICES ASSUME TypeInv, NEW c \in Clients,
                    Connect(c) \/ Ask(c) \/ Write(c) \/ HangUp(c)
             PROVE  TypeInv'
  BY DEF ClientStep
<1> USE DEF daemonVars, lineVars, clientVars, emulatorVars
<1>0. TypeOK
  BY DEF TypeInv
<1>1. CASE Connect(c)
  <2>1. backlog' \in Seq(Clients) /\ backlog' # <<>>
    BY <1>0, <1>1, AppendType DEF Connect, TypeOK
  <2>2. TypeOK'
    BY <1>0, <1>1, <2>1 DEF Connect, TypeOK
  <2> QED BY <1>1, <2>1, <2>2 DEF Connect, TypeInv
<1>2. CASE Ask(c)
  <2>1. PICK kind \in {"name", "longName"} :
            inbox' = [inbox EXCEPT ![c] = Append(@, Message(kind, NoChannel, c, 0))]
    BY <1>2 DEF Ask
  <2>a. Message(kind, NoChannel, c, 0) \in FromClient
    BY NoChannelType DEF Message, FromClient, MessagesOf
  <2>2. inbox' \in [Clients -> Seq(FromClient)]
    BY <1>0, <2>1, <2>a DEF TypeOK
  <2>3. TypeOK'
    BY <1>0, <1>2, <2>2 DEF Ask, TypeOK
  <2> QED BY <1>2, <2>3 DEF Ask, TypeInv
<1>3. CASE Write(c)
  <2>1. written[c] + 1 \in Nat
    BY <1>0 DEF TypeOK
  <2>2. Message("data", NoChannel, c, written[c] + 1) \in FromClient
    BY <2>1, NoChannelType DEF Message, FromClient, MessagesOf
  <2>3. inbox' \in [Clients -> Seq(FromClient)] /\ written' \in [Clients -> Nat]
    BY <1>0, <1>3, <2>1, <2>2 DEF Write, TypeOK
  <2>4. TypeOK'
    BY <1>0, <1>3, <2>3 DEF Write, TypeOK
  <2> QED BY <1>3, <2>4 DEF Write, TypeInv
<1>4. CASE HangUp(c)
  <2>1. TypeOK'
    BY <1>0, <1>4 DEF HangUp, TypeOK
  <2> QED BY <1>4, <2>1 DEF HangUp, TypeInv
<1> QED BY <1>1, <1>2, <1>3, <1>4

\* And so does each step of the emulator.
LEMMA EmulatorStepType == TypeInv /\ EmulatorStep => TypeInv'
<1> SUFFICES ASSUME TypeInv, EmulatorStep PROVE TypeInv'
  OBVIOUS
<1> USE DEF daemonVars, lineVars, clientVars, emulatorVars
<1>0. TypeOK
  BY DEF TypeInv
<1>1. CASE EmulatorReceive
  <2> DEFINE m == Head(toEmulator)
  <2>1. m \in ToEmulator /\ Tail(toEmulator) \in Seq(ToEmulator)
    BY <1>0, <1>1 DEF EmulatorReceive, TypeOK
  <2> HIDE DEF m
  <2>2. m.channel \in 0..Channels /\ m.client \in Clients \cup {NoClient}
    BY <2>1 DEF ToEmulator, MessagesOf
  <2>3. emulator' \in [0..Channels -> Clients \cup {NoClient}]
    BY <1>0, <1>1, <2>2 DEF EmulatorReceive, TypeOK, m
  <2>4. \A kind \in {"OK", "KO"} : [m EXCEPT !.kind = kind] \in FromEmulator
    BY <2>1 DEF ToEmulator, FromEmulator, MessagesOf
  <2>5. \/ fromEmulator' = fromEmulator
        \/ \E kind \in {"OK", "KO"} :
             fromEmulator' = Append(fromEmulator, [m EXCEPT !.kind = kind])
    BY <1>1 DEF EmulatorReceive, Answered, m
  <2>6. /\ fromEmulator' \in Seq(FromEmulator)
        /\ fromEmulator # <<>> => fromEmulator' # <<>>
    <3>1. fromEmulator \in Seq(FromEmulator)
      BY <1>0 DEF TypeOK
    <3>2. ASSUME NEW kind \in {"OK", "KO"},
                 fromEmulator' = Append(fromEmulator, [m EXCEPT !.kind = kind])
          PROVE  fromEmulator' \in Seq(FromEmulator) /\ fromEmulator' # <<>>
      <4> DEFINE answer == [m EXCEPT !.kind = kind]
      <4>1. answer \in FromEmulator /\ fromEmulator' = Append(fromEmulator, answer)
        BY <2>4, <3>2
      <4> HIDE DEF answer
      <4> QED BY <3>1, <4>1, AppendType
    <3> QED BY <2>5, <3>1, <3>2
  <2>7. TypeOK'
    BY <1>0, <1>1, <2>1, <2>3, <2>6 DEF EmulatorReceive, TypeOK, m
  <2> QED BY <1>1, <2>6, <2>7 DEF EmulatorReceive, TypeInv
<1>2. ASSUME NEW ch \in 0..(Channels - 1), EmulatorSend(ch) PROVE TypeInv'
  <2>1. ch \in 0..Channels /\ emulator[ch] \in Clients
    BY <1>0, <1>2, QemudAssumption DEF EmulatorSend, TypeOK
  <2>2. emulatorSent[emulator[ch]] + 1 \in Nat
    BY <1>0, <2>1 DEF TypeOK
  <2>3. Message("data", ch, emulator[ch], emulatorSent[emulator[ch]] + 1) \in FromEmulator
    BY <2>1, <2>2 DEF Message, FromEmulator, MessagesOf
  <2>4. fromEmulator' \in Seq(FromEmulator) /\ fromEmulator' # <<>>
    BY <1>0, <1>2, <2>3, AppendType DEF EmulatorSend, TypeOK
  <2>5. emulatorSent' \in [Clients -> Nat]
    BY <1>0, <1>2, <2>2 DEF EmulatorSend, TypeOK
  <2>6. TypeOK'
    BY <1>0, <1>2, <2>4, <2>5 DEF EmulatorSend, TypeOK
  <2> QED BY <1>2, <2>4, <2>6 DEF EmulatorSend, TypeInv
<1>3. ASSUME NEW ch \in 0..(Channels - 1), EmulatorDisconnect(ch) PROVE TypeInv'
  <2>1. ch \in 0..Channels /\ emulator[ch] \in Clients
    BY <1>0, <1>3, QemudAssumption DEF EmulatorDisconnect, TypeOK
  <2>2. Message("disconnect", ch, emulator[ch], 0) \in FromEmulator
    BY <2>1 DEF Message, FromEmulator, MessagesOf
  <2>3. fromEmulator' \in Seq(FromEmulator) /\ fromEmulator' # <<>>
    BY <1>0, <1>3, <2>2, AppendType DEF EmulatorDisconnect, TypeOK
  <2>4. emulator' \in [0..Channels -> Clients \cup {NoClient}]
    BY <1>0, <1>3, <2>1 DEF EmulatorDisconnect, TypeOK
  <2>5. TypeOK'
    BY <1>0, <1>3, <2>3, <2>4 DEF EmulatorDisconnect, TypeOK
  <2> QED BY <1>3, <2>3, <2>5 DEF EmulatorDisconnect, TypeInv
<1> QED BY <1>1, <1>2, <1>3 DEF EmulatorStep

LEMMA TypeInductive == TypeInv /\ [Next]_vars => TypeInv'
<1>1. ASSUME TypeInv, UNCHANGED vars PROVE TypeInv'
  <2>1. UNCHANGED <<last_channel, conn, looper, serialPending, acceptPending, fate, expelled>>
    BY <1>1 DEF vars, daemonVars
  <2>2. UNCHANGED <<toEmulator, fromEmulator, emulator, emulatorSent>>
    BY <1>1 DEF vars, lineVars, emulatorVars
  <2>3. UNCHANGED <<backlog, inbox, asked, hungUp, answers, received, written>>
    BY <1>1 DEF vars, clientVars
  <2> QED BY <1>1, <2>1, <2>2, <2>3 DEF TypeInv, TypeOK
<1> QED BY <1>1, DaemonType, ClientStepType, EmulatorStepType DEF Next

LEMMA TypeInitially == Init => TypeInv
<1> SUFFICES ASSUME Init PROVE TypeInv
  OBVIOUS
<1>1. NewConn \in Conns
  BY NoChannelType DEF NewConn, Connection, Conns
<1>2. looper \in Loopers(Clients)
  <2>1. NotWatched \in [ptr : Nat, wanted : SUBSET Events] /\ <<>> \in Seq(Hooks(Clients))
    BY DEF NotWatched
  <2> QED BY <2>1 DEF Init, NewLooper, Loopers
<1>3. serialPending \in BOOLEAN /\ acceptPending \in BOOLEAN
      /\ ~serialPending /\ ~acceptPending
  BY Zenon DEF Init
<1>4. /\ conn \in [Clients -> Conns] /\ inbox \in [Clients -> Seq(FromClient)]
      /\ answers \in [Clients -> Seq(Answer)] /\ received \in [Clients -> Seq(Data)]
      /\ toEmulator \in Seq(ToEmulator) /\ fromEmulator \in Seq(FromEmulator)
      /\ backlog \in Seq(Clients)
  BY <1>1 DEF Init
<1>5. /\ last_channel \in Nat /\ fate \in {"runs", "wild", "killed"}
      /\ asked \subseteq Clients /\ hungUp \subseteq Clients /\ expelled \subseteq Clients
      /\ written \in [Clients -> Nat] /\ emulatorSent \in [Clients -> Nat]
      /\ emulator \in [0..Channels -> Clients \cup {NoClient}]
  BY DEF Init
<1>6. TypeOK
  BY <1>2, <1>3, <1>4, <1>5, Zenon DEF TypeOK
<1> QED BY <1>3, <1>6 DEF TypeInv

\* Every variable keeps to its type. In particular the daemon puts nothing on the line
\* but requests, disconnections and data on channels that fit the header, and queues
\* nothing for a client but answers and data.
THEOREM TypeCorrect == Spec => []TypeOK
<1>1. TypeInv => TypeOK
  BY DEF TypeInv
<1> QED BY <1>1, TypeInitially, TypeInductive, PTL DEF Spec

-----------------------------------------------------------------------------
(* The channels.                                                           *)

\* The steps that do not touch the connections.
LEMMA UniqueFrame == UniqueChannels /\ conn' = conn => UniqueChannels'
BY DEF UniqueChannels, LiveClients

\* A connection whose channel stays as it is, or is given up, or is one that no other
\* client has, leaves the channels distinct.
LEMMA UniqueUpdate ==
    ASSUME TypeOK, UniqueChannels, NEW c \in Clients, NEW r \in Conns,
           conn' = [conn EXCEPT ![c] = r],
           \/ r.state # "live"
           \/ r.channel = NoChannel
           \/ conn[c].state = "live" /\ r.channel = conn[c].channel
           \/ r.channel \notin TakenChannels
    PROVE  UniqueChannels'
<1> SUFFICES ASSUME NEW d \in Clients, NEW e \in Clients, d # e,
                    conn'[d].state = "live", conn'[e].state = "live",
                    conn'[d].channel # NoChannel
             PROVE  conn'[d].channel # conn'[e].channel
  BY DEF UniqueChannels, LiveClients, NoChannel
<1>1. \A x \in Clients : conn'[x] = IF x = c THEN r ELSE conn[x]
  BY DEF TypeOK
<1>2. \A x \in Clients : conn[x].state = "live" => conn[x].channel \in TakenChannels
  BY DEF TakenChannels, LiveClients
<1> QED BY <1>1, <1>2 DEF UniqueChannels, LiveClients

\* No callback that reads gives a client the channel of another.
LEMMA UniqueRead ==
    ASSUME TypeOK, HookDue, Read(Due)
    PROVE  LET r == AfterRead(Due).r
           IN  \/ r.state # "live"
               \/ r.channel = NoChannel
               \/ conn[Due].state = "live" /\ r.channel = conn[Due].channel
               \/ r.channel \notin TakenChannels
<1> DEFINE c == Due
<1>1. c \in Clients
  BY DueType
<1> HIDE DEF c
<1>2. conn[c] \in Conns /\ last_channel \in Nat
  BY <1>1 DEF TypeOK
<1>3. CASE ~HasData(c)
  BY <1>3 DEF AfterRead, c
<1>4. CASE HasData(c)
  <2> DEFINE m == Head(inbox[c])
  <2>1. AfterRead(c) = ClientReceive(conn[c], c, m)
    BY <1>4 DEF AfterRead
  <2>2. CASE conn[c].registered = 1
    BY <2>1, <2>2 DEF ClientReceive, BadClient, Waits, Opens, c
  <2>3. CASE conn[c].registered = 0 /\ BadClient(conn[c], m)
    <3>1. AfterRead(c).r = ClientFree(conn[c])
      BY <2>1, <2>3 DEF ClientReceive, BadClient, Opens
    <3>2. AfterRead(c).r.state # "live"
      BY <3>1 DEF ClientFree, Closed, Connection
    <3> QED BY <3>2 DEF c
  <2>4. CASE conn[c].registered = 0 /\ ~BadClient(conn[c], m)
    <3>1. Opens(conn[c])
      BY <2>4 DEF BadClient, Opens
    <3>2. AfterRead(c).r = [conn[c] EXCEPT !.channel = NewChannel]
      BY <2>1, <2>4, <3>1 DEF ClientReceive, BadClient
    <3>3. AfterRead(c).r.channel = NewChannel
      BY <1>2, <3>2 DEF Conns
    <3>4. \E k \in 1..Channels : ChannelFound(k)
      BY <1>4, <3>1 DEF Read, c
    <3> QED BY <1>2, <3>3, <3>4, ChannelIsNew DEF c
  <2> QED BY <1>2, <2>2, <2>3, <2>4 DEF Conns
<1> QED BY <1>3, <1>4

\* No message from the emulator gives a client another channel.
LEMMA UniqueAfter ==
    ASSUME NEW r \in Conns, NEW m \in FromEmulator
    PROVE  \/ After(r, m).state # "live"
           \/ After(r, m).channel = NoChannel
           \/ r.state = "live" /\ After(r, m).channel = r.channel
<1>1. CASE m.kind = "disconnect"
  <2>1. After(r, m) = ClientFree(r)
    BY <1>1 DEF After
  <2> QED BY <2>1 DEF ClientFree, Closed, Connection
<1>2. CASE m.kind \in {"OK", "KO"}
  <2>1. After(r, m) = ClientRegistration(r, m)
    BY <1>2 DEF After
  <2> QED BY <2>1 DEF ClientRegistration, Connection
<1>3. CASE m.kind = "data"
  <2>1. After(r, m) = [r EXCEPT !.out = Enqueue(r.out, m)]
    BY <1>3 DEF After, Conns
  <2>2. After(r, m).state = r.state /\ After(r, m).channel = r.channel
    BY <2>1 DEF Conns
  <2> QED BY <2>2
<1> QED BY <1>1, <1>2, <1>3 DEF FromEmulator, MessagesOf

LEMMA UniqueInductive == TypeInv /\ UniqueChannels /\ [Next]_vars => UniqueChannels'
<1> SUFFICES ASSUME TypeInv, UniqueChannels, [Next]_vars PROVE UniqueChannels'
  OBVIOUS
<1> USE DEF daemonVars
<1>0. TypeOK
  BY DEF TypeInv
<1>1. CASE EpollWait \/ SweepHooks \/ CallWild \/ CallKilled
  BY <1>1, UniqueFrame DEF EpollWait, SweepHooks, CallWild, CallKilled
<1>2. CASE SerialReceive
  <2> DEFINE m == Head(fromEmulator)
  <2>1. m \in FromEmulator
    BY <1>0, <1>2 DEF SerialReceive, TypeInv, TypeOK
  <2> HIDE DEF m
  <2>2. CASE UNCHANGED conn
    BY <2>2, UniqueFrame
  <2>3. ASSUME NEW c \in Addressed(m), Update(c, After(conn[c], m), inbox[c])
        PROVE  UniqueChannels'
    <3>1. c \in Clients
      BY DEF Addressed, ClientsAt, LiveClients
    <3>2. conn[c] \in Conns
      BY <1>0, <3>1 DEF TypeOK
    <3> DEFINE r == IF After(conn[c], m).state = "freed" THEN [After(conn[c], m) EXCEPT !.fd = 0]
                                                        ELSE After(conn[c], m)
    <3>3. After(conn[c], m) \in Conns
      BY <2>1, <3>2, AfterType
    <3>4. r \in Conns /\ r.state = After(conn[c], m).state /\ r.channel = After(conn[c], m).channel
      BY <3>3 DEF Conns
    <3>5. conn' = [conn EXCEPT ![c] = r]
      BY <2>3 DEF Update
    <3> HIDE DEF r
    <3> QED BY <1>0, <2>1, <3>1, <3>2, <3>4, <3>5, UniqueAfter, UniqueUpdate
  <2> QED BY <1>2, <2>2, <2>3 DEF SerialReceive, m
<1>3. CASE Accept
  <2> DEFINE c == Head(backlog)
             r == Connection("live", LowestFd, NoChannel, 0, <<>>)
  <2>1. c \in Clients
    BY <1>0, <1>3 DEF Accept, TypeInv, TypeOK
  <2>2. r.state = "live" /\ r.channel = NoChannel
    BY DEF Connection
  <2>3. conn' = [conn EXCEPT ![c] = r]
    BY <1>3 DEF Accept
  <2>4. conn'[c] = r
    BY <1>0, <2>1, <2>3 DEF TypeOK
  <2>5. TypeOK'
    BY TypeInductive DEF TypeInv
  <2>6. r \in Conns
    BY <2>1, <2>4, <2>5 DEF TypeOK
  <2> HIDE DEF c, r
  <2> QED BY <1>0, <2>1, <2>2, <2>3, <2>6, UniqueUpdate
<1>4. CASE CallHangUp \/ CallReadWrite
  <2> DEFINE c == Due
             a == AfterRead(Due)
  <2>1. HookDue /\ Read(Due) /\ c \in Clients
    BY <1>0, <1>4, DueType DEF CallHangUp, CallReadWrite
  <2>2. \/ a.r.state # "live"
        \/ a.r.channel = NoChannel
        \/ conn[c].state = "live" /\ a.r.channel = conn[c].channel
        \/ a.r.channel \notin TakenChannels
    BY <1>0, <2>1, UniqueRead
  <2>3. TypeOK'
    BY TypeInductive DEF TypeInv
  <2>4. conn'[c] \in Conns
    BY <2>1, <2>3 DEF TypeOK
  <2>5. conn' = [conn EXCEPT ![c] = conn'[c]]
    BY <1>0, <1>4, <2>1 DEF CallHangUp, CallReadWrite, Update, TypeOK
  <2>6. a.r \in Conns
    BY <1>0, <2>1, AfterReadType
  <2>7. CASE CallHangUp
    <3>1. conn'[c] = [Closed(a.r) EXCEPT !.fd = 0]
      BY <1>0, <2>1, <2>7 DEF CallHangUp, Update, TypeOK, Closed, Connection
    <3>2. conn'[c].state # "live"
      BY <3>1 DEF Closed, Connection
    <3> HIDE DEF c
    <3> QED BY <1>0, <2>1, <2>4, <2>5, <3>2, UniqueUpdate
  <2>8. CASE CallReadWrite
    <3> DEFINE r == IF Writes(Due) THEN [a.r EXCEPT !.out = Tail(@)] ELSE a.r
    <3>1. conn'[c] = IF r.state = "freed" THEN [r EXCEPT !.fd = 0] ELSE r
      BY <1>0, <2>1, <2>8 DEF CallReadWrite, Update, TypeOK
    <3>2. r.state = a.r.state /\ r.channel = a.r.channel
      <4> HIDE DEF a
      <4> QED BY <2>6 DEF Conns
    <3>3. r.state = "freed" => conn'[c].state = "freed"
      <4>1. CASE Writes(Due)
        <5> HIDE DEF a
        <5> QED BY <2>6, <3>1, <4>1 DEF Conns
      <4>2. CASE ~Writes(Due)
        <5> HIDE DEF a
        <5> QED BY <2>6, <3>1, <4>2 DEF Conns
      <4> QED BY <4>1, <4>2
    <3> HIDE DEF r, a, c
    <3>4. \/ conn'[c].state # "live"
          \/ conn'[c].channel = NoChannel
          \/ conn[c].state = "live" /\ conn'[c].channel = conn[c].channel
          \/ conn'[c].channel \notin TakenChannels
      BY <2>2, <3>1, <3>2, <3>3
    <3> QED BY <1>0, <2>1, <2>4, <2>5, <3>4, UniqueUpdate
  <2> QED BY <1>4, <2>7, <2>8
<1>5. CASE ClientStep \/ EmulatorStep
  BY <1>5, UniqueFrame DEF ClientStep, Connect, Ask, Write, HangUp, EmulatorStep, EmulatorReceive,
              EmulatorSend, EmulatorDisconnect
<1>6. CASE UNCHANGED vars
  BY <1>6, UniqueFrame DEF vars
<1> QED BY <1>1, <1>2, <1>3, <1>4, <1>5, <1>6 DEF Next, Daemon

\* No two clients ever have the same channel, with any number of clients and channels
\* and also once the channel numbers have wrapped around.
THEOREM ChannelsUnique == Spec => []UniqueChannels
<1>1. Init => UniqueChannels
  BY DEF Init, UniqueChannels, LiveClients, NewConn, Connection
<1> QED BY <1>1, TypeInitially, TypeInductive, UniqueInductive, PTL DEF Spec
=============================================================================
