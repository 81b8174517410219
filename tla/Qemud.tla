-------------------------------- MODULE Qemud --------------------------------
(***************************************************************************)
(* The qemud daemon of the emulated system: qemud/qemud.c.                 *)
(*                                                                         *)
(* Clients connect to its socket and ask for a service by name.  The       *)
(* daemon gives each request a channel, passes it to the emulator over the *)
(* one serial line, and relays the answer, then the data in both           *)
(* directions.  It is a single thread that runs the callbacks of a Looper: *)
(* the serial port's first, then the control socket's, then the clients'.  *)
(*                                                                         *)
(* A message on the serial line is one packet with its header; what a read *)
(* of a client's socket returns is one message.  A message has, besides    *)
(* what is sent, the client it is about and its number: only the           *)
(* properties look at these.                                               *)
(*                                                                         *)
(* The clients and the emulator are not part of the daemon: they behave as *)
(* the comments at the head of qemud.c say.                                *)
(***************************************************************************)
EXTENDS Looper, Functions

CONSTANTS
    Clients,      \* connections to the socket, each made once at most
    NoClient,     \* no client
    Channels,     \* the number of channels: 256, from the & 0xff
    MaxOpens,     \* bound: requests for a channel
    MaxWrites,    \* bound: data messages from the clients
    MaxSends,     \* bound: data messages to the clients
    Hasty         \* TRUE: a client may send data before it has its answer, or a
                  \* service name too long for a packet to the emulator

ASSUME QemudAssumption ==
    /\ NoClient \notin Clients
    /\ Channels \in Nat \ {0, 1}
    /\ MaxOpens \in Nat /\ MaxWrites \in Nat /\ MaxSends \in Nat
    /\ Hasty \in BOOLEAN

VARIABLES
    \* the daemon
    last_channel,
    conn,             \* the Client object and the FDHandler of each connection
    looper,
    serialPending, acceptPending,   \* hooks marked in this round
    fate,             \* "wild" once freed memory has been used, "killed" by SIGPIPE
    \* the serial line
    toEmulator, fromEmulator,
    \* the clients
    backlog,          \* connections not accepted yet
    inbox,            \* written by each client and not read
    asked,            \* the clients that wait for an answer
    hungUp,           \* the clients that have closed their end
    answers,          \* the answers that have been written to each client
    received,         \* the data messages that have been written to each client
    written,          \* data messages each client has written
    expelled,         \* the clients thrown out for their haste
    \* the emulator
    emulator,         \* the client each channel is connected to
    emulatorSent      \* data messages sent to each client

daemonVars   == <<last_channel, conn, looper, serialPending, acceptPending, fate, expelled>>
lineVars     == <<toEmulator, fromEmulator>>
clientVars   == <<backlog, inbox, asked, hungUp, answers, received, written>>
emulatorVars == <<emulator, emulatorSent>>
vars == <<daemonVars, lineVars, clientVars, emulatorVars>>

\* A connection: "live" with a Client and an FDHandler, "closing" with an FDHandler
\* only, "freed" with neither. Channel Channels stands for the code's -1.
NoChannel == Channels
MessagesOf(kinds) == [kind : kinds, channel : 0..Channels, client : Clients \cup {NoClient},
                      number : Nat]
FromClient   == MessagesOf({"name", "longName", "data"})
Answer       == MessagesOf({"OK", "KO"})
Data         == MessagesOf({"data"})
ToClient     == MessagesOf({"OK", "KO", "data"})
ToEmulator   == MessagesOf({"connect", "disconnect", "data"})
FromEmulator == MessagesOf({"OK", "KO", "disconnect", "data"})

Conns == [state : {"none", "live", "closing", "freed"}, fd : Fds \cup {0},
          channel : 0..Channels, registered : {0, 1}, out : Seq(ToClient)]

Message(k, ch, c, n) == [kind |-> k, channel |-> ch, client |-> c, number |-> n]

TypeOK ==
    /\ last_channel \in Nat
    /\ conn \in [Clients -> Conns]
    /\ looper \in Loopers(Clients)
    /\ serialPending \in BOOLEAN /\ acceptPending \in BOOLEAN
    /\ fate \in {"runs", "wild", "killed"}
    /\ toEmulator \in Seq(ToEmulator) /\ fromEmulator \in Seq(FromEmulator)
    /\ backlog \in Seq(Clients)
    /\ inbox \in [Clients -> Seq(FromClient)]
    /\ asked \subseteq Clients /\ hungUp \subseteq Clients /\ expelled \subseteq Clients
    /\ answers \in [Clients -> Seq(Answer)] /\ received \in [Clients -> Seq(Data)]
    /\ written \in [Clients -> Nat]
    /\ emulator \in [0..Channels -> Clients \cup {NoClient}]
    /\ emulatorSent \in [Clients -> Nat]

Connection(state, fd, ch, registered, out) ==
    [state |-> state, fd |-> fd, channel |-> ch, registered |-> registered, out |-> out]
NewConn == Connection("none", 0, NoChannel, 0, <<>>)

Init ==
    /\ last_channel = 0
    /\ conn = [c \in Clients |-> NewConn]
    /\ looper = NewLooper
    /\ serialPending = FALSE /\ acceptPending = FALSE /\ fate = "runs"
    /\ toEmulator = <<>> /\ fromEmulator = <<>>
    /\ backlog = <<>>
    /\ inbox = [c \in Clients |-> <<>>]
    /\ asked = {} /\ hungUp = {} /\ expelled = {}
    /\ answers = [c \in Clients |-> <<>>] /\ received = [c \in Clients |-> <<>>]
    /\ written = [c \in Clients |-> 0]
    /\ emulator = [ch \in 0..Channels |-> NoClient]
    /\ emulatorSent = [c \in Clients |-> 0]

Total(f) == FoldFunction(+, 0, f)

Runs == fate = "runs"

LiveClients == {c \in Clients : conn[c].state = "live"}

-----------------------------------------------------------------------------
(* The FDHandler and the Client, as functions of a connection r.           *)

\* fdhandler_enqueue: the packet comes last; the variant puts it first.
EnqueueFirst(q, p) == <<p>> \o q
Enqueue(q, p)      == Append(q, p)

\* fdhandler_close: the packets still queued are dropped.
Closed(r) == Connection("freed", r.fd, NoChannel, 0, <<>>)

\* fdhandler_shutdown, called by client_free: with packets queued the handler stays,
\* without its Client, to send them.
ClientFree(r) == IF r.out # <<>> /\ r.state # "closing"
                 THEN Connection("closing", r.fd, NoChannel, 0, r.out)
                 ELSE Closed(r)

\* client_registration by the answer m, which is passed on.
ClientRegistration(r, m) ==
    IF m.kind = "OK" THEN Connection(r.state, r.fd, r.channel, 1, Enqueue(r.out, m))
                     ELSE Connection(r.state, r.fd, NoChannel, 0, Enqueue(r.out, m))

\* What becomes of the looper as connection c goes from conn[c] to r in a callback:
\* a handler that is closed is deleted, the first packet queued enables OUT and the
\* last one sent disables it. The variants: OUT is not enabled; OUT is disabled
\* after every packet sent.
LooperNotEnabled(l, c, r) ==
    IF r.state = "freed" THEN Del(l, conn[c].fd)
    ELSE IF conn[c].out # <<>> /\ r.out = <<>> THEN Disable(l, r.fd, "OUT")
    ELSE l
LooperDisabled(l, c, r) ==
    IF r.state = "freed" THEN Del(l, conn[c].fd)
    ELSE IF Len(conn[c].out) > Len(r.out) THEN Disable(l, r.fd, "OUT")
    ELSE IF conn[c].out = <<>> /\ r.out # <<>> THEN Enable(l, r.fd, "OUT")
    ELSE l
LooperAfter(l, c, r) ==
    IF r.state = "freed" THEN Del(l, conn[c].fd)
    ELSE IF conn[c].out = <<>> /\ r.out # <<>> THEN Enable(l, r.fd, "OUT")
    ELSE IF conn[c].out # <<>> /\ r.out = <<>> THEN Disable(l, r.fd, "OUT")
    ELSE l

\* Connection c becomes r, with unread still to be read. A descriptor that is freed
\* is closed, and free to be used again; what was not read is lost.
Update(c, r, unread) ==
    /\ conn' = [conn EXCEPT ![c] = IF r.state = "freed" THEN [r EXCEPT !.fd = 0] ELSE r]
    /\ inbox' = [inbox EXCEPT ![c] = IF r.state = "freed" THEN <<>> ELSE unread]

-----------------------------------------------------------------------------
(* The looper's round.                                                     *)

\* What can be done with the socket of connection c; its buffer always has room.
Ready(c) == (IF inbox[c] # <<>> \/ c \in hungUp THEN {"IN"} ELSE {})
            \cup (IF c \in hungUp THEN {"HUP"} ELSE {}) \cup {"OUT"}
ReadyFd(fd) == UNION {Ready(c) : c \in {d \in Clients : conn[d].fd = fd}}

RoundDone == ~serialPending /\ ~acceptPending /\ PendingHooks(looper) = {}

EpollWait ==
    /\ Runs /\ RoundDone /\ ClosingHooks(looper) = {}
    /\ looper' \in Marked(looper, [fd \in Fds |-> ReadyFd(fd)])
    /\ serialPending' = (fromEmulator # <<>>)
    /\ acceptPending' = (backlog # <<>>)
    /\ fromEmulator # <<>> \/ backlog # <<>> \/ PendingHooks(looper') # {}
    /\ UNCHANGED <<last_channel, conn, fate, expelled, lineVars, clientVars, emulatorVars>>

SweepHooks ==
    /\ Runs /\ RoundDone /\ ClosingHooks(looper) # {}
    /\ looper' = Sweep(looper)
    /\ UNCHANGED <<last_channel, conn, serialPending, acceptPending, fate, expelled,
                   lineVars, clientVars, emulatorVars>>

-----------------------------------------------------------------------------
(* The serial port's callback. One read may hold several packets.          *)

\* multiplexer_find_client: the clients in the list with the channel.
ClientsAt(ch) == {c \in LiveClients : conn[c].channel = ch}

\* Whom packet m is for. Data on channel 0 is a control message, and not a known one.
Addressed(m) == IF m.kind = "data" /\ m.channel = 0 THEN {} ELSE ClientsAt(m.channel)

\* What packet m makes of the client it is for.
After(r, m) ==
    CASE m.kind = "data"         -> [r EXCEPT !.out = Enqueue(@, m)]
      [] m.kind \in {"OK", "KO"} -> ClientRegistration(r, m)
      [] m.kind = "disconnect"   -> ClientFree(r)

SerialReceive ==
    /\ Runs /\ serialPending
    /\ LET m == Head(fromEmulator)
       IN  \/ Addressed(m) = {} /\ UNCHANGED <<conn, inbox, looper>>
           \/ \E c \in Addressed(m) :
                /\ Update(c, After(conn[c], m), inbox[c])
                /\ looper' = LooperAfter(looper, c, After(conn[c], m))
    /\ fromEmulator' = Tail(fromEmulator)
    /\ serialPending' \in IF fromEmulator' = <<>> THEN {FALSE} ELSE BOOLEAN
    /\ UNCHANGED <<last_channel, acceptPending, fate, expelled, toEmulator, backlog, asked,
                   hungUp, answers, received, written, emulatorVars>>

-----------------------------------------------------------------------------
(* The control socket's callback: a new client, on the lowest free         *)
(* descriptor.                                                             *)

FreeFds  == Fds \ {conn[c].fd : c \in Clients}
LowestFd == CHOOSE f \in FreeFds : \A g \in FreeFds : f <= g

Accept ==
    /\ Runs /\ acceptPending /\ ~serialPending
    /\ FreeFds # {}
    /\ conn' = [conn EXCEPT ![Head(backlog)] = Connection("live", LowestFd, NoChannel, 0, <<>>)]
    /\ looper' = Enable(AddHook(looper, LowestFd, Head(backlog)), LowestFd, "IN")
    /\ backlog' = Tail(backlog)
    /\ acceptPending' = FALSE
    /\ UNCHANGED <<last_channel, serialPending, fate, expelled, lineVars, inbox, asked, hungUp,
                   answers, received, written, emulatorVars>>

-----------------------------------------------------------------------------
(* A client's callback, fdhandler_event.                                   *)

\* multiplexer_open_channel: the first channel after the last one that no client has.
\* While every channel is taken the search never ends. The variants: the next
\* channel whoever has it; the lowest that is free; the mask forgotten.
TakenChannels   == {conn[c].channel : c \in LiveClients}
ChannelFound(k) == (last_channel + k) % Channels \notin TakenChannels
Tries           == CHOOSE k \in 1..Channels : /\ ChannelFound(k)
                                              /\ \A j \in 1..(k - 1) : ~ChannelFound(j)
NextChannel     == (last_channel + 1) % Channels
LowestChannel   == CHOOSE ch \in 1..Channels : /\ ch \notin TakenChannels
                                               /\ \A d \in 1..(ch - 1) : d \in TakenChannels
UnmaskedChannel == last_channel + Tries
NewChannel      == (last_channel + Tries) % Channels

\* A client that waits for its answer has a channel, and is not registered; any
\* other that is not registered opens a channel by what it sends. A client is bad
\* that sends while it waits, or that sends too long a name.
Waits(r)        == r.registered = 0 /\ r.channel \in 1..(Channels - 1)
Opens(r)        == r.registered = 0 /\ ~Waits(r)
BadClient(r, m) == Waits(r) \/ (Opens(r) /\ m.kind = "longName")

\* client_fd_receive of message m: what becomes of the client, and what is sent to
\* the emulator.
ClientReceive(r, c, m) ==
    CASE r.registered = 1 -> [r |-> r, send |-> <<Message("data", r.channel, c, m.number)>>]
      [] BadClient(r, m) -> [r |-> ClientFree(r), send |-> <<>>]
      [] Opens(r) /\ m.kind # "longName" ->
            [r |-> [r EXCEPT !.channel = NewChannel],
             send |-> <<Message("connect", NewChannel, c, 0)>>]

\* client_fd_close: the emulator is told, if there is a client and it had a channel.
NoNotice(r, c)    == <<>>
CloseNotice(r, c) == IF r.state = "live" /\ r.channel \in 1..(Channels - 1)
                     THEN <<Message("disconnect", r.channel, c, 0)>> ELSE <<>>

\* The hook that is due and its connection.
DueHook    == looper.hooks[NextPending(looper)]
Due        == DueHook.user
Unmarked   == Unmark(looper, NextPending(looper))
HookDue    == Runs /\ ~serialPending /\ ~acceptPending /\ PendingHooks(looper) # {}
HasData(c) == "IN" \in DueHook.events /\ inbox[c] # <<>>

\* The handler is gone; or its client is, and has sent more; or it goes as the
\* client is thrown out, with other events due.
UsesFreed(c) ==
    \/ conn[c].state = "freed"
    \/ conn[c].state = "closing" /\ HasData(c)
    \/ /\ conn[c].state = "live" /\ HasData(c) /\ BadClient(conn[c], Head(inbox[c]))
       /\ conn[c].out = <<>> /\ DueHook.events \cap {"HUP", "OUT"} # {}

CallWild ==
    /\ HookDue /\ UsesFreed(Due)
    /\ fate' = "wild"
    /\ UNCHANGED <<last_channel, conn, looper, serialPending, acceptPending, expelled,
                   lineVars, clientVars, emulatorVars>>

\* The connection, and what is sent, after the data that is there has been read.
AfterRead(c) == IF HasData(c) THEN ClientReceive(conn[c], c, Head(inbox[c]))
                              ELSE [r |-> conn[c], send |-> <<>>]

\* The socket of a client that has hung up raises SIGPIPE when it is written.
Writes(c)  == "OUT" \in DueHook.events /\ AfterRead(c).r.out # <<>>
CallKilled ==
    /\ HookDue /\ ~UsesFreed(Due)
    /\ "HUP" \notin DueHook.events /\ Due \in hungUp /\ Writes(Due)
    /\ fate' = "killed"
    /\ UNCHANGED <<last_channel, conn, looper, serialPending, acceptPending, expelled,
                   lineVars, clientVars, emulatorVars>>

\* The read, which blocks if there is nothing to read.
Unread(c) == IF HasData(c) THEN Tail(inbox[c]) ELSE inbox[c]
Read(c) ==
    /\ "IN" \in DueHook.events => inbox[c] # <<>> \/ c \in hungUp
    /\ HasData(c) /\ Opens(conn[c]) => \E k \in 1..Channels : ChannelFound(k)
    /\ last_channel' = IF HasData(c) /\ Opens(conn[c]) THEN last_channel + Tries
                                                       ELSE last_channel
    /\ expelled' = IF HasData(c) /\ BadClient(conn[c], Head(inbox[c])) THEN expelled \cup {c}
                                                                     ELSE expelled

\* The client has hung up: one read, and the handler is closed.
CallHangUp ==
    /\ HookDue /\ ~UsesFreed(Due)
    /\ "HUP" \in DueHook.events
    /\ Read(Due)
    /\ Update(Due, Closed(AfterRead(Due).r), Unread(Due))
    /\ looper' = Del(Unmarked, conn[Due].fd)
    /\ toEmulator' = toEmulator \o AfterRead(Due).send \o CloseNotice(AfterRead(Due).r, Due)
    /\ UNCHANGED <<serialPending, acceptPending, fate, fromEmulator, backlog, asked, hungUp,
                   answers, received, written, emulatorVars>>

\* A packet is written to client c: an answer, or data.
Gets(c, p) ==
    \/ /\ p \in Answer
       /\ answers' = [answers EXCEPT ![c] = Append(@, p)] /\ asked' = asked \ {c}
       /\ UNCHANGED received
    \/ /\ p \in Data
       /\ received' = [received EXCEPT ![c] = Append(@, p)]
       /\ UNCHANGED <<answers, asked>>

\* Data is read, and one queued packet is written.
CallReadWrite ==
    LET a == AfterRead(Due)
        r == IF Writes(Due) THEN [a.r EXCEPT !.out = Tail(@)] ELSE a.r
    IN  /\ HookDue /\ ~UsesFreed(Due)
        /\ "HUP" \notin DueHook.events /\ ~(Due \in hungUp /\ Writes(Due))
        /\ Read(Due)
        /\ Update(Due, r, Unread(Due))
        /\ looper' = LooperAfter(Unmarked, Due, r)
        /\ toEmulator' = toEmulator \o a.send
        /\ IF Writes(Due) THEN Gets(Due, Head(a.r.out)) ELSE UNCHANGED <<asked, answers, received>>
        /\ UNCHANGED <<serialPending, acceptPending, fate, fromEmulator, backlog, hungUp,
                       written, emulatorVars>>

-----------------------------------------------------------------------------
(* The clients, as the comment on Client says they behave.                 *)

Queued(c)    == \E i \in 1..Len(backlog) : backlog[i] = c
Connected(c) == conn[c].state \in {"live", "closing"} \/ Queued(c)
Granted(c)   == \E i \in 1..Len(answers[c]) : answers[c][i].kind = "OK"

Connect(c) ==
    /\ conn[c].state = "none" /\ ~Queued(c)
    /\ backlog' = Append(backlog, c)
    /\ UNCHANGED <<daemonVars, lineVars, inbox, asked, hungUp, answers, received, written,
                   emulatorVars>>

\* The client sends the name of a service, at first or after a refusal.
Ask(c) ==
    /\ Connected(c) /\ c \notin hungUp \cup asked /\ ~Granted(c)
    /\ last_channel + Cardinality(asked) < MaxOpens
    /\ \E kind \in {"name"} \cup (IF Hasty THEN {"longName"} ELSE {}) :
          inbox' = [inbox EXCEPT ![c] = Append(@, Message(kind, NoChannel, c, 0))]
    /\ asked' = asked \cup {c}
    /\ UNCHANGED <<daemonVars, lineVars, backlog, hungUp, answers, received, written, emulatorVars>>

Write(c) ==
    /\ Connected(c) /\ c \notin hungUp
    /\ Granted(c) \/ (Hasty /\ c \in asked)
    /\ Total(written) < MaxWrites
    /\ inbox' = [inbox EXCEPT ![c] = Append(@, Message("data", NoChannel, c, written[c] + 1))]
    /\ written' = [written EXCEPT ![c] = @ + 1]
    /\ UNCHANGED <<daemonVars, lineVars, backlog, asked, hungUp, answers, received, emulatorVars>>

HangUp(c) ==
    /\ Connected(c) /\ c \notin hungUp
    /\ hungUp' = hungUp \cup {c}
    /\ UNCHANGED <<daemonVars, lineVars, backlog, inbox, asked, answers, received, written,
                   emulatorVars>>

ClientStep == \E c \in Clients : Connect(c) \/ Ask(c) \/ Write(c) \/ HangUp(c)

-----------------------------------------------------------------------------
(* The emulator, as the comment at the head of qemud.c says it behaves.    *)

Answered(kind, m) == fromEmulator' = Append(fromEmulator, [m EXCEPT !.kind = kind])

\* A request is granted or refused; a disconnection and data have no answer.
EmulatorReceive ==
    LET m == Head(toEmulator)
    IN  /\ toEmulator # <<>>
        /\ \/ /\ m.kind = "connect"
              /\ emulator' = [emulator EXCEPT ![m.channel] = m.client]
              /\ Answered("OK", m)
           \/ m.kind = "connect" /\ Answered("KO", m) /\ UNCHANGED emulator
           \/ /\ m.kind = "disconnect"
              /\ emulator' = [emulator EXCEPT ![m.channel] = NoClient]
              /\ UNCHANGED fromEmulator
           \/ m.kind = "data" /\ UNCHANGED <<emulator, fromEmulator>>
        /\ toEmulator' = Tail(toEmulator)
        /\ UNCHANGED <<daemonVars, clientVars, emulatorSent>>

EmulatorSend(ch) ==
    LET c == emulator[ch]
    IN  /\ c # NoClient /\ Total(emulatorSent) < MaxSends
        /\ emulatorSent' = [emulatorSent EXCEPT ![c] = @ + 1]
        /\ fromEmulator' = Append(fromEmulator, Message("data", ch, c, emulatorSent[c] + 1))
        /\ UNCHANGED <<daemonVars, toEmulator, clientVars, emulator>>

EmulatorDisconnect(ch) ==
    /\ emulator[ch] # NoClient
    /\ emulator' = [emulator EXCEPT ![ch] = NoClient]
    /\ fromEmulator' = Append(fromEmulator, Message("disconnect", ch, emulator[ch], 0))
    /\ UNCHANGED <<daemonVars, toEmulator, clientVars, emulatorSent>>

EmulatorStep ==
    \/ EmulatorReceive
    \/ \E ch \in 0..(Channels - 1) : EmulatorSend(ch) \/ EmulatorDisconnect(ch)

-----------------------------------------------------------------------------
Daemon == \/ EpollWait \/ SweepHooks \/ SerialReceive \/ Accept
          \/ CallWild \/ CallKilled \/ CallHangUp \/ CallReadWrite

Next == Daemon \/ ClientStep \/ EmulatorStep

Spec == Init /\ [][Next]_vars

\* The daemon runs, and the emulator reads its line. Clients need do nothing.
FairSpec == Spec /\ WF_vars(Daemon) /\ WF_vars(EmulatorReceive)

-----------------------------------------------------------------------------
(* Safety.                                                                 *)

\* "Internal unique channel number" (qemud.c:42): no two clients have one channel,
\* whatever the order in which they ask, are refused, ask again and leave.
UniqueChannels ==
    \A c, d \in LiveClients : c # d /\ conn[c].channel # NoChannel =>
        conn[c].channel # conn[d].channel

\* A client gets answers to its own requests and data for itself only, and the
\* emulator gets data of the client it has on the channel, or of one it has
\* disconnected: messages in flight never reach a later user of a channel.
NoCrossTalk ==
    /\ \A c \in Clients : /\ \A i \in 1..Len(answers[c]) : answers[c][i].client = c
                          /\ \A i \in 1..Len(received[c]) : received[c][i].client = c
    /\ toEmulator # <<>> /\ Head(toEmulator).kind = "data" =>
          emulator[Head(toEmulator).channel] \in {Head(toEmulator).client, NoClient}

On(line, kind, ch) == \E i \in 1..Len(line) : line[i].kind = kind /\ line[i].channel = ch

\* The emulator and the daemon agree on who is connected but for what is on the
\* line: the emulator's clients are there or their disconnection is on its way,
\* save those thrown out; the daemon's are the emulator's, or have been disconnected.
EmulatorAgrees ==
    /\ \A ch \in 0..(Channels - 1) : emulator[ch] \notin expelled \cup {NoClient} =>
          \/ conn[emulator[ch]].channel = ch
          \/ On(toEmulator, "disconnect", ch)
    /\ \A c \in LiveClients : conn[c].registered = 1 =>
          \/ emulator[conn[c].channel] = c
          \/ On(fromEmulator, "disconnect", conn[c].channel)

-----------------------------------------------------------------------------
(* Refinement: the daemon is a ConnectionService.                          *)

Service == INSTANCE ConnectionService WITH
    sent      <- emulatorSent,
    told      <- {c \in Clients : Granted(c)},
    delivered <- [c \in Clients |-> [i \in 1..Len(received[c]) |-> received[c][i].number]]

\* A client is told that its request is granted before it gets data, and gets the
\* emulator's data in order and without a gap.
DeliveredInOrder == Service!Spec

-----------------------------------------------------------------------------
(* Liveness.                                                               *)

\* The hook of a client has lost IN from its mask.
Unwatched(c) == \E i \in 1..Len(looper.hooks) :
                    looper.hooks[i].user = c /\ "IN" \notin looper.hooks[i].wanted

Excused(c) == fate # "runs" \/ c \in hungUp \cup expelled \/ Unwatched(c)

\* A client that asks for a service gets an answer.
RequestsAnswered == \A c \in Clients : c \in asked ~> (c \notin asked \/ Excused(c))

\* What the emulator sends to a client reaches it, even if the emulator disconnects
\* it at once.
DataArrives ==
    \A c \in Clients : \A n \in 1..MaxSends : emulatorSent[c] = n ~>
        (Len(received[c]) >= n \/ Excused(c))

\* A client that hangs up is noticed, and its handler is closed.
HangUpNoticed ==
    \A c \in Clients : c \in hungUp /\ conn[c].state # "none" ~>
        (conn[c].state = "freed" \/ fate # "runs")

=============================================================================
