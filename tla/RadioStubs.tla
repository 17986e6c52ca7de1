----------------------------- MODULE RadioStubs -----------------------------
(***************************************************************************)
(* The network services of the firmware stubs: sockets and TLS sessions,   *)
(* the Wi-Fi station and access point, Bluetooth HCI.                      *)
(* Each part stands alone: dev is the state of the one being explored.     *)
(***************************************************************************)
EXTENDS Integers, Sequences, FiniteSets, SequencesExt

VARIABLE dev

-----------------------------------------------------------------------------
(***************************************************************************)
(* The guest's lwIP sockets and TLS client on host sockets                 *)
(* (wifi_stubs.c): a table of slots, one per guest descriptor, each naming *)
(* a host socket, and the calls the guest makes on them.                   *)
(*                                                                         *)
(* The host's socket layer is external: a handle is an open host socket,   *)
(* with the messages its peer has sent and not yet taken (numbered in the  *)
(* order sent, with the guest time each has waited), and its connection's  *)
(* state.  A host picks the lowest free handle, as POSIX does.  Guest time *)
(* is relative: a slot keeps how much of its empty-poll interval is left.  *)
(* Payloads, addresses, statistics and logging are left out, and so is how *)
(* long a blocking receive waits (total_received, awaiting_response): it   *)
(* ends in what the host has by then.                                      *)
(***************************************************************************)
CONSTANTS
    Fds,        \* socket_fd_count: descriptors 1..Fds
    PollUs,     \* HOST_RX_EMPTY_POLL_US, in units of guest time
    MaxMsgs,    \* messages a peer sends on one connection
    Kinds       \* SOCK_STREAM ("tcp"), SOCK_DGRAM ("udp")

WifiSocketsAssumption ==
    Fds \in Nat \ {0} /\ PollUs \in Nat \ {0} /\ Kinds \subseteq {"tcp", "udp"}

Slots == 1..Fds
None == 0
\* One handle more than slots, for the one a failed call leaves behind.
Handles == 1..(Fds + 1)

\* A closed slot, as slot_alloc and slot_free leave it but for the host fd.
FreshSlot == [host |-> None, nonblock |-> FALSE, after |-> 0, ssl |-> FALSE]

FreshHost == [open |-> FALSE, kind |-> "tcp", state |-> "new", inbox |-> <<>>,
              sent |-> 0, taken |-> 0, eof |-> FALSE, clients |-> 0]

\* wifi_stubs_create; spy_lwip_vfs_fd_range may learn the range later.
SockInit ==
    dev = [range |-> FALSE, slot |-> [f \in Slots |-> FreshSlot],
           host |-> [h \in Handles |-> FreshHost], ctx |-> None,
           blocked |-> None, orphans |-> {},
           disorder |-> FALSE]

-----------------------------------------------------------------------------
(* The host's sockets, and the slots.                                      *)

FreeHandles(d) == {h \in Handles : ~d.host[h].open}
NewHandle(d) == CHOOSE h \in FreeHandles(d) : \A g \in FreeHandles(d) : h <= g
\* A handle's number means nothing: the last one is for the socket left behind.
LastHandle(d) == CHOOSE h \in FreeHandles(d) : \A g \in FreeHandles(d) : h >= g

\* socket(): a fresh host socket on the lowest handle
HostSocket(d, kind) == [d EXCEPT !.host[NewHandle(d)] = [FreshHost EXCEPT !.open = TRUE, !.kind = kind]]
HostClose(d, h) == [d EXCEPT !.host[h] = FreshHost]

FreeSlots(d) == IF d.range THEN {f \in Slots : d.slot[f].host = None} ELSE {}
NewSlot(d) == CHOOSE f \in FreeSlots(d) : \A g \in FreeSlots(d) : f <= g

\* slot_alloc, when there is one
SlotAlloc(d, h) == [d EXCEPT !.slot[NewSlot(d)] = [FreshSlot EXCEPT !.host = h]]

\* slot_get, with fd_to_idx
SlotOpen(d, f) == f \in Slots /\ d.slot[f].host # None

\* slot_free
SlotFree(d, f) == [d EXCEPT !.slot[f] = FreshSlot]

\* ws_return and set_firmware_errno ("=": errno is left alone).  Of an answer
\* the state keeps only whether it told the guest to come back (EAGAIN).
SockAnswer(d, f, ret, errno) == [d EXCEPT !.blocked = IF ret = -1 /\ errno = "EAGAIN" THEN f ELSE None]

\* A step that is no call.
Quiet(d) == [d EXCEPT !.blocked = None]

\* ws_fail(NEWLIB_EBADF): how most calls answer for a closed descriptor
Bad(f) == ~SlotOpen(dev, f) /\ dev' = SockAnswer(dev, f, -1, "EBADF")

Host(f) == dev.host[dev.slot[f].host]

-----------------------------------------------------------------------------
(* Connections.                                                            *)

\* spy_lwip_vfs_fd_range: the first registration fixes the range
VfsRange == ~dev.range /\ dev' = Quiet([dev EXCEPT !.range = TRUE])

\* stub_lwip_socket
Socket(kind) ==
    \/ ~dev.range /\ dev' = SockAnswer(dev, None, -1, "EBADF")
    \/ /\ dev.range
       /\ dev' = IF FreeHandles(dev) = {} \/ FreeSlots(dev) = {}
                 THEN SockAnswer(dev, None, -1, "=")        \* opened and closed again
                 ELSE SockAnswer(SlotAlloc(HostSocket(dev, kind), NewHandle(dev)),
                             NewSlot(dev), NewSlot(dev), "=")

\* stub_lwip_connect with ws_redirect_dest; outcome is the host's.  A
\* blocking host socket reports completion itself, so that EINPROGRESS and
\* its wait of five seconds are met only when the host flag was still set.
SockConnect(f, outcome) ==
    \/ Bad(f)
    \/ /\ SlotOpen(dev, f) /\ Host(f).state = "new" /\ Host(f).kind = "tcp"
       /\ LET h == dev.slot[f].host
              done(s) == [dev EXCEPT !.host[h].state = s, !.slot[f].nonblock = FALSE]
          IN  dev' = CASE outcome = "ok" /\ dev.slot[f].nonblock ->
                            SockAnswer(done("connecting"), f, -1, "EINPROGRESS")
                       [] outcome = "ok" /\ ~dev.slot[f].nonblock ->
                            SockAnswer(done("connected"), f, 0, "0")
                       [] OTHER -> SockAnswer(done("failed"), f, -1, "host")

\* stub_lwip_close
Close(f) ==
    \/ Bad(f)
    \/ /\ SlotOpen(dev, f)
       /\ dev' = SockAnswer(SlotFree(HostClose(dev, dev.slot[f].host), f), f, 0, "=")

\* stub_lwip_bind: loopback, low ports moved; a failure leaves errno alone
Bind(f, ok) ==
    \/ Bad(f)
    \/ /\ SlotOpen(dev, f)
       /\ dev' = IF ok /\ Host(f).state = "new"
                 THEN SockAnswer([dev EXCEPT !.host[dev.slot[f].host].state = "bound",
                                         !.slot[f].nonblock = FALSE], f, 0, "=")
                 ELSE SockAnswer(dev, f, -1, "=")

\* stub_lwip_listen
Listen(f) ==
    \/ Bad(f)
    \/ /\ SlotOpen(dev, f)
       /\ dev' = IF Host(f).kind = "tcp" /\ Host(f).state \in {"bound", "listening"}
                 THEN SockAnswer([dev EXCEPT !.host[dev.slot[f].host].state = "listening"], f, 0, "=")
                 ELSE SockAnswer(dev, f, -1, "host")

\* What poll(POLLIN) sees.
Readable(h) == dev.host[h].inbox # <<>> \/ dev.host[h].eof \/ dev.host[h].clients > 0

\* stub_lwip_accept: never waits
Accept(f) ==
    \/ Bad(f)
    \/ /\ SlotOpen(dev, f)
       /\ LET h == dev.slot[f].host
              d == [HostSocket(dev, "tcp") EXCEPT !.host[h].clients = @ - 1,
                                                  !.host[NewHandle(dev)].state = "connected"]
          IN  dev' = IF ~Readable(h) THEN SockAnswer(dev, f, -1, "EAGAIN")
                     ELSE IF Host(f).clients = 0 THEN SockAnswer(dev, f, -1, "host")
                     ELSE IF FreeSlots(dev) = {}
                     THEN SockAnswer([dev EXCEPT !.host[h].clients = @ - 1], f, -1, "=")
                     ELSE SockAnswer(SlotAlloc(d, NewHandle(dev)), f, NewSlot(dev), "=")

-----------------------------------------------------------------------------
(* Data.                                                                   *)

\* What a host recv answers now: a message's number, 0 at the end, -1.
Peeked(h) == IF dev.host[h].inbox # <<>> THEN dev.host[h].inbox[1].n
           ELSE IF dev.host[h].eof THEN 0 ELSE -1

\* recv without MSG_PEEK
HostTake(d, h) ==
    IF d.host[h].inbox = <<>> THEN d
    ELSE [d EXCEPT !.host[h].inbox = Tail(@), !.host[h].taken = @ + 1,
                   !.disorder = @ \/ d.host[h].inbox[1].n # d.host[h].taken + 1]

\* stub_lwip_write, stub_lwip_send; a closed descriptor leaves errno alone
Write(f, ok) ==
    \/ ~SlotOpen(dev, f) /\ dev' = SockAnswer(dev, f, -1, "=")
    \/ /\ SlotOpen(dev, f)
       /\ dev' = IF ok /\ Host(f).state = "connected"
                 THEN SockAnswer([dev EXCEPT !.slot[f].after = 0], f, 1, "=")
                 ELSE SockAnswer(dev, f, -1, "host")

\* stub_lwip_sendto
Sendto(f, ok) ==
    \/ Bad(f)
    \/ /\ SlotOpen(dev, f)
       /\ dev' = IF ok /\ (Host(f).kind = "udp" \/ Host(f).state = "connected")
                 THEN SockAnswer([dev EXCEPT !.slot[f].after = 0], f, 1, "=")
                 ELSE SockAnswer(dev, f, -1, "host")

BugReceived(d, f, peek) ==
    IF peek /\ d.host[d.slot[f].host].inbox # <<>>
    THEN [d EXCEPT !.host[d.slot[f].host].inbox = Tail(@)] ELSE HostTake(d, d.slot[f].host)

\* The host after a receive
Received(d, f, peek) == IF peek THEN d ELSE HostTake(d, d.slot[f].host)

\* stub_lwip_receive, for read and recv.  A wait of whatever length ends in
\* what the host has by then, or in EAGAIN.
Receive(f, peek, empty) ==
    \/ Bad(f)
    \/ /\ SlotOpen(dev, f)
       /\ LET n == Peeked(dev.slot[f].host)
              d == Received(dev, f, peek)
          IN  dev' = IF empty THEN SockAnswer(dev, f, 0, "=")             \* len = 0
                     ELSE IF n < 0 THEN SockAnswer(dev, f, -1, "EAGAIN")
                     ELSE SockAnswer(d, f, n, "0")

\* The deadline an empty poll sets.
PollAfter == PollUs

\* stub_lwip_recvfrom: never waits; an empty poll is repeated on the host
\* only after the interval
Recvfrom(f) ==
    \/ Bad(f)
    \/ /\ SlotOpen(dev, f)
       /\ LET h == dev.slot[f].host
              n == Peeked(h)
          IN  dev' = IF dev.slot[f].after > 0
                     THEN SockAnswer(dev, f, -1, "EAGAIN")
                     ELSE IF n < 0
                     THEN SockAnswer([dev EXCEPT !.slot[f].after = PollAfter], f, -1, "EAGAIN")
                     ELSE SockAnswer([HostTake(dev, h) EXCEPT !.slot[f].after = 0], f, n, "=")

Writable(h) == dev.host[h].kind = "udp" \/ dev.host[h].state \in {"connected", "failed"}

\* stub_lwip_select on readers and writers below nfds: the count of ready ones
Select(readers, writers, nfds) ==
    LET asked(s) == {f \in s : SlotOpen(dev, f) /\ f < nfds}
        r == {f \in asked(readers) : Readable(dev.slot[f].host)}
        w == {f \in asked(writers) : Writable(dev.slot[f].host)}
    IN  dev' = SockAnswer(dev, None, Cardinality(r) + Cardinality(w), "=")

\* stub_lwip_fcntl F_SETFL; F_GETFL, ioctl, setsockopt and the name calls
\* answer from the slot and the host and change nothing.  Past connect the
\* flag only shortens a wait.
Fcntl(f, on) ==
    \/ Bad(f)
    \/ /\ SlotOpen(dev, f)
       /\ dev' = SockAnswer([dev EXCEPT !.slot[f].nonblock = on /\ Host(f).state = "new"], f, 0, "=")

\* stub_lwip_getsockopt SO_ERROR, stub_lwip_ioctl FIONREAD, getsockname, getpeername
Query(f) ==
    \/ Bad(f)
    \/ SlotOpen(dev, f) /\ dev' = SockAnswer(dev, f, 0, "=")

-----------------------------------------------------------------------------
(* The TLS client, done by the host.                                       *)

\* Open host sockets that no slot names.
Lost == {h \in Handles : dev.host[h].open /\ \A f \in Slots : dev.slot[f].host # h}

Opened(d, ssl) ==
    LET f == NewSlot(d)
        e == SlotAlloc([HostSocket(d, "tcp") EXCEPT !.host[NewHandle(d)].state = "connected"], NewHandle(d))
    IN  [e EXCEPT !.slot[f].ssl = ssl, !.ctx = f]

BugStartSsl(outcome) ==
    /\ FreeHandles(dev) # {} /\ FreeSlots(dev) # {} /\ outcome \in {"plain", "tls"}
    /\ dev' = IF outcome = "tls" THEN SockAnswer(Opened(dev, TRUE), NewSlot(dev), NewSlot(dev), "=")
              ELSE SockAnswer([Opened(dev, FALSE) EXCEPT !.host[NewHandle(dev)].open = FALSE],
                          NewSlot(dev), NewSlot(dev), "=")

\* stub_start_ssl_client: connect, handshake; a server without TLS is
\* connected to again in plain TCP, and the slot takes the new socket.  When
\* that connection fails the slot is freed and its socket stays open.
StartSsl(outcome) ==
    /\ FreeSlots(dev) # {} => FreeHandles(dev) # {}
    /\ outcome = "lost" => Lost = {}                              \* one is enough
    /\ dev' = CASE outcome = "refused" \/ FreeSlots(dev) = {} ->
                     SockAnswer(dev, None, -1, "=")
                [] outcome = "tls"   /\ FreeSlots(dev) # {} ->
                     SockAnswer(Opened(dev, TRUE), NewSlot(dev), NewSlot(dev), "=")
                [] outcome = "plain" /\ FreeSlots(dev) # {} ->
                     SockAnswer(Opened(dev, FALSE), NewSlot(dev), NewSlot(dev), "=")
                [] outcome = "lost"  /\ FreeSlots(dev) # {} ->
                     SockAnswer([dev EXCEPT
                                     !.host[LastHandle(dev)] =
                                        [FreshHost EXCEPT !.open = TRUE, !.state = "failed"],
                                     !.orphans = @ \union {LastHandle(dev)}], None, -1, "=")

\* stub_send_ssl_data
SendSsl(ok) ==
    dev' = IF SlotOpen(dev, dev.ctx) /\ ok
           THEN SockAnswer(dev, dev.ctx, 1, "=")
           ELSE SockAnswer(dev, dev.ctx, -1, "=")

\* stub_get_ssl_receive: the end of the stream is -1 here
GetSsl ==
    LET f == dev.ctx
        n == Peeked(dev.slot[f].host)
    IN  dev' = IF SlotOpen(dev, f) /\ n > 0
               THEN SockAnswer(HostTake(dev, dev.slot[f].host), f, n, "=")
               ELSE SockAnswer(dev, f, -1, "=")

\* stub_data_to_read: how many bytes wait, at least
DataToRead ==
    dev' = SockAnswer(dev, dev.ctx,
                  IF SlotOpen(dev, dev.ctx) THEN Len(dev.host[dev.slot[dev.ctx].host].inbox) ELSE 0, "=")

\* stub_stop_ssl_socket: a socket without TLS state is left open
StopSsl ==
    LET f == dev.ctx
        d == IF SlotOpen(dev, f) /\ dev.slot[f].ssl
             THEN SlotFree(HostClose(dev, dev.slot[f].host), f) ELSE dev
    IN  dev' = SockAnswer([d EXCEPT !.ctx = None], f, 0, "=")

-----------------------------------------------------------------------------
(* The network and guest time.                                             *)

\* A peer's message arrives; it closes; a connection is made.
Arrive(h) ==
    LET x == dev.host[h]
    IN  /\ x.open /\ ~x.eof /\ x.sent < MaxMsgs
        /\ x.kind = "udp" \/ x.state = "connected"
        /\ dev' = Quiet([dev EXCEPT !.host[h].inbox = Append(@, [n |-> x.sent + 1, age |-> 0]),
                                    !.host[h].sent = @ + 1])

Hangup(h) ==
    /\ dev.host[h].open /\ dev.host[h].state = "connected" /\ ~dev.host[h].eof
    /\ dev' = Quiet([dev EXCEPT !.host[h].eof = TRUE])

Establish(h, ok) ==
    /\ dev.host[h].state = "connecting"
    /\ dev' = Quiet([dev EXCEPT !.host[h].state = IF ok THEN "connected" ELSE "failed"])

Client(h) ==
    /\ dev.host[h].state = "listening" /\ dev.host[h].clients = 0
    /\ dev' = Quiet([dev EXCEPT !.host[h].clients = 1])

\* Guest time passes; ages are told apart up to the interval.
Tick ==
    dev' = [dev EXCEPT !.blocked = None,
              !.slot = [f \in Slots |-> [@[f] EXCEPT !.after = IF @ > 0 THEN @ - 1 ELSE 0]],
              !.host = [h \in Handles |->
                          [@[h] EXCEPT !.inbox = [i \in DOMAIN @ |->
                              [@[i] EXCEPT !.age = IF @ < PollUs THEN @ + 1 ELSE PollUs]]]]]

\* What a call asks, or the host answers, matters for an open descriptor only;
\* one select is enough, since its count is not kept.
Asked(f) == IF SlotOpen(dev, f) THEN BOOLEAN ELSE {TRUE}

SockNext ==
    \/ VfsRange \/ SendSsl(TRUE) \/ SendSsl(FALSE) \/ GetSsl \/ DataToRead \/ StopSsl \/ Tick
    \/ \E k \in Kinds : Socket(k)
    \/ \E o \in {"refused", "tls", "plain", "lost"} : StartSsl(o)
    \/ \E f \in Slots :
          \/ Close(f) \/ Listen(f) \/ Accept(f) \/ Recvfrom(f) \/ Query(f)
          \/ \E o \in {"ok", "no"} : SockConnect(f, o)
          \/ \E on \in Asked(f) : Bind(f, on) \/ Write(f, on) \/ Sendto(f, on) \/ Fcntl(f, on)
          \/ \E peek, empty \in Asked(f) : (empty => peek) /\ Receive(f, peek, empty)
    \/ Select(Slots, Slots, Fds)
    \/ \E h \in Handles : Arrive(h) \/ Hangup(h) \/ Client(h)
    \/ \E h \in Handles, ok \in BOOLEAN : Establish(h, ok)

SockSpec == SockInit /\ [][SockNext]_dev

-----------------------------------------------------------------------------
SockTypeOK ==
    /\ \A f \in Slots : dev.slot[f].host \in {None} \union Handles /\ dev.slot[f].after \in 0..PollUs
    /\ dev.ctx \in {None} \union Slots

(* slot_alloc, slot_free and every call that opens or closes a host socket:  *)
(* a slot in use names an open host socket and no two slots the same one, so *)
(* no guest descriptor reaches a connection another one opened; and an open  *)
(* host socket that no slot names is one a failed plain reconnect of         *)
(* start_ssl_client left behind - no other failure, at any of its steps,     *)
(* loses one.                                                                *)
HandlesOwned ==
    /\ \A f \in Slots : SlotOpen(dev, f) => Host(f).open
    /\ \A f, g \in Slots : SlotOpen(dev, f) /\ dev.slot[f].host = dev.slot[g].host => f = g
    /\ Lost = dev.orphans

(* stub_lwip_receive, recvfrom and get_ssl_receive on one connection, peeks  *)
(* included: every message is delivered once and in order.                   *)
StreamExact == ~dev.disorder

(* recvfrom coalesces empty polls: no answer of EAGAIN ever hides a          *)
(* datagram that has waited for a whole poll interval.                       *)
DatagramsSeen ==
    SlotOpen(dev, dev.blocked) =>
       \A i \in DOMAIN Host(dev.blocked).inbox : Host(dev.blocked).inbox[i].age < PollUs

(* stub_stop_ssl_socket "Cleans up TLS session and closes the underlying     *)
(* socket", and stub_start_ssl_client closes what it opened when it fails:   *)
(* every open host socket belongs to a slot.  It does not hold of this code: *)
(* wifi_stubs.c 1801-1805 frees the slot and leaves the new socket open.     *)
NoHandleLost == Lost = {}

-----------------------------------------------------------------------------
(***************************************************************************)
(* The Wi-Fi driver the guest sees (wifi_stubs.c): station and soft-AP     *)
(* state, the events it queues and the host delivers between execution     *)
(* batches, the AP's clients, and Ethernet frames handed to the guest's    *)
(* network interface in a few receive pages.                               *)
(*                                                                         *)
(* Events reach the guest through its own event loop (native, learnt from  *)
(* the firmware) or by calling its handlers one at a time, borrowing a     *)
(* running task or, when both cores are idle, on a private stack.  Names,  *)
(* credentials, channels and MACs are reduced to what a join or a connect  *)
(* decides on.  The guest's view is what the delivered events told it.  A  *)
(* behaviour has AP clients or Ethernet traffic.                           *)
(***************************************************************************)
CONSTANTS
    Clients,      \* stations that may join the soft AP
    ClientMax,    \* WIFI_AP_CLIENT_MAX
    MaxPending,   \* MAX_PENDING_EVENTS
    RxSlots,      \* WIFI_ETHERNET_RX_SLOTS
    MaxFrames,    \* Ethernet frames of a behaviour
    Modes         \* wifi_mode_t values the guest selects

WifiStationAssumption ==
    ClientMax \in Nat /\ MaxPending \in Nat \ {0} /\ RxSlots \in Nat \ {0}
    /\ MaxFrames \in Nat /\ Modes \subseteq {"null", "sta", "ap", "apsta"}

Pages == 1..RxSlots
NoEvent == [kind |-> "none", who |-> "none"]
Base(e) == IF e.kind = "got_ip" THEN "ip" ELSE "wifi"

\* wifi_stubs_create, and what the host provisioned
StaInit ==
    \E native, network, traffic \in BOOLEAN, known \in SUBSET Clients :
       /\ Cardinality(known) <= ClientMax /\ (traffic => known = {})
       /\ dev = [native |-> native, traffic |-> traffic, network |-> network, mode |-> "null", connected |-> FALSE,
                 other |-> FALSE,
                 ap |-> FALSE, known |-> known, provisioned |-> known, joined |-> {},
                 queue |-> <<>>, handlers |-> {}, todo |-> <<>>, busy |-> FALSE, scratch |-> NoEvent,
                 view |-> [sta |-> FALSE, clients |-> {}], lost |-> FALSE,
                 frames |-> <<>>, given |-> 0, page |-> [p \in Pages |-> 0], torn |-> FALSE]

-----------------------------------------------------------------------------
(* Queued events.                                                          *)

\* After an event was dropped the guest's view is not followed further.
Dropped(d) == [d EXCEPT !.lost = TRUE, !.view = [sta |-> FALSE, clients |-> {}]]
See(d, view) == IF d.lost THEN d ELSE [d EXCEPT !.view = view]

\* wifi_queue_event, wifi_queue_ap_client_event: a full queue drops the event
Queue(d, e) ==
    IF Len(d.queue) >= MaxPending THEN Dropped(d)
    ELSE [d EXCEPT !.queue = Append(@, e)]

\* STA_START, AP_START, STA_STOP and AP_STOP are one kind here, a notice.
Event(kind) == [kind |-> kind, who |-> "none"]

IsSta == dev.mode \in {"sta", "apsta"}
IsAp == dev.mode \in {"ap", "apsta"}

\* wifi_stubs_ap_client_join, for a station that knows the password or not;
\* a station the AP turns away for its password keeps its record
Joined(d, c, password, limit) ==
    IF ~d.ap \/ c \in d.joined \/ (c \notin d.known /\ Cardinality(d.known) >= ClientMax) THEN d
    ELSE LET e == [d EXCEPT !.known = @ \union {c}]
         IN  IF Cardinality(d.joined) >= limit \/ ~password THEN e
             ELSE Queue([e EXCEPT !.joined = @ \union {c}], [kind |-> "join", who |-> c])

\* wifi_stubs_ap_client_leave
Left(d, c) ==
    IF c \notin d.joined THEN d
    ELSE Queue([d EXCEPT !.joined = @ \ {c}], [kind |-> "leave", who |-> c])

-----------------------------------------------------------------------------
(* The guest's calls.                                                      *)

\* stub_esp_wifi_set_mode; stub_esp_wifi_restore is mode "null"
SetMode(m) == dev' = [dev EXCEPT !.mode = m]

\* stub_esp_wifi_start: provisioned clients come up with the AP
Start ==
    LET d == IF IsSta THEN Queue(dev, Event("notice")) ELSE dev
    IN  dev' = IF IsAp
               THEN FoldSet(LAMBDA c, e : Joined(e, c, TRUE, ClientMax),
                            [Queue(d, Event("notice")) EXCEPT !.ap = TRUE],
                            dev.provisioned \ dev.joined)
               ELSE d

\* stub_esp_wifi_stop
Stop ==
    LET d == IF IsSta THEN Queue(dev, Event("notice")) ELSE dev
    IN  dev' = IF IsAp
               THEN [FoldSet(LAMBDA c, e : Left(e, c), Queue(d, Event("notice")), dev.joined)
                     EXCEPT !.ap = FALSE]
               ELSE d

\* stub_esp_wifi_set_config for the station: the credentials of the
\* provisioned network, or others (without one they decide nothing)
SetConfig(other) == dev.network /\ dev' = [dev EXCEPT !.other = other]

\* stub_esp_wifi_connect: with a network provisioned, its name and password
\* decide; without one every association succeeds.  The reason code a
\* disconnection will report (disconnect_reason) is left out.
StaConnect ==
    dev' = IF dev.network /\ dev.other
           THEN Queue([dev EXCEPT !.connected = FALSE], Event("disconnected"))
           ELSE Queue(Queue([dev EXCEPT !.connected = TRUE], Event("connected")), Event("got_ip"))

\* stub_esp_wifi_disconnect
Disconnect == dev' = Queue([dev EXCEPT !.connected = FALSE], Event("disconnected"))

\* record_esp_event_handler_register, for every event of a base
Register(base) ==
    base \notin dev.handlers /\ (base = "ip" => "wifi" \in dev.handlers) /\ dev' = [dev EXCEPT !.handlers = @ \union {base}]

\* The host has a station join or leave, or provisions it.
ClientJoins(c, password, limit) == ~dev.traffic /\ dev' = Joined(dev, c, password, limit)
ClientLeaves(c) == c \in dev.joined /\ dev' = Left(dev, c)

\* wifi_stubs_ap_provision_client
Provision(c) ==
    /\ ~dev.traffic
    /\ c \in dev.known \/ Cardinality(dev.known) < ClientMax
    /\ dev' = [dev EXCEPT !.known = @ \union {c}, !.provisioned = @ \union {c}]

-----------------------------------------------------------------------------
(* Ethernet frames.                                                        *)

Numbers == dev.given + Len(dev.frames)

\* wifi_stubs_queue_ethernet_frame: refused when the queue is full
QueueFrame ==
    /\ dev.traffic /\ Numbers < MaxFrames
    /\ Len(dev.frames) < RxSlots
    /\ dev' = [dev EXCEPT !.frames = Append(@, Numbers + 1)]

FreePages(d) == {p \in Pages : d.page[p] = 0}

\* wifi_tick_ethernet_rx, when the guest is quiescent and has registered its
\* callback, which keeps the page or refuses the frame
TickEthernet(kept) ==
    LET p == CHOOSE q \in FreePages(dev) : \A r \in FreePages(dev) : q <= r
    IN  /\ dev.frames # <<>> /\ FreePages(dev) # {}
        /\ dev' = [dev EXCEPT !.frames = Tail(@), !.given = @ + 1,
                              !.torn = @ \/ dev.page[p] # 0 \/ Head(dev.frames) # dev.given + 1,
                              !.page[p] = IF kept THEN Head(dev.frames) ELSE 0]

\* stub_wifi_ethernet_rx_free
FreePage(p) == dev.page[p] # 0 /\ dev' = [dev EXCEPT !.page[p] = 0]

-----------------------------------------------------------------------------
(* wifi_stubs_tick: one step of delivery.                                  *)

\* What an event tells the guest.
Told(view, e) ==
    CASE e.kind = "connected"    -> [view EXCEPT !.sta = TRUE]
      [] e.kind = "disconnected" -> [view EXCEPT !.sta = FALSE]
      [] e.kind = "join"         -> [view EXCEPT !.clients = @ \union {e.who}]
      [] e.kind = "leave"        -> [view EXCEPT !.clients = @ \ {e.who}]
      [] OTHER                   -> view

\* With an idle frame path, which goes first.
NoFrame == dev.frames = <<>> \/ FreePages(dev) = {}

\* The guest's own event loop: the event leaves the queue once it is posted.
TickNative ==
    /\ dev.native /\ NoFrame /\ dev.queue # <<>>
    /\ Base(Head(dev.queue)) \in dev.handlers
    /\ dev' = See([dev EXCEPT !.queue = Tail(@)], Told(dev.view, Head(dev.queue)))

\* The next event is laid out in the scratch area for its handlers, of which
\* WIFI_EVENT has two.
Loaded ==
    LET e == Head(dev.queue)
        d == [dev EXCEPT !.queue = Tail(@)]
    IN  IF Base(e) \in dev.handlers THEN [d EXCEPT !.todo = IF Base(e) = "ip" THEN <<e>> ELSE <<e, e>>,
                                                        !.scratch = e]
        ELSE IF Told(dev.view, e) = dev.view THEN d ELSE Dropped(d)

\* A handler started earlier has returned (guest_call_async_busy).
Idle == ~dev.busy

\* A handler is started on a borrowed task, runs to its end on a private
\* stack, or is put off with its place kept.
TickHandlers(how) ==
    /\ ~dev.native /\ NoFrame /\ Idle
    /\ dev.todo # <<>> \/ dev.queue # <<>>
    /\ LET d == IF dev.todo = <<>> THEN Loaded ELSE dev
       IN  dev' = IF d.todo = <<>> \/ how = "defer" THEN d
                  ELSE See([d EXCEPT !.todo = Tail(@), !.busy = how = "async",
                                     !.scratch = IF how = "async" \/ Len(d.todo) > 1 THEN @ ELSE NoEvent],
                           Told(d.view, d.todo[1]))

\* The borrowed task comes back from the handler.
HandlerReturns ==
    dev.busy /\ dev' = [dev EXCEPT !.busy = FALSE, !.scratch = IF dev.todo = <<>> THEN NoEvent ELSE @]

StaNext ==
    \/ \E m \in Modes : SetMode(m)
    \/ \E other \in BOOLEAN : SetConfig(other)
    \/ Start \/ Stop \/ StaConnect \/ Disconnect
    \/ \E b \in {"wifi", "ip"} : Register(b)
    \/ \E c \in Clients, pass \in BOOLEAN : ClientJoins(c, pass, ClientMax)
    \/ \E c \in Clients : ClientLeaves(c) \/ Provision(c)
    \/ QueueFrame \/ TickEthernet(TRUE) \/ TickEthernet(FALSE)
    \/ \E p \in Pages : FreePage(p)
    \/ TickNative
    \/ \E how \in {"async", "private", "defer"} : TickHandlers(how)
    \/ HandlerReturns

StaSpec == StaInit /\ [][StaNext]_dev

-----------------------------------------------------------------------------
StaTypeOK ==
    /\ Len(dev.queue) <= MaxPending /\ Len(dev.frames) <= RxSlots
    /\ dev.joined \subseteq dev.known /\ Cardinality(dev.known) <= ClientMax

(* The event queue and both ways of delivering it: once everything queued    *)
(* is delivered, and if nothing was dropped, the guest knows whether its     *)
(* station is associated and which clients its AP has.                       *)
ViewCurrent ==
    dev.queue = <<>> /\ dev.todo = <<>> /\ ~dev.lost =>
       dev.view = [sta |-> dev.connected, clients |-> dev.joined]

(* wifi_stubs_tick: however long its handlers take, on a borrowed task that  *)
(* may block, each of them finds its own event's data in the scratch area.   *)
PayloadStable == dev.todo # <<>> => dev.scratch = dev.todo[1]

(* The payload is written at delivery; a handler still running on a borrowed *)
(* task keeps reading its own event's data.                                  *)
ScratchStep ==
    ~dev.native /\ dev.busy /\ dev'.busy => dev'.scratch = dev.scratch
ScratchKept == [][ScratchStep]_dev

(* Ethernet receive: frames are handed over in order, and a page the guest   *)
(* still holds is never written again.                                       *)
FramesWhole == ~dev.torn

-----------------------------------------------------------------------------
(***************************************************************************)
(* The Bluetooth boundary: the HCI stream reassembler of ble_hci.c, the    *)
(* forwarding of commands, events and ACL data between the guest's NimBLE  *)
(* host and an external controller, and the virtual controller that stands *)
(* in when there is none (bt_stubs.c).                                     *)
(*                                                                         *)
(* A behaviour exercises one part, chosen in Init: "link" (commands and    *)
(* packets of the external controller), "quiet" (one packet more, on a     *)
(* link where nothing fails), "acl" (data sent to it) or "virtual".  The   *)
(* controller is another process: it may emit bytes at any time, also      *)
(* inside a pump or while a command waits.                                 *)
(*                                                                         *)
(* A byte of the stream is a number: 4 and 2 are the H4 indicators of an   *)
(* event and of ACL data; the next byte is the length of the body; a body  *)
(* byte is the packet's number, 10 or more, so that it never looks like    *)
(* an indicator, and a junk byte is 0.                                     *)
(***************************************************************************)
CONSTANTS
    QueueSize,    \* hci_pending holds that many packets (16)
    PoolSize,     \* buffers of the guest's event pool (30)
    MaxPacket,    \* BLE_HCI_MAX_PACKET in body bytes (2048)
    Patience,     \* empty polls before a command times out (5000 ms / 50 ms)
    MaxPackets,   \* packets and commands of one behaviour
    Faults,       \* subset of {"junk", "overlong", "close", "send", "late"}
    Parts         \* subset of {"link", "quiet", "acl", "virtual"}

BtAssumption ==
    /\ QueueSize \in Nat \ {0} /\ PoolSize \in Nat \ {0}
    /\ MaxPacket \in 1..6 /\ Patience \in Nat \ {0} /\ MaxPackets \in Nat
    /\ Faults \subseteq {"junk", "overlong", "close", "send", "late"}
    /\ Parts \subseteq {"link", "quiet", "acl", "virtual"}

Evt == 4
Acl == 2
Ids == 10..(11 + MaxPackets)
Packets == [type : {Evt, Acl}, id : Ids]

NoCommand == [id |-> 0, waited |-> 0]

\* bt_stubs_t with the connection (wire: sent by the controller and not yet
\* read; buf: ble_hci_conn_t.pending), the packet types for which the firmware
\* has the symbols (sinks), and history: what the host was given, what a
\* command was answered with, what became of the pool's buffers, and whether
\* a packet has been refused.
BtInit ==
    dev \in [part : Parts,
             wire : {<<>>}, buf : {<<>>}, closed : {FALSE}, next : {10}, emitted : {0},
             queue : {<<>>}, pump : {"idle"}, command : {NoCommand},
             owed : {<<>>}, acks : {{}}, timeouts : {0},
             sinks : {{Evt, Acl}, {Evt}},       \* without ACL symbols, or with
             free : {PoolSize}, held : {0}, leaked : {0}, twice : {0}, late : {0},
             given : {<<>>}, lost : {0}, counted : {0}, broken : {0}, refused : {FALSE},
             own : {TRUE}, chain : {"none"}, frees : {0},
             adv : {0}, rsp : {0}, advertising : {FALSE}, air : {<<>>},
             scanning : {FALSE}, callbacks : {FALSE}, seen : {0}]

-----------------------------------------------------------------------------
(* The controller *)

Bytes(p, len) == <<p.type, len>> \o [i \in 1..len |-> p.id]

Linked == dev.part \in {"link", "quiet"}
Room == dev.next < 10 + MaxPackets + (IF dev.part = "quiet" THEN 1 ELSE 0)

Emit(type) ==
    /\ Linked /\ ~dev.closed /\ Room
    /\ \E len \in {1, MaxPacket} :
         dev' = [dev EXCEPT !.next = @ + 1, !.emitted = @ + 1,
                            !.wire = @ \o Bytes([type |-> type, id |-> dev.next], len)]

\* It answers the oldest command it was sent (Command Complete or Status).
Ack ==
    /\ Linked /\ dev.owed # <<>>
    /\ dev' = [dev EXCEPT
         !.owed = Tail(@), !.acks = @ \cup {Head(dev.owed)},
         !.emitted = IF dev.closed THEN @ ELSE @ + 1,
         !.wire = IF dev.closed THEN @
                  ELSE @ \o Bytes([type |-> Evt, id |-> Head(dev.owed)], 1)]

Disturb(fault) ==
    /\ dev.part = "link" /\ fault \in Faults /\ ~dev.closed /\ dev.broken = 0
    /\ dev' = CASE fault = "close" -> [dev EXCEPT !.closed = TRUE, !.broken = 1]
                [] fault = "junk"  -> [dev EXCEPT !.wire = @ \o <<0>>, !.broken = 1]
                [] fault = "overlong" ->
                     [dev EXCEPT !.wire = @ \o <<Acl, MaxPacket + 3>>
                                            \o [i \in 1..(MaxPacket + 3) |-> 0],
                                 !.broken = 1]

-----------------------------------------------------------------------------
(* ble_hci_recv *)

\* Bytes that are no indicator are dropped one by one.
Skip(s) == LET good == {i \in 1..Len(s) : s[i] \in {Evt, Acl}}
           IN IF good = {} THEN <<>>
              ELSE SubSeq(s, CHOOSE i \in good : \A j \in good : i <= j, Len(s))

\* One packet out of the buffered bytes: rc 1 with the packet, 0 when bytes
\* are missing, -1 for an over-long packet, whose indicator is dropped.
Parse(s) ==
    LET b == Skip(s) IN
    IF Len(b) < 2 THEN [rc |-> 0, buf |-> b, packet |-> <<>>]
    ELSE IF b[2] > MaxPacket THEN [rc |-> -1, buf |-> Tail(b), packet |-> <<>>]
    ELSE IF Len(b) < 2 + b[2] THEN [rc |-> 0, buf |-> b, packet |-> <<>>]
    ELSE [rc |-> 1, buf |-> SubSeq(b, 3 + b[2], Len(b)),
          packet |-> [type |-> b[1], id |-> b[3]]]

PendingSize == 2 + MaxPacket

\* A whole call: the buffered packet if there is one, else one read of n
\* bytes (n = 0: the socket had nothing) and another try.
Recv(d, n) ==
    LET first == Parse(d.buf)
        room  == PendingSize - Len(first.buf)
        take  == IF n > room THEN room ELSE n
        again == Parse(first.buf \o SubSeq(d.wire, 1, take))
        out   == IF first.rc # 0 THEN first
                 ELSE IF n = 0
                      THEN [first EXCEPT !.rc = IF d.closed /\ d.wire = <<>> THEN -1 ELSE 0]
                 ELSE IF room = 0 THEN [rc |-> -1, buf |-> <<>>, packet |-> <<>>]
                 ELSE again
        used  == IF first.rc # 0 \/ n = 0 \/ room = 0 THEN 0 ELSE take
    IN [rc |-> out.rc, packet |-> out.packet,
        dev |-> [d EXCEPT !.buf = out.buf,
                          !.wire = SubSeq(@, used + 1, Len(@))]]

\* The reads a call may make: nothing yet, one byte, or all there is.
Reads == IF dev.wire = <<>> THEN {0}
         ELSE IF dev.part = "quiet" THEN {Len(dev.wire)} ELSE {0, 1, Len(dev.wire)}

-----------------------------------------------------------------------------
(* Delivery into the guest *)

\* bt_hci_queue_async: a full queue drops the packet and counts it.
QueueAsync(d, p) ==
    IF Len(d.queue) >= QueueSize THEN [d EXCEPT !.lost = @ + 1]
    ELSE [d EXCEPT !.queue = Append(@, p)]

\* bt_hci_deliver's outcomes: neither core is quiescent; the guest allocates
\* no buffer, or does and times out; it refuses the packet, and the buffer is
\* released or not; it takes the packet and times out, so that the buffer is
\* released under it; there is nobody to take the packet; it is taken.
Refusals == {"deferred", "no_buffer", "lost_buffer", "refused", "unreleased", "late"}
Outcomes == Refusals \cup {"never", "taken"}

\* The event pool is counted; ACL data draws on msys, then on the transport
\* pool, which are taken as one that the guest refills by itself.
Deliver(d, p, how) ==
    LET evt == IF p.type = Evt THEN 1 ELSE 0
        taken == [d EXCEPT !.given = Append(@, p.id), !.held = @ + evt]
    IN  CASE how = "taken" -> [taken EXCEPT !.free = @ - evt]
          [] how = "late" -> [taken EXCEPT !.late = @ + 1, !.twice = @ + evt, !.refused = TRUE]
          [] how \in {"lost_buffer", "unreleased"} ->
               [d EXCEPT !.free = @ - evt, !.leaked = @ + evt, !.refused = TRUE]
          [] how = "never" -> [d EXCEPT !.lost = @ + 1]
          [] OTHER -> [d EXCEPT !.refused = TRUE]

\* A guest call times out after it took the packet, or loses a buffer, at most
\* once per behaviour.
Possible(d, p) ==
    LET full == p.type = Acl \/ d.free > 0 IN
    IF d.part = "quiet" THEN {IF full THEN "taken" ELSE "no_buffer"}
    ELSE IF p.type \notin d.sinks THEN {"deferred", "never"}
    ELSE {"deferred", "no_buffer"}
         \cup (IF full THEN {"refused", "taken"} ELSE {})
         \cup (IF full /\ "late" \in Faults /\ d.late = 0 THEN {"late"} ELSE {})
         \cup (IF full /\ p.type = Evt /\ d.leaked = 0 THEN {"lost_buffer", "unreleased"} ELSE {})

\* The host works on an event and frees its buffer.
HostFrees ==
    /\ Linked /\ dev.held > 0
    /\ dev' = [dev EXCEPT !.held = @ - 1, !.free = @ + 1]

\* bt_stubs_hci_pump runs between two batches, so never inside a command.
\* First the queued packets, up to one the guest cannot take; a packet
\* that was handed over, or can never be, leaves the queue.
PumpStart ==
    /\ Linked /\ dev.pump = "idle" /\ dev.command = NoCommand
    /\ dev' = [dev EXCEPT !.pump = "queued"]

PumpQueued ==
    /\ dev.pump = "queued"
    /\ \/ /\ dev.queue = <<>>
          /\ dev' = [dev EXCEPT !.pump = "reading"]
       \/ /\ dev.queue # <<>>
          /\ \E how \in Possible(dev, Head(dev.queue)) :
               LET d == Deliver(dev, Head(dev.queue), how) IN
               dev' = IF how \in Refusals THEN [d EXCEPT !.pump = "reading"]
                      ELSE [d EXCEPT !.queue = Tail(@)]

\* Then whatever the socket has, delivered directly or queued.
PumpRead ==
    /\ dev.pump = "reading"
    /\ \E n \in Reads :
         LET r == Recv(dev, n) IN
         IF r.rc # 1 THEN dev' = [r.dev EXCEPT !.pump = "idle"]
         ELSE \E how \in Possible(r.dev, r.packet) :
                LET d == Deliver(r.dev, r.packet, how) IN
                dev' = IF how \in Refusals THEN QueueAsync(d, r.packet) ELSE d

-----------------------------------------------------------------------------
(* forward_ble_hs_hci_cmd_tx: the guest is blocked until the answer *)

BtAnswer(d, id) == [d EXCEPT !.command = NoCommand,
                           !.own = @ /\ id = d.command.id]

TimeOut(d) == [d EXCEPT !.command = NoCommand, !.timeouts = @ + 1]

Command ==
    /\ Linked /\ dev.pump = "idle" /\ dev.command = NoCommand /\ Room
    /\ \/ dev' = [dev EXCEPT !.command = [id |-> dev.next, waited |-> 0],
                             !.owed = Append(@, dev.next), !.next = @ + 1]
       \/ /\ "send" \in Faults /\ dev.part = "link"                      \* the send fails
          /\ dev' = [dev EXCEPT !.timeouts = @ + 1, !.next = @ + 1]

\* bt_hci_is_sync_ack compares the echoed opcode, and every command of this
\* model has the same one: any acknowledgement matches.
IsSyncAck(p) == p.type = Evt /\ p.id \in dev.acks

Await ==
    /\ dev.command # NoCommand
    /\ \E n \in Reads :
         LET r == Recv(dev, n) IN
         dev' = CASE r.rc < 0 -> TimeOut(r.dev)
                  [] r.rc = 0 /\ dev.command.waited + 1 >= Patience -> TimeOut(r.dev)
                  [] r.rc = 0 /\ dev.command.waited + 1 < Patience ->
                       [r.dev EXCEPT !.command.waited = @ + 1]
                  [] r.rc = 1 ->
                       IF IsSyncAck(r.packet)
                       THEN [BtAnswer(r.dev, r.packet.id) EXCEPT !.acks = @ \ {r.packet.id},
                                                               !.counted = @ + 1]
                       ELSE QueueAsync(r.dev, r.packet)

-----------------------------------------------------------------------------
(* forward_ble_hci_acl_tx: the transport owns the chain it is given.  An   *)
(* exit that does not return to the caller leaves the program counter on   *)
(* the hooked function, which is called again with the same chain.         *)

AclTx ==
    /\ dev.part = "acl" /\ dev.chain = "none"
    /\ \E len \in {"valid", "unusable"} : dev' = [dev EXCEPT !.chain = len, !.frees = 0]

AclForward ==
    /\ dev.chain # "none"
    /\ dev' = [dev EXCEPT !.frees = IF @ = 2 THEN 2 ELSE @ + 1,
                          !.chain = IF @ = "unusable" THEN @ ELSE "none"]

-----------------------------------------------------------------------------
(* The virtual controller: conditional_ble_hs_hci_cmd_tx and the spies.    *)
(* Advertising data is 1 or 2; 0 is none; invalid data is refused.         *)

Virtual == dev.part = "virtual"

SetData(field) ==
    /\ Virtual
    /\ \E data \in 0..2, valid \in BOOLEAN :
         dev' = IF ~valid THEN dev
                ELSE [dev EXCEPT !.adv = IF field = "adv" THEN data ELSE @,
                                 !.rsp = IF field = "rsp" THEN data ELSE @]

AdvEnable ==
    /\ Virtual
    /\ \E on \in BOOLEAN :
         dev' = IF on THEN [dev EXCEPT !.advertising = TRUE, !.air = <<dev.adv, dev.rsp>>]
                ELSE [dev EXCEPT !.advertising = FALSE]

SetCallbacks == Virtual /\ \E c \in BOOLEAN : dev' = [dev EXCEPT !.callbacks = c]
ScanSpy == Virtual /\ \E s \in BOOLEAN : dev' = [dev EXCEPT !.scanning = s]

\* bt_stubs_inject_advertisement: result -2 unless scanning with callbacks.
Inject ==
    /\ Virtual
    /\ dev' = [dev EXCEPT !.seen = IF dev.scanning /\ dev.callbacks THEN 1 ELSE -2]

-----------------------------------------------------------------------------
BtNext ==
    \/ \E type \in {Evt, Acl} : Emit(type)
    \/ Ack
    \/ \E fault \in {"junk", "overlong", "close"} : Disturb(fault)
    \/ HostFrees \/ PumpStart \/ PumpQueued \/ PumpRead
    \/ Command \/ Await \/ AclTx \/ AclForward
    \/ \E field \in {"adv", "rsp"} : SetData(field)
    \/ AdvEnable \/ SetCallbacks \/ ScanSpy \/ Inject

BtSpec == BtInit /\ [][BtNext]_dev

-----------------------------------------------------------------------------
BtTypeOK ==
    /\ dev.part \in Parts /\ dev.closed \in BOOLEAN
    /\ dev.queue \in Seq(Packets) /\ Len(dev.queue) <= QueueSize
    /\ Len(dev.buf) <= PendingSize
    /\ dev.free \in 0..(PoolSize + 1) /\ dev.held \in 0..(PoolSize + 1)
    /\ dev.pump \in {"idle", "queued", "reading"}

\* Every buffer of the guest's event pool is in the host's hands, in the pool,
\* or was lost to a guest call that failed; a plain refusal never drains the
\* pool.  A call that timed out after the host took the event leaves its buffer
\* in both hands, once per such call.
PoolAccounted ==
    /\ dev.free + dev.held + dev.leaked = PoolSize + dev.twice
    /\ dev.twice <= dev.late

\* However the controller's stream is cut into reads, and whatever junk or
\* over-long packet it holds, each packet is given to the host, queued,
\* taken as an answer, counted as dropped or still in the stream: once, but
\* for one more copy per guest call that timed out after it took its packet.
\* (Numbers in the stream are the body bytes 10 and up.)
NothingLost ==
    LET inside == {i \in Ids : i \in ToSet(dev.wire) \cup ToSet(dev.buf)}
        queued == {dev.queue[i].id : i \in DOMAIN dev.queue}
        copies == Len(dev.given) + Len(dev.queue) + Cardinality(inside)
    IN /\ copies + dev.lost + dev.counted = dev.emitted + dev.late
       /\ copies - Cardinality(ToSet(dev.given) \cup queued \cup inside) <= dev.late

\* As long as no command has timed out, each is answered by its own
\* acknowledgement, not by another event that arrived while it waited.
AnswersOwn == dev.timeouts = 0 => dev.own

\* "Deliver already-queued packets before reading new ones": packets that
\* arrived during a command are not overtaken by later ones, as long as the
\* guest refuses nothing and no command's late answer is taken for an event.
OrderKept ==
    dev.timeouts = 0 /\ ~dev.refused =>
        \A i, j \in DOMAIN dev.given : i < j => dev.given[i] < dev.given[j]

\* The same of a guest that may refuse a packet, which stays queued.
DeliveredInOrder ==
    dev.timeouts = 0 /\ dev.lost = 0 /\ dev.late = 0 =>
        \A i, j \in DOMAIN dev.given : i < j => dev.given[i] < dev.given[j]

\* "Host did not take ownership": no packet is given to the host twice.
GivenOnce == IsInjective(dev.given)

\* "The transport owns the chain, so every exit frees it": exactly once.
ChainFreedOnce == dev.frees <= 1
=============================================================================
