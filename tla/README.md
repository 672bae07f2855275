# Formal model of sencd

sencd is a small VPN in C: a server and clients that shake hands over TCP, derive
session keys, and then tunnel IP packets between TUN devices in UDP datagrams. This
directory holds TLA+ modules of its concurrent parts, the TLC configurations that
check them on small instances, and TLAPS proofs of what matters most for every
instance. Paths are relative to the repository; `session_manager.c:95` is
`src/sessions/session_manager.c`, line 95.

## 1. The system

| part | state | operations | talks to |
|---|---|---|---|
| session table (`session_manager.c`) | `sessions[MAX_SESSIONS]`, `session_count`, `lock` | `add`, `remove`, `get`, `disconnect_all`, around them `connect` | listener adds, UDP thread gets, TUN sender scans, main sweeps |
| server process (`server_env.c`, `server_core.c`) | the listening socket, `running`, the UDP socket, the TUN device, four threads | start, accept, shutdown with its joins | kernel, session table, clients |
| handshake (`session.c`) | `SESSION_T` (state, keys, ids) | hello, challenge, response, success on each side | packet framing, identity and trust files |
| packet framing (`packet.c`) | none between calls | `packet_send` (header, then payload), `packet_receive`, `send_all`, `recv_all` | TCP |
| data path (`session_manager.c:173-323`, `client_env.c:84-190`, `tunnel_packet.c`, `tunnel_compress.c`) | `tx_nonce`, `peer_addr`, `peer_known`, `tunnel_ip_octet` | seal and send, receive and open, learn the peer, route by octet | UDP, TUN devices |
| client process (`client_env.c`, `client_core.c`) | one `CLIENT_T` shared by four threads without a lock, `should_exit` | start, `disconnect`, notice the server's departure, exit | handshake, data path |
| identity and trust files (`crypto.c:70-126`) | two small files | load, create, save | handshake |
| idle mode, logging, `clear` | a flag, the terminal | | shell |
| TUN device (`platform/`) | a descriptor | open, read, write, close | kernel |

What is hard in it, and what would make each part correct:

* **Session table.** Every operation is a loop over an array under a mutex with early
  returns that must each unlock and adjust the count. It is correct if the operations
  are atomic, the count is the number of sessions, no slot refers to freed memory,
  each session has one owner and one tunnel address.
* **Server process.** `session_manager_get` returns a pointer that is used after the
  lock is released; the mutex, the TUN device and the sessions are destroyed by the
  main thread. Only the order close, join, close, join, join, sweep protects the
  others. Correct if nothing is used after it is gone, nothing is left over, and a
  shutdown ends.
* **Handshake.** One thread of the server runs each handshake with blocking calls while
  either end may leave at any point. Correct if each failure path frees the session
  and its socket once, only verified sessions are registered, both ends agree on the
  session (id, keys, identities), and nobody waits for ever.
* **Data path.** Datagrams are lost, repeated and reordered, and anybody may send some;
  the session id travels in clear, is drawn at random, and alone decides whose peer
  address a datagram changes; packets pass through buffers and length checks that
  disagree by a few bytes. Correct if no nonce is used twice with a key, nothing comes
  out that its owner did not put in, packets go to the right client and come out
  whole or not at all.
* **Client process.** Two threads may destroy the session at the same time as a third
  uses it. Correct if nothing leaves the host after the keys are zeroed, the
  connection is closed exactly when it should be, and the client ends.
* **Identity and trust files.** Both are truncated and then written, the writes are not
  looked at, and a file that cannot be read is taken for one that is missing; the clients of one home directory share one file without a lock.
  Correct if what clients trust is the key the server has.
* **Packet framing.** TCP knows no packets, and moves any part of what it is given.
  Correct if packets arrive whole, in order, and none is lost but with its connection.

## 2. The modules

| module | models | composes or refines |
|---|---|---|
| `SessionRegistry` | what `session_manager.h` promises: a bounded set of sessions with atomic operations | |
| `SessionManager` | the slot array, the mutex and the loops | implements `SessionRegistry` |
| `Server` | the server process, the server's side of the handshake and what the clients' ends of the connections do | uses the table as the atomic set `SessionRegistry` promises |
| `TunnelChannel` | what the tunnel promises: private channels that may lose, repeat and reorder | |
| `Tunnel` | both ends of the data path and the UDP network | implements `TunnelChannel` |
| `Client` | the client process once it runs, with `session_destroy` store by store | |
| `SessionAgreement` | what the handshake promises: the two ends of a connection hold the same session | |
| `Handshake` | both ends of the handshake, the two key files, restarts and power losses | implements `SessionAgreement`; its packets travel whole, as `PacketChannel` promises |
| `PacketChannel` | what `packet.c` promises: whole packets, in order | |
| `PacketFraming` | `packet_send` and `packet_receive` over a stream of bytes | implements `PacketChannel` |
| `Pipeline` | one packet's way through buffers, compression and sealing, by its lengths | the lengths `Tunnel` leaves out |
| `SessionManagerProofs`, `ServerProofs`, `TunnelProofs`, `ClientProofs`, `HandshakeProofs`, `PacketFramingProofs`, `PipelineProofs` | theorems | extend the module they are named for |
| `MCSessionManager`, `MCServer`, `MCTunnel`, `MCHandshake`, `MCPipeline` | constants and symmetry for TLC | extend the module they are named for |

`PROJECT.json` maps each definition to the lines it stands for. The definitions
whose comment begins with "Mutant:" are wrong on purpose; nothing uses them but the
mutants listed there, which show that each property can fail.

### SessionManager

`slots`, `count` and `lock` are the fields of `SESSION_MANAGER_T`; `octet` and `sid`
are fields of the sessions; `pc`, `op`, `arg`, `idx`, `ret` are a thread's call. An
action is one step another thread could see: `Lock`, one slot (`TakeSlot`,
`ClearSlot`, `ReadSlot`, `SweepSlot` or `SkipSlot`), `EndLoop`, `Unlock`, `Return`.
`Leave` is the early return, which unlocks and sets the result. `disconnect_all`
destroys the sessions slot by slot and resets the count at the end, so the table is
wrong in between; the refinement mapping shows nobody can tell: an operation takes
effect when it leaves its loop, `disconnect_all` when it takes the lock.

`tunnel_ip_octet` is `(uint8_t)(i + 2)`, here modulo `OctetValues`: the code's value is
256, as in `session_octets`; in `session_manager` it is 3, so that a table of two slots
comes round, too. `AddressesDistinct` therefore does not bound the table: addresses are
distinct until as many sessions were added as an octet has values, whatever the
table's length, because a slot is first taken when all before it are (`SlotsByNumber`).
What happens after that is `session_octets`.

`remove` has no caller in the repository and `get` and `add` are called by one thread
each. The module lets any thread call any operation, which is what the header offers.

### Server

`mpc`, `lpc`, `upc`, `tpc` are the four threads. Descriptors and the variables that
hold them are apart (`listenVar`, `listenOpen`; `udpVar`, `udpOpen`) because
`server_cleanup` closes first and forgets later while other threads read both. A
connection is `fd`, what the server has `sent`, the packet in its `inbox` and the
client's end as the server's TCP sees it (`peer`): after the client closes, a first
send provokes a reset, the next one raises SIGPIPE. Each `send` is a step of its
own; `packet_send` of a packet with payload is two. `accept` needs one of `MaxOpen`
descriptors, and none is given back by a registered session; it may also fail at any
time (`AcceptFails`), with the connection left in the queue. Receiving a packet is one step:
the model's clients send whole packets. The handshake checks (version, nonce,
signature, trust) are the choice between a good packet and `bad`, and a good response
may still find no memory for its payload.

Abstracted: `pthread_create` succeeds (its result is ignored in the code); a
connection is closed once, the second `close` in `server_listener` (line 81) of a
number `session_destroy` has closed being without effect as nobody opens
descriptors by then; `FD_SET` and `select` with the descriptor -1, which
`server_cleanup` may store between them, do nothing and time out (so in the default
CMake build; with `_FORTIFY_SOURCE` the C library would abort); `packet_construct` without memory is a failed handshake; the
shell's commands but `shutdown` change nothing shared.

### Tunnel

A datagram is a record: session id in clear, the key's owner, the counter, the
packet, the source address. Opening it succeeds if the key is the session's. The
network is a set that only grows: any datagram may be received later, again or
never. Besides, the server's port receives datagrams from `StraySources` with any
session id, sealed by no session's key (`StrayDatagram`): the code follows them before
it tries to open them, so a stray moves the session's answers to its source until the
client's next datagram (`PeerIsSource` says exactly how far this goes). The server's listener is three steps, as the code learns the peer address
between finding the session and opening the datagram (`session_manager.c:212-223`).
`Rebind` is an address translator giving the client another port, one no client had
before. A client's UDP socket is connected to the server, so it gets no strays. `tx_nonce` has 64
bits; the bound `MaxCounter` stands for it (and `MaxDown` for the sum over all sessions of the server,
which lets one session use its share and another not) and no property needs its overflow, which
takes 2^64 packets. Lengths and compression are in `Pipeline`. `sid` is one value per
session, as both ends agree on it in the handshake, and may coincide between
sessions: nothing in the code compares them.

### Client

Each test, close and store of `session_destroy` is a step, for either thread; the
stores of `memset` come in any order. Zero in a socket field is a descriptor,
standard input, so the second of two concurrent destroys may close it; `Close` does
that. The TUN sender takes its nonce, seals and sends in three steps. `wire` records
whether the keys were alive when a datagram that left the host was sealed. The
threads end with the process (`Alive`). Startup is two actions, since
`start_client_environment` joins its listener before anything runs concurrently;
the TUN sender and UDP receiver always get their buffers. The main thread is in its
shell, where it tests `should_exit` every second, or in `fgets` (`line`), which `select`
sent it to and which returns with the end of a line or of the input. A terminal
delivers whole lines; a pipe may deliver half of one and no more.

### Handshake

`spc`, `ident` and `cur` are the server's listener, its identity and the connection it
serves; `cpc`, `link`, `trusted` and `challenge` are a client's thread and the fields of
its `SESSION_T`. A connection is two queues of packets, `up` and `down`, and two ends. An
action is what one end does between two blocking calls: it takes a packet from its
queue, runs the checks of the code and puts its answer into the other queue. A packet
is its type and its payload, or none if `packet_construct` got no memory
(`Constructed`). Random values are named for the connection they are drawn on, so they
are distinct by assumption, as keys are; a signature is the pair of who signed and what,
and `crypto_kx` gives the same term at both ends exactly if both used each other's
ephemeral keys in the right roles.

`server_identity.key` is `file` as processes see it and `disk` as a power loss leaves it;
`fopen(..., "wb")` and the writes are two steps, and a write may fail without notice, as
its result is ignored. A load may fail on a good file (`LoadIdentity`), which
`crypto_identity_load_or_create` does not tell from a missing one: it generates a new
identity and truncates the good key. `server_trusted.key` is `trust`, shared by all
clients of the home directory, again truncated in one step and written in another, and
a failing load leads to trust on first use. A file that is missing, short or corrupt is
`NoKey`: the loads treat these alike. `lost` is a history variable: whether a failed
read, a failed write or a power loss has destroyed the server's key.

A process may end at any step (`ServerDies`, `ClientEnds`) and be started again; the
kernel then closes its connections and the other end finds out. A host that loses its
power (`PowerLoss`, `ClientHostDies`) says nothing: its connections become `silent`. What
it had sent may arrive or be lost (`NeverArrives`), and the other end may learn of it,
by a reset of the host come back or by a TCP that repeats its data in vain
(`ClientTimesOut`, `ServerTimesOut`), but need not: neither is fair, as `recv` has no
timeout and an end that only waits sends nothing TCP could miss. `ClientHostDies` ends
every client of the home directory and keeps the trust file or loses it; that it may
come back with an older key is left out, as there is an older one only after the
server's key was lost.

`offered` is the session AUTH_SUCCESS was sent for and `joined` the one a client
established. The server sets its state after the send (`session.c:183`, 190); nobody
else reads that before `session_manager_add`, so `Establish` is one step, and a client
may join as soon as it is taken.

### PacketFraming

`tape` is every byte that was ever sent on the connection, named by packet and offset;
`nread` is how far the receiver is. One `send` or `recv` moves any number of bytes from
one to what is left (and what the kernel's buffer has room for). `total_sent`,
`total_received` and `payload_length` are the code's variables. What the receiver takes
for a header is a header only if those bytes are one (`Heading`); otherwise any length
may be read from them, so that losing step would show. Every caller closes the
connection when a call fails, and so do the two ends here. The bytes' order inside a
header and its version and type are left out; a version or a type that does not fit
ends the connection like a failed `recv`.

### Pipeline

Both threads' buffers by name (`raw`, `compressed`, `encoded`; `buffer`, `plaintext`,
`decompressed`), each holding a length and whose bytes they are; nothing is cleared
between packets, as in the code. The constants are the code's own. `tun_read` cuts what
its buffer cannot hold; zstd is any function whose output is at most `CompressBound` and
which restores what it compressed, or fails; the kernel refuses datagrams longer than
65507 bytes. The two hosts differ in the shortest packet they take (`MinLength`).
Whether the server finds a session to send to is `Tunnel`'s subject: here it does.

## 3. The runs

| run | instance | shows |
|---|---|---|
| `session_manager` | 2 threads, 2 slots, 3 sessions, 2 ids, 3 octets | `IInv` and its parts `CountMatchesTable`, `NoDanglingSlot`; `AddressesDistinct`; `RefinesRegistry`; `LockReleased`: every critical section ends |
| `session_octets` | 1 thread, 256 slots, 256 octets | violated: slot 255 is given the server's own octet |
| `server_safety` | 3 clients, 2 slots, 3 descriptors | `IInv`, `NoUseAfterFree`, `NoUseAfterTeardown`, `SuccessKept`, `CleanShutdown`, `ListenerWaitsForClientOnly`, `NoLateRegistration` |
| `server_live` | 2 clients, 1 slot, 1 descriptor | `ShutdownTerminates`, `ClientsAnswered` |
| `server_sigpipe` | 1 client | violated: a client that leaves during its handshake ends the server |
| `server_stall` | 1 client, clients unfair | violated: a silent client keeps the shutdown waiting |
| `tunnel` | 2 clients, 2 ids, 2 datagrams per client and 3 of the server, 2 ports, 1 stray source | `IInv`, `NonceNeverReused`, `PeerIsSource`, `RoutedByOctet`, `ImplementsChannel` |
| `tunnel_answers` | 2 clients | violated: the answer to the second client goes to the first |
| `handshake` | 2 clients, 2 connections, 2 identities, all faults | `IInv`, `TrustIsCurrent`, `RefusedOnlyAfterLoss`, `NobodyWaitsForTheOther`, `ImplementsAgreement`, `ConnectEnds` |
| `framing` | 4 packets of 0 to 4 bytes, headers of 3, at most 3 allowed, a kernel buffer of 2 | `IInv`, `NeitherEndStalls`, `ImplementsChannel`, `Delivered` |
| `pipeline` | 2 packets, 12 lengths around every limit, 5 lengths of zstd's output | `IInv`, `WholePackets`, `CarriedLengths`, `BuffersSuffice` |
| `client` | the whole module | `IInv`, `SealedWithLiveKeys`, `ConnectionClosedAtExit`, `ShellKeepsItsInput`, `ServerLossEnds`, `DisconnectEnds` |

The bounds: two threads and two slots let one thread hold the lock while the other
waits and let an add be refused; three sessions with two ids force a shared id; that a
third thread changes nothing is proved, not checked. Three
clients for two slots fill the table and refuse one. In `server_live` there are as many
descriptors as slots, as in the code, where a process has 1024 by default and
`MAX_SESSIONS` is 1024: a few of them are taken before the first client, so they run
out first, and a client that comes then is not answered (`OutOfDescriptors`);
`server_safety` has one to spare, so that the table refuses. Two clients show every
interference between sessions, since the code never relates more than two, and two
datagrams per key let a counter be repeated; one change of port lets an old datagram
arrive after a new one; one stray source is enough to take a session's answers away
and, as the code forgets each address with the next, a second would do the same. Two
clients and two connections let one client be served while
the other waits, both find no trusted key, and one come back after it failed; two
identities let the server lose its key once and clients meet the next. A kernel buffer
smaller than a header makes every header travel in parts, and four packets put an
empty, a whole, a longest and a refused one after each other. The lengths of `pipeline`
are those at which some check of the code decides otherwise than one byte before, and
two packets let the second one find what the first has left in the buffers. `Client`
has no constants. Symmetry is used only in runs
without liveness: clients and threads of one kind run the same code. `CHECK_DEADLOCK
FALSE` is set where the process may end, both ends of a connection may be closed or the
bounded supply of sessions runs out;
elsewhere the absence of deadlock is checked.

The four violated properties are sentences of the repository, quoted under
"findings":

* `README.md:44` promises addresses "so tunneled traffic can be routed between them";
  `(uint8_t)(i + 2)` wraps for `MAX_SESSIONS` = 1024 (`session_octets`), and all
  clients configure the same address, `client_env.h:30` (`tunnel_answers`);
* `packet.c:45` handles a failed send, but the signal comes first (`server_sigpipe`);
* `server.c:24` promises that shutdown disconnects all clients; it first waits for a
  thread that may be in `recv` for ever (`server_stall`).

A fifth divergence needs no run. `README.md:86` says "Closing the terminal does not stop
the daemon, so your connection remains active", and names a command `attach` for coming
back. There is no daemon and no `attach` in the code: `client.c` runs the environment in
the foreground, and the end of its input ends the shell, closes the connection and the
process (`client_env.c:310-324`). In `Client` that is `EndOfInput`, `Leave` and `Cleanup`,
one after the other; a property that denies it would only restate them, and
`ConnectionClosedAtExit` relies on the opposite.

## 4. Fairness

`SessionManager`: weak fairness of each thread inside its critical section; the code
there makes no blocking call but `close` and a notice to the client. `Server`: weak
fairness of each of the four threads (`ServerFairness`), which is what a scheduler
gives a thread that can run; every `select` has a timeout of a second, so no
thread waits for one longer. `ClientFairness`, used only in `server_live`, says a
client that has to take the next step of the handshake takes it; `server_stall`
shows that without it the shutdown need not end. `AcceptFairness`, also only there, is
strong fairness of a successful `accept`: it may fail any number of times (the queue
keeps the connection and the loop calls it again), but what the host lacks at one call
it does not lack at all of them. It says nothing once the server itself has used up
the descriptors, as `Accept` is then not enabled; `ClientsAnswered` excepts that case,
and that one only. `Client`: weak fairness of the main
thread (its own reactions, not the user's commands, nor the end of a line) and of the
receiver. `ServerLossEnds` is about a main thread that is not held in `fgets` for ever
(`[]<>(mpc # "line")`), which nothing in the code prevents. The user,
the server's departure, the network and the TUN sender are never fair. `Handshake`:
weak fairness of the server's listener and of each client's thread; both block only in
`recv`, where no step of theirs is enabled. Nobody has to start a process, connect or
end, and no fault has to happen; still `ConnectEnds` holds of a client that the server
may keep waiting behind another, as each handshake ends. What it excepts is an end that
waits for ever for a host that lost its power, the client's own server
(`ClientWaitsInVain`) or another client the server's listener is stuck with
(`ServerWaitsInVain`): without either of the two exceptions the run finds such a
behaviour. (`server_stall` is the other side of it: there the client is not fair.) `PacketFraming`: weak fairness of `send` and of
`recv`, which stands for the two threads and for a TCP that brings what was sent.
`Pipeline` states none: a packet may be lost anywhere.

## 5. What is proved

All theorems are for every value of the constants that satisfies the named
assumptions. Those are: the bounds are natural numbers, `MaxPort`, `HeaderSize` and the
kernel's `Capacity` are positive, `Clients` in `Server` is finite, packets of the TUN
device and zstd's output are not empty, and `NULL`, `Ok` and `Failed` are distinct from
the values they stand beside. Every invariant and every refinement that a passing run
checks is also proved.

* `SessionManagerProofs`. `IInv` is inductive: `ScannedPrefix` is the loop invariant of
  the thread with the lock, `SingleOwner` says who may free a session, and the count
  follows from finite cardinality (a slot is taken or cleared one at a time). From it
  `CountCorrect` and `NoDanglingSessions`. `AddressesUnique` holds for a table of any
  length, with no assumption on it: `SlotsByNumber` is a second invariant, which follows
  from `ScannedPrefix` and `SingleOwner` (a scan that takes slot `i` has met `i` other
  sessions), and before the wrap it makes `SlotOctet` injective on the occupied
  slots. `TableImplementsRegistry`: an operation
  takes effect when it leaves its loop, `disconnect_all` when it takes the lock; while a
  sweep is under way the registry is already empty and only the sweeping thread can
  move, which `LockDiscipline` gives (`SweepOfScanner`, `HiddenRefines`). An add is
  refused in the registry because the scan has met only occupied slots, so that the
  table is as large as its slots (`FullTable`). `RInv` adds to `IInv` that a thread in
  its loop has no result yet.
* `ServerProofs`. `NoUseAfterFree` is not inductive alone. The strengthening is
  `ThreadsFollowMain` (how far the shutdown is tells which threads are gone),
  `OneOwner` (a session is in the handshake or in the table, never both),
  `HeldIsRegistered` (the pointer the UDP thread holds is in the table, and only the
  sweep, after that thread's join, takes anything out), `SocketsAccounted`,
  `RegisteredVerified` and `ShutdownProgress`. From them `SessionsLiveWhileUsed`,
  `ResourcesLiveWhileUsed`, `ShutdownIsClean` and `RegistrationEndsWithListener`.
  `SuccessIsKept` needs more (`SInv`): how many packets the handshake has sent at each
  step (`SentAtStep`), so that one which fails after AUTH_SUCCESS has met a full table,
  and that a full table stays full until the sweep (`DroppedWhenFull`).
  `ListenerWaitsForClient` adds to that (`WInv`) where each client is while the listener
  is at its connection (`ConversationOK`): before the server has read anything, the
  client has sent nothing, or its packet waits, or its end is closed; between its two
  packets, it waits for what the server is about to send, or its second packet waits.
  A client in `waitHello` then cannot meet a listener in its second `recv` that has not
  sent the hello, since `SentAtStep` counts the sends.
* `TunnelProofs`. Every datagram in the network carries a counter below the one its key
  has reached (`UpProvenance`, `DownProvenance`); hence `NoncesUnique`. `PeersAreSources`:
  what the listener holds is a datagram of the network or a stray one that names the
  session it was found for (`HeldProvenance`), and the network forgets nothing.
  `OctetsRouted` follows from
  the octet of the slot a datagram was sealed for. `TunnelImplementsChannel` maps
  `Register`, `ClientSend`, `DecodeDatagram`, `ServerSend` and `ClientReceive` to the
  channel's actions and everything else, strays included, to a stutter; it needs neither
  distinct ids nor known senders, as a datagram no key of the session has sealed is
  never opened.
* `ClientProofs`. The two threads' stores interleave freely, so nothing can be said of
  the values of the fields; what holds is an order: the UDP socket is open only
  while no thread has got past closing it (`UdpClosedFirst`), likewise for TCP
  (`TcpClosedFirst`), and the connection is marked last (`MarkedLast`). From it
  `SealedTrafficOnly` and `NoConnectionLeft`. `InputKept`: a zeroed socket is descriptor
  0, but only a wipe makes one (`ZeroedByTheWipe`) and each thread destroys at most once
  (`DestroyedOnceEach`), so that the input is lost only when both threads have begun to
  destroy (`InputLostToTwo`), and a main thread that has does not come back to its shell.
* `HandshakeProofs`. The invariant says what every packet on its way can be:
  `RequestsHonest` (a challenge carries the identity and the ephemeral key of the server
  that serves this connection, and a session offered later has the same),
  `ResponsesHonest`, `OffersHonest`, `SuccessesHonest`, and `LinksOwned` (a connection is
  never taken up by a second client). `TrustIsAlwaysCurrent` and `NeverRefusedBeforeLoss`
  rest on `OneKey`: until a fault destroys the server's key, every challenge on its way
  names the key in the file, since `ServerProgress` shows no identity is served before
  the step that stores it, and the file goes from one key to another only by a step
  that sets `lost` (`FileStep`). `HandshakeImplementsAgreement` maps `Establish` to `Offer`
  and `Join` to `Join`; sessions of two connections differ in their ids. `NobodyWaits`
  rests on a count (`EndsInStep`): on the connection of a client in its handshake, until
  the server closes it, the packets an end has sent, by where that end is, are those the
  other has taken and those on their way, in order. A client with an empty queue in
  front of it has then taken all that was sent, and what it waits for is what the
  server does next. `SilentEnds` keeps apart the connections whose other end is gone
  without a word.
* `PacketFramingProofs`. `Recorded` and `Consecutive` say where each byte of each packet is
  on the tape, `SenderProgress` and `ReceiverProgress` where the two ends are, down to
  the byte. The receiver's last `HeaderSize` bytes are then the header of exactly the
  next packet, so `Heading` has one value, and what it takes for a payload is that
  packet's. Hence `FramingImplementsChannel`; `Send` of the channel is the return of
  `packet_send`, so a packet given up half-way is neither sent nor received.
  `FramingNeverStalls` follows from the same two positions: what the receiver still
  needs is on the tape, or the sender is in that packet; the kernel then has room, as
  the receiver has read all there was.
* `PipelineProofs`. `Sound` says how long a frame is for the packet it carries and that the
  packet is whole. The one fact about zstd that is needed is that `CompressBound` is at
  least its argument (lemma `Sizes`): what is short enough for zstd is short enough to be
  stored, what `tun_read` has cut is too long for either, and hence
  `PacketsComeOutWhole`. `LengthDecides` and `NoBufferOverrun` are its arithmetic with the
  code's constants.

## 6. What is only model-checked

Liveness: `LockReleased`, `ShutdownTerminates`, `ClientsAnswered`, `ServerLossEnds`,
`DisconnectEnds`, `ConnectEnds` and `Delivered`. Fairness and ENABLED are outside what
the proof system's backends decide. One way these could go wrong is two parties that
wait for each other; that none do is a safety property of its own, proved for every
instance: `ListenerWaitsForClientOnly` under `ClientsAnswered` and `ShutdownTerminates`,
`NobodyWaitsForTheOther` under `ConnectEnds`, `NeitherEndStalls` under `Delivered`. The four violated properties are counterexamples
and need no proof.

## 7. Not modelled

* Reads of `server_identity.key` that return a wrong key instead of failing. A client's
  host whose power loss brings back an older trusted key (section 2). Datagrams of
  strangers that open under a session's key: those they make the AEAD excludes, and a
  copy of a client's own sent from another address is left out.
* Logging and `clear` (output only), the ioctls that create and address the TUN device,
  the Windows file (a stub), command-line parsing, the creation of `~/.sencd-config`.
* The server's shell with idle mode (`idle.c:42`): the model lets the main thread stay in
  its shell as long as it likes, so that what it does there is nothing the other
  threads could tell apart. That `pthread_create` may fail, whose result is ignored.
* Cryptography itself, UDP, TCP, zstd and the kernel are external: the modules state what
  the code relies on (`Signed`, `ClientKeys`, `CompressBound`, `MaxDatagram`, the queues).
* A client's own `client_identity.key`: it is loaded or created like the server's, but
  the server takes any key that signs, so a new one changes nothing. One server per
  trust file: a client that is pointed at a second server finds the first one's key
  (listed as a hazard).
* `htonl`, `htobe64` and their inverses, which are applied in pairs. Version numbers:
  every packet of this program carries the same one.
* In `Pipeline`, packets longer than the interface's default MTU of 1500 occur only with a
  raised MTU; the module covers them because the buffers are written for them. Packets of
  more than 65470 bytes are dropped at one of three places and never delivered, which
  `CarriedLengths` states.
* The instances are small where the proofs are general; liveness is known only for the
  instances of section 3.

What could be added: the shell's commands with idle mode as a module of its own, and a
failing `pthread_create` in `Server`.

## 8. Running it

    tlc -config session_manager.cfg MCSessionManager
    tlc -config handshake.cfg MCHandshake
    tlc -config framing.cfg PacketFraming
    tlapm TunnelProofs.tla

Each run is under two minutes with two workers; the largest are `server_safety`
(2.8 million distinct states), `tunnel` (0.7 million), `handshake` (0.4 million),
`session_manager`, `client` and `server_live` (0.2 million each) and `pipeline`
(0.12 million).
