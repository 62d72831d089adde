# NETConnect in TLA+

A verification development for NETConnect: a peer-to-peer library in C#
(`src/NETConnect`), a window on top of it (`src/NETConnectGUI`), and C++ listeners
(`src/CPlusConnectApp`, `src/PS4NETConnect`). `CPlusConnectApp` carries the source of three
libraries it reads announcements with: `json.hpp` (nlohmann/json 3.11), `guid.cpp` (crossguid) and
`base64.cpp`. They are most of the code in the repository, and part of what a datagram goes through,
so they are modelled too. Paths below are relative to `src/NETConnect` unless they say otherwise;
`json.hpp:n` is `src/CPlusConnectApp/json.hpp`.

Each process is a peer. It announces itself on a multicast group, connects as a
TCP *client* to every peer whose announcement it hears, and is the TCP *server* of
the peers that hear its own. On each connection the client draws a ChaCha20-Poly1305
key and hands it over under the server's RSA key; after that both ends poll the
connection every few milliseconds: heartbeat, then one packet, then again.

## 1. Inventory

| Component (source) | State | Operations | Hard behaviour | What makes it correct | Module |
|---|---|---|---|---|---|
| Server sessions (`BaseTCPServer.cs`) | listen backlog, the client being served, `IsAuthenticating`, `IsAuthenticated`, `Clients` | `StartServer` (accept loop), `HandleClientConnected`, `HandleAuthentication`, `HandleAction` | one thread serves one client at a time; one pair of flags for all clients; peers that go away mid-handshake | both ends hold the same key; the accept thread becomes free again or an exception has ended it; a client that connects is handled | `NetSessions` |
| Client sessions (`BaseTCPClient.cs`) | `IsAuthenticated`, `PacketHelper` (keys) | `TryConnect`, `HandleConnected`, `HandleAuthentication`, `HandleAction` | its task runs the handshake while the multicast thread already sends on the connection | as above; packets that race with the handshake are neither unreadable nor harmful | `NetSessions` |
| Packet encryption (`Shared/Packet/*.cs`, `Shared/SecurityKey.cs`) | keys per connection | `SendPacket`, `SendEncryptedPacket`, `TryDecrypt` | silently sends unencrypted when there is no key | the key itself is never sent so; nothing is sealed with a key the receiver lacks | `NetSessions` |
| Heartbeat (`Shared/HeartBeat.cs`) | `LastBeatAt`, `LastPulseAt`, `FirstBeat`, `PulseAtInSeconds` | `TrySendHeartBeat`, `SendPing`, `IsTimeout`, `SetLastBeat`, `UpdateLatency`, `HandleHeartBeatActions` | two clocks, a stalled thread, late and missing pongs, closes that are half visible | a live peer is never dropped, a dead one is; no flood of pings | `HeartBeat` |
| Framing (`MyExtensions/SocketExtensions.cs`, `Shared/Packet/Headers/PacketHeader.cs`) | bytes in the socket | `Send`, `HasValidHeader`, `ReceivePacket`, `IsGracefulShutdown` | TCP cuts the stream anywhere | packets come out as they went in; the end of the stream is seen | `Framing` |
| Peer discovery (`Shared/Multicast/Multicast.cs`, `Peers/Peer.cs`, Watcher of `NETConnectGUI/Form1.cs`) | `Peer.ConnectedPeers`, `WiredClients` | `HandleOnMulticastMessage`, `AddPeers`, `Watcher` | three threads, one list, no lock; the list object itself is exchanged | each peer is listed once and connected to once, stays listed, and gets its handler | `Discovery` |
| Peer settings (`Shared/PeerSettings.cs`, `ServerSettings.cs`) | constants | none | limits that nothing reads | | defaults in `NetSessions` |
| Audio (`Audio/Audio.cs`) | play-back queue, streaming flag | `QueueAudio`, `ProcessQueue`, `StartStreaming` | list shared by two threads | every frame is played once, in order | not modelled |
| Desktop window (`NETConnectGUI`) | list boxes | buttons, Watcher | the Watcher, above | | Watcher in `Discovery` |
| TLSV2 handshake (`TLSV2` in `BaseTCPServer.cs` and `BaseTCPClient.cs`, `Shared/Packet/PacketEncrypted.cs`) | `HasSentSYN`, `IsAuthorized`, the keys of each `PacketHelper` | one turn per call on each side, `TryEncryptSend` | each packet relies on the key stored by the one before; sends that throw; `PeerJoin` in between | as for the sessions, and no side is authorized alone | `TLSV2` |
| Ciphers (`Encryption/**`), network information, connection wrappers, console | | | | | not modelled |
| Windows C++ listener (`CPlusConnectApp`) | socket, `IsServerRunning`, event subscribers | `StartMulticastServer`, `HandleListening`, `Event::Subscribe`, `Invoke`, `OnDataReceived` | a start that fails half-way; datagrams that cannot be received between those that can; two languages that must agree on a spelling | no socket leaks, each datagram is handled once and read as it was meant | `MulticastListener`, `Announcement` |
| GUID and base64 (`CPlusConnectApp/guid.*`, `base64.*`) | none | encode, decode, parse, print | two alphabets, padding, malformed text that becomes the zero GUID | what one side writes the other reads | `Announcement` |
| JSON text (`json.hpp`: lexer, parser, SAX handlers, serializer) | scanner position, token buffer, look-ahead; stack of parser states, the document, `keep` stacks of the callback; `string_buffer`, `indent_string` | `scan`, `sax_parse_internal`, `json_sax_dom_parser`, `json_sax_dom_callback_parser`, `dump` | fixed buffers filled byte by byte; number types that overflow into one another; a callback that discards parts of a document under construction | exactly RFC 8259 is taken, and a dump is read back | `JsonLexer`, `JsonSerializer`, `JsonParser`, `JsonDump` |
| JSON binary formats (`json.hpp`: `binary_reader`, `binary_writer`) | input, position | CBOR, MessagePack, UBJSON, BJData, BSON, each way | lengths announced before what they count, widths and signs, optimised containers, truncated input | what is written is read back, what is damaged is refused | `JsonBytes`, `JsonBinaryWriter`, `JsonBinaryReader` |
| JSON documents (`json.hpp`: `basic_json`, `json_pointer`) | the document | element access, `insert`, `erase`, `update`, `merge_patch`, `flatten`, `diff`, `patch` | a call that throws half-way; four ways through a pointer that have to agree; mixed number types in comparisons | a refused call changes nothing, patches lead where `diff` says | `JsonPointer`, `JsonDocument`, `JsonPatch` |
| PS4 servers (`PS4NETConnect`) | socket | accept, print | | | not modelled |

How they interact. `Multicast` calls `BaseTCPClient.TryConnect`, which starts the
client's task and returns; the multicast thread then sends `PeerJoin` on that very
connection and adds the client to `Peer.ConnectedPeers`. The remote accept thread
serves the connection, and on `PeerJoin` calls `Peer.AddPeers`, which exchanges its own
`ConnectedPeers`. Both ends' main loops poll a `HeartBeat` and receive through
`SocketExtensions`. The window's Watcher reads `ConnectedPeers` every 100 ms.
There is no lock anywhere in these paths. The C++ program listens on the same group: each
datagram is the JSON text of a `MulticastPacket`, parsed by `json.hpp`, whose GUID and payload go
through `guid.cpp` and `base64.cpp`. Nothing is persisted, so there is no
recovery to model; a crash is a closed connection (`ClientClose`, `RemoteCloses`, `Close`).

## 2. Modules

| Module | What it is |
|---|---|
| `KeyAgreement` | abstract: a client offers a fresh key, the server accepts that key, the client opens |
| `NetSessions` | one server and its clients: accept thread, client tasks, multicast threads, packets in flight. Implements `KeyAgreement` |
| `HeartBeat` | one connection's heartbeat against a clock and a remote process |
| `TLSV2` | the other handshake, turn by turn, per connection. Implements `KeyAgreement` |
| `PacketChannel` | abstract: a reliable FIFO channel of packets |
| `Framing` | the byte stream under one direction of a connection. Implements `PacketChannel` when TCP delivers packets whole |
| `Discovery` | `ConnectedPeers` and the three threads of one process that share it |
| `Announcement` | what both programs make of a datagram: base64, GUIDs, `FromJson`, `ToJson`, and the C# serializer |
| `MulticastListener` | the C++ program: main thread, detached thread, subscribers; extends `Announcement` |
| `JsonLexer` | `scan()`, one action per byte |
| `JsonSerializer` | `dump_escaped`, `dump_integer`, `dump_float`; extends `JsonLexer`, which scans what it wrote |
| `JsonParser` | `sax_parse_internal` and its three handlers, one action per token |
| `JsonDump` | `serializer::dump` for whole documents, one action per element |
| `JsonBytes` | eight-byte integers and IEEE doubles as bytes |
| `JsonBinaryWriter`, `JsonBinaryReader` | the five binary formats, as functions from a value to bytes and back |
| `JsonPointer` | values, tokens, and the walks of `json_pointer` |
| `JsonDocument` | the modifiers of `basic_json` and its comparisons; extends `JsonPointer` |
| `JsonPatch` | `diff`, `patch_inplace` (an operation a step), `patch`; extends `JsonDocument` |
| `MCFraming`, `MCDiscovery` | symmetry sets and constant values for TLC |
| `MCMulticastListener`, `MCJsonText`, `MCJsonParser`, `MCJsonBinary`, `MCJsonDocument` | inputs, the composed next-state relation, reference definitions and the properties that compare with them |
| `NetSessionsProofs`, `TLSV2Proofs`, `HeartBeatProofs`, `FramingProofs`, `DiscoveryProofs`, `MulticastListenerProofs`, `JsonParserProofs`, `JsonTextProofs` | theorems and their proofs |

Definitions that end in `_Something` beside one of the same name are faulty variants: what the
operation would be with a plausible bug in it. No specification uses them; with one put in
the place of the real definition, the property named in `PROJECT.json` fails.

### NetSessions

`srvPc` and `cliPc` say where the threads are. `"loop"` is the top of the main loop,
`"auth"` the loop of `HandleAuthentication`, `"recv"` the receive half of the main loop,
`"accept"` the `TcpListener.AcceptSocket` of the server, and `joinPc` is the multicast thread
after `TryConnect`. An action runs from one blocking or polling point to the next; where another
thread of the same process can send in between (after the key is generated and before the
SYN, for instance) the action is cut there. `c2s` and `s2c` hold whole packets;
`Framing` is about when that is justified. A packet keeps its action, how it is encrypted
(`enc`), under which key (`under`), and the ChaCha key it carries (`data`). Encryption is
ideal: `Readable` is `TryDecrypt` with the right key. A key a client draws is one that
no other client holds (32 random bytes).

`ServerPing`/`ServerNoPing` and `ClientPing`/`ClientNoPing` are `TrySendHeartBeat` seen
from the loop: a beat is due or not. `HeartBeat` has the times. `ServerDropClient` is
the path on which the server gives a client up; the client's test never succeeds
(`BaseTCPClient.cs:305`), so the client has no such action. What is sent to a closed
peer is lost; a peer that closes may take what it sent with it.

Two exceptions end the accept loop, because nothing between them and its task catches anything
(`BaseTCPServer.cs:147` to 158): `srvPc` is then `"dead"`, and the backlog is never served again.
`ServerReceiveThrows` is a `Socket.Receive` that meets a reset: both calls (`SocketExtensions.cs:224`, 271) stand outside
the `try` that begins at 273. Whether a close is orderly or a reset nothing but such a `Receive` can tell, so it is
no variable: with a closed client and bytes still to be read, the next one may throw. `ServerAddPeersThrows` is the
`InvalidOperationException` of `AddPeers` (`Peer.cs:96`) when the multicast thread adds to the list meanwhile,
which `Discovery` has in detail. A client's own `Receive` is not reset, since the server's process never closes a client's socket.

### HeartBeat

Time is kept as ages in seconds; `Tick` makes all of them one older, up to
`TimeoutAfter`, where every comparison is decided. `pc = "verdict"` stands between the
sampling of `now` (line 67) and the later checks, which read the clock again. `stall`
bounds how long the polling thread may be held up between two of its steps; `Tick` waits for the
thread then. `IsServer` selects which loop reacts, because the two read the result
differently. `remote` is `"closed"` after a close and `"reset"` once a send has met it.

### Framing

A byte is its position in the stream. `HasValidHeader` reads 18 bytes at `read`; if a
header was written there its length is known, otherwise the length is any member of
`Garbage`. `ReceiveBody` is the single `Receive` call: what is there, up to the length.
`WholePacketsArrive` is the assumption the code makes of TCP and TCP does not
make: that a segment boundary is a packet boundary. Runs with it show what the code
achieves under it, runs without it show what is left.

### Discovery

A C# `List` is a reference: `Lists` are list objects, `ConnectedPeers` names the current
one, and `items` their contents. `Replace` assigns a new object, so a thread that still
enumerates the old one keeps seeing it. `Add` to a list under enumeration makes the
enumerator throw (`Modified`: the length changed, which is what the version check of
`List<T>.Enumerator` notices, since nothing removes). `List<T>.Any` in `WatchScan` is read
in one piece. Each thread's read, copy, assignment and `Add` is an action of its own.
A thread an exception has ended is at `"dead"`.

### TLSV2

Both sides' `TLSV2` take at most one packet and return how far they are. The server
speaks first with its RSA key (`ServerSYN`); the client makes an RSA pair and answers
(`ClientSYN`); the server sends a test message under that key (`ServerSYNAck`); a client
that can read it draws the ChaCha key (`ClientSYNAck`) and sends it under the server's
key (`ClientSendACK`); the server stores it and returns it under itself (`ServerACK`).
The module is about code nothing calls today: the one call, in the client's main loop,
is commented out (`BaseTCPClient.cs:365`), and it shows the caller this model assumes:
the turn is called until it returns true. `srvPc = "sleep"` is the `Thread.Sleep` between the
reply and `IsAuthorized`, `"threw"` a `Socket.Send` that throws out of `TryEncryptSend`.
Unlike `SendPacket`, `TryEncryptSend` sends nothing without a key and catches nothing.
The branch "Restart whole process" (`BaseTCPServer.cs:324`) needs a send that
neither throws nor sends; for a body that is not empty there is none, so it has no action. A
`PeerJoin` that the multicast thread sends meanwhile is read and dropped, as in `NetSessions`.

### MulticastListener

`StartMulticastServer` is cut at the points where it can fail: before there is a socket,
and with one open. `Subscribe` is its first line, before anything can fail. `main` calls it
once and ignores what it returns (`main.cpp:19`): after a failure, as after the test message, the main thread sleeps for ever. A socket
that fails after `socket()` is closed and `sock` keeps its number. Once `IsServerRunning` is set nothing
resets it (`StopServer` is declared and never defined). `Invoke` is one turn of the loop
in `Event::Invoke`. `OnDataReceived` converts the datagram with `FromJson` and returns before its switch
("blocked for debugging", `Multicast.h:44`), so a call changes the count `handled` and what was
`read`, and nothing else. A datagram has one of the `Payloads`: `MCMulticastListener` lists what
`Multicast.cs` announces, the same with its GUID or base64 spelled in the other ways that are allowed, the
listener's own packet, and broken ones.

### Announcement

Texts are sequences of ASCII codes, because here the spelling *is* the subject. `pos_of_char` has both
alphabets, `base64_decode` its handling of padding and of input that ends early, `Guid` the
38-character scan that turns malformed text into the zero GUID. A function that may throw returns the
set of its value, or the empty set. `FromJson` returns null when anything throws, and loses the
packet it has allocated.

### JsonLexer and JsonSerializer

`label` is the place in `scan()`, named for the code's own labels (`scan_number_decimal1`, ...);
an action takes one byte with `get()`, and `unget()` leaves `next_unget`. Every byte the lexer has read is in
`text`, which is what the reference definitions look at. Those that say what RFC 8259 and RFC 3629 have at a place
of a text without recursion, a number, a comment, white space, a well-formed character, close `JsonLexer`
itself, with the property `TokensScanned` that compares the lexer with them; those that read a whole string or a
number's value (`Unescape`, `Repair`, `Denotes`) are recursive and in `MCJsonText`. `JsonSerializer` fills `string_buffer`
byte by byte with the UTF-8 automaton of `decode`, flushes it by the rule "13 bytes left",
and records in `written` the furthest byte touched, so that an overflow would show. The three error handlers
and `ensure_ascii` are values of variables. The two are composed: what was dumped becomes the lexer's input.

### JsonParser and JsonDump

`label` distinguishes the places where `sax_parse_internal` asks for a token. `states` is its stack of
arrays and objects. Of the callback parser the `ref_stack`, `keep_stack` and `key_keep_stack` are
kept as the code has them, stale entries included; `verdicts` is what the callback said of each event, any
combination. A pointer into the document is the path that leads there. `Opened` reads off the tokens alone which
containers are open; `BracketsMatch` compares the parser with it, `HandlersFollow` the handlers: these are the `JSON_ASSERT`s
at 6880 to 6967 and 7100 to 7264. `JsonDump` turns the recursion of `dump` into the explicit stack `calls`. The composed next-state
relation of `MCJsonParser` builds a document from tokens and dumps it.

### JsonBinaryWriter and JsonBinaryReader

A value maps to bytes and bytes to a value: these are pure, and `MCJsonBinary` walks through what
may happen to the bytes in between: whole, cut at any place, extended, or not written by anybody. Integers
are eight bytes, so nothing is scaled. The reader returns a record of value or error and the position;
`Silent` is a failure that throws nothing. Its recursion runs through the function `Value`, given to
the readers of containers as the parameter `value`.

### JsonPointer, JsonDocument and JsonPatch

A value is a kind and its content. A walk along a pointer is a record of the document (which
`operator[]` and `unflatten` change on the way), the reference reached, and the exception thrown. Each modifier
maps a document to the one it leaves, and an exception id, the library's own (`401`, `312`, ...). `WordBits`
is the width of the two integer types, because comparisons cast between them. In `JsonPatch` each
operation is a step, so that the states between two operations are seen; `Assertion` stands for
`JSON_ASSERT(false)`, after which a build with `NDEBUG` goes on.

## 3. Runs

| Run | Result | What it asks |
|---|---|---|
| `sessions` | holds | secrecy and readability of keys, the refinement of `KeyAgreement`; the client being authenticated gets through, and a served client that closes is given up, or has ended the accept loop with an exception |
| `second_client` | fails | a later client is handled but never authenticated, the server's flags being set already |
| `server_heartbeat` | holds | pings spaced and never ending, closes noticed, no live peer dropped, the timeout never decisive |
| `framing_whole` | holds | with whole packets: a reliable FIFO channel, and the close is seen |
| `framing_split` | fails | a packet cut in two is returned half empty |
| `discovery` | holds | no duplicate entries, each reconnection has a cause, announcements repair what `AddPeers` overwrote, the first peer is wired |
| `tlsv2` | holds | keys sealed, no side authorized alone, the refinement of `KeyAgreement`, and that both sides get through |
| `multicast_listener` | holds | no socket leaks, each datagram that arrives is handled once, whatever else arrives that cannot be received, and what NETConnect announces is read as it was meant, whatever the spelling |
| `json_text` | holds | tokens, values, positions and refusals against RFC 8259 and RFC 3629; the dump's buffer is never overrun; dumps scan back |
| `json_parser` | holds | exactly the grammar's texts are taken and built, a callback's verdicts filter, no handler uses a null or stale pointer, dumps denote the document, the indentation is never read past its end |
| `json_binary` | holds | five formats: written and read back, cut and extended input refused in place, foreign input that is accepted is stable, n-dimensional arrays are filled |
| `json_document` | holds | pointers agree, both merges combine, comparison is an order, a refused call keeps the document, `diff` leads to its target, each patch operation can be taken back |

The failing runs check a sentence the repository says of itself, quoted in
`PROJECT.json` under `findings`; TLC's trace is the counterexample.

Consequences of the same code that have no run of their own:

- A second client waits in the backlog as long as the first one stays, and its main loop, once
  it gets one, runs without a key exchange (`second_client` is what it comes to).
- `PeerJoin` sent while the handshake runs is read and dropped by the server (`Multicast.cs:163`,
  `BaseTCPServer.cs:HandleAuthentication`), although the sender counts on it (`Multicast.cs:133`).
- The client's loop never cancels: its test at `BaseTCPClient.cs:305` cannot succeed, so a server
  that closed is pinged on and on.
- An `Add` of the multicast thread while `AddPeers` enumerates ends the accept loop with an
  exception (`Peer.cs:96`, `BaseTCPServer.cs:149`).
- A peer whose `Add` an `AddPeers` call overwrites is connected to again at its next
  announcement, although `Multicast.cs:117` says "Add only peers that havent been discovered yet".
  `ReconnectsBounded` says how often, `PeerStaysKnown` that it ends.
- The Watcher acts when not *any* listed peer is wired (`Form1.cs:50`), so it wires the
  peers of the first box it shows and no later one, although `Form1.cs:48` says "Check to see if each
  peer is listed in @WiredClients". `FirstPeerWired` is what remains.
- A client that resets its connection while the server reads from it ends the accept loop too
  (`SocketExtensions.cs:224`, 271), and with it the service to every other client. `ServerLeavesClosedClient`
  allows for both exceptions, without which it would fail; `HandledClientAuthenticates` allows for them too and fails all the same.
- The C++ listener's buffer is 1024 bytes; a longer datagram is an error of `recvfrom` and lost. `HandledOnce` says
  that it costs none of the others.
- A malformed GUID becomes the zero GUID and the packet is accepted. What the C++ program would write
  itself (`ToJson`: `Data` as an array of numbers) neither `FromJson` nor the C# side can read.
- A peer that goes silent without closing is never timed out: that is what
  `TimeoutUnreachable` says. For the same reason (`SetLastBeat` sets both times) the
  intervals of 1 s and 5 s have no effect under the cooldown of 10 s.
- Only a ping that was sent sets the times, so the client, which never cancels, tries a failing ping
  again on each turn. `NoPingSpam` is a property of the server's loop.
- After a short read the reader takes body bytes for a header: a negative length ends the
  loop with an exception, and fewer than 18 stray bytes hide the close. `NeverFails` and `CloseNoticed`
  hold with whole packets only.

Of `json.hpp`, met while modelling and kept as the code has it:

- The callback parser leaves a discarded primitive member as a key with a `discarded` value
  (7079, 7223), `end_object` erases only the first discarded child (7105), and `key_keep_stack` keeps stale entries.
  `CallbackFilters`, a part of `ParsesGrammar`, is stated up to that.
- `indent_string` is doubled once where it should be until it is long enough (18139): enough
  while `indent_step` is not larger than 512, which `IndentAssumption` says.
- BSON reads a missing boolean as true (9453) and an unterminated name without an error (9376). CBOR takes a
  negative number below the range of `int64_t` for a positive one (9672). The overflow check of n-dimensional sizes
  sees only products that come out as 0 or the maximum (11332).
- `contains()` throws for an empty token or an overlong index (14430). `unflatten()` takes an
  object whose first key is `"0"` for an array. `operator[]` of a pointer and `update()` have changed the
  document when they throw (14175, 22720, 22751), so `RefusedKeeps` excepts these two; `MergesCombine` says what a merging `update()`
  that throws half-way leaves: parts of the two documents only, and all that its argument does not name.
- `unflatten()` throws for a discarded value, which is not primitive (14624, 20605), so `flatten()` cannot be undone for a document
  that holds one. `FlattenBack`, a part of `PointersAgree`, says so.
- `patch_inplace` leaves the operations before a failing one applied, and a `move` whose `add` fails loses the value
  (24216); `patch` works on a copy. Adding below a primitive reaches `JSON_ASSERT(false)` (24101), although the comment at
  24092 says "if there exists a parent it cannot be primitive"; removing below one does nothing (24111).
- Unsigned numbers above the largest signed one compare as negative ones with signed numbers (22938).

Bounds, and why they are enough.

- *Clients = 2, Keys = 2*: the server's per-process state (flags, `serving`, backlog) is
  shared between connections, and two of them show each way one can affect the next.
  Two keys are one per client; a third would never be drawn.
- *MaxQueue = 1* bounds pings only: one is sent when the queue is empty. The handshake's packets,
  `PeerJoin` and the answers are never held back, so they still queue up behind a ping. The
  safety properties are proved for every `MaxQueue`.
- *HeartBeat* uses the code's own numbers: 120 s, 10 s, and intervals 1, 5 and 10.
  Latencies 49, 50, 200 and 201 are the two sides of both thresholds. `MaxStall = 3` lets
  several seconds pass between `now` and the later clock reading.
- *Framing*: four packets of three sizes in `framing_whole` (one body smaller, one larger
  than a header), three packets of sizes 1 and 6 in `framing_split`, because without whole packets every cut
  is a state. Garbage lengths are negative, 1, and four blanks read as an integer, far larger
  than any body.
- *Discovery*: two other peers (the entry that is lost, and the one whose `Add`
  interferes), three list objects (at most the current one and one kept by each of two
  readers are distinct; the fourth thread of control does not exist), one `PeerJoin`. The proofs lift these bounds.
- *TLSV2*: two connections and two keys; they share nothing but the supply of keys, and two are needed
  to see that. The queues need no bound: one handshake packet is in flight at most (proved), and one `PeerJoin`.
- *MulticastListener*: one start, as in `main`, with each of its failures;
  three datagrams: its own, another's, and one that does not fit; the payloads cover each kind of spelling.
- *json_text*: texts of up to three tokens and a handful of bytes. At each label `MCInputs` offers a
  byte of each class the code tells apart there, the boundaries of the ranges among them. The integer types hold 14 and 13 bits
  instead of 64 and 63, so that a few digits overflow them; `string_buffer` has 16 bytes instead of 512, so that it is flushed
  several times; `MinExp` and `MaxExp` are -2 and 3 for -4 and 15, so that each layout of a float occurs.
- *json_parser*: ten tokens for the plain handlers, fewer for the callback, whose verdicts multiply: three levels,
  repeated keys, and an error at each place. `indent_string` begins with two characters, so that it is extended at the second level.
- *json_binary*: the documents lie on both sides of each limit of width and length. Foreign input has up to four
  bytes, taken from those the format gives a meaning. Strings of 256 bytes are left out for UBJSON and BJData, whose lengths
  are numbers like others.
- *json_document*: 30-odd documents of up to three levels with each type, two calls or patch operations after one another
  (the second meets what the first left), integers of three bits. Pairs of documents go through `diff`, `update`, `merge_patch` and the comparisons.

Deadlock is not checked: each system may really stop, when all clients are closed, the
loop has cancelled, the sender has closed, all threads have ended, both sides are authorized,
the main thread sleeps and the group is silent, or the text, the document or the calls are at their end.

Fairness. Threads keep running: weak fairness of each thread's steps; for `TLSV2`, of each caller's turns. Beyond that,
strong fairness is used where the code loops past the step again and again:
`ServerPing` and `ServerNoPing` (the loop turns every 5 ms, the clock makes a beat
due every 10 s), `Tick` (time passes on a loop that spins), `PingFailed` (a system
that took bytes for a closed peer resets in the end), and `MulticastJoin`/`MulticastConnect` (a live
peer announces itself on and on; some announcement arrives, and connecting does not
fail for ever). Nothing is fair about peers connecting, closing, hanging or sending their
list, or about a user dismissing a message box (`FirstPeerWired` has that as its premise).

## 4. Theorems

For every value of the constants that satisfies the named assumptions:

| Theorem | Statement |
|---|---|
| `NetSessionsProofs!TypeCorrect`, `Invariance` | types, and the inductive invariant |
| `KeyAgreementHolds`, `KeyStaysSecret`, `EverythingReadable` | both ends hold one key, it is never sent in the clear, and what is encrypted can be read |
| `NegotiatesOnce`, `ReadyFollowsACK` | a key once held is never replaced; the server counts a client as authenticated only after storing its key |
| `SessionsAgree` | `NetSessions` implements `KeyAgreement` |
| `TLSV2Proofs!TypeCorrect`, `KeyAgreementHolds`, `KeyStaysSecret`, `NeverHalfOpen` | the invariants of `tlsv2`, for any number of connections and keys |
| `TLSV2Proofs!TurnsAgree` | `TLSV2` implements `KeyAgreement` |
| `HeartBeatProofs!TypeCorrect`, `TimeoutNeverReached`, `NoFalseAlarm`, `ServerSpacesPings` | the safety part of `server_heartbeat` |
| `FramingProofs!TypeCorrect`, `OnlyShortReadsHarm` | whatever TCP cuts |
| `FramingProofs!WholeWithoutSplits`, `NoFailureWithoutSplits`, `StreamIsChannel` | `WholePacketsArrive` implies the channel |
| `MulticastListenerProofs!TypeCorrect`, `Invariance`, `NoSocketLeaks`, `NothingHandledTwice` | wherever the start fails no socket stays open, and no datagram is handled twice or without having been sent, for any datagrams |
| `MulticastListenerProofs!AnnouncementsAreRead` | a datagram that announces a packet, in any spelling of its GUID and its base64, is read as that packet or not taken; for every packet |
| `MulticastListenerProofs!Base64GivesBack` | `base64_decode` makes of every text that spells a sequence of bytes, in digits of either alphabet, padded or not, exactly these bytes; and `base64_encode` spells every sequence of bytes, in both alphabets |
| `JsonTextProofs!ScannedAsWritten`, `ErrorsArePlaced`, `StringsAreUTF8` | of any text: numbers are the longest of the grammar and typed as written, only blanks are skipped, strings are UTF-8, and the position is right |
| `JsonTextProofs!Invariance`, `BufferNeverOverflows`, `StrictThrowsForIllFormed`, `OutputIsPrintable` | of any string, handler, `ensure_ascii` and buffer: the buffer is never overrun, strict throws exactly for what is not UTF-8, and the output can stand between quotes |
| `JsonTextProofs!DumpsScanBack` | every well-formed string is dumped without an exception, and its dump is scanned back as that string |
| `JsonParserProofs!ParserInvariance`, `TextIsBalanced` | of any tokens, at any depth: while the parser goes on each bracket has closed the last one open, of its kind, and a text ends only when none is open |
| `JsonParserProofs!HandlersNeverLost` | for any text and any verdicts of the callback: the handlers' stacks are as deep as the text, and no pointer is null or stale when it is used |
| `JsonParserProofs!DumpInvariance`, `IndentAlwaysFits` | `dump` never writes more of `indent_string` than there is, for any documents and any step up to the initial size |
| `DiscoveryProofs!TypeCorrect`, `PeersListedOnce`, `EveryReconnectHasACause` | the invariants of `discovery`, for any peers, lists and number of `PeerJoin`s |

Assumptions. `NetSessions`: `NoClient` and `NoKey` are no client and no key. `TLSV2`: the same, and the two
RSA pairs differ from each other and from every ChaCha key. `HeartBeat`: the
code's intervals, and a polling thread that is never stalled for the 110 s by which the
timeout exceeds the cooldown (`StallAssumption`; without it a stalled thread would time out
a live peer). `Framing`: a header is not empty, bodies have a positive length.
`Discovery`: the two null values. `MulticastListener`: its own announcement fits the buffer, `Nothing` is no datagram, and
the packets are what the classes can hold (`PacketsAssumption`: 16 GUID bytes, bytes as data). `JsonSerializer`: strings are sequences of
bytes, and `string_buffer` has at least 16 of them (`BufferAssumption`: 13 are kept free before a flush, and three may wait
for the rest of a character; the code has 512). The lexer's proofs need no assumption on the widths of the numbers.
`JsonParser`: the scalar tokens are none of the brackets, separators, keys and ends (`ScalarsAssumption`). `JsonDump`: `IndentStep` is at most `IndentSize`, 512 in the code.

The arguments.

- *Sessions.* `KeysAgree` is not inductive: that the server's key is the client's depends on
  what the ACK in flight carries, and that a client may open depends on the Ready in flight
  having been sent after the key was stored. `Handshake` says so for each packet: `ToServer` ties
  a packet to its sender's key (an ACK carries it, a sealed packet is sealed with it, a
  Ready proves the server has one), `ToClient` to the server's, and `Progress` ties both
  to the program counters, so that a key is drawn once only. The refinement follows by
  cases: drawing a key is `Offer`, processing the first RSA-sealed ACK is `Accept`, the
  client's Ready is `Open`, and all else stutters.
- *TLSV2.* The handshake is a ping-pong: at most one of its packets is in flight on a
  connection, in either direction (`PingPong`, `Once`). `ToServer` and `ToClient` say for each kind of packet what its being in
  flight means for the keys of both sides, and `Progress` what holds when none is. `NoHalfOpen` needs
  exactly that: between the server's reply and the client's reading it, the packet is the witness.
- *Heartbeat.* The age of the last beat is bounded: whenever the thread polls, `beatAge` is
  at most the age at which a ping would have been due plus the stall since, and every
  ping resets it.
- *Framing.* `Layout`: packets lie one after the other without gaps. `InStep`: while all delivered
  packets are whole, `read` is where the next one begins, or its body. `Pieces`: with
  `WholePacketsArrive` the bytes arrived end at a packet.
- *Discovery.* The copies in flight are ordered: what the accept thread or the multicast
  thread is about to assign is a prefix of what some list held, so a peer missing from `ConnectedPeers`
  when the multicast thread looked is missing from every copy that may be assigned before
  its `Add`. The count of connections rises only if an assignment dropped the entry, and each
  `PeerJoin` assigns once.

- *Listener.* `NoSocketLeak` needs to know where the main thread is: `Started` that the flag is up exactly when the
  thread exists, and only once the start has come to `Listen`; `Starting` that there is one subscriber by then, and that an opened start's socket
  is the one `sock` names. That nothing is handled twice needs the queue: `Once` says that a datagram that waits was sent, waits in one
  place, is not the one in the buffer and has not been handled, and that neither has the buffer's as long as `Invoke` has its first turn to come.
  `ReadsLast` ties `read` to what `FromJson` makes of a datagram that was handled.
- *Announcements.* What base64 decodes to is a fold over the text. That it undoes every spelling of every sequence of bytes is
  shown group by group: after n groups of four digits the first 3n bytes are there. The induction is first-order, by the
  least counterexample (`WFMin`), because the library's schemes take an operator.
- *dump_escaped.* The decoder's `state` and `codepoint` mean something: which bytes of a character have been read, that
  these can still become one, and the number they make so far. The table `utf8d` is thereby compared with RFC 3629's. So at most three bytes
  wait behind the last complete character, and with "13 left at the last accept" they fit, `\uXXXX\uXXXX` and
  `snprintf`'s NUL included.
- *Tokens.* `TokenInv` says for each label of `scan_number` which parts of a number the bytes taken make complete (`SoFar`), and
  lemmas about two splits of one text (`IntEnds`, `FracEnds`, `MantissaEnds`) show that every other way to read it ends its parts at the same
  places, so that where the lexer stops no longer number begins. For comments and white space it says that what lies
  between the end of the last token and the lexer is blank, a comment not yet ended apart. `StringInv` follows a character through
  the labels of `next_byte_in_range` and a surrogate pair through `get_codepoint`.
- *Round trip.* A relation between the two texts, the pairs of places where a character begins in the string and in its dump:
  each pair shows the character up to the next one (`Shows`: as itself, by a short escape, as one `\u` or as two). While dumping the relation grows
  with the output, while scanning it says how far `token_buffer` agrees with the string. The lexer refuses a text at no byte the dumper writes.
- *Parser.* The parser does not keep the containers that are open: it has those above the innermost in `states`, and the innermost
  in its label. `Kinds` puts the two together and equates them with `Opened(tokens)`, from which `BracketsMatch` follows. For the handlers `Refs` says of
  each pointer that it leads to a container of the kind that is open at its depth, through the pointer before it, and that below an array
  it is the last element; `Ready` that a key's value has a member. What a change does to the other pointers is the whole difficulty: a vector
  that grows or an erased element must leave every pointer on the stack where it was. `At`, `Put` and `Opened` are recursive functions along a sequence,
  and `Walks` gives their last step for every length, by least counterexample. What a value adds and
  what a closing bracket erases lies below the innermost container still open, so no path on the stack goes through it, and `object_element`
  is set anew by the next key. Under a discarded container all pointers are null.
- *Dump of documents.* `indent_string` is doubled at most once per call, so the step needs more than "it has fitted so far": the
  invariant says of every call on the stack that its own indentation fits, and, once its bracket is written, its elements' too. A deeper
  call asks for `IndentStep` more than its parent had, which one doubling provides.

Some theorems have no run with a property of their own: the type invariants, and `KeysAgree`, `KeysNeverChange`,
`ShortReadComesFirst` or `NeverFails`, which TLC found to hold before they were proved; `StrictIsExact`,
`PrintableOnly` and `WellFormedScansBack`, which are conjuncts of what `ScansBack` checks, and `PositionTracks` and `StringsWellFormed`, conjuncts of
`TokensScanned`, and `BracketsMatch`, a conjunct of `ParsesGrammar`. The proof says what the run would, for every instance.

Only model-checked:

- liveness (`ServedClientAuthenticates`, `ServerLeavesClosedClient`, `PingsGoOn`, `NoticesClose`, `CloseNoticed`,
  `PeerStaysKnown`, `FirstPeerWired`, `BothAuthorize`, `HandledOnce`), because the prover has no rules for fairness
  and `ENABLED`;
- of `json_text`, what the rest of `ScansBack` says: that a scanned string is what its escapes stand for, that an ill-formed string
  is read back as what the error handler makes of it, and that numbers are read back. `Unescape`, `Repair` and the digits of a number are recursive;
- the properties of `json_parser` (but for `IndentFits`, `HandlersFollow` and `BracketsMatch`), `json_binary` and `json_document`: they are about what recursive
  definitions compute for every document, which would take induction over data.

## 5. Not modelled

- Ciphers and hashes: ideal. The HMAC record has no caller.
- `UpdatePeerDisplay`, `Peer.AddPeer`, `GetUniquePeers`, the socket wrappers:
  no live caller (`UseOriginalVersion` is false).
- A connection reset outside `NetSessions`: `Receive` throws there and ends the thread (above). In `Framing`,
  `HeartBeat` and `TLSV2` a connection ends by a close only; a reset would end their runs without another step.
- Multicast Leave and Data announcements: they change no state the code reads again. A
  server that drops a client means to announce `PeerLeave`, but looks the handle up under an
  identifier that is never set (`BaseTCPServer.cs:409`), so it never does.
- `MaxConnectionPerPeer` and the other limits: declared, read nowhere.
- Audio: sound devices are I/O, and nothing calls `StartStreaming`, so no Voice packet is sent. The list that
  `QueueAudio` and `ProcessQueue` share without a lock (`Audio/Audio.cs:62`) is in the plan.
- Of the C++ listener: `operator-=` (nothing unsubscribes; it would remove every subscriber of one
  lambda type) and `StartServer` (no caller). The PS4 programs are an experiment of their own that accepts and prints.
- Of GUID and base64: line breaks in base64, and the sources of fresh GUIDs, one per platform.
- Of `json.hpp`: locales, wide-character and stream input, the digits Grisu2 generates, iterators beyond the positions that
  `insert` and `erase` take, conversions to and from C++ types, allocators, move semantics, and the wording of exceptions. A float is
  its shortest digits in text and its bytes in the binary formats. `token_string`, which only error messages show, is left out.

## 6. Plan

Done: sessions, heartbeat, framing, discovery, TLSV2, the C++ listener with what it reads, and the JSON library under it, in the
order of how much of the system's behaviour rests on them. What is left, in order:

1. `PeerNetwork`: several processes, each with the discovery threads of `Discovery` and
   the sessions of `NetSessions`, connected in both directions. Abstract specification: every two live peers
   end up connected and know each other. The interesting part is circular waiting: each accept
   thread serves one client for good, so who is authenticated with whom depends on the order
   of arrival. Theorem: no peer holds a key for a connection its counterpart
   does not share (lifting `KeysAgree`).
2. `AudioQueue`: `List` at the granularity of its field writes, `QueueAudio` on
   the accept thread, `ProcessQueue` on the play-back thread. Abstract specification: a bounded FIFO.
3. `HeaderCodec`: the 18 bytes of `PacketHeader` with their widths and signs, `WriteTo`
   against `ValidateHeader`. It would replace `Garbage` by the values a cut can actually produce.
4. Proofs: that a string token is what its escapes stand for, stated by the relation `Shows` in place of `Unescape`; that a refused `insert`, `erase` or `push_back` keeps the document; for `HeartBeat`, a theorem on how long
   a peer that closes can stay unnoticed, stated with ages, as a safety property.
