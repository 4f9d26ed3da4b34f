# TLA+ models of websocket-c

websocket-c is a WebSocket client library in C with a small test application.
This directory models its frame codec, its payload masking, its message reader,
the opening handshake as text, the life of a client from connection to release,
the memory behind messages, and the two threads of the test application with the
socket buffers they write to; checks the models with TLC; and proves the safety of all of
them with TLAPS, for every value of the constants.

## The system

| Component | Source | State | Operations |
|---|---|---|---|
| frame codec | `src/protocol.c`, `headers/protocol.h` | none | `ws_frame_output_size`, `ws_frame_write`, `ws_frame_read_header`, `ws_frame_read_body`, `ws_frame_read` |
| masking | `src/simd.c`, `ws_frame_handle_payload` | the buffers of one call | `apply_mask_to_buffer` and its two loops |
| reader | `src/reader.c` | `frame_queue`, `msg_queue`, `is_open` | `ws_reader_create`, `_handle`, `_next_msg`, `_destroy` |
| client | `src/websocket.c` | `host`, `path`, `__internal` (reader, `net_info_t`, nonce, `loop_flag`) | `ws_client_init`, `_from_str`, `_connect`, `_next_msg`, `_on_msg`, `_write`, `_shutdown_loop`, `_set_net_info`, `_free` |
| network | `src/net.c` | socket, SSL session, the global `SSL_CTX` | `net_connect`, `_peek`, `_read`, `_write`, `_close`, `net_init_*`, `net_deinit` |
| HTTP | `src/http.c` | headers, body of one message | parse and print requests and responses |
| encoding | `src/encode.c` | none | nonce, base64, `check_response_noonce` |
| test application | `main.c` | the main thread and the listener thread | write lines, shut down, join |
| test server | `test/server/main.go` | | echo, close after `quit` |

How they interact: `ws_client_connect` opens a socket, sends an HTTP request and
checks one `recv` worth of answer. From then on `ws_client_next_msg` calls
`ws_reader_handle`, which *peeks* a header of at most ten bytes, reads exactly one
frame, and queues a message when the frame finishes one; then
`ws_reader_next_msg` takes one message off. `ws_client_on_msg` repeats that,
answers pings and calls the application's callback. In the test application one
thread sits in that loop and frees the client behind it while the other writes
through the same client and finally calls `ws_client_shutdown_loop`, which clears
a flag and closes the descriptor. Nothing is locked.

What is hard here: the two threads share a pointer, a structure and a descriptor
number without synchronisation; the code assumes that a frame, and the HTTP
answer, arrive in one piece; fragments, control frames between them and the end of
the stream look alike to the caller; the allocated size of a frame and its
encoding are computed by different comparisons; a vector loop hands over to a
serial one; `ws_client_connect` has nine ways to fail. `PROJECT.json` lists the
hazards line by line, with the properties that watch each of them.

What makes each part correct:

* codec: no store behind the buffer; what is written is what is read, also after
  short peeks;
* masking: the result is the RFC's mask of the payload, in bounds, whichever loops
  ran at either end;
* reader: messages come out whole, in order, once, and as soon as their last frame
  was read; a loss is reported;
* client: no access to freed memory, every message is dealt with, everything is
  released once, the loop ends when and only when it should;
* connect: a failure leaves nothing behind, a success leaves a usable client whose
  stream stands at the first frame;
* handshake: the request says what the URL said, an answer is parsed into what the
  server meant however the network cuts it, and only a proper answer is accepted;
* memory: nothing is used after it was freed or freed twice, and what stays behind is
  bounded;
* sending: a successful write arrives whole, and a write returns.

## Modules

| Module | Models | Used by |
|---|---|---|
| `Frame` | the codec as operators | `Codec`, `Reader` |
| `Codec` | one frame written, then read with short peeks or in one call | `MCCodec`, `CodecProofs` |
| `Masking` | one payload through the masking loops of two builds | `MCMasking`, `MaskingProofs` |
| `Channel` | the abstract message channel | `Reader` (refinement) |
| `Reader` | the reader on a TCP stream, the server and the network | `MCReader`, `Client` |
| `Client` | `ws_client_on_msg`, `_write`, `_shutdown_loop`, `_free` in two threads, on top of `Reader` | `MCClient` |
| `Ownership` | every object that `ws_reader_handle`, `ws_client_on_msg` and `ws_client_write` allocate, hand on and free | `MCOwnership` |
| `Sending` | `ws_client_write` by two threads into bounded socket buffers, and the echoing server | `MCSending` |
| `NetContext` | the global `SSL_CTX`: `net_init_client`, `net_init_server`, `net_deinit` | `Connect` |
| `Connect` | `net_connect`, `ws_client_connect`, retries, `ws_client_set_net_info`, `ws_client_free`, composed with `NetContext` | `MCConnect`, `ConnectProofs` |
| `Text` | C strings and decimal numbers as the parsers use them | `Url`, `Http` |
| `Url` | `ws_client_from_str` | `Handshake` |
| `Http` | requests and responses: headers, printing, parsing, freeing | `Handshake` |
| `Handshake` | URL, request, answer and its verdict, as text; an application's own requests | `MCHandshake`, `HandshakeProofs` |
| `FrameProofs` | theorems about the operators of `Frame` | `CodecProofs`, `ClientProofs` |
| `ClientProofs` | theorems about `Reader` and `Client` | |
| `CodecProofs`, `MaskingProofs`, `ConnectProofs`, `HandshakeProofs`, `OwnershipProofs`, `SendingProofs` | theorems about the module each is named after | |

`Frame` keeps header bytes at their width and payload and key by *where* they lie
in the buffer. A length is put into eight bytes and taken out again by real
arithmetic. Lengths are restricted to those that fit 64 bits; sums of lengths do
not wrap in the model.

`Masking` takes the byte type and its exclusive or as parameters; one step is one
iteration of a loop. Each of the two passes may use the vector loop or the serial
one, as builds with and without `DISABLE_SIMD` do.

`Reader` has the server's frames as a stream of bytes: frame `i` starts at
`sent[i].at`, `arrived` bytes have reached the socket, `pos` have been consumed.
A peeked header is computed by `Frame`'s decoder from the frame at `pos` and the
number of bytes at hand, so header sizes and lengths are the real ones; a payload
is the number of its frame. The server obeys the protocol (fragments of one message
at a time, nothing after CLOSE). When a short read has left `pos` inside a frame
the next header is any of the possible ones. `lost` is a ghost: something the server
sent will be missing. The call is split where another thread or the network can
act: before the peek, between peek and read, between `ws_reader_handle` and
`ws_reader_next_msg`. On Linux a `recv` that waits is not ended by `close` in
another thread, a reset is reported once and may or may not drop what was
received before, and afterwards `recv` returns 0; the actions `Reset`,
`PeekNothing` and `ReadFails` say so. `Faults` selects what may go wrong.

`Client` splits both threads at every access to the pointer `client->__internal`,
to the structure behind it and to the descriptor. A dereference of a null or
freed pointer, and SIGPIPE, stop the process (`fault`). `ws_client_shutdown_loop`
reads the pointer three times in the source; a compiler may keep the first value,
so each use takes either. The plain-socket build is modelled; a `net_write` sends
the whole frame (`Sending` has the write that does not). A `ws_client_write` may also fail before it comes to
`net_write`: an allocation fails, or the body has 65536 bytes.

`Ownership` leaves out which bytes make which message and keeps which object belongs to
whom. An object is its kind and the number of the call that allocated it; `heap` is what is
allocated, and `Memory` makes the use or release of anything else a `fault`. Every way out of
`ws_reader_handle` is an action of its own, with what the socket and the allocator answer left
open. `byte_array_free` is the external array library's; it is taken to leave the array empty, because the
failure path of `ws_frame_write` relies on that: it frees `out` and its caller frees it again.

`Sending` counts a frame as `Size` units and gives both directions a buffer smaller than two
frames, the only case in which a `send` waits. Three things happen then that no other module
has: the second thread copies into the middle of the first one's frame, a signal cuts a send
short, and the listener and the server each wait for the other to read.

`Text` has a string as a sequence of characters, where a word no parser looks into is
one character or two, so that it can be cut in the middle. Offsets count from 0 and a read behind the
closing NUL is `fault = "past_end"`. `Url` and `Http` translate the parsers on such
texts: one step of `Http` reads one header line, as one pass of the loop in
`http_message_from_str` does. `Handshake` takes a URL through request, transport and
answer, cutting the answer at every character, and lets an application build requests of its own
through `headers/http.h`. The hash map yields headers in any order, so `PrintRequest` chooses one.
`HttpFaults` selects failing allocations.

`Connect` has every failure of `ws_client_connect` as a choice, over several calls
by an application that retries and may free a client at any time between calls. A client
on which `ws_client_init` was not called starts with a wild pointer. The HTTP answer is five pieces (see the module);
one `recv` returns some of them; that an answer cut inside a header line may be read past its end, and no other,
is what `PastEndExactly` shows of the text in `Handshake`. Between calls the application may
exchange the connection (`ws_client_set_net_info`, which puts the old descriptor among the `dropped`) and set up or take down the TLS context; a
context that was released and is used again is `fault = "context"`. Undefined behaviour (freeing the unset
`response`, reading past a cut-off header line, using a freed or unset
`__internal`) is a choice between going on and `fault`.

## Runs

Passing runs:

| Run | Bounds | Shows |
|---|---|---|
| `codec` | lengths 0 … 2147483000 around every boundary, both mask bits, several opcodes and reserved bits | bytes in range, stores in bounds, round trip, the buffer filled exactly, and 65536 the one length that cannot be written |
| `masking` | lengths 0 … 50 (three blocks and every tail), masked and not | RFC mask, in bounds, survives mixed builds |
| `reader_whole` | up to 5 frames of all three length encodings, fragmented, with control frames between | integrity, no backlog, no failure on a healthy connection, all delivered unless the loop was left over a fragment |
| `reader_faults` | up to 3 frames of 2 or 3 bytes in arbitrary segments, reset, close, empty ping, failing allocations | implements `Channel` up to a loss, no loss passes for a message |
| `client_threads` | up to 2 frames of every type a loop meets, a first fragment included, in arbitrary segments, reset, failing allocations, a callback that may stop, one line, a server that closes after `quit` | answers match, nothing skipped, the listener meets no freed client, everything released, the loop is left on a healthy connection only for a fragment, a message that could not be assembled or a PONG that was not written, it ends with the stream, the join returns once the server was told to quit or the connection is gone |
| `ownership` | 5 frames, 3 writes, every allocation and read failing | memory safety except for a callback that frees its client and asks to go on, no message or body lost, leaks bounded per frame |
| `sending` | frames of 2 units, 3 units of room to the server, 2 frames of room back, 4 lines, 3 PINGs, signals | frames are torn only when a send waits or is interrupted, what was written arrives in order, and the circular wait is the one thing that stops a write or an answer |
| `connect` | 3 attempts, 2 addresses, seven answers, two exchanged connections, every fault, with and without OpenSSL | what leaks is exactly the descriptors `ws_client_set_net_info` overwrites, connected clients are usable, freeing twice is harmless, a released TLS context is met only after a failed `net_init_server`, calls return |
| `handshake` | 13 URLs around the parser's boundaries, 11 answers cut at every character, requests of 2 calls, failing allocations, both builds | URL taken apart, request names it, printing and parsing are inverse, headers sound under every cut, where the parser leaves the text, what is accepted, borrowed texts returned and header values freed once unless a repeated header fails, parsing ends |

The bounds are enough for the interesting cases: two fragments with a control frame
between them need three frames, more messages behind them five; a frame of
three bytes can be cut at every place of its header and body; in `client_threads` the loop reads nothing
behind a fragment, so a second one adds no case, and the one line may be `quit` or another, so that a write and a
shutdown race the listener's release (`client_write_after_free` has two lines); three attempts
let a failure follow a failure and a success follow both, and a second exchanged connection overwrites one that
`ws_client_connect` did not open. Five frames hold a fragmented message
with a control frame in it and a failure behind them. The units of `sending` are chosen so that a second frame fits
in part, which is when frames are torn, and so that one more echo than there is room for closes
the circle between listener and server. The texts of `handshake` are as short as the parsers' cases
allow: names and values of one or two characters, an empty value, a value with a colon in it, a name repeated
in another case, an accept header that comes twice with different values, a `Host` the application sets itself.

Runs that show a disagreement between the code and what its headers or comments
say (the findings of `PROJECT.json` quote both):

| Run | Disagreement |
|---|---|
| `reader_segment` | a frame in two TCP segments is an error and loses bytes |
| `client_write_after_free` | the main thread uses the client the listener freed |
| `client_shutdown_hang` | shutdown does not end a listener that waits in `recv` |

Behaviours of the code that the modules contain and that the properties state or allow for:

* a message of exactly 65536 bytes cannot be written: the buffer is sized by one comparison and
  the length encoded by another (`SizeExact`);
* a fragment ends the loop of `ws_client_on_msg`, because it leaves no message to return, and so does a message
  that could not be assembled; the loop in `src/README.md` leaves in the same way. A fragmented message
  is delivered to no caller of either (`KeepsListening`, `AllDelivered`);
* a PONG whose body has 65536 bytes, or for which no memory is found, ends the loop too (`PongFails`,
  `KeepsListening`);
* `ws_client_set_net_info` overwrites the descriptor without closing it, and nothing hands it out: the
  socket `ws_client_connect` opened stays open (`LeaksExactly`);
* one `recv` is taken for the whole HTTP answer: a cut inside a header's name makes the parser
  read past the text, any other cut loses what is behind it (`PastEndExactly`, `HeadersSound`); builds with OpenSSL
  accept the beginning of the right accept value, builds without it accept it with anything
  behind; of accept headers that contradict each other the last that arrived counts (`AcceptSound`);
* a URL of six characters such as `ws://a` is refused, `wss` without a port goes to port 80,
  a port of more than five digits overflows its buffer, and one above 65535 is connected to
  as it is and named modulo 65536 in the request (`UrlUnderstood`, `RequestNamesUrl`);
* a `Host` header that cannot be set is only logged (`RequestNamesUrl`);
* replacing a header frees the old value first; if storing the new one fails, the value is
  freed again with the message, and a `Host` of the application's own is printed after it was freed
  (`fault = "freed"`, `TextsFreedOnce`);
* the read buffer of a frame is never freed; `ws_frame_free` clears the frame before it
  frees the payload, so payloads and the copies made for writing stay; a control frame leaves its
  structure (`LeaksBounded`);
* a callback that frees the client and returns true makes the loop read its flag through NULL
  (`MemorySafe`);
* two threads write without a lock, and a short send counts as success: frames are torn when the
  socket buffer is full (`TornOnlyWhenFull`, `WrittenArrives`);
* the listener answers a PING with a blocking send while the server may block on its echo; then
  neither reads again (`WritesReturn`, `PingsAnswered`);
* `net_init_client` and `net_init_server` succeed whenever a context is already there; a `net_init_server`
  that is refused its key or certificate frees the context and keeps the pointer (`ContextSafe`);
* `ws_frame_read` starts the body at byte 2 also behind an extended length
  (`RoundTrip` covers it for lengths without one); nothing in the library calls it;
* reserved bits are not looked at (`headers/protocol.h:82` asks for a failure);
* a frame without key and payload is refused by `ws_frame_read_body`, so a bare ping
  makes `ws_reader_handle` fail;
* a message that `construct_msg_from_frames` could not assemble is dropped with result
  true, and frames it had not popped become part of the next message;
* a CLOSE is not answered (`headers/websocket.h:110` says it is);
* after `ws_client_shutdown_loop` the descriptor number is closed a second time by
  `ws_client_free` (`CleanedUp`);
* a failed `ws_client_connect` leaves `client->__internal` dangling, so freeing such a
  client is an error (`fault = "freed"`), and leaves its reader allocated;
* when the answer cannot be received, an array that was never set is freed;
* a frame that arrives together with the HTTP answer is swallowed;
* `SSL_connect` failing with a negative number counts as a connection;
* OpenSSL builds speak TLS whatever `use_tls` says.

Deadlock checking is off everywhere: frames run out, threads end, clients are freed.

Fairness. `Reader` assumes only that a call in progress goes on (weak
fairness of its steps), and for `AllDelivered` that the owner calls again after a message, as the
loop of `ws_client_on_msg` does; that loop leaves after a failure or without a message, and `LoopGoesOn`
promises nothing then. `ThreadsSpec` assumes that both threads are
scheduled, not that the user types. `ServerSpec` adds that the test server closes the
connection once it has read `quit` (`test/server/main.go:37`) and that TCP delivers what
was sent. `Connect` assumes that the server answers or closes, the code waits for it
without a timeout; failures of `recv` are never assumed to happen. `Handshake` assumes that a call
runs on; nobody has to answer. `Sending` assumes that a send with room goes on, that the listener takes
what has arrived and that the server's loop runs; nobody has to type, no PING has to come and
no signal has to arrive.

## Proofs

Where a lemma about concatenation, division or a recursive function would leave a prover to
search for its instances, it is stated of a named predicate (`Associates`, `AgreeTo`,
`FirstByteOf`, `LongPort`): one leaf cites the lemma for the terms at hand, the next one
expands the predicate. The leaves are small enough to be proved in a fraction of the time
the provers are given, so the proofs do not depend on the speed of the machine.

`FrameProofs` shows about the operators, for every frame whose length fits 64 bits:
dividing a length into bytes and joining them gives the length; the bit fields of the
two fixed bytes come apart again; hence `HeaderRoundTrip`. The step that needs care is
the eight-byte length, proved as a chain of seven divisions by 256.

`CodecProofs` lifts that to behaviours. The inductive invariant `IInv` says that `out`
is `ws_frame_write(frame)`, that a header in `hd` is the one `HeaderRoundTrip` gives and
that a body in `body` was read at the offset that follows from it, or at byte 2 by
`ws_frame_read`. `TypeOK`,
`StoresInBounds`, `RoundTrip` and `SizeExact` are consequences for any set `Frames`
(`FramesAssumption`, `FramesFit`); `SizeExact` rests on a case split over the two chains of
comparisons, by which `ws_frame_output_size` and the encoder choose the length field.

`MaskingProofs` proves `TypeOK`, `MaskCorrect`, `PayloadSurvives` and `InBounds` for payloads of any
length. The invariant says that below the loop variable (for the vector loop, below the
start of its block) `dest` is already the mask of `src`, that the block's start is a
multiple of four, so that lane `j` meets octet `j % 4` of the key, and that in the second
pass `src` is the mask of the input. It rests on `XorAssumption`: combining twice with the
same key byte is the identity.

`ConnectProofs` proves `LeaksExactly`, `ConnectedUsable` and `FreeTwiceSafe` for any
number of attempts and addresses. The invariant ties the set of open descriptors to the program counter:
exactly the one in `sock` from the moment `net_connect` has a connection until the call
fails, and afterwards if it succeeded, besides those in `dropped`, which
`ws_client_set_net_info` overwrote and to which `sock` never belongs; and it places the structure and the reader of the
current attempt from `Setup` on; and a pointer that is set always has a reader behind it,
allocated by the attempt that set it. `ContextSafe` has a short invariant of its own: the
pointer `ctx` is left behind its context only once `net_init_server` has been refused.

`ClientProofs` first proves `TypeOK`, `Integrity`, `NoBacklog`, `LossReported` and the refinement of `Channel`
of `Reader`, for any set of frames whose lengths fit 64 bits, any number of them and any faults. None of the
properties is inductive: `Integrity` speaks of messages, and a step reads a frame. The invariant
`ReaderInv` therefore has two sides. `Stream` describes the server: its frames lie behind each
other without a gap, and `Linked` says of each what it makes of the message before it. `Aligned`
describes the reader as long as nothing is lost: it stands at the end of frame `nread`, a header
it has peeked is the one announced by the frame behind it (`HeaderRoundTrip`), its frame queue is
the unfinished message after `nread` frames, and what it has delivered is what was finished by then.
A frame read in part falsifies `Aligned` and sets `lost`, which is the content of `LossReported`.
That positions of frames are ordered, so that a position belongs to one frame only,
takes an induction over the frames (`NatSetInduction`). `FailsOnlyWithConnection` needs more and says
so: `FailsCorrect` assumes `WholeDelivery`, that frames are not cut, allocations do not fail and
no frame is without key and payload. It is what the code takes for granted: `reader_whole`
checks the property there, and `reader_segment` shows what happens when the first of these assumptions is dropped.

The theorems about `Client` hold for any set of frames, any faults of the
connection and any number of lines. For `ListenerSafe` and `CleanedUp` the invariant `Ownership` follows the client through
the listener's program: pointer, memory and reader are all there while the loop runs; only
`FreeTake` removes the pointer, and from then on the listener alone goes through its own
copy; when it comes to a second `ws_client_free`, everything is gone already. The main
thread's steps keep it because they write neither pointer nor memory and never open a
descriptor, the reader's because they touch only queues and positions (`ReaderKeeps`). How often
the descriptor number is closed has an invariant of its own, `Closing`, on top of `Ownership`: each
thread comes by `net_close` once.
The reader's invariant holds in the client as well (`ClientReader`, `ClientIntegrity`): what the client adds
to the reader's state is that the descriptor may close under it. On top of it `Answers` counts the
messages the loop has dealt with, the one in its hands being the last it took: `cbs` and
the PONGs on the wire are those of this prefix of `delivered`. With `Integrity` that gives
`AnswersMatch`, and at the loop's head `NothingSkipped`. `Listening` carries the reason for which
the loop ended from the failing call to the end, and that a message which could not be assembled is recorded
in `lost`.

`OwnershipProofs` proves `MemorySafe` and `LeaksBounded` for any number of frames and writes. That the
reachable objects are allocated is not inductive: to free one object safely one must know that
nothing else points to it. `OwnershipInv` keeps a book (`Accounts`) of every object in the heap: the
client has its structure, each number in the frame queue its frame and payload, the one message
there can be its body, and no two of them share an object; what nobody owns is of a kind `LeaksBounded`
allows. `Place` ties the control state to what is in hand there, `Gone` says what a released client
leaves. Every action is reduced to what it does to these sets before the book is balanced.

`SendingProofs` proves `TornOnlyWhenFull` and `WrittenArrives` for any frame size, any room in the two buffers, any
number of lines and PINGs, with and without signals. The invariant `SendingInv` looks at the units the
server has read of its current frame and those on their way as one sequence: each unit is in it once and behind
the one before it, a unit that ends no frame is followed by its next one or its frame is mixed or cut
short, and the last is in the hands of its sender, so that whoever copies next finds the open frame and
makes it mixed. Until the server closes, it is whole frames that leave this sequence at its front.

`HandshakeProofs` proves the seven invariants of `Handshake` for any URLs, any answers, any requests of an
application, any number of header lines in any order, names repeated or not, every cut, both builds and any
failing allocation. What it assumes of the texts is that no part holds the separator behind it
(`UrlsAssumption`, `AnswersAssumption`, `AppAssumption`: no colon in a name or a host, no CR in a value, no
space in a path, a port that is a number). The code checks none of that, and without it even an uncut message is
read as another; the path of a URL may hold colons and further slashes, a value colons and line feeds.

The proof starts with the texts. `strcspn` is the one function the parsers find their way with: it has one value
(`SpanUnique`, `SpanExists`), and on a text that was cut off it gives the same value or what is left of the text
(`SpanCut`). `MessageLayout` says where each line, name, value and separator of a printed message lies, by an induction
over the lines; `LineArrived`, `LineCut` and `EndCut` put the two together into what the parser reads of a line
that arrived in part. Numbers are printed and read back (`AtoiOfDecimal`, an induction over the digits), headers
printed in any order of the hash map are the headers again (`PrintedHeaders`), and `UrlTaken` takes a URL apart.

The invariant `HInv` then follows a call. `Control` and `Printing` place the program counter, `ClientMade` and
`ConnectSent` carry the URL over the client into the request, `Building` and `Message` say that what is printed can be
printed and lies on the wire as it was meant, `Borrowed` and `Dangling` follow the texts two owners share. The core
is `Progress` in `Parsing`: the parser stands behind a first line that was cut off (`Short`), at the end of a
line of the original message (`AtLine`), or at the end of a text that stops in a value (`CutLine`), and its headers are those
of the lines up to there. That an end which lies up to two characters behind the text is still in bounds, the
CR and LF that were cut off, is what makes `PastEndExactly` an equivalence. A parsed text (`Stopped`) then has read the
lines of which the name arrived and no others (`Read`), from which `HeadersSound`, `AcceptSound`, `RoundTrip` and
`RequestNamesUrl` follow. `HInv` was checked with TLC on the instance of `handshake` before it was proved.

The assumptions on the constants are those the modules declare (`FramesAssumption` and its like) and, where
named above, `WholeDelivery`.

Only model-checked: liveness, which is outside the prover's reach (`AllDelivered`, `ListenerEnds`,
`WritesReturn`, `PingsAnswered`, `ParsingEnds` and the other temporal properties but `LossReported` and
`ImplementsChannel`). Every invariant of a passing run has a theorem.

## Not modelled

* `http_response_to_str`, which nothing calls: it prints the status into three bytes, so that a NUL follows two
  digits, and what the string library appends behind a NUL is not in the repository.
* base64, SHA-1 and the random numbers of `encode.c`; `check_response_noonce` is modelled by what it compares.
* Reads and writes through TLS, and a session that `ws_client_shutdown_loop` frees while the
  listener waits in `SSL_peek`: OpenSSL gives that no meaning. `net_accept` is a stub.
* A `msg_len` that wraps in `size_t` (`reader.c:96`): a server would have to announce a length near 2^64.
* `malloc` of single structures returning NULL, which the code does not check.
* What `main.c` does at the end of its input: `fgets` leaves the last line in place and it is sent again.
* The texts `protocol` and `status_text` that `http_message_free` does not free.
* Build files and scripts. The NEON and SSE2 loops of `simd.c` are never compiled: the gcc/clang
  branch is chosen first.

## Plan

The modules were written and proved in this order, each before what is built on it: `Frame`, `Codec`, `Masking`;
`Reader` with `Channel`; `Client`; `Connect` with `NetContext`; `Ownership`; `Sending`; `Text`, `Url`, `Http` and `Handshake`.
What the model can hold of the library is in it, and its safety is proved. Left to do:

1. A model of a TLS session that two threads use, once its meaning can be stated.
2. `http_response_to_str`, when the string library is at hand.
