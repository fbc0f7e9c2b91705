# A verification of subconvd

`subconvd` (`sub-converter/src/`) is a small HTTP daemon for OpenWrt that
fetches a proxy subscription from an upstream, converts it (a JSON array of
sing-box documents, or a base64 list of share links) and answers with a YAML
configuration.  This directory holds TLA+ models of it, TLC configurations that
check them on small instances, and theorems about them that the TLA+ proof
system checks for every value of the constants.

`tlc -config <run>.cfg <MC module>` repeats a run, `tlapm <module>Proofs.tla`
the proofs.  `PROJECT.json` lists the runs, the lines each definition
translates, the hazards of the code with the properties that watch them, and
for each property a plausible bug in a definition (`Mutant: ...` in the modules)
under which TLC finds it violated.

## The system

| part | state it keeps | operations | correct when |
|---|---|---|---|
| HTTP front end, `server.c` | per connection MHD's state and `con_cls` (the strbuf of the request in progress); in `handle_convert` a header array and an upstream response | `handler_cb` called once for the head, once per piece of the body, once at the end; `cleanup_cb`; the four routes; `server_start`, `server_stop` | buffers are owned by one request each and released once, a response belongs to its request, requests are delayed but not lost by a fetch, stop leaves nothing |
| daemon process, `main.c`, procd's init script | options, `g_stop`, the server | parse, start, announce, install handlers, sleep until the flag, stop | a signal ends it cleanly, a crash is followed by a restart until procd gives up, it listens where it says |
| upstream fetch, `httpc.c` | `body_buf`, `header_buf`, a curl list, `*out` | `httpc_request`, `body_write_cb`, `header_write_cb`, `httpc_response_free` | no overrun, no truncated body reported as whole, no leak on any exit, it returns |
| sing-box converter, `conv_singbox.c` | node arrays that grow together, `meta`, the list of used names | collect, name, emit, clean up | every vless outbound once and in order, groups refer to proxies that exist, no overrun or leak when an allocation fails |
| base64 converter, `conv_base64.c` | `work`, `src`, the node array, used names | decode or copy, scan lines, name, emit, clean up | exactly the links of the text, no read past the terminator |
| proxy naming, in both converters | used names | `assign_unique_name`, `name_used` | distinct, deterministic names; the loop ends |
| share-link parser, `model.c` | a `proxy_node`; inside `parse_query` an array of pairs and two buffers | `node_parse_share`, `node_free` | every part of a link lands in its field, other links are refused, nothing is kept on a failed path |
| base64 codec, `base64.c` | none | encode, decode, looks-like | it accepts exactly the well-formed texts and gives the bytes they mean, both alphabets, padded or not |
| string buffer and text functions, `util.c` | `data`, `len`, `cap` | append, printf, reserve, clear, free; URL codec, UTF-8, trim, split, replace | a terminator inside the capacity, operations as a whole or an abort; each function what its name says |
| YAML emitter, `yaml_emit.c`, and node emitter, `node_emit.c` | output buffer | scalars, lines, flow lists; a node as an item of `proxies` | a reader of YAML gets back the string that was written, each in its place |
| JSON wrapper, `jsonx.c` | json-c references | parse, type tests, getters, iteration | a value of the wrong type counts as absent |
| converter registry, version, packaging, LuCI stub | constant | | |

How they interact: MHD (libmicrohttpd) runs one polling thread; it calls
`handler_cb`, which calls `route_request`, which for `/convert` calls
`httpc_request` (curl's easy interface, which blocks that thread, for at most
30 s) and then a converter found in the registry.  The converters call the JSON
or base64 code, the parser, the naming loop and the emitters.  `main()` and the
signal handler share `g_stop`; `main()` and the polling thread meet in
`MHD_stop_daemon`.

Hard to test in it: a request may be cut short between any two of the three
kinds of `handler_cb` calls; a fetch stops the service of every other
connection, and when the upstream is this very daemon waits for an answer the
same thread would have to give; stop may arrive during a fetch; a signal may
arrive before there is a handler; an allocation may fail half-way through every
growing array; the generated names may meet names that arrive.

## The modules

### RequestService and Server

`RequestService` is what a client is promised: per connection at most one
pending request, which ends with one response that the request justifies
(`Promised`, status by status: 405 if and only if the method is wrong, 422, 502
and 504 only for a complete conversion, an echo only for a manual conversion
and then of its own body, 400 only for a request that is bad or for one whose
body had to be copied when memory was short), or with the connection closed.

`Server` is the daemon's side.  `phase`, `req`, `sent`, `got`, `gone`, `resp`
are MHD's and the client's part of a connection; `con_cls`, `allocated`, `data`
are the strbufs (`data` keeps what a freed cell held, so a missing reset shows);
`thread`, `cur`, `via`, `temps`, `result` are the polling thread and
`handle_convert`; `quit` is MHD's stop flag.

| action | code |
|---|---|
| `FirstCall`, `UploadCall`, `FinalCall` | `handler_cb`'s three branches; the last with `route_request` and the handlers that need no fetch (`Route`, `ConvertCheck`, `ConvertManual`), the header array's and `jsonx_parse`'s failure included |
| `StartFetch`, `FetchReturn` | `handle_convert` before and behind `httpc_request` |
| `RejectFetch`, `RunConverter` | the exits behind it, each of which frees the response |
| `SendReply`, `NoticeHangup`, `InactivityClose`, `CloseOnStop` | MHD's loop, with `cleanup_cb` |
| `RequestStop`, `LeaveLoop`, `ThreadExit` | `MHD_stop_daemon` |
| `Connect`, `SendHead`, `SendChunk`, `Hangup` | clients |

A fetch from the daemon's own address makes curl a client on a free slot
(`via`), whose request only the blocked thread could serve.

### Subconvd

`Subconvd` EXTENDS `Server` with `main()` (`Launch`, `ParseArgs`,
`StartServer`, `Announce`, `InstallSigint`, `InstallSigterm`,
`LeaveSleepLoop`, `StopReturns`), signals (`Terminate`: the default action while
that signal has no handler, the flag from then on; `Handled` says since when),
procd (`ServiceStart`, `ServiceStop`, respawn by `Launch`) and the aborts and
faults of the request code (`Crash`).  procd does not respawn for ever: the init
script sets `respawn` without parameters, so procd's own defaults apply
(threshold 3600 s, timeout 5 s, retry 5; external, as they are not in this
repository).  `Count` counts in `respawns` the ends in a row that came too early
and forgets them when a process has lived long enough, which one can have only
after `main()` has reached its loop; with more than `Retry` of them procd has
given up (`GaveUp`) until `ServiceStop` makes it forget the instance.  `Loop` is
every Server action while the daemon listens; `LeaveSleepLoop` contains
Server's `RequestStop`.

### Httpc

One call of `httpc_request` and the release of its result.  The upstream
chooses status, redirects, header fields and how its body is cut; curl's
failures (`Break`) may come at any point.  A body byte is its position and a
header entry the number of its field, so loss, repetition and reordering are
visible.  `Reserved` is the growth of a buffer, shared by both callbacks.

### UniqueNames, ConvSingbox, ConvBase64

`UniqueNames` is the naming loop, one candidate per step.  A name is a text and
the list of numbers appended to it, so `a - 2` may arrive as well as be
generated.  `ConvSingbox` and `ConvBase64` are the two `conv_*_run` functions
around it: the passes, the growing arrays with a capacity of their own, every
allocation that may fail, and the label `out`.  There `assign_unique_name` is
one step (`Unused`), which `UniqueNames` justifies: `FirstFree` says the loop
returns the least free number, `LoopEnds` that it returns.  An
outbound is whether `parse_vless_outbound` accepts it and the strings it
allocates; `SingboxOutbound` looks inside.  The four passes of `ConvSingbox`
over the elements are loops of their own: `Collect`, `NameNode`, `EmitGroup`
and `ListGroup`, the last for the list that PROXY offers.  In `ConvBase64` a
character class stands for the text the scan tells apart: newline, NUL, blank,
the start of a link.

What they have to give is stated without a loop.  `Faithful` and
`Extracted` count: the place of an outbound's proxy, of an element's group or
of a line's node is the number of those in front of it in the document
(`Position`, `GroupAt`, `Rank`; `Ordinal`).  So `Faithful` says of every proxy
where it is and what its name is made of, of every group, `url-test` ones
included, where it is and what it offers, and of PROXY its list from first to
last.

### ShareLink

`ShareLink` is `node_parse_share`.  A link is its scheme and a sequence of
tokens: delimiters, escapes (`%40` is an escaped `@`), numbers, keywords, other
text.  That keeps what the parser decides by, positions of delimiters, and
drops spelling.  Base64 and JSON are tables (`StdBlobs`, `UrlBlobs`, `Json`), and
so are the texts that `strtol` reads to their end, with their values (`Ports`),
what `%d` prints of a port (`Decimal`), and how many characters a token has
(`Width`).  `parse_host_port` copies the port text to 16 bytes and reads it as
a C string: `PortValid` asks that the text fits and that what is in front of its
first NUL (`Digits`) is in `Ports`.  A NUL can only come out of a decoded `ss`
link, and then `443`, a NUL and anything short is port 443.

| action | code |
|---|---|
| `Entry`, `EntryUnknown` | the scheme, and which of the two `vmess` and `ss` forms it is |
| `UserInfo`, `UserMissing` | `parse_vless_like` up to the authority |
| `Creds`, `Blob` | `parse_ss` up to the authority, plain and encoded, with `parse_method_pass` |
| `Authority`, `AuthorityBad` | `parse_host_port` and what its caller does with its verdict |
| `TakePair`, `SkipSegment`, `EndOfQuery` | `parse_query`, one segment a step |
| `ApplyKinds`, `ApplyFields` | `apply_query`'s two passes or `apply_ss_query`, one pair a step, and `kv_free` |
| `Named` | `set_name_from_fragment`, `set_name_fallback` |
| `ParseJson` | `parse_vmess_json` |

`rest` is the text `parse_host_port` is given, `creds` and `held` what
`parse_ss` must free itself, `bufs` which of `parse_query`'s buffers have
memory.  Undefined behaviour ends a run: `null` (a copy of NULL) and `overrun`
(a length that has wrapped).  `DefinedWhenComplete` says which links can reach
it: those that announce a part by its delimiter and leave it empty, or have
their only `@` in the fragment.

`Grammar` and `QueryMeaning` are stated without the parser's
searches: a link is *some* cut into user, authority, query and fragment, the
value of a key is that of its last `key=value` segment.  Both say of every part
that it is decoded and then cut at an escaped NUL, which is what `xstrdup` makes
of it.  `QueryMeaning` leaves out, by its premise, the query that begins with
`&`: position 0 means "no `&`" to `parse_query`, which takes such a query for
one segment.

### ByteString and Strbuf

`ByteString` is what a strbuf promises its owner: a text that every operation
changes as a whole, or the end of the process.  `Strbuf` is `util.c`'s
implementation, byte by byte of its memory: `Call` (the owner, with
`vsnprintf`'s measurement), `Reserve` and `Double` (the sizes, each checked
against `SizeMax`), `Realloc`, `Write` (`memcpy` or the second `vsnprintf`,
which cuts its output to the room it is told), `Clear`, `Free`.  What is read
as a text is `data[0..len - 1]`; the refinement says that growing moves no byte
of it and that an abort comes with the text of before.

### Codecs

`Codecs` composes `Strbuf` with the pure functions that write to it.  A call is
one function and one input; the function's operators say which buffer
operations it asks for, in order (`StrbufOps`), and what it returns, and the
strbuf carries these out step by step.  The buffer holds a mark before the call, so
that a function which overwrites or clears its output shows.

| module | code | reference it is checked against |
|---|---|---|
| `Base64` | `base64.c` | the digits' bits in groups of eight (RFC 4648) |
| `TextUtil` | the text functions of `util.c` | escapes by position, Unicode's table of byte sequences, concatenation of parts |
| `YamlEmit` | `yaml_emit.c` | `YamlReader`, a reader of YAML 1.2 scalars (core schema), flow lists and nested block lines |
| `NodeEmit` | `node_emit.c` | `YamlReader` and the table of places where mihomo looks for a node's fields (`Place`, `Uses`) |
| `Jsonx` | the reading functions of `jsonx.c` | by way of the next two |
| `ForwardedHeaders` | `parse_headers` of `server.c` | the members to forward, selected as a sequence |
| `SingboxOutbound` | `parse_vless_outbound` of `conv_singbox.c` | from JSON to YAML: each field's path in the document (`JsonPlace`) and its place in the item, with `NodeEmit` and `YamlReader` between |

Recursive functions, not operators, do the scans, so `Strbuf` stays within
reach of proofs; `Base64` uses the bitwise operators and does not.

## The runs

| run | instance | shows |
|---|---|---|
| `server_safety` | 3 connections, 3 buffers, requests with and without body and fetch, one to the daemon itself; allocation failures, hangups, timeouts, stop | `Ownership`, `BodyIntegrity`, `NoTempLeak`, `SelfFetchFails`, `CleanExit` |
| `server_service` | 2 connections, a request for every branch of every handler, allocation failures | `Server` implements `RequestService` |
| `subconvd` | 2 connections, a good and a refused port, an upload, a fetch of the daemon itself and a short request, `Retry` 1 | `GracefulEnd` with signals and crashes at every point; `SignalEnds`, `Respawned`, up to the point where procd gives up; the server's `Answered` and `SettlesRequests`, although every fetch blocks the only thread |
| `subconvd_address` | 1 connection, `Retry` 2, `--host 127.0.0.1`, `--port 65616` | a finding below (TLC reports a violation) |
| `httpc` | buffers that double twice, 0 to 2 request headers, 2 redirects, 3 fields, bodies of up to 5 bytes | `InBounds`, `WholeResponse`, `OutUsable`, `NoLeak`, `Returns` |
| `conv_singbox` | all documents of up to 2 elements of up to 2 outbounds, one of 3, with colliding names | `InBounds`, `NoLeak`, `Faithful`, `NoDangling` |
| `conv_base64` | all texts of up to 5 characters | `InBounds`, `NoLeak`, `Extracted`, `Listed` |
| `share_link` | all links of up to 5 delimiters and words, all hosts and queries of up to 4 tokens, all queries of 3 pairs, encoded links, with NULs in host and port, documents | `Contract`, `Grammar`, `QueryMeaning`, `DefinedWhenComplete` |
| `share_link_answers` | the same | a finding below (TLC reports a violation) |
| `unique_names` | 5 nodes, names that collide with each other and with generated ones | `Distinct`, `FirstFree`, `SuffixBounded`, `LoopEnds` |
| `codecs` | one call of every codec and emitter over every input of the bounds below, and sequences of buffer operations up to and beyond `SizeMax` | `Base64Meaning`, `TextMeaning`, `YamlReadsBack`, `NodeReadsBack`, `JsonMeaning`; `WellFormed`, `GrowthEnds`, and that `Strbuf` implements `ByteString` |
| `codecs_yaml` | the same | a finding below (TLC reports a violation) |

Every property is stated in words above its definition.  The type invariants
(`TypeOK`, `StrbufTypeOK`) are not among the runs' properties: those of
`Server`, `Httpc`, `UniqueNames`, `Strbuf`, `ConvBase64`, `ConvSingbox` and
`ShareLink` are parts of the invariants proved, and in the others they say less
than the properties that take their place.

### The bounds

* *Connections and buffers.*  Three connections are a fetch that blocks, the
  connection it may have opened to the daemon itself, and one bystander; each
  request has at most one buffer, so three buffers never run out, and a buffer
  freed by one connection can be given to another.  Liveness and refinement use
  two connections, which still gives a converting and a waiting client; the
  connection a self-fetch opens is the second.
* *Bodies* of two distinct chunks are enough for a lost, repeated, reordered
  or stale chunk to show.
* *Httpc.*  `BodyStart` 2 for 1024, `HdrStart` 1 for 8: five bytes and three
  fields make either buffer grow twice, once by doubling and once by a chunk
  that needs more than double.  `MaxRedirs` 2 for 5 allows a redirect, a second
  one and the refusal of the third.
* *Converters.*  `FirstCap` 1 for 16, so that the arrays grow with the second and third node.
  Two elements of two outbounds meet in every pass; the larger document
  has three outbounds in one element and a group name that repeats.  Five
  characters hold two links, two separators and one more of any kind.
* *Links.*  Five tokens are `a@a:443` or any disorder of as many delimiters;
  `Hosts` puts every four tokens, brackets and colons among them, behind `@`,
  `Queries` every four behind `?`, malformed escapes and escaped NULs among them.
  Three pairs let a key repeat with another,
  or `type`, before, between or behind.  Ports 0, 443, 65535 and 65536 are both
  sides of both limits; a sign, leading zeros, 15 and 16 digits are other
  spellings of them, the last too long for `parse_host_port`'s buffer.  `Tails`
  has a NUL in, behind and in front of the port of an encoded link, with as much
  behind it as fits and one character more.
* *Processes.*  `Retry` 1 for 5: one early end is respawned, the second in a row is
  the last.  The fetches of the `subconvd` run end by an error or by their
  timeout, which is what can keep the thread longest; those that
  succeed are in `server_safety` and `server_service`.
* *Names.*  With five nodes every shape of collision (twice the same, a
  generated name that is taken by an arrival before or after, a suffix on a
  suffix) occurs.

* *Buffers.*  `FirstCap` 8 for 32 and `SizeMax` 511 for 2^w - 1: from 8 the
  capacity doubles five times to 256 and must not double again.  The sizes asked
  for are both sides of 8, of 256 and of 511, in sequences of three operations.
* *Codecs.*  Base64: binaries of up to 4 bytes (each remainder by 3, one whole
  group before it), texts of up to 4 of six characters and of up to 6 digits and
  padding signs (a second, broken quad).  Escapes: up to 4 characters.  UTF-8:
  up to 3 of the bytes at both ends of every row of Unicode's table, and the
  four-byte forms.  Scalars: up to 3 of ten characters that the rules name, and
  a list of those that are longer (words, hexadecimal, exponents, dates, controls).
  Nodes: every type, security and transport with strings that are missing, empty,
  words, or in need of quotes.  Headers: up to 3 members of four kinds, and 7 to
  17 that are forwarded (both growths of the array), with each realloc failing.
  Outbounds: every security and network with seven `streamSettings` (whole, empty,
  of the wrong type, one object of two), each part of the way to the server
  missing or of the wrong type, ports on both sides of an int, whose `IntBits`
  are 20 for 32.

`CHECK_DEADLOCK FALSE` is set in `unique_names`, where a subscription ends, and
in `codecs` and `codecs_yaml`, where a call returns.
`Server` has `Terminated`, a thread that has exited; the other modules go on for
ever or loop at their end.  The liveness runs take no symmetry; `server_service`
and `server_safety` do, and check safety only.

### Fairness

* *The polling thread.*  MHD's loop visits every connection with work in each
  round and looks at the stop flag.  A fetch disables all of it, again and
  again, so the thread's steps need strong fairness: `SF` for each connection's
  `Serve` and for `Shutdown`.
* *A fetch and a conversion.*  `WF` on `Convert`: `handle_convert` always sets a
  timeout, and the converters terminate.
* *Clients* are never assumed to do anything: they may stall or hang up.
* *main()*: `WF`, since `sleep(1)` returns.  procd: `WF` on `Launch`, the respawn
  timer; it is not enabled once procd has given up, which `Respawned` names.
* *Httpc*: `WF` for the caller's own steps and for curl's timer only; the
  upstream may stall, redirect or send for as long as it likes.
* *Strbuf*: `WF` for the steps of an operation that has begun; the owner need
  not ask for another.

## What is proved

Proofs are for any connections, buffers, requests, documents, texts, capacities
and lengths, under the `ASSUME` of the module (the constants are finite or
infinite sets of the right shape; `None` is outside them, the responses
included; the names PROXY and DIRECT are among the texts).  No invariant the
runs check is inductive as it stands; what each proof adds is named here.

* `ServerProofs`: `TypeOK`, `Ownership`, `BodyIntegrity`, `NoTempLeak`,
  `SelfFetchFails` and `CleanExit` are invariants of `Server!Spec`.  The
  inductive invariant adds `Control` (what phase, buffer, response and request
  of a connection say of each other) and `Fetching` (when the thread is in
  `handle_convert`, exactly `cur` is in phase `run`, its request needs a fetch,
  and the connection that fetch has opened is still at its head).
  `SelfFetchFails` rests on the last: while the thread is inside the fetch no
  step can bring `via` to a response, so the only result is an error.
  `ServerImplementsService`: `Server` implements `RequestService`, step by step,
  with allocations that fail.  Besides the server's invariant it needs
  `AllAnswered`: a queued response is already one its request justifies, and
  only requests that need a fetch are run for one.  `RoutePromised` and
  `FetchPromised` go through the branches of `route_request` and
  `handle_convert`.
* `SubconvdProofs`: all of the server's invariants hold in every process
  (`SubconvdServerSafe`), whatever signal or crash ended the one before, and
  `GracefulEnd`.  `MainInv` says that `main()` alone stops the daemon, once and
  on a signal, and that there are clients only between bind and end.  That a
  dead process and one not yet started are the same to the server
  (`EndIsFresh`) carries the invariant over a respawn.
* `HttpcProofs`: `TypeOK`, `InBounds`, `WholeResponse`, `OutUsable` and
  `NoLeak`, for buffers of any first capacity and bodies and header lists of any
  length.  `Transferred` says that the buffers hold exactly the prefix curl has
  taken, `HeapInv` what is allocated at each point of the call.
* `UniqueNamesProofs`: `Distinct`, `FirstFree`, `SuffixBounded`, for any number
  of nodes and any names.  The invariant is that every candidate tried is
  among the names given out (`LoopInv`); the bound on the suffix is a pigeonhole
  argument, that distinct candidates need distinct positions in the list.
* `StrbufProofs`: `WellFormed`, and that `Strbuf` implements `ByteString`, for
  any operations, first capacity and `SizeMax`.  `Progress` is what `reserve`
  and `grow` hand on to the next step: the sum has not wrapped and the
  capacity that is doubled is smaller than it.  The refinement takes
  `memcpy` and `realloc` to the text through `StoredText`.
* `ConvBase64Proofs`: `InBounds`, `NoLeak`, `Extracted`, `Listed`, for any
  text.  `Scanning` says that the line in hand holds neither newline nor NUL
  and that the nodes are the links at the beginning of a line in front of it;
  `Named`, that the names given so far are distinct and each its node's own or
  numbered because that was taken; `HeapInv`, that at every point what `out`
  would free is what is allocated.
* `ConvSingboxProofs`: `InBounds`, `NoLeak`, `NoDangling` and `Faithful`, for
  documents of any size and any allocation that fails.  `MetaInv` says that
  `meta[]` cuts the nodes into consecutive ranges, `NameInv` how many names can
  have been given out at this point of the naming pass and that they are
  distinct (with `FreeNumber`, again a pigeonhole argument: among one number
  more than there are names one is free), `YamlInv` and `Grouped` that every
  member of a group refers to something emitted, and `HeapInv` what each pass
  adds to what `out` must free.  `Faithful` needs three more, which relate the
  arrays to the document: `ReadInv`, each outbound read so far is the node at
  its `Position` and each element's `meta[]` entry is its first position and
  its count; `BasedInv`, each name given is the base name of its node's element
  or that with a number; `OutInv`, each group emitted so far is at its
  `GroupAt` and the list of PROXY is as long as the `Rank` of the element in
  hand.  The lemmas on `LinksTo` and `Rank` do the counting, one element more
  at a time.
* `ShareLinkProofs`: `TypeOK`, `Contract`, `DefinedWhenComplete`, `Grammar` and
  `QueryMeaning`, for links of any length over any tokens, with any tables of
  base64 and JSON (whose ports have a decimal text, so that a name can be made
  of them).  `CoreInv` carries the first three: `FormInv` says which of the four forms can be at which point of the parser, `HeapInv` what is
  allocated there (the buffers of `parse_query` only inside it, credentials only
  in front of the host), `NodeInv` what the node has by then, `PosInv` that
  `parse_query` stands behind an `&`.  `Contract` and `DefinedWhenComplete` are
  not inductive without them: that a failing exit frees everything depends on
  what the steps before it can have allocated.
  `GrammarInv` relates the parts in hand to the text.  Its core is `UniqueCut`: a
  text has at most one cut into user, authority, query and fragment, and
  (`PartsFound`) it is the one at the positions the parser's searches return,
  if and only if they return any.  `AuthorityTaken` does the same for host and
  port, with the last colon or the bracket (`PortTail` for the text behind it,
  which a NUL may end early).  So "accepted only if" follows from
  what the steps took, and "accepted if" from `RefusedInv`: a link with such a
  cut has not been refused, except for want of memory.
  `QueryInv` says that the pairs collected so far mean the text up to `i`, for
  every key (`ValueTo`, one segment more in `PairMeans` and `SkippedMeans`), and
  that the node means the pairs applied so far (`KindsAre`, `FieldsAre`, one
  pair more in `KindStep` and `FieldStep`); the second pass needs that the first
  has settled the transport, which is where a single pass would break it.
  `LeastNat` and `GreatestNat` (a bounded set of positions has a first and a
  last) stand for the induction that searches would otherwise need.

Only model-checked:

* everything temporal (`Answered`, `SettlesRequests`, `SignalEnds`,
  `Respawned`, `Returns`, `LoopEnds`, `GrowthEnds`): liveness under fairness and
  `ENABLED` are out of the prover's reach;
* what the codecs compute (`Base64Meaning`, `TextMeaning`, `YamlReadsBack`,
  `NodeReadsBack`, `JsonMeaning`): they are recursive functions, folds and
  bitwise operators, each property is an induction over the input, and the
  provers do not open the bitwise operators.  That the buffer under them keeps
  its promises is proved of `Strbuf` alone; `Codecs` takes only `Strbuf`'s
  steps, and its run checks that.

The library's folds, `SelectSeq` and `SortSeq` mean nothing to the provers.
That is why `Extracted`, `Faithful` and the emission of PROXY's list are stated
with cardinalities and steps.

## What the checks found

* *It does not listen where it is told* (`subconvd_address`).  `main.c:22`
  documents `--host H` and `--port N`, `main.c:62` prints "listening on
  host:port".  `server_create` stores the host and `server_start` never uses it:
  a daemon told 127.0.0.1 announces that and listens on every address.
  `main.c:38` refuses only a port that is not positive and `server.c:360` casts
  to 16 bits: `--port 65616` listens on port 80, `--port 65536` on any free port.
* *A colon at the end* (`codecs_yaml`).  `yaml_emit.h:9` promises "valid YAML
  regardless of content".  `yaml_plain_safe` looks for a colon in front of a
  blank (`yaml_emit.c:197-202`) and not for one at the end, so that the
  name `a:` is written `name: a:`, a mapping where none may stand, and no
  reader takes the document.  A link whose fragment ends in a colon is enough.
* *Not every link is answered* (`share_link_answers`).  `model.h:66-68`
  promises 0 and a node, or -1 and an empty one.  There are two ways past it.
  For an empty user, fragment, `ps` or first query value `url_decode` appends
  nothing, the `strbuf` never gets memory, and `xstrdup` is given NULL
  (`model.c:416`, `354`, `713`, `179`); that is the trace TLC prints.  And
  `parse_vless_like` looks for `@` up to the query, which is the end of the link
  when there is none (`model.c:394`): an `@` in the fragment is found and the
  authority's length wraps below zero (`model.c:420`).  `parse_ss` limits the
  same search.

The models also carry behaviours no document or test contradicts, as the code
has them: a second realloc that fails, a `curl_slist_append` that fails and
loses its list (`lost`), the first of two `sni` strings, a name that could not be
allocated and faults in the emitter (`Fault`).  `NoLeak` and `NoDangling` say
exactly which of these there are.  Likewise `Base64Meaning` and
`YamlReadsBack` name what they except: a NUL character in a base64 text, which
`strchr` takes for a digit; scalars such as `.5`, `1.` and `.inf`, which go out
plain and read back as numbers; commas and brackets in a flow list (which
nothing in the daemon writes); and bytes that are not UTF-8, which no form
helps.  `JsonMeaning` names a port beyond an int, which wraps, and `tlsSettings`
without a `serverName`, which erase the one of `realitySettings`.

## Abstractions

* *MHD* is modelled from its use: one thread, one handler call at a time, the
  request-completed callback once per started request, inactivity timeout 30 s,
  stop closes the connections.  Its own memory and wire format are not modelled.
* *curl* is modelled from the options `httpc.c` sets.  A body without a length
  that ends early looks complete to curl, and so it is one in the model;
  a body that is too long fails like any other transfer (`Break`).
* *malloc.*  Where the code checks for NULL the model has both outcomes.  Where
  it aborts (`xstrdup`, `strbuf_grow`) the outcome is `Subconvd`'s `Crash`.
* *Payloads.*  A converter's result is 200 or 422 in `Server`; `ConvSingbox` and
  `ConvBase64` look inside.  Share-link parsing is its verdict there, and
  `ShareLink` looks inside that; it leaves out `udp` and `alter_id`.
* *YAML.*  A character is a model string of its own; a literal key or word of
  the code (`server`, `true`) and a printed number count as one, since they are
  written as they stand.
* *vsnprintf* fails for no format of this code, so `strbuf_appendf`'s early
  return is left out.  `Reserved` has three of the spellings that
  `strcasecmp` takes for one.
* *Texts.*  In `ShareLink` the spellings `strtol` reads to the end are the table
  `Ports`; the run's has decimal digits, a plus sign and leading zeros, no
  leading blanks.

Not modelled: LuCI stub, packaging, CI and version string (no behaviour), POST
requests of `httpc.c` (the daemon sends none), logging; of `jsonx.c` the
constructors, setters, `jsonx_serialize` and `jsonx_clone`, which nothing in
the daemon calls, and the untyped getters, which are json-c's conversions; of `util.c` the prefix and suffix tests and
the release of `str_split`'s parts.

## Plan

Built, in this order: `Server`, `RequestService`, `Subconvd`, `UniqueNames`,
`Httpc`, `ConvSingbox`, `ConvBase64`, `ShareLink`, `Strbuf` with `ByteString`,
the codecs and emitters with `Codecs`, and the proofs named above.

Every safety property of every module but `Codecs` is proved.  What a next
version could add:

1. The remaining codecs by their loops: a module that steps through
   `b64_decode_core` or `url_decode` one character at a time, as `ShareLink` does
   through a query, whose invariant relates the output to the input read so far.
   That replaces the induction over data that keeps their meaning out of reach.
2. `Reserved` with every spelling `strcasecmp` takes for one, and `alter_id`,
   once a document says what range it has.
