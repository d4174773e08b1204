# obs-osc: formal models

TLA+ models of the obs-osc plugin, model-checked with TLC and, where a property
should hold for every instance, proved with TLAPS. The code is the reference:
each definition is translated from the source lines that `PROJECT.json` names
under `map`, and file names below are relative to the repository's `src/`.

## 1. Inventory

The plugin lets OSC controllers drive OBS Studio and tells them what happens
there. Its threads are the OBS UI thread, the UDP receive thread and send
thread, the HTTP accept thread, one detached thread per HTTP or websocket
client, and the OBS threads that run signal callbacks.

| Component | State | Operations | Talks to |
|---|---|---|---|
| UDP transport (`osc-server.cpp`) | running flag, descriptor, handler, fixed target, last sender, bounded send queue, two threads, two mutexes | `start`, `stop`, `set_feedback_target`, `send_fixed`, `send_last`, `send_to`, `reply`, batches | called by feedback, subscriptions, polls and settings; calls the datagram handler on its receive thread |
| Subscriptions (`osc-subscribe.cpp`) | UDP clients with patterns, LISTEN registrations, one mutex, an atomic count | add, remove, listen add/remove/remove peer, publish | fed by commands (UI thread) and websocket threads; publishes through the transport and the websockets |
| Feedback (`osc-feedback.cpp`) | throttle map, filter hooks, signal connections | emit, signal callbacks, hook, unhook, init, shutdown | OBS signals on any thread; subscriptions, transport |
| Websockets (`osc-ws.cpp`) | map of connections; per connection descriptor, open flag, write mutex, message assembly | serve, send, close, shutdown all | HTTP threads own the receive side, publishers share the send side |
| HTTP (`osc-query-http.cpp`) | running flag, listening descriptor, client count, handler | start, stop, accept, serve a request, upgrade | OSCQuery start/stop on the UI thread; websockets |
| OSCQuery (`osc-query.cpp`, `osc-query-bonjour.cpp`) | running flag, UDP port to announce | start, stop, restart, HOST_INFO | settings; HTTP; schema |
| Schema (`osc-query-schema.cpp`) | none | build the tree, look a path up | OBS objects, on HTTP threads through the UI thread |
| Module and settings (`plugin.cpp`, `osc-settings.cpp`) | the configuration | load, apply with rollback, save, unload | everything above |
| Commands (`osc-controls.cpp`, `osc-objects.cpp`, `osc-util.cpp`, `osc-ui-task.cpp`) | the OBS task queue | dispatch, poll, output commands, selectors and globs | receive thread posts to the UI thread |
| Codec (`osc-message.cpp`, `osc-addresses.cpp`) | none | parse, build, convert arguments | transport, commands, feedback |
| Sockets (`osc-net.cpp`) | none | bind, close and wake, resolve | transport, HTTP, websockets |

What is hard, and what makes each part correct:

* **Transport.** Senders, `stop()` and two threads interleave over two mutexes
  and a condition variable; a descriptor is sampled under a lock and used after
  it. Correct means: sends happen on the open socket only, nothing accepted is
  lost except the oldest of a full queue, `stop()` drains, ends both threads and
  leaves nothing behind, the handler outlives the thread that calls it, no
  wakeup is lost.
* **Subscriptions and feedback.** An emission samples, snapshots and delivers in
  unlocked steps while clients come and go. Correct means: whoever wants an
  event all along gets it, once, and nobody else does; limits hold on every
  path; the legacy broadcast gives way to subscribers and comes back.
* **Websockets and HTTP.** Publishers, the serving thread and `shutdown_all()`
  share a descriptor; client threads are detached. Correct means: every
  descriptor is closed exactly once, by its owner, never used after that; a stop
  ends every connection; the client limit holds and its count comes back.
* **Settings.** Several restarts, each of which may fail, with rollback. Correct
  means: what is configured is what runs, also after a failure, an apply does what
  it reports, and HOST_INFO tells the truth.
* **Throttle and hooks.** Correct means: messages are spaced and controllers
  converge all the same; every filter of a live input has its hook
  once, and none is left at shutdown.
* **Commands.** They run later than they arrive, and polls, feedback and the
  OSCQuery tree reach the same objects by different code. Correct means: order of
  arrival, answers to whoever asked, a read reads what was written, repeats and
  echoes are harmless, and a listener's copy stays current.
* **Codec, schema, globs.** Sequential; correct against reference definitions.

`PROJECT.json` lists each hazard at its line with the properties that cover it.

## 2. Plan

In order of importance; every step is done.

1. `OscServer`, the transport, and `DropOldestChannel`, its abstract
   specification; `OscServerProofs`.
2. `OscSubscribe`, the registries, and `OscFeedback`, which composes them with
   the emission; `OscFeedbackProofs`.
3. `OscWs`, the connections, and `OscHttp`, which composes them with the accept
   loop, the clients and the stop; `OscHttpProofs`.
4. `OscPlugin`: settings, restart and rollback of UDP and OSCQuery;
   `OscPluginProofs`.
5. `OscDispatch`: the task queue to the UI thread; `OscDispatchProofs`.
6. `OscThrottle` and `OscFilterHooks`: rate limit and hook bookkeeping;
   `OscSignalProofs`.
7. `OscMessage` with `OscMessageProofs`, `OscGlob`, which is proved about together
   with `OscDispatch`, `OscCommands` and, on top of it, `OscSchema`;
   `OscCommandsProofs`.

What could follow: the composition of `OscDispatch` with `OscCommands`, so that
outputs and frontend events come between the messages of several datagrams.

## 3. Modules

### 3.1 OscServer

One action is one critical section, one system call or one thread operation.

| Model | Code |
|---|---|
| `running`, `handler`, `fd`, `resolved_target`, `last_sender`, `send_running`, `send_queue` | the members of `osc_server` and its `impl` |
| `ctl`, `ctl_fd` | where the UI thread is inside `start`, `stop`, `set_feedback_target`, and `stop`'s copy of the descriptor |
| `sender`, `held`, `sender_fd` | `send_loop`: its place, the popped packet, the sampled descriptor |
| `receiver`, `receiver_fd` | `recv_loop`: its place and the sampled descriptor |
| `pub`, `msg` | the place of each publisher in `enqueue` and its datagram |
| `fds` | the descriptor table of the process: free, our socket, somebody else's |
| `accepted`, `dropped`, `wire`, `seq` | history |

`Start*`, `Stop*`, `Target*` are the pieces of the UI thread's calls;
`SendTo`, `SendLast`, `SendFixed` sample their target and continue with
`Enqueue*`; `Sender*` and `Recv*` are the two loops, spurious wakeups and
failing receives included; `ForeignOpen` (external) is any other thread that
opens a descriptor. The mutexes are the guards `TargetMutexFree` and
`SendMutexFree`, since each is held across a step at one place only. Payloads,
logging, the Winsock counters and the failure of `sendto` (whose result the code
ignores) are left out.

`DropOldestChannel` is what the sending side promises: a FIFO of `Capacity`
items that gives up its oldest item when it is full and closes only when it is
empty. `ImplementsChannel` is the refinement: an open transport is an open
channel, the popped packet is on its way, the calls of `sendto` are what was
delivered.

### 3.2 OscSubscribe and OscFeedback

`OscSubscribe` holds the registries: `subscribers` is the vector, with the
patterns of a client as a set (they are unique and their order has no effect);
`listeners` is a set of pairs. Every operation is one action, since each holds
`registry_mutex` throughout. `Matches` is the result of globbing, a constant.
`redirected` is a history field.

`OscFeedback` adds the emission. `em[t]` is where a thread is in
`osc_feedback_send()`: the sample of `osc_has_subscribers()`, the two further
reads of the gate, the snapshot that `osc_publish()` takes under the lock, the
delivery, and the two legacy sends. The other threads are `UiSubscription`,
`UiTarget`, `LastSender`, `PeerConnect`, `PeerListen` and `PeerGone`. The fields
from `stood` on are history: who wanted the event all along, who did at some
moment, and how that compares with who was served. Delivery is the call of
`send_to` or `send_binary`; what the transport makes of it is `OscServer`'s
subject. `feedback_enabled` is on in every emission: without it nothing happens.

### 3.3 OscWs and OscHttp

One action is one critical section or one system call that others can see.

| Model | Code |
|---|---|
| `fds` | the descriptor table: free, the listening socket, the socket of a client |
| `thr[c]` | where the detached thread of client `c` is, from `accept()` over `handle_client()` and `osc_ws::serve()` to the end of the lambda |
| `sock[c]`, `reading[c]` | the thread's copy of the descriptor; the socket its `recv()` waits on |
| `conn[c]`, `conns` | the `conn` object (`locked` is `write_mutex`) and the map from addresses to objects |
| `listeners` | the addresses that have LISTEN registrations (their paths are `OscSubscribe`'s subject) |
| `pub[p]` | where a publisher is between its snapshot of the registry and the end of `send_binary()` |
| `ui`, `dying` | where the UI thread is in `osc_http_stop()`; the local vector of `shutdown_all()` |
| `accept`, `accept_fd`, `client` | `accept_loop()` |
| `http_running`, `listen_fd`, `live_clients` | the variables of that name |

`OscWs` has the actions of `serve()` (`Handshake` to `Close`), of `send_binary()`
(`Pick` to `Sent`) and of `shutdown_all()` (`Collect` to `ShutdownReturn`);
`OscHttp` extends it with `Start`, `Stop*`, `Accept*` and the life of a client
around `serve()`. An address is given to a new `conn` once nobody holds the old
one (`Held`), a descriptor number as soon as it is closed: this is how a stale
copy comes to name somebody else. `Read` reads whatever socket its copy names at
that moment. A frame is one of text, ping, close, harmless, or the end; the
pieces of a fragmented message are left out, and so are the timeouts, which only
shorten a wait. A lookup needs the UI thread (`osc_ui_run()` waits), so `Lookup`
waits until it is not in `osc_http_stop()`.

Three things the code does are in the model and forbidden by no property: an
upgrade that completes during a stop is registered after `shutdown_all()` and
served on; a client that is accepted during a stop keeps its descriptor; an
error of `accept()` ends the accept loop until the next restart.

### 3.4 OscPlugin

The UI thread between the configuration and the servers. One action is one
system call that can fail, since other processes and a crash come in between.

| Model | Code |
|---|---|
| `config`, `file` | `g_config`, `plugin-config.json` |
| `udp`, `udp_target`, `http`, `announced` | what `g_server` and the HTTP server are bound to, the target it was told, `current_udp_port` |
| `pc`, `caller`, `next`, `old`, `result` | where the UI thread is in `obs_module_load()`, `osc_apply_settings()` and `osc_query_restart()`, its parameter and locals |
| `foreign` | the ports of other processes (external) |
| `before`, `calm` | history: the state an apply began with; that nobody else has moved since |

`Load*` is `obs_module_load()`, `Apply` to `FeedbackStep` is
`osc_apply_settings()` (`UdpStop`, `UdpNew`, `UdpOld`: `osc_apply_port()`;
`QueryStop`, `QueryStart`: `osc_query_restart()`, with `Returned` and the
rollback), `Unload` is `obs_module_unload()`, `Crash` ends the process at any
step. A port is cut to 16 bits by `htons()` (`Bound`): with `MaxPort` as the
largest port, the HTTP port that is derived from it is 0, and the kernel chooses.
`Clamp` is what `load_config()` makes of a file that somebody edited.

### 3.5 OscDispatch, OscMessage, OscCommands

The way of a command. `OscMessage` is `osc_parse_packet()`, one step per string,
argument or element, over bytes; `bundles` is its stack. `BuildMessage` and
`EndBatch` are the other direction. A packet is any sequence of bytes
(`Packets`), or what this program built (`Batches`): its elements were built from
`Sendable` messages, an address with a slash in front and arguments of the
outbound type tags, except that some may be `Unreadable`. An element is that when
it has no address, no type tags, or is a bundle of nothing; for others, such as a
message whose address is the text "#bundle", nothing is promised, since the
parser would take them for something else. `OscDispatch` takes it from there: the
receive thread posts a datagram's messages as one task, HTTP threads post their
lookups and wait, and the UI thread runs tasks in order. `OscCommands` is what a
message does when its turn comes.

In `OscCommands` the state of OBS is a function of *cells*; a cell is the address
of the feedback that carries it. `Command` is `osc_dispatch_command()` with one
operator per kind of route (`RunOutputCommand`, `MoveItems`, `WriteParam`, ...),
`Polled` and `Value` are `poll_dispatch()`, `VisitItems`, `VisitFilters` and
`ResolveFilters` are the visitors of `osc-util.cpp` and `osc-objects.cpp`, and
`Feedback` is what the signals and events of a change report (`osc-feedback.cpp`).
An action is a message (`Receive`), something an output does by itself
(`OutputEvent`: starts complete or fail, outputs end), the end of a medium
(`MediaEnds`) or of an interval of the rate limiter (`WindowEnds`). What OBS does
with a call is external: studio mode, transitions, media and the order of items.
`copy` is a client that polled once and listens ever since.

Volumes, orders and transforms are reported through `throttled()`. `LimitKey` is
the key of a cell, `Signals` the keys a command sends signals for, `open` those
sent less than their interval ago, whose signals are dropped. The interval may
be over at any time, as the model has no clock (`OscThrottle` has one). A
command on a pattern can move several items of a scene, with a signal each, of
which only the first is let through: `Seen` is the state it reports. `missed` is
history: the cells and keys whose last change the client was not told of.

The visitors enumerate and act at the same time. Where an act cannot change what
the rest of the enumeration selects, a command is one `Set` or `Flip` of all the
cells; moving items can, so that `MovedIn` goes through a scene item by item, each
selected by the order that the moves before it left. `DispatchEach` is the same
message to one object after the other, which `PatternIsEach` compares a pattern
with, over every order of the objects.

A name is one segment of an address, so that a name with a slash in it is not
modelled; patterns are names, indices and `*`, since `OscGlob` has the matching.
Names are not themselves `*` or an index (`Plain`): the code reads such a selector
as a pattern or a position and has no way to name an object called that.
Volumes are squares of fader positions in steps, 6 dB doubles a position.

### 3.6 OscThrottle, OscFilterHooks, OscGlob, OscSchema

`OscThrottle` is `throttled()` with its map and its pruning; a call is a step
because it holds the mutex. The three callbacks are keys with their intervals.

`OscFilterHooks` is `osc_feedback_init()` and `_shutdown()`, which enumerate
sources and connect and disconnect two signals, beside sources that come and go
(`source_create_cb()`, `source_destroy_cb()`, each in two halves) and filters that
are added and removed (`filter_add`, `filter_remove`, which arrive after the chain
has changed). `hooks` counts the entries of `s_filter_hooks` per pair of source
and filter, `enable` the connections they hold. What libobs guarantees of signals
and enumerations is external, and named in the module's head.

`OscGlob` is the first loop of `osc_glob_match()`, a step per iteration, over
patterns and texts that may both hold wildcards: sources can have any name.
`Means` is what its result is compared with: the pattern matches if each of its
characters can be given a part of the string, one after the other (`Aligns`),
stars any part part and others one character that they equal. The code tests for
equality before it looks for a star, so the two differ where both hold a star:
`*` refuses the name `*a`. `StarsApart` names the other cases, for which
`GlobIsRight` asks for `Means`; what is accepted always has to be meant.
`OscSchema` extends `OscCommands` with the OSCQuery tree: `Section` is what the
builders make, `Key` the name `build_section()` finds it under, `Lookup` is
`walk_tree()`, which `TreeAgreesWithPolls` uses to look every node up. Of a node
it keeps whether it is a container, a button or a value, and the value.

## 4. Runs

| Run | Bounds | Shows |
|---|---|---|
| `server_safety` | 2 publishers, 1 endpoint, 2 descriptors, queue of 2, 3 datagrams, 2 calls of start or set target, 1 foreign descriptor; the publishers are symmetric | use of the socket, accounting, what `stop()` leaves, the handler, draining, refinement |
| `server_live` | 2 publishers, queue of 1, 2 datagrams, 2 calls, no foreign descriptor; fairness | every accepted datagram leaves, `stop()` returns |
| `feedback` | 1 host with 2 ports, 3 patterns, 1 address, 1 websocket peer, 2 clients, 2 patterns each, 1 listener, 1 emission at a time | bounds of the registries, who is served, the broadcast |
| `feedback_listen` | as `feedback` | finding: an event somebody listens to is skipped |
| `endpoints_unique` | as `feedback` | finding: a redirected client gets a second entry with the same endpoint |
| `http_safety` | 2 clients, limit 2, 1 publisher, 2 addresses, 3 descriptors, 2 starts; clients, addresses and descriptors are symmetric | sockets, registrations, frames, limit and count of clients |
| `http_live` | 2 clients, limit 1, 1 publisher, 1 address, 3 descriptors, 1 start; fairness | `osc_http_stop()` returns, lookups are answered |
| `http_leak` | as `http_live` | finding: a descriptor is not closed |
| `settings` | 2 ports, 2 targets, 3 calls of load, apply and unload, 2 ports taken by others, any file, a crash at any step | what runs is what is configured, what an apply has done or kept when it reports success or a failure, no needless restart |
| `apply_loses_http` | 3 ports, 2 calls, 1 port taken by others | finding: an apply reports success and has lost the OSCQuery server |
| `parts` | hooks: 1 input, 1 scene, 2 filters; throttle: 3 keys, intervals of 1 and 2, pruning from 1 entry, 6 units of time; codec: packets of 5 words, bundles in bundles, batches of 2 messages; glob: patterns of up to 4 and texts of up to 3 characters over 2 letters and the wildcards; dispatch: 2 clients, 3 datagrams of up to 2 messages, 1 HTTP thread | the self-contained parts, side by side: in a behaviour one of them moves |
| `commands` | 2 scenes of 3 and 1 items, 3 inputs, 3 filters, all outputs, about 200 addresses, arguments none, -1, 0, 1, true and a name, one group of routes per behaviour | types, polls, echoes, duplicates, patterns in every order of their objects, read back, a listener's copy, the OSCQuery tree |

The bounds are small but reach what matters: three datagrams overflow a queue of
two with one in flight; two starts give a stop, a second run and a lookup; two
publishers race for the queue and the condition variable; two descriptors let a
number be reused. Two ports give a redirected client and the client whose
endpoint it collides with; three patterns exceed the limit of two. One emission
at a time is enough because emissions read the registries and write nothing
shared; the proofs take any number. Two clients are two websockets at once under
a limit of two, and one too many under a limit of one; three descriptors are a
listening socket and both clients, and two starts let the second run meet what
the first one left. With two ports the UDP port can change, be taken, and be the
largest there is, whose derived HTTP port does not fit; three calls are a load
and two applies. Two filters of one chain are enough for an enumeration to meet
a signal about one of them. A time of six lets a key be sent, pruned and sent
again. A star between two characters, a second one behind it and three
characters of text make the matcher go back, and back further. Packets of five
words hold a message with arguments cut anywhere. Routes that share state (the
scenes, what is visible in them and the tallies; an output and its pause) are in
one group; other routes read and write disjoint cells, so that checking their
product would add nothing.

The runs of the transport, the HTTP server, `settings` and `parts` end in states
with nothing left to do, because calls, clients and time are bounded (`MaxCalls`,
`MaxOps`, `MaxForeign`, `MaxStarts`, `Clients`, `MaxTime`, `MaxDatagrams`) and the
parser and the matcher return, so they do not check for deadlock; `feedback` and
`commands` do.

**Fairness.** `FairSpec` asks that the scheduler keeps running a thread that can
run: the send and receive threads, a publisher inside `enqueue`, and the UI
thread inside a call. Nobody has to call anything, no datagram has to arrive and
no spurious wakeup has to happen. A name lookup ends, as `getaddrinfo` does.
Weak fairness is enough: each of these threads waits on nothing that is taken
away from it again and again.

In `OscHttp` the same holds for the accept thread, the threads of clients, and
publishers inside `send_binary()`. The UI thread has strong fairness, because it
waits for a `write_mutex` that a client who sends pings lets its own thread take
again and again: a mutex is had in the end. A `send()` ends, since the peer reads
or the connection breaks; the code has no timeout for it, so this is an
assumption about the peer, and with one that does neither `osc_http_stop()`
waits as long. Nobody has to connect, send, publish, start or stop.

## 5. Proofs

For any number of publishers, endpoints, descriptors, clients, patterns, peers,
ports, keys, sources, filters, scenes, items and messages, any limits, any packet,
any pattern and any text, under the named assumptions of the modules: finite sets
where something is counted or enumerated, positive limits, distinct markers; for
the throttle that no interval exceeds the pruning age; for the hooks that inputs
and scenes have different addresses and `NoSource` is none; for the UI thread that
`Idle` is none of its tasks; for the commands that names are plain, that a scene
has an input once, that there is a scene and something to select, that an address
has a segment and that an argument is of the type its tag says; for the codec that
what is sent is shorter than 2^31 bytes and that its strings hold no NUL, which C
strings cannot.

* `OscServerProofs`. The invariant is `Inv`: types, `Locals` (a local variable
  holds a value where it is read) and `Lifecycle` (at each point of `start()` and
  `stop()`: which threads exist, which descriptor is open, whether the queue may
  hold anything). None of `SenderOwnsSocket`, `Quiescent` and
  `HandlerOutlivesReceiver` is inductive, since none speaks of the points in
  between; each follows from `Lifecycle`. `Accounting` is inductive together
  with `Inv`. `StopDrains` needs that a sender thread that ended left an empty
  queue, and all datagrams accounted for. The refinement is proved action by
  action: each is a step of the channel or leaves its four variables alone.
* `OscFeedbackProofs`. `SubscriberInv` strengthens the registry's properties by
  `MayCoexist` for each ordered pair of entries, kept by replacing, appending
  and removing an entry; `RegistryBounded` is a part of it, and so is, for the
  proof of `ToldOnce`, that a client that was never redirected has one entry
  (`DirectClientsUnique`).
  `EmissionOK` says, phase by phase, what an emission's history tells of the
  present: before the snapshot `stood` is within who wants the event now, and
  non-empty only if the first sample saw a subscriber (so the gate lets it pass);
  after the snapshot, within the snapshot. Two lemmas carry the proof: a step of
  the emission itself need only establish this of its new state, and a step of
  anybody else keeps it of a watched emission.
* `OscHttpProofs`. `SocketsOwned` is not inductive: that the number a sender has
  still names its socket rests on who may close it. `Sockets` adds that an open
  connection is its serving thread's and that its `write_mutex` is held while it
  is open only; `Senders` that the mutex has exactly one holder, a publisher or
  the serving thread; `Server` that the listening descriptor and the client the
  accept thread has in hand are theirs. With these `close_conn()` can only close
  what is the connection's own and while nobody is sending (`CloseConnEffect`).
  `FramesWhole` is `Senders` in numbers. `ListenersAlive` is inductive by itself,
  and `Limit` adds to `ClientLimit` that a client which is let in was counted
  below the limit.
* `OscPluginProofs`. `Running` says of every point of a call what
  `RunsAsConfigured` says of its end. `Progress` says what an apply has done so
  far against `before`, and `Undisturbed` that nobody has taken the ports it
  goes back to while `calm` holds: the rollback then succeeds, which is what
  `AppliedOrKept` depends on. The theorem has the exception of the run: an HTTP
  server whose derived port follows the UDP port to one that is taken.
* `OscSignalProofs`. `MapInv` is what pruning may forget: a key without an
  entry was last sent longer ago than any interval.
  For the hooks, `Lives` says in which states of its life a source may have a
  table or entries, and `Follows` that entries are the chain up to the signals
  on their way and the enumeration or callback that is half done with the
  source: `InputFiltersTracked` is what is left of it when there are none.
  `Released` is what the enumeration of the shutdown has dealt with so far, from
  which `EntriesHaveParents` follows at its end.
* `OscDispatchProofs`. `Origins`: each task and each reply belongs to the
  datagram it names. `Line`: what has run, what runs and what waits are the
  messages of the datagrams in the order of arrival (`ArrivalOrder`). For
  `DatagramsInOrder`, `InProgress` says that what has run, with the rest of the
  task that runs, is some first datagrams in full while the others wait as they
  arrived, and `SeenBetween` that what a lookup saw is the end of a datagram.
  For the matcher, `Reached` says that the pattern before `p` matches the text
  before `s`, and `Forced` that in every way the whole could match, the last
  star ends no earlier than where it is tried now, and what follows it is
  matched one to one: so a restart one further loses no match, and no star
  before the last one could have helped. This is where `StarsApart` is needed: a
  star that is taken literally is no point to go back to. `Work` counts the
  iterations by the restarts so far.
* `OscMessageProofs`. Offsets stay inside the packet and at multiples of four
  (`Offsets`), calls nest (`Nested`); then nothing is read outside, and a level
  of recursion costs 20 bytes. The round trip (`ParsesWhatWasBuiltAlways`) needs
  to know where everything lies that was built. `Holds(p, s, to)` says that s
  lies at offset p and ends before `to`; it splits along concatenation
  (`HoldsParts`, `HoldsFirsts`), and what a reader gets at p is s: the bytes
  (`HoldsSlice`), a length (`HoldsNumber`), a string up to the NUL that padding
  put behind it (`StringKept`), a blob (`BlobKept`). `Layout` applies it to a
  batch: element k lies behind its length, which lies where element k - 1 ends.
  The inductive invariant is `Faithful`: the packet is a batch (`Carries`) and
  the parser has said what the elements before k say and is, step by step, where
  the parts of element k begin (`Stage`). One lemma per action keeps it; an
  element that is finished (`ElementEnds`) or given up (`Rejects`) leaves the
  loop of the bundle in front of the next. A weaker assumption about unreadable
  elements failed here: one whose "address" is the text "#bundle" with a length
  behind it would be taken for a bundle, so that an address of an element
  without tags has to begin with a slash.
* `OscCommandsProofs`. `Typed` is the inductive invariant: flags are bits,
  volumes squares, and the items of each scene are numbered without gaps
  (`Numbers`). One lemma per route says what `Command` does there (`MuteRoute`,
  `OrderRoute`, ...), since the routes are told apart by first segment and
  length alone; one per operator that it keeps `Typed`. For `MovedIn` this is an
  induction over the items of a scene. The five properties of a state follow
  from `Typed` route by route: `EchoHarmless` because a cell's own address
  selects that cell alone (`VisitOneItem`, `VisitOneFilter`, `SelectOne`) and
  because setting what is so already changes nothing, which for a volume needs
  that the root of a square is exact (`Position`); `DuplicatesHarmless` because
  setting twice is setting once, and a selector by name selects the same item
  after its move (`MoveOne`); `ReadBack` because no command but a move changes
  what a selector selects; `PatternIsEach` because objects that are sent to one
  by one, in any order (`Lists`), have had the first k of them set after k
  messages (`EachSets`, `EachFlips`), `PollsChangeNothing` from the selection of
  one alone. `CopyCurrent` is inductive with the domain of the copy (`CopyInv`):
  a value that differs after a step is in `Feedback`, or belongs to a key that
  had a signal (`ChangesAreSignalled`); what is in `Feedback` is the value of
  now, or its key is `missed` (`HeardIs`). That the positions of a copy are an
  order follows from `FirstMoveKeeps`: the state that a report shows is one that
  the scene went through. `TreeAgreesWithPolls` goes through the sections and
  their values, and finds each by at most two segments below its section
  (`SectionPaths`, `NodesAreFound`).

The provers cannot instantiate the induction theorems of the library, whose
hypothesis is an operator. Where an induction over numbers is needed (the moves of
a scene's items, the objects of a list, the position of a volume, the matcher's
alignments, the elements of a batch), it is made from what they can: the set of the
numbers that have the property holds 0 and the successor of each of its members,
and if it were not all of them the complement would have a least member
(`EachNumber`, `NatSet`). What `FlattenSeq()` computes follows the same way
(`JoinsUnique`, `FlattenAppend`, `FirstsSteps`).

Every safety property that a run checks is proved. Only model-checked: liveness
(`EveryAcceptedLeaves`, `StopReturns`, `HttpStopReturns`, `LookupsAnswered`), which
is beyond the prover, and the violations, which need a trace.

## 6. Findings

1. `feedback_listen`: an event is skipped although a websocket peer listens to
   it, as long as there is no UDP receiver (`osc-feedback.cpp:25`).
2. `endpoints_unique`: a client that redirects delivery is looked up by another
   endpoint than it is stored under, so it gets a second entry when it subscribes
   again and cannot unsubscribe (`osc-subscribe.cpp:119`, against :171).
3. `http_leak`: when a send on a websocket fails, its descriptor is never closed
   (`osc-ws.cpp:128`).
4. `apply_loses_http`: when the UDP port changes and the HTTP port derived from it
   is taken, the OSCQuery server is gone and the apply returns ok
   (`plugin.cpp:107`, against `osc-plugin.h:64-68`).

Behaviour that differs from a text of the repository and that the properties name
as exceptions, without a run of its own:

* a reorder that falls into the interval of the rate limiter is dropped for
  good, so that controllers need not "converge quickly"
  (`osc-feedback.cpp:257-259`); the same holds for volumes and transforms, and a
  command that moves several items of a scene is reported as it was after the
  first move;
* no signal reports that media ended (`osc-feedback.cpp:416-424`), although
  feedback has that state (`README.md:144`, 155-156) and a client may "treat
  feedback and poll responses identically" (163-164);
* the previous UDP port is closed before the new one is tried: if another process
  takes it meanwhile nothing listens, although it "stays active in that case"
  (`plugin.cpp:92-93`), and applying the same port again does nothing;
* the pattern `*` does not match a source called `*a`, as a star that meets a star
  is taken literally (`osc-util.cpp:32`, "Shell-style glob" in :20);
* `/stream/toggle` and `/record/toggle` do not look at the argument that is to
  "force a state" (`README.md:82-83`, `osc-controls.cpp:181-186`);
* six sections of the OSCQuery tree and the hotkeys cannot be looked up, since they
  are filed under the empty name or their whole prefix (`osc-query-schema.cpp:423`,
  "the full address tree" in `README.md:18-19`);
* `osc_parse_packet()` returns true for a bundle with an element it cannot read,
  which it leaves out, although `osc-message.h:70` speaks of "structurally broken
  input"; only the frame of the bundle has to be right.

Behaviour that no text of the repository forbids, that the properties except and
that a maintainer should know of:

* a datagram for the last sender may be addressed in one run of the transport and
  sent in the next, in which nobody has spoken;
* the receive thread samples its descriptor and uses it unlocked: if the number is
  closed and reused in between, `stop()` joins a thread blocked on a foreign one;
* a client that redirected and whose `/unsubscribe` finds no entry counts as one
  that still wants its events in `SubscribersServed`, and as two in `ToldOnce`,
  which is about the others;
* an upgrade that completes during a stop is registered after `shutdown_all()`;
  a client accepted during a stop keeps its descriptor; an error of `accept()`
  ends the accept loop until the next restart;
* with a fixed HTTP port a change of the UDP port leaves the old one in
  HOST_INFO, and `OnlyNeededRestarts` asks for no restart there;
* `/replay/saved` without arguments toggles the replay buffer; an echo of
  `/transition` triggers, one of `/record/paused` with 0 stops the recording, one
  of a volume above 1.0 clamps it;
* two toggles before an output has started both start it; `DuplicatesHarmless` is
  not about toggles, and says nothing of `/media/<source>/next` and `prev`,
  screenshots, hotkeys and `/replay/save`, which change nothing in the model;
* the preview scene at the beginning and end of studio mode has no event of its
  own, and a pause that ends with its recording none either: `CopyCurrent` counts
  them as missed;
* the media state in the OSCQuery tree is always "none";
* a filter that is added to a scene later, and those of a source that is created
  while `osc_feedback_init()` connects its signals, are not hooked.

## 7. Not modelled

* Bonjour and the settings dialog (I/O and a form; the dialog appears as the
  configurations it can hand in), locales and build files.
* The bytes of websocket frames (headers, masks, fragments) and of the handshake,
  and the text of HTTP requests and answers: `Receive` and `Request` choose what
  they may mean.
* Of the OSCQuery tree, descriptions, types and ranges, and the root document,
  which is made of the same sections.
* Screenshots, hotkeys and the saving of the replay buffer, which change nothing
  that a command or a poll sees; names with a slash in them; seven of the nine
  fields of a transform, which are written and read like the two in the run.
* The system calls beneath `osc-net.cpp`, except by their results, and libobs,
  except for what the modules name as external.
* Client threads are detached: code that is unmapped under one of them at unload
  is beyond a model of the code.
