# A TLA+ model of the HelloKale role

HelloKale is the role of a cloudFPGA module: hardware blocks in C++ (Vivado HLS),
wired together in `ROLE/hdl/Role.vhdl`, that terminate TCP and UDP traffic in an
FPGA and test its memory. The cFDK SHELL (the TCP and UDP offload engines TOE and
UOE, the memory controller, the MMIO registers) surrounds the role; it is an empty
submodule here and appears in the models as environment.

This directory holds TLA+ modules for the blocks of the role, TLC configurations,
and proofs checked by TLAPS. Line numbers below are of the files under
`ROLE/hls/<block>/src/`.

## 1. Inventory

Every block is a set of HLS processes. A process is a C++ function with static
registers, invoked at each clock cycle in which it is not stalled; processes
exchange data over bounded FIFO streams only. `stream.write` to a full stream
stalls the process; `empty()` and `full()` test without stalling. There are no
locks and no threads: what is hard is the interleaving of processes of different
rates, streams that fill, replies that carry no identification, and counters in
registers a few bits wide.

### TSIF, the TCP shell interface (`tcp_shell_if.cpp`)

| process | state it keeps | what it does |
|---|---|---|
| LSn `pListen` | FSM, `lsn_i`, watchdog | opens six ports with the TOE, one after the other, at startup |
| COn `pConnect` | FSM, last opened socket and session, byte count | opens the connections that test commands ask for and forwards the tests to WRp |
| RNh `pReadNotificationHandler` | none | hands the TOE's notifications of received segments to RRh |
| RRh `pReadRequestHandler` | FSM, `rrh_freeSpace`, current notification | splits a notification into data requests that fit the input buffer, and tells RDp what to do with each |
| RRm `pReadRequestMover` | none | moves requests from RRh to the TOE |
| IRb `pInputReadBuffer` | none (the FIFOs behind it) | buffers the data and metadata the TOE streams |
| RDp `pReadPath` | FSM, current command and session | forwards a segment to TAF, sinks it (port 8800), or decodes a test command out of it (8801) and sinks the rest; signals every chunk it takes back to RRh |
| WRp `pWritePath` | FSM, request, retry count, test pattern | asks the TOE for permission to send, then forwards a segment of TAF, or generates a test segment, or drains the segment after too many refusals |

The bit `piSHL_Enable` of an MMIO register gates all of them and may change at any time.
Hard here: the credit loop RRh -> TOE -> IRb -> RDp -> RRh; three streams (commands,
metadata, data) that must stay matched at RDp; replies (`LsnRep`, `OpnRep`) that do not
say which request they answer, next to watchdogs that repeat requests; two sources of
segments (TAF and the test generator) that share WRp. What must hold: no byte is
requested twice or lost, every byte of the buffer stays counted once and the free space
settles back, a segment goes where its port says, ports are open at startup, a
permission is filled to the byte, tests go to the connection opened last, everything
received or commanded is eventually consumed.

### TAF, the TCP application (`tcp_app_flash.cpp`)

RXp splits the segments from TSIF over two lines, by the lowest bit of the
session-id: a pass-through line (EPt) and a store-and-forward line (ESf). TXp
joins the lines again. Data, session-id and length travel in separate streams.
What must hold: the data that leaves after a metadata pair is that segment, whole;
a line keeps its order; one line does not block the other for ever.

### MTF, the memory test (`mem_test_flash.cpp`)

One process of thirteen states, commanded by an MMIO register: it writes a ramp
over the memory, reads it back, then stresses each chunk with a pattern and its
complement. It talks to an AXI DataMover over six streams and gives up a status
after a timeout. Hard here: the progress of the test is encoded in two 33-bit
addresses that wrap at the size of the memory, and one pattern counter is reset or
carried on at five places. What must hold: a sound memory passes, a faulty one
does not, commands stay in the memory, an error stops the test, a test reaches a
verdict.

### USIF, the UDP shell interface (`udp_shell_if.cpp`)

| process | state it keeps | what it does |
|---|---|---|
| LSn `pListen` | FSM, 3-bit `lsn_i`, watchdog | opens six ports with the UOE at startup; its watchdog goes on to the *next* port, where that of TSIF repeats the request |
| CLs `pClose` | FSM | closes a port nobody listens on (0xDEAD), and again until it is closed |
| RDp `pReadPath` | FSM, current metadata | forwards a datagram to UAF, sinks it (8800), or decodes a test command out of it (8801) |
| WRp `pWritePath` | FSM, byte count, test pattern | sends the datagrams of UAF, or generates one for a test command, which goes first |

There are no permissions and no notifications: a datagram is its metadata (with a
length), then its data. What must hold: ports are open at startup, the port index
stays in its table, data and metadata stay aligned, a datagram goes to the right
addressee, datagrams of the echo and of the test generator do not mix.

### UAF, the UDP application (`udp_app_flash.cpp`)

RXp, ESf and TXp as in TAF, with the line chosen by the port (8803 passes through),
but three streams per line (data, metadata, length) that are written one after the
other: RXp counts the bytes and writes the length *behind* the data. With the enable
bit cleared, RXp and TXp drain their inputs. Hard here: a datagram whose streams are
partly drained; the drain itself, which tests one stream and reads another; a length
that TXp counts down against TLAST.

### The rest

HLS wrappers (`*_top.cpp`), `Role.vhdl`, `top.vhdl`, host programs, testbenches and
build scripts have no state of their own that the properties depend on. `PROJECT.json`
lists them as components with the reason; the models take their facts from them
(who is connected to whom in `Role.vhdl`, what an environment does in the
testbenches).

### Interactions

    TOE --Notif,Data,Meta--> TSIF/RNh..RDp --Data,SessId,DatLen--> TAF/RXp
    TOE <--DReq------------- TSIF/RRm                               | EPt, ESf
    TOE <--SndReq,Data------ TSIF/WRp <-----Data,SessId,DatLen---- TAF/TXp
    TOE <--OpnReq,ClsReq---- TSIF/COn <--OpnSockReq,TxCountReq-- TSIF/RDp
                             TSIF/WRp <--TxBytesReq,TxSessId---- TSIF/COn
    TOE <--LsnReq/LsnRep---> TSIF/LSn
    UOE --Data,Meta,DLen---> USIF/RDp ----------Data,Meta,DLen--> UAF/RXp
                             USIF/RDp --SockPair,DReq--> WRp      | EPt, ESf
    UOE <--Data,Meta,DLen--- USIF/WRp <---------Data,Meta,DLen--- UAF/TXp
    UOE <--LsnReq/LsnRep---> USIF/LSn     UOE <--ClsReq/ClsRep--> USIF/CLs
    MEM <--cmd,data,sts----> MTF <--DIAG_CTRL/DIAG_STAT--> MMIO
    MMIO --enable bit------> TSIF, USIF, UAF

## 2. Modules and how they correspond to the code

One invocation of a process that changes anything is one step of the model. A
stream is a sequence (`Streams`: `HasRoom`, `Dequeue`); a blocking write is a guard;
a register is a variable with the name it has in the code, and a state of a state
machine has its name as a string. `ssRDpToRRh_Dequeue`, a stream of identical
signals, is the number of signals in it. Traces (`printInfo`, `printFatal`...) do
not exist in synthesised hardware and are left out; a comparison that only guards
a trace is left out with it.

| module | models | notes |
|---|---|---|
| `Streams` | FIFO streams | |
| `TsifRx` | RNh, RRh, RRm, IRb, RDp | a chunk carries its session, its position in the session's byte stream, its length and TLAST; the payload only matters on port 8801, where it decodes to any socket and count |
| `TsifRxCredit` | | the properties of `TsifRx` that sum over streams |
| `TsifListen` | LSn | time is counted in invocations of LSn; the TOE answers within `MaxDelay` of them |
| `TsifTx` | COn, WRp | chunks carry the segment they belong to or the test pattern; the history variable `crossed` says that COn's last open request was sent with a reply of before a reset still to come |
| `Tsif` | TSIF as a whole | `TsifRx` composed with `TsifTx`: a process that is environment to one is a step of both, and TAF passes segments on |
| `Taf` | RXp, ESf, TXp of TAF | SessId and DatLen, always read and written together, are one stream of pairs; lengths count chunks |
| `TafEcho` | | what TAF and UAF promise: two ordered lines that share an output and never mix segments |
| `MemTest` | `mem_test_flash_main` | addresses count 64-byte words; a word is the counter it is made of, or its complement; a memory may have stuck words and addresses that share a cell |
| `UdpLink` | the streams between USIF and UAF | messages and constants both share; a datagram is named by the order of its arrival |
| `Usif` | RDp, WRp of USIF | with the UOE on both sides; every datagram has a sender, and one for the test port a target, which RDp decodes from its first chunk |
| `Uaf` | RXp, ESf, TXp of UAF | a stream that exists once per line is a function of the line; `txp_stalled` is the stream whose blocking read TXp waits in |
| `Udp` | USIF and UAF as a whole | and the host that sets and clears the enable bit; the history variable `interrupted` says that the bit was cleared while UAF held a datagram |
| `UsifListen` | LSn, CLs of USIF | `timedOut`: the watchdog has expired |
| `RoleListen` | startup of the role | `TsifListen` and `UsifListen` under the enable bit that `Role.vhdl` feeds to both |
| `MC*` | | instances for TLC |
| `*_proofs` | | theorems and proofs |
| `StreamLemmas` | | facts about FIFO streams that several proofs use |

The environment of each module is what its neighbours in the code do: in `TsifRx`
TAF takes a metadata pair and then chunks up to TLAST, as RXp does, and COn takes
both halves of a command together; in `TsifTx` RDp writes both halves in one
invocation, TAF announces a segment and then writes its chunks; in `Taf` RDp and WRp
of TSIF. In `Tsif` and `Udp` these parts of an environment are the neighbour itself.
The TOE is external: it answers a request with exactly the bytes asked for, grants or
refuses permissions, and answers an open request with any of its states. A reset of the role
(`piSHL_Mmio_Ly7Rst`) leaves the SHELL as it is, so that the TOE may still hold an open
request of before it (`PendingOpens`), or a reply to one (`Residues`). Nothing tells the
host whether COn has drained them: it sets and clears the bit of TSIF when it likes,
and `TsifTx` puts no condition on it. In `Tsif`, which starts without such a residue,
a connection may close with its segments anywhere on their way, and its session be
opened again by COn; only an open connection delivers data. So is the
UOE: it announces a datagram and then completes it, takes the metadata of a datagram
and then its bytes, and answers a listen or close request either way. The host may
clear the enable bit at any moment; in `Udp` it sets it again only when UAF has
drained what it can, as an MMIO write takes many clock cycles.

*Seeded faults.* A definition `X_Suffix` directly before a definition `X` is a
plausible mistake at that place of the code (a dropped guard, an off-by-one, a
missing reset); its comment says which. Putting it in place of `X` makes a property
fail: `PROJECT.json`, "mutants", has one for every property of a passing run, which
shows that the property depends on the code being as it is.

## 3. Runs

| run | question | result |
|---|---|---|
| `rx_split` | With one session for echo and one for commands, lengths below and above the size of the buffer: do commands, metadata and data stay matched at RDp, is every byte asked for once, does TAF get each stream without a gap, and does any step but the branch of line 1194 change what the free space, the requests, the buffer and the signals amount to? | holds |
| `rx_settle` | As `rx_split`: does the free space settle back to its initial value? | **violated**, see below |
| `tx_paths` | Echo segments and tests to two hosts, refusals, lost connections, retries, an enable bit that comes and goes, an open request of before a reset: is each permission filled to the byte, does the pattern start anew, do data and requests of TAF stay aligned, are retries exhausted before a segment is dropped, does COn leave no reply behind, and does it send to the connection opened last? | holds while no open request fails; the last one unless COn's request crosses one of before the reset |
| `tx_failed_open` | As `tx_paths`, and opens may fail: does COn send to the connection opened last? | **violated** |
| `tsif_live` | The receive path, COn, WRp and TAF in one loop, all three kinds of ports, connections that close: does the count of free space never fall short, though RRh takes its leaking branch, is the chunk TAF reads the one it owes to WRp, and, though every process stalls on its neighbour, is everything received or commanded disposed of? | holds |
| `taf_echo` | Does TAF implement `TafEcho`, do metadata and data meet again, does RXp always complete its segment? | holds |
| `mem_faults` | A sound memory, and every memory with one stuck word or two addresses on one cell: is the verdict right, do commands stay in bounds, is nothing read before it is written, is a verdict always reached? | holds |
| `mem_stop` | Does an error stop the test ("stop on error")? | **violated** |
| `listen_prompt` | LSn of TSIF and LSn and CLs of USIF start up under one bit. Engines that answer before the watchdogs: are all acknowledged ports open, and all six at the end, whatever CLs closes? And with a UOE that is late once: does the startup still end? | holds |
| `listen_late` | The TOE may answer when the watchdog of TSIF has just expired: all ports open? | **violated** |
| `udp` | Datagrams for all four kinds of ports, and an enable bit that comes and goes: does every datagram leave whole, to the right addressee, in the order of its line, with the test pattern or without it, and is each one answered? | holds until the bit is cleared while UAF holds a datagram |
| `uaf_drain` | Does the drain of UAF end once the bit is set again? | **violated** |

What the five violated properties show:

* `rx_settle`. `tcp_shell_if.cpp:1194`: RRh requests `rrh_freeSpace` bytes of a longer
  notification. When a dequeue signal waits in that cycle, the branch adds 8 to
  `rrh_freeSpace` in place of subtracting what it requests. The count then exceeds
  the size of the buffer for good; RRh later requests more than the buffer stores, and
  when the sum wraps in its register, it waits for a buffer to drain that is
  empty. The testbench checks the very property
  (`test/simu_tcp_shell_if_env.cpp:154`), with segments that do not meet the branch
  together with a signal. `CreditKept` says what the branch does to the count, and that
  no other step does anything to it. Up to the wrap the error is to one side: RRh counts
  too much, never too little (`NeverShort`), so it requests too early but does not wait for
  space there is. What is requested and does not fit
  waits in the stream from the TOE, in front of IRb.
* `listen_late`. After the watchdog has expired the request is repeated, two
  replies come, and the second is read as that for the next port. If that one is
  denied in the end, LSn never sees it.
* `tx_failed_open`. A failed open leaves its socket and session in COn's registers,
  and a test to the same socket is then sent on that session without opening it.
* `mem_stop`. An error found in the last chunk of the ramp: the invocation that
  stops has already moved the test to its next phase, with the address at the start,
  and the next invocation takes this for a new test and clears the error.
* `uaf_drain`. The drain of TXp tests `siEPt_DLen` and reads `siEPt_Meta`
  (`udp_app_flash.cpp:309-310`), and tests the streams of ESf and reads those of EPt
  (312-319). When the stream it reads is empty, TXp is blocked in that read, also
  after the role is enabled again: the bit has only to be cleared while a datagram
  for port 8802 is in UAF.

Met while modelling, in the models, but without a run of their own: RNh drops a
notification when its stream is full (1095), although its comment says that none is ever
missed; a segment of port 8801 that is read in two requests yields a second command from
the middle of the segment (1441); TXp toggles between the lines and then ignores the
toggle, so a steady flow on the pass-through line starves the other
(`tcp_app_flash.cpp:279`); command 1 ("Run once") of the memory test does not clear the
flag that command 2 has set (`mem_test_flash.cpp:149`), and line 262 puts an
uninitialized local into the debug vector. With `MaxDelay` not below the timeout a late
status puts the memory test one status ahead of the memory, so its verdict says nothing:
`PassMeansGood`, `NoFalseAlarm` and `WrittenBeforeRead` are only claimed (and proved)
for a DataMover that answers in time; `CommandsInBounds` and `TypeOK` also for one that
does not. When the watchdog of USIF expires (`udp_shell_if.cpp:210`) LSn goes on to the
next port with the reply still to come; that reply is read as the next port's, and so on
along the table, so that a denial of the last port is never read and the port stays
closed: `UsifPortsOpen` is claimed up to the expiry, `RoleComesUp` also beyond it.
Clearing the bit with datagrams in UAF leaves streams of one datagram without the
others, and the metadata of one is then paired with the data of the next, so that a host
is sent what another host sent (without its `~interrupted`, `RightAddressee` fails in
`udp`): no comment says what should happen, so the properties of `Udp` are claimed up to
that point (`interrupted`). COn takes any reply for its own (`tcp_shell_if.cpp:210`): if
the role is enabled before COn has drained the replies of before a reset, or before they
have come, its request crosses them, each reply is taken for the next request from then
on, and a test may go to a connection other than the one opened last; the drain
(157-165) is only safe for a host that waits long enough. `SendsToLastOpened` excepts a
request that crossed (`crossed`), and `NothingLeftBehind` says that COn never adds to
what it has not drained. A test command of 0 bytes for the UDP generator sends a
metadata of length 0 without data (`udp_shell_if.cpp:502`); the commands of the model
ask for at least one byte (`UdpLenAssumption`).

### Bounds and why they are enough

* Streams have depth 1 to 4 in place of 2 to 2048: full and empty streams are where
  processes stall, and small depths make every combination of them happen. The
  input buffer of `rx_split` has 4 chunks, 32 bytes, and the segments 12 and 40 bytes:
  one that ends within a chunk, one longer than the buffer. `cMinDataReqLen` is two chunks,
  so RRh meets the minimum above and below.
* `MaxNotifs` (3 segments), `MaxCmds` (3 tests) and `MaxSegs` (2 echo segments) bound
  what arrives: one segment in progress, one behind it, one in the neighbouring
  stream; a connection opened, another opened, and the first used again.
* `RetryCnt` is 1 (0x200 in the code), enough for a retry that succeeds and one that
  runs out. Test lengths 0 and 24 in `tx_paths`: open without a test, and three chunks,
  an odd number, so that the alternating pattern does not end where it starts. There are
  two sessions, the one TAF answers and the one COn opens and, once it is closed, opens
  again, and one open request of before the reset.
  Echo segments are 12 bytes, two chunks, in a stream that holds one: what WRp leaves
  behind of a segment is at the head when the next one starts.
* `SegMod = 3` numbers the segments in TAF modulo 3: a slip by one or two segments shows.
* `tsif_live` has two segments of 12 bytes, a buffer of 2 chunks, a least request of one
  and a session per kind of port. After a segment there is room for a part of the next,
  which RRh requests (the branch of line 1194, with a signal and without), in up to
  `MaxSplits` (2) requests for each segment, so that RRh waits for space and the streams
  of the loop fill. `RetryCnt` is 0 there, as the loop of the retries is that of
  `tx_paths`. The count forgets what it requests, but two segments do not bring it past
  the top of its register: what the loop does after a wrap no run shows.
* `udp` receives `MaxDgms` (3) datagrams of 12 bytes, two chunks of which the second
  is not full: one in each line, and one behind them or in the generator. All senders
  and targets are different hosts. A test is 20 bytes long, three chunks, so that the
  pattern does not end where it starts. `uaf_drain`
  has two, of one and of two chunks. The data stream of a line holds 2 chunks: a
  datagram just fits (`UdpFitsAssumption`), as it does with the depths of the code.
* The memory has three chunks of two words: a first, an inner and a last chunk, and
  addresses that wrap at the top as the real ones do, whose registers of 33 bits end
  where the 8 GB end. All stuck values and all pairs of shared addresses are tried.
* The watchdog is 10 in `listen_late`, its value in simulation. In `listen_prompt`,
  with three processes, it is 2: the TOE answers in less (`MaxDelay = 1`),
  the UOE may take 2 invocations, the least that is late, but only once. The port
  table is the real one.

Deadlock checking is on in every run. `tx_paths` treats its two hosts as symmetric:
nothing in the module or its safety properties tells them apart. Sessions are not
symmetric anywhere: they differ by their ports, their parity or their role.

### Fairness

HLS processes are invoked at every clock cycle: each process has weak fairness
(`WF`), which says no more than that one that can do something does so in the end.
The TOE and the UOE answer requests, complete what they announce and take what they
are sent, and the DataMover serves commands (WF each). `RoleListen` needs strong
fairness (`SF`) of the acceptances: the engines do not deny a port, or leave the port
of CLs open, for ever, without which LSn and CLs indeed never end. Nothing obliges
the network to send, the host to command, or the enable bit to be set: liveness
properties have `<>[]piSHL_Enable` (or a command that stays) as their premise. The
fair specifications are those of `Tsif`, `RoleListen`, `Udp`, `Taf` and `MemTest`.

## 4. Proofs

TLAPS proves, for every value of the constants under the named `ASSUME`s, every
invariant of a passing run, the action properties `GivesUpLate`, `CreditKept` and
`NothingLeftBehind`, and the two refinements
of `TafEcho`; some under a premise, which the theorem states. `PROJECT.json`,
"theorems", lists the results. By module:

**`TsifRx_proofs`**

* `TypeInvariant`. The part that is not bookkeeping is `FreeSpaceOK`: `rrh_freeSpace`
  stays a multiple of 8 inside its register for any buffer, any lengths and any order of
  signals. Subtractions cannot underflow *because* it is a multiple of 8 (a length that
  is not larger than the space, rounded up to chunks, is not larger either), which is
  why the invariant needs the remainder as well as the range. It holds in spite of
  `rx_settle`: the value is wrong there, not its shape.
* `OrderOfSessions`, `Disposition`, from the inductive `OrderInv == SessionsInOrder /\
  CommandsMatchPort /\ RightDisposition`. `RightDisposition` alone is not inductive:
  what RDp keeps depends on the command and the metadata at the heads of two streams
  being of the same session, which `SessionsInOrder` says of the whole chain from RRh
  over the TOE to RDp, and on the command being right for its session
  (`CommandsMatchPort`).
* `DataFollowsCommand`, `TafReadsItsStream`, from `FlowInv`. A segment here is the data
  of one request: a session, the position of its next byte and the bytes left. `FlowInv`
  says there are a segment `m` in RDp's hands, one `t` in TAF's, and lists of segments
  between, such that the streams of chunks are *cut* from these segments, the streams of
  metadata, requests and commands are their images, and the positions of one session's
  segments follow each other (`Chained`) from what TAF has read to what the TOE has
  streamed. That the TOE can stream a whole segment in one step is an induction over the
  number of its chunks.
* `BalanceIsKept`: `CreditKept`, without any premise on the lengths, the buffer or the
  least request. `Balance` is the free space plus what is asked, stored and signalled:
  no step changes it, but for `ForgetsRequest` (the branch of `rx_settle` taken while a
  signal waits), which adds what it requests, and for an addition that passes the top
  of the register.
* `NeverShortBelowTheTop`: hence the count never falls short of what is free as long as no
  signal meets a count at the top of its register (`CountAtTop`). The premise is about
  the run and not about the constants: the code's (a least request of 128, a buffer of
  2048 chunks) allow the branch, and the branch often enough reaches the top.
* `OneBranchLeaks`, `SettlesUnlessForgotten`: as long as RRh does not take that branch the
  balance is the size of the buffer (`CreditExact`) and the space settles back: the
  violation has no second cause.
* `NoByteTwice`, `OnlyRNhLoses`, `EveryByteOnce`. What the TOE holds of a session is at
  least what notifications and requests under way will read; it is exactly that as long
  as RNh drops no notification (line 1095), and RNh drops none while no more segments
  arrive than its stream holds.
* These are sums over streams. `SumFunction` is a fold over a set, in an order the
  definition does not fix. `Sums` unfolds it, and the lemmas before `Total` show by
  induction over subsets that the order does not matter (`TakesOut`), so that a sum
  changes by what is appended or taken.

**`TsifTx_proofs`**

* `TxTypes`, `GrantsAreFilled`, `TafStaysAligned`, from `FlowInv`. WRp moves chunks of
  the stream of TAF against lengths of another stream, so the proof must say that the
  one is cut into segments by the other. `Cut` is the least relation of a stream of
  chunks, a stream of lengths, the bytes due and the number of the last segment that
  holds of empty streams and is kept by announcing a segment and by writing a chunk;
  `CutNew`, `CutWrite` and `CutRead` say what TAF and WRp do to it. `RequestInv` says
  that the one request of WRp is with the TOE or answered, never both.
* `PatternAlternates`. The pattern of a generated chunk follows from its place in the
  segment, but only the TOE counts places: `PatternInv` ties the head of the stream to
  what the TOE has received, each chunk to the next, and the last to what WRp generates
  next.
* `NoReplyIsLeft` (`NothingLeftBehind`), for any residue of a reset and any use of the
  enable bit: `ReplyInv` says that while COn waits for a reply there is one to come or
  waiting, so that `Unasked`, those beyond it, never grows.
* `TestsGoToLastOpened`, from `OpenedInv`: once COn's request has crossed none of before,
  what COn remembers is what the TOE opened last. It holds if every open is
  established: `tx_failed_open` shows that this cannot be dropped.
* `RetriesComeFirst`: `GivesUpLate`, an action property. `RetryInv`: the refusals the
  TOE has counted, less those of the request in hand, are a multiple of `RetryCnt + 1`.
* They hold for replies that are grants or refusals the code names
  (`TxReplyAssumption`).

**`Tsif_proofs`**, the loop of both paths, TAF and COn

* `ReceivePathInside` (`TsifSpec => Spec`) and `TransmitPathInside` (`TsifSpec =>
  Tx!Spec`): the loop implements both modules it is made of, step by step. The second
  needs `EchoedInv`, that RDp only tells TAF of sessions on echoed ports, and what is
  proved of the receive path, that a segment TAF announces carries bytes. So all that is
  proved of a path holds in the loop; `SendsWellInTheLoop` and `CreditInTheLoop` state
  it for what matters most.
* `EchoIsPassedOn`: `PassedOnWhole`, from `FlowInv` of the receive path. The two paths
  count the bytes of a segment separately, and they agree.
* `TransmitAssumption` says of the constants of `Tsif` what `TsifTx` assumes of its own.

**`Taf_proofs`**

* `TafTypes`; `MetaMeetsItsData` and `TafImplementsEcho`, from `AlignInv`: there are
  metadata `rm` in RXp's hands and `tm` in TXp's such that each stream of chunks, on
  either line, is cut from the stream of metadata beside it. RXp chooses the line by the
  first metadata that waits and keeps it until TLAST, so the refinement needs that the
  chunks at the input are those of the waiting metadata.

**`Udp_proofs`**

* `UdpTypes`, with the enable bit set and cleared at any time. `UdpInv`
  follows a metadata through the role: as it comes in (`InMeta`), in UAF (`EchoMeta`),
  with its sockets swapped on its way out (`AnswerMeta`), or as a command of the
  generator (`TestMeta`); no other kind of message is ever in the stream.
* `DatagramsStayWhole`, `Addressees`, `GeneratedPattern`, `UafImplementsEcho`, from
  `FlowInv`: as long as nothing is interrupted there are datagrams in the hands of RDp,
  RXp, TXp, WRp and the UOE, one that RXp has announced but not closed with a length,
  and between them lists of datagrams, such that the streams of data are cut from them
  and those of metadata and lengths are their images. A line of UAF is the hard stage:
  its length is written behind the data, so the list of lengths is shorter than that of
  metadata by the datagram RXp has not completed. `Addressees` is for any senders and
  targets (`UdpHostAssumption`): that the bytes of a datagram go to its own sender needs
  all streams of a line to be about the same datagram, which is what `FlowInv` says.
  After an interruption the streams of one datagram no longer match, and `FlowInv` says
  nothing.

**`MemTest_proofs`**

* `AddressesInMemory`: `CommandsInBounds` for every size of the memory, every delay and
  every value read. `AddrInv` says which values `lastCheckedAddress` takes (the start,
  the last address of a chunk, the value that stops a test), for the next chunk is
  computed from it, and that a state that is not idle has the start of a chunk in
  `currentPatternAdderss`. `MemTestTypes`, also for any delay, adds the counters
  (`MachineInv`).
* `ReadsOwnWrites`, `AlarmsAreFaults`, `PassedIsGood`, under `MaxDelay <
  CYCLES_UNTIL_TIMEOUT`. Beyond the timeout the machine goes on with the memory still
  writing, so that nothing about the contents holds. `PathInv` says where a transfer is
  and that no status of an earlier one waits. `InvStore`: the store of a sound memory is
  the ramp up to where the test has come, then pattern or complement. `InvPass`: as long
  as no error is seen, the part of the memory that was read holds what was written. A
  ramp read back without error shows that no two addresses share a cell; a chunk read
  back with the pattern and its complement shows that no word of it is stuck.

**`RoleListen_proofs`**

* `AckedOpen`, `AllPortsOpen`: under `MaxDelay < WatchDog`, every port LSn of TSIF has
  moved past is open, and all are when it is done. The inductive `ListenInv` says where
  the one outstanding request is (`OneUnderWay`): in the request stream with the
  watchdog still at `WatchDog - toeAge`, or in the reply stream as the answer about
  `PortOf(lsn_i)`. `listen_late` shows that the assumption cannot be dropped.
* `UsifOpens`: `[]UsifPortsOpen`, without any assumption on delays. Until the watchdog
  of USIF expires, its one request is in the request stream, or its answer in the reply
  stream is about `PortOf(lsn_i)` (`UsifUnderWay`), and CLs only closes a port that is
  not in the table (`UsifTableAssumption`). The expiry is the only thing that can leave
  a port closed.
* `RoleTypes`. That the watchdog of USIF does not count below 0 and the age of a request
  keeps its bound needs both together: `UsifTime`, the age is what the watchdog has
  counted.

**`StreamLemmas`** holds what these proofs share: facts on `Append`, `Tail`, `Head` and
`\o`, on the image of a stream under a function, and `SegStream`, the relation of a
stream of chunks and the stream of segments it is cut from. A recursive definition would
be of no use to the provers, so `SegStream` is the least relation that its rules close:
a rule is applied by definition, and what holds of the rules holds of the relation.
Induction over `Nat` is stated over a set of numbers (`NatSetInduction`, from the least
element of a set of numbers) instead of a predicate.

Model-checked only: liveness under fairness (`AllServed`, `RoleComesUp`, `RxpCompletes`,
`VerdictReached`, `AllAnswered`), which with `ENABLED` is beyond TLAPS, and the expected
violations, which are counterexamples. The premises above are the ones the runs have
too, but for `NeverShortBelowTheTop`, `OneBranchLeaks`, `OnlyRNhLoses` and their like, whose
premises are about a run of the system: `tsif_live` stays below the top of the
register, `rx_settle` takes the branch, and in `rx_split` RNh has room for all it gets.

## 5. Not modelled

* The variants under `USE_INTERRUPTS` (383-1012): line 59 undefines it.
* The debug probes of RDp and RRh, whose readers `Role.vhdl` ties to "always ready".
* The watchdog of COn: its expiry prints and rearms, nothing else.
* MMIO writes other than those of the enable bit and the memory test's command.
* `esf_byteCnt` of TAF and UAF, which nothing reads, and the comparison of RXp (UAF) of
  the counted with the announced length, which only traces.
* Two composed halves of the role (TCP and UDP) with traffic: they share nothing but
  the enable bit.
* `TAF_USE_NON_FIFO_IO`, which nothing defines.
* The HLS wrappers, VHDL, host programs, testbenches, and the SHELL, which is not in
  the repository.

## 6. Plan

Done: `TsifRx` with its type, order, flow and credit properties; `TsifListen`; `TsifTx`;
`Taf` with `TafEcho`; `MemTest`; the composition `Tsif`; USIF and UAF with their
composition `Udp` and the startup `RoleListen`; the proofs of section 4, which state
every invariant of the passing runs.

Left, in this order:

1. Theorems: the properties of `TsifTx` that need all opens established, in the loop
   (`Tsif` may let opens fail); what still holds of `Udp` after an interruption beyond
   types, such as no stream holding more than the datagrams received; UAF
   with the generator of USIF as one abstract service of the UOE.
2. Abstract specifications of the receive path and of the loop: a set of byte streams,
   each read in order, which `FlowInv` all but states.
3. The `USE_INTERRUPTS` variants, should they be built again: the same promises, with
   notifications queued and merged by interrupt.
