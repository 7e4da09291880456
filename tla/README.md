# Verification of the real-time video sender

The program in this repository takes frames from a camera (or a file), encodes
them with x264, sends the stream with a vendored copy of jrtplib and, on the ARM
board, reads an energy sensor over a serial line. This directory holds TLA+
models of its parts, the TLC configurations that check them, and TLAPS proofs.
Paths below are relative to `src/`; files named `rtp*` and `rtcp*` are in
`codes/inc/rtp/`.

## 1. Inventory

| Part | Source | State it keeps | Operations | Models |
|---|---|---|---|---|
| main loop | `codes/scr/main.cpp` | run mode, sensor state, frame counters, the `energy` pointer | `main` | `VideoPipeline` |
| parameters | `codes/scr/option.cpp` | `G_para`, `G_file` | defaults, command line, files | `CommandLine`; their use in `VideoPipeline` |
| camera | `codes/scr/capture.cpp` | buffer ring, static index `i` | `Video_Init`, `Video_Capture`, `Video_Exit` | `CaptureQueue` |
| YUV conversion | `codes/scr/trans.cpp` | the planes of one frame | `YUV2_to_YUV420` | `YuvTransform` |
| sensor reader | `codes/scr/main.cpp:250-297` | `dat`, `dat_i`, the angles | `Get_Energy` | `SensorLink` |
| serial ring | `libraries/Serial/Serial.cpp` | `_rx_buffer` head, tail, bytes | `available`, `read`, `flush`, `process_recv` | `SerialRing`, `SerialFifo` |
| encoder wrapper | `codes/scr/encoder.cpp` | x264 handle, picture | `X264_init`, `encode_frame`, `X264_end` | outcomes in `VideoPipeline` |
| RTP wrapper | `codes/scr/rtp.cpp` | the global session | `RTP_init`, `RTP_send`, `RTP_end` | outcomes in `VideoPipeline` |
| RTP session | `rtpsession.cpp`, `rtppollthread.cpp` | parts, SSRC, `sentpackets`, BYE list, poll thread, five mutexes | `Create`, `Destroy`, `BYEDestroy`, `SendPacket`, `SetMaximumPacketSize`, `ProcessPolledData` | `SessionSetup`, `RtpSession` |
| own collisions | `rtpcollisionlist.cpp` | addresses with times | `UpdateAddress`, `Timeout` | `RtpCollisionList` |
| times | `rtptimeutilities.h` | none | arithmetic, comparison, NTP | `RtpTime` |
| source table | `rtpsources.cpp`, `rtpsourcedata.cpp`, `rtpinternalsourcedata.cpp` | entries, three counts, packet queues | RTP and RTCP packets, timeouts, own entry | `RtpSources`, `RtpReceive` |
| SDES items | `rtcpsdesinfo.cpp` | private items | set, delete, search | `RtcpSdesInfo` |
| RTCP scheduler | `rtcpscheduler.cpp` | next and last time, members, BYE timer | `IsTime`, `ScheduleBYEPacket`, `ActiveMemberDecrease`, ... | `RtcpScheduler`; its BYE flag in `RtpSession` |
| RTCP builders | `rtcpcompoundpacketbuilder.cpp`, `rtcppacketbuilder.cpp` | what is collected, flags of the round | add and build | `RtcpLayout`, `RtcpCompound`, `RtcpReports` |
| RTCP parsing | `rtcp*packet.cpp`, `rtcpcompoundpacket.cpp` | none | `ParseData` and the packet classes | `PacketBytes`, `RtcpLayout`, `RtcpFormat` |
| RTP packets | `rtppacketbuilder.cpp`, `rtppacket.cpp` | sequence number, timestamp, counts, CSRCs, defaults | build, parse | `PacketBytes`, `RtpPackets` |
| UDP transmitter | `rtpudpv4transmitter.cpp` | sockets, local addresses, destinations, groups, lists, packets; abort descriptors, `waitingfordata`, two mutexes | every operation | `UdpTransmitter`; the wait and its abort in `RtpSession` |
| IPv6 transmitter | `rtpudpv6transmitter.cpp` | the same | the same | `UdpV6Transmitter` |
| external transmitter | `rtpexternaltransmitter.cpp` | packet list, pipe, `waitingfordata`, two mutexes | inject, wait, abort, destroy | `ExternalTransmitter` |
| hash tables | `rtphashtable.h`, `rtpkeyhashtable.h` | chains, list, cursor | add, delete, go over | `RtpKeyHashTable`, `RtpTable` |
| JThread, x264 | headers only | | | external, from their use |
| Arduino core, LiquidCrystal, SPI, Wire | `cores`, `libraries` | | | not modelled, see 8 |

How the parts interact. One thread runs `main`: it calls the camera, the sensor,
the encoder and, per NAL unit, the RTP session. The camera driver fills mmap'ed
buffers on its own. The session starts a second thread, which waits in `select`,
takes what came in to the source table and sends RTCP when the scheduler says so;
the two share the session under `sourcesmutex`, `buildermutex`, `schedmutex` and
`packsentmutex`, and the transmitter under `mainmutex` and `waitmutex`. The RTCP
builder goes over the source table for its report blocks and tells the scheduler
the size of what it built; the source table calls the scheduler back when members
leave. The external transmitter adds threads of the application that inject packets.

What is hard: the order of the two threads and of their six locks, the abort of a
wait and the killing of a thread that does not hear it, the BYE of a collided
SSRC; the unchecked index of the capture ring; a ring buffer that looks empty
when it is full; retries that keep the old answer; conditions that decide
separately whether a frame is output and whether it is counted; calls whose
failure nobody looks at; counters that many functions keep by hand beside a table;
sequence numbers that wrap, come late and are lost; sizes that are computed apart
from what is written; flags that carry a round over many packets; set-ups that fail
half-way and are tried again. `PROJECT.json` lists each at its line, with the
properties that cover it or the reason why none does.

What makes each part correct: the camera's buffers are copied while the program
owns them, each frame once, and converted into planes inside their buffer; the
serial bytes come out in order; a sample belongs to the call that asked for it;
what is counted is what was output; a session is there as a whole or not at all and
is taken down alone, no lock holds anyone for ever, BYEs follow the data they end;
counts agree with the table; what is built is what the other side reads; every
source is reported on in turn, at intervals not shorter than allowed, for ever;
lists hold what was asked for; a wake-up is never lost; a table is a map.

## 2. Modules

### The program

**`CaptureQueue`** — `capture.cpp`. The driver is a FIFO: `fifo` holds the queued
buffers, the first `done` of them filled. Every function is an action (`pc` says
which is next); each failing call is `Fail`, as every one ends in `perror` and
`exit`. The driver may grant more or fewer buffers than asked for. `i` is
the static index, `dq` the index the driver returned and the code ignores; `copied`
(history) the frames copied, one after the other.

**`YuvTransform`** — the loop of `YUV2_to_YUV420` with its three indices; a byte of
the result is the place in the camera's frame it came from, so that a wrong plane,
a double write or an overrun is seen.

**`SerialRing`** — the ring in `Serial.cpp`: `buffer`, `head`, `tail`; one
`process_recv` with any number of bytes the kernel may return. Bytes are numbered
by arrival, so that order and loss can be seen; `handed` (history) are those `read`
handed out, so that a byte handed out again is seen too.

**`SerialFifo`** — what that ring promises: a FIFO which forgets everything when a
receive fills it exactly. `SerialRing` implements it (`ImplementsFifo`, with
`queue <- Contents` and `last <- Latest`), and `SensorLink` is built on it.

**`SensorLink`** — `Get_Energy`: ask, wait, the `do` loop (store a byte, receive,
test for a line feed), drain, `sscanf`, ask again. A number is one symbol; the
bytes `sscanf` may find behind the unterminated `dat` are chosen freely. The
sensor is external, of one of five kinds, and may always send a good answer: good;
truncated (a line cut short anywhere behind its first number); blank (cut short
anywhere, down to the bare line feed); garbled (text in front); chatty (no answer, or
two). `since` (history) is the number of requests before the call.

**`CommandLine`** — `option.cpp`: the defaults, one action for an option with its
argument (options that only store a number are one), then the check that opens the
files. `given` is the command line so far, for the properties.

**`VideoPipeline`** — `main`. Parameters are an arbitrary record `opt`; `opened` is
the set of files that could be opened. Each callee has its outcomes: a camera call
may fail, x264 may not open or refuse a frame, a packet may not be sent. Null and
wild pointers end in `pc = "crashed"`, calls to `exit` in `"failed"`. `outputs`
is a history variable: frames handed to x264 or to the YUV file.

### The session

**`SessionSetup`** — `Create` with its eleven steps, each of which may fail and
undoes what its branch in the code undoes; `Destroy` and `BYEDestroy` with the poll
thread going; `SetMaximumPacketSize` in three steps. `live` is the set of parts that
hold memory, sockets or a thread. The object is created again after every end.

**`RtpSession`** — main and the poll thread, from a created session to a left one.
`owner` says who holds each mutex; `mpc` and `ppc` are the two threads. A section
that takes a mutex and blocks nowhere inside is one action guarded by `Free`; where
a second mutex is taken inside, the first is held across actions. `aborts` counts
the bytes in the abort descriptor. `JThread::Kill` is external: `pthread_cancel`
of a thread that has been in a long `select`. `used` and `byes` are history.

**`RtpTime`** — the two-word times: sums, differences, comparisons, a delay from a
quotient, NTP words and back. Floating point is exact arithmetic rounded down.

**`RtpCollisionList`** — the addresses that use our SSRC, on `RtpTime`: a new one
changes the SSRC, a known one is our own packet coming back, the timeout's delay
changes with the RTCP interval.

**`RtpSources`** — the table of participants with the three counts kept beside it. A
compound RTCP packet, or a CSRC list, is worked through entry by entry (`pending`)
with the sources lock held. An address is its host; a time is an age capped at
`MaxAge`, older than every timeout. SDES items are CNAME, NOTE or others.

**`RtpReceive`** — one source in detail: probation, the extension of 16-bit sequence
numbers, the sorted packet queue; around it a network that loses, repeats and delays
packets within `Late` and `Ahead`. `clean` marks the behaviours without the two
arrivals that the extension cannot get right (see the run).

**`RtpKeyHashTable`** — chains, list and cursor on a heap of nodes whose addresses
are used again. **`RtpTable`** is what it promises: keys without duplicates, in
order, with a cursor that may be stale. `RTPHashTable` is the same code
with the key as its value.

### RTCP and RTP packets

**`PacketBytes`** — the bytes both kinds of packet are made of: a byte has the role it
was written in instead of a value.
**`RtcpLayout`** — the sizes and the header of RTCP packets, which builder and parser
share; its length field has 16 bits.
**`RtcpFormat`** — their parser with every check of a length. Each of its three loops,
over items, chunks and packets, is a recursive function of the number of turns; there
are no more turns than headers in the bytes read.
**`RtcpCompound`** — the compound packet builder as operators on one record: the
room left, the packets written, the size computed beforehand. A maximum is at most a
UDP datagram (`CallAssumption`): the UDP transmitters refuse a session with more than
65535 bytes. From 262144 on a length of packets could exceed its field.
**`RtcpRoundTrip`** — what the compound packet builder writes against what the parser
reads in it.
**`RtcpReports`** — the packet builder above it: report blocks and SDES items going
round over packets that are too small for all, with members coming and going. The
two loops that fill a packet are recursive functions of the place they have come to.
**`RtcpSdesInfo`** — the private items of one source.
**`RtcpScheduler`** — the timer, in ticks relative to now: intervals with a random
factor, reconsideration, reverse reconsideration when members leave, our BYE.
`since` is what the timer believes has passed since the last packet, `elapsed`
(history) what has, since the last packet or, before the first, since the timer was
started. The average packet size is a constant.
**`RtpPackets`** — the RTP packet builder with its counters, the bytes it builds, and
the parser. Every number has the width of the code, as a modulus: 16 bits for
sequence numbers and for the words of a header extension, whose number is cut as it is
handed on (`Passed`), 32 bits for timestamps and for the counts of packets and of
payload bytes. `asked` and `log` are history.

### Transmitters

**`UdpTransmitter`** — the IPv4 transmitter without its wait: creation with all its
failures, local addresses found in three ways, destinations, groups on two sockets,
accept and ignore lists, sending, polling. The system may refuse any call, the
dropping of a membership included, which the code does not notice: `kept` are, per
socket, the groups it was not let out of. `asked` is what the list calls selected, and
`lost` the ports selected again while they were excepted from an entry for all ports;
`read` what a poll read (all history).
**`UdpV6Transmitter`** — the IPv6 class repeats the IPv4 code with another address
type and other socket options; its operations are stated with those of
`UdpTransmitter`.
**`ExternalTransmitter`** — injecting threads, the poll thread and a thread that
aborts and destroys, with main mutex, wait mutex and pipe. `Destroy` writes a byte for
a wait that is going on (`DestroyWakes`), closes the pipe under it (`DestroyCloses`)
and waits for its end (`DestroyJoins`). What the system makes of a `select` on a
descriptor that is closed meanwhile is left open: it may see the byte or not, and ends
with its delay at the latest. The second unlock in `Destroy` releases the main mutex
whoever holds it.

**`Subsequences`** — what a loop keeps of a sequence (`SelectSeq`), told by the places
kept instead of by recursion, so that one can reason about it; for the loops that
delete from a list or read from a socket while going over it.

`MC<module>` is what TLC runs; it extends the modules whose constants carry
assumptions. Where one run covers several modules, a variable
`focus`, chosen at the start, says which part a behaviour moves: `MCPipeline` (main,
options, frames), `MCSession` (threads, setup, collisions), `MCRtpSources` (timing,
identity, data), `MCRtcp` (compound, reports, schedule, packets, sdes),
`MCTransmitter` (filter, sockets and datagrams of either family, external, table).
`MCVideoPipeline` and `MCRtpSession` serve the runs that look for one violation. A
definition whose comment starts with "Bug" (or "Not the code") is a changed copy of
the definition below it, used to show that a property notices the change.

## 3. Runs

Twelve runs, each a question to a group of parts. A property that has several parts
is their conjunction; the parts are named in its module, each with its comment.

**`capture`** — 3 buffers asked for, 1 to 5 granted, 12 frames. The copy and the
re-queue always use the buffer the driver dequeued (`CopiesDequeuedBuffer`); none
leaks (`NoBufferLeaked`); the frames copied are 1, 2, 3, ..., none again and none
skipped (`EveryFrameOnce`); a capture ends (`CaptureEnds`).

**`ring`** — 4 bytes, 9 arrivals. The ring's contents are the latest bytes of the
stream (`UnreadIsSuffix`), no byte is handed out again or after a later one
(`ReadsAdvance`), and it implements `SerialFifo` (`ImplementsFifo`).

**`sensor`** — 3 numbers per answer, ring of 6, `dat` of 8, 2 calls, 16 bytes; a line
of a blank sensor has 0, 2 or 3 numbers. `SampleSound`: with a good sensor the sample
is the answer to the request (`FreshSample`); with one line for each request, cut
anywhere, its numbers are from answers to this call or from the stack
(`SampleFromOwnCall`); as long as each line has a number, a call makes at most as many
requests as a sample has numbers, and their answers fit `dat` (`AnswersFit`); with any
sensor, the numbers of a sample arrived in the order of its fields (`SampleInOrder`).
`CallsEnd`: calls return when each line has a number (`CallReturns`); a garbled answer
is never got rid of and overruns `dat` (`GarbleOverruns`); otherwise a call returns,
overruns `dat`, or waits for ever for a silent sensor or for a line feed that was lost
(`SilenceOnly`). Bare line feeds, which are never parsed away, may overrun `dat`.

**`pipeline`** — *main*: run modes 0, 1, 2, encode modes 0 to 3, every set of
outputs, limit 3, 3 input frames, 2 NAL units. Output and count agree, and recording
without a sensor writes nothing (`CountsSound`); crashes have one of three causes and
devices are taken down in an order (`EndCauses`); only new frames go out
(`OutputsFreshFrame`); the loop ends and the session is left (`MainEnds`). *options*:
every command line of up to 3 options on both platforms: each parameter is what the
line as a whole says, whatever the order and repetitions (`OptionsSound`). *frames*:
widths 2, 3, 4, 6 and heights 1 to 6: even sizes are converted into their planes,
each place written once, inside the buffer; an odd height is not
(`ConversionSound`).

**`session`** — *threads*: 3 packets, 2 collisions, waits short or long. Main takes
the session down alone (`DestroyAlone`), never sends with an SSRC that said BYE
(`NoDataAfterBYE`), a BYE in the list is always timed (`BYEIsScheduled`), the poll
thread starts no new round after the abort (`NoNewRound`), leaving ends unless the
thread was killed (`SessionIsLeft`). *setup*: sizes 1 to 3 of which 2 is the
smallest allowed: a session is there as a whole or not at all, wherever `Create`
failed, its thread has all it uses, and the three sizes agree (`SetupWhole`).
*collisions*: 2 addresses, 8 seconds of 3 "microseconds", 4 NTP units to the second,
an NTP offset of 3, two timeout delays: an address changes our SSRC once while it
keeps using it, and the clock behaves as a number against every other time and across
NTP (`CollisionsSound`).

**`sources`** — *timing* and *identity*: 3 SSRCs, 2 hosts, 2 CNAMEs, ages 0 to 2. The
counts agree with the table, the active count from below (`CountsAgree`); a source
stays with one host, and the one-pass `MultipleTimeouts` leaves the table that the
four timeouts leave one by one (`EntriesSound`); nothing received takes our own
entry away (`OwnEntryKept`). *data*: sequence numbers modulo 8, indices 0 to 8 from
every first number, packets 1 late and 2 ahead, a probation of 2, at most 3 packets
in the queue: only a run validates, the queue is sorted and in the order of sending
except after two kinds of arrival, a packet from before the wrap that comes after it
and a wrap among packets stored on probation (`QueueSound`).

**`rtcp`** — *compound*: 2 blocks or chunks to a packet (31 in the code), maxima of 44
and 110 bytes: the size computed beforehand is what is written, the parser finds what
was added and refuses a packet cut short, the maximum is kept but for an empty first
chunk (`CompoundSound`). *reports*: 3 members coming and going, one of them named by
CSRC lists, packets of 72 bytes, which hold one block or one long item: no member has
a second block while a steady one waits, each SDES item once in a round
(`ReportsFair`).
*schedule*: 4 members, at most 2 of them senders, times to 7 ticks, a smallest
interval of 6, which the random factor may make 2, or 1 before the first packet:
reports keep the smallest interval, the first one from the start of the timer
(`SpacedOut`), and go on for ever, a BYE included (`ReportsContinue`). *packets*: 3
packets, sequence numbers and timestamps modulo 4, counts and words of an extension
modulo 2: the parser finds what was built, an extension as far as its length says; the
counts agree, modulo their width, with what left; the timestamp goes with its time
(`PacketsSound`). *sdes*: 4 prefixes of which two are too long, at most 3 items: the
values last accepted are kept (`PrivateItemsSound`).

**`transmitter`** — 2 hosts, 2 ports, 2 groups, 3 datagrams, on IPv4 and IPv6: lists
hold what was asked for, but for ports added below the entry for all ports that
excepts them (`SelectedAsAsked`); descriptors balance wherever creation fails, and a
socket is a member of the groups in the table and of those the system refused to let
it leave (`ResourcesBalanced`); our packets are told from those of others
(`EchoesKnown`), except that what comes back through a multicast group is not
modelled; a poll that reads anything leaves nothing in front of an empty datagram and
keeps the order, while a poll that reads nothing is not looked at (`PolledInOrder`).
Over IPv6 nothing else of our own host arrives, to keep the run short; reading is the
same code as over IPv4. *external*: 2 injectors, 4
injections, a pipe of 3 bytes: nobody sleeps over a packet, and `Destroy` wakes a
sleeping thread before it closes the pipe and does not return under it
(`WakeupNotLost`), the double unlock lets nobody in (`SectionsApart`), packets are
taken unless a writer is stuck at a full pipe (`PacketsTaken`). *table*: 4 keys in 2
chains: the hash table implements the ordered map (`TableIsMap`).

| Run that finds a violation | Bounds | What it shows |
|---|---|---|
| `pipeline_optimize` | camera, optimization mode | the mode crashes on its first frame |
| `session_long_wait` | as *threads* | after a missed abort and a long wait main blocks for ever |
| `session_bye` | as *threads*, short waits | a BYE for an SSRC nothing was sent with |
| `sources_active` | as `sources` | an active member that the count does not have |

Why the bounds are enough. `capture`: five buffers and twelve frames go round the ring
twice and more, with every number granted. `ring`: a block can wrap, end at the edge,
and fill the ring from every position, twice. `sensor`: two lines of one number and a
whole one just fit `dat`, the most a call that asks three times can store; a doubled
answer exceeds the ring, and `dat` overruns within the bytes allowed. `pipeline`: the
camera passes the limit, the input ends before it; the numbers 300 and 10 of the code
are parameters; three options are an option, its repetition and one that changes the
same parameter in between; the conversion depends on sizes through their parity and
through the difference of a first, a last and a middle line. `session`: a collision
before, between and after packets, a second one while the first BYE waits; a size
refused by one part and not by the others; an address that times out under one delay
and not under the other. `sources`: our own SSRC and two others are enough for a
source that is named by another's CSRC list or report, both from two hosts; an age
passes each timeout by one and reaches "never"; nine packets wrap once and more from
every first number, and the queue of a source on probation overflows. `rtcp`: three
chunks or blocks cross the limit of a packet, items end at different places of a word,
a round takes several packets; one sender is a quarter of the members and two are
more, and intervals lie at the minimum and, before the first packet, above it; an
extension is cut, and both counts wrap. `transmitter`: a list entry for all ports with
and without a port excepted, both ports deleted; a refusal on either socket; an a drop
refused on either, both or none; an empty datagram before and behind others; more
injections than the pipe holds; a chain of three, so that its first, middle and last
element are deleted.

Deadlock is not checked where the program really stops (`capture`, `sensor`,
`pipeline`), where a bound stops it (`ring`, `rtcp`, `transmitter`, `sources`), and in
`session`, where the known way to block for ever would end every run;
`SessionIsLeft` says that no other way exists while main is leaving.

## 4. Findings

- **Optimization mode** (`main.cpp:177`). `energy` is a `float *` to `main`, an `int`
  to `Get_Energy`: the mode reads address 0 or 1. `global.h:78` offers the mode.
- **Leaving may block for ever** (`rtpudpv4transmitter.cpp:376`). `AbortWait` does nothing
  unless `waitingfordata` is set; between the poll thread's last look at `stop` and
  that assignment it is missed, and the thread waits for the next RTCP time, up to
  6.2 s. After five seconds it is cancelled in `select`, with `waitmutex`, for which
  `Destroy` then waits. `rtpsession.h:114-116` promises a bounded wait. (The external
  transmitter writes its byte in any case: `WakeupNotLost`.)
- **BYE without data** (`rtpsession.cpp:1497`). The comments at lines 445 and 1381-1382
  restrict BYEs to SSRCs data was sent with; the flag they rely on is set by BYEs
  and, late, by packets of the SSRC before.
- **Members not counted** (`rtpsources.cpp:354`). A source that is known but not
  validated becomes an active member when a CSRC list names it, and `activecount` does
  not follow; `rtpsources.h:285` says it returns the number of these members.

Without a run of their own, because a passing property states what the code does:

- test mode ends in `STREAMOFF` of a camera never opened (`EndCauses`);
- recording YUV with the sensor off, or in test mode, writes nothing, from the camera
  for ever (`CountsSound`, `MainEnds`);
- a garbled answer is never got rid of (`CallsEnd`);
- `-v` is documented, and missing in getopt's string; `-m` after `-i` undoes the test
  mode (`OptionsSound`);
- a frame of odd height overruns the V plane (`trans.cpp:31`, `ConversionSound`);
- `RTCPSDESInfo::Clear` clears the private items only, although `rtcpsdesinfo.h:60`
  says "all SDES information": our NAME and other items survive into the session
  created next with the same object (`SetLocalItem` in `SessionSetup`);
- a packet size made smaller is given to the transmitter before the builders: a report
  the poll thread builds in between is refused, which ends that thread
  (`rtpsession.cpp:1159`, `RTCPRefused` in `SessionSetup`);
- a datagram behind an empty one is never read (`PolledInOrder`);
- adding a port to the ignore or accept list below an entry for all ports, from which
  it was excepted, answers success without effect (`SelectedAsAsked`);
- an injection stops at a full pipe with the main mutex held (`PacketsTaken`);
- leaving a multicast group answers success when the system refused it, and the socket
  stays a member until it is closed (`rtpudpv4transmitter.cpp:934-936`,
  `ResourcesBalanced`);
- the external transmitter closes both ends of its pipe before the wait on it has ended
  (`rtpexternaltransmitter.cpp:217`, `WakeupNotLost`);
- bare line feeds of the sensor are never parsed away and may overrun `dat`, and a
  sample may be made of several answers (`SampleFromOwnCall`, `AnswersFit`);
- a header extension of 65536 words or more loses all but the rest modulo 65536
  (`rtppacketbuilder.cpp:245`, `PacketsSound`).

## 5. Fairness

- `CaptureQueue`: weak fairness of the program (one thread whose calls return when
  they can) and of the driver (a streaming camera fills queued buffers).
- `SensorLink`: weak fairness of `Get_Energy` and of the sensor's sending: an answer
  that was started is finished. Nothing makes a chatty sensor answer.
- `VideoPipeline`: weak fairness of the single thread. It stands for the camera and
  the sensor answering, and for the user pressing the key that starts a recording.
- `RtpSession`: weak fairness of each thread, as the operating system schedules both
  and `select` has a timeout; and of `ByeDone`, as the BYE loop ends after
  `maxwaittime`. No lock is assumed to be given out in turn.
- `RtcpScheduler`: weak fairness of the poll thread's questions (`FirstCall`, `IsTime`)
  and of time. That members stop leaving is not assumed: `ReportsGoOn` excepts
  behaviours in which they leave again and again.
- `ExternalTransmitter`: weak fairness of the poll thread, of an injector that is inside
  a call, and of a destroyer that has begun. Nobody is made to inject or destroy.

In a run with a `focus` the fairness of a part is asked for only while that part moves.

## 6. Proofs

Every theorem holds for every value of the constants that satisfies the assumptions
of its module; the `MC` modules extend the parts they cover, so TLC evaluates these
assumptions with the values of each run. What a proof needed beyond the property is
its inductive invariant, which TLC checked before it was proved.

**`RingProofs`**: the two rings.
*Camera*, from `CaptureAssumption` (natural numbers, at least one buffer):
`CaptureTypeCorrect`, `CaptureSafe` (`CopiesDequeuedBuffer`), `NoLeak`
(`NoBufferLeaked`), `FramesInOrder` (`EveryFrameOnce`). `CopiesDequeuedBuffer` is not
inductive: that the buffer dequeued is `i` depends on what is queued behind it.
`CaptureInv` adds `RingInv`: while buffers are set up `fifo` is `0 .. mapped-1`
(`InitRing`), and while capturing it is the ring that starts at `i`:
`fifo[j] = (i + j - 1) % count`, shifted by one and shorter by one while a buffer is
out (`CaptureRing`). `FramesInOrder` adds `FrameInv`: the frames in the filled buffers
are the next ones to be copied, in order, and their numbers go on from the number of
frames copied so far.
*Serial*, from `RingAssumption` (a buffer that is not empty): `TypeCorrect`,
`SuffixUnread` (`UnreadIsSuffix`), `ReadsInOrder` (`ReadsAdvance`), `RingRefinesFifo`
(`ImplementsFifo`). The work is in `ReceiveStep`: the slots `process_recv` fills
(`Offset`) are the ones that `At` finds behind the old contents, wherever the block
wraps. `HandedInv` says that each byte handed out is older than all that are unread, so
that the next one is younger than all before it. The refinement maps each action to the
action of the same name.

**`SensorLinkProofs`**, from `SensorAssumption` (an answer does not fill the ring, and
`3 * Fields - 1` bytes fit `dat`): `SampleIsSound` (`SampleSound`). A number is one
byte there; with the sizes of the code, 6 numbers, a ring of 1024 and a `dat` of 200,
the worst case is five lines of one number and a whole line, eleven numbers each with
its separator, which fit as long as a number has up to 16 characters (`AnswersFit` is
about such a sensor). `LinkInv` holds with any sensor as far as `Order` goes: bytes
are stored in the order they came. With a sensor that answers each request with one
line (`SteadyInv`) nothing is lost, so `dat` is always the latest part of the stream:
`Attempt(a, p)` says that the answer being read begins behind place `a` of the stream
and that `dat` holds, in front of it, the `p` bytes of the refused answers to earlier
requests of this call; `Asking` that there are such bytes when the next request is
made. `Past` says what they are: lines of earlier requests, with fewer numbers in all
than a sample has; `NoBlank`, for sensors that send no bare line feed, that each has a
number, so that there are at most `Fields - 1` of them and never too many for `dat`.
`DatIs` and `GoodShown` say what `sscanf` then finds.

**`PipelineProofs`**, the program without its sessions.
*Main*, for every limit, option and number of frames: `CountsAreSound`
(`CountsSound`), `EndsForAReason` (`EndCauses`), `FramesAreFresh`
(`OutputsFreshFrame`). `IInv` adds what ties the three separate tests of the loop to
each other: between output and counting there is one more frame exactly if it will be
counted (`CountInv`), samples are equal often enough only in real-time mode with the
sensor on (`GateInv`), a frame about to go out is new (`FreshInv`), and the order of
opening and closing (`DeviceInv`). One lemma per action of `main`.
*Options*, for a command line of any length: `OptionsAreSound` (`OptionsSound`). The
property speaks of the last option of a kind; `OptionInv` says of each parameter that
it is what the options read so far say, and `SaidIs` how one more option moves "the
last".
*Frames*, for every set of sizes: `ConversionIsSound` (`ConversionSound`). `YuvInv`
gives the three indices as functions of the lines and pairs done (`Done`), and the
bytes written as the beginnings of the three planes. That the planes do not meet, and
that an odd height makes the last V line leave the buffer, is arithmetic on these.

**`SessionProofs`**, the session.
*Threads*, from `SessionAssumption`, for any number of packets and collisions and
every set of delays: `TypeCorrect`, `TornDownAlone` (`DestroyAlone`), `DataBeforeBYE`
(`NoDataAfterBYE`), `BYEsAreTimed` (`BYEIsScheduled`), `LastRound` (`NoNewRound`).
`IInv` says which thread holds each mutex at each program counter (`LockInv`), that
main goes on to leave only when the thread has stopped running (`StopInv`), how many
abort bytes there can be (`AbortInv`), that a collision is about an SSRC that still has
one to come (`CollisionInv`), and that every BYE, listed or sent, is for an SSRC before
the current one, except between `CollisionBYE` and `CreateNewSSRC` (`ByeSsrcInv`).
`NoDataAfterBYE` needs that last part: `ProcessPolledData` builds the BYE and replaces
the SSRC before the same thread looks at `IsTime`, so main may still send with the old
SSRC in between, but the BYE is not out yet.
*Setup*, for every set of sizes: `SetupIsWhole` (`SetupWhole`). The property is about
the time between calls; `SetupInv` says what holds in the midst of them: the parts are
there until the last step of `Destroy`, the thread only until the first
(`PartsThere`), nothing is left of a session that is gone (`NothingLeft`), and while a
size is changed only the transmitter's differs (`SizesFollow`). `FailureUndone` goes
through the eleven branches of `Create`.
*Collisions*, from `WordAssumption` (at least two microseconds to the second and as
many NTP units, an offset below the wrap) and `CollisionAssumption` (the clock starts no
earlier than the timeouts are long, and does not wrap): `CollisionsAreSound`
(`CollisionsSound`). A time is the number its two words write (`Digits`, `ValueIs`);
from that `LessIs`, `TimesAreNumbers`, `QuotientIs` and `RoundTripIs` show the
arithmetic, NTP included. `PaceInv`: the list has the time of the last packet of each
address (`TimesKept`), none is in the future (`HeardBefore`), and what was forgotten
has been silent for longer than the shortest timeout (`ForgottenSilent`).

**`SourcesProofs`**, the source table and the RTP packets.
*Table*, for any SSRCs, hosts, names and delays, from `SsrcAssumption` (finitely many),
`DelayAssumption` (the capped age is older than each timeout) and the assumptions that
keep special values apart: `CountsAreRight` (`CountsAgree`), `EntriesAreSound`
(`EntriesSound`), `OwnEntryIsKept` (`OwnEntryKept`). `StoreInv` is the heart: whatever
an operation does to one entry, the counts after it are right if the operation
adjusts them by the difference in that entry; the lemmas on packets, items, BYEs and
CSRCs show that each does, for the active count from below. `OnePass` shows that the
single pass of `MultipleTimeouts` is the four timeouts in a row, for every table.
*Receive path*, from `ReceiveAssumption` (packets late and ahead stay within half of
the numbers): `QueueIsSound` (`QueueSound`). `ReceiveInv`: the probation left is what
the run still lacks (`ProbationInv`), the queue is sorted (`Sorted`), and in clean
behaviours there is a packet to which the highest number belongs, at most `Late`
behind the newest, from which every queued packet is as far as their extended numbers
say (`HighIs`).
*RTP packets*, from `RequestAssumption` (the types of the arguments of the calls, and
moduli that are not 0): `PacketsAreSound` (`PacketsSound`). `PacketInv` says of the
last packet that it is `PacketOf` what was asked for (`PacketAsked`), although builder
and CSRC list have changed since, and of the counters that they follow the log, with
some packet that begins the last run of one timestamp, or of packets since their count
wrapped (`StreamFollows`, `LastRun`); `RunGrows` is one packet more, `Further` the sum
under a modulus, and `PassedIs` the extension that is cut to 16 bits.
`LayoutIs` gives the place of each part in the bytes, `PaddedIs` keeps it under
padding (`Carries`), and `ParsedIs` shows that the parser arrives at these places.
The payload of a log is a recursive sum: `PayloadIs` shows that it exists and is
unique, by the least place at which it would not.

**`RtcpProofs`**.
*Scheduler*, for every interval, packet size and number of members: `TypeCorrect`,
`LateSide` (`NeverAhead`), `Distance` (`SpacedOut`). `NeverAhead` is what makes
`SpacedOut` true although members leaving scale both times: the time the timer
believes to have passed is never more than the real one, from the start of the timer
on. `Quotient` and `Scaled` bound that scaling, `IntervalBounds` and `DrawnBounds` the
interval that is drawn.
*SDES items*, from `PrefixAssumption` (a prefix is too long or not, and is cut to one
that is not): `PrivateItemsAreSound` (`PrivateItemsSound`), with `Kept(s, p, v)`: what
the search finds for `p` in the list has the value last accepted.
*Reports*, from `SdesAssumption` (the optional items are a list of ids):
`ReportsAreFair` (`ReportsFair`), for any members, maximum, intervals and lengths of
items. The inductive `ReportsInv` says of the members heard before every packet
(`steady`) that those with a report block in this turn of the list come before those
without (`InOrder`) and have exactly one block more (`Level`, a number for all of
them), so that neither a packet that ends in the middle of the list, nor a member that
is removed or falls silent, lets one of them overtake another; and of the items of a
round that those sent are the ones marked as processed, but for what `Destroy` left
marked (`RoundInv`). That a second pass over the list in the same packet, which takes
at most as many sources as were skipped, reaches none that has a block in this packet
already is a pigeonhole argument (`NoneTwice`). Both loops are shown to exist, and
their turns to keep what they should, by the least turn that would not.
*Compound packets*, from `CountAssumption` (31 blocks or chunks to a packet, or any
other number but 0) and `CallAssumption` (lengths of items and reasons are bytes, a
subtype has 5 bits, a maximum is at most a datagram): `CompoundIsSound`
(`CompoundSound`), for any sources, items, reasons and APP data. The inductive
`CompoundInv` says little: what was added has its types, the bytes needed keep to the
maximum, and what was built is `BuiltBytes` of what was added. The work is in showing
what the parser makes of these bytes. `At(d, o, p)` says that `p` is in `d` from `o`
on, `Laid` that a row of pieces is, each where the one before it ends (`Sums`,
`FlattenLaid`, `LaidAt`). Each kind of packet is read as it was written, from any
place in a buffer: `ReportRead`, `AppRead`, `ByeRead`, and for SDES, turn by turn,
`ItemRead`, `ItemsRead`, `ChunkRead`, `ChunksRead`, `SdesRead`. `PacketRead` is one
turn of `ParseData` over a packet that is there, `PacketCut` over one that is not
there as a whole; `CutsRead` joins them for a datagram cut anywhere, `AllRead` for one
that is not. `PieceTotal` and `FlattenGroups` show that groups of at most 31 put
together are what was added, `BuiltLength` that the sizes reckoned beforehand are
those written. A call that is refused changes nothing; one that is not keeps the
maximum by what it compared (`ReportHolds` to `EndHolds`).

**`TransmitterProofs`**.
*Lists and resources*: `ListsHoldWhatWasAsked` (`SelectedAsAsked`), `NothingLeaks`
(`ResourcesBalanced`). An address can be lost only below an entry for all ports
(`LostBelowAll`), which is what makes `SelectedAsAsked` inductive. For every answer of
the system, what a socket does not leave is in `kept` (`LeaveBalances`,
`GroupingBalances`).
*Datagrams*, from `PortAssumption` (port 0 is none) and `NumberAssumption`:
`EchoesAreKnown` (`EchoesKnown`), `PollingIsInOrder` (`PolledInOrder`). `TrafficInv`:
what was read and what waits in each socket is numbered by arrival (`Numbered`), and
the packets still to be fetched are the end of what the polls accepted (`Queued`).
`EchoesKnown` has a hypothesis, as the code does: a list of local addresses the caller
gave is taken as it is, so it has to name the loopback address and all interfaces and
no other host.
*External*, for any number of injecting threads and any pipe: `NoLostWakeup`
(`WakeupNotLost`), `MutualExclusion` (`SectionsApart`), `ExternalTypeCorrect`.
`ExternalInv` says where each thread can be (`Places`), that whoever is inside holds
the main mutex (`Owned`), that the flags tell who waits and destroys (`Flags`), and
that no wait begins with packets in the list and nobody is inside a destroyed
transmitter, whose list is empty (`Empty`). The closer is held in its last place but one
by the wait mutex, which belongs to the thread in `select` (`Owned`). That nobody is
inside is why the second unlock does no harm: when it is done,
`created` is false and every injection returns at once.
*Hash table*, from `TableAssumption` (memory for all keys, a hash index within the
table): `TableBehavesAsMap` (`TableIsMap`), the refinement of `RtpTable`. What a chain
or the list reaches is a recursive function over the heap (`Walk`, whose existence is
shown by hand in `WalkIs`), so `HashInv` says what it reaches: there is a sequence
without repetition of all the elements, linked in both directions (`Strung`), which the
list follows, and one for each bucket, which its chain follows, of the elements whose
key belongs there; the cursor is in the list or stale. `Removed`, `Appended` and
`Prepended` show that unlinking and linking keep such a path, `Untouched` that the other
buckets notice nothing, and with them each operation maps to the operation of the same
name on the map.

**`CommonProofs`**, what several of these need: remainders (`Divided`, `RemainderIs`),
and that picking places from a sequence keeps what is there, and its order, loses
nothing (`PickedIs`, `CutIs`) and goes over a concatenation (`ConcatIs`,
`PickedConcat`). The library's induction principles take an operator as a parameter,
which none of the provers instantiates; `LeastNat` (a set of natural numbers that is
not empty has a least one) takes their place, and a proof by induction is one by the
least counterexample.

Only model-checked:

- liveness under fairness and `ENABLED`, which are beyond the proof system:
  `CaptureEnds`, `CallsEnd`, `MainEnds`, `SessionIsLeft`, `ReportsContinue`,
  `PacketsTaken`.

## 7. What could come next

- a composition of `VideoPipeline` with an abstract camera and session that
  `CaptureQueue` and `RtpSession` implement;
- `RtcpScheduler` with an average packet size that changes.

## 8. Not modelled

- The forwarding entry points of `RTPSession` (SDES items, destinations, groups, data
  access): each takes one mutex and calls an operation that is modelled; the program
  uses none of them.
- `AddUnknownPacket` (compiled out), `GetTransmissionInfo`, the sender callback and
  the local host name of the external transmitter.
- Failing allocations: the default allocator throws. The steps of `SessionSetup` may
  fail for any reason.
- The values in report blocks, jitter, round-trip times and sender reports; SDES texts
  and their lengths beyond those of the runs.
- The length of a mapped buffer and the frame size a driver may change
  (`capture.cpp:262`): the code never reads them back; what `memcpy` then does depends
  on the driver alone.
- The fixed buffers of `option.cpp` that file names are copied into; `is_h264_out`,
  which no option sets.
- `begin`, `end` and the termios settings of the serial port: system calls without a
  state of their own. The Arduino core and the LiquidCrystal, SPI and Wire libraries:
  vendored, unused or stateless here.
- Random numbers, address classes, memory management and error texts of jrtplib: data
  or allocation that no property depends on. Polling without a thread: the
  program never turns the thread off.
- x264 and JThread: only headers are in the repository; they appear by their outcomes.

Data races on `sentpackets` in `BYEDestroy` cannot occur, as the other thread is gone
(`DestroyAlone`).
