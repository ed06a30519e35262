# Verification of piccolo-perf

This directory holds a TLA+ development of piccolo-perf, a network measurement
tool in Go (`src/*.go`): a TWAMP-Light reflector and sender, and an agent and a
Prometheus exporter that run measurements from a configuration and send their
results to InfluxDB. The modules model the control of the program: goroutines,
channels, mutexes, deadlines, files, and the network and disk around them. TLC
checks them on small instances. TLAPS proves their safety properties for every
value of the constants.

    tlc -config <run>.cfg MC<module>.tla      # <run> is <module>_<name>; MCTwamp
                                              # for TwampBurst_default
    tlapm <name>Proofs.tla                    # Twamp, Reflector, LocalStore, Pipeline,
                                              # ConfigDistribution, MtuSearch,
                                              # TraceRoute, ScrapeMode

`PROJECT.json` lists the runs, the source lines behind each definition, one
mutation of the code's logic that breaks each property, the hazards and the
theorems. An operator whose comment begins with "Mutation:" is no part of the
model; it is the changed form of the action next to it.

## 1. Inventory

| Component | Code | State | Operations | Module |
|---|---|---|---|---|
| TWAMP session-sender | `Client`, main.go 500-790 | `pending`, `results`, the socket and its read deadline | `Run`, `runBurst`: a sender loop and a receiver goroutine | `TwampBurst` |
| TWAMP reflector | `Server`, `rateLimiter`, main.go 225-470 | buckets, semaphore, sequence number, counter, sockets | `serve` (one loop per socket), `allow`, `handleTestPacket`, shutdown | `Reflector` |
| Local store | `LocalStore`, store.go | a JSON-lines file, a mutex | `Append`, `enforceCap`, `Flush` | `LocalStore` |
| InfluxDB writer | `InfluxWriter`, influx.go | batch, channel | `runResults`, `write` | `InfluxWriter` |
| Agent mode | `runAgent`, `runMeasurerScheduler`, agent.go | one channel of results, store | schedulers, replay goroutine | `AgentPipeline` |
| Exporter, dual mode | exporter.go 225-345 | three channels of results | dispatcher, Prometheus consumer, writer | `DualPipeline` |
| Exporter, background mode | exporter.go 100-190 | one channel | as agent mode, with gauges instead of the writer | `ConfigDistribution` (its fan-out) |
| Exporter, scrape mode | exporter.go 180-240, 351-389 | a mutex, the current configuration | a handler measures all targets on each scrape; the shutdown of the server | `ScrapeMode` |
| Gauges | prom.go | label sets and values | `UpdateResult` | `ScrapeMode` |
| Bandwidth measurer and server | bw.go | a process or a connection, and its deadlines; a listener | `Run`, `runIperf3`, `runNative`, `accept`, `Stop` | `Bandwidth`, in `ScrapeMode` |
| DNS measurer | dns.go | none | one lookup for each resolver and name | `ScrapeMode` (as one result, or none without resolvers) |
| Topology and its parsing | agent.go 160-359, 739-761 | none | `parseAgentConfig`, `resolveTargets`; `targetsFor`, for tests | `AgentConfig`, in `ScrapeMode` |
| Timestamps and RTT | main.go 48-58, 181-189 | the four timestamps of a packet | `timeToNTP`, `ntpToTime`, `calculateRTT` | `Exchange` |
| Configuration | `runConfigPoller`, fan-out, agent.go 370-400, 620-650, 690-760 | channels of one slot | refresh, fan out, take between two probes | `ConfigDistribution` |
| MTU measurer | mtu.go | `lo`, `hi`, `effective`, a raw socket | binary search with DF echo requests | `MtuSearch` |
| Traceroute measurer | trace.go | TTL, hop fields, a raw socket | `traceV4`, `traceV6` | `TraceRoute` |
| Byte layouts, statistics, flags, deployment | main.go, twamp_measurer.go, deploy | none beyond a call | | not modelled, see 8 |

How they interact:

- **Results.** A scheduler goroutine per measurement runs a measurer and pushes
  each result to a bounded channel. In agent mode the InfluxDB writer consumes
  the channel, and the scheduler then appends the result to the local store,
  which another goroutine replays to InfluxDB every 30 s, holding the store's
  mutex during its HTTP requests. In dual mode a dispatcher offers each result
  to two channels and drops it for one that is full.
- **Configuration.** The poller sends each refresh to `configCh`, the fan-out
  copies it to one channel per measurement, the scheduler takes it between two
  probes. All these channels have one slot.
- **Scrapes.** `net/http` runs each request in a goroutine. One at a time has the
  mutex, measures all targets with the context of its client, sets the gauges,
  which are shared, and serves them.
- **Shutdown.** A signal cancels the context. Each goroutine sees it at a
  `select`, and `wg.Wait` waits for all of them. Several goroutines ask for
  signals, each for its own part of the process.
- **Network.** UDP and ICMP lose, delay, duplicate and reorder. A raw ICMP
  socket delivers the messages of every process on the host.

What is hard to test here, and what the properties are aimed at (the list with
lines is `hazards` in `PROJECT.json`): replies racing their own expiry, and a
channel that is drained only after its producers have ended; two serve loops
sharing a semaphore, the buckets and a shutdown; a crash, a torn write or an
outage between any two steps of the store; a result that is pushed before it is
stored, with a writer that gives up and a store whose errors are only logged; a
dispatcher that ends, and closes its channels, among goroutines that still send
and receive; a refresh that waits for a scheduler that probes; an ICMP message
that answers another probe than the one that waits; scrapes that wait for one
another, for a target that hangs or for a client that has gone; settings that
are absent, fall back to one another or are zero; clocks that are apart and turn
over.

What makes each component correct:

- a burst counts no packet twice, ends, and accounts for every packet;
- the reflector lets no source exceed its rate, counts what it sent, gives every
  slot back, and ends at the signal;
- the store keeps order, loses only what its cap pushes out or a fault explains,
  and clears the file only when all it could read was accepted upstream;
- a pushed result is always somewhere: in a channel, in the writer, in
  InfluxDB or in a write that was given up; and, with the store, in InfluxDB or
  on disk, unless the cap or a failed operation on the file has taken it there;
- a slow InfluxDB does not delay the metrics of dual mode;
- each scheduler gets each refresh, or a later one, and never an older one;
- a search or a trace ends and is exact when no message but its own arrives;
- a scrape is answered, with its own results, and a bandwidth test has an end;
- a file that is accepted yields settings the code can run with, unless it spells
  out others;
- the RTT is the time under way, whatever the two clocks show.

## 2. Modules

```
ProbeAccounting <--refines-- TwampBurst
RingLog         <--refines-- LocalStore
InfluxWriter <--extends-- AgentPipeline, DualPipeline
Bandwidth, AgentConfig <--extends-- ScrapeMode
ConfigDistribution    Reflector    MtuSearch    TraceRoute    Exchange
```

`<module>Proofs` extends a module with its theorems; `TwampProofs` extends
`TwampBurst` and `Exchange`, `PipelineProofs` extends `AgentPipeline` and
`DualPipeline`, whose names therefore differ (`DualSpec`, `ExchangeSpec`).
`MC<module>` extends a module and declares the model values of its `.cfg`s;
`MCTwamp` does for both `TwampBurst` and `Exchange`, which share no variable and
move one at a time.

**TwampBurst.** `Register` .. `Wake` are the sender loop; `RecvReply`, `Match`,
`Push` handle a reply, `RecvTimeout`, `Relock`, `ExpireOne`, `ExpireEnd` a read
timeout. Each lock section of `pendingMu` is a step. `runBurst` (agent, exporter)
and `Run` (command line) differ in one point: `Run` releases the mutex between
finding the pending map nonempty and expiring its entries (`TwoPhase`). Time is
discrete and a step takes none: `Tick` happens only while both goroutines wait.
The model keeps what is left of a sleep and of the read deadline and the age of
each packet, no absolute clock, and the age is capped at the first value past
every comparison of the code: an entry expires when it is older than twice the
timeout at the moment the receiver looks at it. `ProbeAccounting` is what a burst promises:
packets are sent in order, each is received or lost once, and the burst reports
when all are.

**Reflector.** Two serve loops with a one-second read deadline, token buckets,
the semaphore, one goroutine per packet let in, and the shutdown: a goroutine
for each socket asks for signals (`Notify`), and the first that gets one cancels
the context, which both loops share, and closes its own socket. The tick is the time a bucket takes to
earn a token, so the model has no fractions of one.

**LocalStore.** The file is a sequence of records and `Garbage` lines; a write
may be cut short, which leaves an open line that the next write is glued to.
Reading the lines, truncating and rewriting are separate steps of `enforceCap`,
and so are the lines, requests and the final truncation of `Flush`. A crash may
come at any step. The mutex is `op`: while an operation is under way no other
begins. An operation on the file may fail (`Fault`), and a scan that fails passes
for the end of the file, since nobody asks the scanner for its error
(`FlushScanFails`); `enforceCap` takes what was read of the line it ends in for a
line, and writes it back (`CapScanFails`). `RingLog` is what the store promises: a log
of the newest `MaxLines` lines that is emptied only as a whole, once all of it is
upstream. Its action `Fault` says what a failed operation or a crash may do to
the log, and nothing else may.

**InfluxWriter** is `runResults` and `write` with three attempts, the final
write at a cancellation or a closed channel, and an answer that may be lost
after InfluxDB has stored the lines. It has no `Next` of its own:
**AgentPipeline** adds schedulers, the store, and the replay. A record of its store
is the number of the `Append` call that wrote it: `kept` are the records that have
a line in the file, `whole` those whose line decodes. The cap drops the oldest
lines, and an operation that fails, which the scheduler only logs, may take any of
them (`StoreFails`, `ReplayMisses`; `faultAt` is the last record it can have taken).
What exactly it takes, and crashes, are in `LocalStore`. **DualPipeline** adds one scheduler, the dispatcher, the Prometheus
consumer and the closing of the channels.

**ConfigDistribution.** A configuration is the number of the refresh that
brought it. Channels are sequences of at most one element. `Exporter` chooses
between `runAgent`, which makes no channel for a measurement of an unknown
type, and the exporter, which does.

**MtuSearch** and **TraceRoute** keep the messages a raw socket holds and those
the network still delays. The code looks at the type of a message (mtu.go) or
at its sender (trace.go), so this is what a message is in the model; mtu.go also
meets messages it cannot parse, after which it does not look at the context
(`ReadJunk`). `noise` counts delayed answers and foreign messages. `lost` records
the loss of an answer, or a write that has failed for a size that would pass.

**AgentConfig** is `parseAgentConfig` on the settings that decide how the program
runs: what is accepted, each default, and the fallbacks (of `timeout` and
`packet_timeout`, of a file without measurements). `resolveTargets` is an operator
beside it. A duration is absent, does not parse, or is
a number of either sign.

**Bandwidth** is one bandwidth measurement: iperf3, the native test after any
failure of it, the deadline of each, the context of the caller, and the
`BwServer` or iperf3 server at the other end, which may stop, hang up or never
answer. It has no `Next` of its own.

**ScrapeMode** composes the two with the handler of exporter.go. The
configuration is the file it was parsed from, and a request goes through its
`Plan`, the pairs of measurement and target in the order of the loops. A gauge
shows which request has set it. Clients leave, the configuration is replaced, and
the shutdown waits five seconds and cuts what is under way (`Exit`, at any time
after the signal). MTU and traceroute, which have modules of their own, are
measurements with or without a result here.

**Exchange** is one test packet: the four timestamps, taken from two clocks, in
the format they travel in. The widths of the format are constants.

## 3. Runs

| Run | Question | Bounds |
|---|---|---|
| TwampBurst_default | With the packets closer than the timeout, is each accounted for when the burst returns, and does it implement `ProbeAccounting`? Is the RTT of a packet the time under way? | 3 packets, interval 1, timeout 2, writes of up to 3 ticks, two copies of a reply, one stray datagram; seconds of 3 ns and 13 fractions, eras of 4 s, clocks up to an era apart, exchanges of up to 6 ns |
| TwampBurst_errors | With failing and blocking writes and failing reads, in the two-phase form of `Run`: is a packet counted twice, can a send block, does the burst return? | 3 packets, writes that block for up to twice the timeout |
| Reflector_reflect | Rate, counter, slots of two loops, and their shutdown by signals that come at any time | 2 sockets, 2 packets, one slot, rate 1, one denied source, 2 signals |
| LocalStore_replay | Does the store implement `RingLog` with torn writes, crashes, failing operations, outages and cancellation, and is each record that no fault could take sent upstream or pushed out? | cap 3, batch 2, 5 records, 1 crash, 1 outage, 2 faults |
| AgentPipeline_agent | What is lost between the scheduler and InfluxDB, with and without the store; and does the shutdown end? | 2 schedulers, 3 results, one of them hidden, channel of 1, batch of 2, 2 attempts, a store of 1 line, 1 fault |
| DualPipeline_dual | Is a closed channel sent to, does a hung InfluxDB delay the metrics, does the shutdown end? | 3 results, channels of 1 |
| ConfigDistribution_refresh | Lag, order and arrival of refreshes; shutdown | 2 measurements, 5 refreshes |
| MtuSearch_search | Termination, and exactness when the network is quiet | 5 ceilings and 9 path MTUs around the floor, 2 noise messages |
| TraceRoute_trace | The same for traces | 3 hops, 2 probes, destinations at 1-4 |
| ConfigDistribution_unknown | (violated) an unknown measurement type is skipped | 2 measurements, 2 refreshes |
| ScrapeMode_scrape | Is every scrape answered, with its own results; has a bandwidth test an end; what do settings amount to? | 2 requests, 2 configurations that replace each other, a bandwidth test of 1 tick with deadlines of 1; 897 files |
| ScrapeMode_hub | (violated) spokes probe only the hub, the hub all spokes | topologies of up to 3 hosts |

Why the bounds are enough. A burst of three has a first, a middle and a last
packet; its timeout of two ticks is longer than the interval, so replies
overtake one another. The writes are as slow as the assumptions of the theorems
(`Paced`, `WriteBound`) let them be, in either run. One slot, one token and channels of one slot make the
"full" case the normal one. Five records in a store of three make the cap cut
twice, and a batch of two leaves a partial one. The agent's store of one line is
full with the first of two results, and one fault comes before, between or after
their Appends. The lag bound of a
configuration is four, so five refreshes would show a larger one. The sizes of
the MTU search include a ceiling below the floor, path MTUs below the floor, at
it, just beside a ceiling and above all of them. Three hops and a destination at
four include the trace that does not reach it. Two requests are one that has the
mutex and one that waits. The files of `MCScrapeMode` vary the settings of one
measurement, those of a file without any, and the topology, each in all
combinations of absent, negative, zero and positive. An NTP second has more
fractions than nanoseconds, in the instance as in the format, and 13 is no
multiple of 3, so both conversions round. Deadlock is checked in every run: a process that has ended takes
`Terminated` only, and the store, which has no end, must always be able to go on.

The violated runs are disagreements between the code and its documents:

- *ConfigDistribution_unknown.* exporter.go 121-132 and 254-265 enter the channel
  of a measurement of unknown type into the list the fan-out sends to, and start
  no scheduler for it. The channel holds the initial configuration, so the
  first send to it waits until the shutdown, and no refresh reaches the
  measurements listed after it, nor any later refresh any of them. The design
  says unknown types are "logged and skipped"; agent mode does so.
- *ScrapeMode_hub.* README.md 405 says of a topology with `"hub_spoke": { "enabled":
  true, "hub": "probe-a" }` that "spokes probe only the hub; hub probes all
  spokes". `resolveTargets` (agent.go 739-761) goes by the targets of each
  measurement alone: with "all", or none given, a spoke probes the other spokes
  too. `targetsFor`, which tests check, does what the README says, and nothing
  that runs calls it.

## 4. Fairness

Safety is checked without fairness. Liveness assumes, module by module:

- weak fairness of each goroutine: the Go scheduler is preemptive and leaves no
  runnable goroutine out for ever;
- a read ends: every socket read has a deadline, and every HTTP request a
  timeout of 10 s (`Client` timeout), so the steps that end them are fair;
- strong fairness of the case of a `select` that is ready again and again
  (`DualStop`, `SeeCancel`, `FanStop`, `TakeConfig`): `select` chooses at random.
  `AgentPipeline` needs none: its results are finitely many, and no replay
  begins after the cancellation, so `ctx.Done` is in the end the only case left;
- strong fairness of `Enter` (Reflector), `Store` (AgentPipeline) and `Lock`
  (ScrapeMode): a channel serves its waiting senders in turn, and a `sync.Mutex`
  goes to starvation mode;
- the clock runs and a deadline that has come is kept (`Tick` and `Expire` in
  ScrapeMode); iperf3, the target and the network owe nothing;
- of the environment: an outage of InfluxDB ends (`GoUp` in LocalStore), not
  every replay is refused (`ReplayOk` in AgentPipeline), a probe ends
  (`EndProbe` is part of `SchedulerStep` in ConfigDistribution). Nothing is
  assumed of the packets of a network, nor of the answers to a post.

`DualPipeline` separates the two: `NotHeldByInflux` holds under the fairness of
the other goroutines alone, with a writer that may hang for ever, and the
shutdown (`ShutdownEnds`) ends if the requests do (`RequestsEnd`).

## 5. Proofs

`TwampProofs`, for every count, interval, timeout and amount of duplicates and
stray datagrams:

| Theorem | Assumes | Says |
|---|---|---|
| `TypeCorrect` | | the variables keep their types |
| `PacketsCountedOnce` | `WriteBound`: a write blocks no longer than twice the timeout | no packet yields two results |
| `ChannelNeverFull` | `WriteBound` | no goroutine finds the results channel full |
| `ReceiverOutlives` | `WriteBound`, `Paced`: the socket works, the interval is shorter than the timeout, and a write and an interval take no longer than twice the timeout | the receiver is there until the sender has sent all |
| `AllPacketsAccounted` | the same | every packet is received or lost when the burst returns |
| `AccountingRefined` | the same | the burst implements `ProbeAccounting` |

The argument. `OneOutcomePerPacket` is not inductive: it must be known which
goroutine may still report a packet. `OwnershipInv` says that a packet the
sender has not come to left no trace (not pending, no reply on its way or in the
receiver's hands, no result), that the packet being written is pending, younger
than the longest write and without a result, that one whose write failed is the
sender's alone, and that the reply the receiver is about to report was pending
and has no result. The bound on writes is needed here: an entry expires when it
is older than twice the timeout, so a write that blocks for longer may fail
after the receiver has reported its packet lost. From it the channel has room:
the results inject into the packets that have one (`RoomForUnresolved`), and the
packet to be reported is not among them. `WatchInv` adds the arithmetic of
deadlines: while the sender sleeps or is about to send, the last packet is
pending and too young to expire, or its reply is in the receiver's hands, or has
just renewed a deadline that outlasts the sleep. So the receiver, which ends
when a read times out with nothing pending, cannot end early. `AccountInv` says
that every packet the sender has passed is pending, has a result, or is in the
receiver's hands, and that nothing is pending once the receiver has ended.

`AccountingRefined` maps each packet to its status in `ProbeAccounting`. A packet
is sent, for the accounting, when the sender registers it; a push of the
receiver, an expiry and a failed write resolve it; all other steps are invisible.
With `OneOutcomePerPacket` the cases of the mapping exclude one another, with
`OwnershipInv` each of these steps finds the packet in the status it must have,
and with `AccountInv` all are resolved when the burst returns. It has the
assumptions of `AllPacketsAccounted`, which it needs for the same reason.

`TwampProofs`, for any two clocks, any length of the exchange, and any number of
nanoseconds and fractions of a second, seconds of an era and seconds before 1970:

| Theorem | Says |
|---|---|
| `RttExact` | the RTT is the time under way to a nanosecond, or an era longer if the era turns while the reflector has the packet |

`RttIsTimeUnderWay` speaks of divisions and remainders by constants of unknown
value. `FractionLosesOne` says what a time loses when its nanoseconds become
fractions, of which there are more, and nanoseconds again: one at most.
`RoundTrip` adds the seconds: the time comes back in the first era. So the two
times of the reflector come back with errors that differ by one nanosecond and by
as many eras as there are between them (`ErasFollow`: not less than none, so the
clamp at zero takes away no more than the nanosecond). `ExchangeInv` says which
times the fields of the packets hold, and that the reflector's clock shows `T3`
while it has the packet.

`ReflectorProofs`, for any number of sockets, sources, packets and signals, any
rate and any number of slots:

| Theorem | Says |
|---|---|
| `ReflectorTyped` | the variables keep their types: no more than `MaxConcurrent` handlers run, and the `WaitGroup` does not fall below zero |
| `RepliesCounted` | the counter is the number of replies, but for those sent and not yet counted |
| `RateBound` | in any time t a source gets no more than `Rate` + t packets in |
| `DistinctNumbers` | no two replies bear the same sequence number |

The bounds of the type invariant are the hard part of it, and are not inductive:
a slot must be held by somebody. `OwnerInv` says that a packet is in the hands of
one serve loop or of its own handler; from it `CountInv` makes `slots`, `running`,
`seqNumber` and `reflected` the sizes of sets of packets, and a step of a handler
moves one packet from set to set. For the rate, `RateConforms` speaks of two
moments and says nothing of the tokens: `BucketInv` says, for every packet let
in, that what its source has spent since and the tokens it has left are no more
than `Rate` and what the bucket has earned since. It is assumed that there is a
socket: `Start` returns an error without one.

`LocalStoreProofs`, for every cap, batch, and number of records, crashes, outages
and faults:

| Theorem | Says |
|---|---|
| `StoreRefinesRing` | the store implements `RingLog` |
| `StoreKeepsOrder` | its records are in the order of their Appends, none twice; without a fault or a crash the last ones are there without a gap |

The log of the ring is the file and the lines that `enforceCap` holds in memory,
one after the other, so writing one back is invisible. Three things must be known
of the states. `CapInv`: a line is torn only if it is there, and never while the
cap is enforced (the write before was whole); the file exceeds the cap by no more
lines than there were faults, and by one while the cap is being enforced.
`FlushInv`: unless a read has failed, each line that `Flush` has scanned is no
record, is upstream or is in the batch, so what it clears is upstream. A crash
and a failing write in the middle of a rewrite are the same fault of the ring:
its tail is lost (`RewriteCut`).
`StoreKeepsOrder` follows from the ring: whatever a step of it takes away or spoils,
what is left is a part of the lines that were there (`OrderStep`), and an `Append`
adds the highest number at the end.

`PipelineProofs`, for any results, owners, capacity, batches and attempts, of agent
mode:

| Theorem | Says |
|---|---|
| `NothingLostInLine` | a result that was pushed is in the channel, with the writer, in InfluxDB or in a write that was given up, and in one place of the line only |
| `StoreIsBackup` | with the store, it is in InfluxDB, about to be appended by the scheduler that has pushed it, or a whole line of the store, unless the cap has pushed the line out or an operation on the store that failed in its `Append` or later can have taken it; for every cap and any number of failures |

Both follow the line from what is being posted to the batch and the channel.
`LineInv` says that the line has no result twice, and that whatever was pushed is
in it or has left it; the writer moves results along the line without changing
it, and only an answer or the last failed attempt takes some off its front.
`ScheduleInv` is why a result enters it once: its owner measures it once.
`StoreBacksUp` is part of the invariant itself; `StoreInv` adds that the records of
the store are those of `Append` calls that were made. An `Append` that works adds
the newest line, so what it pushes out is what `Taken` says (`PushedOut`), also when
its line is glued to a torn one (`NewestHasLast`, `AppendKeepsRecords`); and a replay
that meets no fault clears the file only when all whole lines were posted
(`ReplayKeepsRecords`).

and of dual mode, for any number of results:

| Theorem | Says |
|---|---|
| `DualClosesLast` | when one of its two channels is closed, the dispatcher holds no result to send |
| `DualNothingLost` | a result that got into `influxCh` is in it, with the writer, in InfluxDB or in a write that was given up |
| `DualKeepsOrder` | what waits for InfluxDB, and what waits for the metrics, is in the order it was measured in, none twice, and newer than what the metrics show |
| `MetricsGoForward` | no step sets the metrics back to an older result |

The steps of the writer are the same as in agent mode, and so are the lemmas about
them (`WriterLine`, `LineShrinks`). None of the four is inductive. `CloseInv` says
from which states of the dispatcher on each channel is closed. For the rest,
each place between the scheduler and the consumers holds later results than the
places after it: `OutInv` says so of `schedulerOut` and what the dispatcher holds,
`PromInv` of that, `resultsCh` and the metrics, `InfluxInv` of the line of the
writer. A result the dispatcher takes is therefore newer than any it has offered
before, and neither a full channel, at which it drops the result, nor the closing
of one changes that.

`ConfigDistributionProofs`, for any number of measurements and refreshes, in both
modes:

| Theorem | Says |
|---|---|
| `ChainInvariant` | the inductive invariant below |
| `LagBounded` | no scheduler is more than four refreshes behind |
| `NeverGoesBack` | none takes a configuration older than the one it has |

Neither property is inductive by itself. Along the chain of poller, `configCh`,
fan-out, channel and scheduler the versions do not increase, and each place is
at most one behind the place before it, because it has room for one
configuration and waits for the next; where a place is empty, the next one has
caught up as far as the one before it lets it.

`MtuSearchProofs`, for every floor, set of ceilings and path MTUs:

| Theorem | Says |
|---|---|
| `TypeCorrect` | the variables keep their types |
| `SearchInRange` | whatever the socket delivers, the result is nothing or the size just below `lo`, between floor and ceiling |
| `ResultPasses` | while there is no noise, the result does not exceed the path MTU, also when answers are lost or the search is cancelled |
| `ResultExact` | without losses either, a search that ends has found the smaller of ceiling and path MTU |

`Shape` is the type invariant with the range of `lo`, `hi` and `effective`. It
is not enough for the result: `Quiet` adds that, while no answer was delayed and
no message was foreign, the queue holds nothing but the answer to the probe under
way, that a probe without an answer was too large or its answer lost, that
`effective` passes, and that, unless an answer was lost, no size beyond `hi` does.

`TraceRouteProofs`, for any number of hops and probes, any distance of the
destination and any amount of delayed and foreign messages:

| Theorem | Says |
|---|---|
| `TraceRecorded` | whatever the socket delivers and loses, `trace_hops` is the last hop with an RTT |
| `CompleteTrace` | while there is no noise, a complete trace has come as far as the destination, and no further unless answers were lost |
| `ExactTrace` | without losses either, a trace that ends is complete just when the destination is within its hops, and has an RTT for each of them |

`LoopInv` says where the loop is and what it has recorded, `QuietInv` that without
noise the socket holds nothing but the answer to the probe that waits, and that
the destination answers no hop before its own. `ExactInv` adds that, without
losses, every hop probed has answered and none lies beyond the destination.

`ScrapeModeProofs`, for every number of requests, every topology file and every
duration and deadline of the bandwidth test:

| Theorem | Says |
|---|---|
| `BandwidthEnds` | a bandwidth measurement spends no more than the sum of its deadlines, and no more than the duration once its client has gone |
| `RepliesAreOwn` | a reply shows the results of its own request in every gauge the request has set |
| `SettingsUsable` | of the settings of an accepted file, those that end the process or make a measurement deaf are the ones it spells out as zero or less |

`BandwidthBounded` bounds what is spent, and is not inductive without what is
left: `Budget` says, for each step, that the two together are within the
deadlines so far, and that before the write nothing is spent after the client has
gone. `OwnResults` is about a reply; `Replies` adds `Alone`: one request at a time
is between `Lock` and `Unlock`, it had set no gauge before, and until it gathers
the gauges it has set are still as it has left them. The settings are a lemma
about `Parse` for any file the decoder may yield (`WellFormed`): `Settled` brings
it an accepted one, at the start and at every refresh. That the poller takes no
other is `FilesAssumption`.

What the theorems assume of the constants are the `ASSUME`s of the modules: counts
and bounds are natural numbers, a duration that is absent is no number, the store
keeps at least one line, a burst has a packet. TLC evaluates them in every run.
TLC checks each property stated here, and each invariant used for it, before it is
proved. `InRange`, `RepliesNumbered`, `RecordsKept`, `DualInOrder` and
`NeverSetBack` have no run of their own.

Only model-checked:

- liveness, and the fairness it rests on, which are outside the prover:
  `Termination`, `SlotReturns`, `Replayed`, `EventuallyPosted`,
  `NotHeldByInflux`, `Refreshed`, `SearchTerminates`, `TraceTerminates`,
  `ScrapeAnswered` and the shutdowns;
- that no run reaches a deadlock;
- `UnknownSkipped` and `HubSpokeAsDocumented`, which are violated.

Every other property of the passing runs has a theorem.

## 6. What the code does not do, though its documents say it

Found while modelling; each is true of the model, by the actions named, and no
property of a passing run contradicts it.

- The receiver of a burst may end before the burst does: when the interval is
  not shorter than the timeout, or writes fail, nothing is pending at a read
  timeout, and later replies go unread (main.go 570; the comment at 566 says it
  ends when "all expected responses have arrived"). Hence `Paced`.
- Every datagram, also a stray one, starts a new read deadline, and only a read that
  times out expires packets: strays that never cease keep a burst from ending
  (main.go 564). `Termination` is about finitely many (`MaxJunk`).
- A reply may be counted as received well after the timeout, until its entry is
  expired at more than twice the timeout (README.md 111).
- The rate limiter lets in up to twice `Rate` in one second, a full bucket and
  the refill (README.md 116). `RateConforms` states what it does.
- A replay that fails in a later batch keeps the lines of the batches that were
  accepted (the toolkit design, about line 216, deletes flushed lines).
- A result is pushed to the channel before it is stored, not after (README.md
  409, agent.go 700-709), and one pushed after the writer's last drain stays in
  the channel (influx.go 207). With the store enabled such a result is in its file,
  unless the cap pushes it out or an operation on the file fails
  (`StoreBacksUp`); without it, it is lost. An `Append` that fails is logged and
  passed over (agent.go 706): a result that the writer gives up as well is nowhere.
- `Append` waits for a replay and its requests, so a probe is delayed (the agent
  mode design, line 133, says probes are never paused).
- Results that `hide_skipped` hides are not stored either (README.md 407,
  agent.go 697).
- The dual dispatcher drops silently when a channel is full (the exporter
  design, line 198, logs it).
- When `influxCh` is closed under a cancelled context, the last batch may be
  posted under that context and fail at once (influx.go 197).
- The MTU found may exceed the path MTU, and a trace may be complete too early,
  when a late or foreign ICMP message is taken for an answer (README.md 220,
  642). `trace_hops` is the last hop that answered, not the number of hops.
- The list of measurements, their intervals, `hide_skipped` and the InfluxDB
  settings are those of the initial configuration, though README.md 299 says
  they are reloaded.

- A burst without replies has no RTT fields (twamp_measurer.go 45), and
  `UpdateResult` sets only the gauges of the fields it is given: the RTT of an
  earlier burst remains beside the loss ratio of 1 (the exporter design, line 87:
  "all RTT gauges = 0"). In the same way a gauge keeps the last value of a host
  that has left the configuration.
- `hub_spoke.enabled` has no effect (`ScrapeMode_hub`). With targets "hub-only" the
  hub probes itself. A host that is not listed probes like one that is.
- The reply holds T1 in `Timestamp` and T3 in `SenderTimestamp`, and the
  sequence number of the request in `SequenceNumber` (main.go 440-447). RFC 5357
  has them the other way round; the sender here reads what the reflector here
  writes, other implementations do not (main.go 28: "interoperable").
- An interval or refresh of zero or less, and a negative padding of a
  measurement, are accepted and make Go panic. The padding of the file itself is
  checked (agent.go 206).
- A signal goes to all goroutines that have asked for it by then. One that only
  `runAgent` or `runExporter` has got does not end the serve loops, and the
  other way round. `Server.Start` returns when its IPv6 loop ends.
- A DNS measurement shows a failure of DNS when the client of the scrape has left
  (dns.go 42). A native bandwidth test whose connection is reset reports what it
  sent until then as a measurement (bw.go 80). A duration of less than a second
  makes iperf3 run for five (bw.go 116).

## 7. Abstractions

Results, packets and records are numbers; payloads, formats and logs are left
out. InfluxDB is the set of results it has, since a point that is written twice
overwrites itself. A line too long for the scanner is a read error. Throughputs
are the method that has measured them. A DNS measurement has one result, with a
target of its own, for all its resolvers and names, or none. `ScrapeMode` starts without
`-config-refresh`, and scrapes with configurations that do not make Go panic; the
others are parsed only. Bounds appear in
the guards by name: `MaxPackets`, `MaxTime`, `MaxRecords`, `MaxCrashes`,
`MaxOutages`, `MaxFaults`, `MaxSignals`, `MaxTicks`, `MaxFetches`, `MaxNoise`,
`MaxCopies`, `MaxJunk`.
The store of `AgentPipeline` is set-valued: the order of its lines is that of the
Append calls, and what a failed operation takes is any of them, which includes
whatever `LocalStore` lets it take.

## 8. Not modelled

- The download of the configuration and its JSON: that it fails is in
  `ConfigDistribution`, what is in it in `AgentConfig`.
- Packet formats: byte layouts.
- Statistics: floating-point arithmetic.
- Command line, daemonizing, binding of the ports, TLS.
- The counters of the registry; the consumer of background mode, which is that of
  dual mode without a dispatcher.
- Code that nothing calls: `runProbeScheduler` and the `runBurst` of agent.go,
  `InfluxWriter.run`, `PrometheusStore.Update`.
- A client of a scrape that stays and stops reading its reply.
- Deployment files and dashboards.

## 9. Plan

Done, in this order: `TwampBurst` with its abstract specification and proofs,
`LocalStore` with `RingLog`, `InfluxWriter` with `AgentPipeline` and
`DualPipeline`, `ConfigDistribution`, `Reflector`, `MtuSearch` with proofs,
`TraceRoute`, `ScrapeMode` with `Bandwidth`, `AgentConfig` and proofs,
`Exchange`.

Proved, after that: the refinements of `ProbeAccounting` and `RingLog`, the chain of
`ConfigDistribution`, the counters and the rate of `Reflector`, the line of
`AgentPipeline`, `TraceRoute`, the settings of `ScrapeMode`, the two consumers of
`DualPipeline`, and the arithmetic of `Exchange`.

Left: `MtuSearch` and `TraceRoute` on one host, where each hears the messages of
the other, and which of their results remain exact; background mode's consumer.
