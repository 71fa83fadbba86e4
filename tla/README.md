# A TLA+ verification of railyard

railyard (`amadigan/macoby`) is a macOS daemon that runs Docker in a Linux virtual
machine. This directory holds its formal model: TLA+ modules translated from the Go
code under `src/`, TLC configurations that model-check them on small instances, and
theorems that TLAPS proves for every value of the constants. File names without a
directory below are those of `src/internal/`; `PROJECT.json` gives the lines behind every
definition.

## The system

### Components

| Component | State | Operations | Module |
| --- | --- | --- | --- |
| daemon state file, `host/vmstate.go` | the file, `bs`, `state`, a channel of updates | open, merge, write; `Start` takes or generates the identity | `DaemonState`, `MachineIdentity` |
| daemon main loop, `host/daemon_darwin.go` | `pc`, `sigCh`, the latch | boot, launch dockerd, forward, stop, exit | spread over `DaemonState`, `ServiceLaunch`, `IdleStop` |
| virtual machine, host side, `host/vm_darwin.go`, `host/vmguest.go` | status, metrics, client, listeners, mounts | `Start`, `handshake`, `UpdateStatus`, `metricsLoop`, `Shutdown`, `Forward*` | `VMBoot`, `StatusFeed`, `VMShutdown`, `IdleStop` |
| disks, `host/disk_darwin.go`, `host/disk/identify.go` | image files, file systems, the configuration | size, identify, format, check, resize, mount | `Disks` |
| guest API (PID 1), `guest/guestapi_linux.go`, `guest/mount_linux.go`, `guest/init` | table of processes, mutex, mounts | `Launch`, `Wait`, `Signal`, `Shutdown`, `Init`, `Mount` | `GuestProcesses`, `VMBoot` |
| datagram proxy, `rpc/datagram.go` | one socket, an RWMutex | `Dial`, `Listen`, `Read`, `Write`, deadlines, `Close` | `DatagramProxy` |
| service launch, `host/service_darwin.go` | the channel `rc`, a notify reader, a waiter | `LaunchService`, `Wait`, `Signal` | `ServiceLaunch`, `ServiceContract` |
| event bus, `event/pubsub.go` | taps, listeners, their channels | `Emit`, `Listen`, `Tap`, `Unlisten`, `Untap`, cancellation | `EventBus` |
| event stream of the control API, `host/api_darwin.go` | one tap per client | `handleEvents` | `StatusFeed` |
| stop latch, `host/stop.go`; containerd monitor, `host/containerd.go` | count, timer | `Add`, `run`, `MonitorContainerd` | `IdleStop`, `DaemonLife` |
| port forwarding, `host/listen.go`, `host/docker.go` | listeners by container | `Forward`, `Close`, `CloseAll`, `MonitorDockerd` | `PortForward` |
| control socket, `controlsock/sock.go` | the socket at a path | `ListenSocket`, `checkSocket` | `ControlSocket`, `DaemonHome` |
| log directory, `applog/dir.go` | files, a list of them, a length | `Open`, write, rotate, delete | `LogDir`, `DaemonHome` |
| stream proxy, `rpc/proxy.go` | two connections for each client | `Dial`, `ServeStreamProxy`, the copies | `IdleStop` |
| clock, `rpc/time.go`, `guest/time_linux.go` | the limit of a sample, the kernel's clock | `GuestClock`, `HostClock`, `adjtime` | `ClockSync` |
| launchd agent, event client, command line, configuration, superblock parsers, guest network, utilities, build tools | little or none | | not modelled, see the end |

### How they interact

A daemon takes the control socket of its home, opens the log directory and the state
file there, starts the machine with the identity it finds there,
and shakes hands with the guest over vsock: the guest listens on ports 1 and 2 and
dials the host's event port; the host answers by connecting to port 1 (the guest API,
on the first connection) and listens for the clock. Over the API it mounts the disks,
launches dockerd and forwards sockets. The ports of containers are opened on the host as
the events of dockerd tell. Status and metrics go over the event bus to
the clients of the control socket. When no connection and no container has been
there for the idle delay, the stop latch closes the signal channel, and the main
loop stops dockerd and exits. The command `debug` (`cli/railyard/debug_darwin.go`) is the one caller of
`VirtualMachine.Shutdown`.

### What is hard

* *Concurrency.* net/rpc runs each call in a goroutine; the guest's mutex is
  released and retaken by `Wait` and held by `Shutdown` for up to ten seconds; the
  proxy's RWMutex is held shared over a blocking system call; two goroutines share
  one unbuffered channel in `service_darwin.go`; the bus delivers under a read lock.
* *Failure.* The daemon or the machine may die between any two steps; a write of the
  state file may leave it empty or torn; any command run in the guest may fail.
* *Ordering.* Which connection is the first on port 1, whether the status is
  emitted in the order it is set, whether a file system shrinks before its image.
* *Time.* The idle timer races new connections, the ten seconds of `Shutdown` race
  the processes they wait for, a read deadline races a datagram, and the time in a reply is
  as old as its way was long, or as the host slept.
* *Several daemons.* What a dead daemon left (a socket, a state file, log files half
  removed, a half-resized disk) is what the next one starts from, and two may start at once.

The list `hazards` of `PROJECT.json` has each at its line, with the properties that cover
it or the reason why none does. What has to hold of each component is said with its module.

## Modules and runs

Every run of TLC is exhaustive within its bounds. Eleven runs check 40 properties that hold
and one shows a property that does not. For each property that holds, `PROJECT.json` names a
mutant of a modelled definition (operators such as `SendBlocking` or
`MergeAll`, defined before the one they mutate) under which the same run fails, so that no
property is true by the shape of the model. Type invariants are checked as the first conjunct of
the module's main invariant (`RestartKeepsIdentity`, `ServiceInv`, `FeedInv`, `BootInv`, `GuestInv`, `ShutdownInv`,
`LatchInv`, `TrackedInv`, `OneDaemon`, `LogKept`, `DisksInv`); that of `DatagramProxy` is part of `ServiceInv`.

### MachineIdentity and DaemonState: run `daemon_state`

One session of the daemon after another, each of which may crash at any step or
fail to write. The main goroutine (`OpenDaemonState`, `Identify`, `StartSucceeds`,
`DeferredStop`, `Exit`) and the writer (`Receive`, `Truncate`, `Write`, `WriterEnds`) meet on a channel
with a buffer of 10 (`daemon_darwin.go:70`), the queue `ch`: a session sends three updates at most, so that no sender
waits. `os.WriteFile` is two steps; the file can be
left empty or torn, and the first one found may have an identifier that the framework cannot parse (`Bad`), which is
replaced, or kept in the file when none can be made. The model keeps the code's `bs`: the writer marshals into `nbs` and
then writes `bs`.

* `RestartKeepsIdentity`: a running machine and its file never name different machines
  (`IdentityAgrees`), and after a clean session the next one is the same machine (`CleanStopKeeps`). The latter
  is subtle because the file is always one update behind: the identity is
  in it only because "stopping" and "stopped" are written after it and merge it.
* `OneIdentity`: `DaemonState` implements `MachineIdentity`. That abstract specification has
  neither file format, queue nor writer: it says that a session goes on with the identity that is
  stored and chooses what is missing, and that what is stored is a part of what its machine uses, and grows, or is
  lost as a whole. The refinement mapping takes the identity out of `file` and of `boot` (`IdentityOf`).
* `ExitCompletes` (liveness): the deferred exit is never stuck on the writer.

Bounds: `MaxSessions` = 3 (one that boots, one that fails, one that reads what both
left) and two DHCP addresses. `CHECK_DEADLOCK FALSE`: after the last session the
model stops. Fairness: the writer and the exit are not delayed for ever; nothing
forces a session to boot.

What the file does *not* hold is the last state: `vmstate.go:65` writes the bytes of the
update before, so that it says "stopping" after a clean exit.

### DatagramProxy: run `datagram_proxy`

The RPC server of one datagram socket in the guest behind a `sync.RWMutex` with Go's semantics: a waiting writer holds off new
readers, and its unlock lets in the readers that queued. `Read` holds it shared while it
blocks in the kernel. `ReadPinsSocket`: the socket of a blocked read is not replaced, closed or given
another deadline. `CallsComplete`: every call returns, unless for ever a `Read` without a deadline waits
for a datagram that does not come (`Starving`). A call on a proxy that has no socket dereferences nil (`Dereference`):
the guest's first process panics, and calls under way fail with the connection (`CallFails`).

Bounds: two calls at a time (a reader and a writer: a third only queues like the
second), two values, a queue of two datagrams. Fairness: the Go scheduler runs each
runnable goroutine (weak), the mutex does not starve a waiter and the kernel does not starve a reader (strong on `Lock`
and `ReadDatagram`), and a deadline that is set passes. No peer need send anything.

The exception is in the code: `Close` waits for ever behind a `Read` that
no datagram comes to, and so does the `SetReadDeadline` that could end it, though `datagram.go:191` declares a
`net.PacketConn`, whose `Close` unblocks its reads. What the property says is that this is the only way to be stuck: the mutant that
leaves the lock held after a `Read` that failed gives another.

### ServiceContract and ServiceLaunch: run `service_launch`

`LaunchService` and the end of `RunDaemon`, which extend `DatagramProxy` (the notify socket; its calls are those of two
goroutines): the launcher,
`waitNotify` and `waitService` share the unbuffered channel `rc` (`Taken` is one
rendezvous). The process announces itself, says other things, or exits; the
machine may stop, or the guest panic in the proxy. A process ends with 0 ("stopped"), with another code ("failed") or by a
signal ("killed"); `waitService` sends -1 for 0, and the code of a killed process is -1 already (`guestapi_linux.go:203`), so that
`Service.Wait` cannot tell the two apart. `ServiceInv`: what the launcher and `Service.Wait` are told is what happened, though the ready mark, an exit code and the 0 of
a closed channel all come out of one channel. `KeepsContract`: `ServiceLaunch` implements `ServiceContract`, which has a process, a guest
that may be lost, one verdict and one exit code, and no channel, socket or goroutine: it says when
each may be given, and that it is true then (a value that waits in a goroutine may be old). The refinement mapping is `Told` (from `verdict` and `cause`), `proc`,
`announced`, `vmUp` and `exit`. `AnnouncedReturns`, `StopCompletes`
(liveness). A waiter that closes the channel while
the notify reader sends on it panics (`panicked`): `AnnouncedReturns` allows for it. When the guest dies the calls
in the proxy end without it. Bounds: two different notifications, a queue of two datagrams. Fairness as
for the proxy; a process that was sent SIGTERM exits.

### EventBus and StatusFeed: run `status_feed`

`EventBus` is the bus: `Emit` sends without blocking to one channel after another
under the shared mutex, everything else is exclusive; the context may be cancelled.
`StatusFeed` extends it with its users: `UpdateStatus` from two goroutines under `vm.mutex`,
`metricsLoop` which emits after it has released that mutex, and `handleEvents`, which
sends a client a Sync and then taps the bus.

* `FeedIsCurrent`: to a subscriber that lost nothing the last status sent is the current one whenever no change is under
  way (or none was sent and it is the one it registered under), and no status is sent twice in a row. A client of the control socket so shows
  the current one (`Shows`), with one exception (`Misled`): its Sync says "ready" whatever the status is (`api_darwin.go:94`, a TODO), and
  it taps the bus later. A client that joins under another status shows "ready" until the next change.
* `MetricsGoForward`: a client's metrics never go back, from its Sync on.
* `FeedInv`: neither full nor closed channels hold `Emit` up.
* `SilentOnceRemoved`: nothing is sent to a channel after its removal, and removal of one
  keeps the others.

Bounds: three goroutines, one tap and one listener (so that both maps of the bus
matter), channels of two values, two changes, two answers of the guest: enough for an
overtaking, a drop and a cancellation. The two status goroutines are symmetric
(no liveness property is checked). No fairness.

### VMBoot and ClockSync: run `vm_boot`

`Start` and `handshake` step by step against `StartGuest`, `Init` and the guest's accept
loop, the vsock ports between them, the goroutine that follows the machine's state, and a machine that
dies at any step, which the framework may announce with "stopping". `BootInv`: each side listens before
the other dials, and the API is on the host's first connection.
`StopReported`: the end of the machine becomes the status, except where `RunDaemon`
sets "ready" over it (`daemon_darwin.go:146`; the variable `overwrote`) or the boot
has failed. `BootEnds`: only a guest that died before its dial leaves the host in
`Accept`, which has no timeout (`vm_darwin.go:217`).

`ClockSync` extends it with the clock of the guest: `GuestClock` asks `HostClock` over the connection
that `Init` dialed, halves the round trip, refuses a sample that took more than twice the last
latency, and sets or slews the kernel's clock. A message takes any delay of `Delays`, the guest's clock
drifts, and the host may sleep at any moment, the guest suspended with it.

* `SetIsAccurate`: a clock that is set is off by at most the latency of the sample, rounded up,
  however the delay was shared out between request and reply, and that latency was within the limit. The exception is
  a reply that the host slept under: nothing tells the guest that the time in it is old.
* `ClockRecovers` (liveness): a clock that is far off does not stay so. Each refusal
  doubles the limit, and the fraction `adjtime` hands to the kernel is made positive: the kernel
  refuses a negative one, and `GuestClock` would end.

Bounds: two mounts; delays and offsets in units of which the tolerance is one and the second five, a guest that
starts ahead or behind, one sleep. Both delays and both signs are needed: the mutants that leave the
sample uncorrected or the limit unchanged show only with them. Fairness: both sides' goroutines run, and that of the
clock; failures are never forced. The cancellation of `GuestClock` by the guest's Shutdown is left out: the guest ends with it.

### GuestProcesses: run `guest_processes`

Two launches under the names `MCNames` gives them, two waits and a shutdown in the
guest, with the mutex taken and released as in the code. A panic in PID 1 and the
`os.Exit` of `UnmountAll` end the machine.
`GuestInv` (a service that runs is in the table), `UnmountIsQuiet`, `WaitReturns`, `PowersOff`. The exceptions in
their statements are behaviours of the code: two services under one name lose the
first (`guestapi_linux.go:205`), and a process whose `Launch` has not
reached the table when `Shutdown` reads it is not stopped (`guestapi_linux.go:159`).

Bounds: two processes, two waits, two file systems. Fairness: each call served runs, a
killed process ends, the ten seconds pass.

### VMShutdown: run `vm_shutdown`

Extends `GuestProcesses` with the host: `debugVM` signals and awaits dockerd, calls
`Shutdown`, which sweeps the listeners, awaits the guest, closes the connection and
waits for the status "stopped" on a channel of the bus. `DoneMeansStopped`,
`OffIsUnmounted`, `ShutdownInv`, `ShutdownEnds`. `ShutdownInv`: before the sweep every listener that accepts is one it will close, and
after it the only ones that accept registered later (`late`): nothing closes those, because there is one sweep (`vmguest.go:176`).
`ShutdownEnds` has one exception: when the machine
stopped before `vmguest.go:166` looks, the channel is nil and the range over it never ends.

Bounds: one service, one wait, one file system, two listeners. Fairness: as above,
and the machine's end is reported.

### DaemonLife and IdleStop: run `idle_stop`

The stop latch with its timer, the forwarded connections of two clients, the containerd monitor and
the signal loop. A connection is modelled from the client to the service: `conn` is where the handler
on the host is, `stream` where the proxy in the guest is and then where the answer of the service is.
Host and guest each copy both ways, and each copy closes something else when it ends. `LatchInv`: the count is the number of forwarded connections, and the
latch never stops under one. `AnswerReaches`: what the service answers is not lost to a client that
has closed nothing and sends nothing more. Two others may lose it, because the copy from the client closes the
connection to the proxy when it ends (`vmguest.go:134-138`): one that has closed only its writing half (`CopyIn`), and one that still sends when
the service has answered and closed, so that the copy fails (`WriteFails`; the clients in `Talkers` may). `StopsForReason`: `IdleStop` implements `DaemonLife`, the daemon as the users of its socket see it: clients that
come in and leave, and a daemon that ends because a signal asked for it or because nobody was in (or in a panic), and that lets nobody in
once it is idle. The refinement mapping is `Life` (a closed `sigCh` is "idle", "term" on its way to the loop is "asked"; any other signal, of
which Go's scheduler sends itself some, is not) and `At`. `ClientServed`: an accepted client is served unless the daemon stops (a connection
that comes after the latch has stopped waits in `Add`, `stop.go:44`), and one that leaves is not counted for ever,
whether or not the service ever answers. `IdleStops`: an idle daemon ends.
The panic of the nil task set (`containerd.go:56`) and of a signal delivered on the closed channel
are in the model, as the state "panic".

Bounds: two connections (one can be at any point while the other is added, answered or cut), a delay of
one tick, so that an addition can come between the tick and the end of the timer, one client of the two that goes on sending, and one signal
(before or after the channel is closed). The answer is one message. Fairness: time passes, the latch and the main
goroutine run, each goroutine of a connection and of the proxy runs; clients need not leave, and services need not answer.

### PortForward: run `port_forward`

The ports of containers: `MonitorDockerd` and `Listener`, with dockerd and its events. dockerd is ahead of
what it tells: a container may have stopped, or run again at another address, when
the event of its first start is looked at, and the "stop" that a call of the API brings comes when that call returns,
be it after the next start. Ports may be taken by other programs, the stream may break, and containers may run before the
subscription is made.

* `TrackedInv`: every listener that is open is in the entry of its container, where `Close` finds it. `Forward`
  replaces the entry without closing what was in it (`listen.go:104`); that nothing is lost rests on dockerd
  telling of the "die" of a container before its next "start".
* `ForwardedIsCurrent`: once all events are looked at, what is open for a container leads to the address dockerd gives for it now,
  nothing listens for one that does not run, and one that was forwarded has each port open that nobody else may have
  (`Contested`). A container that is in networks of its own only (`Apart`) has no address where the code
  looks (`docker.go:62-68`), and is forwarded all the same, to "<nil>", which leads nowhere. Of a binding only the
  host port is read (`docker.go:76-85`): containers that publish one port on two addresses of the host run together, and the second
  gets no listener.
* `StoppedIsClosed` (liveness): the ports of a stopped container are closed, unless the stream has broken:
  the client's channel is never closed then, so that the loop and its `CloseAll` wait for ever (`docker.go:48`).

Containers that start before the subscription are never forwarded, whether they were running when the daemon came or
started just then: `MonitorDockerd` does not list them. Without the interface to
bind to the monitor panics. Both are in the model.

Bounds: two containers that publish the same port on different addresses of the host, one of them another as well and the other in a
network of its own, two addresses, two starts (so that a container can be
found at the address of its next start). That containers which publish one port on one address exclude each other is in the model and
in the proof, but not in this run, where the two may always run together. Fairness: the goroutine of the monitor runs.

### ControlSocket, LogDir and DaemonHome: run `daemon_home`

`DaemonHome` composes what the daemons of one home share: the control socket (`ControlSocket`),
which is to keep a second one away, and the log directory (`LogDir`) it guards. Daemons start, crash at
any step and end; a socket stays when its process dies, `Close` of a listener removes whatever is at the path, and
removals of old log files go on beside the writer and die with it.

* `OneDaemon`: a daemon that is up has the path, and two have the log directory open only while one of them is
  ending, unless two were starting at once (`raced`): then each may find nobody answering,
  and one removes the socket of the other (`sock.go:134`).
* `StaleIsReplaced` (liveness): what a dead daemon left does not keep the next one from coming up.
* `LogKept`: as long as one process at a time had the directory open, the directory reads in the order in which the lines were
  written, across restarts and removals that were not done, and a line is lost only when `MaxFiles` files are newer.

Two daemons may log at once without a race: `RunDaemon` logs on after `control.Close`
(`daemon_darwin.go:106`), when the next one can start; `LogKept` leaves that out (`shared`).
What the model keeps of the code besides: `fileLen` counts only the last write of a line (`dir.go:48`), so
that a file may pass `MaxFileSize`; a second rotation within a second finds its name taken
and panics. The wall clock is assumed not to go back.
`MessageChanWriter` queues the buffer that `log.Logger` takes back (`dir.go:256`): a line that waits may be overwritten.
That is below the level of the model, whose lines are numbers.

Bounds: two daemons, three starts (one that leaves a socket and two that race for it), one file to keep of three seconds' names,
five lines of which two come without their newline. Fairness: a start goes on.

### Disks: run `disks`

The images, the file systems on them and the configuration over several boots. The steps of
`prepareDisks`, of `prepareAutoImages` and of each mount function (format; check, resize and truncate; mount) are steps of their
own, after each of which the boot may end (`BootEnds`); between boots the user may edit the configuration.

* `DisksInv`: what is mounted, or has the user's data, is never cut off by the end of its image
  (`NothingCutOff`), although the file is resized by the host and the file system by the guest; what the boot identified is still what the image
  holds when it acts on it (`IdentifiedInv`); and every image has a size that was set, or one that `AutoSize` gives (in `TypeOK`).
* `DataKept`: no boot, failure or crash loses the data of a disk of an identified
  type with a size, as long as the configuration names the file system it has.
* `AgainAsConfigured`: the second time a disk comes up under its configuration, its file system
  has the configured size, whatever broken boots were in between. The first time is not enough: `mkfs` makes the
  file system as large as an image that is larger. The image itself may stay larger: after a break between `resize2fs` and the
  truncation the file system has its size, so that the next boot resizes nothing (`disk_darwin.go:129`) and never truncates.

`AutoSize` is what the code computes: it divides and then multiplies by 100, so that 25% is 400% (`disk_darwin.go:296`), bounded by
`maxAutoSize` only. What `mkfs` does with an image that holds a file system already is up to it and
to `FormatOptions` (`mkfs.btrfs` refuses without `-f`, and the boot fails): the model's formats.

Bounds: two images, sizes 0 (none), 1 and 2, four boots (one to fill a disk, one that
breaks off, two that come up) and one edit. The run `disks_format` shows that a disk
with no size is formatted at every boot although its image exists (`ExistingKept`, against
the comment at `disk_darwin.go:272`). `CHECK_DEADLOCK FALSE`: the last boot may be off.

The other runs with `CHECK_DEADLOCK FALSE` stop where the daemon, the machine or the bounded clients have come to their end.

## Proofs

Eight modules prove 29 theorems, for every value of the constants: each safety property that a run
checks (but for one conjunct of `FeedInv`, below), three of them refinements, and two facts about operators and composition. They rest on
the assumptions on constants stated in the modules, which TLC evaluates in every run; beyond types and
bounds being numbers these are that the talkers of `IdleStop` are connections, that `PortForward` is told what each container publishes, that the connections of `IdleStop`, the launches of `GuestProcesses` and the images of `Disks` are finite sets,
that `MaxFileSize` is at least two and one file is kept (`LogDir`), that the daemons of `DaemonHome` are writers of its log,
and that the goroutines of `ServiceLaunch` are its two and tell its notifications from the results of calls.
No property but a few types is inductive, so each proof has an invariant of its own.

| Module | Theorem | Inductive invariant |
| --- | --- | --- |
| `DaemonStateProofs` | `RestartCorrect`: `RestartKeepsIdentity`; `OneIdentityCorrect`: `OneIdentity`, the refinement of `MachineIdentity` | see below |
| `ServiceLaunchProofs` | `ProxyTypeCorrect`, `ReadPins`: `ProxyTypeOK`, `ReadPinsSocket` under `ProxySpec`; `ServiceCorrect`: `ServiceInv`; `ContractCorrect`: `KeepsContract`, the refinement of `ServiceContract`; `UsesProxy`: every step of the service is one of `DatagramProxy` or none | For the proxy `LockInv` (whoever announced a write waits or is alone, and the readers are the calls in the kernel) and `SocketInv` (what a method leaves). For the service `SInv`, see below |
| `StatusFeedProofs` | `FeedTyped` (the types of `FeedInv`), `SilentCorrect`, `CurrentFeedCorrect`, `MetricsCorrect`: `SilentOnceRemoved`, `FeedIsCurrent`, `MetricsGoForward` | `FeedIInv`, see below |
| `ClockSyncProofs` | `TimexCorrect` (what `adjtime` hands to the kernel, for offsets of either sign), `SetCorrect`: `SetIsAccurate`; `BootCorrect`: `BootInv` | `SampleInv`: while a reply is on its way, the time in it is the host's when the request came, unless the host slept. For the boot `PortsInv` (the guest dials only after it listens) and `BacklogInv` (only the call connection reaches the guest until it has answered) |
| `VMShutdownProofs` | `GuestCorrect`, `QuietCorrect`: `GuestInv`, `UnmountIsQuiet` under `GuestSpec`; `ShutdownCorrect`, `DoneCorrect`, `OffCorrect`: `ShutdownInv`, `DoneMeansStopped`, `OffIsUnmounted` | `CallInv` (a process is there from its Launch's fork on), `TableInv`, `GotInv` (who waits for what), `ReapInv` (what Shutdown found, it stops or waits for), `MountInv` (unmounting needs the table taken away); on the host `AskedOnce` and `ToldStopped` |
| `IdleStopProofs` | `LatchCorrect`, `AnswerCorrect`: `LatchInv`, `AnswerReaches`; `LifeCorrect`: `StopsForReason`, the refinement of `DaemonLife` | `PairInv`: where a handler of the host is tells where its proxy in the guest can be. `LatchCount`: the count is the cardinality of the handlers that are counted. They are enough for the refinement too, see below |
| `PortForwardProofs` | `TrackedCorrect`, `CurrentCorrect`: `TrackedInv`, `ForwardedIsCurrent` | `OrderInv` and `CurrentInv`, see below |
| `HomeProofs` | `OneDaemonCorrect`, `LogCorrect`: `OneDaemon`, `LogKept`; `DisksCorrect`, `DataCorrect`, `SizesCorrect`: `DisksInv`, `DataKept`, `AgainAsConfigured` of `Disks` | `StartsAlone`: without a race at most one daemon is starting, and one that has found nobody answering stays right until it listens. `LoggersRun`. `DirIInv` and `DiskInv`, see below |

*The state file.* What is in the file now was on the channel or in `bs` some steps ago. The invariant
is `TypeOK` and `IdentityInv` (all places the identity can be, the memory of the writer, `bs`, the
file and each queued update, keep the identity of `boot`), `WriterLives`, `StoppedIsLast` ("stopped" is the last
update ever queued and differs from what the writer had, so that one more write happens after the identity reached
its memory), `PrevKept` and `BootKept` (the record of the last clean session agrees with
the file while the daemon is down, and with `boot` when it is up). The lemma `MergeKeeps` says that merging an
update never changes an identity that is set. The refinement needs one fact more, `WriteIsFresh`: the writer writes over a file it has
truncated. Each action then maps to one of `MachineIdentity` or leaves the identities alone: opening is `Begin`, `Identify` is
`Choose`, `Write` is `Store`, a truncation or a failed write `Lose`, and exit and crash are `End`.

*The service.* `SInv` adds to the proxy's invariants what its two users make of it: which call each has under way (`CallInv`); that the
socket listens from the answer to `ListenUnix` until the launcher closes it, so that a read that fails before means a guest that is gone (`SockInv`); that "ready"
is read only after it was sent (`ReadyInv`); and the accounting of the channel (`SentInv`, `CodeInv`): each goroutine
sends once, the launcher takes the first value, and goes on to `Wait` only if that was the 0 of the notify reader, so that the exit code is
left for `Wait`. The refinement of `ServiceContract` (`ContractStep`) rests on the same facts: the launcher itself gives a verdict only for want of a guest, a
process or time (`LauncherTells`), waitNotify gives 0 only for READY=1 and -1 only without the guest (`NotifierTells`), and what waitService
read when the process was gone is still true when it is taken, as is that nothing was told before (`WaiterTells`). Every step inside the proxy is a stutter.

*The idle stop.* `DaemonLife` lets clients in and out only while the daemon is not idle, and `StopLatch` has the same in its rendezvous: an `Add` is
taken only by a latch that runs, and `sigCh` is closed only by one that has stopped (`HandlerSeen`). A latch that stops has the count 0, so that by
`LatchCount` nobody is in (`ExpireSeen`). That the daemon ends for no other signal is the order of `sigCh`: it holds one
value, the loop stops for "term" or the closed channel and forgets anything else (`SignalSeen`, `LoopSeen`).

*The event stream.* `BusInv`: an `Emit` has only registered channels before it, because it holds the mutex that a removal takes.
`WantInv`: a goroutine emits what it has set, and who has set a status to emit holds `vm.mutex`, alone. `KnowInv` is the invariant behind
`FeedIsCurrent`: while a goroutine changes the status, a channel it has served was told the present status last, and one that it has
not served was last told another. `SyncInv` bounds what a client has got between its Sync and the present metrics. `TableInv`, `SeenInv`
and `RestInv` are types and what of a channel's history waits in it.

*The log directory.* `DirIInv`: while one process at a time has it open, its list is the files it is not
removing, newest first (`Listed`); every file that it removes is older than all `MaxFiles` of the list; the length
it keeps is at most the file's (`Sized`); and only the newest file can be empty (`FilledInv`), without which a restart could
go on with an older file than the one that holds the last line.

*The disks.* `DiskInv` says what each step relies on that an earlier one did: a prepared disk is in `emptyDisks` or as large as it will be told to be
(`PreparedInv`, `EmptyInv`), what was identified is still what the image holds (`IdentifiedInv`), what is mounted, and the user's data, is within the image after every
step (`NothingCutOff`: a file system shrinks before its image is cut and grows after it), and a disk that has come up once is never formatted again
and leaves its mount function with its size (`StepInv`, `ThroughInv`, `SettledInv`).

*Forwarded ports.* That `Forward` finds no entry of its container, and no listener of a container that could not run beside it,
follows from the order of the events alone. The monitor owes a container its end (`Owed`) once it has taken a start of it and not found it gone.
As long as the stream is open, that end is still to come because the container runs, or among the events
(`EndIsTold`), before every later start of a container it could not run beside (`EndsBefore`); between two such starts there is an
end (`EndsBetween`); so the monitor never takes a start of a container while it owes the end of one in conflict (`NotTwice`).
From there `CurrentInv`: a container whose end is not among the events is listened for only at the address it has, on all its ports that are
not contested.

*The guest and the host.* `GuestProcesses` and `VMShutdown` share one proof: every step is one of the guest (`GuestStep`), its
death, or the host's answer to a call without a connection (`Moved`), and the invariants are shown for these once. What changes in a
process is then a matter of `ProcessMoves` alone.

Out of reach of TLAPS are liveness under fairness and `ENABLED`: `ExitCompletes`,
`CallsComplete`, `AnnouncedReturns`, `StopCompletes`, `StopReported`, `BootEnds`, `ClockRecovers`,
`WaitReturns`, `PowersOff`, `ShutdownEnds`, `ClientServed`, `IdleStops`, `StoppedIsClosed`, `StaleIsReplaced`
and the conjunct `EmitNeverWaits` of `FeedInv`, whose other conjunct is `FeedTyped`, are only model-checked. So is what takes an induction
over data: that a set of names can be listed in order (`Scanned` of `LogDir` is never empty). The proofs of `LogKept` hold for every such listing; that
there is one, and so that `Open` is possible, is seen in the run.

## What could come next

An abstract lock for the RWMutex of `DatagramProxy`, and an abstract feed (a status and the subscribers that know it) that
`StatusFeed` implements.

## What is not modelled, and why

* Parsing and search paths of the configuration, superblock layouts, JSON, HTTP, websocket
  framing, logging text: pure functions over bytes, without the interleavings a model
  checker is for. Where a state machine depends on one, it is modelled by its result (what
  `disk.Identify` recognises, what a torn file decodes to).
* launchd, the command line, the build tools: calls of other programs one after another.
* The event client (`client/`): a websocket reader without state. `LockSocket` and `checkLock`
  (`controlsock/sock.go`): no caller makes a lock file. `LogDirectory`'s events of new and deleted files:
  `SetupLogging` makes their channels and nobody reads them.
* What the daemon does with a panic of its own is nothing: where the code panics the models
  have a state for it and stop. Two panics have no property: the waiter of `service_darwin.go:101` closes the channel on which
  the notify reader sends, and `daemon_darwin.go:146` puts "ready" over a status "stopped"; the properties of their
  modules (`AnnouncedReturns`, `StopReported`) state them as exceptions.
* Apple's virtualization framework, vsock, the kernels, dockerd, containerd, `net/rpc` and
  `sync`: modelled as the code uses them, and marked external in `PROJECT.json`.
* Guest calls `Run`, `Release`, metrics, garbage collection and file writes, which touch no
  state the properties are about; DHCP, sysctl and the overlay are steps of `Init` that succeed or end the machine.
