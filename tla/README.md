# Formal model of the Dragino OpenWrt/LEDE 18.06 tree

TLA+ modules, TLC configurations and TLAPS proofs about the code of this tree
that is its own: drivers and tools that are neither downloaded at build time
nor patches to other projects. Modelled are

- the Ethernet driver of the Dragino boards, `ag71xx`
  (`openwrt/target/linux/ar71xx/files/drivers/net/ethernet/atheros/ag71xx/`);
- the tool that writes the flash, `mtd` (`openwrt/package/system/mtd/src/`), and
  the firmware upgrade that calls it (`sysupgrade` in
  `openwrt/package/base-files/files/`);
- the `nvram` command (`openwrt/package/utils/nvram/src/`);
- the button driver and the script of the reset button
  (`openwrt/package/kernel/gpio-button-hotplug/`);
- the LED trigger `netdev` and the relay `trelay`, on the same network devices
  (`openwrt/target/linux/generic/files/drivers/leds/ledtrig-netdev.c`,
  `openwrt/package/kernel/trelay/`);
- the reverse DNS plugin of LuCI, `rrdns` (`luci/libs/rpcd-mod-rrdns/src/rrdns.c`).

Run the tools inside this directory: `tlc -config X.cfg M` checks a run,
`tlapm M.tla` the proofs of a module. `PROJECT.json` says which configuration
belongs to which module, which lines each definition translates, and which
mutation of the code each property catches.

## Inventory

| component | state | operations | what is hard | what makes it correct |
|---|---|---|---|---|
| **ag71xx transmit** (`ag71xx_main.c`) | descriptor ring with `curr`/`dirty`, skb per slot, queue stopped or not, BQL count, engine registers | `hard_start_xmit`, `tx_packets`, `link_adjust`/`fast_reset`, `tx_timeout`, `restart_work` | softirqs interrupt the restart work, the engine runs all the time, `napi_disable` sleeps under a spinlock, allocation fails | no freed packet is sent, none is lost, a stopped queue is woken, counts agree |
| **ag71xx receive and NAPI** | descriptor ring, buffer per slot, interrupt mask, NAPI state, OOM timer, rtnl | `interrupt`, `poll`, `rx_packets`, refill, `oom_timer_handler`, `open`, `stop`, restart | interrupt against `napi_complete`, memory that runs out, close against work and timer | no write into a buffer that was given away, no frame forgotten, a closed device is quiet, jobs end |
| **nvram tool** (`package/utils/nvram/src`) | hash table of tuples, mapped partition, staging file | get, set, unset, commit | two commands on one mapped file, power loss inside commit, an image that is full | while one command writes at a time, a map with a staged copy; whatever overlaps, an image stays in flash |
| **mtd tool** (`package/system/mtd/src`) | erase-block position, bad blocks skipped, image buffer | write, append (erase, fix-ups: not modelled) | bad block inside an image, erase failure, end of a device | every block of the image lands once and in order |
| **sysupgrade** (`base-files`) | files of fixed name in /tmp, stage, saved configuration, flash | fetch and check, save, stage 2, mtd, restart, restore | two callers, power loss at any step, failures whose exit status nobody looks at | the device comes up with the new system and the configuration asked for |
| **rrdns** (`luci/libs/rpcd-mod-rrdns`) | requests in flight by id and by address, timeout | send, receive, expire | late, duplicated and unordered answers | one reply per call, no context used after free |
| **gpio-button-hotplug** and `rc.button/reset` | last state, time seen, debounce count, queue of events | poll, interrupt, event, script | bouncing, events that are lost or overtake each other, a reset that runs | the time in an event is the time held, a reset is not cut off |
| **ledtrig-netdev** | device and reference, mode, link, LED, delayed work | notifier, three sysfs files, work, (de)activation | store against notifier against work, rename, a device that comes back | no freed device is used, the LED tells the link |
| **trelay** | device pair, rx handlers | add, remove, notifier | unregister while the relay stands | no frame to a freed device, unregistering ends |
| ag71xx MDIO, AR7240 switch, debugfs | registers, VLAN and port tables | register protocols | busy waits, a poll work per switch | commands do not overlap |
| QMI/WWAN scripts | interface state of netifd, modem session | setup, failure, teardown | modem that disappears, retry | teardown releases what setup took |
| LuCI, procd/uci glue, configuration scripts | files | request handlers, one-shot scripts | little shared state in this tree | - |
| build system, other targets, vendored patches | - | - | - | - |

### How the parts interact

`sysupgrade` gives the `mtd` command; `Sysupgrade` therefore extends `MtdWrite`, and
its runs check the mtd properties too. The LED trigger and the relay hold
references on the same devices and hear of them through the same notifier
chain; `NetdevUsers` composes them over the common `Netdev`. Transmit and receive
of ag71xx meet in the poll and in the restart work: each module has what it needs
of the other as a flag. The others share nothing but files and the kernel.

Inside the Ethernet driver: the target kernel is uniprocessor and not preemptible. That leaves:

- **softirqs** (`hard_start_xmit`, `poll`, timers): run to completion with
  respect to process context and to each other, but not to the engine;
- **process context** (`open`, `stop`, `restart_work` under rtnl, PHY worker):
  interrupted by softirqs wherever interrupts are on, and by other threads
  where it sleeps (`napi_disable`, allocations);
- **the hard interrupt**, which only masks itself and schedules the poll;
- **the DMA engine**, which runs all the time.

`ag->lock` is taken with interrupts off. On a uniprocessor it is nothing more
than that, so code that sleeps inside it (`hw_disable`, line 691) lets others in.

## Modules

| module | what it is |
|---|---|
| `Ag71xxTx` | transmit ring, engine, transmit call, reclaim, link changes, restart work; properties |
| `Ag71xxTxWindow` | the invariant of the window between `dirty` and `curr`, and the refinement mapping from `Ag71xxTx` to `TxFifo` |
| `MCAg71xxTx` | the symmetry over packets for TLC |
| `TxFifo` | what a transmit ring promises the stack: send in order, complete only what was sent, drop everything or nothing |
| `Ag71xxNapi` | receive ring, interrupt, poll in steps, OOM timer, open/stop/restart jobs; properties |
| `MtdWrite` | one `mtd write` command, with the appending of saved configuration (`-j`); properties |
| `Sysupgrade` | the upgrade around it: two callers, stage 2, power loss, restart; properties |
| `Nvram` | any number of nvram commands on flash and staging file; properties |
| `NvramMap` | what they promise: a map of variables, a staged copy, commit |
| `MCNvram` | the commands, sizes and images of the nvram run, and the symmetry over processes |
| `Netdev` | what the kernel does with a network device: register, open, rename, unregister, wait for references, notify |
| `LedtrigNetdev` | the LED trigger on `Netdev` |
| `Trelay` | the relay on `Netdev` |
| `NetdevUsers` | both together; properties |
| `GpioButton` | a button, its driver, the events, the reset script; properties |
| `Rrdns` | one lookup call: queries, answers, timeout, reply; properties |
| `Ag71xxTxProofs` | the theorems about `Ag71xxTx` and `Ag71xxTxWindow` |
| `Ag71xxNapiProofs`, `NetdevUsersProofs`, `GpioButtonProofs`, `RrdnsProofs` | the theorems about the modules they are named for |
| `SysupgradeProofs` | the theorems about `MtdWrite`, and those about `Sysupgrade` that rest on them |
| `NvramTables` | what the operators of `Nvram` on lists of tuples, tables and images do, for any input |
| `NvramProofs` | the theorems about `Nvram`, and that it implements `NvramMap` |

### Ag71xxTx and the code

A descriptor is three functions on slots: `own` (`DESC_EMPTY` clear), `data`
(the packet its DMA address points into) and `buf` (`ring->buf[i].skb`). `curr`
and `dirty` are the code's free-running counters modulo `Wrap`, a multiple of
the ring size that stands for 2^32: the code only takes their difference and
their low bits. `txe`, `fetch` and `ps` are `TX_CTRL`, `TX_DESC` and the packet
counter of `TX_STATUS`.

The transmit call is three actions, because the engine sees memory between
them: `XmitFill` (descriptors written, the first still `EMPTY`), `XmitPost` (it
is handed over, `curr` advances) and `XmitKick` (the queue is stopped when
nearly full, `TXE` written). `XmitDrop` is the -1 of `fill_dma_desc`.
`Poll` is `tx_packets(ag, false)` and `Flush` is `tx_packets(ag, true)`: `Walked`
says how far the loop gets, `Reclaims` how far `dirty` follows, which is up to
the last descriptor with an skb. A link report under `ag->lock` is one action
(`LinkUp` with `FastReset` on the ar724x, `LinkDown`). The restart work runs
without the lock, so it is cut where a softirq can come in: `WorkStop`,
`WorkNapiDisabled`, `WorkClean`, `WorkFree`, `WorkEnable` or
`WorkEnableFails`, `WorkAdjust`, `WorkFlush`, `WorkDmaReset`, `WorkZero`,
`WorkBase`, `WorkStart`. A dereference of a freed ring sets `oops`, after which
nothing happens.

The engine is not in the tree. `EngineSend` and `EngineIdle` are what the
driver relies on: descriptors in ring order, given back by setting `EMPTY`,
counted, stop at one that is not owned until `TXE` is written.

`overlap` is a history variable: a transmit ran inside an unlocked reset, or a
link report inside the sleeping `hw_disable`. The code has no protection there
(run `tx_engine_in_reset`), and most invariants are claimed only for the states
before that.

Not in the module: byte counts, `ag71xx_check_dma_stuck`'s registers (it may
report what it likes while the link is up), close and open (modelled in
`Ag71xxNapi`).

### Ag71xxNapi and the code

The receive ring is `own`, `has` (a buffer is attached), `curr`, `dirty`; the
engine is `rxe`, `fetch`, `pr`, `overflow`. The poll is a softirq cut where the
interrupt or the engine matters: `PollTx`, `PollTake` (one frame of
`rx_packets`), `PollRefill`, `PollOom` or `PollRxStatus`, `PollTxStatus`,
`PollComplete` (`napi_complete`), `PollEnable` (interrupts on). The transmit
ring is the flag `txEvent` here. `open`, `stop` and `restart_work` are jobs that
hold rtnl and share `Disable`, `NapiDisabled`, `Cleanup`, `RxInit`/`Enable`.
`napi_disable` on a NAPI that is off never returns, as in the kernel.

### Rrdns and the code

A call is `list` (the addresses asked for) and `limit`. `ids` and `addrs` are
the two AVL trees, `request_ids` and `request_addrs`; they differ, because an
answered request leaves the first and stays in the second. `NextQuery` is
`rrdns_next_query` with every way it returns: end of the list, an entry that
does not parse or was asked before, no memory after the query was made, a failed
send. `FirstQuery` is one turn of the loop in `rpc_rrdns_lookup`; the callbacks
`Response` (`rrdns_handle_response` for a packet), `RecvFails` and `Timeout`
run from the event loop, after the call. `wire` holds the queries that were
sent. An answer does not leave it: it may come late, twice, or never, and in any
order. `Shutdown` is `rdns_shutdown`: the reply, the socket, the timer, the free.
Names and the contents of packets are left out; `blob` says about which address
an answer was and under which one it was filed.

### MtdWrite and the code

The unit is one erase block. `flash` is what lies in each; `dev`, `pos`, `w`, `e`,
`skipBad`, `off`, `skip` are the variables of `mtd_write` of the same meaning (`fd`
position, `skip_bad_blocks`, `offset`). The loop is cut into its outcomes: read
(`ReadEnd`, `ReadBlock`), the inner loop (`SkipBadBlock`, `EraseBlock`, `Resume` on the
next device, `EraseFails`, `BadCheckFails`), `WriteBlock`, `WriteFails`, and
`mtd_replace_jffs2` (`AppendBegin`, `AppendSkipBad`, `AppendBlock`, `AppendEnd`,
`AppendCheckFails`). Content written to a block that is not erased is `Garbage`,
and so is what lies behind the end of the buffer. `Written`, `WriteAt` and
`CanErase` stand for the kernel's MTD layer, which is not in the tree.

The commands given by hand are enumerated in `CommandGiven`: `-n`, `-p`, `-j`, one or two
devices, NAND or NOR, bad blocks and blocks that do not erase anywhere. A
property about a combination that the code does not support says so through
`Supported`, whose comment gives the reason for each part.

### Sysupgrade and the code

`phase` is how far things are: `byhand` (a mtd command on its own), `shell` (the
system runs), `kill`, `ramfs`, `ready` (stage 2), `write` (mtd runs), `up` (what has come
up is in `runs`). A caller goes through the script in `at`: the image is fetched to
the fixed name `/tmp/sysupgrade.img` (`FetchBegin`, `FetchEnd`: what another caller
sees in between is cut), checked (`Check`, `-F` goes on whatever it finds), the
configuration is saved to `/tmp/sysupgrade.tgz` (`SaveBegin`, `SaveEnd`, or `-f`
copies), and `UbusCall` asks procd for stage 2, from where on files are what they
are at that time. `KillAll` ends the callers, `SwitchToRamfs` may fail and restart,
`MtdBegin` gives the command of `default_do_upgrade`, `MtdStep` is any step of
`MtdWrite`, and `Reboot` comes whatever its exit status. `Booted` and `Restored` read
the flash as the boot does: the image whole or nothing, the archive behind it.
`PowerLossEarly` and `PowerLoss` may come at each step, the latter with a block half
written. `MayCall` follows two callers until they have overlapped once.

### Nvram and the code

An image is its header (magic, length, the copy of the SDRAM variables that the
boot loader reads) and its tuples in order, with the double NUL or without. A
command goes through `Copy`, `Create`, `Fill` (`nvram_to_staging`), `Open` or `OpenMtd`,
the parser (`ParseMark` writes NUL over the "=", `ParseTake` makes the tuple and
puts it back; `ParseEnd` adds what only the header has), `Answer` or `Apply`,
`WriteTuple` and `Finish` (`nvram_commit`), `Close`, and for commit `Save`, `Flash`,
`Unlink` (`staging_to_nvram`). A writing command works in the staging inode
itself, which others have mapped as well or which is no longer linked: `inode`
holds every one. A reader has a private copy. `stale` and `ParseLost` are what the
parser does when the image changes under it: it loses tuples, takes names that
are not there, or runs beyond the end. Sizes are exact (`Size`, `Area`), because
what fits decides which tuples are lost.

Variables that a lost parser makes up are not followed, and of two writers that
have overlapped (`mixed`) only how they end: `MayStart` begins nothing new after
them. SDRAM values are numbers that fit. `alone`, `mixed` and `stale` are history.

### Netdev, LedtrigNetdev, Trelay and the code

`Netdev` is the kernel's part as the drivers rely on it, and external: `reg` says
whether a device is registered, leaving or freed, `refs` counts `dev_hold`, and `evt`
is the notifier chain under way, whose `at` says which listener is next. A device
that leaves is announced again (`Rebroadcast`) until nobody holds it. Each device
is registered once; one that comes back is another device with the old name.

`LedtrigNetdev` has the locks where they are: the notifier cancels the work first
(`LedNotifyCancel`) and takes the lock then (`LedTake`, `LedLetGo`, `LedLink`); a store does
the same (`StoreCancel`, then `StoreName` or `StoreMode`); the work takes neither
(`WorkBegin`, `WorkUse`). `leaked` counts what `device_name_store` forgets, `raced` tells
that a store and the notifier were past their cancels together, `oops` that a freed
device was used. The notifier compares the name before it cancels and locks, so the
name may be another device's when the event is taken (`OtherHasName`): `mixed` says
that this happened and neither a write of the name nor an event of the device itself
has put it right. `Trelay` is `Add`, `RemoveBegin`, `RemoveHandler`, and `RelayEvent`: the
notifier callback as it is, which looks at the wrong pointer.

### GpioButton and the code

Time goes in polls; `Hz` polls are a second, and `LongPress` stands for the 5 s of the
script. `CheckState` is one poll with its debouncing, `HandleIrq` the interrupt
thread, which has none. `ButtonEvent` makes an event with the seconds since the one
before, as a work item of its own: items run in any order and may be lost for
lack of memory (`Take`, `Lose`). `Script` is `rc.button/reset` for such an event;
`ResetDone` the end of `jffs2reset`. `since` starts at `Cap`, because the jiffies begin
just before they overflow and `priv->seen` is 0: until then the first event says it
comes long after.

### Properties

The comment above each says it in words. The ones to argue about:

- `NoUseAfterFree`: the transmit engine never reads a freed packet.
- `NoPacketLost`: what was accepted and not freed is exactly what is attached
  between `dirty` and `curr`.
- `CountsMatchRing`: no `BUG_ON` in `netdev_completed_queue`, and driver and engine
  agree on the completions counted.
- `EngineOnTheWay`: driver and engine agree on position, and no packet waits for
  a write of `TXE` that nobody will make.
- `QueueHasRoom`, `QueueWakes`: the thresholds.
- `InterruptKept`, `SlotComesBack`: the interrupt and poll protocol loses no frame and
  no slot, out of memory or not.
- `JobsLeaveOrder`, `JobEnds`: open, stop and restart.
- `LaidInOrder`, `RestUntouched`: where the image lies and what is left alone, at
  every moment, so also when the power fails.
- `UpgradeArrives`, `EveryRunEnds`, and `ExitTells` of mtd: what the device comes up with, and
  what the exit code says.
- `SequentialMap`: the implementation of `NvramMap`, step by step, as long as one
  command writes at a time, with readers beside it and power loss anywhere.
- `HeaderAgrees`, `FlashStaysImage`, `AnswersTell`, `FailuresTell`: what the boot loader reads;
  that a file just created is not committed; that a command does not answer wrongly,
  fail without a reason or crash.
- `RefsCounted`, `WorkUsesHeld`, `RelayUsesHeld`, `UnregisterEnds`: references.
- `LedTellsLink`: whatever came in which order, a settled LED is right, unless an
  event was taken for a device whose name belonged to another one by then.
- `SeenTellsHold`: the seconds in an event bound the time the button was held.
- `ResetUncut`: a click does not cut off a factory reset.
- `PipelineKept`: each answer starts one query, whatever order answers come in; no
  more than `limit` wait at a time, and no fewer while the list has more.
- `ReplyIsRight`, `NothingAfterFree`, `CallIsReplied`: what the reply says; the timeout and
  the last answer both end the call, once.

## Runs

| run | what it asks | bounds |
|---|---|---|
| `tx_ar724x` | the transmit invariants on the AR9331's MAC, allocations may fail, and that the ring implements `TxFifo` | ring of 4, 4 packets of up to 2 segments: ring full, wrap of slots and counters |
| `tx_liveness` | queues wake, packets are freed | ring of 4, 2 packets: the ring is stopped at 2 |
| `tx_engine_in_reset` | violation | as `tx_ar724x` |
| `rx_ring` | all receive invariants; jobs end, slots come back; both kinds of MAC | ring of 4, budget 2: a poll ends by budget and by lack of frames |
| `rx_assert` | violation | as `rx_ring` |
| `sysupgrade` | mtd commands by hand, and upgrades by two callers with power loss | 4 blocks, 2 devices, 2 bad blocks and 1 that does not erase, images of up to 2 blocks and 2 end markers, 2 blocks of configuration, which changes once |
| `mtd_unerased` | violation | `MtdWrite` alone, as `sysupgrade` |
| `nvram` | commands in every interleaving, and power loss | 2 processes, 3 names of which 2 have a copy in the header, 2 values, 2 buckets (so that names collide), room for some of the tuples but not all |
| `netdev_led` | the LED trigger alone | 2 devices, 2 names (rename, and a new device with an old name), either of which may be written to the LED, modes link and activity, 1 forgotten reference |
| `netdev_users` | trigger and relay together, unregistering ends | 2 devices, 2 names, the relay in either direction, one device that is opened, no LED modes (`netdev_led` has them) |
| `button` | one button, polled or by interrupt | 3 polls a second, a long press of 2 s, 1 poll of debouncing, 3 events waiting |
| `rrdns` | every property of a lookup, with send, receive and allocation failing | 3 addresses, 3 ids, lists of up to 4 entries (so that one repeats or is bad), limit 1 or 2 |

A packet may be used again once it is freed, so the number of packets bounds
how many are in flight, not how long a run lasts; counters wrap in every run. A
ring of 4 has the thresholds of the code apart (stop at 2, wake below 3); larger
rings add no new order of events. `Countable` is the one bound in a guard of
`Ag71xxTx`: `curr - dirty` stays below `Wrap`. It matters only on MACs without fast
reset, where link changes in a row wake a full ring. For the same reason
`QueueWakes` is not claimed there: with a ring of two, link changes overwrite a
slot that was sent, and the queue is woken only by another one.

Lookups do not interact, so one call is enough; ids may collide, as 16-bit ids
may. With four blocks a device ends inside the image, at its end and behind it,
and two bad blocks may follow each other, be apart, or lie on two devices. A
third nvram process would be a third reader or writer; what two writers do to
each other is not claimed to be right in any case. Two devices are what a relay
needs, and a device of the old name. Bounds in guards: `MayStart` (nvram), `MayCall` and
`MaxEdit` (sysupgrade), `Links` and `MaxLeak` (network devices), `MaxQueue` (button, where a
full queue is the failed allocation of the code).

`CHECK_DEADLOCK FALSE` where the modelled system may stop: after `oops`, after
`bug`, in a `napi_disable` that never returns, when a command has ended or the
device is up, or simply because no packet comes.

### Fairness

ag71xx: weak fairness for the engine (it works while `TXE` is set), for a poll
that is due (an interrupt is level triggered), for the steps of code that holds
the CPU, and for the stack's link watch. Nothing is assumed of transmit, link
reports and timeouts, which the environment may never send. Jobs under rtnl are
strongly fair in `Ag71xxNapi`: polls beyond their budget go to ksoftirqd, which shares
the CPU. A refill that is tried for ever finds memory now and then (strong
fairness of `RefillAll`).

Network devices: what was begun goes on. Strong fairness for who waits for the
rtnl lock, for the freeing of a device, and for the release of the trigger: the lock
is fair, and a waiting `cancel_delayed_work_sync` and the removal of a file bar new
starts. Weak fairness for a store and a work that run. Nobody is assumed to
unregister, rename or write anything.

`Sysupgrade`: stage 2 is a script and `mtd` a sequential program; weak fairness says
that they are not stopped. Callers may give up. In `Rrdns` the loop of the call runs
on and the timer fires if it stays armed; no answer is promised. The runs of
`Nvram` and `GpioButton` ask for safety only.

### What the violations show

- `tx_engine_in_reset`: a link report while `hw_disable` sleeps restarts the
  engine on a ring that is then cleared and freed.
- `rx_assert`: a ring's worth of frames without a refill reaches
  `ag71xx_assert(0)`.
- `mtd_unerased`: `w < e` is taken for "erased and not written", but behind a bad
  block `e` is ahead of `w` anyway. If the next block does not erase, the buffer
  is written into it, the next device gets what lies behind the buffer, and the
  command returns 0.

### Also seen

Behaviour that the models have and the properties exclude by name, without a line
of documentation that says otherwise.

ag71xx: `restart_work` ignores `-ENOMEM`, after which a transmit dereferences a NULL
ring or the next `napi_disable` hangs with rtnl held; `restart_work` is not cancelled
by `ag71xx_stop`; a fast reset clears the receive counter, so a frame may wait for
the next; without fast reset, link changes in a row make `hw_start` wake a full
queue, and a slot that was sent but not reclaimed is overwritten; on an ar71xx
with the smallest ring, a packet dropped half way leaves descriptors that the
engine sends later.

mtd: `-p` is heeded neither by the check for bad blocks nor by the erasing of
`mtd_replace_jffs2`; `-n` with `-j` erases from block 0; a read error ends the image
and the command returns 0; configuration that does not fit is lost silently;
`skip` counts bad blocks, too, and as many blocks of the image are left out (they
are end markers, so it does not show); `skip_bad_blocks` stays when the next device is
begun; on NAND the end of a device ends the command. `Supported` excludes these.

sysupgrade: a second call overwrites `/tmp/sysupgrade.img` after the first one has
checked it, so an image that was not checked is flashed without `-F` (`mixed`); the
exit status of mtd and a failing tar are not looked at; after a power loss a
partial archive is restored; a test run with `-f` leaves its archive behind.

nvram: two writers lose each other's updates, and the parser of one may lose its way
in what the other writes; a tuple that does not fit ends the loop of its bucket, so the rest of
the bucket is lost; when one SDRAM variable is missing all four header fields fall
back to defaults; an image that is full is refused for ever; a torn image is parsed
beyond its end; the CRC is verified by no command.

ledtrig-netdev: the notifier compares the name without the lock, and a write of
`device_name` between that and the lock makes it light the LED for a device that has
the name no more; `device_name_store` forgets the reference it holds; a device that is
renamed keeps it; an UNREGISTER that is sent again, with `net_dev` NULL, lights the
LED or lets go of a new device of the same name; a store of the mode after that
lights the LED with no device. trelay: the notifier takes the pointer it gets for a
device, so the relay is never removed and unregistering waits for ever; on removal
`dev_put` comes before `netdev_rx_handler_unregister`.

button: a button that is down at boot and released counts as a long press until the
jiffies overflow, and so resets to factory state; all events share one static
buffer; on interrupt lines without debouncing a bounce on release cuts off the
reset.

rrdns: an entry that is bad or repeated is passed over without trying another
one, so the reply may come before the list is at its end; when two queries get the
same id, the answer to the one is filed under the other; and a failed `recv` returns
-1, which the unsigned length check lets pass, so the buffer is parsed as it is.

## Proofs

Each theorem holds for every value of the constants that the named assumptions
of the module allow; the runs above evaluate those assumptions.

| module | theorem | what |
|---|---|---|
| `Ag71xxTxProofs` | `TypeCorrect` | `Spec => []TypeOK` |
| | `OwnershipHolds` | `~Split => (Spec => []OwnershipInv)` |
| | `NeverUsesFreed` | `~Split => (Spec => []NoUseAfterFree)` |
| | `WindowHolds` | `HasFastReset /\ Size > 1 => (Spec => []WindowInv)` |
| | `NeverAttemptsEarly`, `NothingIsLost`, `CountsAlwaysMatch`, `EngineIsOnTheWay`, `QueueAlwaysHasRoom` | the same for `NoEarlyAttempt`, `NoPacketLost`, `CountsMatchRing`, `EngineOnTheWay`, `QueueHasRoom` |
| | `RingImplementsFifo` | `HasFastReset /\ Size > 1 => (Spec => FifoSpec)` |
| `Ag71xxNapiProofs` | `EngineAlwaysHasBuffer` | `Spec => []EngineHasBuffer` |
| | `JobsAlwaysLeaveOrder` | `Spec => []JobsLeaveOrder` |
| | `RingStaysInStep` | `Spec => []RingInStep` |
| | `InterruptIsKept` | `Spec => []InterruptKept` |
| `SysupgradeProofs` | `WriteTypeCorrect` | `Spec => []TypeOK`, with `Spec` of `MtdWrite` |
| | `WriteStaysInOrder` | `Spec => []LaidInOrder` |
| | `WriteResultTells` | `Spec => []ExitTells` |
| | `WriteLeavesTheRest` | `Spec => []RestUntouched` |
| | `UpgradeTypeCorrect` | `UpgradeSpec => []UpgradeTypeOK` |
| | `UpgradeKeepsOrder` | `UpgradeSpec => [](LaidInOrder /\ ExitTells /\ RestUntouched)` |
| | `UpgradeAlwaysArrives` | `UpgradeSpec => []UpgradeArrives` |
| `NvramProofs` | `TypesAreRight` | `Spec => []TypeOK` |
| | `FlashIsAlwaysImage` | `Spec => FlashStaysImage` |
| | `FailuresAlwaysTell` | `Spec => FailuresTell` |
| | `HeaderAlwaysAgrees` | `Spec => []HeaderAgrees` |
| | `AnswersAlwaysTell` | `Spec => AnswersTell` |
| | `MapIsImplemented` | `Spec => SequentialMap` |
| `NetdevUsersProofs` | `UsersTypeCorrect` | `Spec => []TypeOK` |
| | `ReferencesAreRight` | `Spec => []RefsCounted` |
| | `WorkIsSafe` | `Spec => []WorkUsesHeld` |
| | `RelayIsSafe` | `Spec => []RelayUsesHeld` |
| | `LedTellsTheLink` | `Spec => []LedTellsLink` |
| `RrdnsProofs` | `PipelineIsKept` | `Spec => []PipelineKept` |
| | `ReplyIsAlwaysRight` | `Spec => []ReplyIsRight` |
| | `NothingRunsAfterFree` | `Spec => []NothingAfterFree` |
| `GpioButtonProofs` | `ButtonTypeCorrect` | `Spec => []TypeOK` |
| | `ResetIsUncut` | `Spec => []ResetUncut` |
| | `SeenTellsTheHold` | `Spec => SeenTellsHold` |

The hypotheses of the theorems about the window: `HasFastReset` is the ar724x and
later MACs, which the Dragino boards have; on the others several of the properties
are false (see "Also seen"). With one descriptor, which ethtool accepts, `Full` is never
true and a packet that was sent but not reclaimed is overwritten: the properties are
false there, too.

None of the properties is inductive alone. What is added:

- **Ag71xxTx, ownership**: `NoUseAfterFree` speaks of *some* slot that holds the packet,
  and only while the engine is not parked. `OwnershipInv` adds why: `OwnedHasPacket` (what
  the engine owns has its packet in the same slot, except between `ring_tx_clean` and the
  free), `FilledHasPacket` (so has the descriptor about to be handed over) and
  `EngineParked` (where `OwnedHasPacket` is suspended or the ring is gone the engine is
  parked on `stop_desc` or stopped). One lemma for each context, one step for each
  action. The poll needs `WalkedIsFree`, the flush `ReclaimedInWindow`. `~Split` is the
  ar91xx and the ar724x: with `desc_split` the packet is attached to its last
  descriptor only.
- **Ag71xxTx, window**: `WindowInv` says that each descriptor from `dirty` to `curr` carries
  a packet and is counted (`Carried`), that an open queue has room (`Room`), and, where
  nothing has cut into an unlocked reset, that the packets held are those of the
  window, each once (`Attached`), that the engine owns a tail of it (`Owned`) and is where
  that begins (`InStep`), and what a stopped queue and an idle engine wait for
  (`Woken`). A transmit makes the window longer at its end, the reclaim
  shorter at its beginning, a reset empties it: one lemma each (`WindowGrows`, ...), and
  one step for each action. The five invariants are read off it. The step lemmas of
  the refinement use the same three facts: the sequence of `TxFifo` is the window.
- **Ag71xxNapi**: `Buffers` (an owned descriptor has a buffer, whether the engine
  can reach it or not; without rings, and from `dma_reset` to `hw_enable`, the engine
  is parked), `Shape` (which step belongs to which job) and `Order`: after
  `napi_disable` no poll and no timer is left, a stop that waits for it has engine
  and overflow off, and what a closed interface can still be doing. For the ring,
  `Aligned`: from `dirty` on come the descriptors that were taken, those that hold a
  frame and those of the engine, and the counters say how many; for the interrupt,
  `Awake`: when there are rings with the engine on them, and why a device is masked.
- **MtdWrite**: `MtdInv`. `pos`, `w`, `e` and `skipBad` are kept by hand, so the invariant
  ties them together: the position follows from what was written and skipped, and `e`
  is at most a block ahead (`Tracked`); what lies behind the position (`Behind`); how many
  blocks were read, written and are in the buffer (`Counted`); why a command fails
  (`NoRoom`); and that the good blocks before the position hold the image in order
  (`InOrder`).
- **Sysupgrade**: `UpgradeInv` is `MtdInv` of the command, once it is given (`NotGiven`
  before), and what each caller has seen to by the line it is at: `OneCall` (as long
  as no two calls overlap), `CallsChecked`, then `Served` and `Commanded` for stage 2 and the
  command it gives. The theorems about `MtdWrite` are cited for `MtdStep`. The assumption
  `DataAssumption` is that an image holds data.
- **Nvram**: `Phases` says which command can be where, `SavesImage` that a commit has read an
  image, `Apart` what the history variables mean, `Stages` that the writing command at
  work has mapped the file that is linked, and `StagedEnded` and `CopiesEnded` follow the
  double NUL from flash through file and buffer back to flash. That there is always
  an inode to create is the pigeonhole (`FreeFile`). That is `NvramInv`, and holds however
  commands overlap. It suffices for what the flash holds and for what a failure means,
  but says nothing of contents. `TurnsInv` adds those, for as long as writing commands
  take turns: flash and staging file name each variable once and agree with their
  headers (`Sounds`), and each command at work has what its steps so far have made
  (`Local`): a copy of the flash, the table of the tuples it has parsed, the map of its
  whole image, the new header with the first of the new tuples, what it commits. Readers
  are in it, too: what one answers is the map of the image it has read (`Parses`), and
  that is still the staged one if no writer came (`Sees`).
- **Nvram, tables**: `NvramTables` says what the operators do to the *content* of a table,
  the set of its tuples, and that a table stays `Proper`: a tuple lies in the bucket of its
  name and no name is there twice. `SetIs` and `UnsetIs` are the two operations, `EditIs` any
  list of arguments (the last one to a name counts, as in `Effect`), `FromHeaderIs` and
  `ReadAll` what the parser makes of an image: exactly its map. `FittingIs` says that what
  is written are tuples of the table, each once, within the room, `FittingAll` that these
  are all of them if they fit. `RewrittenIs` puts them together: the image that a command
  writes stands for the map that `NvramMap` promises, or for part of it where there is no
  room.
- **Nvram, refinement**: `MapOf` reads an image as a map; `Staged` is the staged image as of
  the moment when its content is decided, so that `Apply` is the `Change` of `NvramMap` and
  the tuples that follow are stutters. `Create` is `Stage` (`Fill` is a stutter), `Save` is
  `BeginCommit`, `Flash` is `EndCommit`, `Unlink` is `Unstage`, `PowerLoss` is `PowerLoss`; all
  other actions leave the map alone. There is one lemma for each of these. The assumptions:
  a device comes with an image that a boot loader or the tool has written, with each
  variable once and a header that agrees (`FactoryAssumption`), there are SDRAM variables
  (`SdramAssumption`), the hash gives a bucket (`BucketAssumption`), there are finitely
  many processes; sizes are any positive numbers.
- **NetdevUsers**: `CountInv` adds that a store under way may still forget a reference,
  that an event is sent under the lock about a device that is not freed, and that a
  relay is a pair to which nothing is added while it is removed. `WorkInv` says when a
  store, the notifier and the work may be past their cancels together; `HookInv` that
  a handler stands only with its relay or while that is removed. For the LED,
  `NameInv` says that devices that are there have different names and that an event
  tells the truth while it is sent, and `TellInv` that `link_up` is right for the device
  that has the name, or that its event is on the way.
- **Rrdns**: `CallInv` says how `ids`, `addrs`, `wire` and `blob` hang together (a request that
  waits was asked and has not been answered, ids differ unless two have clashed),
  and what is true once the call is freed. `QueryStep` is the lemma about
  `rrdns_next_query`, with every way it returns; the callbacks and the first loop cite
  it.
- **GpioButton**: `ResetInv` says that an event that resets is the last in the queue as
  long as the button was not pressed again and none overtook another. `HoldInv` says that the
  debounce counter counts the polls in a row that differ, so that no such row is
  longer than the threshold, and how `since` and `held` follow each other.

Each of these was checked by TLC on the bounds of a run before it was proved. They are
not properties of the runs: there the properties stand that follow from them.

Induction: the library's induction theorems take an operator as a parameter, which
the installed provers cannot instantiate. Where something must hold up to any number
(the parser, a list of arguments, a sum of sizes, the buckets), the lemmas `Least`, `UpTo`
and `Iterates` of `NvramTables` take a *set* of numbers instead, and the proof is about the
least one that would be wrong. Recursion is written as recursive functions for that
reason; `Iterates` says that such a function exists and has the equations it is written
with.

Only model-checked: liveness (`QueueWakes`, `AcceptedIsFreed`, `SlotComesBack`, `JobEnds`, `EveryRunEnds`,
`UnregisterEnds`, `CallIsReplied`), which rests on fairness and so on `ENABLED`.

## Plan

Done: both sides of the Ethernet driver; nvram with its abstract map; mtd write
and the upgrade around it; the LED trigger, the relay and the devices they share;
the reset button; the lookup of rrdns. Every safety property that a run checks is
proved, and both refinements.

Next, in this order:

1. Proofs: the window of the ar71xx and ar91xx, with what is true there of
   `CountsMatchRing`.
2. `Wwan`: setup, failure and teardown of the modem connection.
3. `MtdFixup`: the other commands of mtd (erase, fix-ups) with power loss.

## Not modelled

Register layouts, checksums, frame and image contents; probe and removal of
drivers. Of the modelled components: `show` and `info` of nvram, argument errors and
the length check of `nvram_set`; the other commands of mtd; `-b`, `-r`, `-l`, the choice
of files, the failsafe path and other platforms of sysupgrade; what trelay forwards;
switches of the button driver and what procd does while a button is held.

Not modelled at all: MDIO and the AR7240 switch (register sequences under one
lock); QMI and WWAN (shell around a modem and daemons that are not in this tree);
the Dragino configuration scripts (one-shot, they write files); procd, netifd, uci,
ubus glue (the daemons are downloaded); LuCI (rendering of forms, no state of its
own); the build system; other targets and patches to other projects. The tree is
several hundred thousand lines of such code, of which the models cover the parts
that the Dragino image runs and that have state and concurrency of their own.
`PROJECT.json` lists each with the reason.
