# Models and proofs of the MediaTek boot loader with DHCP server

TLA+ specifications of the parts of `bl-mt798x-dhcpd` that are this repository's
own and that are hard to test: the failsafe network services added to U-Boot,
and the two A/B schemes (FIP and firmware) that have to survive a power loss at
any point, and the bad block layer below them. Upstream U-Boot, upstream Trusted Firmware-A and the build scripts are
not modelled.

Below, `uboot/` is `src/uboot-mtk-20250711/` and `atf/` is `src/atf-20250711/`;
the older trees `atf-20240117-bacca82a8` and `atf-20260123` hold the same
components. Everything runs on one processor without threads: concurrency is
callbacks, commands run from inside a receive path, the network, and the power
switch.

## 1. Inventory

| Component | State | Operations | What is hard | What makes it correct |
|---|---|---|---|---|
| DHCP server, `uboot/net/mtk_dhcpd.c` | `leases[8]`, `dhcpd_running`, the pool variables of the environment | DISCOVER, REQUEST, the ignored messages, start, stop | several clients interleaved, a full table, an exhausted pool, the pool changed under existing leases, u32 wrap-around | no client twice in the table, no address shared but by the documented fallback, an ACK is recorded, what is offered is accepted |
| UDP handler stack: `net/net.c`, `net/mtk_dnsd.c`, `net/net_abort.c`, `failsafe/failsafe_core.c`, `common/main.c` | one handler pointer, one saved pointer and flag per service, the interface, `eth_needs_reinit` | start and stop of each service, `net_loop()` from its start to each of its ends, session begin and end, recovery | the order in which services stack and unstack; commands run in a session clear the pointer and halt the interface | datagrams are forwarded finitely often, a running server is never deaf, a stopped one is never called |
| BSP configuration, `board/mediatek/common/bsp_conf.c`, `atf/.../bl2/bsp_conf.c` | two copies on flash, working copy, original, index | import, save, forced save after BL2 | power loss in a write, a write that reports an error, update counts that wrap | a save is atomic and durable |
| Dual FIP, `atf/.../bl2/dual_fip.c`, `bl2_image_load_v2.c`, `bootmenu_{mtd,mmc}_common.c` | two FIP slots, current slot and marks (in the BSP configuration) | choice and fallback in BL2, upgrade | power loss in image or configuration, bad images, stale marks | a slot that works is found; a finished upgrade is booted |
| A/B boot of the firmware, `dual_boot.c`, `mtd_helper.c`, `mmc_helper.c` | two images, environment in memory and on flash, boot count register | `dual_boot()`, upgrades, environment reset | crashes and retries, counts outliving images, failed saves | a slot is given up only when it must, booting ends |
| TCP stack, `net/mtk_tcp.c` | lists of listeners, connections, dead connections | receive, send, timers, teardown, reaping | segments lost, repeated, reordered and cut differently; callbacks that close their own connection; peers that vanish; a nested `net_loop()` | bytes are delivered once, in order, both ways; each connection ends, and its upper layer is told so once |
| HTTP server, `net/mtk_httpd.c`, and upload/upgrade, `failsafe/modules/upgrade.c` | sessions with their buffers, one upload area, `is_uploading`, `upload_id`, `upload_data_id`, `fw_type`, `auto_action_pending` | request, payload, response, close; what `do_httpd` does afterwards | two uploads interleaved, an upload replaced or cut short before its result is asked for, a result asked for twice, clients that hang up | one upload is written to memory at a time; what is flashed or booted is what was last uploaded and confirmed, once; a failed upload makes room |
| Telnet server, `net/mtk_telnetd.c`, and web console, `failsafe/modules/console.c` | sessions, one execution slot, the orphan slot, the abort flag, the console buffer | request, poll, execute, interrupt, stream, leave; web exec, abort, poll, clear | two consoles, callbacks served from the `net_loop()` of the running command, the client leaves while its command is queued or runs | one command at a time, each once; an abort hits its own command; nothing freed is used; output goes to its own client; nobody stays busy |
| NMBM, `drivers/mtd/nmbm/nmbm-core.c` | block states and mapping, two info tables on flash, the range of spare blocks | attach, create, erase with remapping, write, mark bad, update and rescue of the tables | a block fails at any erase or write; power loss between any two of them; the two tables differ | a logic block keeps its content, no physical block serves two, no older mapping comes back |
| wget, anti-rollback, buttons, boot menu, other web modules | small | sequential | - | - |

Interaction: `main_loop()` runs the abort listener, then autoboot, then the DHCP
server, then the prompt. `httpd` (typed, triggered by the network, the button or
a boot failure) runs the poll loop of `start_web_failsafe()`, which calls
`mtk_telnetd_poll()`, `eth_rx()` (from which all callbacks come) and the TCP
timers. A command typed on telnet or on the web console may call `net_loop()`,
which shares the UDP pointer and the interface with the session. BL2 passes its
working copy of the BSP configuration to U-Boot in memory; U-Boot alone writes
the configuration and the slots.

The hazards are listed with their lines in `PROJECT.json`.

## 2. Modules

| Module | Models | Composition |
|---|---|---|
| `Dhcpd` (`MCDhcpd`) | the DHCP server | |
| `UdpHandlers` | the UDP handler, its three stacked services, boot, prompt and sessions | |
| `AtomicConf` | abstract: an atomic durable register | |
| `BspConf` | two-copy BSP configuration | implements `AtomicConf` |
| `DualFip` | BL2's slot choice and U-Boot's upgrade | `INSTANCE`s `BspConf` on the fields it uses |
| `DualBoot` | `dual_boot()`, reset causes, upgrades | |
| `MtkTcp` | one connection of the TCP stack, its upper layer, a peer and the network | |
| `HttpdUpload` | HTTP sessions, `/upload`, `/result` and the end of the failsafe | |
| `Console` | telnet and web commands, their shared slot, buffer and abort flag, and the `net_loop()` under them | |
| `Nmbm` | the bad block layer, its info tables and the chip | |
| `*_proofs` | theorems about the module named; `UdpServices_proofs` is about `Dhcpd` and `UdpHandlers` | |

Definitions whose comment begins with "Mutant:" are not part of the specifications. Each is a
variant of the operator after it, with a bug one could plausibly make there; it
shows that a property notices.

### Dhcpd

`leaseMac`/`leaseIp` are the entries of `leases[]` (`NoMac`: not used). One action
per message type of `dhcpd_handle_packet()`; a message is the fields the handler
reads. `poolEnv` holds the two pool variables, which the code reads on every
packet, so `SetPool` takes effect at once. `PoolStart`/`PoolEnd` keep the u32
arithmetic of `dhcpd_get_pool_range` with `AddrSpace` in place of 2^32: a large
`dhcpd_pool_size` wraps to below the start, and the pool is then empty. The hash
of a hardware address is an arbitrary function.

### UdpHandlers

`stack.head` is `udp_packet_handler`; `stack.prev[s]` and `stack.on[s]` are what
service `s` remembers. `pc` is the place in `main_loop()` or in the poll loop
(`poll`: `mtk_telnetd_poll`, `service`: the recovery branch, `rx`: `eth_rx`).
A command that enters `net_loop()` sets `loop`, and nothing else happens until
`LoopEnd`, which stands for success, failure and abort: all three clear the
handlers and leave the interface halted (failure through `net_start_again`).
Whether a command's text names a network command is independent of what it does
(`eth_needs_reinit` is set from the text), so `SessionCmd` chooses `named` freely.

`unsettled` is a history variable for the properties. A session's command that waits in `net_loop()` clears the
handlers when it ends, and the recovery builds the stack anew (`Settling`). Others leave the handlers where they are
and yet make the recovery run, or change them: a command that is not ready (`net.c:529-534` returns after `eth_halt()`),
`wget` (`net.c:518-523` starts both servers), `dhcpd`, and one that only looks like a network command. After one of these
`unsettled` holds until a `net_loop()` has cleared the handlers, and in between the code does form cycles and leave
stopped handlers: `NoHandlerCycle` and `NoStoppedHandler` name this as their exception, and section 3 has what happens
without it. `ServedAtRx` and `ServiceRestored` have no exception.

### BspConf, AtomicConf

Writing a copy is two steps, destruction (`WriteErase`) and new content
(`WriteProgram`), with a power loss possible between any two steps and an error
at any of them, if the count is in `FailCnts`. `Boot(v)` is U-Boot's import
followed by `import_bsp_conf_bl2` with the value `v` that BL2 made of the
configuration: it forces one save, or two if nothing was on flash.
`AtomicConf` says what users may rely on: after a power loss the value found is
the old or the new one, an acknowledged one stays, and a save that reported an
error may have taken effect until a later save undoes it (`Revert`: the next save
overwrites the very copy that took effect). The refinement mapping
takes the copy that an import would pick as the register's content and
`orig_bspconf` as the acknowledged value.

### DualFip

The slots' images are `good`, `bad` (valid FIP, an image in it does not load),
`packed` (loads but does not decompress) and `torn` (fails `load_validate_fip`).
BL2 is one operator, `Bl2`, of the configuration on flash: between reset and
U-Boot it writes nothing. Its result is the value of `B!Boot`.

### DualBoot

`pc` steps through `dual_boot()` from write to write, so a power loss hits between
any two. `flash` and `env` are the environment on flash and in memory; a reset
reloads. The boot count register survives a warm reset and is lost on a cold
one. `tries` is a history variable: the attempts since the image in a slot last
came up or was replaced.

### MtkTcp

Handlers of the stack are long and call each other and the upper layer, so they
are operators on a machine `m` (the connection `m.c`, the segments sent
`m.wire`, what the upper layer saw `m.app`), composed in the order of the code;
the actions apply one to the state: `Arrive` is `mtk_receive_tcp`, `Check` is
`mtk_tcp_periodic_check`. A connection that a step leaves `dying` is gone after
it: dead connections are reachable only from the call chain that parked them.

* Payload. A unit stands for a run of bytes and is named by its place in its
  stream, so a wrong place shows. Sequence numbers wrap at `SeqMod`, and the runs start
  just below it.
* The upper layer chooses a reaction in each callback, the poll of the periodic check included: nothing, a chunk, the close
  flag, or a reset (`mtk_tcp_close_conn(conn, 1)`); the rest of the check is skipped when the poll reset the connection. One reaction per callback:
  several steps of it add nothing, for each only sets fields of the connection.
  The callback that ends a connection does nothing to it.
* Peer and network. What the stack sent stays in `wire` and may be received late, again or never.
  What the peer may have sent is computed from its state: every segment of every length, with
  any acknowledgement it has given since (`acks`, `ackOf`: an acknowledgement cannot be older than the one
  the unit was first sent with).
* Time. A check finds that little time has passed, that the retransmission
  timeout has, or that the limit of 300 s has; any of the three at any check.
* `LoneFin`: the peer closes only when its data is acknowledged. A FIN that overtakes lost data is taken for the end
  of the stream (`mtk_tcp.c:889`), so that `AcksOnlyDelivered` fails with `LoneFin = FALSE`.

### HttpdUpload

As in `MtkTcp`, a handler is an operator on a machine `m`: `RecvHdr` and `RecvPayload`
(`httpd_recv_hdr`, `httpd_recv_payload`), `Handled` (`httpd_handle_request` with
`upload_handler`, `result_handler` at `HTTP_CB_NEW`), `Flashed` and `ResultClosed` (the two later
callbacks of `result_handler`), `Dropped` and `Cleanup` (`httpd_cleanup`). `s[r]` is the session of
request `r`, each on a connection of its own; `http` and `up` are the globals of the two files.
A payload unit carries the name of its request, so memory shows whose bytes it holds: `ram` is the
upload area, `s[r].buf` the session's own buffer, which the response header overwrites. `rand()` gives
a value not given before. A segment of any length may come next, a client may hang up at any time,
`failsafe_write_image` may fail, and an image that is not intact may pass or fail its validation.
A connection ends in `Close`, whose last callback runs `httpd_cleanup`, or in `Vanish`, without any: the stack deletes it
when its client connects anew from the same port (`mtk_tcp.c:672-680`) or the last acknowledgement does not come
(`:973-990`). The server never hears of it; the session's data and its upload mark stay (`"lost"`). `Missed` says
which sessions that makes a difference for. `UploadReopens` and `ConfirmedBoots` name it as their exception.
`Env` names what clients do. In the checked instance they send small bodies apart from their headers (`"splitPost"`),
which sets and clears the one upload mark: `stolen` is a history variable that remembers that a small body took the mark
from a large upload in progress, and is the exception of `OneWriter`, `FlashedIsUploaded` and `ActsOnConfirmed`. A
header in several segments and an image small enough for the session's buffer are left out, for they violate a property,
see below.
`board.meddled` is the premise of the last two properties: another upload or `/result` came after the
confirmation, or was already open, or the failsafe was already leaving for an earlier one.

### Console

`stack` is the chain of commands that have not returned, the innermost last; callbacks run when it is
empty or its last command is in `net_loop()` (`Served`). `req` is `telnetd_exec_req`, `tn[t].mem` the
state of a session's `pdata`, and `NoUseAfterFree` is about a step that would dereference it, or
the connection of a web request, after it was freed; the model stops there. `Start` is `mtk_telnetd_poll`
and `telnetd_execute` up to `run_command`, `FinishTelnet` the rest of it; between
them any callback may come, any number of times. `out` says whose output the console buffer holds, not
what it is, and `hist` who read it. An interrupt marks the command it is meant for (`asked`), which
`NetLoopAbort` compares with the command it stops. A session ends in `Closed`, which frees or parks `pdata`, or in
`Vanish`, without a callback: the connection is freed and `pdata->dead` stays clear (`mem = "lost"`), so that a command
it has running sends its last output on the freed connection (`mtk_telnetd.c:1050`, `:1169`). That is the exception
`NoUseAfterFree` names. `Env` names what the clients do besides minding their own business; the checked instance leaves
all of it out.

### Nmbm

`ni` is `struct nmbm_instance` with the control of the operation under way: `to` is the writer of a
table (or the wiping of a range) in progress in the blocks `at..limit-1`, `op` what its caller does next.
One step is one erase and write of a block, so that a failure of the block (`BlockFails`) or a power loss
(`PowerLoss`, with the block it hits) falls between any two; `Written` and `Full` give for each writer what the
code does when it succeeded and when its range is exhausted. Erasure and writing of one table block are
one step, for a torn block is either way no valid table. `Tables`, `Newest` and `TopOf` are the search
of `nmbm_load_info_table`. A search marks a block it cannot read as bad, in RAM only; which of the torn blocks of the area
(`Unreadable`) those are is open at each attach (`ecc`), whether it then loads a table or, having found none, creates one. A logic block is written as a whole; a table fits one block.
Mapping the missing blocks at creation is one step per block (`MapMissing`).
`acked` remembers what each logic block was last successfully written with. `TopSpareGood` and `NotAlone` are the
premises of the theorems, see section 4.

## 3. Runs

| Run | Instance | Shows |
|---|---|---|
| `dhcpd` | 3 clients, 2 entries, 8-address subnet in a 32-address space, 5 pool settings | five properties; the table overflows, two hashes collide, the pool is exhausted, clamped, defaulted and wrapped |
| `udp_handlers` | every command at the prompt and in sessions, ready or not, recognised or not | no deaf receive, service restored; no cycle and no stopped handler, but for `unsettled` |
| `bsp_conf` | 3 values, counts 0..5, errors at counts 1..3 | atomicity (refinement) and that a skipped save was unnecessary |
| `dual_fip` | counts 0..3, no reported errors, good and bad images | boots if a slot is good, upgrades take effect, the spare slot is written |
| `dual_boot` | 2 retries, `mtkboardboot` | gives up only when it must, marks only after all retries, booting ends |
| `mtk_tcp` | 2 connections in turn from a client, 2 units each way split and merged freely, resets | data is delivered in order, nothing else is acknowledged, silence after the last callback |
| `mtk_tcp_send` | a connection of the stack's own, chunks of one and two segments | the peer gets the stream, "sent" means received, half-closed connections end |
| `mtk_tcp_window` | a window that closes and opens | **violated**: probe and retransmission leave `local_seq` behind; what is sent next is wrong |
| `http_upload` | 3 requests in a row or interleaved, headers of 1 unit, payloads of 1 and 2, small bodies apart from their headers, connections that vanish | one writer, what is flashed or booted is what was confirmed, but for `stolen`; written once; a confirmed initramfs is booted and the upload mark goes away, unless the connection vanished |
| `console` | 2 telnet sessions, 2 web requests, 3 telnet commands, telnet connections that vanish | one command at a time, each once; own abort, own output; nobody stays busy; nothing freed is used, but by a command whose own connection vanished |
| `nmbm` | 2 logic blocks, 9 management blocks, one factory-bad data block, 2 failing blocks, 2 power losses | data survives, mapping on flash is current and never an older one, no block is used twice |
| `nmbm_shared_block` | a factory-bad block among the spares | **violated**: one spare block is given to two logic blocks |

A violated run checks one statement that a comment of the repository makes; `findings` in
`PROJECT.json` quotes it. Types are proved everywhere; only `MtkTcp` runs its type invariant too.

Other values of the constants violate properties that the passing runs check, and so do those properties without the
exceptions they name. They are behaviours of the code too, and worth a run when it changes:

| Module | Constant or change | Violates | Why |
|---|---|---|---|
| `UdpHandlers` | without `~unsettled` | `NoHandlerCycle` | a session's command that leaves the handlers stacked and makes the recovery run: not ready (`net.c:529-534`), `wget` (`:518-523`), or one that only looks like a network command ("echo ping"). The recovery (`failsafe_core.c:344-355`) hooks the DHCP server on top of the DNS server that already forwards to it; a datagram nobody consumes is forwarded for ever |
| `UdpHandlers` | without `~unsettled` | `NoStoppedHandler` | `dhcpd stop` in a session finds the DNS server on top and leaves the DHCP handler below it; and after an unready command and the recovery the session's end stops first the DNS server, then the DHCP server, which puts the stopped DNS handler back |
| `BspConf` | 0, `MaxCnt - 1` or `MaxCnt` among `FailCnts` | `CleanMeansStored`, `ImplementsAtomicConf` | after a failed save next to the wrap-around the counts are two apart |
| `DualFip` | `FailCnts = {1, 2}`, `MaxCnt = 4` | `BootsIfAnyGood` | after a save that failed, the working copy names the new slot, and a repeated upgrade overwrites the slot flash still names, while the other one is marked invalid |
| `DualFip` | `"packed"` among `Images` | `BootsIfAnyGood` | BL2 does not try the other slot after a failed decompression |
| `DualBoot` | `"mtkbootconf"` among `Commands` | `MarkedAfterRetries`, `ZeroMeansLoaded` | reading an image counts as an attempt; and `dual_boot()` returns a variable nothing has assigned when both slots are marked (`dual_boot.c:316`) |
| `MtkTcp` | as in `MtkTcp.cfg` | `EveryConnIsFinished` | the timeout in `LAST_ACK` (`mtk_tcp.c:973`), or a SYN on a synchronized connection, removes it without a last callback |
| `MtkTcp` | `LoneFin = FALSE` | `AcksOnlyDelivered` | see above |
| `HttpdUpload` | without `~stolen` | `OneWriter` | the end of a small body that came apart clears the mark of a large upload in progress (`mtk_httpd.c:547`, `:583`) |
| `HttpdUpload` | without the sessions that are `"lost"` | `UploadReopens`, `ConfirmedBoots` | a SYN from the client's own port deletes the connection without a callback (`mtk_tcp.c:672-680`): `is_uploading` stays set, or `auto_action_pending` is never set |
| `HttpdUpload` | `"smallImage"` in `Env` | `FlashedIsUploaded` | `upload_data` points into the session's buffer, which the response header overwrites |
| `HttpdUpload` | `"splitHeader"` in `Env` | `FlashedIsUploaded` | the whole header's length is taken off its last segment (`mtk_httpd.c:530`); shorter ones wrap around |
| `Console` | `"return"` in `Env` | `NoUseAfterFree` | any telnet callback frees the parked session, also while its command runs (`mtk_telnetd.c:195`) |
| `Console` | `"webLeaves"` in `Env` | `NoUseAfterFree` | a web command runs inside the callback of its connection, which the nested periodic check frees |
| `Console` | without its exception | `NoUseAfterFree` | a SYN from the port of a telnet client deletes its connection during its own command, the nested periodic check frees it (`mtk_tcp.c:672-680`, `:1371`), and `telnetd_execute` goes on with it (`mtk_telnetd.c:1050`, `:1169`) |
| `Console` | `"hitAndRun"` in `Env` | `AbortIsOwn` | a queued command is interrupted and dropped with its session; the flag stays set for the next command |
| `Console` | `"noMemory"`, or `"webWatches"`, in `Env` | `OutputIsOwn` | a telnet command prints into a buffer the web console drains |
| `Nmbm` | `"markSpare"` in `Env`, or a bad spare in `FactoryBad` | `NoSharedBlock` | see the run `nmbm_shared_block` |
| `Nmbm` | `Sig = 9` | `DataSurvives`, `NeverRollsBack` | the management area of seven blocks is exhausted, by blocks that fail and by torn ones that an attach takes for bad; the one table left is rewritten in place, and a power loss there loses the mapping |

Bounds. `Dhcpd`: the table's overflow needs one client more than entries; pools of
one, two, three and more addresses and an empty one decide every branch of
`dhcpd_alloc_ip`; the theorems remove the bounds. `BspConf`: six counts make the wrap-around reachable
and distinguish "one apart" from "further apart" on both sides of it; three
values tell old, new and newer apart. `DualFip` needs no more than four counts, for without
errors the copies' counts are always one apart. `DualBoot`: two retries distinguish first, last and
exhausted attempts. `MtkTcp`: full segments of one unit let a chunk of two take two segments, acknowledged apart or together; two
units of the peer can be merged, split and overlap; a second connection meets the
leftovers of the first in the stack and in the upper layer; the two runs that pass
keep the window open, for the third shows what its closing does. No state constraint is used; the
`cfg` constants are the only bounds. `HttpdUpload`: three requests
are two uploads and a result, or an upload and two results, and every other mixture; payloads of one and two units
differ in length and can be cut; the theorems remove the bounds. `Console`: a second session and a second
request compete for the slot, and the third command follows one that was dropped. `Nmbm`: nine
management blocks hold two tables with a spare block after the first, three spares, and the torn blocks that an attach
may take for bad; two failures reach each rescue path, two power losses interrupt the repair
of what the first one damaged; the factory-bad data block makes creation itself remap.

Deadlock is checked everywhere except in `DualFip`, where BL2 really stops if no
slot loads, in `MtkTcp`, where the last connection ends and the modelled peer opens no other, in `HttpdUpload`
and `Console`, where the clients may all have left, and in `Nmbm`, where a chip without a block for a table cannot be attached.

Fairness. `UdpHandlers!FairSpec` assumes that the poll loop keeps turning (it waits
for nobody) and that the `net_loop()` of a command ends: its protocols give up
after a number of retries, and the console aborts any of them. Nothing is
assumed of users, sessions or packets. `DualBoot!FairSpec` assumes that
`dual_boot()` continues while the board is on, and that a firmware started comes
up or resets; `BootEnds` is conditional on the board being left alone from some
time on, i.e. no more resets by the user, power losses or failing saves.
`MtkTcp!FairSpec` assumes that the loop goes on calling `mtk_tcp_periodic_check` and that time passes: in the
states of `Waiting` nothing starts `ts_rexmit` again, so 300 s are over at some
check. Nothing is assumed of the peer or the network. `Console!Spec` assumes that the poll loop turns (`Start`)
and that a command returns, as in `UdpHandlers`. `HttpdUpload!Spec` assumes the same of the poll loop
(`Leave`), and `Served`: a client that stays sends on and takes the response, one that leaves is closed by the stack, and
so is what the server has closed, unless the connection vanishes first. The fairness is on the session's own state, so that `Vanish`, which
is never forced, ends the obligation. A client that falls silent in mid-upload keeps the upload mark, for the stack has
no idle timeout.

## 4. Proofs

TLAPS checks the following for all values of the constants.

* `UdpServices_proofs`, first part: types and all five properties of `Dhcpd`. The invariant `Inv` is the conjunction of
  the four state properties and types; sharing is preserved because an address
  enters the table either as the client's own, as one not allocated, or as the
  fallback, and in that case the pool has no more addresses than the table has
  entries (a cardinality argument). Acceptance of offers is proved from
  `AllocCases`, a case analysis of what `dhcpd_alloc_ip` returns.
* `UdpServices_proofs`, second part: types and the three other safety properties, without assumption. `Live` holds whatever
  a session's commands do: the DNS server runs, and on a live interface the running servers are the first handlers. It gives
  `ServedAtRx`. `Shape` holds unless `unsettled`; it gives the form of the stack at each
  place of the program (nothing or DHCP alone at the prompt; the abort listener
  on top of that in its window; DNS on DHCP on nothing in a session, or nothing with
  the interface halted, so that the recovery is certain to run). It is established anew by the end of a `net_loop()`,
  which is where `unsettled` ends.
* `BspConf_proofs`: types; `CleanMeansStored`; and `Spec => ImplementsAtomicConf`,
  the latter two if no write fails at the counts next to the wrap-around. The
  invariant relates the counts of the two copies, `orig` and `curr`: the copy
  not at `index` is older, lost, or the one a failed save wrote. Without the
  assumption the properties fail: after a failed save the working count runs ahead, and
  with counts two apart across the wrap the comparison in `import_bsp_conf`
  picks the older copy. It takes 2^32 saves to get there.
* `DualBoot_proofs`: types; `FailsOnlyIfNoGood` for every retry count and whatever
  saves fail; `MarkedAfterRetries` if `mtkbootconf` is not used. `StepsOK` says what `dual_boot()` has
  established at each of its intermediate points (e.g. the current slot is
  marked before it switches), `CountOK` that the register never counts more than
  the attempts made: it is what keeps a count from being held against another image.

* `HttpdUpload_proofs`: types, `WrittenOnce` and `OneWriter` without assumption, hence also for headers split
  anywhere, small images and connections that vanish; `FlashedIsUploaded` and `ActsOnConfirmed` if
  `Env \subseteq {"splitPost"}`. The invariant speaks of a machine, and one lemma per operator shows that it passes through it. `Ids`: an upload that stands (its identifier is the current one) was
  answered and not flashed before. `Marked`: who waits for a body has set the mark. The rest holds unless
  `stolen`. `Alone`: one connection at a time fills the area, under the mark.
  `Imaged`: the area holds the bytes of whoever fills it, and no upload stands meanwhile, or else the image of
  the upload that stands. `Confirmed`: until another request meddles, the confirmed upload is still in memory, nobody
  writes, and only one `/result` can set `auto_action_pending`. Section 3 says what goes wrong without them.
* `Console_proofs`: types and `OneCommand`, without assumption; `NoUseAfterFree`, with its exception and
  connections vanishing at any time, if `"return"` and `"webLeaves"` are not in `Env`; `AbortIsOwn` if `"hitAndRun"` is not either. `Shape` says that the stack holds at
  most one command, and that the flags of both consoles say whose it is; `Safe` that a session whose command is
  queued or running is either there, suspended, or parked in the orphan slot, or lost its connection, and is not freed; `Own` that a
  pending abort is for the command that runs, whose client asked for it, or for the queued one, whose session
  was not told to go. Each rests on the one before it. `EachRunsOnce` needs no assumption either: `Numbered` says that
  what was started, and then what is queued, carry the numbers of their acceptance in order, and that a session
  that accepted a command is not used again once its client has left. `OutputIsOwn` is proved if `"noMemory"` and
  `"webWatches"` are not in `Env`: `Private` says that the buffer a telnet command prints to is its own while the web
  console's is put aside. These are the two rows of section 3 that violate it.
* `DualFip_proofs`: `BootsIfAnyGood` if no write fails and no image is `"packed"`, `UpgradeIsBooted` and
  `SpareIsWritten` if no write fails, for every wrap-around of the count. `BspConf_proofs` is instantiated on the
  slots' configuration, so that its invariant holds of it here; `SameOperations` says that the operations are the same ones.
  What is added relates the configuration to the slots. `FlashIs`: what the next power-up would import is the working
  copy once it is programmed, and the one before until then. `Marks`: neither that one nor the working
  copy marks the slot it names, and if it marks the other slot, the one it names holds a good image. `Clean`:
  between saves the working copy is the one on flash. `Marks` is not inductive without the other two, for BL2
  marks a slot from what it imports and U-Boot names one in its working copy. Section 3 has the counterexample for
  either assumption.
* `MtkTcp_proofs`: types and `NothingAfterFinal`, without assumption; `InOrderDelivery` if `Fits`, i.e. the peer's
  data and its FIN take less than half of the sequence numbers; `AcksOnlyDelivered` if `LoneFin` besides. A handler
  is an operator on a machine (connection, wire, upper layer), and one lemma per operator says what it returns.
  `Told`: a connection not dying was not told its end, one that dies was told it at most once, and none is left dying
  when a handler returns (`Parked`). `Rx`: the upper layer has the first n units of the peer, and once the
  handshake is over the connection expects the n+1st. `Fits` is where it is needed: `Distance` turns the signed
  comparison of two sequence numbers into that of the positions they stand for, whatever the initial numbers, so a segment
  is cut exactly where the stream was left. Without it an old segment looks like a new one: the stack has neither PAWS nor
  a window of its own to refuse it, so that 2 GiB on one connection are beyond what this shows. `Acks` says
  that what is on the wire acknowledges positions delivered, `Ends` and `AllHeard` that the end of the stream is
  seen only after all of it, which `LoneFin` gives (section 3).
  `PeerGetsStream` and `SentMeansReceived` are proved if `FitsSent` (the same bound for what the upper layer sends) and
  `WindowOpen`: every window the peer advertises is above zero and above the longest chunk. `Tx` says what
  `local_seq_last`, `local_seq_acked` and `local_seq` stand for: the chunk begins at position l, is acknowledged up to
  a and sent up to s, `l <= a <= s`. `Cut` is the part that makes it inductive: within the chunk a segment ends
  only after a number of full segments or where the chunk does, so an acknowledgement, however late, is of
  such a position and never beyond s, what is sent again never reaches past s either, and an acknowledgement below l is
  told from one above it. `Taken` is the peer's side, `Over` when the sender has nothing more to answer for. The
  proof shows that under `WindowOpen` the zero-window mode is never entered, and that mode is what breaks both
  properties in the instance of `mtk_tcp_window`, whose window closes. `WindowOpen` is enough, not necessary: TLC finds
  no violation for a constant window of two full segments and chunks of one and two.
* `Nmbm_proofs`: `NoSharedBlock`, `StoredIsCurrent` and types if `TopSpareGood`; `NeverRollsBack` and `DataSurvives` if
  `NotAlone` besides, for chips of any size, any number of failing blocks and of power losses. Both conditions are
  about the behaviour, not about the constants. `TopSpareGood`: when a block is about to be mapped, the topmost spare one
  is good. `nmbm_map_block` lowers the top by one however many bad blocks it passed over, and the run
  `nmbm_shared_block` shows what follows. `NotAlone`: the main table is never rewritten in place while it has no
  backup, which is the row `Sig = 9` of section 3. The instance of `nmbm` satisfies both in every state (add them to the
  `INVARIANTS` of `Nmbm.cfg` to see it), for all that its blocks fail and its power is lost.
  Three invariants rest on each other.
  `IInv` says where valid tables are, in every state of every writer. `Flash`: there are at most two, the blocks
  below both are known to be bad, the newest maps nothing at or below the other, and a newer one knows every
  bad block an older one knows. `Core`: the mapping in RAM and the one in the cache lie above `top`, and the cache knows more
  than any table. `Ranges` and `Held`: which blocks each writer may still try, and which live tables it
  thereby leaves alone. `Marks`: what a writer has passed over is bad, hence a table written behind it is still the
  first a search finds. `NoSharedBlock` alone is not inductive, because an attach takes the mapping and the top from
  flash: whatever is there must already be safe to load, including the older table that survives a torn update.
  `StoredInv` says what these tables map. `Copies`: the same as the cache, except for those that an update has still
  to write; `Noted`: whatever the mapping in RAM has that the cache has not is flagged dirty; `Fails`: an update ends without
  success only while attaching or creating, or with write protection.
  `DataInv` says that a block that was written is the one every live table names, and the instance and its cache too (`DataAt`),
  that there is a live table as soon as anything was written, and that the block being erased or given up is not acknowledged
  (`NotYet`). What makes it inductive is that the three agree: a power loss may leave any of the tables as the
  newest, and no writer or wipe tries a block that a mapping uses.

The assumptions are the `ASSUME`s of the modules, evaluated by TLC in every run,
and those stated in the theorems. Every invariant and every action property of a passing run is a theorem, under the
conditions given above. Only model-checked: liveness (`ServiceRestored`, `BootEnds`, `HalfClosedEnds`, `UploadReopens`, `ConfirmedBoots`,
`NobodyStaysBusy`), which is out of the prover's reach; and that the two conditions of `Nmbm_proofs` hold of a given chip, for how many
failing and torn blocks that takes depends on how the tables and the spares happen to lie.

## 5. Not modelled

* Of the HTTP server: parsing of headers and forms, error responses, allocation failures, and the handlers that serve one
  request from one buffer. Of uploads: the choice of an MTD layout, which is saved after a confirmed write.
* Of the telnet server: the line editor, telnet options, the queue of output chunks of a session, a console
  whose recording becomes unavailable after a command was accepted.
* Of NMBM: reads and their retries, pages within a block, panic writes, tables of several blocks, the search for
  the signature, read-only attachment.
* A telnet or web command is one that prints and may be in `net_loop()`; what else it does to the session's
  services is in `UdpHandlers`.
* Of the TCP stack: several connections at once, the list of dead connections and its reaping from
  a nested `net_loop()`, ARP, options, the computation of the timeouts, urgent data, segments of an earlier connection.
* The layout of packets and their parsers, printed text, boot arguments, FIT and FIP formats.
* The BSP configuration of an MMC that has a single copy (`mmc_helper.c:1273-1278`).
* Emergency images: `mmc_dual_boot` replaces the result of `dual_boot` by that of the emergency
  image; without one configured the two are the same.
* Images started without verification (`DualBoot` assumes FIT images or
  `MTK_DUAL_BOOT_IMAGE_ROOTFS_VERIFY`), a non-redundant environment (`env_save` is atomic), the
  `asuswrt` layout, whose upgrade skips the switch.
* `httpd` run from inside a session, `netabort listen` from a session, and a DNS server that does
  not start because no address is configured.
* Values of `dual_boot.current_slot` that no part of the program writes.

## 6. Plan

1. `TcpLifetime`: several connections, the dead list, callbacks and the nested periodic check
   (no connection used after it is freed), below `Console`.
2. `DhcpNet`: clients and a network that loses, duplicates and delays, composed with `Dhcpd`.
3. `DualBoot`: the promise "a workable booting system remains on the flash device" under failing
   saves and repeated upgrades; the emergency image.
