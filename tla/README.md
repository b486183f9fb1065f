# wireguard-tools IPC: TLA+ models

This directory holds TLA+ models of `src/src/ipc.c`. That file is the layer through
which `wg` reads and writes WireGuard interfaces. Each module is translated from the C
code. Its comments name the lines it models, and `PROJECT.json` maps every
definition to those lines.

## The system

`ipc.c` offers three entry points to the rest of `wg`:

* `ipc_list_devices` returns the names of all WireGuard interfaces as a
  `first\0second\0...\0\0` buffer built with `string_list_add`. On Linux it first
  dumps the kernel's links with `RTM_GETLINK` and keeps the links whose kind is
  `wireguard`. It then scans the socket directory of userspace implementations and
  probes each `*.sock` with `userspace_has_wireguard_interface`: stat, connect, and
  an unlink of the socket when the connect is refused.
* `ipc_get_device` and `ipc_set_device` pick a backend. If a live userspace socket
  exists, they use the text protocol (`userspace_get_device`,
  `userspace_set_device`). Otherwise they use the kernel. On Linux that is generic
  netlink (`kernel_get_device`, `kernel_set_device`); on OpenBSD it is the
  `SIOCGWG` and `SIOCSWG` ioctls on one `struct wg_data_io`. On OpenBSD and FreeBSD the
  kernel interfaces are listed from interface group `wg` with `SIOCGIFGMEMB`.

The two backends must agree. A `wg set` must do the same thing whether a kernel
interface or a userspace daemon serves it. The processes around the code also
interact with it:
* other `wg` invocations change links and peers while a dump is in progress;
* daemons start, crash and stop while the socket directory is scanned.

## Modules

| Module | Code | State and actions |
|---|---|---|
| `WgNetlink` | 548-680 (message contents) | Data: a `struct wgdevice` (device flags; peers with key, flags, endpoint family, allowed ips), a netlink message (device attributes, peer fragments), and the kernel's apply semantics `ApplyMessage` (environment). `WholeRequest(d)` is the one message an unbounded buffer would hold. |
| `SetDevice` | spec | Abstract SET: the interface goes in one step to `ApplyMessage(cfg, WholeRequest(dev))` or, on failure, to any prefix of it. |
| `NetlinkSet` | `kernel_set_device` 548-680 | Attribute lengths in 4-byte units, `FillPeers` (the nest loop with rollback and the `(peer, allowedip)` resume cursor), `BuildMessage`, actions `Open`, `Send`, `Recv` (client) and `KernelAck`, `KernelError` (environment). The buffer size `cap` is chosen in `Init`. `Refinement` instantiates `SetDevice`. |
| `NetlinkGet` | `kernel_get_device`, `parse_*`, `coalesce_peers` 682-925 | The kernel builds each dump message as it is read, split every `MaxItemsPerMessage` items. Actions: `Request`, `RecvMessage` (decode into new peers), `RecvDone` (coalesce, or restart on `NLM_F_DUMP_INTR`), `RecvError`, and `ConfigChange` (another writer). |
| `UapiSet` | `userspace_set_device` 187-260 | `SetLines` encodes the device as protocol lines. Actions: `Open`, `Write`, `ReadReply` (the `fscanf` and its fallback), and `DaemonServe`, the daemon as environment. The daemon applies lines with the netlink semantics of `WgNetlink`, answers `errno=N`, or closes early. |
| `UapiGet` | `userspace_get_device` 262-431 | The getline loop. `HandleLine` mirrors the if-chain, `NUM`'s `break` and the `err:` exit. State: `heap` (records allocated and not freed), `peers`, `aipOwner` (the `allowedip` cursor), `ret`. Actions: `Alloc`, `Open`, `ReadLine` (any line of a small grammar), `EndOfStream`. |
| `StringList` | `string_list_add` 51-80 | The buffer byte by byte. `overflow` records a write past the allocation. `Add` gives the set of outcomes, since realloc may fail. |
| `Dispatch` | `ipc_get_device`, `ipc_set_device` 1223-1242; `userspace_has_wireguard_interface` 127-152; `userspace_interface_file` 83-125 | The probe (`PStat`, `PConnect`, `PUnlink`), then the second open (`OStat`, `OConnect`, `OUnlink`, ending at `Out`), or `Kernel`. `errno` is tracked because the code reads it after `fdopen`. The daemon starts, crashes or stops between any two steps. The protocol exchange is reduced to who serves the request. |
| `WgIoctl` | OpenBSD `struct wg_data_io` | Data: the buffer as a sequence of items (interface, peer, allowed ip). `KernelFill` (SIOCGWG) and `KernelRead` (SIOCSWG) are the driver, as environment, with the apply semantics of `WgNetlink`. |
| `OpenBSDSet` | OpenBSD `kernel_set_device` 1090-1190 | `IoSize`, `IfaceIoFlags`, `PeerIoFlags` and `Fill` translate the sizing and fill loops. Actions: `Prepare` (socket, calloc, fill) and `Ioctl` (the driver applies the message or a prefix of it). `Refinement` instantiates `SetDevice`. |
| `OpenBSD` | composition | `OpenBSDSet` and `OpenBSDGet` (by `INSTANCE`) on one driver state `cfg`: the set's SIOCSWG is the change the get sees between its SIOCGWG calls. |
| `IpcSet` | `ipc_set_device` 1233-1242 | `Dispatch` then, on the userspace path, `UapiSet` (both by `INSTANCE`). `Handoff`: UapiSet's open succeeds exactly when Dispatch gave the daemon the FILE, and fails with Dispatch's return value otherwise. |
| `OpenBSDGet` | OpenBSD `kernel_get_device` 970-1088 | The size loop (`Ioctl`, `Grow`: realloc into the same pointer), then `Dev`, `Peer` and `Aip`, one calloc each. `heap` counts the blocks allocated. `ConfigChange` is another writer. |
| `BSDListDevices` | `kernel_get_wireguard_interfaces` 937-966 | `Socket`, `Size` (SIOCGIFGMEMB with length 0), `Alloc` (calloc), `Copy`, `Member` (appends through `StringList`). `GroupChange` lets interfaces join and leave group `wg` between the ioctls. |
| `ListDevices` | `ipc_list_devices`, 127-182, 460-546, 1194-1215 | One client walks `KOpen`, `KRecv`, `UOpen`, `UEntry`, `UStat`, `UConnect`, `UUnlink`, `UAdd`. It appends names through `StringList` (by `INSTANCE`). The environment is `LinkChange`, `DaemonStart`, `DaemonCrash` and `DaemonStop`. A socket file is an inode number, so a restarted daemon's socket is a different file at the same path. `UConnect` includes `SocketFails`, the probe's `socket()` failing (141-143): the name is skipped, the scan goes on and `ret` stays 0. The history variable `skipped` records such names. |

Each `MC*.tla` gives constants for TLC. Keys, IPs, link names and socket names are model values.

## Runs

| Run | Checks | Result |
|---|---|---|
| `netlink_set` | `TransmittedOnceInOrder`: the fragments sent, concatenated, are `WholeRequest` with every allowed ip once, in order, and opening attributes only in a peer's first fragment. `Refinement`: `SetDevice`. `Termination`. | pass |
| `netlink_get` | `GetIsSnapshot`: a successful GET returns exactly one generation of the interface. `Termination` once writers stop. | pass |
| `uapi_get` | `NoLeak`: every exit either returns the device or frees every record it allocated. `SuccessNeedsExplicitZero`. `PeersFollowReply`: the peers and allowed ips built are those the reply lists, in order. | pass |
| `uapi_get_error_sign` | `ErrorsAreNegative` | violated: an unresolvable endpoint returns +ENETUNREACH (ipc.c:368) |
| `uapi_get_errno_kept` | `ExplicitErrnoKept` | violated: a daemon's `errno=N` is replaced by -EPROTO when a malformed line or end of stream follows (ipc.c:420) |
| `ipc_set` | `StaleSocketFallsBack`: a socket file left by a crashed daemon does not capture the request, and it goes to a kernel interface when there is one. `LiveDaemonServes`: a daemon up during the whole dispatch gets the request (this needs the `errno = 0` after `fdopen`, ipc.c:114-115). `SuccessAppliesWholeRequest`: a successful text SET leaves the daemon in the state a netlink SET of the same device gives the kernel (backend equivalence). `SuccessOnlyOnZeroReply`. | pass |
| `ipc_set_error_sign` | `ErrorsAreNegative` | violated: the daemon's `errno=22` is returned by `ipc_set_device` as +22 (ipc.c:255) |
| `list_devices` | `KernelCompleteWhenQuiet`: with no link change during the dump, every kernel link is listed. `LiveDaemonListed`: every daemon up on its socket during the whole scan is listed, except one whose probe could not create a socket. That exception is real: `ipc_list_devices` then returns 0 with the daemon missing, where the spec says socket failures are propagated (hazard at 142). `ListWriteInBounds`: `string_list_add` never writes past its buffer. | pass |
| `list_devices_unlink_race` | `NoLiveSocketUnlinked` | violated: a daemon that restarts between the refused `connect` and the `unlink` loses its new socket (ipc.c:147, also 110) |
| `openbsd` | A `wg set` and a `wg show` on one interface. `WriteInBounds`: the set's fill never writes past `wgd_size`. `Refinement`: the set implements `SetDevice`. `ReturnsCopy`: the get, sizing an interface the set changes, returns exactly one SIOCGWG copy, peers and allowed ips in order. `Termination` of the get. | pass |
| `openbsd_get_leak` | `NoLeak` | violated: a failed realloc loses the old buffer (ipc.c:991); a failed calloc of a peer or allowed ip leaks the device built so far (ipc.c:1026, 1062) |
| `bsd_list_devices` | `ListedIsCopy`: a success lists each member of the copied group once; zeroed slots left by a shrinking group are skipped. `ListHoldsNames`: the buffer is `first\0second\0...\0\0` of those names. | pass |

Every module also has a `TypeOK`. Every property of a passing run has a mutant in
`PROJECT.json`: a plausible bug in one mapped definition, for which TLC finds the
property violated.

## Bounds

* **Netlink SET.** The buffer sizes run from 50 units to 72 units:
  * 50 units is the smallest buffer that holds the largest opening peer with one IPv6 allowed ip;
  * at 72 units most requests fit in one message.
  
  Every split point therefore occurs: inside a peer's allowed ips, between peers, and right after the device attributes. Requests have up to two peers, including a removed peer, a peer that replaces its allowed ips, and a repeated key.
* **Netlink GET.** Messages hold 1 or 2 items, so one peer spans up to three messages. Up to two concurrent changes are allowed, which is enough for a change between any two reads and for a restart after a restart.
* **Text GET.** Replies have up to 4 lines from a grammar of 29 lines, covering every key, every parse outcome and each numeric bound at its edge (65535 and 65536, -1). That is enough for a peer, an allowed ip, an `errno` line and a blank line.
* **string_list.** It is checked through its callers. The Linux list appends names of 1 and 2 bytes up to four times, which reaches an exact fit of the string and its NUL, and several reallocs. The BSD list also appends the empty names of zeroed slots.
* **List devices.** There are two links, one change during the dump, two socket names and three socket inodes, so a daemon can crash and restart.
* **ipc_set.** Socket inodes go up to 3, so the daemon can start twice: once before the call and once during it, or crash and restart. Requests are those of the netlink SET. In one daemon state, each peer has an allowed ip that a replacement removes.
* **OpenBSD.** The requests and initial states are those of the netlink SET, so every flag and the replace-allowed-ips case occur. The set grows, shrinks or empties the interface between the get's ioctls.
* **OpenBSD GET leak.** The initial states and changes are those of the netlink GET run, with up to two changes, so the size loop may grow twice before an allocation fails.
* **BSD list.** Two names, of one and two bytes, and up to two group changes. This reaches a group that grows, shrinks and vanishes between the ioctls.

## Fairness

* **NetlinkSet.** The client steps are weakly fair, and so is the kernel's answer: a netlink request with `NLM_F_ACK` is always answered.
* **NetlinkGet.** Only `Request`, `RecvMessage` and `RecvDone` are fair, because the kernel answers every read. Errors and other writers need not happen. `Termination` holds because writers are bounded. The code retries `EINTR` without a limit (ipc.c:919-920), so with unbounded writers the GET need not return.
* **OpenBSD.** The get's steps are weakly fair; the concurrent set need not run. `Termination` holds because there is one write (the set's single SIOCSWG). With unbounded writers the size loop need not end.
* **Other runs.** They check safety only.

## Not modelled

* **FreeBSD and WINCOMPAT backends.** Their sources (`ipc_freebsd.c` and the wincompat files) are not in this repository. The BSD interface listing in `ipc.c` is modelled (`BSDListDevices`).
* **Data.** Key hex encoding, address formatting and `getaddrinfo` are abstracted to their outcomes (valid, invalid, unresolvable, wrong family). Names are short sequences of bytes.
* **Endpoint lengths on OpenBSD.** The `sa_len` checks at 1140-1148 and 1174-1176 always pass with the endpoint and allowed-ip families modelled.
* **Dispatch payload.** `Dispatch` stops where the daemon or the kernel gets the request; what happens next is `UapiGet`, `UapiSet`, `NetlinkGet` and `NetlinkSet`.
