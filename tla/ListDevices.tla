---------------------------- MODULE ListDevices ----------------------------
(***************************************************************************)
(* ipc_list_devices (src/src/ipc.c 1194-1215) on Linux: the names of the   *)
(* kernel's WireGuard links from an RTM_GETLINK dump                       *)
(* (kernel_get_wireguard_interfaces, 479-546), then the names of the live *)
(* userspace sockets in the socket directory                               *)
(* (userspace_get_wireguard_interfaces and                                 *)
(* userspace_has_wireguard_interface, 127-182), appended to one            *)
(* string_list (StringList).                                               *)
(*                                                                         *)
(* Environment: other processes add and remove kernel links, and           *)
(* userspace daemons start (creating a fresh socket file), crash (leaving  *)
(* it behind) and stop (removing it).  A socket file is an inode number,   *)
(* 0 for none; a daemon listens on the inode it created, 0 when down.     *)
(***************************************************************************)
EXTENDS Integers, Sequences, SequencesExt, FiniteSets

CONSTANTS
  KNames,       \* names of kernel links
  UNames,       \* names in the socket directory
  NameBytes,    \* NameBytes[n]: the name as a sequence of "c"
  MaxChanges,   \* bound on kernel link changes
  MaxInode,     \* bound on socket files created (daemon starts)
  KernelErrors, \* errno values of socket, bind, send and recv failures
  DirErrors     \* errno values opendir may fail with besides ENOENT

ENOENT == 2
ENOMEM == 12
EMFILE == 24
ECONNREFUSED == 111

VARIABLES
  pc,        \* "kopen", "krecv", "uopen", "uentry", "ustat", "uconnect",
             \* "uunlink", "uadd", "done"
  links,     \* the kernel's WireGuard links
  kgen,      \* bumped by every link change (the dump's sequence number)
  kgen0,     \* history: kgen when the dump was requested
  kpos,      \* the dump's cursor: links already sent
  kprev,     \* generation of the previous dump message, -1 before the first
  file,      \* file[n]: inode of n.sock, 0 for none
  daemon,    \* daemon[n]: inode the daemon for n listens on, 0 when down
  inodes,    \* socket files created so far
  stable,    \* history: daemons up, on their file, since the scan began
  skipped,   \* history: names whose probe's socket() failed
  cursor,    \* readdir position in UOrder
  errno,     \* errno
  list,      \* the string_list (a StringList record)
  listed,    \* history: the names added to it
  klinks,    \* history: the kernel's links when the dump ended
  kgen1,     \* history: kgen when the dump ended, -1 before
  ret

vars == <<pc, links, kgen, kgen0, kpos, kprev, file, daemon, inodes, stable, skipped,
          cursor, errno, list, listed, klinks, kgen1, ret>>

SL == INSTANCE StringList WITH Names <- {}, MaxAdds <- 0,
        buffer <- list.buffer, len <- list.len, cap <- list.cap,
        added <- [k \in DOMAIN listed |-> NameBytes[listed[k]]],
        calls <- 0, ret <- list.ret, overflow <- list.overflow

UOrder    == SetToSeq(UNames)     \* the directory's readdir order
KOrder(l) == SetToSeq(l)          \* the kernel's dump order

Cand == UOrder[cursor]

\* Append name n to the list: the outcomes of string_list_add.
AddName(n, next) ==
  \E r \in SL!Add(list, NameBytes[n]) :
    /\ list' = r
    /\ IF r.ret < 0 THEN pc' = "done" /\ ret' = r.ret /\ UNCHANGED listed
       ELSE pc' = next /\ listed' = Append(listed, n) /\ UNCHANGED ret

-----------------------------------------------------------------------------
(* kernel_get_wireguard_interfaces (ipc.c 479-546).                        *)

Init ==
  /\ pc = "kopen"
  /\ links \in SUBSET KNames
  /\ kgen = 0 /\ kgen0 = 0
  /\ kpos = 0 /\ kprev = -1
  /\ file \in [UNames -> {0, 1}]
  /\ daemon \in {d \in [UNames -> {0, 1}] : \A n \in UNames : d[n] # 0 => file[n] = d[n]}
  /\ inodes = 1
  /\ stable = {}
  /\ skipped = {}
  /\ cursor = 1
  /\ errno = 0
  /\ list = [buffer |-> <<>>, len |-> 0, cap |-> 0, ret |-> 0, overflow |-> FALSE]
  /\ listed = <<>>
  /\ klinks = {}
  /\ kgen1 = -1
  /\ ret = 0

\* calloc, mnl_socket_open, bind, sendto of the RTM_GETLINK dump request
\* (ipc.c 488-522); a failure goes to cleanup with ret = -errno.
KOpen ==
  /\ pc = "kopen"
  /\ \/ pc' = "krecv" /\ kgen0' = kgen /\ UNCHANGED ret
     \/ \E e \in KernelErrors \cup {ENOMEM} : pc' = "done" /\ ret' = -e /\ UNCHANGED kgen0
  /\ UNCHANGED <<links, kgen, kpos, kprev, file, daemon, inodes, stable, skipped, cursor,
                 errno, list, listed, klinks, kgen1>>

\* Mutant: every message after the first is taken as interrupted.
InterruptedAfterFirst == kprev # -1

\* The message belongs to another generation of the dump than the previous
\* one: the kernel flags it NLM_F_DUMP_INTR.
Interrupted == kprev # -1 /\ kprev # kgen

\* The dump ends: remember what the kernel had, go on to the sockets.
KEnd == pc' = "uopen" /\ klinks' = links /\ kgen1' = kgen

\* another: mnl_socket_recvfrom and mnl_cb_run with read_devices_cb
\* (ipc.c 460-477, 524-545).  A failed read ends the call with -errno.  A
\* message flagged NLM_F_DUMP_INTR makes mnl_cb_run fail with EINTR, which
\* is ignored: the names read so far are kept and the dump is not read
\* further.  NLMSG_DONE ends the dump.  Otherwise the link's name is added
\* (when its kind is "wireguard") and the next message read.
KRecv ==
  /\ pc = "krecv"
  /\ \/ \E e \in KernelErrors :
          pc' = "done" /\ ret' = -e /\ UNCHANGED <<kpos, kprev, errno, list, listed, klinks, kgen1>>
     \/ /\ Interrupted \/ kpos >= Len(KOrder(links))
        /\ KEnd
        /\ errno' = IF Interrupted THEN 4 ELSE errno      \* EINTR
        /\ UNCHANGED <<kpos, kprev, list, listed, ret>>
     \/ /\ ~Interrupted /\ kpos < Len(KOrder(links))
        /\ kpos' = kpos + 1 /\ kprev' = kgen
        /\ AddName(KOrder(links)[kpos + 1], "krecv")
        /\ UNCHANGED <<errno, klinks, kgen1>>
  /\ UNCHANGED <<links, kgen, kgen0, file, daemon, inodes, stable, skipped, cursor>>

-----------------------------------------------------------------------------
(* userspace_get_wireguard_interfaces (ipc.c 154-182) with                 *)
(* userspace_has_wireguard_interface (127-152) for each entry.             *)

UProbe  == UNCHANGED <<links, kgen, kgen0, kpos, kprev, daemon, inodes, klinks, kgen1>>
USteady == UProbe /\ UNCHANGED skipped

\* opendir(SOCK_PATH): a missing directory means no interfaces (ipc.c 162-164).
UOpen ==
  /\ pc = "uopen"
  /\ \/ pc' = "uentry"
        /\ stable' = {n \in UNames : daemon[n] # 0 /\ file[n] = daemon[n]}
        /\ UNCHANGED ret
     \/ pc' = "done" /\ ret' = 0 /\ UNCHANGED stable           \* ENOENT
     \/ \E e \in DirErrors : pc' = "done" /\ ret' = -e /\ UNCHANGED stable
  /\ UNCHANGED <<file, cursor, errno, list, listed>>
  /\ USteady

\* readdir: the next entry, skipped when its file is gone; at the end,
\* closedir and return ret (ipc.c 165-172, 179-181).
UEntry ==
  /\ pc = "uentry"
  /\ IF cursor > Len(UOrder) THEN pc' = "done" /\ UNCHANGED cursor
     ELSE IF file[Cand] = 0 THEN cursor' = cursor + 1 /\ UNCHANGED pc
     ELSE pc' = "ustat" /\ UNCHANGED cursor
  /\ UNCHANGED <<file, stable, errno, list, listed, ret>>
  /\ USteady

\* stat and S_ISSOCK: an entry whose file has gone is not an interface
\* (ipc.c 137-140).
UStat ==
  /\ pc = "ustat"
  /\ IF file[Cand] = 0 THEN pc' = "uentry" /\ cursor' = cursor + 1
     ELSE pc' = "uconnect" /\ UNCHANGED cursor
  /\ UNCHANGED <<file, stable, errno, list, listed, ret>>
  /\ USteady

Listening(n) == daemon[n] # 0 /\ daemon[n] = file[n]

\* socket() fails: `return false`, the entry is not listed and the scan
\* goes on (ipc.c 141-143, 172-173).
SocketFails ==
  /\ pc' = "uentry" /\ cursor' = cursor + 1 /\ errno' = EMFILE
  /\ skipped' = skipped \cup {Cand}

\* Mutant: `errno == ECONNREFUSED` tested without `ret < 0`.
UConnectErrnoOnly ==
  /\ pc = "uconnect"
  /\ \/ /\ CASE Listening(Cand) -> /\ pc' = (IF errno = ECONNREFUSED THEN "uunlink" ELSE "uadd")
                                    /\ UNCHANGED errno
             [] file[Cand] # 0  -> pc' = "uunlink" /\ errno' = ECONNREFUSED
             [] OTHER           -> pc' = "uadd" /\ errno' = ENOENT
        /\ UNCHANGED <<cursor, skipped>>
     \/ SocketFails
  /\ UNCHANGED <<file, stable, list, listed, ret>>
  /\ UProbe

\* socket, then connect: success, or ECONNREFUSED (no listener: clean up
\* the socket), or another error, e.g. ENOENT when the file went away
\* since stat, which counts as an interface (ipc.c 141-151).
UConnect ==
  /\ pc = "uconnect"
  /\ \/ /\ CASE Listening(Cand) -> pc' = "uadd" /\ UNCHANGED errno
             [] file[Cand] # 0  -> pc' = "uunlink" /\ errno' = ECONNREFUSED
             [] OTHER           -> pc' = "uadd" /\ errno' = ENOENT
        /\ UNCHANGED <<cursor, skipped>>
     \/ SocketFails
  /\ UNCHANGED <<file, stable, list, listed, ret>>
  /\ UProbe

\* unlink(addr.sun_path): removes whatever file has the name now
\* (ipc.c 146-148).
UUnlink ==
  /\ pc = "uunlink"
  /\ file' = [file EXCEPT ![Cand] = 0]
  /\ pc' = "uentry"
  /\ cursor' = cursor + 1
  /\ UNCHANGED <<stable, errno, list, listed, ret>>
  /\ USteady

\* string_list_add of the name; a failure ends the scan (ipc.c 175-177).
UAdd ==
  /\ pc = "uadd"
  /\ AddName(Cand, "uentry")
  /\ cursor' = cursor + 1
  /\ UNCHANGED <<file, stable, errno>>
  /\ USteady

Client == KOpen \/ KRecv \/ UOpen \/ UEntry \/ UStat \/ UConnect \/ UUnlink \/ UAdd

-----------------------------------------------------------------------------
(* Environment.                                                            *)

KSteady == UNCHANGED <<pc, kgen0, kpos, kprev, cursor, errno, list, listed, klinks, kgen1, ret,
                       skipped>>

\* Another process adds or deletes a WireGuard link.
LinkChange ==
  /\ kgen < MaxChanges
  /\ \E n \in KNames : links' = IF n \in links THEN links \ {n} ELSE links \cup {n}
  /\ kgen' = kgen + 1
  /\ UNCHANGED <<file, daemon, inodes, stable>>
  /\ KSteady

\* A daemon starts: it replaces any file at its path by a new socket and
\* listens on it.
DaemonStart(n) ==
  /\ daemon[n] = 0
  /\ inodes < MaxInode
  /\ inodes' = inodes + 1
  /\ file' = [file EXCEPT ![n] = inodes + 1]
  /\ daemon' = [daemon EXCEPT ![n] = inodes + 1]
  /\ stable' = stable \ {n}
  /\ UNCHANGED <<links, kgen>>
  /\ KSteady

\* A daemon dies and leaves its socket file behind.
DaemonCrash(n) ==
  /\ daemon[n] # 0
  /\ daemon' = [daemon EXCEPT ![n] = 0]
  /\ stable' = stable \ {n}
  /\ UNCHANGED <<links, kgen, file, inodes>>
  /\ KSteady

\* A daemon shuts down and removes its socket file.
DaemonStop(n) ==
  /\ daemon[n] # 0
  /\ daemon' = [daemon EXCEPT ![n] = 0]
  /\ file' = [file EXCEPT ![n] = 0]
  /\ stable' = stable \ {n}
  /\ UNCHANGED <<links, kgen, inodes>>
  /\ KSteady

Environment ==
  LinkChange \/ \E n \in UNames : DaemonStart(n) \/ DaemonCrash(n) \/ DaemonStop(n)

Next == Client \/ Environment

Spec == Init /\ [][Next]_vars

-----------------------------------------------------------------------------
(* Properties.                                                              *)

TypeOK ==
  /\ pc \in {"kopen", "krecv", "uopen", "uentry", "ustat", "uconnect", "uunlink", "uadd", "done"}
  /\ links \subseteq KNames
  /\ file \in [UNames -> 0..MaxInode]
  /\ daemon \in [UNames -> 0..MaxInode]
  /\ cursor \in 1..(Len(UOrder) + 1)
  /\ list.cap = Len(list.buffer)
  /\ ret \in Int

(* A dump that no link change interrupted lists every WireGuard link the  *)
(* kernel has: the partial results kept on NLM_F_DUMP_INTR are the only   *)
(* way to miss one.                                                        *)
KernelCompleteWhenQuiet ==
  (pc = "done" /\ ret = 0 /\ kgen1 = kgen0) => klinks \subseteq ToSet(listed)

(* A daemon that is up, listening on the socket file at its path, from the *)
(* start of the directory scan to its end is listed, whatever the stale    *)
(* sockets of other interfaces met before it did to errno, unless the      *)
(* probe's socket() failed: userspace_has_wireguard_interface returns      *)
(* false and the scan goes on with ret 0 (ipc.c 141-143, 172-173).         *)
LiveDaemonListed ==
  (pc = "done" /\ ret = 0) => stable \ skipped \subseteq ToSet(listed)

(* string_list_add never writes past the buffer it allocated, whatever   *)
(* the lengths of the kernel and socket names the scan appends, in order. *)
ListWriteInBounds == SL!WriteInBounds

(* Cleaning up a stale socket never removes a live one: the socket file of *)
(* a daemon that is up stays at its path.  The code unlinks by name after  *)
(* a refused connect (ipc.c 109-110, 145-147); a daemon that restarted in  *)
(* between has put its new socket there.                                   *)
NoLiveSocketUnlinked == \A n \in UNames : daemon[n] # 0 => file[n] = daemon[n]
====
