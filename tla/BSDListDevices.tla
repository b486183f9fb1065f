--------------------------- MODULE BSDListDevices ---------------------------
(***************************************************************************)
(* kernel_get_wireguard_interfaces on OpenBSD and FreeBSD                  *)
(* (src/src/ipc.c 937-966): the members of interface group "wg" from two   *)
(* SIOCGIFGMEMB ioctls, a size query and a copy into a calloc'd array of   *)
(* struct ifg_req, appended to the string_list (StringList).               *)
(*                                                                         *)
(* Environment: interfaces join and leave the group between the ioctls.   *)
(* SIOCGIFGMEMB with ifgr_len = 0 sets ifgr_len to the size needed;        *)
(* otherwise it copies the members, failing with EINVAL when one does not  *)
(* fit, and leaves ifgr_len as given; a group with no member does not      *)
(* exist (ENOENT).  Sizes are counted in struct ifg_req.                   *)
(***************************************************************************)
EXTENDS Integers, Sequences, SequencesExt, FiniteSets

CONSTANTS
  Names,       \* interface names that may be in the group
  Empty,       \* the name read from a zeroed struct ifg_req: ""
  NameBytes,   \* NameBytes[n]: the name as a sequence of "c"
  MaxChanges,  \* bound on group changes
  Errors       \* errno values of socket and ioctl failures

ENOENT == 2
ENOMEM == 12
EINVAL == 22

VARIABLES
  pc,        \* "socket", "size", "alloc", "copy", "member", "done"
  group,     \* the members of group "wg"
  changes,
  len,       \* ifgr.ifgr_len
  slots,     \* ifgr.ifgr_groups: the member name in each struct ifg_req
  idx,       \* ifg: index of the next slot
  list,      \* the string_list (a StringList record)
  listed,    \* history: the names added to it
  copied,    \* history: the group the copy was made of
  ret

vars == <<pc, group, changes, len, slots, idx, list, listed, copied, ret>>

\* The names string_list_add kept: zeroed slots are skipped.
Kept(l) == SelectSeq(l, LAMBDA n : n # Empty)

SL == INSTANCE StringList WITH Names <- {}, MaxAdds <- 0,
        buffer <- list.buffer, len <- list.len, cap <- list.cap,
        added <- [k \in DOMAIN Kept(listed) |-> NameBytes[Kept(listed)[k]]],
        calls <- 0, ret <- list.ret, overflow <- list.overflow

Init ==
  /\ pc = "socket"
  /\ group \in SUBSET Names
  /\ changes = 0
  /\ len = 0 /\ slots = <<>> /\ idx = 1
  /\ list = [buffer |-> <<>>, len |-> 0, cap |-> 0, ret |-> 0, overflow |-> FALSE]
  /\ listed = <<>> /\ copied = {}
  /\ ret = 0

Done(code) == pc' = "done" /\ ret' = code

Fault(s) == \E e \in Errors : Done(-e) /\ UNCHANGED s

\* get_dgram_socket (ipc.c 941-944).
Socket ==
  /\ pc = "socket"
  /\ \/ pc' = "size" /\ UNCHANGED ret
     \/ Fault(<<>>)
  /\ UNCHANGED <<group, changes, len, slots, idx, list, listed, copied>>

\* The size query; no group means no interfaces (ipc.c 946-947).
Size ==
  /\ pc = "size"
  /\ \/ group = {} /\ Done(0) /\ UNCHANGED len
     \/ group # {} /\ len' = Cardinality(group) /\ pc' = "alloc" /\ UNCHANGED ret
     \/ Fault(len)
  /\ UNCHANGED <<group, changes, slots, idx, list, listed, copied>>

\* Mutant: malloc, the slots hold whatever the heap held.
AllocSlotsGarbage(n) == [k \in 1..n |-> CHOOSE g \in Names : TRUE]

\* calloc(1, ifgr_len): every struct ifg_req zeroed (ipc.c 949).
AllocSlots(n) == [k \in 1..n |-> Empty]

\* calloc (ipc.c 949-951).
Alloc ==
  /\ pc = "alloc"
  /\ \/ slots' = AllocSlots(len) /\ pc' = "copy" /\ UNCHANGED ret
     \/ Done(-ENOMEM) /\ UNCHANGED slots
  /\ UNCHANGED <<group, changes, len, idx, list, listed, copied>>

\* The copy; an error goes to out (ipc.c 952-955).
Copy ==
  /\ pc = "copy"
  /\ \/ group = {} /\ Done(-ENOENT) /\ UNCHANGED <<slots, copied>>
     \/ Cardinality(group) > len /\ Done(-EINVAL) /\ UNCHANGED <<slots, copied>>
     \/ /\ group # {} /\ Cardinality(group) <= len
        /\ slots' = [k \in 1..len |-> IF k <= Cardinality(group) THEN SetToSeq(group)[k]
                                      ELSE slots[k]]
        /\ copied' = group /\ pc' = "member" /\ UNCHANGED ret
     \/ Fault(<<slots, copied>>)
  /\ UNCHANGED <<group, changes, len, idx, list, listed>>

\* One turn of `for (ifg = ...; ifg && ifgr.ifgr_len > 0; ++ifg)`, or its
\* end at out (ipc.c 957-965).
Member ==
  /\ pc = "member"
  /\ IF len = 0
     THEN Done(0) /\ UNCHANGED <<len, idx, list, listed>>
     ELSE /\ len' = len - 1 /\ idx' = idx + 1
          /\ \E r \in SL!Add(list, NameBytes[slots[idx]]) :
               /\ list' = r
               /\ IF r.ret < 0 THEN Done(r.ret) /\ UNCHANGED listed
                  ELSE listed' = Append(listed, slots[idx]) /\ UNCHANGED <<pc, ret>>
  /\ UNCHANGED <<group, changes, slots, copied>>

\* An interface joins or leaves group "wg".
GroupChange ==
  /\ changes < MaxChanges
  /\ \E n \in Names : group' = IF n \in group THEN group \ {n} ELSE group \cup {n}
  /\ changes' = changes + 1
  /\ UNCHANGED <<pc, len, slots, idx, list, listed, copied, ret>>

Next == Socket \/ Size \/ Alloc \/ Copy \/ Member \/ GroupChange

Spec == Init /\ [][Next]_vars

-----------------------------------------------------------------------------

TypeOK ==
  /\ pc \in {"socket", "size", "alloc", "copy", "member", "done"}
  /\ group \subseteq Names
  /\ slots \in Seq(Names \cup {Empty})
  /\ list.cap = Len(list.buffer)

(* A successful call lists each member of the group as one SIOCGIFGMEMB   *)
(* copied it, once, and nothing else, even when the group shrank since    *)
(* the size query and the array has zeroed slots left over.                *)
ListedIsCopy ==
  (pc = "done" /\ ret = 0) =>
    /\ ToSet(listed) \ {Empty} = copied
    /\ Len(Kept(listed)) = Cardinality(copied)

(* The list returned is "first\0second\0...\0\0": each member's name     *)
(* and its NUL, the empty names of zeroed slots leaving no trace, then     *)
(* the final NUL (string_list_add's `len == 1` skip, ipc.c 61-62).        *)
ListHoldsNames == SL!BufferHoldsNames
=============================================================================
