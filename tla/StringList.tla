---------------------------- MODULE StringList -----------------------------
(***************************************************************************)
(* struct string_list and string_list_add (src/src/ipc.c 51-80): the      *)
(* growable buffer ipc_list_devices returns, "first\0second\0...\0\0".     *)
(* The buffer is modelled byte by byte: Len(buffer) is the allocation      *)
(* (list->cap), bytes are "c" (a name character), "0" (NUL) or "?" (not   *)
(* yet written).  A write outside the allocation sets `overflow`.          *)
(***************************************************************************)
EXTENDS Integers, Sequences, SequencesExt

CONSTANTS
  Names,    \* the strings callers add, as sequences of "c"
  MaxAdds   \* bound on the number of calls

ENOMEM == 12

VARIABLES
  buffer,    \* list->buffer, Len(buffer) bytes allocated
  len,       \* list->len
  cap,       \* list->cap
  added,     \* history: the names added successfully, empty ones skipped
  calls,     \* number of calls made
  ret,       \* the last call's return value
  overflow   \* a byte was written outside the allocation

vars == <<buffer, len, cap, added, calls, ret, overflow>>

\* buf with bytes written from C offset `at` on (byte k is buf[k + 1]);
\* bytes past the allocation are lost (and flagged by the caller).
WriteAt(buf, at, bytes) ==
  [i \in DOMAIN buf |-> IF i - at \in DOMAIN bytes THEN bytes[i - at] ELSE buf[i]]

\* Mutant: an empty string is appended too.
SkipsNever(n) == FALSE

\* `if (len == 1) return 0;` (ipc.c 61-62): n counts the NUL.
Skips(n) == n = 1

\* Mutant: grows only when the string and its NUL exceed the room left.
GrowsStrict(l, n) == n > l.cap - l.len

\* The string, its NUL and the final NUL need more than the room left
\* (ipc.c 64).
Grows(l, n) == n >= l.cap - l.len

\* new_cap (ipc.c 66-69).
NewCap(l, n) == IF l.cap * 2 < l.len + n + 1 THEN l.len + n + 1 ELSE l.cap * 2

\* Mutant: list->cap set before realloc is known to have succeeded.
ReallocFailsCapFirst(l, c) == [l EXCEPT !.ret = -ENOMEM, !.cap = c]

\* realloc fails: the list is left as it was (ipc.c 70-72).
ReallocFails(l, c) == [l EXCEPT !.ret = -ENOMEM]

\* The outcomes of string_list_add(l, str) (ipc.c 57-80), a set since
\* realloc may fail: memcpy of the string and its NUL at list->len, then
\* list->len += len and buffer[list->len] = NUL.
Add(l, str) ==
  LET n == Len(str) + 1
      copied(b, c) ==
        [buffer   |-> WriteAt(WriteAt(b, l.len, str \o <<"0">>), l.len + n, <<"0">>),
         len      |-> l.len + n,
         cap      |-> c,
         ret      |-> 0,
         overflow |-> l.overflow \/ l.len + n >= c]
      c == NewCap(l, n)
  IN IF Skips(n) THEN {[l EXCEPT !.ret = 0]}
     ELSE IF ~Grows(l, n) THEN {copied(l.buffer, l.cap)}
     ELSE {copied(l.buffer \o [i \in 1..(c - l.cap) |-> "?"], c), ReallocFails(l, c)}

-----------------------------------------------------------------------------

List == [buffer |-> buffer, len |-> len, cap |-> cap, ret |-> ret, overflow |-> overflow]

\* struct string_list list = { 0 } (ipc.c 1196, ipc_list_devices).
Init ==
  /\ buffer = <<>>
  /\ len = 0
  /\ cap = 0
  /\ added = <<>>
  /\ calls = 0
  /\ ret = 0
  /\ overflow = FALSE

\* A call string_list_add(&list, s).
AddName ==
  /\ calls < MaxAdds
  /\ \E s \in Names : \E r \in Add(List, s) :
       /\ buffer' = r.buffer /\ len' = r.len /\ cap' = r.cap
       /\ ret' = r.ret /\ overflow' = r.overflow
       /\ added' = IF r.ret = 0 /\ s # <<>> THEN Append(added, s) ELSE added
  /\ calls' = calls + 1

Spec == Init /\ [][AddName]_vars

-----------------------------------------------------------------------------
(* Properties.                                                              *)

TypeOK ==
  /\ buffer \in Seq({"c", "0", "?"})
  /\ cap = Len(buffer)
  /\ len \in Nat
  /\ ret \in {0, -ENOMEM}

(* Every byte string_list_add writes, the NUL after the last name included, *)
(* lies inside the allocation, whatever the sequence of lengths added and   *)
(* however the capacity grew.                                              *)
WriteInBounds == ~overflow

(* The buffer holds "first\0second\0...\0\0": every non-empty name added  *)
(* successfully, in order, each with its NUL, then one more NUL; a failed  *)
(* realloc leaves what was there.                                          *)
BufferHoldsNames ==
  cap > 0 =>
    SubSeq(buffer, 1, len + 1)
      = FlattenSeq([i \in DOMAIN added |-> added[i] \o <<"0">>]) \o <<"0">>
====
