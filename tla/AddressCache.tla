---------------------------- MODULE AddressCache ----------------------------
(***************************************************************************)
(* csupport/cusp/my-ip-address.c: the machine's addresses, asked for again *)
(* when they are older than UPDATE_FREQ, in an array that grows by powers  *)
(* of two; and the use that cusp-icmp-recv.c makes of it.                  *)
(***************************************************************************)
EXTENDS Integers, Sequences, FiniteSets

CONSTANTS Addrs,
          UPDATE_FREQ,           \* 10 seconds in the code
          MaxTime                \* the bound on the clock

ASSUME CacheAssumption == IsFiniteSet(Addrs) /\ UPDATE_FREQ \in Nat

VARIABLES now,
          machine,               \* the addresses the machine has
          since,                 \* address -> when it last came or went
          cached_addr,           \* the addresses in the array
          room,                  \* for how many there is room
          cached_addrs,          \* how many the cache says there are
          cached_update,
          failed,                \* the last update did not complete
          lastWrite,             \* the last index written, the room there was
          answer                 \* what a caller was last given, and when

mVars == <<now, machine, since, cached_addr, room, cached_addrs, cached_update,
           failed, lastWrite, answer>>

\* A slip: the least power of two that is not below x.
pad_Exact(x) ==
    LET power[n \in 0 .. x] == IF n < 2 THEN 1
                               ELSE IF n <= power[n - 1] THEN power[n - 1]
                               ELSE 2 * power[n - 1]
    IN  IF x = -1 THEN 0 ELSE power[x]

\* The least power of two above x, and 0 for -1.
pad(x) ==
    LET power[n \in 0 .. x] == IF n = 0 THEN 1
                               ELSE IF n < power[n - 1] THEN power[n - 1]
                               ELSE 2 * power[n - 1]
    IN  IF x = -1 THEN 0 ELSE power[x]

CacheInit ==
    /\ now = UPDATE_FREQ + 1 /\ machine \in SUBSET Addrs
    /\ since = [a \in Addrs |-> 0]
    /\ cached_addr = <<>> /\ room = 0 /\ cached_addrs = -1
    /\ cached_update = 0 /\ failed = FALSE
    /\ lastWrite = [at |-> -1, room |-> 0] /\ answer = [at |-> 0, list |-> {}]
-----------------------------------------------------------------------------
tick ==
    /\ now < MaxTime
    /\ now' = now + 1
    /\ UNCHANGED <<machine, since, cached_addr, room, cached_addrs,
                   cached_update, failed, lastWrite, answer>>

\* An address comes or goes.
renumber(a) ==
    /\ machine' = IF a \in machine THEN machine \ {a} ELSE machine \cup {a}
    /\ since' = [since EXCEPT ![a] = now]
    /\ UNCHANGED <<now, cached_addr, room, cached_addrs, cached_update, failed,
                   lastWrite, answer>>

\* update_cache when the system refuses a socket, memory for the list, or the
\* list: the cache is as it was.
UpdateFails ==
    /\ failed' = TRUE
    /\ UNCHANGED <<cached_addr, room, cached_addrs, lastWrite>>

\* update_cache: room is made for each address after the last was written,
\* and when there is none the list ends before it.
Update ==
    \E order \in [1 .. Cardinality(machine) -> machine] :
        /\ {order[k] : k \in DOMAIN order} = machine
        /\ \E n \in 0 .. Len(order) :
              /\ cached_addr' = SubSeq(order, 1, n)
              /\ room' = pad(n) /\ cached_addrs' = n
              /\ failed' = (n < Len(order))
              /\ lastWrite' = IF n < Len(order) THEN [at |-> n, room |-> pad(n)]
                            ELSE IF n = 0 THEN lastWrite
                            ELSE [at |-> n - 1, room |-> pad(n - 1)]

\* A slip: the list is asked for again when it is twice as old.
cusp_my_addresses_Late ==
    /\ IF cached_update + 2 * UPDATE_FREQ < now
       THEN (Update \/ UpdateFails) /\ cached_update' = now
       ELSE UNCHANGED <<cached_addr, room, cached_addrs, cached_update, failed,
                        lastWrite>>
    /\ answer' = [at |-> now,
                  list |-> {cached_addr'[k] : k \in 1 .. cached_addrs'}]
    /\ UNCHANGED <<now, machine, since>>

\* The list is asked for again when it is too old.  Also a failure counts as
\* an update.  (cusp_is_my_address and the receiver of ICMP errors, which
\* prints those whose UDP packet came from this machine, look in the answer.)
cusp_my_addresses ==
    /\ IF cached_update + UPDATE_FREQ < now
       THEN (Update \/ UpdateFails) /\ cached_update' = now
       ELSE UNCHANGED <<cached_addr, room, cached_addrs, cached_update, failed,
                        lastWrite>>
    /\ answer' = [at |-> now,
                  list |-> {cached_addr'[k] : k \in 1 .. cached_addrs'}]
    /\ UNCHANGED <<now, machine, since>>

CacheNext ==
    \/ tick
    \/ \E a \in Addrs : renumber(a)
    \/ cusp_my_addresses

CacheSpec == CacheInit /\ [][CacheNext]_mVars
-----------------------------------------------------------------------------
(***************************************************************************)
(* No address is written behind the array, and the array has room for what *)
(* the cache says it holds, also after it shrank or could not grow.        *)
(***************************************************************************)
WithinArray ==
    /\ lastWrite.at < lastWrite.room \/ lastWrite.at = -1
    /\ Len(cached_addr) = cached_addrs \/ cached_addrs = -1
    /\ room >= cached_addrs

(***************************************************************************)
(* "Never return an address list older than 10 seconds": an address that   *)
(* has been there, or gone, for longer than that is, or is not, in the     *)
(* answer; unless the last update failed, which keeps the old list.        *)
(***************************************************************************)
AnswerFresh ==
    answer.at = now /\ ~failed =>
        \A a \in Addrs : since[a] + UPDATE_FREQ < now =>
            (a \in answer.list <=> a \in machine)

\* The addresses fit the array, and an answer is not older than it may be.
AddressesHold == WithinArray /\ AnswerFresh
=============================================================================
