# Verification of workqueue

`src/` is a C library: a message queue between threads, a queue between
processes, a router of "hosts" (threads that own a queue each) built on the
first, and the portability layer and containers they need. This directory holds
TLA+ models of it, the TLC configurations that check them, and proofs checked by
TLAPS.

## 1. The system

| component | source | state it keeps | operations |
|---|---|---|---|
| local work queue | `WQ.c`, `_WQ.h` | ring of slots (message, SIGNALED and SEMA_ACK flags, ack semaphore), head and tail cursor, `reader` and `writer` semaphores, mutex `q_sync` | `WQ_open`, `WQ_send`, `WQ_recv`, `WQ_close` |
| platform primitives | `Platform.c`, `Sema.c`, `Cs.c`, `Shared.c`, `BackGround.c` | semaphores, mutexes, shared memory, threads of the operating system | create, lock, unlock, close |
| router and hosts | `NetGroup.c` | list of hosts, routing table, per host: queue, thread, user callbacks | router create/delete, unicast, broadcast, multicast, connect, disconnect, join, drop |
| host alarms | `NetGroup.c` | per host a linked list of alarms | start, end, the scheduler called before every wait |
| message server | `NetGroup.c` | receive buffer, its cursor, the cast indexer | the select/recvfrom/decode/cast loop |
| sending of datagrams | `NetGroup.c` | per address a socket, an encoding buffer and a mutex, in a list | `NetGroup_router_send_message` |
| interprocess queue | `WQIpc.c` | the same ring in shared memory, named semaphores, open/close state | open, send, owner_recv, threshold, close |
| smart pointers | `Sp.c` | list of reference-counted blocks | malloc, ref, unref, unused |
| dictionary | `Utils.c` | list of key/value pairs | add, get, set, remove, delete |
| containers | `ds.c` | links of list, double list, stack, queue, tree | insert, remove, walk |
| conversions | `language.c` | none (pure functions) | UTF-8/16/32 transcoding, hexadecimal |
| test heap | `Heap.c` | list of guarded blocks | malloc, free, report of leaks |
| debug output | `debug.c` | list of sinks | print, dump |

Interactions. A host's thread runs `host_start_routine`: compute the time to
the next alarm, `WQ_recv` with that time, and hand the message to a callback,
which may send to other hosts from inside (`WQ_send` with INFINITE). So hosts
are connected by bounded queues, a full queue stops its senders, and a host is
at once the only receiver of its own queue and a sender to the others. Other
threads (the message server, the thread that deletes the router, the user's)
send into the same queues. `host_cleanup` joins a host's thread and then calls
`WQ_close`, which drains the queue with `WQ_recv` itself.

What is hard. Everything of interest is in the gaps between a semaphore
operation and a critical section: a sender that has a slot but has not copied
its message, one that has copied and not posted, a receiver that has dropped a
message and not given its slot back, a sender that waits for an acknowledgement
on a slot that has meanwhile been reused. `hazards` in `PROJECT.json` lists
these places line by line, with the properties that guard them, or why none does. The smaller parts
are hard in another way: their functions are called in orders that no one has
tried, and what they leave behind (a link in an element that was removed, a mark, a
byte in a buffer, a page that is not yet protected) is found by a later call.

What makes each component correct:

  - work queue: FIFO, exactly once; the message being read in place is not
    overwritten; no slot, wakeup or acknowledgement is lost; a blocking send
    returns after its message was handled; every send returns while the receiver
    receives; closing leaves no message behind that was posted.
  - hosts: a message reaches exactly the hosts it is addressed to, and the callback of
    its cast; every host ends, is joined and its queue freed before the router
    is; hosts that send to each other do not wait on each other for ever.
  - alarms: an alarm is called at its time, once or repeatedly, never after
    `alarm_end`; the list stays a list.
  - message server: the decoder sees every byte once and in order; what it makes of a
    datagram goes to the hosts it marks.
  - sending: a call sends its own message, whole, to its address, and says if not.
  - interprocess queue: as the work queue, with a reply, and with processes
    that come and go; opening never leaves the mutex held.
  - smart pointers: a block is freed exactly when its last reference goes.
  - dictionary, containers: they implement a map, a sequence, a stack, a queue.
  - conversions: decoding what was encoded gives the text back.
  - test heap: the list holds the blocks in use, and the process ends only for a
    mistake of its user's.

## 2. Modules

| module | models | extends |
|---|---|---|
| `Platform` | outcomes of a wait on a semaphore (`Platform_semaphore_lock`) | |
| `BoundedFifo` | what a local work queue promises: a bounded FIFO whose consumer reads the oldest message in place | |
| `WorkQueue` | `WQ.c` step by step, its properties, and the refinement mapping to `BoundedFifo` | `Platform` |
| `MCWorkQueue` | the small instances for TLC | `WorkQueue` |
| `WorkQueueProofs` | proofs: the inductive invariant, the ring, the acknowledgements and their exchange; `WorkQueue` implements `BoundedFifo` | `WorkQueue` |
| `Hosts` | the router of `NetGroup.c`: host threads, their callbacks' sends, the message server's casts, the thread that creates and deletes the router; its properties | `Platform`, instances of `BoundedFifo` |
| `MCHosts` | the small instances for TLC | `Hosts` |
| `HostsProofs` | proofs: types, and what holds of the single threads; a host ends only when it was told to; every host uses its queue as `BoundedFifo` allows; acknowledgements between hosts; broadcasts | `Hosts` |
| `IpcQueue` | `WQIpc.c` over the named semaphores and shared memory of `Platform.c`; its properties | `Platform` |
| `MCIpcQueue` | the small instances for TLC | `IpcQueue` |
| `IpcQueueProofs` | proofs of its safety properties | `IpcQueue` |
| `MessageServer` | the loop of the message server: its buffer, the marks, the casts; its properties | |
| `SendMessage` | `NetGroup_router_send_message`, by several threads | |
| `Links` | lists made of pointers: what a loop over one meets, circles, unlinking | |
| `LinkProofs` | lemmas about them | `Links` |
| `Alarms` | `alarm_start`, `alarm_end` and `alarm_schdule` of one host | `Links` |
| `NetGroupProofs` | proofs: message server, senders and alarms | `MessageServer`, `SendMessage`, `Alarms`, `LinkProofs` |
| `Heap` | the test heap of `Heap.c` | `Links` |
| `SmartPointer` | the counted blocks of `Sp.c` | `Links` |
| `MemoryProofs` | proofs: test heap and counted blocks | `Heap`, `SmartPointer`, `LinkProofs` |
| `KeyMap` | what a dictionary promises: a map that keeps the first value of a key | |
| `Dictionary` | the dictionary of `Utils.c`, and the refinement mapping to `KeyMap` | `Links`, an instance of `KeyMap` |
| `Chains` | list, double list, stack and queue of `ds.c` | `Links` |
| `Tree` | the tree of `ds.c` | `Links` |
| `ContainerProofs` | proofs: dictionary, chains and tree | `Dictionary`, `Chains`, `Tree`, `LinkProofs` |
| `Transcode` | the conversions of `language.c` | |
| `TranscodeProofs` | proofs: what the conversions keep of any text | `Transcode`, `LinkProofs` |
| `MCParts` | the last nine parts for TLC, one at a time | all of them |

### Reading `WorkQueue` beside `WQ.c`

State. `head_cursor`, `tail_cursor` are the fields of `struct WQ`; `par`,
`signaled`, `sema_ack` are per slot its buffer and the two bits of `flags`;
`reader`, `writer` and `ack[i]` are the counts of the semaphores. `spc[s]` and
`rpc` say where a thread is in `WQ_send` and `WQ_recv`; `stime`, `sblock`,
`ack_sema`, `rtime` are the arguments and locals that survive a step. `life`
is where `WQ_close` is. `sent`, `got`, `released` are history: the messages in
the order of the copies, the messages handed out, and how many were dropped.
They influence nothing.

Steps. Between two semaphore operations a thread does nothing but one critical
section on `q_sync`. A critical section contains no wait and all of the ring is
accessed inside one, so it is one action, and every semaphore operation is
another:

| action | code |
|---|---|
| `SendCall` | entry of `WQ_send`, up to the wait |
| `SendLockWriter`, `SendRefused` | `SEMA_lock(writer, time)` that takes a count; that fails |
| `SendEnqueue` | the critical section: copy, flag, advance the tail |
| `SendPost` | `SEMA_unlock(reader)` |
| `SendAck` | `SEMA_lock(ack, INFINITE)` |
| `RecvNothingHeld`, `RecvRelease` | first critical section of `WQ_recv`, without and with a message held |
| `RecvFree` | `SEMA_unlock(writer)` |
| `RecvLockReader`, `RecvRefused` | `SEMA_lock(reader, time)` that takes a count; that fails |
| `RecvTake` | second critical section: hand out the head |
| `Close`, `ResourceFree` | `WQ_close`: the drain runs the receiver's own actions with a finite time |

A message is its sender and the number of its call, which tells all messages
apart; its size is not modelled. A waiting time is one of three classes:
zero, finite, INFINITE. A finite wait that finds no count may time out at any
moment. With `Interrupts`, a signal handler may make any wait that sleeps fail.

Preconditions taken from the rest of the code: one thread receives from a queue
(`host_start_routine`; `WQ_close` is called by `host_cleanup` after the join);
after `WQ_close` has begun nobody new calls `WQ_send` (the handle is nulled).
Threads still *inside* `WQ_send` when the queue is closed are modelled up to
the moment the queue's memory is freed; what they do with it then is undefined
behaviour and the model stops.

Operators named `Wrong...` stand before the operation of which they are a
faulty variant. No action uses them. They document, for each property, a
mistake that it excludes: `PROJECT.json` pairs them.

### Reading `Hosts` beside `NetGroup.c`

The queue of a host is not modelled step by step again. `WorkQueue` is shown to
implement `BoundedFifo` (theorem `RefinesFifo`), so `Hosts` keeps, per host, what
a `BoundedFifo` is: the messages that arrived, how many were dropped, and
whether the oldest of the rest is being handled. `QueuesAreFifos` says that
this is all it uses, and is proved. The acknowledgements are below `BoundedFifo`,
so they are kept as `WQ.c` has them, one semaphore per slot; the k-th arrival
uses slot (k - 1) % Capacity because the cursors go round.

State. `listed` is the length of the list `_net_hosts` (hosts are numbered by
their place in it); `loc[h]` is where a host's thread is in
`host_start_routine`: in one of its callbacks (`init`, `connected`, `alarm`,
`handle`, `disconnected`, `deinit`), about to compute its waiting time
(`schedule`), in the first (`receive`) or second half (`wait`) of `WQ_recv`.
`todo[t]` and `msg[t]` are the rest of a loop over hosts in the function that
thread `t` has called; `awaits[t]` is the ack semaphore it waits for. `owner` is
where `NetGroup_router_create` or `NetGroup_router_delete` is. `members` is
history.

| action | code |
|---|---|
| `Unicast`, `Broadcast`, `Multicast` | entry of `NetGroup_host_unicast`, `_broadcast`, `_multicast`: who is to be sent to |
| `Send`, `SendAck` | one `WQ_send(..., INFINITE, ...)`: room found and message copied; acknowledgement taken |
| `SendFails` | the wait for room was interrupted; no caller looks at the result |
| `Join`, `Drop` | `NetGroup_membership_join`, `_drop` (each one critical section) |
| `Return` | a callback returns to `host_start_routine` |
| `Schedule` | `alarm_schdule`, with or without an alarm that is due |
| `Release`, `Receive` | the two halves of `WQ_recv`; `Receive` with `host_routing` |
| `ReceiveNothing` | `WQ_recv` times out, or fails and ends the loop |
| `ServerCast`, `ServerEnd` | `message_server_start_routine`: casts of one datagram; end |
| `StartHost`, `Created`, `CreateFails` | `NetGroup_router_create` from the start of the threads on; its failure |
| `Delete`, `Disconnect`, `Closing`, `Free` | `NetGroup_router_delete`: server joined; the loop of `disconnect`; the loop of `closing`; the rest, with the loop that never runs |

What is left to chance is what the user's callbacks do: `Talks`, `Broadcasters`
and `Blockers` say who may send to whom and how, at most `MaxCalls` times.
Callbacks themselves return. A send inside a callback keeps its thread from
receiving, which is the source of all waiting in circles.

Abstractions. A message is its cast, its sender and a number. A host has all
callbacks. In a `WQ_send` the wait for room, the copy and the post are one step:
`Send` is the step of `BoundedFifo` that `SendEnqueue` implements.
Threads of the user's own that call `NetGroup_host_unicast` from outside any
callback are not modelled, nor is what hosts do with the router after `Free`.

### Reading `IpcQueue` beside `WQIpc.c`

Owners and clients are processes. `bound` is the operating system's table of
names; `handle[p]` is `struct wq_ipc`, the objects a process has found under
them; `count` and `segment` are those objects, which outlive their names. `pc[p]`
is where a process is, and `pos[p]` how far in the list of names. `leaks`, `skipped`
and the fields `ring`, `adopted` and `used` of a segment are history.

| action | code |
|---|---|
| `OpenOwner`, `Open` | `_WQIpc_open` up to its mutex |
| `Lock`, `LockFails` | `Platform_semaphore_lock(mutex, INFINITE)`, wherever it is called; nobody looks at the result |
| `OwnerSegment`, `ClientSegment` | `Platform_create_shared_memory`; the owner zeroes it, a client compares `nq` and `sq` |
| `Make`, `Find` | `make_semaphore` of an owner, of a client, for one semaphore |
| `Made`, `Found` | the rest of `_WQIpc_open` |
| `Send`, `SendRefused`, `SendLockWriter` | `WQIpc_send` up to its wait for room |
| `SendClosed`, `SendCopy`, `SendAck` | its critical section and post; its wait for the acknowledgement |
| `Recv`, `RecvRelease`, `RecvWait`, `RecvTake` | `WQIpc_owner_recv`: the message before is dropped; the wait; the message is handed out |
| `Close`, `CloseState`, `Unlink` | `WQIpc_close`, with `threshold`, whose drain goes through `Recv...` too |
| `Crash` | a process dies |

What the operating system does is modelled as these calls use it. An owner's
`sem_open` with `O_CREAT|O_EXCL` refuses a name that exists. Its `shmget` does not:
`O_EXCL` (octal 200) is not `IPC_EXCL` (2000), and the mode 666, a decimal
number (octal 1232), has the bit of `IPC_CREAT` (1000), for clients too. So an
owner takes over a segment that exists and a client makes one that does not.
The permission bits of that mode (332) let nobody read; the processes modelled
have the privilege not to be asked.

A post after a critical section is one step with it. Once two processes are at
work in one segment at the same time (`Race`) its contents are undefined, and
the model ends there; this is reached when a client has found the mutex of one
opening and the segment of another, or after an interrupted wait.

### Reading `MessageServer` and `SendMessage` beside `NetGroup.c`

`Datagram(n, res, marks, out)` is one whole turn of the loop at NetGroup.c:96: `n`
bytes arrive, the decoder marks hosts, stores `out` in `*outlen` and returns `res`. A
byte is the number of its arrival, so that the buffer shows which bytes were
lost, repeated or reordered. `Told` is what the decoder is told, `Casts` and `Unmark`
are the loop over the hosts, `Copies` and `Shift` the end of the turn. The
decoder may return any number; the casts of a turn go into `sent`, with the datagram for
which the host was marked. `Leave` is every way out of the loop. The decoder only sets marks:
one that clears those it finds is not modelled.

The copy at NetGroup.c:191 is a `memcpy`, and its areas overlap when more stays than goes.
That is undefined; `Copies` gives the outcomes of copying the bytes in any order and in blocks
of any length: a byte is read from where it should be, or, if that place was already written, what
was put there, so that each byte of the result is one that lay a multiple of the distance
further on. `mixed` remembers at which positions such a byte may be.

In `SendMessage` a thread goes from `Find` (the search under `_to_cs`) to `Lock`, `Encode`,
any number of `SendTo` and `SendToFails`, and `Unlock`. The four lengths of the code are
unsigned; `Word` stands for 2^32, and is even, which is what the sums depend on. Any `sendto`
may fail, one that asks for an empty datagram too: only an empty one that is *sent* ends the
loop early. The kernel sends no datagram longer than `MaxDatagram`; a length that has wrapped
may be shorter than that, and then what lies next to the buffer is sent. `failed` counts up
to `Word`, where it stays: it is history, and no more failures make a difference to what is claimed.

### Reading `Links`

The nodes that a loop `while(current) current = current->next` meets are the least
set that has the first node and with each node the one its pointer leads to (`Reach`).
That needs no recursion over the list, so the proofs can use it: what has the first
node and follows the pointers has all of them. `EndOf` is where such a loop stops, and
`Circular` says that it does not. `IsList` compares the links with a sequence.

### Reading `Alarms`, `Heap` and `SmartPointer`

`Alarms` is one host's thread. In a callback (`InCallback`) it may start and end alarms;
`Schedule`, `Look`, `Repeats`, `Goes` and `Receive` are `alarm_schdule` from its call
to the wait in `WQ_recv`, with its locals `alarms` and `prev_alarm`. Blocks are
addresses, which `malloc` may give out again after a `free`. `NetGroup_host_alarm_end` frees
the address of the *user's variable*, not the alarm: that ends the process unless
the variable is itself a block (`OwnCells`).

In `Heap` the steps of a thread are those between which another thread can see a
difference: the two `mprotect`s around a write to a link are apart, since a new
page is protected *after* the mutex was released (`Protect`). A write to a page
that is read-only is the outcome `fault`; an `exit(0)` of `libwq_free` is `exit`. In
`WQ.h` the test heap is always defined; it is in force where `_platform_linux32` is.

In `SmartPointer` an allocation and its linking are two steps, and so are the
unlinking of a block and its `libwq_free` after the mutex. `refs` counts what the users
hold. Only one who has a reference asks for another, and only `SP_using` and `SP_unused`
assume that nothing else runs.

### Reading `Dictionary`, `Chains`, `Tree` and `Transcode`

These run in one thread. `Dictionary` keeps the entries as blocks and their links;
`kv_k` and `kv_v` are what the copies say. `Dictionary_remove` reads the link of the
entry that it has just freed: what is there is a choice, the old link or anything
(`wild`, where the model stops). Keys and values are copies made by `strdup`, which the test
heap does not know, so that with it (`testmode`) a removal, or a second value
for a key, ends the process (`exit`). `Dictionary_delete` has no action: its guard
`!(!pd)` (Utils.c:27) returns for every dictionary.

In `Chains` a behaviour has one chain, of one `kind`. The links are fields of the
user's elements. Removed elements may be added again, with the link that they
have been left with (`kept`), or after `Renew`, which is `__ds_element_free` and
`__ds_element_alloc`. `content` is what should be there. In `Tree`, the user also holds the trees
that it has unlinked, and goes on using them; `children` is what should be there.

In `Transcode`, `text` are Unicode numbers, `memory` their bytes as the standards have
them (`Code` of each, one after the other in `BytesUpTo`), and `FromUtf8`, `FromUtf16` take one character from memory as the code does, with its
masks as remainders and quotients. `HexToString` and `StringToHex` are functions of
their arguments.

## 3. What the runs show

| run | instance | result |
|---|---|---|
| `wq_safety` | 2 senders x 2 sends, ring of 2, blocking or not, finite and infinite waits, close | the safety properties hold; the ring implements `BoundedFifo` |
| `wq_live` | 2 senders x 2 sends, ring of 2, infinite sends, nobody closes | every send returns, every message is delivered, the fair FIFO is implemented |
| `wq_sync_two` | 2 blocking senders, ring of 1 | `SynchronousSend` is *violated*: see below |
| `hosts_queues` | 2 hosts, queues of 1, all send to all and to themselves, blocking or not, interrupts, deletion | `AcksAccounted`, `QueuesAreFifos` |
| `hosts_told` | 3 hosts, queues of 1, two broadcast, a route, alarms on one, failing creation, deletion | `EndsWhenTold`, `BroadcastReachesOthers`, the inductive invariant |
| `hosts_unless_doomed` | 2 hosts, queues of 1, one sends to itself too, one blocks, alarms on one, server, deletion | liveness, up to waits in a circle |
| `hosts_delete_backward` | 2 hosts, the second sends to the first | `DeleteReturns` is *violated*: see below |
| `hosts_free` | 2 silent hosts | `HostsEndBeforeFree` is *violated*: see below |
| `ipc_handover` | 2 owners, 2 clients, 2 calls each, ring of 1, 2 openings | `MutexAccounted`, `OpenRingOwnSemaphores`, `NoSlotTwice`, `OpenRingIsFound` |
| `ipc_stuck` | 1 owner, 2 clients, one of which does not fit, an interrupted wait for the mutex, crashes | `NothingReceived`, `LockedUnlessLost` |
| `hosts_routes` | 2 hosts, a route | `MembersAreRouted` is *violated*: see below |
| `parts` | one of: message server, senders, alarms, test heap, counted blocks, dictionary, chain, trees, conversion | the fifteen properties of these parts, below |

Properties, by hazard:

  - `RingHoldsQueue`, `FifoSpec`: senders reserve slots with one semaphore
    and copy in another order than they were woken; the cursors still hand each
    slot to one sender and each message out once, in the order of the copies.
  - `HeldMessageIntact`: the pointer `WQ_recv` returned is used outside the
    mutex; nobody writes to that slot until the next `WQ_recv`.
  - `EveryMessageAnnounced`, `EverySlotAccounted`: the semaphores and the ring
    are updated at different moments; the counts agree at every step in between.
  - `EveryAckComes`: a slot's ack posts, made or owed, cover the senders that
    wait on it, even when the slot has been reused.
  - `DrainLeavesOnlyUnposted`: what `WQ_close` can leave behind in the ring.
  - `SynchronousSend`: what the blocking flag promises, and
    `EarlyReturnsAreExchanged`: how far it fails to. A blocking send returns
    with its message unread only if another one waits on the same slot whose own
    message was handled: the two have exchanged acknowledgements. With a
    single blocking sender there is no other, and the send is synchronous.
  - `EverySendReturns`, `EveryMessageDelivered`: progress.
  - `AcksAccounted`: blocking unicasts of hosts to each other and to
    themselves, with slots reused and receivers ending, never outnumber the
    acknowledgements made or owed.
  - `BroadcastReachesOthers`: what `NetGroup_host_broadcast` sends while it
    walks the list is one copy per other host, whatever is sent or deleted meanwhile.
  - `EndsWhenTold`: nothing but the owner's `closing`, after its `disconnect`,
    ends a host (without interrupts). It depends on a fact that is a
    mistake elsewhere: `host_routing` would take a multicast for a `closing`,
    but no host ever becomes member of a route.
  - `SendsReturnUnlessDoomed`, `HostsEndUnlessDoomed`,
    `ArrivalsHandledUnlessDoomed`: INFINITE waits in callbacks can end in a
    deadlock, and the model says exactly when. `WaitsFor(t)` is the thread
    `t` cannot go on without. `Doomed` is the set of threads caught in a circle of
    such waits or waiting for a host that is gone; a thread not in it goes on.
  - `MutexAccounted`: every lock of the interprocess mutex has its unlock, but for
    the three ways to lose it that are named in the property.
  - `OpenRingOwnSemaphores`, `OpenRingIsFound`: names are given up and taken
    again one by one while others look them up; a client must not send to
    a ring with another one's semaphores, and an open ring must be found.
  - `NoSlotTwice`: slots are neither doubled nor filled twice across closings.
  - `NothingReceived`: `WQIpc_owner_recv` waits on the mutex where `WQ_recv`
    waits on `reader`, and then locks the mutex that it already holds. It comes
    to hand out a message only after a wait for the mutex was interrupted.
  - `LockedUnlessLost`: a failed opening, such a receive and a crash are the only
    reasons to wait for the mutex for ever. As everywhere in `IpcQueue`, what follows a `Race` is excused.
  - `BufferHoldsNewest`: compacting, clamping and halving leave room for the next datagram
    and the newest bytes in order, whatever the decoder returns. There are two exceptions, which the
    property bounds: halving an odd size loses the newest byte, so that one byte may be missing
    (in the first half), and where the areas of a `memcpy` have overlapped there
    may be a later byte in the place of the right one, but none that should have gone.
  - `CastsFollowMarks`: who gets a datagram's message, and the one way in which another
    host does, a mark that an earlier datagram without a message has left.
  - `LeftOverNeverShrinks`: the decoder is told the length of the new bytes and shown
    the start of the buffer, so it never catches up with what it once left over.
  - `ResultTells`: threads that send to one address do not mix up their messages, so that 1 without
    a failure means that the message was sent whole; and how little a result says when a `sendto` has
    failed. A call that returns 1 has then sent bytes not of its message, or failed until the
    sums wrapped to the right result; one that returns 0 was ended by an empty datagram.
  - `WalksAllocatedBlocks`, `AlarmsStay`: callbacks change the list of alarms that is being
    walked; the walk reads no freed block, and the two ways to lose an alarm.
  - `ListIsLive`, `EndsForAReason`: the list of the test heap under concurrent malloc
    and free, and the one race in which the protection of a page kills the wrong thread.
  - `ReferencedIsLive`, `LeakedIfShared`: nothing is freed that somebody refers to,
    and exactly which blocks are never freed.
  - `EntriesAreAllocated`, `DictionaryIsMap`: a key never has two entries, on which
    it depends that `Dictionary_remove` does not write to freed memory; the
    dictionary implements `KeyMap`.
  - `ContentUnlessStale`: a chain holds what was added and not removed, unless an element
    was added again with a link that its removal has left and its addition does not set.
  - `TreeIsSound`: children and parents agree, whatever is taken apart and put together.
  - `ConversionsKeepText`: which characters survive which conversion.

Bounds. Two slots make the cursors wrap twice in four sends and separate "the head"
from "the other slot"; one slot makes head and tail equal when full and
when empty, and reuses a slot at once. Two senders give every order of two
threads between two semaphore operations. The theorems below lift the safety results from these
instances to every number of senders, slots and sends.

With one slot per host a second message already waits, so two messages
suffice for every circle of two hosts and of a host with itself; the
properties of broadcasts need a third host, so that a walk of the list can be
overtaken half way. One call per host is the least with which every host can be
inside a send at once. `hosts_unless_doomed` is the largest instance whose
liveness is checked in minutes. `MaxArrivals` bounds what can reach a queue in it, five messages, and
`ArrivalsHandledUnlessDoomed` speaks of each of them.

A ring of one slot is the only one that an owner can open (see the findings).
Two openings are the least with which names can lead to other objects than
before, two calls let a client open and send, and an owner open and receive or
open, close and open again. The owners, and the clients, of `ipc_handover` are
interchangeable.

In `parts` each behaviour is one of a single part, and the parts share nothing, so the run
is as strong as nine; the others keep one fixed initial state. Buffers of 3
and 4 bytes have an odd and an even half, datagrams of 1 and 3 bytes fill them
in several ways, and three of them let a mark outlive one that casts nothing. Two
senders and two addresses meet at one address or not; message lengths of 2 and
3 are the two parities, 0 the message without a byte. 16 stands for 2^32: it is even, and the
longest datagram, 5, is between it and the lengths of the messages; so there are lengths the kernel refuses, wrapped ones that it sends, and calls whose
failures bring the sums round the word. Two alarm blocks and three starts use an
address again while it is still remembered. Three pages have a first, a middle and a
last one, with two threads at different ones; three counted blocks, entries and
elements likewise, and four tree nodes a parent with two children and a grandchild. The
characters are the ends of each length of UTF-8 and, of three-byte ones, some
whose middle six bits survive the masking and some whose do not.

Deadlock checking is off (`CHECK_DEADLOCK FALSE`) because the system may stop:
the sends are finitely many, and a receiver then waits INFINITE for ever. A
stop that strands a sender is what `EverySendReturns` excludes.

Fairness. `FairSpec` asks that a thread inside `WQ_send` keeps running and that
the receiver keeps calling `WQ_recv`: `host_start_routine` (NetGroup.c:331) is
a loop around it. Nothing makes a caller call `WQ_send`. Weak fairness per
thread suffices since the sends are finitely many; POSIX semaphores are not
FIFO, and with an endless stream of rivals a sender could starve, so no
such claim is made. The run has no interrupts and no close: an interrupted wait
ends the host's loop (NetGroup.c:337), and nobody receives afterwards.

`Hosts!FairSpec` asks the same of each thread: one that can put its message or
take its acknowledgement does so some time (weak fairness of `Send` per thread: a
queue that has room may be filled by another first, but calls are
finitely many), callbacks return, `host_start_routine` goes on, the owner goes
on with what it has begun, and the server, told over the pipe to stop, stops. Nobody
has to call anything, nothing has to be due, and nothing has to fail.

`IpcQueue!FairSpec` asks that a process inside a call keeps running as long as it
waits for nothing but the mutex; none has to call anything, to be interrupted or
to die. Calls are finitely many, so weak fairness is enough.

### Findings

  - `wq_sync_two`. The ack semaphore belongs to the slot and not to the message.
    The receiver posts the first sender's acknowledgement and gives the slot
    back; a second blocking sender takes the slot, copies, and takes the post
    that was meant for the first. Its `WQ_send` returns while its message is
    unread, and the first returns when the second's message is handled.
    `EveryAckComes` says that nobody is stranded by this, only mistaken.
  - `hosts_delete_backward`. `NetGroup_router_delete` tells the hosts to close in
    the order of the list. The first one ends; a later one, in a callback, waits
    INFINITE for room in the ended one's queue, which nobody empties any more. It
    never receives its own messages, and the owner waits INFINITE to put
    `closing` into its queue. The same lines hang a `NetGroup_router_create`
    that fails, if a queue has length 1: no host has a thread yet, and
    `disconnect` and `closing` need two places.
  - `hosts_free`. The loop that joins the threads and closes the queues
    (NetGroup.c:742) starts with `hosts` NULL, which the loop before has left
    it at. The router is freed under its running hosts.
  - `hosts_routes`. The loop that enters a host in an empty column
    (NetGroup.c:998) goes on from the index at which the search for a
    duplicate has ended, and never runs. `IInv` has the consequence, proved
    for all parameters: the routing table stays empty and no multicast is sent.

Met on the way and without a run of its own: `WQ_send` ignores the result of its
wait for the acknowledgement (WQ.c:221), so an interrupted one returns
`WQ_SIGNALED` with its message unread and leaves the post behind; this is why
`EveryAckComes` and `AcksAccounted` are inequalities when waits are interrupted.

In `WQIpc.c`, where no comment says what is meant, so that there is no run to refute
it, the model shows: no message is received (`NothingReceived`) and the first
`WQIpc_owner_recv` that finds the mutex free keeps it; a `WQIpc_close` returns only
if somebody else holds the mutex when its drain looks. All acks have one
name, so an owner with more than one slot fails to open; every failure to open
keeps the mutex. A client that locks the mutex before the owner has makes
the segment, fails, and leaves the owner waiting for ever. An owner that opens while
another is between two unlinks takes over a segment which the other then
removes, and a late client of the other's can send into it: the exceptions in
`OpenRingIsFound`, `OpenRingOwnSemaphores` and `NoSlotTwice`. But for the second
slot, each of these is reached in the runs' instances.

In the parts of `parts` no comment says what is meant either. The properties say what
the code does, with the exceptions that are its mistakes:

  - `NetGroup_host_alarm_start` and `SP_malloc` look for the end of a list with an
    inverted condition (NetGroup.c:1073, Sp.c:56), and read through NULL when
    there is already one alarm, or block. `_time` is never set: every alarm
    is due at once, and with a repeating one a host never sleeps; the branch for
    alarms that are not yet due (NetGroup.c:304, in `Look`) is never taken.
  - `NetGroup_host_alarm_end` frees the user's variable instead of the alarm
    (NetGroup.c:1115). The alarm leaks, or aborts the process.
  - The decoder is told a length that does not belong to the pointer (NetGroup.c:142).
    Marks without a message stay (NetGroup.c:151).
  - A `sendto` that fails is taken for 2^32 - 1 bytes (NetGroup.c:645), and the loop goes on,
    after an empty datagram that fails too. It ends with 1 when the sums have wrapped, so that an error
    that persists is reported as a success after 2^32 calls less the length, whatever the length is; or
    when a wrapped length was short enough to be sent, from beside the buffer, and the
    failures before and after make up for each other. It ends with 0 only for an even length.
  - The buffer of the message server is compacted by a `memcpy` of areas that may overlap
    (NetGroup.c:191), and halving one of odd size loses a byte in the middle of the stream (NetGroup.c:200).
  - `SP_unref` unlinks a block whatever its count (Sp.c:120): one that was shared is never
    freed.
  - `Dictionary_delete` deletes nothing (Utils.c:27), `Dictionary_remove` goes on from the
    entry it has freed (Utils.c:225), and under the test heap a removal, or an addition
    that is refused, ends the process when it frees its copy of the key.
  - Unlinking the only element of a double list writes through NULL (ds.c:162);
    unlinking the top of a tree that was unlinked before reads through it (ds.c:443).
  - `sbyte & 0x3c >> 2` masks with 15 (language.c:94, 188). Between the two byte orders of
    UTF-16, the copies refuse every buffer (language.c:238, 301) and the result
    is a pointer that was freed. UTF-8 made from UTF-16 has no terminator.
  - A page of the test heap is protected after the mutex was released (Heap.c:215), which
    can kill another thread that has just lifted the protection.

For the blocking flag the intent is taken from the code itself, which calls sending without the flag
`0/*send no sync*/` (NetGroup.c:167).

## 4. What is proved

All theorems are for every value of the constants. Their invariants were first checked by TLC on
instances like those of the runs, those of the smaller parts on between 11,556 (`TreeInv`) and 9,636,399
states (`SendInv`).

### The local work queue (`WorkQueueProofs`)

For every finite set of senders, every ring length, every number of sends, any sets
of waiting times, with and without interrupts and closing (the `ASSUME`s of
`Platform` and `WorkQueue` are the only assumptions):

| theorem | statement |
|---|---|
| `Typing` | `Spec => []TypeOK` |
| `SlotAccounted` | `Spec => []EverySlotAccounted` |
| `MessageAnnounced` | `Spec => []EveryMessageAnnounced` |
| `RingIsQueue` | `Spec => []RingHoldsQueue` |
| `DeliveredInOrder` | `Spec => []FIFODelivery` |
| `HeldStaysIntact` | `Spec => []HeldMessageIntact` |
| `AckComes` | `Spec => []EveryAckComes` |
| `Invariance` | `Spec => []IInv` |
| `DrainLeaves` | `Spec => DrainLeavesOnlyUnposted` |
| `RefinesFifo` | `Spec => FifoSpec` |
| `WaitersKnown` | `Spec => []WaitersAreKnown` |
| `EarlyOnlyByExchange` | `Spec => EarlyReturnsAreExchanged` |

The argument. `EverySlotAccounted` and `EveryMessageAnnounced` are inductive
given the types: each step moves one unit from one summand to another (the
lemmas on `Enqueueing` and `Posting` say how a step changes the counted sets).
They bound the rest: a sender that is about to copy is counted among the slots,
so `Queued < Length` and the tail is not inside the queue; a receiver that is
about to hand out is counted among the messages, so the ring is not empty.
`OnlyHeadHeld` ties what was handed out to what was dropped plus the held
message. With these, `RingHoldsQueue` is inductive (a copy appends at
`Pos(Queued)`, a release shifts `Pos` by one), and `FIFODelivery` and
`HeldMessageIntact` follow. For the acknowledgements, `OnlyQueuedOweAck` says
that only a slot in the queue owes one; so the slot a copy goes to owes
none, and `EveryAckComes` is inductive too. `WaitersAreKnown` refines it from numbers to
messages: whoever waits for an acknowledgement has had its message handled, or its message is in the
queue, in the slot on whose semaphore it waits, and that slot still owes. When a
sender takes an acknowledgement before its message was handled, `EveryAckComes` counts one more waiter of
that slot than the slot owes, and since one slot holds one message, that other waiter is of
the first kind: `EarlyReturnsAreExchanged`. The refinement maps the ring to the
sequence `Contents`: `SendEnqueue` to `Put`, `RecvRelease` to `Drop`,
`RecvTake` to `Get`, everything else to a stutter.

### Hosts (`HostsProofs`)

For every number of hosts, every queue length, whoever may send to whom, block,
broadcast or have alarms, and every number of calls (the `ASSUME`s of `Hosts`):

| theorem | statement |
|---|---|
| `Typing` | `Spec => []TypeOK` |
| `Invariance` | `Spec => []IInv` |
| `EndsAsTold` | `Spec => []EndsWhenTold` |
| `QueuesRefineFifo` | `Spec => QueuesAreFifos` |
| `EveryAckIsOwed` | `Spec => []AcksAccounted` |
| `BroadcastsReachAll` | `Spec => []BroadcastReachesOthers` |

The argument. The types are inductive with `OwnerCalls` (the owner makes two
calls, in order) and `HeldIsQueued` (a held message is still in the queue and a host
in `WQ_recv`'s second half holds none). They give that a queue has room when
`Send` is possible and a message when `Receive` is, which is all the refinement
needs: `Send` is `Put`, `Release` is `Drop`, `Receive` is `Get`. For the end of hosts,
`Told` says what can be in the queues: no callback or server sends `disconnect`,
`closing` or (since the table stays empty) a multicast; `closing` is in a queue only
from the owner's second loop on, once; and then `disconnect` is in every queue of
the list. It is inductive because the second loop starts when nothing of the first is
left to do. `ClosingLast` and `EndsAtClosing` then carry this from the queue
to the host's thread: the message it leaves the loop on is the `closing`.

`AcksAccounted` is inductive given those. A `Send` adds one to what a slot owes and one
to those who wait, and it meets no older debt of that slot, since a queue that has room has
no message in the slot the next arrival goes to; `Release` turns a debt into a post and
`SendAck` takes one of each. For broadcasts, `BroadcastInv` says of every broadcast, at
every moment, that each host but the sender has its copy or is still in the sender's
`todo`, never both (`Complete`). What makes it inductive is that a thread's calls have
different numbers (`Numbered`), that only hosts broadcast, and that hosts run only when
the list is complete (`AllListed`), so that the walk over it misses nobody.

### Interprocess queue (`IpcQueueProofs`)

For any owners and clients, every ring length and number of openings and calls, with and
without interrupts, and whoever dies:

| theorem | statement |
|---|---|
| `IpcInvariant` | `Spec => []IpcInv` |
| `MutexIsAccounted` | `Spec => []MutexAccounted` |
| `SendersUseOwnSemaphores` | `Spec => []OpenRingOwnSemaphores` |
| `SlotsAreNotShared` | `Spec => []NoSlotTwice` |
| `OpenRingsAreFound` | `Spec => []OpenRingIsFound` |
| `NothingIsReceived` | `Spec => []NothingReceived` |

The argument. All five follow from one invariant, `IpcInv`. Its core is `OwnNames`: the name of a
semaphore that an owner has made is its own until it unlinks it, since another owner's
`O_EXCL` refuses a name that exists. So the openings of two living owners differ, and a segment that was
made and not found has one owner (`OwnRing`). `OpenRing` ties the field `state` to the
names: a ring that is open has all its names bound to itself, because `Made` comes after
the last name and `CloseState` before the first unlink. A client accepts a segment only when
its lengths are set, which is when the ring opens; so as long as `state` is 1, the names
that the client looks up are of this opening (`OwnFinds`). A new
opening begins with a segment that no client has a slot of (`NoSlotYet`), which
starts the account of `NoSlotTwice`. `NothingRead` carries the double lock: a slot is being
read only in rings whose mutex was passed by an interrupted wait. Most steps change
neither names nor segments: they are `Quiet` or `Still`, and lemmas carry each
part of the invariant over all of these at once.

### Message server, senders and alarms (`NetGroupProofs`)

For every number of hosts, every buffer size, any lengths, marks and results; every set of
threads and addresses, any message lengths and an even `Word`; any blocks, variables
and alarms (the `ASSUME`s of the three modules):

| theorem | statement |
|---|---|
| `CastsFollow` | `ServerSpec => []CastsFollowMarks` |
| `BufferKeepsNewest` | `ServerSpec => []BufferHoldsNewest` |
| `LeftOverStays` | `ServerSpec => LeftOverNeverShrinks` |
| `ResultIsTrue` | `SendSpec => []ResultTells` |
| `WalkIsSafe` | `AlarmsSpec => []WalksAllocatedBlocks` |
| `AlarmsStayOrTwoWays` | `AlarmsSpec => []AlarmsStay` |

The argument. `CastsInv` adds to `CastsFollowMarks` the types and `StaleMarksUnsent`: a
mark that is set between two datagrams is of one that came without a
message, since any message clears all marks. `BufferInv` is `BufferHoldsNewest` with the types, and says that the
missing byte is not beyond the cursor. `HoldsNewest` compares each byte with the one due at its place;
the lemmas say that appending the bytes of a datagram keeps it (`AppendedBytes`), that
moving the rest to the front does, where a byte read further on is a later one
(`Multiples`, `Copied`), and `DatagramBuffer` that cutting off the first half does, with the last byte of an odd size the
new missing one. `LeftOverNeverShrinks` follows from the bounds of `Copies`.

`SendInv` says that who encodes or sends holds the mutex of its entry alone, so the buffer
has its own message (`HasBuffer`), and that the two lengths of the loop always add up to the
message's, or to that plus 2^32 (`LengthsAddUp`): a failed `sendto` moves one from the one to
the other, and one that succeeds exchanges them. `HasSent` has the four states in which the loop can be: nothing was sent
and nothing failed, all was sent, bytes not of the message were sent, or there were only failures, whose
number the lengths then tell (`OnlyFailed`): an empty datagram sent among these changes nothing, and any
other one asks for bytes beyond the message. The loop ends without
success only by an empty datagram (`SentEmpty`), which asks for two equal lengths, so the message's is even.

`AlarmsInv` rests on two facts of the code that make it simple and are its mistakes:
no block is ever linked to another, and every alarm is due (`NeverLinked`). It relates the list
to the history of starts: the alarm at the head is the latest started in its block
(`LatestIsSet`), the user's variable has the block of the last start into it
(`VariableKept`), and if the alarm in whose callback a host is has left the list, then it was ended, and what
is in the list was started in this callback (`WithinKept`).

### Test heap and counted blocks (`MemoryProofs`)

For any pages, counted blocks and threads:

| theorem | statement |
|---|---|
| `HeapKeepsItsList` | `HeapSpec => []ListIsLive` |
| `HeapEndsForAReason` | `HeapSpec => []EndsForAReason` |
| `ReferencedStaysLive` | `SPSpec => []ReferencedIsLive` |
| `OnlySharedLeak` | `SPSpec => []LeakedIfShared` |

`HeapInv`: each page is in the hands of one thread or of the user (`PagesOwned`); the list
ends, no two links of it lead to one page, and it has what was given and is not between a thread's hands
(`ListHolds`); one thread at a time writes a link, and the page it writes to is read-only
only if another has protected it since (`OneWrites`, `Relocked`). `SPInv`: a thread that links or frees a
block is the only one that knows it; the block in the list has as many references as its count.

### Dictionary, chains and tree (`ContainerProofs`)

For any entries, keys and values, elements and nodes:

| theorem | statement |
|---|---|
| `ListIsAllocated` | `DictSpec => []EntriesAreAllocated` |
| `ListIsMap` | `DictSpec => DictionaryIsMap` |
| `ChainsAreSequences` | `ChainSpec => []ContentUnlessStale` |
| `TreeStaysSound` | `TreeSpec => []TreeIsSound` |

`DictInv`: the list is straight, has the allocated entries, and no two have one key; so the entry that
a search finds is the only one, and the refinement maps `Dictionary_add` to `Add`,
`Dictionary_remove` to `Remove` and the ends of the process to stutters. `ChainInv`: as long as nothing stale
was added, the links are those of the sequence, the back links of a double list too, and
what is neither in the chain nor kept from a removal has no link (`FreshAreClear`). `TreeInv`: a node's
children have it as their parent, so nobody is a child twice, and two nodes' chains of siblings are
apart; the nodes below another are the least set that follows children and siblings, which
linking below a node outside it leaves closed.

`LinkProofs` has what these proofs, and those of the alarms, share: what appending, unlinking and taking from the
front do to the nodes that are reached, first as sets (`Straight`: no two pointers lead to one node, and
the list ends), then as sequences (`IsList`). Where one would like induction over the length, it takes the least
position at which something fails, from the least element of a set of numbers.

### Conversions (`TranscodeProofs`)

For texts of any length, of any characters (numbers from 1 to 0x10FFFF):

| theorem | statement |
|---|---|
| `TextIsKept` | `TextSpec => []ConversionsKeepText` |

The argument. `Utf8Coded` says of every character below 0x10000 that its first byte tells
`Taken` its length, and that `Unit` of its bytes is the character exactly if it is below 0x800 or its
middle six bits are 0, 21, 42 or 63: the code takes the lowest four of them and the lowest two
where it should take the highest four and the lowest two, and the two agree only if all three pairs of bits are
equal (`SixBits`). `TextInv` then follows the copy: from UTF-8 there is a number m of characters that were
read one after the other, their units are in the result, and the copy stands at the
beginning of the next (`FromUtf8Inv`), until a character needs more than sixteen bits: from
there on nothing is claimed. To UTF-8 it stands at unit m and has written the bytes of m characters
(`FromUtf16Inv`). `MemoryHas` finds the next character, or the terminator, where the copy
reads. `BytesUpTo` is a recursive function; that it satisfies its own equation (`BytesGoOn`), and
what its values have in common, is proved by taking the least length at which it would fail. `HexKeepsBytes`
needs no invariant.

### What is only model-checked

Liveness, which needs fairness and ENABLED: `EverySendReturns`, `EveryMessageDelivered`,
`FifoFairSpec`, `SendsReturnUnlessDoomed`, `HostsEndUnlessDoomed`,
`ArrivalsHandledUnlessDoomed`, `LockedUnlessLost`.

Every other property of a passing run is a theorem. `TypeOK` of `WorkQueue` and of `Hosts`,
`FIFODelivery`, `WaitersAreKnown` and `WorkQueue`'s `IInv` are proved and not run; the types of `IpcQueue` are a
part of `MutexAccounted`.

### What no property catches

Some mistakes end the process at once: a second alarm or counted block (NetGroup.c:1073, Sp.c:56), the only
element of a double list (ds.c:162), a top that was unlinked before (ds.c:443). The models reach these ends and stop there; the
properties are about what goes before, and tolerate them. An old link that makes a chain longer
(ds.c:344) is an exception of `ContentUnlessStale`, which shows that there is no other. `EndsWhenTold` says nothing of
hosts whose waits are interrupted (NetGroup.c:337). A creation that fails (NetGroup.c:955) is in
`hosts_told`, which has no liveness; the run with liveness has none, and its `Doomed` would excuse the wait. Crashes of processes are in `ipc_stuck` alone,
and in the theorems of `IpcQueueProofs`.

## 5. Not modelled, and why

`PROJECT.json` "components" has the complete list. In the work queue: sizes
(`WQ_send` copies `npar` bytes unchecked), out-of-memory paths of `WQ_open`, two
receivers on one queue, and everything after the memory is freed. In the router:
the search by name of `NetGroup_host_connect`, out-of-memory while rows of the
routing table are made, and the init callbacks that send before `_to_cs` is open
(NetGroup.c:938). In the interprocess queue, what messages contain.

In `ds.c`: `_list_clone`, which links copies like `_list_link`, the functions that only
read, and `_tree_clear` of an inner node, whose parent it leaves pointing to it. In
`language.c`: hexadecimal digits in UTF-16, which go through the transcodings. In `Utils.c`:
`Dictionary_freechar` and the wrappers for time. Refused arguments (NULL, zero) return without
an effect everywhere and are left out, and so is running out of memory but where a
failure is an action. Debug output is formatting. Sockets, threads and shared memory are
the operating system's; where a module needs them it models how this code uses them.

## 6. Plan

Done: `WorkQueue` with `BoundedFifo` and the proofs; `Hosts` over one bounded FIFO per host,
and its proofs; `IpcQueue` and its proofs; the smaller parts and their proofs.

Left: `timeconv_abs` (Platform.c:17), whose sums wrap near the greatest waiting times.
