# TLA+ models of Inferno 1e1: locks, scheduling, channels, queues, remote files, collection

This directory holds TLA+ specifications of the concurrent core of Inferno
(first edition), TLC configurations that check them on small instances, and
TLAPS proofs. Every definition is translated from the C source; the table
`map` of `PROJECT.json` names the lines.

## 1. The system

Inferno runs Limbo programs, compiled to the Dis virtual machine. *Hosted*
Inferno (`emu/`) is a program on another operating system, whose processes are
threads or processes of the host; the *native* kernel (`os/`) runs on the bare
machine. Both share `interp/`, the virtual machine. From below to above:

| component | source | state | operations | who uses it |
|---|---|---|---|---|
| spin lock, queueing lock, readers/writer lock | `emu/lock.c`, `os/port/qlock.c` | `use`, `locked`, list of waiters; `x`, `k`, `readers` | `qlock canqlock qunlock rlock runlock wlock wunlock` | every device, name spaces (`Pgrp.ns`) |
| processes | `emu/proc.c`, `emu/os-Linux.c` | `up->r`, `r->p`, `swipend`, `syscall`, `intwait`; the tag table of `rendezvous` | `Sleep Wakeup swiproc osenter osleave`, the `SIGUSR1` trap | devices, mount driver, scheduler; `swiproc` by `kill` |
| Dis channels | `interp/alt.c`, `interp/xec.c` | `send recv sendalt recvalt` of a channel, the marks of the thread | `send`, `<-`, `alt`, `nbalt` | every Limbo program |
| Dis scheduler | `emu/dis.c` | run queue, `idle`, `vmq`, `irend`, `yield`, the registers `R` | `acquire release iyield startup addrun delrun newprog progexit delprog killprog vmachine` | builtins, devices, `rungc` |
| prog device | `emu/devprog.c` | none of its own | `kill`, `killgrp`, debugger | the shell, programs |
| collector and reference counts | `interp/gc.c`, `interp/heap.c` | colours, reference counts, `gchalt` | `rungc`, `destroy`, pointer stores | the interpreter, builtins |
| stream queues | `emu/qio.c` | blocks, `len`, `Qstarve Qflow Qclosed` | `qread qbwrite qproduce qclose ...` | pipes, devices |
| mount driver | `emu/devmnt.c` | requests by tag, the elected reader `rip` | `mountrpc mountio mntgate mntflush` | every remote file |
| export server | `emu/exportfs.c` | queue `exq`, requests in service `fs->work`, fids | `exportproc exslave exflush exshutdown` | every exported name space |
| name space channels | `emu/chan.c`, `emu/ns.c` | references, mount table | `clone walk domount close` | all file calls |

They meet in few ways. Host processes share memory and meet in `rendezvous`.
One of them at a time interprets Dis: it has *the virtual machine*, which
`acquire`, `release` and `iyield` pass on. A Limbo thread (`Prog`) is not a
host process: the vmachines take turns at the one run queue, and a thread whose
builtin may block holds on to its vmachine, which `release`s the machine and
lets another go on. A kill is a state change if the thread is ready or waits on
a channel, and an interrupt (`swiproc`) if it is inside the host.

**What is hard here.** Handoff after the lock is dropped (`qunlock`, `Wakeup`,
`release`); a wakeup against the test of the condition; an interrupt against
the end of what it interrupts; a thread killed while it is linked in several
channels; data freed while the virtual machine is let go in the middle; the
queue order of waiters. The list `hazards` of `PROJECT.json` has each at its
line with the properties that watch it.

**What makes each part correct.** A lock: one holder, nobody forgotten, order
kept. Sleep: no lost wakeup, one process to meet the sleeper, an interrupt hits
the call it was meant for. Channels: a communication is a pair of complementary
offers, and two of them never wait side by side. The scheduler: one owner of
the machine, all that want it queued, registers stay with their thread, a
thread is freed once. The collector: nothing reachable is freed. Queues: bytes
come out once and in order, both sides wake. The mount driver: a reply goes to
its request, and somebody reads. The export server: a flushed request is
answered once.

## 2. Modules

| module | models | composed with |
|---|---|---|
| `FifoMutex` | abstract: a FIFO mutex with direct handoff | |
| `QLock` | `qlock canqlock qunlock` step by step | implements `FifoMutex` |
| `LockProcs` | what the two locks have in common: the processes and one of them that is none | |
| `QueueFacts` | lemmas for the proofs: a queue as a sequence and as the set of its members, the bytes of a list of blocks | |
| `RWLock` | `rlock runlock wlock wunlock`, both orders of `wunlock` | two instances of `FifoMutex` |
| `Rendez` | `Sleep Wakeup swiproc osenter osleave`, the signal, around them `release`/`acquire` | |
| `SyncProofs` | the theorems about `QLock`, `RWLock` with `KFirst`, and `Rendez` | extends the three |
| `ChanSpec` | abstract: threads with offers, a communication removes two complementary ones | |
| `Alt` | `send`, receive, `alt`, `nbalt`, `killprog`, `progexit`, `newprog` on channels and run queue | implements `ChanSpec` |
| `AltProofs` | the theorems about `Alt`, with the refinement of `ChanSpec` | extends `Alt` |
| `Isched` | the Dis scheduler, threads' builtins, exits, kills, `killgrp`, the collector's sweep of files | |
| `IschedProofs` | the theorems about `Isched` | extends `Isched` |
| `Stream` | abstract: what leaves the queue is received, in order; nothing goes in when shut; only the end of a close or flush throws away | |
| `Qio` | the stream queues of `emu/qio.c` between processes, devices and those who close them | implements `Stream` |
| `QioProofs` | the theorems about `Qio`, with the refinement of `Stream` | extends `Qio` |
| `Mnt` | the mount driver's calls of one server: tags, the gate for readers, flushes | an external server |
| `MntProofs` | the theorems about `Mnt` | extends `Mnt` |
| `Export` | the export server's one connection: queue, slaves, flush, shutdown, fids | `exq.qwait` is a `FifoMutex` |
| `ExportProofs` | the theorems about `Export` | extends `Export` |
| `Gc` | reference counts, pointer stores, and the collector in steps | |
| `GcProofs` | the theorems about `Gc` | extends `Gc` |

Each `MC*` module extends the module it is named for.

### QLock
`pc` says where each process is in its call. `LockUse` is `lock(&q->use)`; what follows
under it up to `unlock(&q->use)` is one action, since all other accesses to the lock's
fields need `use` as well. `waitq` is the list `head..tail` through `qnext`.
`QunlockPass` unlinks the head, `Rendezvous` is the rendezvous in which releaser and
waiter go on. The refinement maps `owner` to the holder, or to the process that has been
unlinked by a `QunlockPass` whose rendezvous has not happened yet.

### RWLock
`x` and `k` are two `FifoMutex`. `Readers` stands for the readers together as
the owner of `k`: the first one in takes it, and the last one out, mostly another
process, gives it back. `WunlockFirst` and `WunlockSecond` are the two
`qunlock`s of `wunlock`; `KFirst` is TRUE for the native kernel, which releases
`k` first, FALSE for the hosted one.

### Rendez
One sleeper `S`, wakers and killers. `S` runs a Dis thread that has `release`d
the virtual machine; it enters `Sleep` or a host call, and goes back through `acquire`;
the wakers make the condition true and call `Wakeup`; a killer, who has the
virtual machine, calls `swiproc`. Each spin lock is an action, and so is each
section under one; `Swiproc` reads `p->r` without a lock, as the code does. The
condition becomes true without `r->l`, which is what devices do.

### Alt and ChanSpec
The state of a channel is the four fields of `struct Channel`; a thread has a
state, the channel or the alt it waits with, and the result its last `alt` returned. One
instruction is one action (the machine is not let go inside channel instructions).
`Mark` and `Unmark` are `altmark` and `altunmark`. A result is what the code returns: the
number `n` of the entry, and `at`, that of the element in an array of channels. For a
thread that waited it is what `altdone` counts, entry by entry (`PassSend`, `PassRecv`);
for one that did not, the alternative that `altcomm` chose. `Alts` is the set of alts
each thread's program has.

A thread that waits is unlinked by what its operands hold at that time: `killprog` reads
the channel variable again, `altunmark` the elements of the arrays. `operand` has what
they hold, `chan` and `alt` what they held when the thread blocked, and `Assign` is
another thread's assignment to one of them (`Shared` are the threads whose operands
others can assign to). If the two differ when the thread is unlinked, it stays linked
where it waited. The properties of `Alt` are about programs in which no thread is
unlinked then (`Reassigned = FALSE`, the guard `Unmoved`); section 4 says what happens in
others.

`OwnAlts` says that no two threads have one direction of a channel in their alts, which
`AltFindable`, `NoMissedPartner` and `ImplementsChannels` need and the run assumes.
`ChanSpec` knows offers only: an offer set per thread, a communication of two
threads with a send and a receive offer on one channel, a withdrawal (a kill).

### Isched
`idle`, `yield`, `vmq`, `irend` and `runq` (`runhd..runtl`) are the fields of
`isched`. `pc` tells where each process is in `vmachine`, `acquire`, `iyield`,
`release`, a builtin, `delprog` or `progwrite`; `then` where it goes on when
it is handed the machine, `to` whom it is about to hand it to, and `iprog` the
thread a vmachine keeps while it is away. The value of a register set is the
thread whose registers it holds: `R`, and `regs[t]` for `t->R`. `isave` and
`irestore` copy between them, so a store into the wrong thread is seen. A
builtin that releases does so through `Release` and comes back through
`AcquireIdle`, or `AcquireQueue` and a `Meet`; both end in `Regain`. `Proceed`
collects the steps that a process has no reason to put off, `Decide` what its
thread or the kernel process chooses to do.
`Vms` are the vmachines that may be born: `release` with nobody on `vmq`
leaves the machine idle and starts one.
All threads are in one group; a thread identity is used once (pids are not
reused). `FileCycles` says whether garbage cycles hold file descriptors, so
that `rungc`'s sweep may call `freeFD`.

### Qio and Stream
`blocks` is the list `bfirst..blast`, `len`, `state`, `noblock` the fields of `Queue`,
`rr` and `wr` the processes that sleep in `q->rr` and `q->wr`. A section under `q->l` is
two steps, `lock` and the rest with `unlock`; what the code does without the lock lies
between: the tests of `Sleep`, and `qbwrite`'s `q->state |= Qflow`. `Sleep` and `Wakeup`
are a step each (`Rendez` has them line by line), and `rlock` and `wlock` are mutexes,
as `QLock` shows. `Init` chooses one of three *uses*, which are those of the devices: a
device fills and processes read (`qproduce`, `qiwrite`, `qpass`), a pipe, and processes
write and a device drains (`qget`, `qconsume`). It also chooses `msg`, and whether the
host is `interlocked`, that is, loses no update of `q->state` that falls into another: C
says nothing of it, so both cases are explored, and the properties that depend on the
flags are claimed where no update is lost, or where no writer sets `Qflow` unlocked (use
"input"). The bytes of the rest of a block that `qbread` is splitting are in `split`,
and `Content`, which `Stream` is about, has them in front; `got` is what `qbread`, `qget`
or `qconsume` has taken for its caller. `Stream` has a record of what is received,
`out`: units leave at the front only in a step that puts exactly these into `out` (of a
message, maybe the beginning only: the code drops the rest), so a `qbread` that loses
the rest of a block, or leaves in the queue what it returns, is no step of it. What is
not received is thrown away by the step that ends a close, a hangup or a flush, from the
end (one that comes during a split leaves the rest of the block being split, which is
the front). Units are appended at the end unless shut.
`Shut` maps shut to a queue that has been closed, that processes write, and no update of
whose state is lost: devices append to a closed one too, and `qbwrite`'s `q->state |=
Qflow` can put back a state without `Qclosed`.

### Mnt
A process is one call, from `mntralloc` to `mntfree`; the rpc structures and
their tags outlive it. `queue` and `rpcfree` are the lists `m->queue` and
`mntalloc.rpcfree`, `rip`, `flushtag` and `rpctag` the fields of those names; of
an rpc there are `done`, `flushed`, `flushtag`, which call its reply answers, and
whether its caller is in `Sleep` (`r.p`). A section under `m->r.l`
is an action, and so are the tests and calls between two sections: `mountmux`
takes its request off the queue in `MuxFind`, completes it in `MuxComplete`, calls
`Wakeup` in `MuxWakeup`; a caller may interrupt or be interrupted at each place. Two
sections are one action where nothing lies between that another process can
tell apart (`mntralloc` and the queueing; `rip` set and the test of `done`).
`then` is where `mntflush` comes back to: the gate, or the reader's loop.
The connection is `asked`, the messages that the server has still to
answer or whose answer has not been read: reading chooses any of them. The
server is external; it sends an `Rflush` and then no reply (`rflush`), or, as
`emu/exportfs.c` does, only hurries the reply. A host call that is interrupted has
done its work or not. If the message or reply is gone, the call is in
`lost`: the server owes it nothing more.

### Export
`queue` is the list from `exq.head`, `tail` the request `exq.tail` points at, which need
not be in it; `rwait` is the slave in `Sleep(&exq.rwait)`, `work` is `fs->work`, `fid`
has `attached` and `ref` of two fids and whether they are there. `exq.qwait` is an
instance of `FifoMutex`. `epc` is the place of `exportproc`, including the gap between
the look in the queue and the look in `fs->work`, and the gap before `oshostintr`; `pc`
that of each slave. The slave's steps are those of its loop: in line, asleep, a request
in hand, in the operation, at the reply; a step that only it can see (`qunlock` after
the queue was left, and the request's way out of `fs->work`) is joined to the one
before. `BeginOp` chooses what the request does: it uses fid 1, clones it to fid 2, or
clunks it. The environment sends requests, flushes of any request that has come, and the
end of the connection. `oshostintr` interrupts whatever host call the slave is in by
then: its operation, its reply (`cut`), or the semaphore under `rendezvous`, after which
it goes on without what it waited for; the model stops there (`panicked`), at the code's
own `panic` in `Sleep` in the first case.

### Gc
Blocks are numbered by address. `alive` are those with `MAGIC_A`; each of them has a
colour, a count, and one pointer in `val`, which also has the roots. `mutator` is
`gccolor % 3`, `ptr`, `prev`, `visit` and `nprop` are the variables of `rungc`, and
`okbhdr` says where a block begins: free neighbours are one block. `Movp`, `New` and
`Cons` are instructions; the first two end in `Store`: `destroy` of what the destination
held, and the store. `Destroyed` is `destroy`, as deep as `MaxDepth` and `gchalt` let
it go. If it gets to an open file, `freeFD` releases the virtual machine in the middle
(`emu/inferno.c:56`), and the store is two steps: after `BeginDrop` the counts are down
and the pointer still stands in `dst`, with the objects on the way to the file
(`doomed`); other programs run; `EndDrop` frees them and stores `sv`. `Shared` says
whether these others load the pointers under destruction; the properties are claimed
for programs that do not (`Shared = FALSE`). One file is closed at a time, the sweep's
or a program's. Nobody else stores into `dst` meanwhile. One
turn of `rungc`'s loop is one action (`Visit`, `Sweep`); between two of them no
instruction runs, unless the sweep closes a file (`SweepFile`, `FileClosed`), which lets
the virtual machine go with `gclock` held. `Begin` and `EndPass` are the beginning and
the end of a pass over the arena, with `rootset` at an epoch's end.

## 3. Runs

| run | instance | what it shows |
|---|---|---|
| `qlock` | 4 processes, fair | `MutualExclusion`, `NoLostWaiter`, every step is one of `FifoMutex`, and whoever parks in `qlock` gets the lock |
| `rwlock` | 4 processes, `k` first, fair | readers exclude writers, the ignored `canqlock` never matters, waiting writers are not overtaken, all get in |
| `rwlock_hosted` | 3 processes, `x` first | *violated*: a reader beside a writer |
| `rendez` | 3 wakers, 1 killer, fair | no lost wakeup, a ready sleeper wakes, one process meets the sleeper, the signal hits the call it is for, none is left over |
| `rendez_stuck` | 1 waker, 1 killer, fair | *violated*: `swiproc` and `Sleep` wait for each other |
| `alt` | 3 threads, 2 channels, alts that share no direction of a channel, one with an array; assignments to the operands of `p1` | no stale link, offers that match never wait side by side; alts implement `ChanSpec`; an alt returns the alternative that communicated |
| `isched` | 2 vmachines, 1 kernel process, 2 threads, file cycles, fair | one owner, waiters queued, a thread is in one place and freed once; `acquire` is served, also from a vmachine that sleeps |
| `isched_registers` | 2 vmachines, 2 threads, file cycles | *violated*: `rungc` after the rotation saves registers into the wrong thread |
| `qio` | 1 reader, 1 writer, device, control, limit 2, three uses, fair | what leaves is received, in order, nothing is accepted after a close, no sleeper is forgotten, the limit holds up to two blocks, reader and writer wake |
| `mnt` | 3 calls, 2 faults (interrupts, a hang-up), both kinds of server, fair | a reply goes to the call it was sent for, an rpc has one owner, somebody reads while anybody waits, every call returns |
| `export` | 3 requests, up to 3 slaves, 1 flush, shutdown, 2 fids, fair | no request is answered twice, `Export` and fids live as long as their users, requests are answered |
| `gc` | 3 blocks, 2 roots, 2 blocks a call, depth 2, files closed by the sweep and by stores, fair | nothing reachable is freed, counts cover the references, garbage is freed |

Six configurations beside them are for use by hand: `MCIschedFiles.cfg` has three
vmachines and no kernel process; `MCIschedKillgrp.cfg`, `MCQioFlush.cfg`,
`MCQioBlocks.cfg`, `MCAltMoved.cfg` and `MCGcShared.cfg` reproduce what section 4 says of
`killgrp`, `qflush`, long blocks, operands that change and files closed in a store.
The listed runs leave out the shallow invariants: `TypeOK`, which every module has,
`RunqExact` of `Alt`, `LenExact` of `Qio` and `YieldCounts` of `Isched`. They hold in
the same instances, and can be added to any of the configurations.

**Bounds.** The lock runs need no bound. Four processes are enough for the cases that
matter to a lock: a holder, two in the queue in either order, and a newcomer between
unlink and rendezvous; for readers and writers, a reader, a waiting writer, a reader
behind it and one more. Three wakers give two that pass each other at the sleeper and a
third that comes late. Three threads and two channels are enough for a sender and two
alts that compete in both directions. `Vms` and `Progs` bound the births of vmachines
and threads: where the code would start one more, the model's process does not go on.
`MaxYield` bounds `isched.yield` (1 for two acquirers that overlap): from that value on,
no kernel process comes, no builtin comes back from its release a second time and no
sweep or destruction closes another file. The threads of `Isched` are used once and are
all of one group. One reader and one writer are enough for `Qio`: `rlock` and `wlock`
are held for a whole call, sleeping included, so that a second one is not seen by the
queue. `Limit` 2 with blocks of one and two bytes gives a full and a nearly full queue,
a block over the limit and a split; `MaxLen` bounds the queue where the code does not
(`qiwrite`, `qpass`): they add to a queue shorter than that. In `Mnt`, three calls give
a reader and two sleepers, and an rpc that is freed and taken again while two others
wait; two faults give an interrupt of the flush of an interrupted call, two interrupted
calls, or an interrupt before a hang-up. `Tagfls` only keeps the two kinds of tags
apart. In `Export`, three requests give a flush of the last of two with one behind it
(the stale tail), and three slaves that clone, use and clunk one fid at a time. In `Gc`,
three blocks make a cycle of two beside a live object, every order of addresses, and a
chain deeper than `MaxDepth` lets `destroy` go; one file at a time leaves out two closes
that overlap; `Quanta` 2 ends calls in the middle of a pass; `MaxRef` is more than the
two roots alone make. Deadlock checking is off in `Mnt` and `Export` (everybody may be
done), in `Alt` (every thread may end or wait), in `Isched` (the program ends with its
last thread, and the births are bounded) and in `Rendez` (a killer and the sleeper can
wait for each other, which is finding 2); elsewhere it is on.

**Fairness.** A host process inside a call runs on (weak fairness; the host schedules
its processes). A spin for a lock that is free again and again wins (strong; the spin
yields the processor through `osyield`). A holder of a lock gives it back. In `Isched`,
an interpreted quantum ends (2048 instructions, or `R.IC = 1` after a release), a kernel
process gives back what it holds; nobody is made to ask, to come back from the host, or
to kill. In `Qio`, calls in progress go on, and nobody is made to read, write or close;
`WriterServed` assumes in its statement that the queue is emptied again and again. In
`Mnt`, a call in progress goes on, and what a reader waits for comes; no one has to
call, to interrupt or to hang up. In `Export`, `exportproc` goes on once it has a
message, slaves go on and their operations end; nobody has to send. In `Gc`, `vmachine`
calls `rungc` in every round of its loop, and a close ends; programs need not do
anything. `GarbageFreed` assumes in its statement that calls of `rungc` go on that find
no file being closed (`gchalt`).

## 4. What the runs found

The model follows the code; where code and its own words differ, a run shows it.

1. `emu/lock.c:104` releases `x` before `k`; `os/port/qlock.c:94` does it the other
   way round. In between, a reader goes past `canqlock` (line 80: "block writers
   if we are the first reader") and the next writer is let in beside it.
2. `emu/proc.c:66`: `swiproc` meets the sleeper while it holds `r->l`. A sleeper
   that has set `up->r` and not yet passed `lock(&r->l)` never comes ("Pull out of
   emu Sleep", line 57).
3. `emu/dis.c:704`: `rungc` runs after the run queue was rotated and may close a
   file, hence `release`, hence `isave` into the wrong thread
   ("Register set", `include/interp.h:195`).

Seen on the way, and in no listed run:

- `emu/devprog.c:883`: `killgrp` kills a list of pids collected before, and lets
  others run while it closes a victim's files; a thread spawned meanwhile survives ("Kill
  all processes in the same group as the process", `man/html/mpgs110.htm:128`;
  `MCIschedKillgrp.cfg`).
- `emu/qio.c:1030`: `qflush` wakes writers only ("wake up readers/writers", line
  1029). A reader sets `Qstarve`; a producer takes it, appends and calls
  `Wakeup` before the reader has parked; a flush throws the block away; the
  reader parks with `Qstarve` gone, and nobody will call it (`MCQioFlush.cfg`).
- `emu/qio.c:766`: a writer of a full queue sets `Qflow` and goes to `Sleep`. Before it
  is there, a reader takes a block longer than it asked for, finds the queue less than
  half full, clears `Qflow`, puts the rest back, so that the queue is full again, and
  calls `Wakeup`, which finds nobody. The writer then sleeps in a full queue without
  `Qflow`, and the readers that come will not call it until another writer sets the flag
  or the queue is closed. It takes a block whose rest fills half the queue: with
  `BlocksFit` it cannot happen, and without it, it does (`MCQioBlocks.cfg`, which checks
  `SleeperCalled`). The code gives no such bound: `qwrite` makes blocks of up to 128K
  (line 815), and `emu/devcon.c:84` has a queue with limit 512 for lines of up to 1024.
  `FlowedWriterCalled` claims it for all other queues, whatever the blocks: those of
  messages and those that devices fill or empty, where nothing is put back.
- `emu/dis.c:251`, `263` and `interp/alt.c:49`: `isend` and `irecv` leave the address of
  the channel variable for `killprog`, and `alt` the array for `altunmark`. If another
  thread assigns to it while the first waits, `killprog` looks for its victim in the
  queue of another channel (or through a nil pointer) and frees it while it is linked in
  the first; elements that have left an array stay marked. With `Reassigned` TRUE
  `NoStaleLink` is violated (`MCAltMoved.cfg`).
- `emu/inferno.c:56` in `interp/xec.c:192`: `destroy` of the last pointer that leads to an
  open file releases the virtual machine when the counts are 0 and the pointer still
  stands. A program that loads it then has a pointer to what is freed next. With `Shared`
  TRUE `ReachableKept` is violated (`MCGcShared.cfg`).
- `interp/alt.c:31`: a second alt on a channel overwrites the first one's mark ("Single
  prog waiting to receive in ALT", `include/interp.h:90`). The run `alt` has programs
  that do not do that.
- `emu/qio.c:765`: `q->state |= Qflow` without `q->l` can, on a host that loses one of
  two updates, undo a `Qclosed` set meanwhile: the hang-up is forgotten. `Stream`'s
  `shut` and the properties about flags are stated for hosts that lose none
  (`interlocked`).
- `qproduce`, `qpass` and `qiwrite` fill a queue that has been closed, against
  `emu/qio.c:899`: `Stream`'s `shut` is for the other uses.
- `emu/dis.c:695`: after a block, `vmachine`'s rotation moves the next ready thread to
  the tail unrun, so that of three threads two that make each other ready in turn
  can starve the third. Nothing promises otherwise.
- `emu/devmnt.c:710`: `Ehungup` leaves the reader without `mntgate`: `rip` stays set, and
  the rpc is freed while it is on the queue. `Mnt` begins no call after that.
  After a hang-up a reply can also be written to an rpc that has been freed
  (line 778); `FreeOrPending` allows it then.
- `emu/devmnt.c:704`, `816`: an interrupted read of the connection may take a reply with
  it, and an interrupted write of the flush counts as sent. The call waits for an answer
  that will not come, unless it is interrupted again. `CallsReturn` leaves these out
  (`lost`).
- `emu/exportfs.c:253`: a flush that removes the last of several queued requests leaves
  `exq.tail` at the freed one; the next request is linked behind it and never seen.
  `RequestsAnswered` leaves it out (`lost`), and `ExportCounted` counts it as never freed.
- `emu/exportfs.c:277`, `311`: `oshostintr` comes after the unlock, and hits the slave
  where it is by then: a reply, or `rendezvous`, which takes the interrupted
  `semop` (`emu/os-Linux.c:372`) for the meeting. The next `Sleep` there panics
  (`emu/proc.c:18`).
  The model takes the slave that had the request under the lock; the code reads
  `q->slave` after the unlock, when that slave may have freed `q` (line 423), so that it
  may be any process at all. No property depends on which.
- `emu/exportfs.c:551`: a request that fails for want of its fid, or a clone to a fid that
  is there, is on `fs->work` for a moment and holds a reference to its first fid; `Export`
  does not show that. No property depends on it.
- `emu/exportfs.c:561`: a clone that fails leaves its new fid attached; and the server
  answers no `Tflush` with an `Rflush`, which is why `Mnt` has the second kind of server.
- `interp/gc.c:213`: if the block at `ptr` has been freed and joined to the one
  before it, the pass starts again; programs that do that to every pass keep all cyclic
  garbage. `GarbageFreed` assumes that it happens finitely often.

## 5. Proofs

`SyncProofs` proves of `QLock`, for every set `Procs` and every `NoProc` outside
it (`ProcsAssumption`):

- `QLockTypeCorrect`: `QLockSpec => []QLockTypeOK`;
- `QLockExclusion`: `QLockSpec => []MutualExclusion`;
- `WaitersKept`: `QLockSpec => []NoLostWaiter`;
- `Refinement`: `QLockSpec => ImplementsFifoMutex`.

Neither `MutualExclusion` nor `NoLostWaiter` is inductive. The inductive
invariant adds what the code relies on without saying so: `use` names exactly
the process at a line under the spin lock; `locked` is set exactly if some
process *carries* the lock, that is, holds it or is handing it over; there is
one carrier at most; a process in the queue is parked; nobody waits if the lock
is free; and a process being handed the lock is parked and no longer in the
queue. With that, exclusion is the uniqueness of the carrier, and the refinement is
one step for each action: `QlockFree` and a successful `CanqlockTake` take,
`QlockWait` enqueues, `QunlockPass` passes on, `QunlockDrop` drops, and all others,
`Rendezvous` too, leave `owner` and `waitq` alone.

It proves of `RWLock`, for every set `Procs`, finite or not, and the
order of the native kernel (each theorem assumes `KFirst`; in the hosted order
`ReadersExcludeWriter` is false, finding 1):

- `RWTypeCorrect`: `RWSpec => []RWTypeOK`;
- `RWExclusion`: `RWSpec => []ReadersExcludeWriter`;
- `KeptByReaders`: `RWSpec => []KFollowsReaders`;
- `NotOvertaken`: `RWSpec => WriterNotOvertaken`.

The inductive invariant has three parts beside the types. `XInv`: a process between its
`qlock` and its `qunlock` of `x` owns `x`, who asks for it owns it or is queued once,
and an owner is at one of these places. `KInv`: a writer owns `k`, a process at
`qlock(&l->k)` owns it or is queued, and the queue has one member at most, behind the
readers. `CountInv`: the readers are finitely many, `readers` counts them and `k` is
`Readers`' exactly while it is positive. `XInv` makes the process that has come through
`qlock(&l->x)` the only one that could be writing or waiting for `k` (lemma
`ComeThrough`), so that `k` is free or the readers' when `rlock` tries it. This is where
the order of `wunlock` comes in: with `x` given back first, `k` is still the writer's.

And it proves of `Rendez`, for any wakers and killers (`RendezAssumption`):

- `RendezTypeCorrect`: `Spec => []TypeOK`;
- `WakeupKept`: `Spec => []NoLostWakeup`;
- `MeetsAlone`: `Spec => []OneMeeter`;
- `SignalTaken`: `Spec => []SignalInHostCall`;
- `InterruptTaken`: `Spec => []NoStaleInterrupt`.

None of the four is inductive alone. `LockInv`: `r->l` is held by exactly the process
between `lock` and `unlock`. `LinkInv`: `r->p` and `S->r` are set only while the sleeper
is in its `Sleep`, and clear as soon as somebody is in `rendezvous` with it, so that the
next one finds nobody to meet. `SignalInv`: `intwait` stands for one signal, about to be
posted by one killer or posted; this is what keeps `osleave` waiting until the signal
has come. `IntrInv`: `swipend` is set only in a call that has yet to take it back.
Finding 2 contradicts none of these: it is a deadlock.

`IschedProofs` proves of `Isched`, for any vmachines, kernel processes and threads, with
and without file cycles, and for any `MaxYield` (`IschedAssumption`,
`NobodyAssumption`):

- `TypeCorrect`: `Spec => []TypeOK`;
- `MachineIsOne`: `Spec => []OneMachine`;
- `WaitersKept`: `Spec => []WaitersQueued`;
- `ThreadsOnePlace`: `Spec => []ThreadInOnePlace`;
- `ThreadsFreedOnce`: `Spec => []FreedOnce`;
- `YieldsCounted`: `Spec => []YieldCounts`.

The invariant has three layers. `MInv` is about the machine alone: it is idle, or one
process is at a point that has it or is handing it over (`HolderInv`); who waits is on
`vmq` or is met by that one, never both (`VmqInv`, `HandInv`); `irend.p` sleeps there.
`TInv` is about the threads, and needs `MInv`: since only an owner touches the run
queue, what is at its head is what the owner works for (`HeadInv`); the queue is the
ready threads and at most the owner's own `Prog` (`RunqInv`); a vmachine away in the
middle of an instruction keeps a thread that no one else has (`IprogInv`); and a thread
being deleted is nowhere else, or is the one its deleter runs for (`VictimInv`). The
last is what lets `delprog` close files, and others run meanwhile, before it frees.
`RegistersOwn` is false (finding 3). `YieldInv` is about the order on `vmq`: there is an
`n` up to `isched.yield` such that the first `n` on it, and no others, come back to
finish something (`InFront`). `acquire` makes it one more at the head, `startup` and
`iyield` link behind, and `release` and `iyield` take the head; it needs `MInv` and
that whoever released the machine comes back to finish something (`GivenInv`).

`AltProofs` proves of `Alt`, for any finite set of threads, any channels and any alts
(`AltAssumption`), where no thread is unlinked after an operand of its was reassigned
(each theorem assumes `Reassigned = FALSE`; otherwise they are false, section 4):

- `TypeCorrect`: `Spec => []TypeOK`, and `RunqKept`: `Spec => []RunqExact`;
- `LinksKept`: `Spec => []NoStaleLink`;

and for programs whose alts satisfy `OwnAlts`, which each of these theorems assumes too:

- `AltsFound`: `Spec => []AltFindable`;
- `PartnersMeet`: `Spec => []NoMissedPartner`;
- `ChannelsImplemented`: `Spec => ImplementsChannels`.

`LinkInv` (types, `RunqExact`, `NoStaleLink`) needs nothing of the programs but that:
whatever a thread was linked to when it blocked, `altunmark` and `killprog` unlink.
`MatchInv` adds that a thread waits in an alt of its own program that `altrdy` accepted,
that it is found through each of its channels, and that no two offers match. It is false
without `OwnAlts`, since the second alt takes the mark of the first ("Single prog
waiting to receive in ALT", `include/interp.h:90`). `MCAlt` assumes `OwnAlts` of its
instance, and TLC evaluates it there. The refinement maps a thread to what it waits for.
A communication is `ChanSpec`'s of two threads; blocking is its offer, and needs
`Unmatched`; a kill is its withdrawal; everything else is a stutter.

`GcProofs` proves of `Gc`, for any number of blocks and roots and any `Quanta`,
`MaxDepth` and `MaxRef` above zero (`GcAssumption`), if no program uses the
place where another is in the middle of a store (each theorem assumes `Shared = FALSE`;
stores there are left out of the model):

- `TypeCorrect`: `Spec => []TypeOK`;
- `ReachableSafe`: `Spec => []ReachableKept`;
- `CountsCover`: `Spec => []RefCovers`.

`GcInv` is about the heap as it will be when the store under way is done: `inuse` leaves
out the objects that have lost their last reference, and `points` has `sv` in the place
of what is being destroyed. In these terms `BeginDrop` does what `Replace` does, and
`EndDrop` changes nothing; `DropInv` says what makes it so: nobody has stored in `dst` or
in the doomed objects, which point to each other or to nothing and have counts of 0.
`Live` are the objects in `inuse` that this epoch does not sweep. `GcInv` says that
roots and live objects point to live objects only (`Kept`); that the count of a live
object covers its holders among them (`Covered`); that a root, and an object with the
mutator's colour, points to mutators and propagators only (`TriColor`); that behind
`ptr` there is no sweeper, nor, while `nprop` is zero, a propagator (`BehindPtr`); and
where a call of `rungc` stands (`WalkInv`). With `Kept`, `Reachable` is within `Live`.
At the end of an epoch `BehindPtr` leaves mutators and markers alone, and by `TriColor`
nothing that was marked points to a marker: these are the next epoch's sweepers, and the
roots of a closed set are marked for the next one. For the instructions the argument is
what `destroy` frees (`Doomed`): live objects all of whose holders go too, never the one
that the instruction writes to, which a root holds. `destroy` is recursive and the
number of its levels is `Levels`, so this is an induction over the depth, by sets
(`InductiveSet` of `QueueFacts`).

`MntProofs` proves of `Mnt`, for any number of calls, interrupts and hang-ups, any first
flush tag above the tags of the rpcs, and both kinds of server (`MntAssumption`):

- `TypeCorrect`: `Spec => []TypeOK`;
- `RepliesOwn`: `Spec => []ReplyIsOwn`;
- `RpcsOwned`: `Spec => []FreeOrPending`;
- `GateKept`: `Spec => []SomebodyReads`.

`MntInv` has four parts, of which two hold only up to a failure. The types and
`PlaceInv` always do: a call has an rpc from `mntralloc` to `mntfree` and there are no
more rpcs than calls (`CallInv`), and only the process in `rip` reads (`ReaderInv`).
`OwnInv` holds until a reader fails with `Ehungup`, which frees what is queued: an rpc
is free or one call's (`FreeInv`), what is queued is not done (`QueuedInv`), a call
about to return is done and off the queue (`LeftInv`), so that what it frees is nowhere
else. After a hang-up a late reply may complete an rpc that has been freed and taken
again; `QueuedInv` and `TakenInv` then say that its new owner is one that has not sent.
`NetInv` holds until the hang-up. A request whose answer is to come has the tag of its
call's rpc, which is not done, and an `Rflush` matches no rpc on the queue but its own
call's (`AskedInv`, `ReadInv` for what a reader holds); this needs that no two rpcs have
one flush tag (`FlushInv`), and that a server which has answered a flush answers the
request no more. A call that is not done is on the queue or in `mountmux`'s hands
(`WaitInv`), and the gate is kept in a form stronger than `SomebodyReads`: whoever comes
to it, or is about to be woken, has its own reply outstanding (`GateInv`), for otherwise
it would return without reading.

`ExportProofs` proves of `Export`, for any number of requests and flushes
(`ExportAssumption`):

- `TypeCorrect`: `Spec => []TypeOK`;
- `RepliedOnce`: `Spec => []AnsweredOnce`;
- `ExportKept`: `Spec => []ExportCounted`;
- `FidsKeptRight`: `Spec => []FidCounted`.

The invariant is about who has a request. One that is not freed is on the queue, with
one slave, with `exflush`, or lost behind a stale tail, and never in two of these places
(`OnePlace`); `fs->work` names requests in the hands of a slave that is in the file
operation, while a slave between `exq` and `fs->work`, or at its reply, is in neither
list (`WorkServed`): this is the gap that a flush or the shutdown may look into. The
reply is sent in the step that frees the request, so that a request has one answer or
none, and none as long as it is in some place (`AnsweredWhenFreed`); `AnsweredOnce`
alone says nothing of a request still to be answered and is not inductive. `fs->r.ref`
and the count of a fid are cardinalities, of the requests not freed and of the slaves
that use the fid; the operations change such a set by one member, or not at all, and
`FidsOK` has with the count when the fid is there. Nothing of `exq.qwait` is needed but
its types.

`QioProofs` proves of `Qio`, for any readers and writers, limit, length of blocks and
use (`QioAssumption`):

- `TypeCorrect`: `Spec => []TypeOK`, and `LenRight`: `Spec => []LenExact`;
- `BoundKept`: `Spec => []QueueBounded`;
- `QueueIsStream`: `Spec => ImplementsStream`;
- `ReaderCalled`: `Spec => []StarvedReaderCalled`, for queues that are not flushed while
  processes read them (`FlushRead = FALSE`);
- `WriterCalled`: `Spec => []FlowedWriterCalled`.

Without its assumption `ReaderCalled` is false (section 4, `MCQioFlush.cfg`); the others
need none. `FlowedWriterCalled` itself leaves out pipes with blocks that do not fit
(`PutBackFits`; `MCQioBlocks.cfg`). `IInv` says what the queue holds (`Data`: blocks
neither empty nor too long, and `q->len` their length); that a process that reads has
`rlock`, one that writes `wlock`, one in a section `q->l`, and a sleeper is in `rr` or
`wr` (`Places`); that the rest of a block exists only while a reader puts it back
(`Parting`); what an update of `q->state` starts from (`Flagged`: the word that was read
under `q->l` has `Qclosed` if the state has it, and is the state itself where no update
is lost; a writer about to set `Qflow` has read a word without `Qclosed`); and that a
writer past the test of `qnotfull` adds to a queue not full but for the rest of one
block (`Bounded`), from which the two blocks over the limit come. `StarvedReaderCalled`
and `FlowedWriterCalled` speak of a process that sleeps, and are not inductive: a
process on its way to `Sleep` has to be covered. `ReadersCalled` adds that a reader
there has its `Qstarve` in the state or something to read; `WritersCalled` that a writer
there has its `Qflow` or `Room`, also for what is being put back. The refinement has
`Content` as a sequence of units: an append is a suffix; a taken block, or the part of
it that is not put back, a prefix, and that is what `got` then has (lemmas
`FlattenAppend`, `FlattenCons` of `QueueFacts`, and `UnitFacts`); the second half of a
split changes nothing.

`QueueFacts` has the lemmas these proofs share: what `Append`, `Tail`, `RemoveFirst` and
a link at the head do to the members of a queue that has each once, what `FlattenSeq`
makes of a list with a block more at either end, and the least element of a set of
naturals.

Out of the prover's reach and left to TLC: liveness (`ParkedEventuallyHolds`,
`AskersGetIn`, `ReadySleeperWakes`, `AcquireServed`, `ReaderServed`, `WriterServed`,
`CallsReturn`, `RequestsAnswered`, `GarbageFreed`), which needs fairness and `ENABLED`.
Of safety, every invariant and action property of the runs is proved but for
`AltResultRight`, which is about how far `altdone` has counted (a fold over the entries)
and is left to TLC; and of the shallow
invariants all those named in section 3.

## 6. Plan

In this order; each module with its runs before the next.

1. **`Mnt` with `Export`** through a queue of messages: the flush protocol end to
   end, with the server the hosted system has. Three calls and one flush.
2. **`Kproc`** (`os/port/proc.c`, `os/port/taslock.c`): `sleep wakeup swiproc
   ready sched`, interrupt level, priority of a spin lock's holder.
3. **`RefCount`** (`emu/chan.c`, `emu/ns.c`), candidate: channels and mounts
   against close and unmount.

New runs replace weaker ones.

## 7. Not modelled, and why

Pure translation and layout (Limbo compiler, loader, Styx marshalling, just-in-time
compilers, graphics, Tk, Prefab, keyring, applications) has no interleaving a model
would explore. The native protocol stack is a system of its own. The memory pools are an
algorithm on data under one lock; `Gc` has their joining of free neighbours. Inside
modelled parts: the debugger and the handling of Dis exceptions (`emu/dis.c`), the
host's own calls and the semaphores that `rendezvous` is made of (`emu/os-Linux.c`), the
instructions of `xec.c` that only compute, `qdiscard`, `qcopy`, `qsetlimit` and the kick
routine of `qio.c`, messages that arrive in parts, the wrap of flush tags and all that a
failed connection leads to in `devmnt.c`, several connections over the one `exq` and the
file operations themselves in `exportfs.c`, and in the collector types that mark or free
their own way, objects of several pointers, blocks of several sizes, several arenas. The
native counterparts (`os/port/dis.c`, `os/port/qio.c`, `os/port/devmnt.c`) repeat the
hosted sources with small changes; of them only the order in `wunlock`, and the queueing
lock as `FifoMutex` states it, are modelled.
