# cfgd: a verification project

cfgd (also called jess) is a configuration service. Clients read and write
settings named `dir.archive.scope.field` over TCP; the service keeps them in a
tree, mirrors the tree into a file image of fixed layout, and writes that image
to `configure.db` when it is told to, or by itself after a while. It can save
the image as a checkpoint and go back to one. It is built on naxfw, a small
library of sockets, threads and containers.

This directory holds TLA+ models of it, the TLC configurations that check them
on small instances, and TLAPS proofs of what matters most. `PROJECT.json` lists
components, runs, mutants, the source lines behind every definition, findings,
hazards and theorems.

## Inventory

| Part | Source | State | Operations | What is hard | What makes it correct |
|---|---|---|---|---|---|
| Persistence | `fs/virfs.c`, `fs/checkpoint.c`, `pro/manage.c` | tree, `cache`, `config`, `configure.db`, swap file, checkpoints, `count_overwritten`, `permit_override` | write, sync, fsync, checkpoint, recover and recover2, rmdir `/`, flush tick, startup | three threads share the memory image and the files; a recover is split over two of them; every file operation can fail | a sync reaches the disk, a database that can be loaded is never replaced by one that cannot, a recover delivers the checkpoint |
| Task queues | `pro/order.c` | two queues of at most 100 tasks, `pending_fsync` | dispatch, rotate, complete | tasks are dropped when a queue is full | never two fsyncs at once, latches are released |
| Layout | `fs/virfs.c`, `fs/inner.c`, `fs/virfs.h` | bit mask, 128 directories, 256 archives | mkdir, rmdir, create, delete, load, renumber | ids, section numbers, names and bits describe the same thing four times | a node's section is its archive's slot; no section leaks |
| Tree | `runtime/runtime.c`, `ldr/ldr.c` | directories, archives, scopes, fields, arrays, each with its JSON item | search, update, append, delete, load | arrays are renumbered by deletion; a command fails half way down its key | tree and JSON agree; a command changes what its key names and nothing else |
| Commands | `pro/variable.c`, `pro/manage.c`, `fs/proc.c` | the tree, the documents in the file system, the list of checkpoints | read, write, scope, contain, scan, file, mkdir, rmdir, checkpoint, recover | an archive lives in the tree and in the file system | what was answered ok is stored |
| Request parser | `runtime/request.c` | none | split a payload into sections, a key into segments and subscripts | limits | what it accepts is well formed |
| JSON | `ldr/cJSON.c` | none | parse, print, compare, duplicate, minify | buffers that grow or are given; nesting; escapes | what is printed is read back; nothing past the buffer |
| Client links | `ldr/interact.c` | a context per link with its window and subscriptions, the list of clients, two recursive locks | accept, receive, respond, subscribe, publish, keep-alive, preclose | callbacks of the network threads against workers and keep-alive | the window balances, publications are exact, silent links go |
| Objects | `naxfw/src/posix/wosi/object.c`, `refs.c` | table of handles, reference counts | allocate, refer, release, close | close while referenced | freed exactly once, after the last reference |
| TCP links | `tcp.c`, `tcpio.c`, `io.c`, `ncb.c`, `mxx.c` | socket, epoll registration, read handler, callbacks | create, listen, accept, connect, connect2, wake-up, destroy | system calls fail half way; hang-ups during set-up | callbacks in order, nothing left behind |
| Send queue | `fifo.c`, `wpool.c`, `tcp.c` | unsent packets, overflow flag, write tasks | write, retry | queue emptied while another thread fills it | packets whole and in order; nothing queued is forgotten |
| Framing | `tcpal.c`, `windows/tcp.c` | partial head, partial packet, large block | parse | packets split anywhere; a limit, and memory that runs out | packets arrive whole; a link is lost at no other packet than one that may be refused |
| UDP, pipes | `udp.c`, `udpio.c`, `pipe.c` | socket; one pipe per epoll thread | create, destroy, read, wake up | messages that name a closed link | as for TCP links |
| Containers | `avltree.c`, `cfifo.c`, `addons/dict/dict.c` | balanced tree; ring; hash table with two tables | insert, remove, put, get, resize, rehash, scan, iterate | rotations; wrapping counters; scans over a table that is resized | order and balance; first in, first out; no key missed |
| Digests | `hash.c` | MD5 context | base64, CRC, DES, MD5, SHA-256 | message ends near the place of the length; carry; empty pieces | the published codes |
| Log | `logger.c`, `wosi/threading.c` | nodes, count, warning, event | log_save, the thread's flush | count, node and wake-up are taken in separate steps | every record printed once, in order |
| Windows port | `naxfw/src/windows/*.c` | objects, packets, completion ports | the calls and their completions | a packet completes before its call returns | packets freed once and never lost |

How they interact: the network threads of naxfw call `jnet_on_receive_data`,
which hands each request to `pro_receive_data`. That builds a task and appends it
to the queue of one of two worker threads: **PRO** runs everything that touches
the tree and the cache, **DPC** everything that touches files for long
(`fsync`, `checkpoint`, `recover`). PRO's `sync` copies the cache into `config`
and posts an `fsync` to DPC; DPC's `recover` replaces the database and posts a
`recover2` to PRO. The **flush** thread wakes every second, and posts a `sync`.
The shared state is `config` (under `cache_lock`), `count_overwritten`,
`permit_override` and `pending_fsync` (atomic), the files and, against its own
rules, the tree (see hazards).

## Modules

### JessPersist: how settings reach the disk and come back

An *image* is the content of the file layout: one value per archive.
Variables and code:

| Variable | Code |
|---|---|
| `tree` | the configuration tree (`ldr.c`, `runtime.c`) |
| `cache`, `config` | `__fs_server.cache`, `__fs_server.config` |
| `disk`, `swap`, `ckpt` | `configure.db`, the swap file, the checkpoint files; `NoFile` is a missing file, `Torn` one that is empty or partly written |
| `orphan` | the file PRO has open as the database after another was renamed over it |
| `count`, `permit`, `pending` | `count_overwritten`, `permit_override`, `pending_fsync` |
| `proQ`, `proAt`, `proTask`, `dpc...`, `buffer` | queue and handler of each worker, and the heap copy a DPC handler works on |
| `writes`, `seconds`, `flushAt` | locals of `fs_flush_check` |
| `todo` | bounds what the clients send |
| `acked` | history: the settings when a client's sync was last answered ok |

A handler that touches shared state more than once is split where another thread
can come between: `fs_sync` into `SyncPermit`, `SyncCount`, `SyncCopy`,
`SyncAppend`; `fs_fsync` into `FsyncPermit`, `FsyncCopy`, `FsyncWrite`,
`FsyncRename`, `FsyncDone`; the recover into four steps on DPC and five on PRO.
What a handler does between two such points touches nothing shared and is part of
the step. Calls into the operating system fail when `Faults` allows it, with the
effect the code gives to the failure: an ignored result stays ignored
(`SwapDatabase`), an early return leaves the latch as it is (`FsyncPermit`,
`FsyncCopy`, `FsyncWrite`).

Loading is three steps, the same ones for a recover and for the start of the
service. `OpensTo` opens `configure.db` or creates it empty; one of the wrong size
is then written over in place (`RemakesTo`) from a buffer that
`fs_zerolization_range` leaves uninitialised but for four bytes, an arbitrary
image; `ReadsTo` reads it. When memory fails, the write is short or the process is
killed in between, the file stays `Torn`. A read that returns fewer bytes than
asked for counts as success, and the rest is what the heap held (fault `short`).
An fsync may rename another file over the one PRO has open: `orphan` is what PRO
then writes and reads. `Kill` is the process killed at any point; `Boot` is the
next start, step by step, which may fail or be killed itself. A start that had to remake the
database deletes it again and collects the settings from the old config files
(`BootCollect`).

Abstracted: a request carries one item (the code runs the handler once per item);
the content of an archive is one value, and whether it fits the 8 KB slot is part
of the request; the numbers 60, 300, 900 seconds and 10, 10000 updates are
constants whose order is kept; entries of `proc` are not part of an image.

### JessFs: the layout

`mask`, `dir`, `archive` are the fields of `struct fs_config_layout`; `treeDirs`
and `node` are the two upper levels of the tree, a node being known by its
section. Only PRO touches any of this, so an action is a whole request: `Mkdir`,
`CreateArchive` (the archive branch of `rt_append`), `DeleteArchive`, `Rmdir`,
`RmdirAll`, and `Reload` (`fs_update_seq`, `ldr_load_filesystem`,
`procfs_rebuild`). Names are compared as equal or not (the code ignores case).
`rt_remove_dir` reads its node after it has been freed to call
`fs_override_file`; a directory node has no JSON, so the call returns at once,
and the model has no step for it.

`Init` is the empty database (`Blank`) or one left by an older version, whose
directory ids follow another numbering (`Older`: any distinct positive ids). The
latter is loaded first: `loaded` tells whether it was, and `Next` admits requests
only after that, because `entry.c` creates the threads that take them
(`pro_create`) after `ldr_load_filesystem`. The proofs are about all older
databases; `MCJessFs` enumerates those with small ids and with ids that other
indices will get (`FsSpec`).

### NaxTx and NaxObject: one TCP link and the threads that share it

`NaxObject` states what the handle table of naxfw (`object.c`) promises of one
object: whoever obtained a reference may use it until he gives it back, nobody
obtains one after a close was asked for, and the object leaves the table, and is
freed, once, when a close was asked for and nobody holds it. It names the holders;
the code only counts them.

`NaxTx` is an established link:

| Variable | Code |
|---|---|
| `where`, `status`, `refcnt` | entry of the handle table; `removed` is unlinked with the unloader (`ncb_deconstruct`) still to run |
| `fifo`, `overflow` | `ncb->fifo`: unsent packets and `tx_overflow` |
| `cur`, `pc` | the packet a sender works on; where each thread is |
| `tasks` | tasks of this link in the write pool |
| `interest`, `ready`, `nospace`, `events` | epoll registration, ready list, owed wake-up, the events handed to the epoll thread |
| `sock`, `rx`, `inbuf` | the kernel's socket: connection state, unparsable input, units in the send buffer |
| `stream` | history: every unit handed to the kernel |

Threads: callers of `tcp_write` (`Write...`), the write-pool thread (`Wp...`:
`_wp_run`, `_wp_exec`, `tcp_tx`, `fifo_pop`), the epoll thread the link is bound to
(`Ep...`: `_iorun`, `_io_rdhup`), callers of `tcp_destroy` or `ncb_uninit`, and
the peer. A region under a lock is one step, and so is a system call. `fifo_pop`
is two steps, because its `io_modify` comes after the unlock. A task is taken from
the pool's list in the step that takes the reference, and put back in the step
that gives it up: nobody else takes tasks, and adding one commutes.

External: the kernel. `send(2)` takes what there is room for, or returns EAGAIN
and owes a wake-up; epoll is edge-triggered, a registration polls at once, and an
event is reported with what holds when it is collected. The peer reads, closes,
resets, or sends what `tcp_parse_pkt` refuses. Left out: failing allocations,
EINTR (retried at once), input that is accepted (it changes nothing here), the
callbacks, and accepting (`Init` is the state after the accepted callback). The
log line of `ncb_uninit` that reads `ncb->hld` without a reference is listed under
hazards, not modelled.

### JessRequest, JessTree, JessService: what a request does

`JessRequest` is the parser on texts of tokens: the characters it looks at are
tokens, any other run of characters is one. `JessTree` has the operators on one
archive. The code keeps an archive twice, as a tree of nodes it searches and as a
JSON document it prints, and every node points to its JSON item and to that item's
parent; the model has both heaps and the pointers, because the ways they come
apart are in the pointers. `rt_search`, `rt_config_update`, `rt_append` and the deletions
keep their order of effects, so that a section that is refused half way has made
what it made. Names are folded to one case, as both structures compare them.

`JessService` has the state: `tree`, `file` (the documents the memory of the file
system holds), `cps` (checkpoint files), `todo` (sections of the running request).
`Receive` parses a payload, `Execute` runs its next section (`pro_variable_write`,
with `fs_override_file` at its end; deleting a checkpoint entry deletes the file),
the other actions are mkdir, rmdir, rmdir `/`, checkpoint and recover. The
reading commands change nothing; `ReadsAgree` evaluates them in every state. All
of this is the PRO thread, one command after another. `procfs_add_checkpoint`
runs on DPC in the code (`manage.c:56`) and changes lists PRO may be walking; that
race is listed under hazards and not modelled. Numbers are what `Atof` and `Fmt3`
make of texts: a text and its number differ, as in the code.

### JessLink: clients

Threads: the acceptor, one event thread per link, the PRO worker, the keep-alive
thread. `obj` is the handle table's entry (reference counting as in `NaxObject`),
`ctx` the pointer set by `NI_SETCTX`, `node` the context, `clients` the list,
`held` the owner and depth of `list_client_locker` and `client_context_locker`,
which are recursive. `closing[t]` is the close callback running in thread `t`:
whoever gives back the last reference runs it, inside whatever else it was doing.
A thread that uses a context which is freed or was never set ends the process
(`dead`); the code does reach that, see below. Links of `Established` are accepted
when the behaviour starts. Abstracted: only the PRO queue, since DPC answers the
same way; the two references an event thread takes one inside the other are one;
`MaxEvents` bounds requests, hang-ups and silences together.

### NaxLink: the life of links

Many links, the threads that configure them (`Openers`), those that destroy or
wake them (`Closers`), the epoll threads (a link belongs to thread `handle mod
nprocs`) and the write-pool thread. A link is its table entry, its `ncb` and its
socket in the kernel; `log` is the history of its callbacks. A region under a
lock, a system call or a callback is a step. `Fault` is a failing system call or
allocation, with the clean-up the code has for it. A read passes one unit to the
user; sending is in `NaxTx`. Assumed of the user: a link is configured by one
thread at a time and either listens or connects. External: the kernel's sockets
and epoll, as in `NaxTx`. `Object(h)` is `NaxObject` for the link `h`, whose holders
are the threads inside a call, handler or accept with it; a handle not given out
yet is an object nobody refers to, and creation obtains its first reference.
A failed creation gives the reference back (`Undo`) and closes the object
afterwards, holding nothing (`Discard`), under the table's lock each time.

### The sequential algorithms

`MCData` puts seven of them into one specification: a behaviour works on one
`subject` and leaves the others alone. Each is compared with a definition
written independently of it.

| Module | Code | Against |
|---|---|---|
| `NaxAvl` | `avltree.c` | the set of keys, order, balance, true heights |
| `NaxRing` | `cfifo.c` | a queue; counters are numbers mod `Wrap` |
| `NaxFraming` | `tcpal.c` | the packets of the stream, however it is cut; which packets may be refused |
| `WinFraming` | `windows/tcp.c`, parser | the same, each packet with its head if the link asked for it (`nisdef.h:61`); `Framing` puts the two side by side |
| `NaxDict` | `dict.c` | the set of keys; keys there from start to end of a scan or an iteration |
| `JessJson` | `cJSON.c` | a grammar, structural equality, reading back what was printed |
| `NaxHash` | `hash.c` | positional notation, bitwise division, padding rules, published vectors |

Both framings have the limit on a packet's length and the `malloc` of a large block
that fails. On Linux the link is then closed (`dead`); on Windows it stays open and
asks for nothing more (`failed`). A packet that is refused, or might be for want of
memory, is a `Refusable` one or a `Stopper`: the properties say that a link is lost at no
other packet, after all before it were given.

`JessJson` edits seed texts with words, so that the parser meets documents, near
documents and garbage. The grammar it is compared with decodes escapes, UTF-16 and
UTF-8 by itself and shares no operator with the parser. It takes four liberties
over from the code, since cJSON is lenient there by design: a blank is any
character up to 32, strings may hold control characters, numbers may begin with zeros,
and anything may follow the document. Texts with a `\u` that is not followed by four
hexadecimal digits are excepted (`LooseEscape`): the code accepts them, see below.

`NaxHash` keeps the block functions of MD5 and SHA-256 out: a digest is the sequence
of blocks it absorbed. Messages come in parts, of which any may be empty; the lengths
of a first part for MD5, and of a message for SHA-256, are all of 0 to 130, which covers
every place a message can end in its last two blocks. What the code refuses (nothing
to encode, decode or digest by SHA-256, a text that is no whole number of DES blocks)
answers `Refused`; a checksum continued with an empty piece answers 0.

### NaxLog: the asynchronous log

`pending`, `danger`, the two lists of nodes, the event (`pass`, `sync`) and the
open files. A writer counts, looks at the warning, takes a node, fills and queues
it, and wakes the thread; the thread waits, takes nodes, prints, recycles, and
counts down. The event is of either category, since the worker threads of
`order.c` use the other one. Assumed: only the thread flushes and prints, as in
this program; fewer writers than `SafeBelow` (100 in the code). A change of day is
a nondeterministic reopening of the file.

### WinLink: the Windows port

An operation is a packet; `kernel` holds those posted and not completed. A thread
is the stack of what its call has still to do, so that a completion may be
dispatched between any two steps of the call that posted it. `iopp` counts the
two, and the second frees the packet. Memory (`NLinks`, `NPackets`) runs out.
Numbers of objects and packets are used once, so that a stale one is recognised.
A zero-byte completion, a failed one and a synchronous error may come at any
time, and parsing may fail at any time (`WinFraming` has the bytes).

`tcp_accept` is called by `tcp_listen` (`accept`), which answers with an error, and
again by a port that completed an accept (`again`), which closes the listener when
no further accept could be made, for want of a packet, of an object or of anything else
(`NotMade`, `tcp.c:672-674`). `connecting` is the link whose connect a thread completes.
When its first receive cannot be made, the thread gives its reference back and only
then reads the handle in the object to close it (`CloseAfter`, `tcp.c:848-849`). If
the link was closed meanwhile the object is already freed: `stale` records such a
read, and nothing is claimed of what follows it.

## Runs

| Run | Shows |
|---|---|
| `persist_recover` | One checkpoint and one recover among three updates, of which one outgrows its slot, a client's sync and those of the flush thread, nothing failing, queues long enough: what PRO loads at the end is the checkpoint (`RecoverDelivers`), and the permission returns (`PermitRestored`). |
| `persist_faults` | Every kind of request once and recover twice, queues of length 2, every fault: short reads, the process killed also while a load creates `configure.db` or writes it over: at most one fsync (`AtMostOneFsync`), and a database that can be loaded is never replaced by one that cannot (`DatabaseKept`). |
| `persist_sync_lost` (violation) | A sync answered ok that writes nothing. |
| `fs` | All sequences of operations on three directories and three archives, from the empty database and from all old ones with any of four old ids: mask, ids, names and nodes stay consistent, only last slots can be lost by a load, archives keep their directories. |
| `tree` | All sequences of five commands out of 13 payloads, mkdir, rmdir, checkpoint, recover: nodes and document are the same thing (`NodesMatchDocument`), reading agrees with it (`ReadsAgree`), a command changes what its key names and nothing else (`UpdateExact`), what was answered ok is in the file system (`AnswerStored`), `proc` lists the checkpoints (`CheckpointsListed`). |
| `tx` | A sender, the pool, epoll, a closer, any peer: no use after free, packets leave whole and in order, the handle table implements `NaxObject`, and a link that is closed or broken is freed at last (`CloseCompletes`). |
| `tx_stuck` (violation) | A queued packet that is never sent. |
| `data` | The sequential algorithms against their references, with refused packets, empty messages and empty pieces. |
| `nax_link` | Creation, listen, accept, both connects, wake-up, destruction, a peer that sends, closes or resets, two failing calls: callbacks in order and nothing left behind (`CallbackOrder`), the count is the number of holders (`HeldIsCounted`), each link is an object of `NaxObject` (`ObjectsKept`), a hang-up closes the link (`HangupsClose`). |
| `jess_link` | Two clients: the window is the number of unanswered requests (`WindowExact`), what is walked is alive (`ListedAlive`), each publication reaches exactly its subscribers (`PublishExact`), a silent link is dropped (`SilentDropped`). |
| `win_link` | One link and one it accepts, one caller, two ports: nobody touches a packet freed by its phase (`FreedByPhase`), no packet is lost (`NoneLost`), no object goes while a thread has a reference to it to give back (`HeldIsAlive`). |
| `log` | Two writers and the thread: the count never lets in a record without a node (`CountCovers`), records are printed once and in order (`PrintedInOrder`), the warning goes off (`WarningRelieved`), no wake-up is lost (`NothingStays`). |

Every property of a passing run has a mutant: a definition changed as a plausible
bug would change it, under which TLC finds the property violated.

Bounds.

- `JessPersist`: one archive, because no handler distinguishes archives; two
  values tell an old image from a new one. Each request is sent once or twice:
  the races found need one request of each kind and the thread that is late.
  `MaxPending` is 7 where no task may be dropped (there are never more) and 2
  where drops are wanted.
- `JessFs`: three slots give a first, a middle and a last one, and there are more
  names than slots.
- `JessService`: five commands suffice to build an array of objects, put an array
  into one of them, delete before it and read; documents of seven items fill an
  archive's slot, so that the refusal of a longer one happens.
- `NaxTx`: a packet is two units and the buffer holds one, so that every packet is
  cut; the second packet finds a queue of one full. A queue of two and three
  packets (1.9 million states) passes too, but takes five minutes.
- `MCData`: seven keys give every rotation of the AVL tree; the ring's counters
  wrap at 16 with a buffer of 4; the streams have heads of one to three bytes and
  packets up to twice the buffer, with a limit of 9 and bodies of 10 over it, and
  empty bodies; `WordBits` = 11 makes the carry of MD5's 32-bit
  counter happen within three updates; CRC is compared on up to five bytes in two
  parts, of which either may be empty. The words put into JSON texts include an
  escape with a G among its digits. Left out: on Linux, packets over the buffer whose
  head of several bytes may be cut (`HeadsKept`); on Windows, packets over the buffer on
  links that want the head (`FullFits`), both described below; and `e`, `E` and `.` in JSON numbers.
- `NaxLink`: one link the user makes and one that is accepted, two calls after the
  creation, one move of the peer, two faults. Three calls on inet links alone
  (544 thousand states) pass too.
- `JessLink`: a window and a queue of one make both limits happen with two events.
- `WinLink`: two packets and two objects make memory run out; five calls.
- `NaxLog`: four nodes, warning at three, two records of each of two writers.

Fairness. A thread inside a call or a handler goes on with it.
`JessPersist`: PRO and DPC wait for their event at most one second before they
look at their queue, and the flush thread sleeps one second. `NaxTx`: the pool's
thread runs (it wakes every 10 ms, so that a missed event costs time only), the
epoll thread runs, and a live peer keeps reading. `NaxLink`: epoll threads and pool run, and a
handshake of the kernel ends. `JessLink`: event threads, worker and keep-alive
thread run; the last wakes every second. `NaxLog`: writers and thread go on; the
thread's wait may last for ever, so that `NothingStays` does not rest on a
timeout. Nothing is assumed of clients, nobody has to call, write or close.

Deadlock is checked for `JessPersist` and `JessFs`: the flush thread and loads can
always go on. In the other runs calls are bounded and freed links do nothing.

## What the code does otherwise

Two violations are reported as findings with a run, the others here are visible
in the models and were seen with TLC.

Persistence.

- `persist_sync_lost`: the flush thread's tick sets `count_overwritten` to 0, and
  a sync that follows returns at once because the count is 0 (`virfs.c:364`,
  `543`). The automatic flush is ineffective for the same reason.
- An early return of `fs_fsync` (`virfs.c:585`), for instance because a recover
  runs, leaves `pending_fsync` taken; later fsyncs are dropped.
- rmdir `/` (`virfs.c:755`) is undone by an fsync that has copied and not yet renamed.
- An fsync dropped because one is pending (`order.c:229`) is lost when the pending
  one has already made its copy.
- With two recovers in flight the first restores the permission under the second
  (`RecoverDelivers` fails); a full PRO queue at the end of a recover's first half
  loses the permission for good (`checkpoint.c:142` ignores the result).
- A checkpoint copies `config`, the memory of the last sync, and not the settings
  (`checkpoint.c:26`; `src/README.md:31` says otherwise).
- A load that finds no database creates `configure.db` empty and fills it in place
  (`virfs.c:274-290`). A kill, a failing `malloc` or a full disk in between leaves an
  empty or partial file, which the next load overwrites. `DatabaseKept` says that
  this happens only where there was nothing to load.
- A read of `configure.db` that returns fewer bytes than asked for counts as success
  (`virfs.c:303`), and what the heap held becomes part of the settings.
- The last slot of each table is not loaded (`virfs.c:76`, `103`): `OthersServed`
  says that only it is lost.

Tree and JSON.

- `array=deleted`, without a subscript, is refused (`runtime.c:987` compares the
  kinds of node and segment), contrary to `runtime.h:217` and `src/README.md:97`.
- A document longer than an archive's section is not stored and the command
  answered ok (`virfs.c:508`); `AnswerStored` excepts it.
- `cJSON_Minify` misses the end of a string that ends in an escaped backslash.
- `parse_hex4` answers 0 for digits it calls invalid
  (`cJSON.c:570-572`), which its caller takes for U+0000: the text is accepted and the
  string ends there, as at `\u0000`. `ParseExact` excepts such texts.

Client links.

- A response looks its context up under the context lock
  (`jnet_link_context_lock_and_get`), but the reference `nis_cntl` gives back may be the
  last one of a closing link: the close callback then runs in the same thread,
  passes the recursive lock and frees the context that is used next
  (`interact.c:164`, `654`). The comment at `interact.c:299` says the lock protects it.
- The callback takes the list's lock, then the context's, in a thread that may
  already hold either: two threads can wait for each other (`LockCycle`).

naxfw.

- `tx_stuck`: the pool pops the last packet and clears `tx_overflow`; a sender
  finds the buffer full and queues, arming EPOLLOUT; the pool, now outside the
  lock, registers for EPOLLIN alone. The pool's own task tries once more, finds no
  room and ends. The peer reads, and no event comes. Later writes only queue,
  until the queue is full and `tcp_write` answers EBUSY.
- Two senders both see no overflow; the first sends a part and finds the buffer
  full; before it queues the rest, the peer reads, and the second sends its packet
  (`tcp.c:1019`, `1042`). `OutputOrder` fails with two senders; the service
  answers from several threads.
- A packet over the buffer whose head of several bytes is cut by a read loses what
  was kept of the head (`tcpal.c:116`).
- `tcp_destroy` shuts a listening socket down while its event thread may be in the
  accept loop: `_tcp_syn` then finds another state than LISTEN and answers success
  (`tcpio.c:130-139`), so that the loop goes round for ever and the link is never
  released, contrary to `nis.h:30`; `HangupsClose` excepts it (`Spinning`).
- A listener whose `accept(2)` meets a limit of the system "must be retain"
  (`tcpio.c:29-31`), but every answer other than success and EAGAIN has the event
  thread close the link (`io.c:172-181`).
- An event of category NOTIFY is not reset, so that after the first record the
  log's thread never sleeps again (`logger.c:270`, `threading.c:531`).
- A datagram of length zero ends the reading of a UDP socket although more may be
  there (`udpio.c:15`).
- `crc32` of an empty piece answers 0 and not the value carried over from the pieces
  before (`hash.c:112`), and `SHA256` of an empty message answers a null pointer
  (`hash.c:982`).
- On Windows a packet over the receive buffer is given without its head
  whatever the attributes of the link (`tcp.c:228-229`); `nisdef.h:61`, small packets
  and the POSIX port say otherwise. `FullFits` leaves it out.
- Windows: a connect that completes without memory for its first receive, while
  the link is closed, reads the handle in an object its own `objdefr` has just freed
  (`tcp.c:848-849`): `CloseAfter` then sets `stale`.
- Windows: failed operations and receive packets are freed without regard to the
  phase (`tcp.c:730`, `853`), so that the poster may touch a freed packet
  (`FreedByPhase` excepts them); after a failed parse, or a packet that is refused, the
  link stays open and silent, since no receive is posted (`tcp.c:775`), where the POSIX port
  closes it. `tcp_awaken` and `udp_awaken` give no reference
  back (`tcp.c:1256-1307`, `udp.c:418-469`), nor does the dispatcher (`network.c:77-86`), nor `tcp_connect2` without memory
  (`tcp.c:1194-1196`): such a link is closed but never unloaded.

## Proofs

`JessPersistProofs` proves, for all sets of archives, values, requests and
checkpoints, every queue length and every combination of faults, that
`TypeOK` and `AtMostOneFsync` are invariants of `Spec`, and that no step of it
breaks `DatabaseKept`. The inductive invariant `PersistInv` is the conjunction of
the two with `SwapComplete`. The
parts need each other: `fs_fsync` decrements the latch, so that it stays in
{0, 1} only because an fsync that runs has been counted; and a rename never
replaces the database by a torn file only because the swap file is whole at the two
points where it is about to be renamed. `TornSteps` finds the steps that can make
`configure.db` torn at all: the renames, and the two opens that create it. Assumption: `PersistAssumption` (the special values differ from images,
requests are well formed, thresholds are ordered, queues hold at least one task).

`PersistRecoverDelivers` proves `RecoverDelivers` under the hypothesis `OneRecover`: one
recover is sent, nobody removes the database or a checkpoint meanwhile, files can
be renamed (the code ignores a failing rename), and no read is short. Without any one
of these TLC finds it violated; checkpoints, syncs, full queues, memory that runs
out, short writes, loads that fail and kills are all admitted. `RecoverInv` has two parts. `Alone`: the
recover is in one place of its way through both queues. `Undisturbed`: from the renaming on
the database is the checkpoint (`Ready`) and no fsync runs, because one that DPC takes
later finds `permit_override` zero; and the checkpoint file is not written again
(`Kept`), since `fs_create_checkpoint` opens only names that no file has. That the
permission stays zero so long is what needs `Alone`.

`JessFsProofs` proves, for tables of any size and any names, from the empty database
and from every older one, `MaskMatches`, `NodeOwnsSlot`, `OthersServed`,
`LayoutSound` and the action property `ParentsKept`. `FsInv` is the conjunction of
eight facts. That a new section is blank follows from the mask; that a node's
section is the right slot follows from ids that encode slots (`DirIdFacts`: the
multiplication by 65536 is injective), from unique names and from the absence of
orphans; that a load finds each archive at its own section follows from all of
them, because then `fs_update_seq` changes nothing (`InOrderUnchanged`). An older
database satisfies none of this but the mask, names and parents. `OlderRenumbered`
shows what the first load makes of it: old ids are distinct, so every archive has
one old parent, and new ids are distinct because indices are, so that archives of
one directory stay together and apart from the others. `Rebuilt` then shows of any
layout in order that the tree built from it has its sections, and serves both the
first load and the later ones. `LoadInv` is `FsInv` after the first load and
`Older` before. Assumption: `FsAssumption`.

`NaxTxProofs` proves, for any number of senders and closers, any queue, buffer and
packet length, that `TypeOK`, `NoUseAfterFree` and `OverflowMatches` are invariants
of `Spec` and that `Spec` implements `NaxObject` with the holders as refinement
mapping. `StepKinds` reduces every step to one of seven kinds: it leaves handle
table and threads alone, or a thread moves on, obtains a reference, gives one up,
closes with a reference, closes without one, or frees. `ObjInv` says that
`refcnt` is the number of holders while the object is in the table, that there
are no holders after that, and that one thread at most is at the unloader, of an
object that was removed. It is inductive over the seven kinds, with the
cardinality facts of finite sets: without the count, "refcnt is zero" in
`objdefr` and `objclos` would not mean that nobody holds the link.
`TxInv` adds types, the overflow flag,
and `FrontKept`: the pool's thread between `fifo_top` and `fifo_pop` finds the
node it looked at still in front, which holds because only it removes nodes and
because it is a holder, so that the unloader cannot empty the queue under it.
Assumption: `TxAssumption`.

`TxOutputOrder` proves `OutputOrder` under the further hypothesis that there is one
sender (`OneSender`); with two the code does not keep it (see above). `OrderInv`
says that the stream is packets in order of which the last may be unfinished
(`WholeInOrder`), and where the rest of that one is: in front of the queue
(`Front`) or in the sender's hands, who then found the queue empty (`Writing`);
that packets in the queue were written after those in the stream, and in the
queue's order (`Numbered`); and that the rest of a packet is given up only when
nothing more will be sent, because the connection ended (`Lost`), of which the
event thread learns no earlier than it does (`Hangup`).

`NaxLinkProofs` proves the same count for many links and every call of the
library: `HeldIsCounted`, for any number of threads that configure, destroy or
poll. One lemma per action says which kind of step it is for the handle table:
`Quiet` (references stay), `Joins` and `Leaves` (a thread takes or gives back one),
`Closes` and `Discards` (with and without holding it), `Gives` (a new link),
`Unloads`. `LinkInv` is inductive over the kinds:
`Types`; `Placed` (a thread holds handles given out); `Unborn` (a handle not given
out yet is untouched, and one given out never becomes so again);
`Torn` (one unloader per removed link); `Counted` (the count is the cardinality of
the holders). `LinkImplementsObjects` proves that every link implements `NaxObject`
(`ObjectsKept`): for the link concerned each kind is a step of the abstract object,
for all others it stutters (`ObjectKinds`). Assumption: `LinkAssumption` (finitely
many threads).

The second half of `NaxLinkProofs` proves `CallbackOrder` on top of `LinkInv`.
`CallInv` adds what the order rests on. `Shape`: where a link is tells how far its history is, and
nothing is told of a link that left the table but the two callbacks of its unloader.
`Announced`: an accepted link that the user has not heard of is in the hands of one
event thread, which is about to announce it. `Joined`: the user has been told of a
connection once at most. Two threads can tell, the one that connects and the write
pool, so this needs to know who may still do so: a link whose connection was
reported, or that the pool may get to (it waits for output, its event is in a
thread's hands, or it is queued: `Async`), is no longer `Plain` and no thread is about
to connect it or make it listen (`Tried`); once it was reported its writer is `tcp_tx`,
which the pool does not complete (`ConnectedOnce`); and a socket that was never
connected is registered only if it listens (`ListensOnly`), so that a link about to be
connected has no registration from which an event could come early.
`Solo` and `Ready`: one thread configures a link, and what it read of the link at
one step still holds at the next. One lemma per action shows that it keeps
`CallInv`; most steps change nothing of this (`ActsCalm`), those of a thread that
configures go through `StartTurns`, `PassTurns` and `ReportKept`.
The theorem rests on the caller's side of the contract, as the model has it: a link is
configured by one thread at a time, and either listens or connects.

`NaxLogProofs` proves `CountCovers`, `PrintedInOrder` and `WarningRelieved` for any
number of nodes, writers and records. `LogInv` says of the parts of the state what
makes the last atomic step safe: `Partition` (every node is in the pool, queued, or
in one writer's hands, and the numbers add up); `Counted` (the count is the records
queued, those on their way, those over the limit, and the one recycled but not yet
subtracted, and without those over the limit it stays below `MaxSave`); `Ordered`
(what was saved is what was printed followed by the queue); `Filed`; `Warned`.
Without `Partition` the bound on the count says nothing about the pool; without
`Counted` a writer that passed the test might find the pool empty. Assumption:
`NaxLogAssumption` (fewer writers than `SafeBelow`, and `SafeBelow` <= `WarnAt` <
`MaxSave`).

`NaxDataProofs` proves `RingIsQueue` for a ring of any size whose counters wrap at
any larger multiple of the size. The counters are only congruent to the places in
the buffer; `DivMod` lemmas carry reads and writes across both ends.
Assumption: `RingAssumption`.

It also proves `FramesWhole`, for any streams, any sizes of the buffers and any cut
of the bytes. `After` gives the bytes that remain after each packet of a stream
(`FirstOf` and `AfterOf` take `FlattenSeq` apart; the library's induction takes an
operator, so `UpTo` and `DownFrom` go by the least number of a set). Both invariants
then say the same: what is kept of a packet, what is at hand and what is still to
come are the packets not yet given.
- `FrameInv` (`tcpal.c`): `NothingLost` is that sentence; `BlockSound` and
  `PacketSound` say that less than the packet that is due is kept, and that outside
  the large block a part of a packet that does not fit is less than a head. Hence the
  parser always reads the head of the packet that is due (`HeadAgrees`). Hypothesis:
  `HeadsKept`, since a head of several bytes that a read cuts off a packet over the
  buffer is lost (see above); the streams of the run satisfy it.
- `WinInv` (`windows/tcp.c`): `Settled` is the same for a link that is not in the
  loop: a part of a packet in the buffer that leaves room (`Kept`), or a large block
  with room in it (`Filling`). `Turning` holds between two turns of the loop of
  `tcp_prase_logic_packet`; every turn but the last takes a byte or more, so
  `LoopSettles`. A template of no bytes has an invariant of its own (`Passed`).
  Hypothesis: `FullFits`, since this port gives a packet over the buffer without its
  head even where the link wants it.

Both cover refused packets, and large blocks without memory, at any point.
Assumptions: `FramingAssumption` (a head of one byte or more that fits in the buffer;
bodies of any length, none included) and
`WinFramingAssumption` (a head, if any, that fits in the buffer; the calls refuse
templates over 32 bytes).

`JessLinkProofs` proves `ListedAlive`, `PublishExact` and `WindowExact` for any
number of clients. `LinkInv` has three layers. `RefInv`: a reference count is the
number of threads that use the link, and a link in the list still has its context.
`WalkInv`: while somebody walks the list he owns its lock, what he has still to visit
is in the list, and who got the setting or is still due are those subscribed.
`Windowed`: the window and the requests in hands and queues add up. Assumption:
`JLinkAssumption`.

`WinLinkProofs` proves `FreedByPhase`, `NoneLost` and `HeldIsAlive` for any number of
links, packets, threads and ports, any limits and any backlog. A call of the Windows
port and a completion are stacks of tasks, so the state that matters is spread over
what all threads have still to do. `WinInv` therefore counts: `Number` is how often a
task stands on the stacks of all threads together (`Finite`: finitely often), and
`Tally` the numbers of all tasks of one packet.
- `Counted`: there are no more references to give back than `refs` of the link says,
  and none once the link is gone. Not equality: the wake-ups and
  `tcp_connect2` leave references behind (see above). `HeldIsAlive` follows. It speaks
  of references still to be given back: the read after `objdefr` in `CloseAfter` has none.
- `Ordered`: behind a poster's task stand the references it gives back, and the
  requests of a listener come first, so that the code that cuts or exchanges the
  front of a stack (`Returned`, `LoopEnds`) removes what it means to.
- `Accounted`: an account per packet. `Phased`, for writes, accepts and connects: the
  phase and the two who advance it add up, so that one of them finds `2` and frees,
  and the other has left by then; a packet the kernel failed is freed once as well,
  but the poster may still come (`Broken`), which is the exception in `FreedByPhase`.
  `Reposted`, for the receive packet, which is posted again with its old phase: one
  owner at a time, and as long as it held bytes nobody frees it. `Single`: datagrams
  and wake-ups are in one hand.
- `Linked`: a packet in use names links that were given out.
- `Completing`: what `connecting` names, if anything, is a link.

`FreedByPhase` is part of the invariant since the accounts of a packet hold only as
long as no freed packet is touched in a way it does not except. The proof has a lemma
per action. The lemmas on `Occurs` and `Number` say what replacing the front of one
stack does to every tally; with them an action comes down to arithmetic on one
packet and one or two links. Assumption: `WinLinkAssumption` (the numbers are
numbers; the ports are consecutive from 0).

Only model-checked: liveness (`PermitRestored`, `CloseCompletes`, `HangupsClose`,
`SilentDropped`, `NothingStays`), which is out of the prover's reach; and everything
about the tree and the sequential algorithms but the ring and the framing.
`JessJson` and `NaxAvl` have recursive operators, which a module with theorems may
not reach; what the recursive functions of `JessRequest` and `JessTree` compute, and
the scan of the hash table, would take induction over documents, trees and buckets,
which was not attempted; `NaxHash` is checked against published vectors. What these
runs show is bounded.

## Plan

- An abstract store (settings, durable settings, checkpoints) refined by
  `JessPersist` restricted to what the code keeps.

`WinLink` has no refinement of `NaxObject` as `NaxLink` has one: its counts are not the
numbers of holders, because of the references that the wake-ups and `tcp_connect2`
leave behind. What holds of it is `HeldIsAlive`, one half of the same promise.

## Not modelled

- The mapped binary region (`pro/binary.c`), a bounded copy.
- The C++ wrapper, demos and the command-line clients: not part of the service.
- Allocation, strings, clocks and file wrappers of naxfw and of its Windows side:
  one call of the system each. Socket options, address queries, sending datagrams,
  multicast. Starting and stopping the pools (`refs.c`), which happens once.
- The block functions of MD5 and SHA-256, SipHash and fnv: fixed arithmetic on
  words. Decimal fractions and exponents of JSON numbers, and helpers of cJSON
  nobody calls.
- Links without a packet template and reads that are not `FULLY_RECEIVE` on Linux.
- Power loss: a recover renames its swap file without flushing it, which only the
  order of disk writes could reveal.
- The race of `procfs_add_checkpoint` on DPC with PRO, both changing linked lists
  without a lock.
- The log line of `ncb_uninit` that reads `ncb->hld` without a reference
  (`ncb.c:58`), and a descriptor number the kernel hands out again between the
  read of `sockfd` and the call that uses it.
