# A verification development for usbipd

usbipd is a USB/IP server that offers two virtual CMSIS-DAP probes (HID and
bulk) to remote hosts, together with the DAP command processor behind them and
a flash programmer. This directory holds TLA+ specifications of it, the TLC
configurations that check them on small instances and TLAPS proofs. Line
numbers are those of the files under `src/`; `PROJECT.json` maps each
definition to its lines.

## The system

| Component | State | Operations | Hard parts | What makes it correct |
|---|---|---|---|---|
| URB queue (`usbip_urb.c`), one per connection | ring, head, tail, closed, a mutex, two condition variables | push (RX thread), pop (processor), close (any thread) | blocking on both sides, close while someone sleeps | a bounded FIFO; drained after the close; nobody sleeps for nothing |
| Connection (`usbip_conn.c`) | state, running, two started flags, transport pointer, queue, device | start, RX loop, processor loop, request_stop, destroy | three threads write the flags another tears down by; no thread is joined | torn down once, after its threads; always in the end; never touched afterwards |
| Connection manager (`usbip_conn.c`) | list, mutex, semaphore, ConnCleanup thread | add, remove, stop all, two walks of ConnCleanup | the lock is given up in the middle of the second walk; shutdown | no connection lost or freed twice; shutdown ends and leaves nothing |
| Server (`usbip_server.c`) | running flag, the request being served | accept, device list, import with rollback, stop | four checks of the import in four critical sections, concurrent with ConnCleanup | one device, one connection; a failed import leaves nothing behind |
| Device manager (`usbip_devmgr.c`) | driver table; hash table, entry pool, counter | register, unregister, bind, unbind, busy, available, lookups | chains of colliding bus ids, counter kept apart from the pool | a map from bus ids to owners |
| DAP drivers (`hid_dap.c`, `bulk_dap.c`) | exported flag, one response, idle rate | handle_urb, export, unexport | one response slot; the processor threads of two connections share one DAP; allocations that fail | each command's response goes to its own client and is not lost on the way |
| USB control and HID (`usbip_control.c`, `usbip_hid.c`) | none, or the idle rate | standard and MS OS requests; class requests have handlers that are never reached | length limits | answers are never longer than asked |
| Wire format (`usbip_pack.c`) | none | conversion of headers | the length in one header says where the next begins | both ends find the same messages |
| TCP transport (`transport_tcp.c`) | descriptors | listen, accept, recv, send, close, stop | close from another thread | a context is not used after it is freed |
| OS layer, memory pool (`usbip_osal.c`, `osal_posix.c`, `usbip_mempool.c`) | dispatch table; free map | wrappers; alloc, free | pool limits | a block has one owner |
| DAP command processor (`DAP.c`) | transfer configuration, abort flag, clock | about 30 commands | retries, posted reads, rounding of clocks | request and response stay in step; the clock is the one asked for |
| SWD host (`swd_host.c`, `swd_iface.cpp`) | remembered SELECT and CSW | read and write memory, syscalls, states of the core | failed or repeated transfers, a target that is exchanged, waits without limit | memory and core are what the call was asked for |
| Flash (`flash_accessor.cpp`, `target_flash.cpp`) | page buffer, sector, loaded algorithm | init, write, uninit; erase, program, verify | partial pages, addresses in any order, failures between steps | what was written is what is in flash |
| Image parsers and programmers (`hex_parser.c`, `*_program.cpp`, `*_programmer.cpp`) | record in progress, base address | parse a block, program a file | records cut at any byte, or longer than the parser's line | result independent of how the file is cut |

Four kinds of threads run: the server's thread (Main below), one RX and one
processor thread per connection, and ConnCleanup. They interact through the
connection object, the transport context, the manager's list and semaphore, the
queue and the device registry.

## Modules

| Module | Models | State and actions against the code |
|---|---|---|
| `UrbFifo` | what the URB queue promises | a sequence and a closed flag; calls have a beginning, an effect and an end |
| `UrbQueue` | `usbip_urb.c` | the fields of `struct urb_queue` and a program counter per thread; one action per stretch of a call: taking the mutex, waiting, failing, copying the slot, moving the index and signalling |
| `UrbQueueProofs` | | theorems about `UrbQueue` |
| `DevRegistry` | what the device registry promises | a map from bus ids to owners |
| `DevMgr` | `usbip_devmgr.c` | entries, chains, counter and drivers; one action per call, since each call holds the mutex from beginning to end |
| `DevMgrProofs` | | theorems about `DevMgr` and `DevList` |
| `UsbipConn` | `usbip_conn.c`, the import and shutdown of `usbip_server.c`, the drivers' export flags, the life of the transport context | one record per connection object; `pc[t]` names the next statement of thread `t`; one action per access to shared memory that another thread can observe |
| `UsbipConnProofs` | | theorems about `UsbipConn`: tearing down; owners of devices, the list, ConnCleanup's work, freed memory |
| `DevList` | the device list of `usbip_server.c` over `DevMgr` | the two walks, one action per device, with releases in between; imports and driver changes when the server's thread is idle |
| `DapDriver` | the URB handlers of `hid_dap.c` and `bulk_dap.c` over one command processor | per driver its export, its handler's place, its response slot; shared the packet size, the DAP lock and the port; one action per access to what the drivers share |
| `DapDriverProofs` | | theorems about `DapDriver` |
| `DapTransfer` | `DAP_Transfer` and `DAP_TransferBlock` of `DAP.c` over SWD | the locals of the two functions, the answer, and of the target RDBUFF, the sticky error and what it performed; one action per SWD transfer and what follows it |
| `DapTransferProofs` | | theorems about `DapTransfer` |
| `DapCommand` | the commands of `DAP.c` as a driver sees them: response lengths, clock, packet size | operators on a record of the settings |
| `UsbControl` | `usbip_control.c`, the drivers' MS OS requests | an operator per handler that yields the answers it may give; no state |
| `UsbSession` | a client, the RX and processor threads with `usbip_pack.c`, and either driver's URB handler, over `UsbControl` and `DapCommand` | two byte streams of headers and data, the queue, the waiting response; one action per URB sent, received or handled |
| `UsbSessionProofs` | | theorems about `UsbSession`; before them, lemmas about the clock of `DapCommand` |
| `HexParser` | `hex_parser.c` | the fields of `hex_parser_t` and the caller's buffer; one action per character |
| `TargetFlash` | `target_flash.cpp` and the target's flash | a record with memory, loaded algorithm and started functions; a call is an operator that yields its outcomes |
| `FlashAccessor` | `flash_accessor.cpp` over `TargetFlash` | the members of the class; one action per call of the flash or copy into the page buffer |
| `Programmer` | `hex_program.cpp`, `bin_program.cpp`, `file_programmer.cpp`, `stream_programmer.cpp` over `HexParser` and `FlashAccessor` | one action per call of parser or accessor |
| `ProgrammerProofs` | | theorems about `Programmer`; before them, lemmas about `TargetFlash`, `FlashAccessor` and `HexParser` |
| `SwdTarget` | a debug port, an access port and a core, as `swd_host.c` uses them (external) | a record; each transfer yields its outcomes |
| `SwdHost` | `swd_host.c`, and `swd_iface.cpp` where it differs | a call is an operator that yields its outcomes: result, value, state |
| `SwdSession` | sequences of calls of the host while the core runs, halts, is reset or exchanged; `set_target_state` as steps | the target, the steps left, the last call |
| `SwdSessionProofs` | | theorems about `SwdSession` |
| `MC...` | | instances for TLC |

`UsbipConn` uses `DevRegistry` for the device registry, and `DevMgr` is shown to
implement it, so the properties of `UsbipConn` carry over to the hash table. The queue
appears in `UsbipConn` as a counter with blocking push and pop and a close; `UrbQueue`
shows that the ring does behave so. Only the close is two steps there, since it loads
the queue's address before it takes the queue's mutex (`usbip_urb.c:275-277`) and
ConnCleanup does not take that mutex to destroy it. `DapDriver` relies on `UsbipConn`
for when a driver is exported and on `DapTransfer` for what a transfer does; in it a
command has a beginning and an end only. `UsbSession` is one client of one device, with
the threads and the import left to `UsbipConn`, the rivalry of two clients to
`DapDriver`, and what a command does to the target to `DapTransfer`; what it adds is the
stream: the lengths and statuses of all answers and the order they come in.
`TargetFlash` relies on `SwdSession` for what its memory accesses and syscalls do: there
an access may fail, or not.

### Freed memory in UsbipConn

A thread whose next statement would touch a connection, a queue or a context
that was freed, or post the semaphore that was destroyed, takes a `Fault` step
instead: it records the place and stops the model, because what the C program
does from there is undefined. `FaultsKnown` is the complete list of places where
this can happen while import replies are delivered (proved, `FaultsListed`):

1. the processor's last log line reads `conn->busid` after ConnCleanup freed the
   connection (`usbip_conn.c:666`);
2. Main stops a connection it collected before, when ConnCleanup has freed it
   (`usbip_conn.c:115-118`);
3. RX, the processor or the import's reply uses a transport context that a stop
   has freed (`usbip_conn.c:473-478`, `usbip_server.c:306-316`);
4. a thread of a connection that was left over posts the destroyed semaphore
   (`usbip_conn.c:123`);
5. ConnCleanup gives up the mutex to destroy a connection and then goes on to the
   next one it remembered (`usbip_conn.c:241-247`), which Main may have taken out
   of the list and freed in the meantime, because a thread of it could not be
   created;
6. Main, as it shuts down, is inside `usbip_urb_queue_close`: it has loaded the
   queue's address and ConnCleanup destroys and frees the queue before it is locked,
   or before it is unlocked again, which comes to the same (`usbip_urb.c:275-281`,
   `131-136`, `usbip_conn.c:263-268`).

None of these is excluded by the code, contrary to what
`docs/usbipd_flowcharts.md:697-712` (threads are joined before the memory is freed) and
`priv/usbip_conn.h:154` (the connection owns the context) say; no run is kept for each
of them. Beyond the fifth, ConnCleanup touches no freed memory; no thread but Main
closes a queue that is gone; no connection and no context is freed twice, and the
transport is closed by one thread only. Properties that speak of the later life of a
connection say `fault = None`.

### Left out of the models

- Memory exhaustion, except that creating a thread can fail (`UsbipConn`) and
  that `osal_malloc` can (`UsbSession`); a failure of `usbip_urb_queue_init` takes
  the same path as a failure of the processor's creation.
- Contents of URBs in `UsbipConn`; in `UrbQueue` they are opaque values, header
  and data together.
- Descriptor numbers, partial transfers, and memory orders: the atomics and the
  plain accesses to `state` are taken as sequentially consistent.
- `DapDriver`: control requests, and the URBs that change no state of the driver;
  they are in `UsbSession`. A failed import reply would let two connections'
  threads into one driver and is left out.
- `DapTransfer`: data words are the number of the request that produced them,
  whether a value matches is free, and the target is external: it may answer
  anything, as far as the acknowledge and the sticky error of a debug port
  allow. `DAP_TransferAbort` is never set while these functions run: the drivers
  call `DAP_ProcessCommand` from the thread that would receive the abort, and
  nobody calls `DAP_ExecuteCommand`, so a packet of several commands, which
  `DAP_Info` announces support for, is answered as an invalid command.
- `DapCommand`: what a command does beside the clock and the packet size. JTAG
  commands answer with an error and SWO and UART are unknown, as the
  configuration builds them.
- `UsbSession`: the client is external. It uses a sequence number again only when
  nothing refers to its last use, reads endpoint 1 with a buffer of a packet's
  size and sends no more data than an URB may have; transfers return none or
  all of the words they were asked for, for any number. Contents of
  descriptors are constants and left out, their lengths are not. The headers
  of import and device list are converted by the same idiom as that of an URB.
- `HexParser`: the digits of a byte are not added up; a record's checksum is right or
  not. A parser that has written behind its line (`status = "beyond"`) is not followed,
  since its own fields are what lies there: the properties then say nothing of the rest
  of the file, but `ParsedAsWritten` says which records lead there (`LineKept`).
  `Programmer`: progress reports and files that cannot be read: after a read error
  `fread` returns 0 while `feof` stays 0, and the loop of `file_programmer.cpp:87-103`
  never ends.
- `TargetFlash`, `SwdTarget`: the target is external. A flash cell programmed twice
  is garbled; any access may fail, with or without its effect. A target's
  transfers may be refused, and answers garbled where the code tells that apart;
  a write that fails has no effect; C_HALT is cleared by a reset while DEBUGEN
  and the vector catch survive it; a target is not exchanged while a reset is
  pending. `flash_erase_chip` has no caller.
- SIGINT is one step. It closes the listening socket; accept then fails, which
  relies on the signal being handled by the thread that accepts.

Not modelled at all, with the reasons in `PROJECT.json`: the memory pool, which has no
caller, the OS layer's wrappers, logging, the bit banging of SWD and JTAG, the ELF
reader of `algo_extractor.cpp`, the GDB stub.

## Runs

Each passing run explores its whole state space. `Events` names what clients,
operator and system may do in a run: send an URB, leave, fail to create a
thread, fail an import reply, stop the server.

| Run | Instance | Checks |
|---|---|---|
| `urb_queue` | ring of 3, two URBs, one closer from outside; fairness | `NoLostWakeup`, `ImplementsFifo`, `ImplementsLiveFifo` |
| `conn_two` | 2 devices, 2 connections, clients leave | `HeldWhileServed`, `ReapNotLost`, `ChecksStillHold`, `OnlyOwnDeviceReleased` |
| `conn_shutdown` | 2 devices, 2 connections, SIGINT, threads that cannot be created | `OwnerListed`, `FaultsKnown` |
| `conn_failures` | 1 device, 1 import, all events; fairness | `TornDownAfterExit`, `ClosingCompletes`, `ShutdownEnds` |
| `devlist` | 4 bus ids, 3 in one chain, pool of 3, 3 drivers, table of 2, device lists | `TableSound`, `NoneMissing`, `ImplementsRegistry` |
| `dap_driver` | HID driver: 2 sessions of 2 commands; bulk driver: 1 of 1; fairness | `OwnResponses`, `EachOnce`, `TransfersIntact`, `OwnSize`, `CommandsEnd` |
| `dap_transfer` | commands of up to 3 requests, 1 retry, 1 match retry | `OwnAnswers`, `PerformedOnce`, `AnswerHolds`, `ErrorsReported` |
| `flash_program` | 11 hex files and 2 binary ones, blocks of several lengths, 2 regions, calls that fail; fairness | `ParsedAsWritten`, `SuccessMeansWritten`, `AlgorithmReady`, `OverrunKnown`, `OthersKept`, `SessionEnds` |
| `swd` | 4 words of memory in 2 auto-increment pages, the three versions of `set_target_state`, any transfer may fail; fairness | `CacheAgrees`, `WritesExact`, `ReadsExact`, `SyscallRan`, `StateReached`, `StateCallsEnd` |
| `usb_session` | HID and bulk, 2 sequence numbers, queue of 2, failing allocations, about 15 control requests and 8 commands each | `InStep`, `UnlinkTrue`, `ClockHeld`, `ResponseKept` |

Most modules with a state of their own also give its type, which no run checks by
itself; the proofs establish one for `UrbQueue`, `DapDriver` and `UsbSession` (`Typed`
of `UsbSessionProofs`).

Runs that show where the code and what is said about it disagree (the quoted
lines are in `PROJECT.json` under `findings`):

| Run | Property | What happens |
|---|---|---|
| `conn_start` | `DisconnectFrees` | a client leaves while the connection is being started; its stop request is ignored, the flags are set after the thread that should clear them is gone, and the device stays busy |
| `swd_debug` | `DebugEnabled` | a CSW value is remembered although its write failed; the write of C_DEBUGEN that follows has the size of a byte, is ignored by the core, and the call reports success |

Facts met while modelling, for which no run is kept:

- A connection whose threads have not cleared their flags when ConnCleanup makes
  its final pass is never freed (`usbip_conn.c:299`), although `usbip_conn.c:124`
  counts on all connections having been destroyed.
- A device that ConnCleanup gives back while the device list is made is sent
  beyond the announced number (`usbip_server.c:134`).
- The packet size is checked and set outside the DAP lock, so a `DAP_Info` that
  runs while the other driver's client sends a command may report the other
  driver's size; `OwnSize` says that nothing else can make it wrong.
- A client that reads before it has sent anything can be given the response the
  session before has left in the slot; `OwnResponses` says that after its first
  command it cannot.
- The port is shared as well: a Disconnect of one client between two commands
  of the other disables the port for both. `TransfersIntact` is about a single
  command.
- A transfer command that fails does not return the value of a read still
  posted, though it counts the request (`AnswerHolds` allows for one such word).
- A match on an access port posts one read more than it collects; the failure of
  that read is not reported by the command (`ErrorsReported` leaves it out).
- When sending an import's reply fails (`usbip_server.c:324`), the device is released
  while the connection's threads go on serving it.
- Control requests without data (SET_CONFIGURATION, SET_INTERFACE, SET_IDLE,
  SET_PROTOCOL) never reach `usb_control_handle_setup`: both drivers answer them
  with status 0 and drop them, so GET_CONFIGURATION and GET_INTERFACE return the
  initial values for ever. An answer `USB_CONTROL_ERROR` is sent with status 0 and no
  data.
- The type of a request, which `USB_SETUP_TYPE` has shifted down to 0 to 3, is compared
  with `USB_TYPE_CLASS`, which is 0x20 (`usbip_control.c:132`, `usbip_common.h:110`,
  `387`): class requests are always stalled, GET_REPORT among them, although
  `hid_dap.c:336` says of `dap_get_report` that it is used to respond to it. By the same
  comparison (`hid_dap.c:517`) a SET_REPORT is answered with status 0 and its command
  dropped.
- The HID driver drops a command for which it gets no memory and answers its URB
  as done (`usbip_hid.c:232`); the client waits for a response in vain.
- CMD_UNLINK is answered with status 0, at its turn in the queue, whatever became of
  the URB it names; `UnlinkTrue` says why that is right as long as URBs are handled
  in their order.
- `PIN_DELAY_SLOW` counts a zero down through its wrap-around (`DAP.h:333`). The
  clock's delay is never zero (`ClockHeld`); the one of `DAP_Delay` may be.
- `write` computes the room left in the page buffer as an unsigned difference
  (`flash_accessor.cpp:219-222`): when a packet ends with its sector and the next
  begins behind the first block of the next one, the copy leaves the buffer.
  `OverrunKnown` says that there is no other way to this, and a model that got
  there stops.
- A sector that is entered again is erased again, with what was written to it
  (`flash_accessor.cpp:176`). That includes the sector the last packet filled: its end
  is an address of the next sector, so a packet that goes back into it finds it left
  and has it erased, although no other was set up in between. The session reports
  success. `SuccessMeansWritten` says which bytes are lost in this way (`Revisited`).
- The failure of the last flush, in `clean()`, is noticed
  by nobody (`file_programmer.cpp:107-109`). The region chosen as default stays when
  another configuration is loaded.
- The parser puts a record that ends at a 64 KiB border and its successors, if
  they are at a lower address, and segment bases that are no multiple of 64 KiB
  where the code says, not where Intel HEX does; the scan for the start address
  does not know segment records and takes no record of type 0x0D for data, as the
  parser does. `ParsedAsWritten` compares with the code's rule for bases and leaves
  files with such records out of the scan's part.
- A record may have 255 data bytes, the parser's line has room for 32. The second digit
  of each byte is stored without a look at its place (`hex_parser.c:167`; the first one's
  is guarded, 281), so a longer record is written over the parser's own fields and what
  follows them. `HEX_PARSE_LINE_OVERRUN`, for which `hex_parser.h:47` has "Error state when
  the record length is longer than the record structure", is returned by no line.
  `LineKept`, a part of `ParsedAsWritten`, says that nothing else leads there than such a
  record and the next item.
- An extended address record is completed twice: it ends a call with its last
  digit unconsumed, and the next call stores that digit again, one byte further on
  (`hex_parser.c:167`, `237-270`). With as much data as the line has room for, that is
  behind the line. Two bytes are all such records have by the format.
- The region `algo_extractor.cpp:232` makes ends at `devAdr + szDev`, and its end is
  inclusive (`target_flash.cpp:32`): the region takes in the first address behind the
  flash. It makes no difference, because the region is the default, whose algorithm
  every address outside of all regions is given (47-52).
- `PIN_nRESET_OUT` is empty (`DAP_config.h:464`): the hardware reset of
  `swd_host.c` has no effect on this probe, and the RESET states succeed all the same
  (`ResetWorks`).
- The C++ repeats a transfer after any answer but OK, also after one that was
  garbled although the target performed it: TAR then moves twice
  (`swd_iface.cpp:69`).
- The waits for the core have no limit (`swd_host.c:967` and others): a software
  RESET_PROGRAM after RESET_HOLD waits for ever. A RESET_PROGRAM that failed leaves
  the vector catch set, and a later RESET_RUN leaves the core halted.
- After a syscall's timeout its algorithm runs on, and the next syscall may take
  its result for its own.

### Bounds and why they are enough

- Ring of 3 slots: the smallest ring in which push and pop meet full, empty,
  neither, and a wrap of both indices. The proofs cover every size, the
  deployed 2 (`.config`) and the default 8 included.
- Queue capacity 1 in `UsbipConn`: RX blocks on the second URB, which is the
  deployed configuration. Only full and empty matter there.
- Two connection objects: one taken down while the next is imported, or side by
  side, which is the deployed limit (`conn_two`, `conn_shutdown`). An
  identity is not reused; the C program may reuse an address, which none of its
  tests would notice. Two connections under every event at once exceed what TLC
  explores in minutes, so the events are divided among the runs.
- Four bus ids, three in one chain: removal from the head, the middle and the
  end of a chain, and a full pool with a bus id left over.
- `dap_driver`: two sessions, because the slot survives a session, and two
  commands, because the second overwrites the response to the first. One command
  of the other driver meets each of them at every step; the drivers differ in
  their packet size only. Two sessions of two commands on both do not finish in
  minutes. The proofs cover every number.
- `dap_transfer`: three requests are a posted read, something after it, and an
  end that is neither; the state carried from one request to the next is three
  flags. One retry tells the last attempt from the others.
- `usb_session`: two sequence numbers are an URB and its unlink, or a command and the
  read of its response; with three the run does not finish in minutes. The proofs cover
  every number. Every kind of request is there with a length below, at and above its
  answer's. The clocks are one that is fast, one that is not and zero; sizes are the
  code's own.
- `flash_program`: sectors of two blocks and of one, a flash that is not blank, 64 KiB
  and 16 shrunk to 8 and 2 so that all borders are met in a short file; the
  files are those the parser and the accessor treat differently: ascending, with
  gaps, backwards, into the same sector, back into one just filled, over the border
  of two regions, longer than the caller's buffer, broken, for two versions, with data
  for another version that ends inside a block and with one, with custom data, with a
  record longer than the parser's line and with an address that fills it. The line's
  32 bytes are shrunk to 4, and so is the caller's buffer, which the parser wants no
  smaller than that (`hex_parser.c:91`). The second region ends one byte behind its last
  sector, as the one that `algo_extractor.cpp` makes. The proofs cover every layout and
  every file.
- `swd`: two words in a page and two pages are the borders that
  `swd_write_memory` and `swd_read_memory` know; the accesses are
  a whole page, and one that begins and ends with bytes and crosses pages.
- Devices are interchangeable in `conn_two` and `conn_shutdown`, which use
  symmetry; neither checks liveness.

### Fairness

`UrbQueue`: threads keep running inside a call, and a thread that waits for the
mutex gets it when it is free again and again (strong fairness on `Lock`): POSIX
does not promise it, but the mutex is held for a few statements only and the
schedulers in use do not starve a waiter. Callers are not assumed to call.
`DapDriver`: a handler keeps running, and a thread waiting for the DAP lock gets
it when it is free again and again, as above. `Programmer`: the calls of the file
programmer go on until `program` returns; the stream programmer's are made by
somebody else and not assumed. `SwdSession`: a call goes on, a core that is to halt
does halt, and a reset that was requested happens; no calls are assumed.
`UsbipConn`: weak fairness of every thread's own steps. Nothing is assumed of
clients and operator, except in `PatientSpec`, where a client that connected
sends its request or hangs up. Without that `ShutdownEnds` fails: Main receives
each request itself and without a timeout (`usbip_server.c:354`), so one silent
client keeps SIGINT from having any effect.

## Proofs

`UrbQueueProofs` proves, for every ring size of at least 2, every set of URBs and
any number of closing threads:

- `TypeCorrect`: `Spec => []TypeOK`;
- `WakeupsNotLost`: `Spec => []NoLostWakeup`;
- `RefinesFifo`: `Spec => ImplementsFifo`.

They rest on the assumptions of `UrbQueue` about its constants and on one
inductive invariant, `IInv`. `TypeOK` and `NoLostWakeup` are not inductive: that a
sleeper is not left asleep depends on who holds the mutex while the
condition changes (`LockInv`: whoever is past the lock and not asleep owns it),
on threads being only in the calls that are theirs (`CallInv`), on the tested
condition still holding when the slot has been copied (`CopyInv`), and on the
occupied part of the ring holding URBs (`OccupiedInv`). Each action has a lemma
that it preserves `IInv`; `NextInv` combines them. For the refinement, the
sequence the ring represents is `Contents`; three lemmas say what moving `tail`,
moving `head` and writing the free slot do to it, and `FifoStep` maps each
action to a step of `UrbFifo` or to a stutter.

`UsbipConnProofs` proves `TornDown`: `Spec => []TornDownAfterExit`, for any
number of imports and devices, any limits and all events, from
`ConnAssumption`. ConnCleanup tears a connection down when it is CLOSING and
both started flags are down, and never looks at the threads themselves. That
this is enough is not inductive: the flags are down before the threads exist as
well. The strengthening `IInv` says when a flag speaks for its thread: from the
moment a connection leaves INIT, each flag is up or its thread is past its last
use (`ExitInv`). To establish this when `usbip_connection_start` makes the
connection ACTIVE, the same is carried through the steps of the import
(`ImportInv`), where a thread may have come and gone before its flag is set; to
keep it until ConnCleanup's later steps, `CleanInv` says what the connection
under its hands still satisfies, and that nobody but the import that allocated
a connection touches it while it is INIT. `Quiet` names the changes a thread's
step may make to connections without disturbing any of this; `QuietInv` and
`MainChanges` are the two ways a step is shown harmless.

The module goes on from there, for the same instances, and proves the other
safety properties of `UsbipConn`. There are three arguments.

- *Owners* (`OwnersListed`, `HeldServed`, `ChecksHold`, `OwnDeviceReleased`). Registry,
  exported flags, list and connections are changed by Main and ConnCleanup one
  statement at a time, and none of the properties is inductive. `OwnerInv` says
  what a registered device has: an owner that is live, listed and either for this
  device or about to be. `ClaimInv` is the other direction, from a started connection
  to its device, with ConnCleanup's and Main's releases as the exceptions.
  `ImportDevInv` and `CleanDevInv` say what holds of the device under each of the
  two; the point where they meet is ConnCleanup between its two releases, where
  the device is available already and is released once more by name. No import
  can have bound it by then, because adding its connection to the list takes the
  mutex ConnCleanup holds. `ListInv` has who holds it. `HeldServed` needs in
  addition that a processor runs only after it was created (`OffInv`).
- *Work* (`WorkFound`). ConnCleanup's semaphore is posted by the threads, not by
  the state it looks for. `ReapInv` says that whatever it could tear down is
  announced by a post, or will be by a thread that is not past its post, or lies
  ahead of it in the walk it is in; that nothing is ahead of what it removes but
  the rest of the list, since imports are appended.
- *Freed memory* (`FaultsListed`). `KnownInv` has one part per kind of access: of
  the callers of request_stop only one per connection gets beyond the test of its
  state (`StopsInv`), a live connection points to a freed context only until
  that caller clears the pointer (`CtxInv`), a connection is freed with its threads
  past their last use but for the log line (`MemInv`), and without failing thread
  creation what ConnCleanup remembers stays in the list (`StartedInv`). A thread that
  closes its own connection's queue finds it there, since ConnCleanup waits for both
  threads' flags before it destroys one (`QueueInv`); for Main nobody waits.

After an access to freed memory nothing more is claimed than where it was.

`DapDriverProofs` proves `[]TypeOK`, `[]OwnResponses`, `[]EachOnce`,
`[]TransfersIntact` and `[]OwnSize` of `DapDriver` (`TypeCorrect`,
`ResponsesOwn`, `ResponsesOnce`, `TransfersUndivided`, `SizeTold`), for any number
of drivers, sessions and commands and any packet sizes, from
`DapDriverAssumption`. The inductive invariant adds what the properties leave
unsaid: whose response is in the slot between two commands (`SlotInv`), and that
what a client was given is older than what is at work (`TakenInv`), give
`OwnResponses` and `EachOnce`; that the port is what a transfer began with as long
as it holds the lock (`PortInv`) gives `TransfersIntact`. For `OwnSize` the history
variable `met` records whose commands ran at the same time; handlers at work have
met each other (`MetInv`), so one that met nobody still finds the size it set
(`SizeInv`).

`UsbSessionProofs` proves `[]InStep`, `[]UnlinkTrue`, `[]ClockHeld` and `ResponseKept`
of `UsbSession` (`StaysInStep`, `UnlinksAnsweredLast`, `ClockAsAsked`, `ResponsesKept`),
for both kinds of device, any sequence numbers, queue and buffer sizes, and any
requests and commands with responses that fit a packet, from `SessionAssumption`,
`UsbAssumption` and `ClockAssumption`. Streams are cut by `Cut`, which says of each
item what is next to it: what follows a header depends on the header alone
(`Carries`), although the client decides by what it asked for. That both agree
takes the content of every header on its way (`UpGood`, `QueueGood`, `DownGood`):
what it says of direction and length is what its client waits for. An answer is
read once and its number then forgotten, so no number may be on its way twice
(`Apart`). With these come the three ways a stream changes, a message appended
(`Appended`, `CutAppended`), the first one taken (`FirstMessage`) and the headers
before and after (`HeadersAppended`, `HeadersRest`), and each action has a lemma that it
preserves `IInv`. For `UnlinkTrue`, `Ordered` keeps the URB in front of the request that
unlinks it through stream, queue and stream, and says that everything a client
waits for is on its way. For the clock, the module first shows by two roundings that the
settings `SetClockDelay` makes meet the clock asked for (`ClockSet`); the session
keeps that through all other commands.

`DapTransferProofs` proves `[]TypeOK`, `[]OwnAnswers`, `[]PerformedOnce`,
`[]AnswerHolds` and `[]ErrorsReported` of `DapTransfer` (`TypeCorrect`, `AnswersOwn`,
`EachOnce`, `AnswersTrue`, `ErrorsTold`), for commands of any length and any number of
retries and match retries. The inductive invariant measures a command by three numbers:
how many requests were served (`Served`), up to which the words are there (`Collected`,
one less while a read is posted) and up to which the target was reached (`Reached`, one
more where the code is ahead of itself). `PostInv` says that what is posted is what the
target holds; `WordsInv` that the words are, in strictly increasing order, those of the
reads up to `Collected`; `DoneInv` that accesses were made up to `Reached` and none left
out; `ErrorInv` that an error nobody asked about is pending on nothing. That the number
of words differs by at most one from the number of reads counted (`AnswerHolds`) follows
from the words being a strictly increasing sequence: it is a bijection to its set.

`DevMgrProofs` proves `[]TypeOK`, `[]TableSound` and `ImplementsRegistry` of `DevMgr`
(`TypeCorrect`, `TableIsSound`, `RefinesRegistry`), the same while device lists are made
(`ListsHarmless`), and `[]NoneMissing` of `DevList` (`AnnouncedSent`), for all sets of bus
ids, connections and drivers, any pool, any table and any hash function, from
`DevMgrAssumption` and `DevicesOfAssumption`. The properties speak of chains, which
are functions defined by recursion; the invariant (`Linked`) speaks of single links:
each leads from a used entry to a used one of the same bucket, to each used entry
one leads (`LinkInv`), and there is an order of the entries in which links go up
(`OrderInv`). `ChainFacts` gets from there to the chains: the links go up, so the pigeon
hole principle ends the chain within the pool, and the lowest entry of a bucket
outside its chain would have a link from one inside. The prover takes no
operator as a parameter of a lemma; induction is by the least counterexample
(`NatMin`, `Induction`), which needs none. A new entry goes below all others in the
order, a released one leaves it as it is. For `AnnouncedSent`, what was announced is
at most what was sent and what is available ahead of the loop (`WalkInv`);
devices only become available meanwhile, and nothing is offered twice
(`OfferedFacts`, an induction over the drivers' device lists).

`SwdSessionProofs` proves `[]TypeOK`, `[]CacheAgrees`, `[]WritesExact`, `[]ReadsExact`,
`[]SyscallRan` and `[]StateReached` of `SwdSession` (`TypeCorrect`, `CacheStaysTrue`,
`WritesAreExact`, `ReadsAreExact`, `SyscallsRan`, `StatesAreReached`), for any memory
that auto-increment pages divide, any word size, any core registers, accesses and
variants of the host, from `SwdTargetAssumption` and `SwdHostAssumption`. The invariant
says of the target that it is `Sound`: when no transfer was refused, SELECT and CSW are
what is remembered. A call of the host is an operator that yields all its outcomes, and
each operator has a lemma that a sound state leads to sound outcomes only (`Kept`).
Below them, `Follows` says what a transfer leaves alone that goes to neither register;
the two that do are `SelectKeeps` and `SetCSWKeeps`. Blocks, accesses and core registers
are folds over what `Then` does to a set of outcomes; `FoldKeeps` is the induction over
them, with an enumeration of what is carried along in place of an operator. Accesses
need in addition that the pieces they are taken apart into lie in the memory
(`PiecesOfCells`), since a write beyond it would be one to a register.

For `WritesAreExact` the same folds are followed element by element (`FoldReaches`). A
block that has written some of its words has written nothing else, and TAR is at the
next word or an error is pending, which makes the rest of the block, and its last
read, fail (`BlockAt`); TAR only gets to the next word because blocks are whole words
that end with the auto-increment page (`PieceFits`). The pieces are a row: each begins
where the one before ends and is what the code takes at that address (`PiecesInRow`),
so what has been written is always the front of the access (`WriteAt`). What a block
and a byte do to memory rests on the cache being true, and every write leaves it so
when it succeeds (`True`, `Aimed`).

`ReadsAreExact` follows the reads in the same way. In a block each read returns the word
the one before has fetched, so after some of them the bytes returned are one word behind:
the last word is posted and TAR is past it (`FetchAt`, `FetchStep`); the read of RDBUFF
that ends the block returns it, or reports a bus error of any read before it
(`ReadBlockExact`). What the pieces return is joined to the bytes from the first address on
(`ReadAt`, `BytesJoined`). A read that the C++ repeated after the target had answered it
ends the account, and stays on record to the end of the call.

`SyscallsRan` follows the core through a syscall. Reads leave it alone (`SameCore`,
`ReadRegCore`), and a word that is written reaches the register it is meant for, since
the cache is true (`WriteWordExact`). So the fold over the core registers gives one after
the other to the halted core (`GivenAt`; `SetToSeq` lists each once, `RegistersInRow`), the
write to DHCSR releases it into the algorithm (`CoreReleased`), it is not seen to halt
before that has ended (`WaitUntilHaltedExact`), and what is read as r0 is what it left
(`ReadCoreRegisterExact`). To make that worth proving, r0 has no value in the model
until an algorithm of this call has ended. The invariant `Ran` adds that no reset is under
way between two calls, which could undo it.

`StatesAreReached` is about `set_target_state`, one step at a time, while the core halts
and its resets happen between the steps. The invariant (`Reaching`) says of a call that
has not failed that it has met with a failed transfer, which it cannot forget any more
since `swd_init_debug` is behind it (`Lost`, `TroubleStays`), or that what it has left
to do is the end of the state's steps and the core is where it should be by then
(`OnTheWay`). What is known of the core with j steps left is `Known`: for
`RESET_PROGRAM` by the pin, say, that it is held from the assertion to the release, and
from then on has stopped at its reset, because the vector catch was set before.
`Advance` leads from j steps to j - 1, plan by plan and variant by variant, from what
each step does to the core (`StepMoves`); `KnownStays` says that nothing of it is lost
when the core halts or its reset happens in between. Nothing is known of the core when a
call begins, except that no reset is under way (`Ran`), so what earlier calls have left
does not matter. The proof needs no assumption that the cache was true when the call
began: without a failed transfer it was.

`ProgrammerProofs` proves `[]TypeOK`, `[]AlgorithmReady`, `[]OverrunKnown`,
`[]LineKept`, `[]ParsedAsWritten`, `[]SuccessMeansWritten` and `OthersKept` of
`Programmer` (`TypesAlways`, `AlgorithmReadyAlways`, `OverrunKnownAlways`,
`LineKeptAlways`, `ParsedAsWrittenAlways`, `SuccessMeansWrittenAlways`,
`OthersKeptAlways`), for every layout of sectors and regions, every page buffer, any
algorithms, files and blocks, and every failure of the target. The assumptions say what
the code relies on:

- of the flash: sectors begin at multiples of their sizes and in ascending order, a
  sector larger than the page buffer is a multiple of it, and where the algorithm
  changes at the border of a region a sector begins, which `flash_accessor.cpp:82` asks
  for (`SectorAssumption`, `FlashAccessorAssumption`, `RegionAssumption`). A border that
  changes no algorithm may be anywhere, as it is in the region that
  `algo_extractor.cpp:232` makes;
- of the parser: its caller's buffer is no smaller than its line's data, which it checks
  itself (`hex_parser.c:91`, `HexParserAssumption`);
- of a hex file: it ends with its end of file record, its data records are not empty and
  stay in their segment, extended addresses are multiples of a segment
  (`HexFilesAssumption`), and data for another version is in files made for two only
  (`UniversalAssumption`). Other files are decoded in the way the facts above say.

The invariant is `ProgramInv`, for parser, session and accessor:

- *Accessor* (`AccessorInv`). The current sector is one, its algorithm is loaded, and a
  page that holds something is a block of it (`SectorSet`). `OverrunKnown` rests on
  where each statement of `write` finds the address, the block and the end of the last
  packet (`Positions`): at the copy the address is in the block, unless the last packet
  ended with its sector and this one begins behind it (`Behind`). Sectors are found by a
  search for the last one that begins below an address; `Located`, `SameSector` and
  `NextSector` reduce that to rounding. A page is programmed in pieces by a recursive
  function; `PageProgrammed` follows it piece by piece (`PageAt`). That a sector has one
  algorithm is `SameAlgorithm`: between two addresses of a sector that have different
  ones there would be a border at which it changes, which begins a sector. The algorithm
  of addresses outside all regions is the configuration's default as long as the
  accessor is open (`InOrder`).
- *Parser* (`HexInv`). The block that is parsed is a slice of the file (`Slices`,
  `Cut`), and the parser's state is that of having consumed the first p characters
  (`Synced`), whatever the blocks were: that is what makes the result independent of how
  the file is cut. What was handed over, with what is in the buffer, is what the first
  records say (`Says`), where the address of the next byte is either known or given by
  the next record (`NextIs`). `Skipping` is the same for a block that is passed over
  because its data is for another version. Inside a record `Synced` gives the place on
  the line from the place in the file, so a digit with no place on the line belongs to a
  record with more data than the line has room for, or is the last digit of an address
  that is looked at twice (`LeavesBeyond`, `LineInv`, for `LineKept`, which
  `ParsedAsWritten` contains). That a file's text is its records in order, each a colon,
  digits and a line end (`Shape`), is an induction over the file.
- *Session* (`SessionInv`, `FileInv`, `BinInv`, `HandedInv`): the accessor is open exactly
  while a session is, and what was handed over is the front of what the file says.

For `SuccessMeansWritten` the invariant `FlashInv` follows each byte from its packet to
the flash. Of the bytes handed over, all but those still to be copied have their places
(`Contents`): a byte that no later one replaces is in the page buffer, or in flash and
not in the buffer (`Holding`), and if its sector was entered again it is FF. A byte
enters its sector when the one before it was in another, or was the last of its own
(`Enters`); the sector is set up at such a byte and nowhere else, because the last byte
copied was in the current sector and in front of the packet (`LastIs`). This is why a
copy inside a sector erases nothing (`CopyEnters`), an erasure takes the bytes that were
entered again and no others (`ContentsErased`), and a page that was programmed and
verified leaves in each cell the byte it has for it, and what was there where it has
none (`HoldingFlushed`, `HoldingClosed`). `OthersKept` needs in addition that the sector
whose page waits in the buffer is the sector of a byte handed over, and that every cell
changed since the beginning of the session is in one (`TouchedInv`). `StepEffects`
reduces the steps of parser and session to what they do to the accessor; each of these
few effects has a lemma for each invariant.

Two of these properties were changed by their proofs. `OverrunKnown` named the block of the
next packet in a way that is true for two sizes of sectors, not for all. `Revisited` did
not count a sector that is filled and entered again at once, for which
`SuccessMeansWritten` was not true; the instance had no such file (`Turn`, now).

Only model-checked: all liveness (`ImplementsLiveFifo`, `ClosingCompletes`,
`ShutdownEnds`, `CommandsEnd`, `SessionEnds`, `StateCallsEnd`), which is out of the
prover's reach. Every safety property of a passing run is proved.

## Plan

What is left, in this order:

1. The transport's descriptors.
2. The other commands of `DAP.c` as far as they have state: pins, connect and
   disconnect.

GPIO bit banging, logging and the GDB stub are not planned: the first is timing,
the others hold no state.
