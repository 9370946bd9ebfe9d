------------------------------ MODULE UsbipConn ------------------------------
(***************************************************************************)
(* The life of the connections of the USB/IP server: the server's main     *)
(* thread (usbip_server.c) accepts a client, imports a device for it and   *)
(* starts the connection; the connection's RX and processor threads        *)
(* (usbip_conn.c) serve it until something fails; the ConnCleanup thread   *)
(* takes a stopped connection apart.  All four meet in the connection      *)
(* object, in the transport context, in the manager's list and in the      *)
(* device registry.                                                        *)
(*                                                                         *)
(* A step of a thread is what it does between two accesses to shared       *)
(* memory that another thread can observe in between.  pc[t] names the     *)
(* statement thread t executes next.  Some accesses that follow each other *)
(* are one step: running and transport_ctx in RxLoop, driver and           *)
(* transport_ctx in ProcHandle, the two removals from the list when an     *)
(* import is taken back.  The exchange of stop_in_progress (464) is left   *)
(* out: a connection leaves ACTIVE once, so it never finds the flag set.   *)
(* The calls of the queue and of the registry are single steps; UrbQueue   *)
(* and DevMgr take them apart.  Only the close of a queue is two: it loads *)
(* the queue's address before it locks the queue, and ConnCleanup may      *)
(* destroy the queue in between.                                           *)
(*                                                                         *)
(* Memory.  A connection and a transport context are allocated once and    *)
(* freed once; their identities are not reused.  A thread that is about to *)
(* touch a freed object takes a Fault step instead, which records where,   *)
(* and the behaviour ends there: what the program does after it is         *)
(* undefined.  Nothing is lost by stopping: where such an access happens   *)
(* to be harmless, the run goes on as one where it came before the free.   *)
(***************************************************************************)
EXTENDS Naturals, Sequences, FiniteSets, SequencesExt

CONSTANTS
  MaxAccepts,      \* bound: how many imports may create a connection
  Devices,         \* bus ids the drivers offer, one driver per device
  MaxConnections,  \* USBIP_MAX_CONNECTIONS, also MAX_BUSY_DEVICES
  QueueCapacity,   \* URBs a queue holds: USBIP_URB_QUEUE_SIZE - 1
  Events,          \* bound: which of EventKinds may happen
  None             \* no connection, no device, no entry

(* A client sends an URB or leaves, thread creation fails, the import reply *)
(* fails, the operator stops the server.                                    *)
EventKinds == {"urb", "leave", "thread", "reply", "signal"}

(* The statements: Main's, those of request_stop, Cleaner's, the workers'.  *)
Places ==
  {"accept", "op", "limit", "add", "bind", "export", "busy", "init",
   "procCreate", "procStarted", "rxCreate", "rxStarted", "active", "replyOk",
   "replyDev", "failQueue", "failJoin", "failDestroy", "unexport", "available",
   "unbind", "remove", "free", "close", "collect", "halt", "haltPost",
   "joinCleaner", "done", "mark", "closeQueue", "lockQueue", "closeCtx",
   "clearCtx", "check", "wait", "lockScan", "scan", "destroyQueue", "closed", "lockReap",
   "reap", "relock", "off", "loop", "recv", "blocked", "push", "pop", "handle",
   "send", "exit", "clear", "exitPost", "log", "crashed"}

(* Where freed memory was touched: what it was, which thread, which place.  *)
Faults == [object : {"conn", "queue", "ctx", "sem"},
           thread : {"main", "cleaner", "rx", "proc"}, at : Places]

ASSUME ConnAssumption ==
  /\ MaxAccepts \in Nat \ {0}
  /\ MaxConnections \in Nat \ {0}
  /\ QueueCapacity \in Nat \ {0}
  /\ Events \subseteq EventKinds
  /\ None \notin Devices \cup (1 .. MaxAccepts) /\ None \notin Faults

Conns == 1 .. MaxAccepts

Main == <<"main", None>>
Cleaner == <<"cleaner", None>>
Rx(c) == <<"rx", c>>
Proc(c) == <<"proc", c>>
Workers == {"rx", "proc"} \X Conns
Threads == {Main, Cleaner} \cup Workers

VARIABLES
  conn,       \* the connection objects
  ctx,        \* the transport contexts: "none", "open" or "freed"
  list,       \* the manager's list of connections
  held,       \* does Cleaner hold the manager's mutex over several steps?
  posts,      \* the value of reap_sem
  cleanerOn,  \* cleanup_thread_running
  serverOn,   \* s_running
  registry,   \* the device registry (DevRegistry)
  exported,   \* the drivers' exported flags
  pc,         \* what each thread does next
  req,        \* the import Main is working on
  toStop,     \* conns[] of usbip_conn_manager_cleanup still to be stopped
  cur, nxt,   \* Cleaner's position in the list
  final,      \* is Cleaner in its final pass?
  fault       \* where freed memory was touched, None before that

vars == <<conn, ctx, list, held, posts, cleanerOn, serverOn, registry,
          exported, pc, req, toStop, cur, nxt, final, fault>>

manager == <<list, held, posts, cleanerOn, serverOn>>
devices == <<registry, exported>>
locals == <<req, toStop, cur, nxt, final, fault>>

Registry == INSTANCE DevRegistry WITH Owners <- Conns, Absent <- None,
                                      NoOwner <- 0, Capacity <- MaxConnections

(* A connection object before it is allocated and after it is freed.        *)
Blank == [mem |-> "none", state |-> "INIT", ptr |-> FALSE, running |-> FALSE,
          rxStarted |-> FALSE, procStarted |-> FALSE, dev |-> None,
          queue |-> "none", urbs |-> 0]

Init ==
  /\ conn = [c \in Conns |-> Blank]
  /\ ctx = [c \in Conns |-> "none"]
  /\ list = <<>> /\ held = FALSE /\ posts = 0
  /\ cleanerOn = TRUE /\ serverOn = TRUE
  /\ registry = [d \in Devices |-> None]
  /\ exported = [d \in Devices |-> FALSE]
  /\ pc = [t \in Threads |-> IF t = Main THEN "accept"
                             ELSE IF t = Cleaner THEN "check" ELSE "off"]
  /\ req = [conn |-> None, dev |-> None]
  /\ toStop = <<>>
  /\ cur = None /\ nxt = None /\ final = FALSE
  /\ fault = None

-----------------------------------------------------------------------------
(* Steps and memory.                                                        *)

Step(t, from, to) == pc[t] = from /\ pc' = [pc EXCEPT ![t] = to]

(* The connection thread t works on.                                        *)
Subject(t) ==
  IF t = Main THEN IF toStop # <<>> THEN Head(toStop) ELSE req.conn
  ELSE IF t = Cleaner THEN cur ELSE t[2]

Live(c) == conn[c].mem = "live"

Set(c, field, value) == conn' = [conn EXCEPT ![c][field] = value]

(* Statements that read or write the connection object.                     *)
TouchesConn(t) ==
  \/ pc[t] \in {"mark", "closeQueue", "closeCtx", "clearCtx"}
  \/ t = Main /\ pc[t] \in {"init", "procCreate", "procStarted", "rxCreate",
                            "rxStarted", "active", "failQueue", "failJoin",
                            "failDestroy", "remove", "free"}
  \/ t = Cleaner /\ pc[t] \in {"scan", "destroyQueue", "unexport", "available",
                               "unbind", "closed", "reap", "remove", "free"}
  \/ t \in Workers /\ pc[t] \in {"loop", "push", "pop", "handle", "exit",
                                 "clear", "log"}

(* Statements that use the queue whose address the thread has loaded.       *)
TouchesQueue(t) == pc[t] = "lockQueue"

(* Statements that read the transport context or free it.                   *)
TouchesCtx(t) ==
  \/ pc[t] = "closeCtx" /\ conn[Subject(t)].ptr
  \/ t = Main /\ pc[t] \in {"replyOk", "replyDev", "close"}
  \/ t \in Workers /\ pc[t] \in {"recv", "send"}

(* Statements that post reap_sem, which Main destroys when Cleaner is gone. *)
TouchesSem(t) ==
  \/ pc[t] \in {"clearCtx", "exitPost"}
  \/ pc[t] = "closeCtx" /\ ~conn[Subject(t)].ptr

Gone(t) ==
  IF TouchesConn(t) /\ conn[Subject(t)].mem = "freed" THEN {"conn"}
  ELSE IF TouchesQueue(t) /\ conn[Subject(t)].queue = "none" THEN {"queue"}
  ELSE IF TouchesCtx(t) /\ ctx[Subject(t)] = "freed" THEN {"ctx"}
  ELSE IF TouchesSem(t) /\ pc[Main] = "done" THEN {"sem"} ELSE {}

Fault(t) ==
  /\ Subject(t) # None
  /\ \E o \in Gone(t) :
       fault' = [object |-> o, thread |-> t[1], at |-> pc[t]]
  /\ pc' = [s \in Threads |-> "crashed"]
  /\ UNCHANGED <<conn, ctx, manager, devices, req, toStop, cur, nxt, final>>

-----------------------------------------------------------------------------
(* usbip_connection_request_stop, called by RX, by the processor and, when  *)
(* the server shuts down, by Main.                                          *)

(* The caller goes on: a worker leaves its loop, Main turns to the next     *)
(* connection it collected.                                                 *)
StopReturns(t) ==
  /\ pc' = [pc EXCEPT ![t] = IF t # Main THEN "exit"
                             ELSE IF Len(toStop) > 1 THEN "mark" ELSE "halt"]
  /\ toStop' = IF t = Main THEN Tail(toStop) ELSE toStop
  /\ UNCHANGED <<req, cur, nxt, final, fault>>

(* Mutant of StopMark: the state is not tested.                             *)
StopMarkAlways(t) ==
  LET c == Subject(t) IN
  /\ Step(t, "mark", "closeQueue") /\ Live(c)
  /\ conn' = [conn EXCEPT ![c].state = "CLOSING", ![c].running = FALSE]
  /\ UNCHANGED <<ctx, manager, devices, locals>>

(* Only the caller that finds the connection ACTIVE goes on to the signals. *)
StopMark(t) ==
  LET c == Subject(t) IN
  /\ pc[t] = "mark" /\ Live(c)
  /\ IF conn[c].state = "ACTIVE"
       THEN /\ conn' = [conn EXCEPT ![c].state = "CLOSING",
                                    ![c].running = FALSE]
            /\ Step(t, "mark", "closeQueue")
            /\ UNCHANGED locals
       ELSE StopReturns(t) /\ UNCHANGED conn
  /\ UNCHANGED <<ctx, manager, devices>>

(* usbip_urb_queue_close finds a queue and loads its address, or returns.   *)
StopCloseQueue(t) ==
  LET c == Subject(t) IN
  /\ Step(t, "closeQueue", IF conn[c].queue = "none" THEN "closeCtx"
                           ELSE "lockQueue")
  /\ Live(c)
  /\ UNCHANGED <<conn, ctx, manager, devices, locals>>

(* Mutant of StopSignalQueue: the queue stays open.                         *)
StopKeepQueue(t) ==
  /\ Step(t, "lockQueue", "closeCtx")
  /\ Live(Subject(t)) /\ conn[Subject(t)].queue # "none"
  /\ UNCHANGED <<conn, ctx, manager, devices, locals>>

(* It locks the queue, closes it, wakes whoever waits in it and unlocks it. *)
(* One step: the other users of the queue are kept out by its mutex, and a  *)
(* destruction in the middle, which does not take the mutex, is one before. *)
StopSignalQueue(t) ==
  LET c == Subject(t) IN
  /\ Step(t, "lockQueue", "closeCtx") /\ Live(c) /\ conn[c].queue # "none"
  /\ Set(c, "queue", "closed")
  /\ UNCHANGED <<ctx, manager, devices, locals>>

(* transport_close shuts the socket down and frees the context.             *)
CloseCtx(c) == ctx' = [ctx EXCEPT ![c] = "freed"]

Post == posts' = posts + 1 /\ UNCHANGED <<list, held, cleanerOn, serverOn>>

StopCloseCtx(t) ==
  LET c == Subject(t) IN
  /\ pc[t] = "closeCtx" /\ Live(c)
  /\ \/ /\ conn[c].ptr /\ ctx[c] = "open"
        /\ CloseCtx(c)
        /\ Step(t, "closeCtx", "clearCtx")
        /\ UNCHANGED <<manager, locals>>
     \/ /\ ~conn[c].ptr
        /\ Post
        /\ StopReturns(t)
        /\ UNCHANGED ctx
  /\ UNCHANGED <<conn, devices>>

(* The pointer is cleared and ConnCleanup notified.                         *)
StopClearCtx(t) ==
  LET c == Subject(t) IN
  /\ pc[t] = "clearCtx" /\ Live(c)
  /\ Set(c, "ptr", FALSE)
  /\ Post
  /\ StopReturns(t)
  /\ UNCHANGED <<ctx, devices>>

Stop(t) == \/ StopMark(t) \/ StopCloseQueue(t) \/ StopSignalQueue(t)
           \/ StopCloseCtx(t) \/ StopClearCtx(t)

-----------------------------------------------------------------------------
(* usbip_conn_rx_thread                                                     *)

(* The loop condition, and the context loaded for the receive.              *)
RxLoop(c) ==
  /\ Step(Rx(c), "loop", IF ~conn[c].running THEN "exit"
                         ELSE IF conn[c].ptr THEN "recv" ELSE "mark")
  /\ Live(c)
  /\ UNCHANGED <<conn, ctx, manager, devices, locals>>

(* recv() is entered with the descriptor read from the context.             *)
RxRecv(c) ==
  /\ Step(Rx(c), "recv", "blocked") /\ ctx[c] = "open"
  /\ UNCHANGED <<conn, ctx, manager, devices, locals>>

(* What the client does: recv() returns with a part of what is expected, or *)
(* with a header that announces OUT data, and the context is read again; a  *)
(* URB is complete; the client has left.                                    *)
RxHears(c) ==
  /\ \/ Step(Rx(c), "blocked", "recv")
     \/ "urb" \in Events /\ Step(Rx(c), "blocked", "push")
     \/ "leave" \in Events /\ Step(Rx(c), "blocked", "mark")
  /\ UNCHANGED <<conn, ctx, manager, devices, locals>>

(* The socket was shut down.                                                *)
RxShut(c) ==
  /\ Step(Rx(c), "blocked", "mark") /\ ctx[c] = "freed"
  /\ UNCHANGED <<conn, ctx, manager, devices, locals>>

(* Blocks while the queue is full and open.                                 *)
RxPush(c) ==
  /\ Live(c)
  /\ \/ /\ Step(Rx(c), "push", "loop")
        /\ conn[c].queue = "open" /\ conn[c].urbs < QueueCapacity
        /\ Set(c, "urbs", conn[c].urbs + 1)
     \/ /\ Step(Rx(c), "push", "mark")
        /\ conn[c].queue # "open"
        /\ UNCHANGED conn
  /\ UNCHANGED <<ctx, manager, devices, locals>>

RxExit(c) ==
  /\ Step(Rx(c), "exit", "exitPost") /\ Live(c)
  /\ Set(c, "rxStarted", FALSE)
  /\ UNCHANGED <<ctx, manager, devices, locals>>

RxExitPost(c) ==
  /\ Step(Rx(c), "exitPost", "done")
  /\ Post
  /\ UNCHANGED <<conn, ctx, devices, locals>>

RxThread(c) == \/ RxLoop(c) \/ RxRecv(c) \/ RxShut(c)
               \/ RxPush(c) \/ RxExit(c) \/ RxExitPost(c)

-----------------------------------------------------------------------------
(* usbip_conn_processor_thread                                              *)

ProcLoop(c) ==
  /\ Step(Proc(c), "loop", IF conn[c].running THEN "pop" ELSE "exit")
  /\ Live(c)
  /\ UNCHANGED <<conn, ctx, manager, devices, locals>>

(* Blocks while the queue is empty and open.                                *)
ProcPop(c) ==
  /\ Live(c)
  /\ \/ /\ Step(Proc(c), "pop", "handle")
        /\ conn[c].urbs > 0
        /\ Set(c, "urbs", conn[c].urbs - 1)
     \/ /\ Step(Proc(c), "pop", "exit")
        /\ conn[c].urbs = 0 /\ conn[c].queue # "open"
        /\ UNCHANGED conn
  /\ UNCHANGED <<ctx, manager, devices, locals>>

(* The driver answers the URB, answers without a reply, or refuses an       *)
(* unknown command; the reply starts with loading the context.              *)
ProcHandle(c) ==
  /\ Live(c)
  /\ \/ Step(Proc(c), "handle", IF conn[c].ptr THEN "send" ELSE "mark")
     \/ Step(Proc(c), "handle", "loop")
     \/ Step(Proc(c), "handle", "mark")
  /\ UNCHANGED <<conn, ctx, manager, devices, locals>>

(* The reply header, then the reply data if there is any: the thread may    *)
(* still be in "send" after the first of them.                              *)
ProcSend(c) ==
  /\ Step(Proc(c), "send", "loop") \/ Step(Proc(c), "send", "mark")
  /\ ctx[c] = "open"
  /\ UNCHANGED <<conn, ctx, manager, devices, locals>>

ProcExit(c) ==
  /\ Step(Proc(c), "exit", "clear") /\ Live(c)
  /\ Set(c, "running", FALSE)
  /\ UNCHANGED <<ctx, manager, devices, locals>>

ProcClear(c) ==
  /\ Step(Proc(c), "clear", "exitPost") /\ Live(c)
  /\ Set(c, "procStarted", FALSE)
  /\ UNCHANGED <<ctx, manager, devices, locals>>

(* Mutant of ProcExitPost: ConnCleanup is not notified.                     *)
ProcExitSilent(c) ==
  /\ Step(Proc(c), "exitPost", "log")
  /\ UNCHANGED <<conn, ctx, manager, devices, locals>>

ProcExitPost(c) ==
  /\ Step(Proc(c), "exitPost", "log")
  /\ Post
  /\ UNCHANGED <<conn, ctx, devices, locals>>

(* The last statement of the thread formats conn->busid.                    *)
ProcLog(c) ==
  /\ Step(Proc(c), "log", "done") /\ Live(c)
  /\ UNCHANGED <<conn, ctx, manager, devices, locals>>

ProcThread(c) == \/ ProcLoop(c) \/ ProcPop(c) \/ ProcHandle(c)
                 \/ ProcSend(c) \/ ProcExit(c) \/ ProcClear(c)
                 \/ ProcExitPost(c) \/ ProcLog(c)

-----------------------------------------------------------------------------
(* usbip_conn_cleanup_thread.  "check" is the loop condition; the last pass *)
(* after the loop is the same two walks with final set.                     *)

InList(c) == \E i \in DOMAIN list : list[i] = c

(* conn->next; a connection out of the list has none.                       *)
NextOf(c) ==
  IF \E i \in 1 .. Len(list) - 1 : list[i] = c
    THEN list[1 + CHOOSE i \in 1 .. Len(list) - 1 : list[i] = c]
    ELSE None

First == IF list = <<>> THEN None ELSE Head(list)

CleanCheck ==
  /\ Step(Cleaner, "check", IF cleanerOn THEN "wait" ELSE "lockScan")
  /\ final' = ~cleanerOn
  /\ UNCHANGED <<conn, ctx, manager, devices, req, toStop, cur, nxt, fault>>

CleanWait ==
  /\ Step(Cleaner, "wait", "lockScan")
  /\ posts > 0 /\ posts' = posts - 1
  /\ UNCHANGED <<conn, ctx, list, held, cleanerOn, serverOn, devices, locals>>

(* Mutant of Stopped: only the RX flag is looked at.                        *)
StoppedByRx(c) == conn[c].state = "CLOSING" /\ ~conn[c].rxStarted

Stopped(c) == /\ conn[c].state = "CLOSING"
              /\ ~conn[c].rxStarted /\ ~conn[c].procStarted

(* Cleaner goes on from pc p to c, the end of the walk included: there it   *)
(* gives the mutex up, and the next walk or the next round follows.         *)
Walk(p, c) ==
  /\ cur' = c
  /\ held' = (c # None)
  /\ pc' = [pc EXCEPT ![Cleaner] = IF c # None THEN p
                                   ELSE IF p = "scan" THEN "lockReap"
                                   ELSE IF final THEN "done" ELSE "check"]
  /\ UNCHANGED <<ctx, list, posts, cleanerOn, serverOn, req, toStop, final, fault>>

CleanLock ==
  /\ ~held
  /\ \/ pc[Cleaner] = "lockScan" /\ Walk("scan", First)
     \/ pc[Cleaner] = "lockReap" /\ Walk("reap", First)
  /\ UNCHANGED <<conn, devices, nxt>>

CleanScan ==
  /\ pc[Cleaner] = "scan" /\ Live(cur)
  /\ \/ Stopped(cur) /\ Step(Cleaner, "scan", "destroyQueue")
        /\ UNCHANGED <<ctx, manager, locals>>
     \/ ~Stopped(cur) /\ Walk("scan", NextOf(cur)) /\ UNCHANGED nxt
  /\ UNCHANGED <<conn, devices>>

(* Mutant of CleanDestroyQueue: the mutex is given up for the slow part.    *)
CleanDestroyUnlocked ==
  /\ Step(Cleaner, "destroyQueue", "unexport") /\ Live(cur)
  /\ conn' = [conn EXCEPT ![cur].queue = "none", ![cur].urbs = 0]
  /\ held' = FALSE
  /\ UNCHANGED <<ctx, list, posts, cleanerOn, serverOn, devices, locals>>

CleanDestroyQueue ==
  /\ Step(Cleaner, "destroyQueue", "unexport") /\ Live(cur)
  /\ conn' = [conn EXCEPT ![cur].queue = "none", ![cur].urbs = 0]
  /\ UNCHANGED <<ctx, manager, devices, locals>>

(* Mutant of CleanUnexport: the registry is forgotten.                      *)
CleanUnexportOnly ==
  /\ Step(Cleaner, "unexport", "closed") /\ Live(cur)
  /\ exported' = [exported EXCEPT ![conn[cur].dev] = FALSE]
  /\ UNCHANGED <<conn, ctx, manager, registry, locals>>

CleanUnexport ==
  /\ Step(Cleaner, "unexport", "available") /\ Live(cur)
  /\ exported' = [exported EXCEPT ![conn[cur].dev] = FALSE]
  /\ UNCHANGED <<conn, ctx, manager, registry, locals>>

(* The driver's unexport succeeded, the device is made available; then it   *)
(* is unbound, which finds nothing left to drop.                            *)
CleanRelease ==
  /\ \/ Step(Cleaner, "available", "unbind") \/ Step(Cleaner, "unbind", "closed")
  /\ Live(cur)
  /\ Registry!Release(conn[cur].dev)
  /\ UNCHANGED <<conn, ctx, manager, exported, locals>>

CleanClosed ==
  /\ pc[Cleaner] = "closed" /\ Live(cur)
  /\ Set(cur, "state", "CLOSED")
  /\ Walk("scan", NextOf(cur))
  /\ UNCHANGED <<devices, nxt>>

(* The next connection is remembered before the mutex is given up.          *)
CleanReap ==
  /\ pc[Cleaner] = "reap" /\ Live(cur)
  /\ \/ /\ conn[cur].state = "CLOSED"
        /\ Step(Cleaner, "reap", "remove")
        /\ held' = FALSE
        /\ nxt' = NextOf(cur)
        /\ UNCHANGED <<ctx, list, posts, cleanerOn, serverOn, req, toStop, cur,
                       final, fault>>
     \/ conn[cur].state # "CLOSED" /\ Walk("reap", NextOf(cur)) /\ UNCHANGED nxt
  /\ UNCHANGED <<conn, devices>>

Unlink(c) ==
  list' = IF InList(c) THEN RemoveAt(list, CHOOSE i \in DOMAIN list : list[i] = c)
          ELSE list

CleanRemove ==
  /\ Step(Cleaner, "remove", "free") /\ ~held /\ Live(cur)
  /\ Unlink(cur)
  /\ UNCHANGED <<conn, ctx, held, posts, cleanerOn, serverOn, devices, locals>>

Freed == [Blank EXCEPT !.mem = "freed"]

CleanFree ==
  /\ Step(Cleaner, "free", "relock") /\ Live(cur)
  /\ conn' = [conn EXCEPT ![cur] = Freed]
  /\ UNCHANGED <<ctx, manager, devices, locals>>

CleanRelock ==
  /\ pc[Cleaner] = "relock" /\ ~held
  /\ Walk("reap", nxt)
  /\ nxt' = None
  /\ UNCHANGED <<conn, devices>>

CleanerThread ==
  \/ CleanCheck \/ CleanWait \/ CleanLock \/ CleanScan \/ CleanDestroyQueue
  \/ CleanUnexport \/ CleanRelease \/ CleanClosed \/ CleanReap \/ CleanRemove
  \/ CleanFree \/ CleanRelock

-----------------------------------------------------------------------------
(* usbip_server_run and what it calls.  A client that leaves without a      *)
(* connection gives its identity back.                                      *)

Unused(c) == conn[c].mem = "none" /\ ctx[c] = "none"

(* SIGINT closes the listening socket: accept fails and the loop ends.      *)
MainAccept ==
  \/ /\ Step(Main, "accept", "op") /\ serverOn
     /\ \E c \in Conns :
          /\ Unused(c) /\ \A b \in Conns : b < c => ~Unused(b)
          /\ ctx' = [ctx EXCEPT ![c] = "open"]
          /\ req' = [conn |-> c, dev |-> None]
     /\ UNCHANGED <<conn, manager, devices, toStop, cur, nxt, final, fault>>
  \/ /\ Step(Main, "accept", "collect") /\ ~serverOn
     /\ UNCHANGED <<conn, ctx, manager, devices, locals>>

(* Refused before a connection object exists: the context is closed.        *)
Refuse ==
  /\ ctx' = [ctx EXCEPT ![req.conn] = "none"]
  /\ req' = [conn |-> None, dev |-> None]
  /\ UNCHANGED <<conn, manager, devices, toStop, cur, nxt, final, fault>>

(* OP_REQ_DEVLIST, an unknown operation or version, an import of a busid no *)
(* driver has, and a client that hangs up.                                  *)
MainOther == Step(Main, "op", "accept") /\ Refuse

(* Mutant of MainImport: a busy device is not refused.                      *)
MainImportAny(d) ==
  /\ Step(Main, "op", "limit")
  /\ req' = [req EXCEPT !.dev = d]
  /\ UNCHANGED <<conn, ctx, manager, devices, toStop, cur, nxt, final, fault>>

MainImport(d) ==
  \/ /\ Step(Main, "op", "limit") /\ Registry!Available(d)
     /\ req' = [req EXCEPT !.dev = d]
     /\ UNCHANGED <<conn, ctx, manager, devices, toStop, cur, nxt, final, fault>>
  \/ Step(Main, "op", "accept") /\ ~Registry!Available(d) /\ Refuse

MainLimit ==
  /\ ~held
  /\ \/ Step(Main, "limit", "accept") /\ Len(list) >= MaxConnections /\ Refuse
     \/ /\ Step(Main, "limit", "add") /\ Len(list) < MaxConnections
        /\ conn' = [conn EXCEPT ![req.conn] =
                      [Blank EXCEPT !.mem = "live", !.ptr = TRUE]]
        /\ UNCHANGED <<ctx, manager, devices, locals>>

MainAdd ==
  /\ ~held
  /\ LET full == Len(list) >= MaxConnections
     IN  /\ Step(Main, "add", IF full THEN "remove" ELSE "bind")
         /\ list' = IF full THEN list ELSE Append(list, req.conn)
  /\ UNCHANGED <<conn, ctx, held, posts, cleanerOn, serverOn, devices, locals>>

MainBind ==
  /\ pc[Main] = "bind"
  /\ IF Registry!CanBind(req.dev)
       THEN Step(Main, "bind", "export") /\ Registry!Bind(req.dev, req.conn)
       ELSE Step(Main, "bind", "remove") /\ UNCHANGED registry
  /\ UNCHANGED <<conn, ctx, manager, exported, locals>>

(* The driver refuses a device it has already exported.                     *)
MainExport ==
  /\ Step(Main, "export", IF exported[req.dev] THEN "unbind" ELSE "busy")
  /\ exported' = [exported EXCEPT ![req.dev] = TRUE]
  /\ UNCHANGED <<conn, ctx, manager, registry, locals>>

MainBusy ==
  /\ Step(Main, "busy", "init")
  /\ Registry!SetBusy(req.dev)
  /\ UNCHANGED <<conn, ctx, manager, exported, locals>>

-----------------------------------------------------------------------------
(* usbip_connection_start                                                   *)

StartInit ==
  /\ Step(Main, "init", "procCreate") /\ Live(req.conn)
  /\ conn' = [conn EXCEPT ![req.conn].dev = req.dev,
                          ![req.conn].queue = "open",
                          ![req.conn].running = TRUE]
  /\ UNCHANGED <<ctx, manager, devices, locals>>

(* osal_thread_create: the thread runs from here on.                        *)
Create(at, worker, ok, failed) ==
  /\ pc[Main] = at /\ Live(req.conn)
  /\ \/ pc' = [pc EXCEPT ![Main] = ok, ![worker] = "loop"]
     \/ "thread" \in Events /\ pc' = [pc EXCEPT ![Main] = failed]
  /\ UNCHANGED <<conn, ctx, manager, devices, locals>>

StartProc == Create("procCreate", Proc(req.conn), "procStarted", "failDestroy")
StartRx == Create("rxCreate", Rx(req.conn), "rxStarted", "failQueue")

StartSet(at, to, field, value) ==
  /\ Step(Main, at, to) /\ Live(req.conn)
  /\ Set(req.conn, field, value)
  /\ UNCHANGED <<ctx, manager, devices, locals>>

StartProcStarted == StartSet("procStarted", "rxCreate", "procStarted", TRUE)
StartRxStarted == StartSet("rxStarted", "active", "rxStarted", TRUE)
StartActive == StartSet("active", "replyOk", "state", "ACTIVE")

StartFailQueue ==
  /\ Step(Main, "failQueue", "failJoin") /\ Live(req.conn)
  /\ conn' = [conn EXCEPT ![req.conn].running = FALSE,
                          ![req.conn].queue = "closed"]
  /\ UNCHANGED <<ctx, manager, devices, locals>>

StartFailJoin ==
  /\ Step(Main, "failJoin", "failDestroy") /\ Live(req.conn)
  /\ pc[Proc(req.conn)] = "done"
  /\ Set(req.conn, "procStarted", FALSE)
  /\ UNCHANGED <<ctx, manager, devices, locals>>

StartFailDestroy ==
  /\ Step(Main, "failDestroy", "unexport") /\ Live(req.conn)
  /\ conn' = [conn EXCEPT ![req.conn].queue = "none", ![req.conn].urbs = 0]
  /\ UNCHANGED <<ctx, manager, devices, locals>>

StartConn == \/ StartInit \/ StartProc \/ StartProcStarted \/ StartRx
             \/ StartRxStarted \/ StartActive
             \/ StartFailQueue \/ StartFailJoin \/ StartFailDestroy

-----------------------------------------------------------------------------
(* The reply to the import, and taking a failed import back.                *)

ImportDone == /\ req' = [conn |-> None, dev |-> None]
              /\ UNCHANGED <<toStop, cur, nxt, final, fault>>

MainReply ==
  /\ pc[Main] \in {"replyOk", "replyDev"} /\ ctx[req.conn] = "open"
  /\ \/ Step(Main, "replyOk", "replyDev") /\ UNCHANGED locals
     \/ Step(Main, "replyDev", "accept") /\ ImportDone
     \/ /\ "reply" \in Events
        /\ Step(Main, "replyOk", "unexport") \/ Step(Main, "replyDev", "unexport")
        /\ UNCHANGED locals
  /\ UNCHANGED <<conn, ctx, manager, devices>>

MainUnexport ==
  /\ Step(Main, "unexport", "available")
  /\ exported' = [exported EXCEPT ![req.dev] = FALSE]
  /\ UNCHANGED <<conn, ctx, manager, registry, locals>>

MainRelease ==
  /\ \/ Step(Main, "available", "unbind") \/ Step(Main, "unbind", "remove")
  /\ Registry!Release(req.dev)
  /\ UNCHANGED <<conn, ctx, manager, exported, locals>>

(* usbip_conn_manager_remove; usbip_connection_destroy calls it once more.  *)
MainRemove ==
  /\ Step(Main, "remove", "free") /\ ~held /\ Live(req.conn)
  /\ Unlink(req.conn)
  /\ UNCHANGED <<conn, ctx, held, posts, cleanerOn, serverOn, devices, locals>>

MainFree ==
  /\ Step(Main, "free", "close") /\ Live(req.conn)
  /\ conn' = [conn EXCEPT ![req.conn] = Freed]
  /\ UNCHANGED <<ctx, manager, devices, locals>>

MainClose ==
  /\ Step(Main, "close", "accept")
  /\ ctx[req.conn] = "open"
  /\ CloseCtx(req.conn)
  /\ ImportDone
  /\ UNCHANGED <<conn, manager, devices>>

ImportFailed == \/ MainUnexport \/ MainRelease \/ MainRemove
                \/ MainFree \/ MainClose

-----------------------------------------------------------------------------
(* usbip_conn_manager_cleanup                                               *)

MainCollect ==
  /\ Step(Main, "collect", IF list = <<>> THEN "halt" ELSE "mark") /\ ~held
  /\ toStop' = list
  /\ UNCHANGED <<conn, ctx, manager, devices, req, cur, nxt, final, fault>>

(* Mutant of MainHalt: ConnCleanup is not woken to see the flag.            *)
MainHaltSilent ==
  /\ \/ Step(Main, "halt", "haltPost") /\ cleanerOn' = FALSE
     \/ Step(Main, "haltPost", "joinCleaner") /\ UNCHANGED cleanerOn
  /\ UNCHANGED <<conn, ctx, list, held, posts, serverOn, devices, locals>>

MainHalt ==
  /\ \/ Step(Main, "halt", "haltPost") /\ cleanerOn' = FALSE /\ UNCHANGED posts
     \/ /\ Step(Main, "haltPost", "joinCleaner") /\ posts' = posts + 1
        /\ UNCHANGED cleanerOn
  /\ UNCHANGED <<conn, ctx, list, held, serverOn, devices, locals>>

MainJoin ==
  /\ Step(Main, "joinCleaner", "done") /\ pc[Cleaner] = "done"
  /\ list' = <<>>
  /\ UNCHANGED <<conn, ctx, held, posts, cleanerOn, serverOn, devices, locals>>

MainShutdown == MainCollect \/ MainHalt \/ MainJoin

MainThread ==
  \/ MainAccept \/ MainLimit \/ MainAdd \/ MainBind \/ MainExport
  \/ MainBusy \/ StartConn \/ MainReply \/ ImportFailed \/ MainShutdown

-----------------------------------------------------------------------------
(* The clients and the operator.                                            *)

(* What the client Main has accepted asks for.                              *)
ClientAsks == MainOther \/ \E d \in Devices : MainImport(d)

SigStop ==
  /\ "signal" \in Events /\ fault = None
  /\ serverOn /\ serverOn' = FALSE
  /\ UNCHANGED <<conn, ctx, list, held, posts, cleanerOn, devices, pc, locals>>

-----------------------------------------------------------------------------

Callers == Workers \cup {Main}

(* A step of thread t that waits for nothing outside the server.            *)
ThreadStep(t) ==
  \/ t = Main /\ MainThread
  \/ t = Cleaner /\ CleanerThread
  \/ t \in Workers /\ t[1] = "rx" /\ RxThread(t[2])
  \/ t \in Workers /\ t[1] = "proc" /\ ProcThread(t[2])
  \/ t \in Callers /\ Stop(t)

Next ==
  \/ MainThread \/ CleanerThread \/ ClientAsks \/ SigStop
  \/ \E c \in Conns : RxThread(c) \/ ProcThread(c) \/ RxHears(c)
  \/ \E t \in Callers : Stop(t)
  \/ \E t \in Threads : Fault(t)

Spec == Init /\ [][Next]_vars

(* Every thread is scheduled.  Nothing is assumed of the clients or of the  *)
(* operator, except in PatientSpec, where an accepted client sends its      *)
(* request or hangs up.                                                     *)
FairSpec == Spec /\ \A t \in Threads : WF_vars(ThreadStep(t) \/ Fault(t))

PatientSpec == FairSpec /\ WF_vars(ClientAsks)

-----------------------------------------------------------------------------
(* Properties                                                               *)

Flags == [mem : {"none", "live", "freed"},
          state : {"INIT", "ACTIVE", "CLOSING", "CLOSED"},
          ptr : BOOLEAN, running : BOOLEAN,
          rxStarted : BOOLEAN, procStarted : BOOLEAN,
          dev : Devices \cup {None},
          queue : {"none", "open", "closed"},
          urbs : 0 .. QueueCapacity]

(* Types; the manager's list has no connection twice and no more than the   *)
(* limit, and Cleaner holds the mutex exactly while it walks                *)
(* (usbip_conn.c:237-250, 257-283).                                         *)
TypeOK ==
  /\ conn \in [Conns -> Flags]
  /\ ctx \in [Conns -> {"none", "open", "freed"}]
  /\ list \in Seq(Conns) /\ Len(list) <= MaxConnections
  /\ \A i, j \in DOMAIN list : list[i] = list[j] => i = j
  /\ posts \in Nat /\ cleanerOn \in BOOLEAN /\ serverOn \in BOOLEAN
  /\ Registry!TypeOK
  /\ exported \in [Devices -> BOOLEAN]
  /\ req \in [conn : Conns \cup {None}, dev : Devices \cup {None}]
  /\ {cur, nxt} \subseteq Conns \cup {None}
  /\ pc \in [Threads -> Places] /\ fault \in Faults \cup {None}
  /\ fault = None => held = (pc[Cleaner] \in {"scan", "destroyQueue", "unexport",
                                             "available", "unbind", "closed",
                                             "reap"})

(* ConnCleanup destroys the queue and releases the device of a connection   *)
(* (usbip_conn.c:268-280) only when both of its threads are past their last *)
(* use of them, although it goes by two flags that three threads write      *)
(* (409, 419, 605, 664) and one of them also by a join that never happens.  *)
TornDownAfterExit ==
  \A c \in Conns :
    /\ fault = None /\ Live(c)
    /\ \/ conn[c].state = "CLOSED"
       \/ cur = c /\ pc[Cleaner] \in {"destroyQueue", "unexport", "available",
                                      "unbind", "closed"}
    => /\ pc[Rx(c)] \in {"exitPost", "done"}
       /\ pc[Proc(c)] \in {"exitPost", "log", "done"}

Serving(c) == pc[Proc(c)] \in {"loop", "pop", "handle", "send"}

(* As long as the processor of a connection can hand an URB to the driver,  *)
(* the driver has the device exported and the registry says it is this      *)
(* connection's: no two connections serve one device.  The release in       *)
(* ConnCleanup and the import in the server's thread run concurrently       *)
(* (usbip_conn.c:272-273, usbip_server.c:228-303).                          *)
HeldWhileServed ==
  \A c \in Conns :
    Live(c) /\ Serving(c) /\ ~(pc[Main] \in {"unexport", "available", "unbind",
                                             "remove", "free"} /\ req.conn = c)
    => registry[conn[c].dev] = c /\ exported[conn[c].dev]

(* A registered device has an owner, and the owner is a connection in the   *)
(* list: a device is never left busy without a connection that will give it *)
(* back (usbip_devmgr.c:490-541, usbip_server.c:286-331).                   *)
OwnerListed ==
  pc[Main] # "done" /\ fault = None =>
    \A d \in Devices : registry[d] # None =>
      registry[d] \in Conns /\ InList(registry[d]) /\ Live(registry[d])

(* The device of a connection is taken from it only on its own behalf.  The *)
(* driver's unexport already makes the device available, and ConnCleanup    *)
(* unbinds it by name once more (usbip_conn.c:272-273, usbip_devmgr.c:455): *)
(* an import that ran in between would lose its device to that.             *)
OnlyOwnDeviceReleased ==
  [][\A d \in Devices : registry[d] \in Conns /\ registry'[d] # registry[d] =>
       \/ pc[Cleaner] \in {"available", "unbind"} /\ cur = registry[d]
       \/ pc[Main] \in {"available", "unbind"} /\ req.conn = registry[d]]_vars

(* ConnCleanup never sleeps through work: when it waits and reap_sem is 0,  *)
(* every listed connection it could tear down or destroy still has a thread *)
(* that has not posted (usbip_conn.c:261-263, 293, 482, 605-606, 664-665).  *)
ReapNotLost ==
  pc[Cleaner] = "wait" /\ posts = 0 =>
    \A c \in Conns : InList(c) /\ (Stopped(c) \/ conn[c].state = "CLOSED") =>
      \E t \in Callers : /\ Subject(t) = c
                         /\ pc[t] \in {"closeQueue", "lockQueue", "closeCtx",
                                      "clearCtx", "exitPost"}

(* As long as import replies are delivered, freed memory is touched only by *)
(* the accesses the README lists: no context or connection is freed twice,  *)
(* RX and the processor never use a freed connection but for the last log   *)
(* line, a destroyed queue is touched by nobody but the server's thread as  *)
(* it shuts down, and ConnCleanup uses a freed connection only where it     *)
(* goes on, after a destroy, to one whose import was taken back in the      *)
(* meantime (usbip_conn.c:111-118, 233-284, 448-478, usbip_urb.c:270-281).  *)
FaultsKnown ==
  fault # None /\ "reply" \notin Events =>
    \/ fault.object = "conn" /\ fault.thread = "proc" /\ fault.at = "log"
    \/ fault.object = "conn" /\ fault.thread = "cleaner" /\ fault.at = "reap"
       /\ "thread" \in Events
    \/ fault.object = "conn" /\ fault.thread = "main"
       /\ fault.at \in {"mark", "closeQueue", "closeCtx", "clearCtx"}
    \/ fault.object = "queue" /\ fault.thread = "main"
    \/ fault.object = "ctx" /\ fault.at \in {"recv", "send", "replyOk", "replyDev"}
    \/ fault.object = "sem"

(* A thread that ended before usbip_connection_start recorded that it was   *)
(* started (usbip_conn.c:409, 419).                                         *)
Stuck(c) ==
  \/ conn[c].rxStarted /\ pc[Rx(c)] \in {"exitPost", "done"}
  \/ conn[c].procStarted /\ pc[Proc(c)] \in {"exitPost", "log", "done"}

(* Once a stop is requested, RX blocked in recv or in a full queue and the  *)
(* processor blocked in an empty one come out, and ConnCleanup frees the    *)
(* connection, unless the server is stopped first (usbip_conn.c:438-483,    *)
(* 253-304).                                                                *)
ClosingCompletes ==
  \A c \in Conns :
    conn[c].state = "CLOSING"
      ~> conn[c].mem = "freed" \/ Stuck(c) \/ ~serverOn \/ fault # None

(* After SIGINT the server ends, whatever its connections are doing         *)
(* (usbip_server.c:447-495, usbip_conn.c:99-131).                           *)
ShutdownEnds == ~serverOn ~> pc[Main] = "done" \/ fault # None

(* What the import checked is still so when it acts on it, although other   *)
(* calls and ConnCleanup's steps come in between: there is room in the list,*)
(* the device is available, the driver has not exported it, and the entry   *)
(* set busy is this connection's (usbip_server.c:228, 264, 280-292,         *)
(* usbip_devmgr.c:437-439).  The error branches there are never taken.      *)
ChecksStillHold ==
  /\ pc[Main] = "add" => Len(list) < MaxConnections
  /\ pc[Main] = "bind" => Registry!CanBind(req.dev)
  /\ pc[Main] = "export" => ~exported[req.dev]
  /\ pc[Main] = "busy" => registry[req.dev] = req.conn

-----------------------------------------------------------------------------
(* What a document says, and the code does not do: this is violated.        *)

(* docs/multi-client-architecture.md:367: after a connection closes its     *)
(* threads, queue and resources are released.  usbip_connection_start can   *)
(* set rx_thread_started and ACTIVE after RX came and went.                 *)
DisconnectFrees ==
  \A c \in Conns :
    pc[Rx(c)] = "done" ~> conn[c].mem = "freed" \/ ~serverOn \/ fault # None

=============================================================================
