---------------------------- MODULE UsbipConnProofs ----------------------------
(***************************************************************************)
(* Proofs about UsbipConn for every number of imports, every set of        *)
(* devices, every limit and every choice of events.                        *)
(***************************************************************************)
EXTENDS UsbipConn, FiniteSetTheorems, SequenceTheorems, TLAPS

-----------------------------------------------------------------------------
(* Threads.                                                                 *)

LEMMA ThreadFacts ==
  /\ Main \in Threads /\ Cleaner \in Threads /\ Main # Cleaner
  /\ \A c \in Conns :
       /\ Rx(c) \in Threads /\ Proc(c) \in Threads
       /\ Rx(c) # Main /\ Rx(c) # Cleaner /\ Proc(c) # Main /\ Proc(c) # Cleaner
       /\ \A d \in Conns : /\ Rx(c) # Proc(d)
                           /\ (Rx(c) = Rx(d) => c = d)
                           /\ (Proc(c) = Proc(d) => c = d)
BY DEF Main, Cleaner, Rx, Proc, Threads, Workers

LEMMA CallerFacts ==
  /\ Subject(Cleaner) = cur
  /\ \A c \in Conns : Subject(Rx(c)) = c /\ Subject(Proc(c)) = c
  /\ \A t \in Workers : \E c \in Conns : t = Rx(c) \/ t = Proc(c)
BY DEF Subject, Main, Cleaner, Rx, Proc, Threads, Workers

-----------------------------------------------------------------------------
(* The inductive invariant.                                                 *)

(* Past its last use of the connection's queue and driver.                  *)
RxPast(c) == pc[Rx(c)] \in {"exitPost", "done", "crashed"}
ProcPast(c) == pc[Proc(c)] \in {"exitPost", "log", "done", "crashed"}

(* Main has allocated req.conn and not made it ACTIVE yet.                  *)
Building == {"add", "bind", "export", "busy", "init", "procCreate",
             "procStarted", "rxCreate", "rxStarted", "active"}

(* Cleaner is taking cur apart.                                             *)
Teardown == {"destroyQueue", "unexport", "available", "unbind", "closed"}

(* A thread is recorded as started from its creation until its end, or, if  *)
(* the record came too late, ever after.                                    *)
ImportInv ==
  /\ pc[Main] \in {"op", "limit"} =>
       req.conn \in Conns /\ conn[req.conn].mem = "none"
  /\ pc[Main] \in Building =>
       req.conn \in Conns /\ conn[req.conn].state = "INIT"
  /\ pc[Main] \in {"rxCreate", "rxStarted", "active"} =>
       conn[req.conn].procStarted \/ ProcPast(req.conn)
  /\ pc[Main] = "active" => conn[req.conn].rxStarted \/ RxPast(req.conn)

CleanInv ==
  cur \in Conns =>
    /\ pc[Cleaner] \in Teardown \cup {"remove", "free"} => conn[cur].mem # "none"
    /\ pc[Cleaner] \in Teardown /\ Live(cur) => Stopped(cur)
    /\ pc[Cleaner] \in {"remove", "free"} /\ Live(cur) => conn[cur].state = "CLOSED"

ExitInv ==
  \A c \in Conns : conn[c].state # "INIT" =>
    /\ conn[c].rxStarted \/ RxPast(c)
    /\ conn[c].procStarted \/ ProcPast(c)

ClosedInv ==
  \A c \in Conns : conn[c].state = "CLOSED" => RxPast(c) /\ ProcPast(c)

CrashInv == fault = None => \A t \in Threads : pc[t] # "crashed"

IInv ==
  /\ conn \in [Conns -> Flags]
  /\ pc \in [Threads -> Places]
  /\ req \in [conn : Conns \cup {None}, dev : Devices \cup {None}]
  /\ ImportInv /\ CleanInv /\ ExitInv /\ ClosedInv /\ CrashInv

(* What a step may do to the connections and to pc without disturbing the   *)
(* invariant, as long as it is not Main's or Cleaner's own doing: a         *)
(* connection may go from ACTIVE to CLOSING, and a started flag may fall    *)
(* when its thread is past.                                                 *)
Quiet ==
  /\ conn' \in [Conns -> Flags] /\ pc' \in [Threads -> Places]
  /\ \A c \in Conns :
       /\ conn'[c].mem = conn[c].mem
       /\ \/ conn'[c].state = conn[c].state
          \/ conn[c].state = "ACTIVE" /\ conn'[c].state = "CLOSING"
       /\ (conn'[c].rxStarted => conn[c].rxStarted)
       /\ (conn'[c].procStarted => conn[c].procStarted)
       /\ (conn[c].rxStarted => conn'[c].rxStarted \/ RxPast(c)')
       /\ (conn[c].procStarted => conn'[c].procStarted \/ ProcPast(c)')
       /\ (RxPast(c) => RxPast(c)')
       /\ (ProcPast(c) => ProcPast(c)')
  /\ \A t \in Threads : pc'[t] # "crashed" \/ pc[t] = "crashed"
  /\ fault' = fault

LEMMA QuietInv ==
  ASSUME IInv, Quiet, ImportInv', CleanInv', req' \in [conn : Conns \cup {None},
                                                     dev : Devices \cup {None}]
  PROVE  IInv'
<1> USE DEF IInv
<1>1. ExitInv'
  BY DEF ExitInv, Quiet
<1>2. ClosedInv'
  BY DEF ClosedInv, Quiet
<1>3. CrashInv'
  BY DEF CrashInv, Quiet
<1> QED BY <1>1, <1>2, <1>3 DEF Quiet

LEMMA WorkerInv ==
  ASSUME IInv, Quiet,
         UNCHANGED <<req, cur>>,
         pc'[Main] = pc[Main] \/ pc'[Main] \notin Building \cup {"op", "limit"},
         pc'[Cleaner] = pc[Cleaner]
  PROVE  IInv'
<1>1. ImportInv'
  BY DEF IInv, ImportInv, Quiet, Building
<1>2. CleanInv'
  BY DEF IInv, CleanInv, Quiet, Teardown, Live, Stopped, Flags
<1> QED BY <1>1, <1>2, QuietInv DEF IInv

LEMMA FlagsSet ==
  ASSUME NEW r \in Flags
  PROVE  /\ [r EXCEPT !["rxStarted"] = FALSE] \in Flags
         /\ [r EXCEPT !["procStarted"] = FALSE] \in Flags
         /\ [r EXCEPT !["rxStarted"] = TRUE] \in Flags
         /\ [r EXCEPT !["procStarted"] = TRUE] \in Flags
         /\ [r EXCEPT !["running"] = FALSE] \in Flags
         /\ [r EXCEPT !["ptr"] = FALSE] \in Flags
         /\ [r EXCEPT !["ptr"] = TRUE] \in Flags
         /\ [r EXCEPT !["running"] = TRUE] \in Flags
         /\ \A q \in {"none", "open", "closed"} : [r EXCEPT !["queue"] = q] \in Flags
         /\ \A s \in {"CLOSING", "CLOSED", "ACTIVE"} : [r EXCEPT !["state"] = s] \in Flags
<1>1. [r EXCEPT !["rxStarted"] = FALSE] \in Flags
  BY DEF Flags
<1>2. [r EXCEPT !["procStarted"] = FALSE] \in Flags
  BY DEF Flags
<1>3. [r EXCEPT !["rxStarted"] = TRUE] \in Flags
  BY DEF Flags
<1>4. [r EXCEPT !["procStarted"] = TRUE] \in Flags
  BY DEF Flags
<1>5. [r EXCEPT !["running"] = FALSE] \in Flags
  BY DEF Flags
<1>6. [r EXCEPT !["ptr"] = FALSE] \in Flags
  BY DEF Flags
<1>7. \A q \in {"none", "open", "closed"} : [r EXCEPT !["queue"] = q] \in Flags
  BY DEF Flags
<1>8. \A s \in {"CLOSING", "CLOSED", "ACTIVE"} : [r EXCEPT !["state"] = s] \in Flags
  BY DEF Flags
<1>9. [r EXCEPT !["ptr"] = TRUE] \in Flags /\ [r EXCEPT !["running"] = TRUE] \in Flags
  BY DEF Flags
<1> QED BY <1>1, <1>2, <1>3, <1>4, <1>5, <1>6, <1>7, <1>8, <1>9

LEMMA BlankFacts ==
  /\ Blank \in Flags /\ Blank.state = "INIT" /\ Blank.mem = "none"
  /\ Freed \in Flags /\ Freed.state = "INIT" /\ Freed.mem = "freed"
  /\ LET new == [[Blank EXCEPT !["mem"] = "live"] EXCEPT !["ptr"] = TRUE]
     IN  new \in Flags /\ new.state = "INIT"
<1>1. Blank \in Flags /\ Blank.state = "INIT" /\ Blank.mem = "none"
  BY ConnAssumption DEF Blank, Flags
<1>2. Freed = [Blank EXCEPT !["mem"] = "freed"]
  BY DEF Freed
<1>3. /\ [Blank EXCEPT !["mem"] = "freed"] \in Flags
      /\ [Blank EXCEPT !["mem"] = "live"] \in Flags
  BY <1>1 DEF Flags
<1> DEFINE live == [Blank EXCEPT !["mem"] = "live"]
<1>4. [live EXCEPT !["ptr"] = TRUE] \in Flags
  BY <1>3, FlagsSet
<1>5. /\ [Blank EXCEPT !["mem"] = "freed"].state = "INIT"
      /\ [Blank EXCEPT !["mem"] = "freed"].mem = "freed"
      /\ live.state = "INIT"
  BY <1>1 DEF Flags
<1>6. [live EXCEPT !["ptr"] = TRUE].state = "INIT"
  BY <1>3, <1>5 DEF Flags
<1> QED BY <1>1, <1>2, <1>3, <1>4, <1>5, <1>6

(* A step of RX that leaves the connections as they are.                    *)
LEMMA RxMoves ==
  ASSUME IInv, NEW c \in Conns, NEW b \in Places, b # "crashed",
         pc' = [pc EXCEPT ![Rx(c)] = b],
         RxPast(c) => b \in {"exitPost", "done"},
         UNCHANGED <<conn, req, cur, fault>>
  PROVE  IInv'
<1>1. Quiet
  BY ThreadFacts DEF IInv, Quiet, RxPast, ProcPast
<1> QED BY <1>1, WorkerInv, ThreadFacts DEF IInv

LEMMA RxInv ==
  ASSUME IInv, NEW c \in Conns
  PROVE  RxThread(c) \/ RxHears(c) => IInv'
<1> USE DEF Step, locals, Post, Live, Places
<1>1. CASE RxLoop(c)
  BY <1>1, RxMoves DEF RxLoop, RxPast
<1>2. CASE RxRecv(c)
  BY <1>2, RxMoves DEF RxRecv, RxPast
<1>3. CASE RxPush(c)
  <2>1. CASE UNCHANGED conn
    BY <1>3, <2>1, RxMoves DEF RxPush, RxPast
  <2>2. CASE Set(c, "urbs", conn[c].urbs + 1) /\ conn[c].urbs < QueueCapacity
    <3>1. conn' \in [Conns -> Flags]
      BY <2>2, ConnAssumption DEF Set, IInv, Flags
    <3>2. Quiet
      BY <1>3, <2>2, <3>1, ThreadFacts DEF RxPush, IInv, Quiet, RxPast, ProcPast, Set, Flags
    <3> QED BY <1>3, <3>2, WorkerInv, ThreadFacts DEF RxPush, IInv
  <2> QED BY <1>3, <2>1, <2>2 DEF RxPush
<1>4. CASE RxExit(c)
  <2>1. conn' \in [Conns -> Flags]
    BY <1>4, FlagsSet DEF RxExit, Set, IInv
  <2>2. Quiet
    BY <1>4, <2>1, ThreadFacts DEF RxExit, IInv, Quiet, RxPast, ProcPast, Set, Flags
  <2> QED BY <1>4, <2>2, WorkerInv, ThreadFacts DEF RxExit, IInv
<1>5. CASE RxShut(c)
  BY <1>5, RxMoves DEF RxShut, RxPast
<1>6. CASE RxExitPost(c)
  BY <1>6, RxMoves DEF RxExitPost, RxPast
<1>7. CASE RxHears(c)
  BY <1>7, RxMoves DEF RxHears, RxPast
<1> QED BY <1>1, <1>2, <1>3, <1>4, <1>5, <1>6, <1>7 DEF RxThread

(* A step of the processor that leaves the connections as they are.         *)
LEMMA ProcMoves ==
  ASSUME IInv, NEW c \in Conns, NEW b \in Places, b # "crashed",
         pc' = [pc EXCEPT ![Proc(c)] = b],
         ProcPast(c) => b \in {"exitPost", "log", "done"},
         UNCHANGED <<conn, req, cur, fault>>
  PROVE  IInv'
<1>1. Quiet
  BY ThreadFacts DEF IInv, Quiet, RxPast, ProcPast
<1> QED BY <1>1, WorkerInv, ThreadFacts DEF IInv

LEMMA ProcInv ==
  ASSUME IInv, NEW c \in Conns
  PROVE  ProcThread(c) => IInv'
<1> USE DEF Step, locals, Post, Live, Places
<1>1. CASE ProcLoop(c)
  BY <1>1, ProcMoves DEF ProcLoop, ProcPast
<1>2. CASE ProcPop(c)
  <2>1. CASE UNCHANGED conn
    BY <1>2, <2>1, ProcMoves DEF ProcPop, ProcPast
  <2>2. CASE Set(c, "urbs", conn[c].urbs - 1) /\ conn[c].urbs > 0
    <3>1. conn' \in [Conns -> Flags]
      BY <2>2, ConnAssumption DEF Set, IInv, Flags
    <3>2. Quiet
      BY <1>2, <2>2, <3>1, ThreadFacts DEF ProcPop, IInv, Quiet, RxPast, ProcPast, Set, Flags
    <3> QED BY <1>2, <3>2, WorkerInv, ThreadFacts DEF ProcPop, IInv
  <2> QED BY <1>2, <2>1, <2>2 DEF ProcPop
<1>3. CASE ProcHandle(c)
  BY <1>3, ProcMoves DEF ProcHandle, ProcPast
<1>4. CASE ProcSend(c)
  BY <1>4, ProcMoves DEF ProcSend, ProcPast
<1>5. CASE ProcExit(c)
  <2>1. conn' \in [Conns -> Flags]
    BY <1>5, FlagsSet DEF ProcExit, Set, IInv
  <2>2. Quiet
    BY <1>5, <2>1, ThreadFacts DEF ProcExit, IInv, Quiet, RxPast, ProcPast, Set, Flags
  <2> QED BY <1>5, <2>2, WorkerInv, ThreadFacts DEF ProcExit, IInv
<1>6. CASE ProcClear(c)
  <2>1. conn' \in [Conns -> Flags]
    BY <1>6, FlagsSet DEF ProcClear, Set, IInv
  <2>2. Quiet
    BY <1>6, <2>1, ThreadFacts DEF ProcClear, IInv, Quiet, RxPast, ProcPast, Set, Flags
  <2> QED BY <1>6, <2>2, WorkerInv, ThreadFacts DEF ProcClear, IInv
<1>7. CASE ProcExitPost(c)
  BY <1>7, ProcMoves DEF ProcExitPost, ProcPast
<1>8. CASE ProcLog(c)
  BY <1>8, ProcMoves DEF ProcLog, ProcPast
<1> QED BY <1>1, <1>2, <1>3, <1>4, <1>5, <1>6, <1>7, <1>8 DEF ProcThread

-----------------------------------------------------------------------------
(* request_stop.                                                            *)

StopPlaces == {"mark", "closeQueue", "lockQueue", "closeCtx", "clearCtx"}

(* What a step of request_stop changes.                                     *)
LEMMA StopEffect ==
  ASSUME IInv, NEW t \in Callers, Stop(t)
  PROVE  /\ pc[t] \in StopPlaces /\ UNCHANGED <<req, cur, fault>>
         /\ \E b \in StopPlaces \cup {"exit", "halt"} : pc' = [pc EXCEPT ![t] = b]
         /\ \/ conn' = conn
            \/ conn[Subject(t)].state = "ACTIVE"
               /\ conn' = [conn EXCEPT ![Subject(t)].state = "CLOSING",
                                       ![Subject(t)].running = FALSE]
            \/ Set(Subject(t), "queue", "closed")
            \/ Set(Subject(t), "ptr", FALSE)
<1> USE DEF Step, StopPlaces, StopReturns, locals
<1>1. CASE StopMark(t)
  BY <1>1 DEF StopMark
<1>2. CASE StopCloseQueue(t)
  BY <1>2 DEF StopCloseQueue
<1>3. CASE StopCloseCtx(t)
  BY <1>3 DEF StopCloseCtx
<1>4. CASE StopClearCtx(t)
  BY <1>4 DEF StopClearCtx
<1>5. CASE StopSignalQueue(t)
  BY <1>5 DEF StopSignalQueue
<1> QED BY <1>1, <1>2, <1>3, <1>4, <1>5 DEF Stop

LEMMA StopInv ==
  ASSUME IInv, NEW t \in Callers, Stop(t)
  PROVE  IInv'
<1>1. t \in Threads /\ t # Cleaner
  BY DEF Callers, Threads, Workers, Cleaner, Main
<1>2. PICK b \in StopPlaces \cup {"exit", "halt"} : pc' = [pc EXCEPT ![t] = b]
  BY StopEffect
<1>3. pc' \in [Threads -> Places]
  BY <1>2 DEF IInv, StopPlaces, Places
<1> DEFINE u == Subject(t)
<1> DEFINE Fine ==
      /\ conn' \in [Conns -> Flags]
      /\ \A c \in Conns :
           /\ conn'[c].mem = conn[c].mem
           /\ \/ conn'[c].state = conn[c].state
              \/ conn[c].state = "ACTIVE" /\ conn'[c].state = "CLOSING"
           /\ conn'[c].rxStarted = conn[c].rxStarted
           /\ conn'[c].procStarted = conn[c].procStarted
<1>4. Fine
  <2> USE DEF IInv
  <2>1. CASE conn' = conn
    BY <2>1
  <2>2. CASE u \notin Conns
    <3>1. /\ [conn EXCEPT ![u].state = "CLOSING", ![u].running = FALSE] = conn
          /\ \A v : [conn EXCEPT ![u].queue = v] = conn
          /\ [conn EXCEPT ![u].ptr = FALSE] = conn
      BY <2>2
    <3>2. conn' = conn
      BY <3>1, StopEffect, Zenon DEF Set
    <3> QED BY <3>2
  <2>3. CASE u \in Conns /\ conn[u].state = "ACTIVE"
             /\ conn' = [conn EXCEPT ![u].state = "CLOSING", ![u].running = FALSE]
    <3> DEFINE r == [conn[u] EXCEPT !["state"] = "CLOSING"]
    <3>1. r \in Flags
      BY <2>3, FlagsSet
    <3>2. [r EXCEPT !["running"] = FALSE] \in Flags
      BY <3>1, FlagsSet
    <3>3. conn' = [conn EXCEPT ![u] = [r EXCEPT !["running"] = FALSE]]
      BY <2>3 DEF Flags
    <3> HIDE DEF r
    <3>4. /\ conn' \in [Conns -> Flags] /\ conn'[u] = [r EXCEPT !["running"] = FALSE]
          /\ \A c \in Conns : c # u => conn'[c] = conn[c]
      BY <2>3, <3>2, <3>3
    <3>5. LET q == conn'[u]
          IN  /\ q.mem = conn[u].mem /\ q.state = "CLOSING"
              /\ q.rxStarted = conn[u].rxStarted /\ q.procStarted = conn[u].procStarted
      BY <2>3, <3>1, <3>4 DEF r, Flags
    <3> QED BY <2>3, <3>4, <3>5
  <2>4. CASE u \in Conns /\ \E q \in {"none", "open", "closed"} : Set(u, "queue", q)
    <3>1. PICK q \in {"none", "open", "closed"} : Set(u, "queue", q)
      BY <2>4
    <3>2. [conn[u] EXCEPT !["queue"] = q] \in Flags
      BY <2>4, FlagsSet
    <3>3. conn' \in [Conns -> Flags]
      BY <2>4, <3>1, <3>2 DEF Set
    <3> QED BY <2>4, <3>1, <3>3 DEF Set, Flags
  <2>5. CASE u \in Conns /\ Set(u, "ptr", FALSE)
    <3>1. conn' \in [Conns -> Flags]
      BY <2>5, FlagsSet DEF Set
    <3> QED BY <2>5, <3>1 DEF Set, Flags
  <2> QED BY <2>1, <2>2, <2>3, <2>4, <2>5, StopEffect
<1> HIDE DEF u
<1>5. Quiet
  BY <1>1, <1>2, <1>3, <1>4, ThreadFacts, StopEffect
     DEF Quiet, RxPast, ProcPast, StopPlaces, IInv
<1> QED BY <1>1, <1>2, <1>5, WorkerInv, StopEffect, ThreadFacts DEF StopPlaces, Building, IInv

-----------------------------------------------------------------------------
(* ConnCleanup.                                                             *)

(* ConnCleanup moves and the connections stay as they are.                  *)
LEMMA CleanMoves ==
  ASSUME IInv, NEW b \in Places, b # "crashed",
         pc' = [pc EXCEPT ![Cleaner] = b],
         UNCHANGED <<conn, req, fault>>,
         CleanInv'
  PROVE  IInv'
<1>1. pc' \in [Threads -> Places] /\ \A s \in Threads : s # Cleaner => pc'[s] = pc[s]
  BY ThreadFacts DEF IInv
<1>2. Quiet
  BY <1>1, ThreadFacts DEF IInv, Quiet, RxPast, ProcPast
<1>3. \A c \in Conns : (RxPast(c)' <=> RxPast(c)) /\ (ProcPast(c)' <=> ProcPast(c))
  BY <1>1, ThreadFacts DEF RxPast, ProcPast
<1>4. ImportInv'
  BY <1>1, <1>3, ThreadFacts DEF IInv, ImportInv, Building
<1> QED BY <1>2, <1>4, QuietInv DEF IInv

(* A step along the list leaves nothing half taken apart.                   *)
LEMMA WalkMoves ==
  ASSUME IInv, NEW p \in {"scan", "reap"}, NEW c, Walk(p, c), UNCHANGED conn
  PROVE  IInv'
<1>1. PICK b \in {"scan", "reap", "lockReap", "done", "check"} :
        pc' = [pc EXCEPT ![Cleaner] = b]
  BY DEF Walk
<1>2. CleanInv'
  BY <1>1, ThreadFacts DEF CleanInv, Teardown, IInv
<1> QED BY <1>1, <1>2, CleanMoves DEF Walk, Places

LEMMA CleanerInv == IInv /\ CleanerThread => IInv'
<1> SUFFICES ASSUME IInv, CleanerThread PROVE IInv'
  OBVIOUS
<1> USE DEF Step, locals, Places
<1>1. CASE CleanCheck
  <2>1. CleanInv'
    BY <1>1, ThreadFacts DEF CleanCheck, CleanInv, Teardown, IInv
  <2> QED BY <1>1, <2>1, CleanMoves DEF CleanCheck
<1>2. CASE CleanWait
  <2>1. CleanInv'
    BY <1>2, ThreadFacts DEF CleanWait, CleanInv, Teardown, IInv
  <2> QED BY <1>2, <2>1, CleanMoves DEF CleanWait
<1>3. CASE CleanLock
  BY <1>3, WalkMoves DEF CleanLock
<1>4. CASE CleanScan
  <2>1. CASE Walk("scan", NextOf(cur))
    BY <1>4, <2>1, WalkMoves DEF CleanScan
  <2>2. CASE Stopped(cur) /\ Step(Cleaner, "scan", "destroyQueue") /\ UNCHANGED locals
    <3>1. CleanInv'
      BY <1>4, <2>2, ThreadFacts DEF CleanScan, CleanInv, Teardown, IInv, Live, Stopped
    <3> QED BY <1>4, <2>2, <3>1, CleanMoves DEF CleanScan
  <2> QED BY <1>4, <2>1, <2>2 DEF CleanScan
<1>5. CASE CleanDestroyQueue
  <2>1. \A c \in Conns : /\ conn'[c] \in Flags
                         /\ conn'[c].mem = conn[c].mem /\ conn'[c].state = conn[c].state
                         /\ conn'[c].rxStarted = conn[c].rxStarted
                         /\ conn'[c].procStarted = conn[c].procStarted
    BY <1>5, ConnAssumption DEF CleanDestroyQueue, IInv, Flags
  <2>2. conn' \in [Conns -> Flags]
    BY <1>5, <2>1 DEF CleanDestroyQueue, IInv
  <2>3. Quiet
    BY <1>5, <2>1, <2>2, ThreadFacts DEF CleanDestroyQueue, Quiet, IInv, RxPast, ProcPast
  <2>4. ImportInv'
    <3>1. \A c \in Conns : (RxPast(c)' <=> RxPast(c)) /\ (ProcPast(c)' <=> ProcPast(c))
      BY <1>5, ThreadFacts DEF CleanDestroyQueue, IInv, RxPast, ProcPast
    <3> QED BY <1>5, <2>1, <3>1, ThreadFacts DEF CleanDestroyQueue, ImportInv, IInv, Building
  <2>5. CleanInv'
    BY <1>5, <2>1, ThreadFacts
       DEF CleanDestroyQueue, CleanInv, IInv, Teardown, Live, Stopped
  <2> QED BY <1>5, <2>3, <2>4, <2>5, QuietInv DEF CleanDestroyQueue, IInv
<1>6. CASE CleanUnexport
  <2>1. CleanInv'
    BY <1>6, ThreadFacts DEF CleanUnexport, CleanInv, Teardown, IInv, Live, Stopped
  <2> QED BY <1>6, <2>1, CleanMoves DEF CleanUnexport
<1>7. CASE CleanRelease
  <2>1. CleanInv'
    BY <1>7, ThreadFacts DEF CleanRelease, CleanInv, Teardown, IInv, Live, Stopped
  <2> QED BY <1>7, <2>1, CleanMoves DEF CleanRelease
<1>8. CASE CleanClosed
  <2>1. PICK b \in {"scan", "lockReap"} : pc' = [pc EXCEPT ![Cleaner] = b]
    BY <1>8 DEF CleanClosed, Walk
  <2>2. cur \in Conns => conn[cur].mem = "live" /\ Stopped(cur)
    BY <1>8 DEF CleanClosed, IInv, CleanInv, Teardown, Live
  <2>3. \A c \in Conns :
          /\ conn'[c] \in Flags
          /\ conn'[c].mem = conn[c].mem
          /\ conn'[c].rxStarted = conn[c].rxStarted
          /\ conn'[c].procStarted = conn[c].procStarted
          /\ conn'[c].state = IF c = cur THEN "CLOSED" ELSE conn[c].state
    BY <1>8 DEF CleanClosed, Set, IInv, Flags
  <2>4. conn' \in [Conns -> Flags]
    BY <1>8, <2>3 DEF CleanClosed, Set, IInv
  <2>5. /\ pc' \in [Threads -> Places] /\ UNCHANGED <<req, fault>>
        /\ \A s \in Threads : s # Cleaner => pc'[s] = pc[s]
    BY <1>8, <2>1, ThreadFacts DEF CleanClosed, Walk, IInv
  <2>6. \A c \in Conns : (RxPast(c)' <=> RxPast(c)) /\ (ProcPast(c)' <=> ProcPast(c))
    BY <2>5, ThreadFacts DEF RxPast, ProcPast
  <2>7. ImportInv'
    BY <2>2, <2>3, <2>5, <2>6, ThreadFacts DEF ImportInv, IInv, Stopped, Building
  <2>8. CleanInv'
    BY <2>1, ThreadFacts DEF CleanInv, Teardown, IInv
  <2>9. ExitInv'
    BY <2>2, <2>3, <2>6 DEF ExitInv, IInv, Stopped
  <2>10. ClosedInv'
    BY <2>2, <2>3, <2>6 DEF ClosedInv, ExitInv, IInv, Stopped
  <2>11. CrashInv'
    BY <2>1, <2>5, ThreadFacts DEF CrashInv, IInv
  <2> QED BY <2>4, <2>5, <2>7, <2>8, <2>9, <2>10, <2>11 DEF IInv
<1>9. CASE CleanReap
  <2>1. CASE Walk("reap", NextOf(cur))
    BY <1>9, <2>1, WalkMoves DEF CleanReap
  <2>2. CASE conn[cur].state = "CLOSED" /\ Step(Cleaner, "reap", "remove")
             /\ UNCHANGED <<req, cur, fault>>
    <3>1. CleanInv'
      BY <1>9, <2>2, ThreadFacts DEF CleanReap, CleanInv, Teardown, IInv, Live, Stopped
    <3> QED BY <1>9, <2>2, <3>1, CleanMoves DEF CleanReap
  <2> QED BY <1>9, <2>1, <2>2 DEF CleanReap
<1>10. CASE CleanRemove
  <2>1. CleanInv'
    BY <1>10, ThreadFacts DEF CleanRemove, CleanInv, Teardown, IInv, Live, Stopped
  <2> QED BY <1>10, <2>1, CleanMoves DEF CleanRemove
<1>11. CASE CleanFree
  <2>1. \A c \in Conns : conn'[c] = IF c = cur THEN Freed ELSE conn[c]
    BY <1>11 DEF CleanFree, IInv
  <2>2. Freed \in Flags /\ Freed.state = "INIT" /\ Freed.mem = "freed"
    BY BlankFacts
  <2>3. conn' \in [Conns -> Flags]
    BY <1>11, <2>2 DEF CleanFree, IInv
  <2>4. cur \in Conns => conn[cur].mem = "live" /\ conn[cur].state = "CLOSED"
    BY <1>11 DEF CleanFree, IInv, CleanInv, Live
  <2>5. /\ pc' \in [Threads -> Places] /\ pc'[Cleaner] = "relock"
        /\ UNCHANGED <<req, fault>>
        /\ \A s \in Threads : s # Cleaner => pc'[s] = pc[s]
    BY <1>11, ThreadFacts DEF CleanFree, IInv
  <2>6. \A c \in Conns : (RxPast(c)' <=> RxPast(c)) /\ (ProcPast(c)' <=> ProcPast(c))
    BY <2>5, ThreadFacts DEF RxPast, ProcPast
  <2>7. ImportInv'
    <3>1. pc[Main] \in Building \cup {"op", "limit"} =>
            req.conn \in Conns /\ conn'[req.conn] = conn[req.conn]
      BY <2>1, <2>4 DEF ImportInv, IInv, Building
    <3> QED BY <2>5, <2>6, <3>1, ThreadFacts DEF ImportInv, IInv, Building
  <2>8. CleanInv'
    BY <2>5 DEF CleanInv, Teardown
  <2>9. ExitInv'
    BY <2>1, <2>2, <2>6 DEF ExitInv, IInv
  <2>10. ClosedInv'
    BY <2>1, <2>2, <2>6 DEF ClosedInv, IInv
  <2>11. CrashInv'
    BY <2>5, ThreadFacts DEF CrashInv, IInv
  <2> QED BY <2>3, <2>5, <2>7, <2>8, <2>9, <2>10, <2>11 DEF IInv
<1>12. CASE CleanRelock
  BY <1>12, WalkMoves DEF CleanRelock
<1> QED BY <1>1, <1>2, <1>3, <1>4, <1>5, <1>6, <1>7, <1>8, <1>9, <1>10, <1>11, <1>12
        DEF CleanerThread

-----------------------------------------------------------------------------
(* The server's main thread.                                                *)

(* Main moves and the connections stay as they are.                         *)
LEMMA MainMoves ==
  ASSUME IInv, NEW b \in Places, b # "crashed",
         pc' = [pc EXCEPT ![Main] = b],
         UNCHANGED <<conn, cur, fault>>,
         req' \in [conn : Conns \cup {None}, dev : Devices \cup {None}],
         ImportInv'
  PROVE  IInv'
<1>1. pc' \in [Threads -> Places] /\ \A s \in Threads : s # Main => pc'[s] = pc[s]
  BY ThreadFacts DEF IInv
<1>2. Quiet
  BY <1>1, ThreadFacts DEF IInv, Quiet, RxPast, ProcPast
<1>3. CleanInv'
  BY <1>1, ThreadFacts DEF IInv, CleanInv, Live, Stopped
<1> QED BY <1>2, <1>3, QuietInv DEF IInv

(* Main goes somewhere that is not part of an import.                       *)
LEMMA MainLeaves ==
  ASSUME IInv, NEW b \in Places \ (Building \cup {"op", "limit", "crashed"}),
         pc' = [pc EXCEPT ![Main] = b],
         UNCHANGED <<conn, cur, fault>>,
         req' \in [conn : Conns \cup {None}, dev : Devices \cup {None}]
  PROVE  IInv'
<1>1. pc'[Main] = b
  BY ThreadFacts DEF IInv
<1>2. ImportInv'
  BY <1>1 DEF ImportInv, Building
<1> QED BY <1>2, MainMoves

(* Main moves from one step of an import to the next.                       *)
LEMMA MainBuilds ==
  ASSUME IInv, pc[Main] \in Building,
         NEW b \in {"bind", "export", "busy", "init"},
         pc' = [pc EXCEPT ![Main] = b],
         UNCHANGED <<conn, cur, fault, req>>
  PROVE  IInv'
<1>1. pc'[Main] = b
  BY ThreadFacts DEF IInv
<1>2. ImportInv'
  BY <1>1 DEF ImportInv, Building, IInv
<1> QED BY <1>2, MainMoves DEF Places, IInv

(* Main changes the connection it is building, or frees it; a thread it     *)
(* creates is the connection's.                                             *)
LEMMA MainChanges ==
  ASSUME IInv, NEW c \in Conns, NEW r \in Flags,
         conn' = [conn EXCEPT ![c] = r], r.state = "INIT",
         \/ r.mem = "freed"
         \/ conn[c].mem = "none"
         \/ conn[c].state = "INIT" /\ r.mem = conn[c].mem,
         pc' \in [Threads -> Places], pc'[Main] # "crashed",
         \A s \in Threads : s # Main =>
           pc'[s] = pc[s] \/ (s \in {Rx(c), Proc(c)} /\ pc'[s] = "loop"),
         UNCHANGED <<cur, fault, req>>,
         ImportInv'
  PROVE  IInv'
<1>1. conn' \in [Conns -> Flags] /\ conn'[c] = r
      /\ \A d \in Conns : d # c => conn'[d] = conn[d]
  BY DEF IInv
<1>2. pc'[Cleaner] = pc[Cleaner]
      /\ \A d \in Conns : d # c => pc'[Rx(d)] = pc[Rx(d)] /\ pc'[Proc(d)] = pc[Proc(d)]
  BY ThreadFacts
<1>3. \A d \in Conns : d # c => (RxPast(d)' <=> RxPast(d)) /\ (ProcPast(d)' <=> ProcPast(d))
  BY <1>2 DEF RxPast, ProcPast
<1>4. CleanInv'
  BY <1>1, <1>2 DEF CleanInv, IInv, Live, Stopped, Teardown
<1>5. ExitInv'
  BY <1>1, <1>3 DEF ExitInv, IInv
<1>6. ClosedInv'
  BY <1>1, <1>3 DEF ClosedInv, IInv
<1>7. CrashInv'
  BY ThreadFacts DEF CrashInv, IInv
<1> QED BY <1>1, <1>4, <1>5, <1>6, <1>7 DEF IInv

LEMMA ServeInv == IInv /\ (MainAccept \/ ClientAsks \/ MainLimit \/ MainAdd
                           \/ MainBind \/ MainExport \/ MainBusy) => IInv'
<1> SUFFICES ASSUME IInv, MainAccept \/ ClientAsks \/ MainLimit \/ MainAdd
                          \/ MainBind \/ MainExport \/ MainBusy
             PROVE  IInv'
  OBVIOUS
<1> USE DEF Step, locals, Refuse
<1>1. CASE MainAccept
  <2>1. CASE Step(Main, "accept", "collect") /\ UNCHANGED <<conn, locals>>
    BY <2>1, MainLeaves DEF Building, Places, IInv
  <2>2. ASSUME Step(Main, "accept", "op"), UNCHANGED <<conn, cur, fault>>,
               NEW c \in Conns, Unused(c), req' = [conn |-> c, dev |-> None]
        PROVE  IInv'
    <3>1. ImportInv'
      BY <2>2, ThreadFacts DEF ImportInv, Building, Unused, IInv
    <3> QED BY <2>2, <3>1, MainMoves DEF Places
  <2> QED BY <1>1, <2>1, <2>2 DEF MainAccept
<1>2. ASSUME Step(Main, pc[Main], "accept"), Refuse PROVE IInv'
  BY <1>2, MainLeaves DEF Building, Places
<1>3. ASSUME NEW d \in Devices, MainImport(d) PROVE IInv'
  <2>1. CASE Step(Main, "op", "limit") /\ req' = [req EXCEPT !.dev = d]
             /\ UNCHANGED <<conn, cur, fault>>
    <3>1. req' \in [conn : Conns \cup {None}, dev : Devices \cup {None}]
          /\ req'.conn = req.conn
      BY <2>1 DEF IInv
    <3>2. ImportInv'
      BY <2>1, <3>1, ThreadFacts DEF ImportInv, Building, IInv
    <3> QED BY <2>1, <3>1, <3>2, MainMoves DEF Places
  <2> QED BY <1>2, <1>3, <2>1 DEF MainImport
<1>4. CASE ClientAsks
  BY <1>2, <1>3, <1>4 DEF ClientAsks, MainOther
<1>5. CASE MainLimit
  <2>1. CASE Step(Main, "limit", "add") /\ UNCHANGED locals
             /\ conn' = [conn EXCEPT ![req.conn] =
                           [Blank EXCEPT !.mem = "live", !.ptr = TRUE]]
    <3> DEFINE new == [[Blank EXCEPT !["mem"] = "live"] EXCEPT !["ptr"] = TRUE]
    <3>1. new \in Flags /\ new.state = "INIT"
          /\ conn' = [conn EXCEPT ![req.conn] = new]
      BY <2>1, BlankFacts
    <3> HIDE DEF new
    <3>2. req.conn \in Conns /\ conn[req.conn].mem = "none"
      BY <2>1 DEF ImportInv, IInv
    <3>3. pc' \in [Threads -> Places] /\ pc'[Main] = "add"
          /\ \A s \in Threads : s # Main => pc'[s] = pc[s]
      BY <2>1, ThreadFacts DEF IInv, Places
    <3>4. ImportInv'
      BY <2>1, <3>1, <3>2, <3>3 DEF ImportInv, IInv, Building
    <3> QED BY <2>1, <3>1, <3>2, <3>3, <3>4, MainChanges
  <2> QED BY <1>2, <1>5, <2>1 DEF MainLimit
<1>6. CASE MainAdd
  BY <1>6, MainLeaves, MainBuilds DEF MainAdd, Building, Places, IInv
<1>7. CASE MainBind
  BY <1>7, MainLeaves, MainBuilds DEF MainBind, Building, Places, IInv
<1>8. CASE MainExport
  BY <1>8, MainLeaves, MainBuilds DEF MainExport, Building, Places, IInv
<1>9. CASE MainBusy
  BY <1>9, MainBuilds DEF MainBusy, Building
<1> QED BY <1>1, <1>4, <1>5, <1>6, <1>7, <1>8, <1>9

LEMMA StartInv == IInv /\ StartConn => IInv'
<1> SUFFICES ASSUME IInv, StartConn PROVE IInv'
  OBVIOUS
<1> USE DEF Step, locals
<1> DEFINE c == req.conn
<1>1. pc[Main] \in Building => c \in Conns /\ conn[c].state = "INIT" /\ conn[c] \in Flags
  BY DEF IInv, ImportInv
<1>2. CASE StartInit
  <2> DEFINE r == [[[conn[c] EXCEPT !["dev"] = req.dev] EXCEPT !["queue"] = "open"]
                     EXCEPT !["running"] = TRUE]
  <2>1. c \in Conns /\ conn[c].state = "INIT" /\ conn[c] \in Flags
        /\ req.dev \in Devices \cup {None}
    BY <1>1, <1>2 DEF StartInit, Building, IInv
  <2>2. [conn[c] EXCEPT !["dev"] = req.dev] \in Flags
    BY <2>1 DEF Flags
  <2>3. [[conn[c] EXCEPT !["dev"] = req.dev] EXCEPT !["queue"] = "open"] \in Flags
    BY <2>2, FlagsSet
  <2>4. r \in Flags
    BY <2>3, FlagsSet
  <2>5. r.state = "INIT" /\ r.mem = conn[c].mem
    BY <2>1 DEF Flags
  <2>6. conn' = [conn EXCEPT ![c] = r]
    BY <1>2, <2>1 DEF StartInit, IInv
  <2> HIDE DEF r
  <2>7. pc' \in [Threads -> Places] /\ pc'[Main] = "procCreate"
        /\ \A s \in Threads : s # Main => pc'[s] = pc[s]
    BY <1>2, ThreadFacts DEF StartInit, IInv, Places
  <2>8. ImportInv'
    BY <1>2, <2>1, <2>4, <2>5, <2>6, <2>7 DEF StartInit, ImportInv, IInv, Building
  <2> QED BY <1>2, <2>1, <2>4, <2>5, <2>6, <2>7, <2>8, MainChanges DEF StartInit
<1>3. CASE StartProc
  <2>1. CASE pc' = [pc EXCEPT ![Main] = "failDestroy"]
    BY <1>3, <2>1, MainLeaves DEF StartProc, Create, Building, Places, IInv
  <2>2. CASE pc' = [pc EXCEPT ![Main] = "procStarted", ![Proc(c)] = "loop"]
    <3>1. c \in Conns /\ conn[c].state = "INIT" /\ conn[c] \in Flags
      BY <1>1, <1>3 DEF StartProc, Create, Building
    <3>2. pc' \in [Threads -> Places] /\ pc'[Main] = "procStarted"
          /\ \A s \in Threads : s # Main => pc'[s] = pc[s] \/ (s = Proc(c) /\ pc'[s] = "loop")
      BY <2>2, <3>1, ThreadFacts DEF IInv, Places
    <3>3. conn' = [conn EXCEPT ![c] = conn[c]]
      BY <1>3, <3>1 DEF StartProc, Create, IInv
    <3>4. ImportInv'
      BY <1>3, <3>1, <3>2 DEF StartProc, Create, ImportInv, IInv, Building
    <3> QED BY <1>3, <3>1, <3>2, <3>3, <3>4, MainChanges DEF StartProc, Create
  <2> QED BY <1>3, <2>1, <2>2 DEF StartProc, Create
<1>4. CASE StartProcStarted
  <2>1. c \in Conns /\ conn[c].state = "INIT" /\ conn[c] \in Flags
    BY <1>1, <1>4 DEF StartProcStarted, StartSet, Building
  <2> DEFINE r == [conn[c] EXCEPT !["procStarted"] = TRUE]
  <2>2. r \in Flags /\ r.state = "INIT" /\ r.mem = conn[c].mem /\ r.procStarted
    <3>1. r \in Flags
      BY <2>1, FlagsSet
    <3>2. r.procStarted
      BY <2>1 DEF Flags
    <3> QED BY <2>1, <3>1, <3>2 DEF Flags
  <2>3. conn' = [conn EXCEPT ![c] = r]
    BY <1>4 DEF StartProcStarted, StartSet, Set
  <2> HIDE DEF r
  <2>4. pc' \in [Threads -> Places] /\ pc'[Main] = "rxCreate"
        /\ \A s \in Threads : s # Main => pc'[s] = pc[s]
    BY <1>4, ThreadFacts DEF StartProcStarted, StartSet, IInv, Places
  <2>5. ImportInv'
    BY <1>4, <2>1, <2>2, <2>3, <2>4 DEF StartProcStarted, StartSet, ImportInv, IInv, Building
  <2> QED BY <1>4, <2>1, <2>2, <2>3, <2>4, <2>5, MainChanges DEF StartProcStarted, StartSet
<1>5. CASE StartRx
  <2>1. CASE pc' = [pc EXCEPT ![Main] = "failQueue"]
    BY <1>5, <2>1, MainLeaves DEF StartRx, Create, Building, Places, IInv
  <2>2. CASE pc' = [pc EXCEPT ![Main] = "rxStarted", ![Rx(c)] = "loop"]
    <3>1. c \in Conns /\ conn[c].state = "INIT" /\ conn[c] \in Flags
      BY <1>1, <1>5 DEF StartRx, Create, Building
    <3>2. pc' \in [Threads -> Places] /\ pc'[Main] = "rxStarted"
          /\ \A s \in Threads : s # Main => pc'[s] = pc[s] \/ (s = Rx(c) /\ pc'[s] = "loop")
      BY <2>2, <3>1, ThreadFacts DEF IInv, Places
    <3>3. conn' = [conn EXCEPT ![c] = conn[c]]
      BY <1>5, <3>1 DEF StartRx, Create, IInv
    <3>4. ProcPast(c)' <=> ProcPast(c)
      BY <1>5, <3>1, <3>2, ThreadFacts DEF ProcPast, StartRx, Create
    <3>5. ImportInv'
      BY <1>5, <3>1, <3>2, <3>4 DEF StartRx, Create, ImportInv, IInv, Building
    <3> QED BY <1>5, <3>1, <3>2, <3>3, <3>5, MainChanges DEF StartRx, Create
  <2> QED BY <1>5, <2>1, <2>2 DEF StartRx, Create
<1>6. CASE StartRxStarted
  <2>1. c \in Conns /\ conn[c].state = "INIT" /\ conn[c] \in Flags
    BY <1>1, <1>6 DEF StartRxStarted, StartSet, Building
  <2> DEFINE r == [conn[c] EXCEPT !["rxStarted"] = TRUE]
  <2>2. r \in Flags /\ r.rxStarted
    <3>1. r \in Flags
      BY <2>1, FlagsSet
    <3>2. r.rxStarted
      BY <2>1 DEF Flags
    <3> QED BY <3>1, <3>2
  <2>3. r.state = "INIT" /\ r.mem = conn[c].mem /\ r.procStarted = conn[c].procStarted
    BY <2>1 DEF Flags
  <2>4. conn' = [conn EXCEPT ![c] = r]
    BY <1>6 DEF StartRxStarted, StartSet, Set
  <2> HIDE DEF r
  <2>5. pc' \in [Threads -> Places] /\ pc'[Main] = "active"
        /\ \A s \in Threads : s # Main => pc'[s] = pc[s]
    BY <1>6, ThreadFacts DEF StartRxStarted, StartSet, IInv, Places
  <2>6. ProcPast(c)' <=> ProcPast(c)
    BY <1>6, <2>1, <2>5, ThreadFacts DEF ProcPast, StartRxStarted, StartSet
  <2>7. ImportInv'
    BY <1>6, <2>1, <2>2, <2>3, <2>4, <2>5, <2>6
       DEF StartRxStarted, StartSet, ImportInv, IInv, Building
  <2> QED BY <1>6, <2>1, <2>2, <2>3, <2>4, <2>5, <2>7, MainChanges DEF StartRxStarted, StartSet
<1>7. CASE StartActive
  <2>1. c \in Conns /\ conn[c].state = "INIT" /\ conn[c] \in Flags
        /\ (conn[c].rxStarted \/ RxPast(c)) /\ (conn[c].procStarted \/ ProcPast(c))
    BY <1>1, <1>7 DEF StartActive, StartSet, Building, ImportInv, IInv
  <2> DEFINE r == [conn[c] EXCEPT !["state"] = "ACTIVE"]
  <2>2. r \in Flags /\ r.state = "ACTIVE" /\ r.mem = conn[c].mem
        /\ r.rxStarted = conn[c].rxStarted /\ r.procStarted = conn[c].procStarted
    <3>1. r \in Flags
      BY <2>1, FlagsSet
    <3>2. r.state = "ACTIVE" /\ r.mem = conn[c].mem
          /\ r.rxStarted = conn[c].rxStarted /\ r.procStarted = conn[c].procStarted
      BY <2>1 DEF Flags
    <3> QED BY <3>1, <3>2
  <2>3. conn' = [conn EXCEPT ![c] = r]
    BY <1>7 DEF StartActive, StartSet, Set
  <2> HIDE DEF r
  <2>4. conn' \in [Conns -> Flags] /\ conn'[c] = r
        /\ \A d \in Conns : d # c => conn'[d] = conn[d]
    BY <2>1, <2>2, <2>3 DEF IInv
  <2>5. pc' \in [Threads -> Places] /\ pc'[Main] = "replyOk"
        /\ UNCHANGED <<cur, fault, req>>
        /\ \A s \in Threads : s # Main => pc'[s] = pc[s]
    BY <1>7, ThreadFacts DEF StartActive, StartSet, IInv, Places
  <2>6. \A d \in Conns : (RxPast(d)' <=> RxPast(d)) /\ (ProcPast(d)' <=> ProcPast(d))
    BY <2>5, ThreadFacts DEF RxPast, ProcPast
  <2>7. ImportInv'
    BY <2>5 DEF ImportInv, Building
  <2>8. CleanInv'
    BY <2>1, <2>2, <2>4, <2>5, ThreadFacts DEF CleanInv, IInv, Live, Stopped, Teardown
  <2>9. ExitInv'
    BY <2>1, <2>2, <2>4, <2>6 DEF ExitInv, IInv
  <2>10. ClosedInv'
    BY <2>2, <2>4, <2>6 DEF ClosedInv, IInv
  <2>11. CrashInv'
    BY <2>5, ThreadFacts DEF CrashInv, IInv
  <2> QED BY <2>4, <2>5, <2>7, <2>8, <2>9, <2>10, <2>11 DEF IInv
<1>8. ASSUME conn' \in [Conns -> Flags], UNCHANGED locals,
             NEW b \in {"failJoin", "failDestroy", "unexport"},
             pc' = [pc EXCEPT ![Main] = b],
             \A d \in Conns :
               /\ conn'[d].mem = conn[d].mem /\ conn'[d].state = conn[d].state
               /\ conn'[d].rxStarted = conn[d].rxStarted
               /\ \/ conn'[d].procStarted = conn[d].procStarted
                  \/ ~conn'[d].procStarted /\ pc[Proc(d)] = "done"
      PROVE  IInv'
  <2>1. pc' \in [Threads -> Places] /\ pc'[Main] = b
        /\ \A s \in Threads : s # Main => pc'[s] = pc[s]
    BY <1>8, ThreadFacts DEF IInv, Places
  <2>2. Quiet
    BY <1>8, <2>1, ThreadFacts DEF Quiet, IInv, RxPast, ProcPast
  <2> QED BY <1>8, <2>1, <2>2, WorkerInv, ThreadFacts DEF Building
<1>9. \A r \in Flags : [[r EXCEPT !["running"] = FALSE] EXCEPT !["queue"] = "closed"] \in Flags
  BY FlagsSet
<1>10. CASE StartFailQueue
  <2>1. conn' = [conn EXCEPT ![c] = [[conn[c] EXCEPT !["running"] = FALSE]
                                       EXCEPT !["queue"] = "closed"]]
    BY <1>10 DEF StartFailQueue
  <2>2. conn' \in [Conns -> Flags]
    BY <1>9, <2>1 DEF IInv
  <2>3. \A d \in Conns :
          /\ conn'[d].mem = conn[d].mem /\ conn'[d].state = conn[d].state
          /\ conn'[d].rxStarted = conn[d].rxStarted
          /\ conn'[d].procStarted = conn[d].procStarted
    BY <2>1 DEF IInv, Flags
  <2> QED BY <1>8, <1>10, <2>2, <2>3 DEF StartFailQueue
<1>11. CASE StartFailJoin
  <2>1. conn' \in [Conns -> Flags]
    BY <1>11, FlagsSet DEF StartFailJoin, Set, IInv
  <2>2. \A d \in Conns :
          /\ conn'[d].mem = conn[d].mem /\ conn'[d].state = conn[d].state
          /\ conn'[d].rxStarted = conn[d].rxStarted
          /\ \/ conn'[d].procStarted = conn[d].procStarted
             \/ ~conn'[d].procStarted /\ pc[Proc(d)] = "done"
    <3> TAKE d \in Conns
    <3>1. CASE d = c
      <4>1. conn[d] \in Flags /\ conn'[d] = [conn[d] EXCEPT !["procStarted"] = FALSE]
            /\ pc[Proc(d)] = "done"
        BY <1>11, <3>1 DEF StartFailJoin, Set, IInv
      <4>2. ~conn'[d].procStarted
        BY <4>1 DEF Flags
      <4> QED BY <4>1, <4>2 DEF Flags
    <3>2. CASE d # c
      BY <1>11, <3>2 DEF StartFailJoin, Set, IInv
    <3> QED BY <3>1, <3>2
  <2> QED BY <1>8, <1>11, <2>1, <2>2 DEF StartFailJoin
<1>12. CASE StartFailDestroy
  <2>1. \A d \in Conns :
          /\ conn'[d] \in Flags
          /\ conn'[d].mem = conn[d].mem /\ conn'[d].state = conn[d].state
          /\ conn'[d].rxStarted = conn[d].rxStarted
          /\ conn'[d].procStarted = conn[d].procStarted
    BY <1>12, ConnAssumption DEF StartFailDestroy, IInv, Flags
  <2>2. conn' \in [Conns -> Flags]
    BY <1>12, <2>1 DEF StartFailDestroy, IInv
  <2> QED BY <1>8, <1>12, <2>1, <2>2 DEF StartFailDestroy
<1> QED BY <1>2, <1>3, <1>4, <1>5, <1>6, <1>7, <1>10, <1>11, <1>12 DEF StartConn

LEMMA EndInv == IInv /\ (MainReply \/ ImportFailed \/ MainShutdown) => IInv'
<1> SUFFICES ASSUME IInv, MainReply \/ ImportFailed \/ MainShutdown PROVE IInv'
  OBVIOUS
<1> USE DEF Step, locals, ImportDone, Building, Places
<1>1. CASE MainReply
  BY <1>1, MainLeaves DEF MainReply, IInv
<1>2. CASE MainUnexport
  BY <1>2, MainLeaves DEF MainUnexport, IInv
<1>3. CASE MainRelease
  BY <1>3, MainLeaves DEF MainRelease, IInv
<1>4. CASE MainRemove
  BY <1>4, MainLeaves DEF MainRemove, IInv
<1>5. CASE MainFree
  <2>1. pc' \in [Threads -> Places] /\ pc'[Main] = "close"
        /\ \A s \in Threads : s # Main => pc'[s] = pc[s]
    BY <1>5, ThreadFacts DEF MainFree, IInv
  <2>2. ImportInv'
    BY <2>1 DEF ImportInv
  <2>3. CASE req.conn \in Conns
    BY <1>5, <2>1, <2>2, <2>3, BlankFacts, MainChanges DEF MainFree
  <2>4. CASE req.conn \notin Conns
    <3>1. conn' = conn
      BY <1>5, <2>4 DEF MainFree, IInv
    <3> QED BY <1>5, <3>1, MainLeaves DEF MainFree, IInv
  <2> QED BY <2>3, <2>4
<1>6. CASE MainClose
  BY <1>6, MainLeaves DEF MainClose
<1>7. CASE MainCollect
  BY <1>7, MainLeaves DEF MainCollect, IInv
<1>8. CASE MainHalt
  BY <1>8, MainLeaves DEF MainHalt, IInv
<1>9. CASE MainJoin
  BY <1>9, MainLeaves DEF MainJoin, IInv
<1> QED BY <1>1, <1>2, <1>3, <1>4, <1>5, <1>6, <1>7, <1>8, <1>9
        DEF ImportFailed, MainShutdown

-----------------------------------------------------------------------------
(* The specification.                                                       *)

LEMMA FaultInv == ASSUME IInv, NEW t \in Threads, Fault(t) PROVE IInv'
<1>1. PICK o \in Gone(t) : fault' = [object |-> o, thread |-> t[1], at |-> pc[t]]
  BY DEF Fault
<1>2. o \in {"conn", "queue", "ctx", "sem"} /\ pc[t] \in Places
  BY DEF Gone, IInv
<1>3. t[1] \in {"main", "cleaner", "rx", "proc"}
  BY DEF Threads, Workers, Main, Cleaner
<1>4. fault' # None
  BY <1>1, <1>2, <1>3, ConnAssumption DEF Faults
<1>5. pc' \in [Threads -> Places] /\ \A s \in Threads : pc'[s] = "crashed"
      /\ UNCHANGED <<conn, cur, req>>
  BY DEF Fault, Places
<1>6. \A c \in Conns : RxPast(c)' /\ ProcPast(c)'
  BY <1>5, ThreadFacts DEF RxPast, ProcPast
<1> QED BY <1>4, <1>5, <1>6, ThreadFacts
        DEF IInv, ImportInv, CleanInv, ExitInv, ClosedInv, CrashInv, Building, Teardown

LEMMA InitInv == Init => IInv
<1> SUFFICES ASSUME Init PROVE IInv
  OBVIOUS
<1>1. conn \in [Conns -> Flags] /\ \A c \in Conns : conn[c].state = "INIT"
  BY BlankFacts DEF Init
<1>2. pc \in [Threads -> Places] /\ \A t \in Threads : pc[t] \in {"accept", "check", "off"}
  BY DEF Init, Places
<1>3. req \in [conn : Conns \cup {None}, dev : Devices \cup {None}]
  BY DEF Init
<1>4. cur \notin Conns
  BY ConnAssumption DEF Init, Conns
<1> QED BY <1>1, <1>2, <1>3, <1>4, ThreadFacts
        DEF IInv, ImportInv, CleanInv, ExitInv, ClosedInv, CrashInv, Building

LEMMA NextInv == IInv /\ [Next]_vars => IInv'
<1> SUFFICES ASSUME IInv, [Next]_vars PROVE IInv'
  OBVIOUS
<1>1. CASE UNCHANGED vars
  BY <1>1 DEF vars, locals, IInv, ImportInv, CleanInv, ExitInv, ClosedInv, CrashInv,
              RxPast, ProcPast, Live, Stopped
<1>2. CASE MainThread \/ ClientAsks
  BY <1>2, ServeInv, StartInv, EndInv DEF MainThread
<1>3. CASE CleanerThread
  BY <1>3, CleanerInv
<1>4. CASE SigStop
  BY <1>4 DEF SigStop, locals, IInv, ImportInv, CleanInv, ExitInv, ClosedInv,
              CrashInv, RxPast, ProcPast, Live, Stopped
<1>5. CASE \E c \in Conns : RxThread(c) \/ ProcThread(c) \/ RxHears(c)
  BY <1>5, RxInv, ProcInv
<1>6. CASE \E t \in Callers : Stop(t)
  BY <1>6, StopInv
<1>7. CASE \E t \in Threads : Fault(t)
  BY <1>7, FaultInv
<1> QED BY <1>1, <1>2, <1>3, <1>4, <1>5, <1>6, <1>7 DEF Next

LEMMA InvTornDown == IInv => TornDownAfterExit
<1> SUFFICES ASSUME IInv, NEW c \in Conns, fault = None, Live(c),
                    \/ conn[c].state = "CLOSED"
                    \/ cur = c /\ pc[Cleaner] \in Teardown
             PROVE  /\ pc[Rx(c)] \in {"exitPost", "done"}
                    /\ pc[Proc(c)] \in {"exitPost", "log", "done"}
  BY DEF TornDownAfterExit, Teardown
<1>1. RxPast(c) /\ ProcPast(c)
  BY DEF IInv, CleanInv, ExitInv, ClosedInv, Stopped
<1> QED BY <1>1, ThreadFacts DEF RxPast, ProcPast, IInv, CrashInv

(* ConnCleanup takes the queue and the device of a connection away          *)
(* (usbip_conn.c:268-280) only after its RX and its processor thread are    *)
(* past their last use of them, whatever the two flags it goes by are told  *)
(* by usbip_connection_start (409, 419) and by the threads (605, 664).      *)
THEOREM TornDown == Spec => []TornDownAfterExit
<1>1. Spec => []IInv
  BY InitInv, NextInv, PTL DEF Spec
<1> QED BY <1>1, InvTornDown, PTL

-----------------------------------------------------------------------------
(* What Main, ConnCleanup and the workers share: the registry, the exported *)
(* flags, the manager's list and the connection objects agree, although     *)
(* three kinds of threads change them one statement at a time, and          *)
(* ConnCleanup finds all its work.                                          *)

-----------------------------------------------------------------------------
(* Where Main and Cleaner are.                                              *)

(* Main works on a connection that has its device, but is not ACTIVE yet.   *)
Made == {"procCreate", "procStarted", "rxCreate", "rxStarted", "active",
         "failQueue", "failJoin", "failDestroy"}

(* Main has bound the device, and the connection is not ACTIVE yet.         *)
Taken == {"export", "busy", "init"} \cup Made

(* Main sends the reply to an import.                                       *)
Replies == {"replyOk", "replyDev"}

(* Main takes an import back.                                               *)
Leaving == {"unexport", "available", "unbind", "remove", "free"}

(* A connection Main works on that is still INIT is at one of these.        *)
Early == {"add", "bind"} \cup Taken \cup Leaving

Importing == {"limit"} \cup Early \cup Replies

(* Cleaner holds the mutex; it is in its first walk.                        *)
Scanning == {"scan", "destroyQueue", "unexport", "available", "unbind", "closed"}
Holding == Scanning \cup {"reap"}

-----------------------------------------------------------------------------
(* The inductive invariant.                                                 *)

OwnTypes ==
  /\ registry \in [Devices -> Conns \cup {None}]
  /\ exported \in [Devices -> BOOLEAN]
  /\ list \in Seq(Conns) /\ Len(list) <= MaxConnections
  /\ \A i, j \in 1 .. Len(list) : list[i] = list[j] => i = j
  /\ cur \in Conns \cup {None} /\ nxt \in Conns \cup {None}

(* The mutex, and who is in the list.                                       *)
ListInv ==
  /\ held <=> pc[Cleaner] \in Holding
  /\ pc[Cleaner] \in Holding \cup {"remove", "free"} => cur \in Conns
  /\ pc[Cleaner] \in Scanning => InList(cur)
  /\ pc[Cleaner] = "free" => ~InList(cur)
  /\ \A c \in Conns : InList(c) => Live(c)
  /\ pc[Main] = "add" => ~InList(req.conn) /\ Len(list) < MaxConnections
  /\ pc[Main] \in {"bind"} \cup Taken => InList(req.conn)
  /\ pc[Main] = "free" => ~InList(req.conn)
  /\ pc[Main] = "done" => pc[Cleaner] = "done"

(* The connection Main works on, and the device each connection is for.     *)
StageInv ==
  /\ pc[Main] \in Importing => req.conn \in Conns /\ req.dev \in Devices
  /\ pc[Main] \in {"add", "bind"} \cup Taken =>
       Live(req.conn) /\ conn[req.conn].state = "INIT"
  /\ pc[Main] \in {"add", "bind", "export", "busy", "init"} =>
       conn[req.conn].dev = None
  /\ pc[Main] \in Made \cup Replies \cup Leaving /\ Live(req.conn) =>
       conn[req.conn].dev = req.dev
  /\ \A c \in Conns : Live(c) /\ conn[c].state = "INIT" =>
       req.conn = c /\ pc[Main] \in Early
  /\ \A c \in Conns : conn[c].state # "INIT" => Live(c) /\ conn[c].dev \in Devices

(* An exported device is registered, and a registered one has an owner that *)
(* is live, listed and not taken apart yet.                                 *)
OwnerInv ==
  /\ \A d \in Devices : exported[d] => registry[d] # None
  /\ \A d \in Devices : registry[d] # None =>
       /\ Live(registry[d])
       /\ pc[Main] # "done" => InList(registry[d])
       /\ \/ conn[registry[d]].dev = d /\ conn[registry[d]].state # "CLOSED"
          \/ pc[Main] \in {"export", "busy", "init"}
             /\ req = [conn |-> registry[d], dev |-> d]

(* A started connection owns its device until Cleaner or, when the import   *)
(* is taken back, Main releases it.                                         *)
ClaimInv ==
  \A c \in Conns : conn[c].state \in {"ACTIVE", "CLOSING"} =>
    /\ \/ pc[Cleaner] \in {"unbind", "closed"} /\ cur = c
       \/ pc[Main] \in {"unbind", "remove", "free"} /\ req.conn = c
       \/ registry[conn[c].dev] = c
    /\ \/ pc[Cleaner] \in {"available", "unbind", "closed"} /\ cur = c
       \/ pc[Main] \in {"available", "unbind", "remove", "free"} /\ req.conn = c
       \/ exported[conn[c].dev]

(* The device Main works on.                                                *)
ImportDevInv ==
  /\ pc[Main] \in {"limit", "add", "bind", "unbind", "remove", "free"} =>
       registry[req.dev] = None
  /\ pc[Main] \in Taken => registry[req.dev] = req.conn
  /\ pc[Main] \in Replies \cup {"unexport", "available"} =>
       registry[req.dev] \in {None, req.conn}
  /\ pc[Main] \in {"busy", "init"} \cup Made => exported[req.dev]
  /\ pc[Main] \in {"export", "available", "unbind", "remove", "free"} =>
       ~exported[req.dev]

(* The device Cleaner takes away: between its two releases no import gets   *)
(* beyond the check of the limit, which needs the mutex.                    *)
CleanDevInv ==
  /\ pc[Cleaner] \in {"destroyQueue", "unexport", "available"} =>
       registry[conn[cur].dev] \in {None, cur}
  /\ pc[Cleaner] \in {"unbind", "closed"} =>
       /\ registry[conn[cur].dev] = None
       /\ pc[Main] \in {"add", "bind"} => req.dev # conn[cur].dev
  /\ pc[Cleaner] \in {"available", "unbind", "closed"} => ~exported[conn[cur].dev]

OwnParts == ListInv /\ StageInv /\ OwnerInv /\ ClaimInv /\ ImportDevInv /\ CleanDevInv

(* The types of what the ownership does not depend on.                      *)
RestTypes ==
  /\ ctx \in [Conns -> {"none", "open", "freed"}]
  /\ posts \in Nat /\ held \in BOOLEAN /\ cleanerOn \in BOOLEAN
  /\ serverOn \in BOOLEAN /\ fault \in Faults \cup {None}

(* After an access to freed memory all threads are gone.                    *)
OInv ==
  /\ IInv /\ OwnTypes
  /\ fault = None => OwnParts
  /\ fault # None => \A t \in Threads : pc[t] = "crashed"

-----------------------------------------------------------------------------
(* Steps that leave the list, the registry and the flags alone.             *)

(* What a step may do to a connection: go from ACTIVE to CLOSING, and       *)
(* change what the ownership does not depend on.                            *)
Alike(c) ==
  /\ conn'[c].mem = conn[c].mem /\ conn'[c].dev = conn[c].dev
  /\ conn'[c].state = conn[c].state
     \/ (conn[c].state = "ACTIVE" /\ conn'[c].state = "CLOSING")

(* Main stays within a stage, or ends an import.                            *)
MainCalm ==
  \/ pc'[Main] = pc[Main] /\ req' = req
  \/ pc[Main] \in Made /\ pc'[Main] \in Made /\ req' = req
  \/ pc[Main] \in Replies /\ pc'[Main] \in Replies /\ req' = req
  \/ pc[Main] \notin Early \cup {"done"} /\ pc'[Main] \notin Importing \cup {"done"}

LEMMA CalmInv ==
  ASSUME OwnTypes, OwnParts, \A c \in Conns : Alike(c), MainCalm,
         UNCHANGED <<list, held, registry, exported, cur, nxt>>,
         pc'[Cleaner] = pc[Cleaner]
  PROVE  OwnTypes' /\ OwnParts'
<1> USE DEF OwnParts, MainCalm, Made, Taken, Replies, Leaving, Early, Importing,
            Scanning, Holding
<1>1. \A c \in Conns : (InList(c)' <=> InList(c)) /\ (Live(c)' <=> Live(c))
  BY DEF InList, Live, Alike
<1>2. OwnTypes'
  BY DEF OwnTypes
<1>3. ListInv'
  BY <1>1 DEF ListInv, StageInv
<1>4. StageInv'
  BY <1>1 DEF StageInv, Alike
<1>5. OwnerInv'
  BY <1>1 DEF OwnerInv, Alike, OwnTypes
<1>6. ClaimInv'
  BY DEF ClaimInv, Alike
<1>7. ImportDevInv'
  BY DEF ImportDevInv
<1>8. CleanDevInv'
  BY DEF CleanDevInv, ListInv, Alike
<1> QED BY <1>2, <1>3, <1>4, <1>5, <1>6, <1>7, <1>8

(* The threads of a connection.                                             *)
LEMMA WorkerCalm ==
  ASSUME IInv, NEW c \in Conns, RxThread(c) \/ RxHears(c) \/ ProcThread(c)
  PROVE  /\ \A d \in Conns : Alike(d)
         /\ UNCHANGED <<list, held, registry, exported, req, cur, nxt, fault>>
         /\ pc'[Main] = pc[Main] /\ pc'[Cleaner] = pc[Cleaner]
<1> USE DEF Step, manager, devices, locals, Post, Set
<1>1. conn \in [Conns -> Flags] /\ pc \in [Threads -> Places]
  BY DEF IInv
<1>2. /\ UNCHANGED <<list, held, registry, exported, req, cur, nxt, fault>>
      /\ \E t \in {Rx(c), Proc(c)}, b \in Places : pc' = [pc EXCEPT ![t] = b]
      /\ \/ conn' = conn
         \/ \E u : Set(c, "urbs", u)
         \/ Set(c, "rxStarted", FALSE) \/ Set(c, "procStarted", FALSE)
         \/ Set(c, "running", FALSE)
  <2>1. CASE RxThread(c) \/ RxHears(c)
    BY <2>1 DEF RxThread, RxHears, RxLoop, RxRecv, RxShut, RxPush, RxExit, RxExitPost, Places
  <2>2. CASE ProcThread(c)
    BY <2>2 DEF ProcThread, ProcLoop, ProcPop, ProcHandle, ProcSend, ProcExit, ProcClear,
                ProcExitPost, ProcLog, Places
  <2> QED BY <2>1, <2>2
<1>3. pc'[Main] = pc[Main] /\ pc'[Cleaner] = pc[Cleaner]
  BY <1>1, <1>2, ThreadFacts
<1>4. ASSUME NEW d \in Conns PROVE Alike(d)
  <2>1. CASE conn' = conn
    BY <2>1 DEF Alike
  <2>2. CASE \E u : Set(c, "urbs", u)
    BY <1>1, <2>2 DEF Alike, Flags
  <2>3. CASE Set(c, "rxStarted", FALSE) \/ Set(c, "procStarted", FALSE) \/ Set(c, "running", FALSE)
    BY <1>1, <2>3 DEF Alike, Flags
  <2> QED BY <1>2, <2>1, <2>2, <2>3
<1> QED BY <1>2, <1>3, <1>4

(* request_stop: Main calls it only after its last import.                  *)
LEMMA StopCalm ==
  ASSUME IInv, NEW t \in Callers, Stop(t)
  PROVE  /\ \A d \in Conns : Alike(d)
         /\ MainCalm /\ pc'[Cleaner] = pc[Cleaner]
         /\ UNCHANGED <<list, held, registry, exported, cur, nxt, fault>>
<1>1. conn \in [Conns -> Flags] /\ pc \in [Threads -> Places]
  BY DEF IInv
<1>2. t \in Threads /\ t # Cleaner
  BY DEF Callers, Threads, Workers, Cleaner, Main
<1>3. UNCHANGED <<list, held, registry, exported, cur, nxt, fault>>
  BY DEF Stop, StopMark, StopCloseQueue, StopSignalQueue, StopCloseCtx, StopClearCtx,
         StopReturns, manager, devices, locals, Post
<1>4. pc'[Cleaner] = pc[Cleaner] /\ MainCalm
  <2>1. PICK b \in StopPlaces \cup {"exit", "halt"} : pc' = [pc EXCEPT ![t] = b]
    BY StopEffect
  <2>2. pc[t] \in StopPlaces /\ UNCHANGED req
    BY StopEffect
  <2> QED BY <1>1, <1>2, <2>1, <2>2, ThreadFacts
          DEF MainCalm, StopPlaces, Early, Importing, Taken, Made, Replies, Leaving
<1>5. ASSUME NEW d \in Conns PROVE Alike(d)
  <2> DEFINE u == Subject(t)
  <2>1. CASE conn' = conn
    BY <2>1 DEF Alike
  <2>2. CASE conn[u].state = "ACTIVE"
             /\ conn' = [conn EXCEPT ![u].state = "CLOSING", ![u].running = FALSE]
    BY <1>1, <2>2 DEF Alike, Flags
  <2>3. CASE (\E q : Set(u, "queue", q)) \/ Set(u, "ptr", FALSE)
    BY <1>1, <2>3 DEF Alike, Flags, Set
  <2> HIDE DEF u
  <2> QED BY <2>1, <2>2, <2>3, StopEffect DEF u
<1> QED BY <1>3, <1>4, <1>5

-----------------------------------------------------------------------------
(* The manager's list.                                                      *)

LEMMA RemoveAtFacts ==
  ASSUME NEW S, NEW s \in Seq(S), NEW i \in 1 .. Len(s)
  PROVE  /\ RemoveAt(s, i) \in Seq(S)
         /\ Len(RemoveAt(s, i)) = Len(s) - 1
         /\ \A j \in 1 .. Len(s) - 1 :
              RemoveAt(s, i)[j] = IF j < i THEN s[j] ELSE s[j + 1]
<1> DEFINE a == SubSeq(s, 1, i - 1)
           b == SubSeq(s, i + 1, Len(s))
<1>1. Len(s) \in Nat /\ \A j \in 1 .. Len(s) : s[j] \in S
  BY LenProperties, ElementOfSeq
<1>2. a \in Seq(S) /\ Len(a) = i - 1 /\ \A j \in 1 .. i - 1 : a[j] = s[j]
  <2>1. 1 \in Int /\ i - 1 \in Int /\ \A j \in 1 .. i - 1 : s[j] \in S
    BY <1>1
  <2>2. /\ a \in Seq(S) /\ Len(a) = IF 1 <= i - 1 THEN i - 1 - 1 + 1 ELSE 0
        /\ \A j \in 1 .. i - 1 - 1 + 1 : a[j] = s[1 + j - 1]
    BY <2>1, SubSeqProperties
  <2> HIDE DEF a
  <2> QED BY <1>1, <2>2
<1>3. b \in Seq(S) /\ Len(b) = Len(s) - i /\ \A j \in 1 .. Len(s) - i : b[j] = s[i + j]
  <2> DEFINE m == i + 1
             n == Len(s)
  <2>1. m \in Int /\ n \in Int /\ \A j \in m .. n : s[j] \in S
    BY <1>1
  <2>2. /\ b \in Seq(S) /\ Len(b) = IF m <= n THEN n - m + 1 ELSE 0
        /\ \A j \in 1 .. n - m + 1 : b[j] = s[m + j - 1]
    <3> HIDE DEF m, n
    <3>1. /\ SubSeq(s, m, n) \in Seq(S)
          /\ Len(SubSeq(s, m, n)) = IF m <= n THEN n - m + 1 ELSE 0
          /\ \A j \in 1 .. n - m + 1 : SubSeq(s, m, n)[j] = s[m + j - 1]
      BY <2>1, SubSeqProperties
    <3> QED BY <3>1 DEF m, n
  <2> HIDE DEF b
  <2>3. \A j \in 1 .. Len(s) - i : j \in 1 .. n - m + 1 /\ m + j - 1 = i + j
    BY <1>1
  <2>4. Len(b) = Len(s) - i
    BY <1>1, <2>2
  <2> QED BY <2>2, <2>3, <2>4
<1> HIDE DEF a, b
<1>4. /\ a \o b \in Seq(S) /\ Len(a \o b) = Len(a) + Len(b)
      /\ \A j \in 1 .. Len(a) + Len(b) :
           (a \o b)[j] = IF j <= Len(a) THEN a[j] ELSE b[j - Len(a)]
  BY <1>2, <1>3, ConcatProperties
<1>5. RemoveAt(s, i) = a \o b
  BY DEF RemoveAt, a, b
<1>6. ASSUME NEW j \in 1 .. Len(s) - 1
      PROVE  (a \o b)[j] = IF j < i THEN s[j] ELSE s[j + 1]
  <2>1. (a \o b)[j] = IF j <= i - 1 THEN a[j] ELSE b[j - (i - 1)]
    BY <1>1, <1>2, <1>3, <1>4
  <2>2. CASE j < i
    BY <1>1, <1>2, <2>1, <2>2
  <2>3. CASE ~(j < i)
    <3>1. j - (i - 1) \in 1 .. Len(s) - i /\ i + (j - (i - 1)) = j + 1
      BY <1>1, <2>3
    <3>2. b[j - (i - 1)] = s[j + 1]
      BY <1>3, <3>1
    <3>3. ~(j <= i - 1)
      BY <1>1, <2>3
    <3> QED BY <2>1, <2>3, <3>2, <3>3
  <2> QED BY <2>2, <2>3
<1>7. Len(a) + Len(b) = Len(s) - 1
  BY <1>1, <1>2, <1>3
<1> QED BY <1>4, <1>5, <1>6, <1>7

(* x stands in the list at or before y.                                     *)
Before(x, y) ==
  \E i, j \in 1 .. Len(list) : i <= j /\ list[i] = x /\ list[j] = y

(* Removal keeps the other connections, and their order.                    *)
LEMMA UnlinkFacts ==
  ASSUME OwnTypes, NEW c, Unlink(c)
  PROVE  /\ list' \in Seq(Conns) /\ Len(list') <= Len(list)
         /\ \A i, j \in 1 .. Len(list') : list'[i] = list'[j] => i = j
         /\ \A x : InList(x)' <=> InList(x) /\ x # c
         /\ \A x, y : x # c /\ y # c /\ Before(x, y) => Before(x, y)'
<1>1. list \in Seq(Conns) /\ Len(list) \in Nat /\ DOMAIN list = 1 .. Len(list)
      /\ \A i, j \in 1 .. Len(list) : list[i] = list[j] => i = j
  BY LenProperties DEF OwnTypes
<1>2. CASE ~InList(c)
  <2>1. list' = list
    BY <1>2 DEF Unlink
  <2> QED BY <1>1, <1>2, <2>1 DEF InList, Before
<1>3. CASE InList(c)
  <2> DEFINE k == CHOOSE i \in DOMAIN list : list[i] = c
  <2>1. k \in 1 .. Len(list) /\ list[k] = c /\ list' = RemoveAt(list, k)
    BY <1>1, <1>3 DEF InList, Unlink
  <2> HIDE DEF k
  <2>2. /\ list' \in Seq(Conns) /\ Len(list') = Len(list) - 1
        /\ \A j \in 1 .. Len(list) - 1 : list'[j] = IF j < k THEN list[j] ELSE list[j + 1]
    BY <1>1, <2>1, RemoveAtFacts
  <2>3. DOMAIN list' = 1 .. Len(list')
    BY <2>2, LenProperties
  <2>4. ASSUME NEW i \in 1 .. Len(list'), NEW j \in 1 .. Len(list'), list'[i] = list'[j]
        PROVE  i = j
    BY <1>1, <2>1, <2>2, <2>4
  <2>5. ASSUME NEW i \in 1 .. Len(list), i # k
        PROVE  LET p == IF i < k THEN i ELSE i - 1
               IN  p \in 1 .. Len(list') /\ list'[p] = list[i]
    BY <1>1, <2>1, <2>2, <2>5
  <2>6. ASSUME NEW x, InList(x), x # c
        PROVE  InList(x)'
    <3>1. PICK i \in 1 .. Len(list) : list[i] = x
      BY <1>1, <2>6 DEF InList
    <3> QED BY <2>1, <2>3, <2>5, <2>6, <3>1 DEF InList
  <2>7. ASSUME NEW x, InList(x)'
        PROVE  InList(x) /\ x # c
    <3>1. PICK i \in 1 .. Len(list') : list'[i] = x
      BY <2>3, <2>7 DEF InList
    <3>2. i \in 1 .. Len(list) /\ i + 1 \in 1 .. Len(list)
          /\ x = IF i < k THEN list[i] ELSE list[i + 1]
      BY <1>1, <2>2, <3>1
    <3> QED BY <1>1, <2>1, <3>2 DEF InList
  <2>8. ASSUME NEW x, NEW y, x # c, y # c, Before(x, y)
        PROVE  Before(x, y)'
    <3>1. PICK i \in 1 .. Len(list), j \in 1 .. Len(list) :
            i <= j /\ list[i] = x /\ list[j] = y
      BY <2>8 DEF Before
    <3> DEFINE p == IF i < k THEN i ELSE i - 1
               q == IF j < k THEN j ELSE j - 1
    <3>2. p \in 1 .. Len(list') /\ list'[p] = x /\ q \in 1 .. Len(list') /\ list'[q] = y
      BY <2>1, <2>5, <2>8, <3>1
    <3>3. p <= q
      BY <2>1, <3>1
    <3> HIDE DEF p, q
    <3> QED BY <3>2, <3>3 DEF Before
  <2>9. Len(list') <= Len(list)
    BY <1>1, <2>2
  <2> QED BY <2>2, <2>4, <2>6, <2>7, <2>8, <2>9
<1> QED BY <1>2, <1>3

(* A connection is appended.                                                *)
LEMMA AppendFacts ==
  ASSUME OwnTypes, NEW c \in Conns, ~InList(c), Len(list) < MaxConnections,
         list' = Append(list, c)
  PROVE  /\ list' \in Seq(Conns) /\ Len(list') <= MaxConnections
         /\ \A i, j \in 1 .. Len(list') : list'[i] = list'[j] => i = j
         /\ \A x : InList(x)' <=> InList(x) \/ x = c
         /\ \A x, y : Before(x, y) => Before(x, y)'
         /\ list'[Len(list')] = c
<1>1. list \in Seq(Conns) /\ Len(list) \in Nat /\ DOMAIN list = 1 .. Len(list)
      /\ \A i, j \in 1 .. Len(list) : list[i] = list[j] => i = j
  BY LenProperties DEF OwnTypes
<1>2. /\ list' \in Seq(Conns) /\ Len(list') = Len(list) + 1
      /\ \A i \in 1 .. Len(list) : list'[i] = list[i]
      /\ list'[Len(list) + 1] = c
  BY <1>1, AppendProperties
<1>3. DOMAIN list' = 1 .. Len(list')
  BY <1>2, LenProperties
<1>4. \A i \in 1 .. Len(list) : list[i] # c
  BY <1>1 DEF InList
<1>5. ASSUME NEW i \in 1 .. Len(list'), NEW j \in 1 .. Len(list'), list'[i] = list'[j]
      PROVE  i = j
  BY <1>1, <1>2, <1>4, <1>5
<1>6. ASSUME NEW x PROVE InList(x)' <=> InList(x) \/ x = c
  <2>1. 1 .. Len(list') = (1 .. Len(list)) \cup {Len(list) + 1}
    BY <1>1, <1>2
  <2> QED BY <1>1, <1>2, <1>3, <2>1 DEF InList
<1>7. ASSUME NEW x, NEW y, Before(x, y) PROVE Before(x, y)'
  BY <1>1, <1>2, <1>7 DEF Before
<1>8. Len(list') <= MaxConnections
  BY <1>1, <1>2, ConnAssumption
<1> QED BY <1>2, <1>5, <1>6, <1>7, <1>8

LEMMA BeforeFacts ==
  ASSUME OwnTypes
  PROVE  /\ \A x, y : Before(x, y) => x \in Conns /\ y \in Conns
         /\ \A x, y : Before(x, y) /\ Before(y, x) => x = y
         /\ \A x \in Conns : NextOf(x) # x
<1>1. list \in Seq(Conns) /\ Len(list) \in Nat
      /\ \A i, j \in 1 .. Len(list) : list[i] = list[j] => i = j
  BY LenProperties DEF OwnTypes
<1>2. \A i \in 1 .. Len(list) : list[i] \in Conns
  BY <1>1, ElementOfSeq
<1>3. ASSUME NEW x, NEW y, Before(x, y), Before(y, x) PROVE x = y
  BY <1>1, <1>3 DEF Before
<1>4. ASSUME NEW x \in Conns, NextOf(x) = x PROVE FALSE
  <2>1. CASE \E i \in 1 .. Len(list) - 1 : list[i] = x
    <3> DEFINE k == CHOOSE i \in 1 .. Len(list) - 1 : list[i] = x
    <3>1. k \in 1 .. Len(list) - 1 /\ list[k] = x /\ NextOf(x) = list[1 + k]
      BY <2>1 DEF NextOf
    <3> HIDE DEF k
    <3> QED BY <1>1, <1>4, <3>1
  <2> QED BY <1>4, <2>1, ConnAssumption DEF NextOf, Conns
<1> QED BY <1>2, <1>3, <1>4 DEF Before

(* The walk: the first connection, and the one after c.                     *)
LEMMA WalkFacts ==
  ASSUME OwnTypes
  PROVE  /\ First \in Conns \cup {None}
         /\ First # None => \A x : InList(x) => Before(First, x)
         /\ First = None => \A x : ~InList(x)
         /\ First # None => InList(First)
         /\ \A c : NextOf(c) \in Conns \cup {None}
         /\ \A c : NextOf(c) # None => InList(NextOf(c))
         /\ \A c, x : Before(c, x) /\ x # c => NextOf(c) # None /\ Before(NextOf(c), x)
         /\ \A x, y : Before(x, y) => InList(x) /\ InList(y)
         /\ \A x : InList(x) => Before(x, x)
<1>1. list \in Seq(Conns) /\ Len(list) \in Nat /\ DOMAIN list = 1 .. Len(list)
      /\ \A i, j \in 1 .. Len(list) : list[i] = list[j] => i = j
  BY LenProperties DEF OwnTypes
<1>2. \A i \in 1 .. Len(list) : list[i] \in Conns
  BY <1>1, ElementOfSeq
<1>3. \A x : InList(x) <=> \E i \in 1 .. Len(list) : list[i] = x
  BY <1>1 DEF InList
<1>4. /\ First \in Conns \cup {None}
      /\ First # None => \A x : InList(x) => Before(First, x)
      /\ First = None => \A x : ~InList(x)
      /\ First # None => InList(First)
  <2>1. CASE list = <<>>
    BY <1>3, <2>1 DEF First
  <2>2. CASE list # <<>>
    <3>1. 1 \in 1 .. Len(list) /\ First = list[1]
      BY <1>1, <2>2, EmptySeq DEF First
    <3>2. First \in Conns /\ First # None
      BY <1>2, <3>1, ConnAssumption DEF Conns
    <3>3. ASSUME NEW x, InList(x) PROVE Before(First, x)
      BY <1>1, <1>3, <3>1, <3>3 DEF Before
    <3> QED BY <1>3, <3>1, <3>2, <3>3
  <2> QED BY <2>1, <2>2
<1>5. ASSUME NEW c PROVE NextOf(c) \in Conns \cup {None}
                         /\ (NextOf(c) # None => InList(NextOf(c)))
  <2>1. CASE \E i \in 1 .. Len(list) - 1 : list[i] = c
    <3> DEFINE k == CHOOSE i \in 1 .. Len(list) - 1 : list[i] = c
    <3>1. k \in 1 .. Len(list) - 1 /\ NextOf(c) = list[1 + k]
      BY <2>1 DEF NextOf
    <3> HIDE DEF k
    <3>2. 1 + k \in 1 .. Len(list)
      BY <1>1, <3>1
    <3> QED BY <1>2, <1>3, <3>1, <3>2
  <2> QED BY <2>1 DEF NextOf
<1>6. ASSUME NEW c, NEW x, Before(c, x), x # c
      PROVE  NextOf(c) # None /\ Before(NextOf(c), x)
  <2>1. PICK i \in 1 .. Len(list), j \in 1 .. Len(list) :
          i <= j /\ list[i] = c /\ list[j] = x
    BY <1>6 DEF Before
  <2>2. i < j /\ i \in 1 .. Len(list) - 1
    BY <1>1, <1>6, <2>1
  <2> DEFINE k == CHOOSE n \in 1 .. Len(list) - 1 : list[n] = c
  <2>3. k \in 1 .. Len(list) - 1 /\ list[k] = c /\ NextOf(c) = list[1 + k]
    BY <2>1, <2>2 DEF NextOf
  <2> HIDE DEF k
  <2>4. k = i
    BY <1>1, <2>1, <2>3
  <2>5. 1 + i \in 1 .. Len(list) /\ 1 + i <= j
    BY <1>1, <2>1, <2>2
  <2>6. NextOf(c) # None
    BY <1>2, <2>3, <2>4, <2>5, ConnAssumption DEF Conns
  <2> QED BY <2>1, <2>3, <2>4, <2>5, <2>6 DEF Before
<1>7. \A x, y : Before(x, y) => InList(x) /\ InList(y)
  BY <1>3 DEF Before
<1>8. \A x : InList(x) => Before(x, x)
  BY <1>1, <1>3 DEF Before
<1> QED BY <1>4, <1>5, <1>6, <1>7, <1>8

-----------------------------------------------------------------------------
(* ConnCleanup.                                                             *)

LEMMA CleanerPlace ==
  ASSUME IInv, NEW b, pc' = [pc EXCEPT ![Cleaner] = b]
  PROVE  pc'[Cleaner] = b /\ pc'[Main] = pc[Main]
BY ThreadFacts DEF IInv

(* Cleaner goes on in a walk, or between two walks.                         *)
LEMMA CleanShift ==
  ASSUME OwnTypes, OwnParts,
         UNCHANGED <<conn, list, registry, exported, req>>, pc'[Main] = pc[Main],
         pc[Cleaner] \in {"check", "wait", "lockScan", "lockReap", "scan", "reap", "relock"},
         pc'[Cleaner] \in {"check", "wait", "lockScan", "scan", "destroyQueue",
                           "lockReap", "reap", "remove", "done"},
         cur' \in Conns \cup {None}, nxt' \in Conns \cup {None},
         held' <=> pc'[Cleaner] \in Holding,
         pc'[Cleaner] \in Holding \cup {"remove"} => cur' \in Conns,
         pc'[Cleaner] \in Scanning => InList(cur'),
         pc'[Cleaner] = "destroyQueue" => conn[cur'].state = "CLOSING"
  PROVE  OwnTypes' /\ OwnParts'
<1> USE DEF OwnParts, Made, Taken, Replies, Leaving, Early, Importing, Scanning, Holding
<1>1. \A c : InList(c)' <=> InList(c)
  BY DEF InList
<1>2. \A c \in Conns : Live(c)' <=> Live(c)
  BY DEF Live
<1>3. OwnTypes'
  BY DEF OwnTypes
<1>4. ListInv'
  <2>1. InList(cur)' <=> InList(cur')
    BY DEF InList
  <2> QED BY <1>1, <1>2, <2>1 DEF ListInv
<1>5. StageInv'
  BY <1>2 DEF StageInv
<1>6. OwnerInv'
  BY <1>1, <1>2 DEF OwnerInv, ListInv, OwnTypes
<1>7. ClaimInv'
  BY DEF ClaimInv
<1>8. ImportDevInv'
  BY DEF ImportDevInv
<1>9. CleanDevInv'
  <2>1. CASE pc'[Cleaner] = "destroyQueue"
    <3>1. cur' \in Conns /\ conn[cur'].state = "CLOSING" /\ Live(cur')
      BY <2>1 DEF StageInv
    <3>2. registry[conn[cur'].dev] \in {None, cur'}
      BY <3>1 DEF ClaimInv, StageInv, ImportDevInv
    <3> QED BY <2>1, <3>2 DEF CleanDevInv
  <2>2. CASE pc'[Cleaner] # "destroyQueue"
    BY <2>2 DEF CleanDevInv
  <2> QED BY <2>1, <2>2
<1> QED BY <1>3, <1>4, <1>5, <1>6, <1>7, <1>8, <1>9

(* A step along the list.                                                   *)
LEMMA WalkShift ==
  ASSUME IInv, OwnTypes, OwnParts, NEW p \in {"scan", "reap"}, NEW c \in Conns \cup {None},
         pc[Cleaner] \in {"lockScan", "lockReap", "scan", "reap", "relock"},
         Walk(p, c), nxt' \in Conns \cup {None}, UNCHANGED <<conn, devices>>,
         p = "scan" /\ c # None => InList(c)
  PROVE  OwnTypes' /\ OwnParts'
<1>1. UNCHANGED <<conn, list, registry, exported, req>> /\ cur' = c /\ held' = (c # None)
  BY DEF Walk, devices
<1>2. /\ pc'[Main] = pc[Main]
      /\ \/ c # None /\ pc'[Cleaner] = p
         \/ c = None /\ pc'[Cleaner] \in {"lockReap", "done", "check"}
  BY CleanerPlace DEF Walk
<1>3. c # None => c \in Conns
  OBVIOUS
<1> QED BY <1>1, <1>2, <1>3, CleanShift DEF Holding, Scanning

(* Cleaner destroys the queue of cur, unexports its device, releases it     *)
(* twice: the connections stay as they are.                                 *)
LEMMA CleanTake ==
  ASSUME OwnTypes, OwnParts, \A c \in Conns : Alike(c),
         UNCHANGED <<list, held, req, cur, nxt>>, pc'[Main] = pc[Main], Live(cur),
         LET d == conn[cur].dev
         IN  \/ /\ pc[Cleaner] = "destroyQueue" /\ pc'[Cleaner] = "unexport"
                /\ UNCHANGED devices
             \/ /\ pc[Cleaner] = "unexport" /\ pc'[Cleaner] = "available"
                /\ registry' = registry /\ exported' = [exported EXCEPT ![d] = FALSE]
             \/ /\ pc[Cleaner] = "available" /\ pc'[Cleaner] = "unbind"
                /\ registry' = [registry EXCEPT ![d] = None] /\ exported' = exported
             \/ /\ pc[Cleaner] = "unbind" /\ pc'[Cleaner] = "closed"
                /\ registry' = [registry EXCEPT ![d] = None] /\ exported' = exported,
         conn[cur].state = "CLOSING"
  PROVE  OwnTypes' /\ OwnParts'
<1> USE DEF OwnParts, Made, Taken, Replies, Leaving, Early, Importing, Scanning, Holding
<1> DEFINE d == conn[cur].dev
<1>1. /\ cur \in Conns /\ d \in Devices /\ conn'[cur].dev = d
      /\ registry[d] \in {None, cur}
  BY DEF ListInv, StageInv, CleanDevInv, Alike
<1>2. \A c \in Conns : (InList(c)' <=> InList(c)) /\ (Live(c)' <=> Live(c))
  BY DEF InList, Live, Alike
<1>3. /\ \A e \in Devices : e # d => registry'[e] = registry[e] /\ exported'[e] = exported[e]
      /\ registry'[d] = IF pc[Cleaner] = "available" THEN None ELSE registry[d]
      /\ exported'[d] = IF pc[Cleaner] = "unexport" THEN FALSE ELSE exported[d]
  BY <1>1 DEF OwnTypes, devices, CleanDevInv
<1>4. pc[Main] \in {"add", "bind"} \cup Taken => req.conn # cur
  BY DEF StageInv
<1> HIDE DEF d
<1>5. OwnTypes'
  BY <1>1 DEF OwnTypes, devices
<1>6. ListInv'
  <2>1. (InList(cur)' <=> InList(cur)) /\ (InList(req.conn)' <=> InList(req.conn))
    BY DEF InList
  <2> QED BY <1>2, <2>1 DEF ListInv
<1>7. StageInv'
  BY <1>2 DEF StageInv, Alike
<1>8. OwnerInv'
  <2>1. ASSUME NEW e \in Devices, exported'[e] PROVE registry'[e] # None
    BY <1>1, <1>3, <2>1 DEF OwnerInv, CleanDevInv, d
  <2>2. ASSUME NEW e \in Devices, registry'[e] # None
        PROVE  registry'[e] = registry[e] /\ registry[e] # None /\ registry[e] \in Conns
    BY <1>1, <1>3, <2>2 DEF OwnTypes
  <2> QED BY <1>2, <2>1, <2>2 DEF OwnerInv, Alike
<1>9. ClaimInv'
  <2> SUFFICES ASSUME NEW c \in Conns, conn'[c].state \in {"ACTIVE", "CLOSING"}
               PROVE  /\ \/ pc'[Cleaner] \in {"unbind", "closed"} /\ cur = c
                         \/ pc[Main] \in {"unbind", "remove", "free"} /\ req.conn = c
                         \/ registry'[conn[c].dev] = c
                      /\ \/ pc'[Cleaner] \in {"available", "unbind", "closed"} /\ cur = c
                         \/ pc[Main] \in {"available", "unbind", "remove", "free"}
                            /\ req.conn = c
                         \/ exported'[conn[c].dev]
    BY DEF ClaimInv, Alike
  <2>1. conn[c].state \in {"ACTIVE", "CLOSING"} /\ conn[c].dev \in Devices
    BY DEF Alike, StageInv
  <2>2. CASE c = cur
    BY <1>3, <2>1, <2>2 DEF ClaimInv, d
  <2>3. CASE c # cur /\ conn[c].dev # d
    BY <1>3, <2>1, <2>3 DEF ClaimInv
  <2>4. CASE c # cur /\ conn[c].dev = d
    BY <1>1, <2>1, <2>4, ConnAssumption DEF ClaimInv, Conns
  <2> QED BY <2>2, <2>3, <2>4
<1>10. ImportDevInv'
  <2>1. CASE req.dev # d
    BY <1>3, <2>1 DEF ImportDevInv, StageInv
  <2>2. CASE req.dev = d
    <3>1. pc[Main] \notin Taken
      BY <1>1, <1>4, <2>2, ConnAssumption DEF ImportDevInv, StageInv, Conns
    <3> QED BY <1>1, <1>3, <2>2, <3>1 DEF ImportDevInv
  <2> QED BY <2>1, <2>2
<1>11. CleanDevInv'
  <2>1. pc[Main] \in {"add", "bind"} /\ pc[Cleaner] = "available" => req.dev # d
    BY <1>1, <1>4, ConnAssumption DEF ImportDevInv, ClaimInv, CleanDevInv, OwnerInv, Conns, d
  <2> QED BY <1>1, <1>3, <2>1 DEF CleanDevInv, d
<1> QED BY <1>5, <1>6, <1>7, <1>8, <1>9, <1>10, <1>11

(* cur is CLOSED: it has no device any more.                                *)
LEMMA CleanCloses ==
  ASSUME IInv, OwnTypes, OwnParts, CleanClosed
  PROVE  OwnTypes' /\ OwnParts'
<1> USE DEF OwnParts, Made, Taken, Replies, Leaving, Early, Importing, Scanning, Holding
<1>1. /\ UNCHANGED <<list, registry, exported, req, nxt>> /\ pc[Cleaner] = "closed"
      /\ cur' = NextOf(cur) /\ held' = (cur' # None) /\ Live(cur)
      /\ Set(cur, "state", "CLOSED")
  BY DEF CleanClosed, Walk, devices
<1>2. /\ pc'[Main] = pc[Main]
      /\ \/ cur' # None /\ pc'[Cleaner] = "scan"
         \/ cur' = None /\ pc'[Cleaner] = "lockReap"
  BY CleanerPlace DEF CleanClosed, Walk
<1>3. cur \in Conns /\ conn[cur].state = "CLOSING"
  BY <1>1 DEF ListInv, IInv, CleanInv, Teardown, Stopped
<1>4. \A c \in Conns :
        /\ conn'[c].mem = conn[c].mem /\ conn'[c].dev = conn[c].dev
        /\ conn'[c].state = IF c = cur THEN "CLOSED" ELSE conn[c].state
  BY <1>1, <1>3 DEF Set, IInv, Flags
<1>5. \A c \in Conns : (InList(c)' <=> InList(c)) /\ (Live(c)' <=> Live(c))
  BY <1>1, <1>4 DEF InList, Live
<1>6. /\ cur' \in Conns \cup {None} /\ (cur' # None => InList(cur)')
      /\ InList(req.conn)' <=> InList(req.conn)
  BY <1>1, WalkFacts DEF InList
<1>7. OwnTypes'
  BY <1>1, <1>6 DEF OwnTypes
<1>8. ListInv'
  BY <1>1, <1>2, <1>5, <1>6 DEF ListInv
<1>9. StageInv'
  BY <1>1, <1>2, <1>3, <1>4, <1>5 DEF StageInv
<1>10. OwnerInv'
  <2>1. \A d \in Devices : registry[d] # None => registry[d] \in Conns
    BY DEF OwnTypes
  <2>2. \A d \in Devices : registry[d] = cur => conn[cur].dev # d
    BY <1>1, <1>3, ConnAssumption DEF CleanDevInv, Conns
  <2>3. \A d \in Devices : registry[d] = cur =>
          ~(pc[Main] \in {"export", "busy", "init"} /\ req = [conn |-> cur, dev |-> d])
    BY <1>3 DEF StageInv
  <2> QED BY <1>1, <1>2, <1>3, <1>4, <1>5, <2>1, <2>2, <2>3 DEF OwnerInv
<1>11. ClaimInv'
  BY <1>1, <1>2, <1>3, <1>4 DEF ClaimInv
<1>12. ImportDevInv'
  BY <1>1, <1>2 DEF ImportDevInv
<1>13. CleanDevInv'
  BY <1>2 DEF CleanDevInv
<1> QED BY <1>7, <1>8, <1>9, <1>10, <1>11, <1>12, <1>13

(* cur leaves the list: a CLOSED connection owns nothing.                   *)
LEMMA CleanRemoves ==
  ASSUME IInv, OwnTypes, OwnParts, CleanRemove
  PROVE  OwnTypes' /\ OwnParts'
<1> USE DEF OwnParts, Made, Taken, Replies, Leaving, Early, Importing, Scanning, Holding
<1>1. /\ UNCHANGED <<conn, held, registry, exported, req, cur, nxt>> /\ Live(cur)
      /\ pc[Cleaner] = "remove" /\ pc'[Cleaner] = "free" /\ pc'[Main] = pc[Main]
      /\ Unlink(cur)
  BY CleanerPlace DEF CleanRemove, Step, devices, locals
<1>2. cur \in Conns /\ conn[cur].state = "CLOSED"
  BY <1>1 DEF ListInv, IInv, CleanInv
<1>3. /\ list' \in Seq(Conns) /\ Len(list') <= Len(list)
      /\ \A i, j \in 1 .. Len(list') : list'[i] = list'[j] => i = j
      /\ \A c : InList(c)' <=> InList(c) /\ c # cur
  BY <1>1, UnlinkFacts
<1>4. \A c \in Conns : Live(c)' <=> Live(c)
  BY <1>1 DEF Live
<1>5. Len(list) \in Nat /\ Len(list') \in Nat
  BY <1>3, LenProperties DEF OwnTypes
<1>6. OwnTypes'
  BY <1>1, <1>3, <1>5, ConnAssumption DEF OwnTypes
<1>7. ListInv'
  <2>1. (InList(cur)' <=> FALSE) /\ (InList(req.conn)' <=> InList(req.conn) /\ req.conn # cur)
    BY <1>1, <1>3 DEF InList
  <2>2. pc[Main] \in {"bind"} \cup Taken => req.conn # cur
    BY <1>2 DEF StageInv
  <2> QED BY <1>1, <1>3, <1>4, <1>5, <2>1, <2>2, ConnAssumption DEF ListInv
<1>8. StageInv'
  BY <1>1, <1>4 DEF StageInv
<1>9. OwnerInv'
  BY <1>1, <1>2, <1>3, <1>4 DEF OwnerInv, OwnTypes, StageInv
<1>10. ClaimInv'
  BY <1>1 DEF ClaimInv
<1>11. ImportDevInv'
  BY <1>1 DEF ImportDevInv
<1>12. CleanDevInv'
  BY <1>1 DEF CleanDevInv
<1> QED BY <1>6, <1>7, <1>8, <1>9, <1>10, <1>11, <1>12

(* cur is freed: it is in no list, and no device is its.                    *)
LEMMA CleanFrees ==
  ASSUME IInv, OwnTypes, OwnParts, CleanFree
  PROVE  OwnTypes' /\ OwnParts'
<1> USE DEF OwnParts, Made, Taken, Replies, Leaving, Early, Importing, Scanning, Holding
<1>1. /\ UNCHANGED <<list, held, registry, exported, req, cur, nxt>> /\ Live(cur)
      /\ pc[Cleaner] = "free" /\ pc'[Cleaner] = "relock" /\ pc'[Main] = pc[Main]
      /\ conn' = [conn EXCEPT ![cur] = Freed]
  BY CleanerPlace DEF CleanFree, Step, manager, devices, locals
<1>2. cur \in Conns /\ conn[cur].state = "CLOSED" /\ ~InList(cur)
  BY <1>1 DEF ListInv, IInv, CleanInv
<1>3. /\ conn'[cur].state = "INIT" /\ conn'[cur].mem = "freed"
      /\ \A c \in Conns : c # cur => conn'[c] = conn[c]
  BY <1>1, <1>2, BlankFacts DEF IInv
<1>4. \A c \in Conns : (InList(c)' <=> InList(c)) /\ (Live(c)' <=> Live(c) /\ c # cur)
  BY <1>1, <1>3 DEF InList, Live
<1>5. OwnTypes'
  BY <1>1 DEF OwnTypes
<1>6. ListInv'
  <2>1. InList(req.conn)' <=> InList(req.conn)
    BY <1>1 DEF InList
  <2> QED BY <1>1, <1>2, <1>4, <2>1 DEF ListInv
<1>7. StageInv'
  BY <1>1, <1>2, <1>3, <1>4 DEF StageInv
<1>8. OwnerInv'
  <2>1. \A d \in Devices : registry[d] # None => registry[d] \in Conns /\ registry[d] # cur
    BY <1>2 DEF OwnerInv, OwnTypes, StageInv
  <2> QED BY <1>1, <1>3, <1>4, <2>1 DEF OwnerInv
<1>9. ClaimInv'
  BY <1>1, <1>3 DEF ClaimInv
<1>10. ImportDevInv'
  BY <1>1 DEF ImportDevInv
<1>11. CleanDevInv'
  BY <1>1 DEF CleanDevInv
<1> QED BY <1>5, <1>6, <1>7, <1>8, <1>9, <1>10, <1>11

LEMMA CleanerOwn ==
  ASSUME IInv, OwnTypes, OwnParts, CleanerThread
  PROVE  OwnTypes' /\ OwnParts'
<1> USE DEF Step, manager, devices, locals
<1>1. /\ cur \in Conns \cup {None} /\ nxt \in Conns \cup {None}
      /\ held <=> pc[Cleaner] \in Holding
      /\ (pc[Cleaner] \in Holding \cup {"remove", "free"} => cur \in Conns)
  BY DEF OwnTypes, OwnParts, ListInv
<1>2. CASE CleanCheck
  <2>1. /\ UNCHANGED <<conn, list, held, registry, exported, req, cur, nxt>>
        /\ pc[Cleaner] = "check" /\ pc'[Cleaner] \in {"wait", "lockScan"}
        /\ pc'[Main] = pc[Main]
    BY <1>2, CleanerPlace DEF CleanCheck
  <2> QED BY <1>1, <2>1, CleanShift DEF Holding, Scanning
<1>3. CASE CleanWait
  <2>1. /\ UNCHANGED <<conn, list, held, registry, exported, req, cur, nxt>>
        /\ pc[Cleaner] = "wait" /\ pc'[Cleaner] = "lockScan" /\ pc'[Main] = pc[Main]
    BY <1>3, CleanerPlace DEF CleanWait
  <2> QED BY <1>1, <2>1, CleanShift DEF Holding, Scanning
<1>4. CASE CleanLock
  BY <1>1, <1>4, WalkFacts, WalkShift DEF CleanLock
<1>5. CASE CleanScan
  <2>1. CASE Walk("scan", NextOf(cur)) /\ UNCHANGED nxt
    BY <1>1, <1>5, <2>1, WalkFacts, WalkShift DEF CleanScan
  <2>2. CASE Stopped(cur) /\ Step(Cleaner, "scan", "destroyQueue")
             /\ UNCHANGED <<ctx, manager, locals>>
    <3>1. UNCHANGED <<conn, list, held, registry, exported, req, cur, nxt>>
          /\ pc[Cleaner] = "scan" /\ pc'[Cleaner] = "destroyQueue" /\ pc'[Main] = pc[Main]
      BY <1>5, <2>2, CleanerPlace DEF CleanScan
    <3>2. conn[cur].state = "CLOSING" /\ InList(cur) /\ cur \in Conns
      BY <1>1, <2>2, <3>1 DEF Stopped, OwnParts, ListInv, Scanning, Holding
    <3>3. InList(cur')
      BY <3>1, <3>2
    <3> QED BY <1>1, <3>1, <3>2, <3>3, CleanShift DEF Holding, Scanning
  <2> QED BY <1>5, <2>1, <2>2 DEF CleanScan
<1>6. CASE CleanReap
  <2>1. CASE Walk("reap", NextOf(cur)) /\ UNCHANGED nxt
    BY <1>1, <1>6, <2>1, WalkFacts, WalkShift DEF CleanReap
  <2>2. CASE Step(Cleaner, "reap", "remove") /\ held' = FALSE /\ nxt' = NextOf(cur)
             /\ UNCHANGED <<list, req, cur>>
    <3>1. /\ UNCHANGED <<conn, list, registry, exported, req, cur>>
          /\ pc[Cleaner] = "reap" /\ pc'[Cleaner] = "remove" /\ pc'[Main] = pc[Main]
      BY <1>6, <2>2, CleanerPlace DEF CleanReap
    <3>2. nxt' \in Conns \cup {None} /\ cur \in Conns
      BY <1>1, <2>2, <3>1, WalkFacts DEF Holding
    <3>3. held' <=> pc'[Cleaner] \in Holding
      BY <2>2, <3>1 DEF Holding, Scanning
    <3>4. cur' \in Conns /\ pc'[Cleaner] \notin Scanning \cup {"destroyQueue"}
      BY <3>1, <3>2 DEF Scanning
    <3> QED BY <3>1, <3>2, <3>3, <3>4, CleanShift
  <2> QED BY <1>6, <2>1, <2>2 DEF CleanReap
<1>7. CASE CleanRelock
  BY <1>1, <1>7, WalkShift DEF CleanRelock
<1>8. CASE CleanDestroyQueue \/ CleanUnexport \/ CleanRelease
  <2>1. /\ UNCHANGED <<list, held, req, cur, nxt>> /\ Live(cur)
        /\ pc[Cleaner] \in {"destroyQueue", "unexport", "available", "unbind"}
        /\ cur \in Conns
    BY <1>1, <1>8 DEF CleanDestroyQueue, CleanUnexport, CleanRelease, Holding, Scanning
  <2>2. conn[cur].state = "CLOSING"
    BY <2>1 DEF IInv, CleanInv, Teardown, Stopped
  <2>3. ASSUME NEW c \in Conns PROVE Alike(c)
    BY <1>8, <2>1 DEF CleanDestroyQueue, CleanUnexport, CleanRelease, Alike, IInv, Flags
  <2>4. CASE CleanDestroyQueue
    BY <2>1, <2>2, <2>3, <2>4, CleanerPlace, CleanTake DEF CleanDestroyQueue
  <2>5. CASE CleanUnexport
    BY <2>1, <2>2, <2>3, <2>5, CleanerPlace, CleanTake DEF CleanUnexport
  <2>6. CASE CleanRelease
    BY <2>1, <2>2, <2>3, <2>6, CleanerPlace, CleanTake DEF CleanRelease, Registry!Release
  <2> QED BY <1>8, <2>4, <2>5, <2>6
<1> QED BY <1>2, <1>3, <1>4, <1>5, <1>6, <1>7, <1>8, CleanCloses, CleanRemoves,
           CleanFrees DEF CleanerThread

-----------------------------------------------------------------------------
(* The server's main thread.                                                *)

LEMMA MainPlace ==
  ASSUME IInv, NEW a, NEW b, Step(Main, a, b)
  PROVE  pc[Main] = a /\ pc'[Main] = b /\ pc'[Cleaner] = pc[Cleaner]
BY ThreadFacts DEF IInv, Step

(* Main turns to the next statement; the connections and the list stay.     *)
MainMoved(a, b) ==
  /\ \A c \in Conns : Alike(c)
  /\ UNCHANGED <<list, held, cur, nxt>>
  /\ pc[Main] = a /\ pc'[Main] = b /\ pc'[Cleaner] = pc[Cleaner]

LEMMA MovedFacts ==
  ASSUME NEW a, NEW b, MainMoved(a, b)
  PROVE  /\ \A c \in Conns : (InList(c)' <=> InList(c)) /\ (Live(c)' <=> Live(c))
         /\ InList(cur)' <=> InList(cur)
         /\ req' = req => (InList(req.conn)' <=> InList(req.conn))
BY DEF MainMoved, Alike, Live, InList

LEMMA MovedStays ==
  ASSUME IInv, NEW a, NEW b, Step(Main, a, b), UNCHANGED <<conn, list, held, cur, nxt>>
  PROVE  MainMoved(a, b)
BY MainPlace DEF MainMoved, Alike

(* The device that is asked for is available.                               *)
LEMMA ImportOwn ==
  ASSUME IInv, OwnTypes, OwnParts, NEW d \in Devices, MainImport(d)
  PROVE  OwnTypes' /\ OwnParts'
<1> USE DEF OwnParts, Made, Taken, Replies, Leaving, Early, Importing, Scanning, Holding
<1>1. CASE Step(Main, "op", "accept") /\ Refuse
  <2>1. MainMoved("op", "accept") /\ UNCHANGED <<list, held, registry, exported, cur, nxt>>
    BY <1>1, MovedStays DEF Refuse, manager, devices
  <2> QED BY <2>1, CalmInv DEF MainMoved, MainCalm
<1>2. CASE /\ Step(Main, "op", "limit") /\ Registry!Available(d)
           /\ req' = [req EXCEPT !.dev = d]
           /\ UNCHANGED <<conn, manager, devices, cur, nxt>>
  <2>1. MainMoved("op", "limit") /\ UNCHANGED <<conn, registry, exported>>
    BY <1>2, MovedStays DEF manager, devices
  <2>2. /\ registry[d] = None /\ pc[Main] = "op" /\ pc'[Main] = "limit"
        /\ pc'[Cleaner] = pc[Cleaner] /\ UNCHANGED <<list, held, cur, nxt>>
    BY <1>2, <2>1 DEF Registry!Available, MainMoved
  <2>3. req'.conn \in Conns /\ req'.dev = d
    BY <1>2, <2>2 DEF IInv, ImportInv
  <2>4. OwnTypes'
    BY <2>1, <2>2 DEF OwnTypes
  <2>5. ListInv'
    BY <2>1, <2>2, MovedFacts DEF ListInv
  <2>6. StageInv'
    BY <2>1, <2>2, <2>3, MovedFacts DEF StageInv
  <2>7. OwnerInv'
    BY <2>1, <2>2, MovedFacts DEF OwnerInv, OwnTypes
  <2>8. ClaimInv'
    BY <2>1, <2>2 DEF ClaimInv
  <2>9. ImportDevInv'
    BY <2>1, <2>2, <2>3 DEF ImportDevInv
  <2>10. CleanDevInv'
    BY <2>1, <2>2 DEF CleanDevInv
  <2> QED BY <2>4, <2>5, <2>6, <2>7, <2>8, <2>9, <2>10
<1> QED BY <1>1, <1>2 DEF MainImport, locals

(* The connection object is made.                                           *)
LEMMA LimitOwn ==
  ASSUME IInv, OwnTypes, OwnParts, MainLimit
  PROVE  OwnTypes' /\ OwnParts'
<1> USE DEF OwnParts, Made, Taken, Replies, Leaving, Early, Importing, Scanning, Holding
<1>1. CASE Step(Main, "limit", "accept") /\ Refuse
  <2>1. MainMoved("limit", "accept") /\ UNCHANGED <<list, held, registry, exported, cur, nxt>>
    BY <1>1, MovedStays DEF Refuse, manager, devices
  <2> QED BY <2>1, CalmInv DEF MainMoved, MainCalm
<1>2. CASE /\ Step(Main, "limit", "add") /\ Len(list) < MaxConnections
           /\ conn' = [conn EXCEPT ![req.conn] = [Blank EXCEPT !.mem = "live", !.ptr = TRUE]]
           /\ UNCHANGED <<manager, devices, locals>> /\ ~held
  <2> DEFINE a == req.conn
  <2>1. /\ pc[Main] = "limit" /\ pc'[Main] = "add" /\ pc'[Cleaner] = pc[Cleaner]
        /\ UNCHANGED <<list, held, registry, exported, req, cur, nxt>>
    BY <1>2, MainPlace DEF manager, devices, locals
  <2>2. a \in Conns /\ conn[a].mem = "none" /\ conn[a].state = "INIT"
    BY <2>1 DEF IInv, ImportInv, StageInv, Live
  <2>3. /\ conn'[a].mem = "live" /\ conn'[a].state = "INIT" /\ conn'[a].dev = None
        /\ \A c \in Conns : c # a => conn'[c] = conn[c]
    BY <1>2, <2>2 DEF IInv, Blank
  <2>4. /\ ~InList(a) /\ ~InList(a)'
        /\ \A c \in Conns : (InList(c)' <=> InList(c)) /\ (Live(c)' <=> Live(c) \/ c = a)
        /\ InList(cur)' <=> InList(cur)
    BY <2>1, <2>2, <2>3 DEF ListInv, InList, Live
  <2>5. pc[Cleaner] \notin Holding
    BY <1>2 DEF ListInv
  <2>6. OwnTypes'
    BY <2>1 DEF OwnTypes
  <2>7. ListInv'
    BY <1>2, <2>1, <2>4 DEF ListInv
  <2>8. StageInv'
    BY <2>1, <2>2, <2>3, <2>4 DEF StageInv, Live
  <2>9. OwnerInv'
    <3>1. \A d \in Devices : registry[d] # None => registry[d] \in Conns /\ registry[d] # a
      BY <2>2 DEF OwnerInv, OwnTypes, Live
    <3> QED BY <2>1, <2>3, <2>4, <3>1 DEF OwnerInv
  <2>10. ClaimInv'
    BY <2>1, <2>3 DEF ClaimInv
  <2>11. ImportDevInv'
    BY <2>1 DEF ImportDevInv
  <2>12. CleanDevInv'
    BY <2>1, <2>5 DEF CleanDevInv
  <2> QED BY <2>6, <2>7, <2>8, <2>9, <2>10, <2>11, <2>12
<1> QED BY <1>1, <1>2 DEF MainLimit

(* The connection is listed: there is room, as there was at the check.      *)
LEMMA AddOwn ==
  ASSUME IInv, OwnTypes, OwnParts, MainAdd
  PROVE  OwnTypes' /\ OwnParts'
<1> USE DEF OwnParts, Made, Taken, Replies, Leaving, Early, Importing, Scanning, Holding
<1> DEFINE a == req.conn
<1>1. /\ pc[Main] = "add" /\ UNCHANGED <<conn, held, registry, exported, req, cur, nxt>>
      /\ ~held
  BY DEF MainAdd, Step, devices, locals
<1>2. a \in Conns /\ ~InList(a) /\ Len(list) < MaxConnections
      /\ Live(a) /\ conn[a].state = "INIT"
  BY <1>1 DEF ListInv, StageInv
<1>3. pc'[Main] = "bind" /\ pc'[Cleaner] = pc[Cleaner] /\ list' = Append(list, a)
  <2>1. ~(Len(list) >= MaxConnections)
    BY <1>2, ConnAssumption, LenProperties DEF OwnTypes
  <2>2. Step(Main, "add", "bind") /\ list' = Append(list, a)
    BY <2>1 DEF MainAdd
  <2> QED BY <2>2, MainPlace
<1>4. /\ list' \in Seq(Conns) /\ Len(list') <= MaxConnections
      /\ \A i, j \in 1 .. Len(list') : list'[i] = list'[j] => i = j
      /\ \A c : InList(c)' <=> InList(c) \/ c = a
  BY <1>2, <1>3, AppendFacts
<1>5. \A c \in Conns : Live(c)' <=> Live(c)
  BY <1>1 DEF Live
<1>6. InList(a)' /\ (InList(cur)' <=> InList(cur) \/ cur = a)
  BY <1>1, <1>4 DEF InList
<1>7. pc[Cleaner] \notin Holding /\ (pc[Cleaner] = "free" => cur # a)
  BY <1>1, <1>2 DEF ListInv, IInv, CleanInv
<1> HIDE DEF a
<1>8. OwnTypes'
  BY <1>1, <1>4 DEF OwnTypes
<1>9. ListInv'
  BY <1>1, <1>2, <1>3, <1>4, <1>5, <1>6, <1>7 DEF ListInv, a
<1>10. StageInv'
  BY <1>1, <1>3, <1>5 DEF StageInv
<1>11. OwnerInv'
  BY <1>1, <1>3, <1>4, <1>5 DEF OwnerInv, OwnTypes
<1>12. ClaimInv'
  BY <1>1, <1>3 DEF ClaimInv
<1>13. ImportDevInv'
  BY <1>1, <1>3 DEF ImportDevInv
<1>14. CleanDevInv'
  BY <1>1, <1>3, <1>7 DEF CleanDevInv
<1> QED BY <1>8, <1>9, <1>10, <1>11, <1>12, <1>13, <1>14

(* Fewer devices are registered than connections are listed, as every       *)
(* device has a listed owner of its own and c owns none.                    *)
LEMMA RoomFacts ==
  ASSUME OwnTypes, NEW c, InList(c),
         \A d \in Devices : registry[d] # None =>
           registry[d] # c /\ InList(registry[d]) /\ conn[registry[d]].dev = d
  PROVE  Registry!Room
<1> DEFINE B == {d \in Devices : registry[d] # None}
           n == Len(list)
           P == 1 .. n
           f == [d \in B |-> CHOOSE i \in P : list[i] = registry[d]]
<1>1. n \in Nat /\ n <= MaxConnections /\ DOMAIN list = P
      /\ \A i, j \in P : list[i] = list[j] => i = j
  BY LenProperties DEF OwnTypes
<1>2. PICK k \in P : list[k] = c
  BY <1>1 DEF InList
<1> DEFINE T == P \ {k}
<1>3. ASSUME NEW d \in B PROVE f[d] \in T /\ list[f[d]] = registry[d]
  <2>1. \E i \in P : list[i] = registry[d]
    BY <1>1 DEF InList
  <2> DEFINE i == CHOOSE i \in P : list[i] = registry[d]
  <2>2. i \in P /\ list[i] = registry[d]
    BY <2>1
  <2>3. f[d] = i
    OBVIOUS
  <2> HIDE DEF i, f, P
  <2>4. registry[d] # c
    OBVIOUS
  <2> QED BY <1>2, <2>2, <2>3, <2>4
<1>4. ASSUME NEW d \in B, NEW e \in B, f[d] = f[e] PROVE d = e
  <2>1. registry[d] = registry[e]
    BY <1>3, <1>4
  <2> QED BY <2>1
<1>5. f \in Injection(B, T)
  <2>1. f \in [B -> T]
    BY <1>3
  <2>2. \A d, e \in B : f[d] = f[e] => d = e
    BY <1>4
  <2> HIDE DEF f, B, T
  <2>3. DOMAIN f = B
    BY <2>1
  <2>4. IsInjective(f)
    BY <2>2, <2>3 DEF IsInjective
  <2> QED BY <2>1, <2>4 DEF Injection
<1>6. IsFiniteSet(P) /\ Cardinality(P) = n
  <2>1. 1 \in Int /\ n \in Int
    BY <1>1
  <2> HIDE DEF n
  <2>2. IsFiniteSet(1 .. n) /\ Cardinality(1 .. n) = IF 1 > n THEN 0 ELSE n - 1 + 1
    BY <2>1, FS_Interval
  <2> QED BY <1>1, <2>2
<1> HIDE DEF P, f
<1>7. IsFiniteSet(T) /\ Cardinality(T) = n - 1
  BY <1>2, <1>6, FS_RemoveElement
<1> HIDE DEF T
<1>8. Cardinality(B) <= Cardinality(T) /\ IsFiniteSet(B)
  BY <1>5, <1>7, FS_Injection
<1>9. Cardinality(B) \in Nat
  BY <1>8, FS_CardinalityType
<1>10. n - 1 < MaxConnections
  BY <1>1, ConnAssumption
<1> HIDE DEF n
<1>11. Cardinality(B) < MaxConnections
  BY <1>1, <1>7, <1>8, <1>9, <1>10, ConnAssumption
<1>12. \A S : Registry!Cardinality(S) = Cardinality(S)
  BY DEF Registry!Cardinality, Cardinality
<1> QED BY <1>11, <1>12 DEF Registry!Room

(* Main binds the device of the import: it is available, as it was when the *)
(* import asked for it, and there is room for the entry.                    *)
LEMMA BindOwn ==
  ASSUME IInv, OwnTypes, OwnParts, pc[Main] = "bind"
  PROVE  /\ Registry!CanBind(req.dev)
         /\ MainBind => OwnTypes' /\ OwnParts'
<1> USE DEF OwnParts, Made, Taken, Replies, Leaving, Early, Importing, Scanning, Holding
<1> DEFINE a == req.conn
<1>1. a \in Conns /\ req.dev \in Devices /\ InList(a) /\ conn[a].dev = None
      /\ Live(a) /\ conn[a].state = "INIT" /\ registry[req.dev] = None
  BY DEF ListInv, StageInv, ImportDevInv
<1>2. \A d \in Devices : registry[d] # None =>
        registry[d] # a /\ InList(registry[d]) /\ conn[registry[d]].dev = d
  BY <1>1, ConnAssumption DEF OwnerInv
<1>3. Registry!CanBind(req.dev)
  BY <1>1, <1>2, RoomFacts DEF Registry!CanBind, Registry!Available
<1>4. ASSUME MainBind PROVE OwnTypes' /\ OwnParts'
  <2>1. Step(Main, "bind", "export") /\ UNCHANGED <<conn, list, held, exported, req, cur, nxt>>
        /\ registry' = [registry EXCEPT ![req.dev] = a]
    BY <1>3, <1>4 DEF MainBind, manager, locals, Registry!Bind
  <2>2. MainMoved("bind", "export") /\ pc'[Main] = "export" /\ pc'[Cleaner] = pc[Cleaner]
    BY <2>1, MovedStays DEF MainMoved
  <2>3. ~exported[req.dev]
    BY <1>1 DEF OwnerInv
  <2>4. /\ registry'[req.dev] = a
        /\ \A d \in Devices : d # req.dev => registry'[d] = registry[d]
    BY <1>1, <2>1 DEF OwnTypes
  <2>5. OwnTypes'
    BY <1>1, <2>1 DEF OwnTypes
  <2>6. ListInv'
    BY <2>1, <2>2, MovedFacts DEF ListInv
  <2>7. StageInv'
    BY <2>1, <2>2, MovedFacts DEF StageInv
  <2>8. OwnerInv'
    <3>1. req = [conn |-> a, dev |-> req.dev]
      BY DEF IInv
    <3> HIDE DEF a
    <3>2. \A d \in Devices : registry[d] # None =>
            /\ registry[d] \in Conns /\ Live(registry[d]) /\ InList(registry[d])
            /\ conn[registry[d]].dev = d /\ conn[registry[d]].state # "CLOSED"
      BY <2>2 DEF OwnerInv, OwnTypes, MainMoved
    <3>3. ASSUME NEW d \in Devices, exported'[d] PROVE registry'[d] # None
      BY <1>1, <2>1, <2>4, <3>3, ConnAssumption DEF OwnerInv, Conns, a
    <3>5. ASSUME NEW d \in Devices, registry'[d] # None
          PROVE  /\ conn'[registry'[d]].mem = "live" /\ InList(registry[d])'
                 /\ \/ conn'[registry'[d]].dev = d /\ conn'[registry'[d]].state # "CLOSED"
                    \/ req' = [conn |-> registry'[d], dev |-> d]
      <4>1. CASE d = req.dev
        <5>1. registry'[d] = a /\ a \in Conns /\ Live(a) /\ InList(a)
          BY <1>1, <2>4, <4>1 DEF a
        <5> QED BY <2>1, <3>1, <4>1, <5>1 DEF Live, InList
      <4>2. CASE d # req.dev
        <5>1. registry'[d] = registry[d] /\ registry[d] # None
          BY <2>4, <3>5, <4>2
        <5> QED BY <2>1, <3>2, <5>1 DEF Live, InList
      <4> QED BY <4>1, <4>2
    <3> QED BY <2>2, <3>3, <3>5 DEF OwnerInv, Live
  <2>9. ClaimInv'
    BY <1>1, <2>1, <2>2, <2>4, ConnAssumption DEF ClaimInv, StageInv, Conns
  <2>10. ImportDevInv'
    BY <2>1, <2>2, <2>3, <2>4 DEF ImportDevInv
  <2>11. CleanDevInv'
    <3> SUFFICES ASSUME pc[Cleaner] \in Scanning \ {"scan"} PROVE CleanDevInv'
      BY <2>2 DEF CleanDevInv
    <3>1. cur \in Conns /\ Live(cur) /\ conn[cur].state = "CLOSING"
      BY DEF ListInv, IInv, CleanInv, Teardown, Stopped
    <3>2. conn[cur].dev \in Devices /\ conn[cur].dev # req.dev
      BY <1>1, <2>1, <3>1, ConnAssumption DEF StageInv, ClaimInv, CleanDevInv, Conns, Step
    <3>3. registry'[conn[cur].dev] = registry[conn[cur].dev]
      BY <2>4, <3>2
    <3> QED BY <2>1, <2>2, <3>3 DEF CleanDevInv
  <2> QED BY <2>5, <2>6, <2>7, <2>8, <2>9, <2>10, <2>11
<1> QED BY <1>3, <1>4

(* The device is marked busy, or an import is to be taken back.             *)
LEMMA TurnOwn ==
  ASSUME OwnTypes, OwnParts, NEW a, NEW b, MainMoved(a, b),
         UNCHANGED <<registry, exported, req>>,
         \/ a = "busy" /\ b = "init"
         \/ a \in {"failDestroy"} \cup Replies /\ b = "unexport"
  PROVE  OwnTypes' /\ OwnParts'
<1> USE DEF OwnParts, Made, Taken, Replies, Leaving, Early, Importing, Scanning, Holding
<1>1. /\ pc[Main] = a /\ pc'[Main] = b /\ pc'[Cleaner] = pc[Cleaner]
      /\ UNCHANGED <<list, held, cur, nxt>> /\ \A c \in Conns : Alike(c)
  BY DEF MainMoved
<1>2. OwnTypes'
  BY <1>1 DEF OwnTypes
<1>3. ListInv'
  BY <1>1, MovedFacts DEF ListInv
<1>4. StageInv'
  BY <1>1, MovedFacts DEF StageInv, Alike
<1>5. OwnerInv'
  BY <1>1, MovedFacts DEF OwnerInv, OwnTypes, Alike
<1>6. ClaimInv'
  BY <1>1 DEF ClaimInv, Alike
<1>7. ImportDevInv'
  BY <1>1 DEF ImportDevInv
<1>8. CleanDevInv'
  BY <1>1 DEF CleanDevInv, ListInv, Alike
<1> QED BY <1>2, <1>3, <1>4, <1>5, <1>6, <1>7, <1>8

(* The driver exports the device, which it had not exported.                *)
LEMMA ExportOwn ==
  ASSUME IInv, OwnTypes, OwnParts, MainExport
  PROVE  OwnTypes' /\ OwnParts'
<1> USE DEF OwnParts, Made, Taken, Replies, Leaving, Early, Importing, Scanning, Holding
<1>1. /\ pc[Main] = "export" /\ UNCHANGED <<conn, list, held, registry, req, cur, nxt>>
      /\ exported' = [exported EXCEPT ![req.dev] = TRUE]
  BY DEF MainExport, Step, manager, locals
<1>2. /\ req.dev \in Devices /\ req.conn \in Conns /\ ~exported[req.dev]
      /\ registry[req.dev] = req.conn /\ conn[req.conn].state = "INIT"
  BY <1>1 DEF StageInv, ImportDevInv
<1>3. MainMoved("export", "busy") /\ pc'[Main] = "busy" /\ pc'[Cleaner] = pc[Cleaner]
  BY <1>1, <1>2, MovedStays DEF MainExport, MainMoved
<1>4. exported'[req.dev] /\ \A d \in Devices : d # req.dev => exported'[d] = exported[d]
  BY <1>1, <1>2 DEF OwnTypes
<1>5. OwnTypes'
  BY <1>1 DEF OwnTypes
<1>6. ListInv'
  BY <1>1, <1>3, MovedFacts DEF ListInv
<1>7. StageInv'
  BY <1>1, <1>3, MovedFacts DEF StageInv
<1>8. OwnerInv'
  <2>1. ASSUME NEW d \in Devices, exported'[d] PROVE registry'[d] # None
    BY <1>1, <1>2, <1>4, <2>1, ConnAssumption DEF OwnerInv, Conns
  <2> QED BY <1>1, <1>3, <2>1, MovedFacts DEF OwnerInv, OwnTypes
<1>9. ClaimInv'
  <2>1. \A d \in Devices : exported[d] => exported'[d]
    BY <1>4
  <2> QED BY <1>1, <1>3, <2>1 DEF ClaimInv, StageInv
<1>10. ImportDevInv'
  BY <1>1, <1>3, <1>4 DEF ImportDevInv
<1>11. CleanDevInv'
  <2> SUFFICES ASSUME pc[Cleaner] \in Scanning \ {"scan"} PROVE CleanDevInv'
    BY <1>3 DEF CleanDevInv
  <2>1. cur \in Conns /\ conn[cur].state = "CLOSING"
    BY DEF ListInv, IInv, CleanInv, Teardown, Stopped
  <2>2. conn[cur].dev \in Devices /\ conn[cur].dev # req.dev
    BY <1>2, <2>1, ConnAssumption DEF StageInv, CleanDevInv, Conns
  <2> QED BY <1>1, <1>3, <1>4, <2>2 DEF CleanDevInv
<1> QED BY <1>5, <1>6, <1>7, <1>8, <1>9, <1>10, <1>11

(* The entry is there and stays as it is.                                   *)
LEMMA BusyOwn ==
  ASSUME IInv, OwnTypes, OwnParts, MainBusy
  PROVE  OwnTypes' /\ OwnParts'
<1>1. /\ pc[Main] = "busy" /\ UNCHANGED <<conn, list, held, exported, req, cur, nxt>>
      /\ Step(Main, "busy", "init") /\ Registry!SetBusy(req.dev)
  BY DEF MainBusy, Step, manager, locals
<1>2. registry[req.dev] # None
  BY <1>1, ConnAssumption DEF OwnParts, ImportDevInv, StageInv, Taken, Importing, Early, Conns
<1>3. registry' = registry
  BY <1>1, <1>2 DEF Registry!SetBusy, Registry!CanBind, Registry!Available
<1> QED BY <1>1, <1>3, MovedStays, TurnOwn

(* usbip_connection_start gives the connection its device.                  *)
LEMMA StartInitOwn ==
  ASSUME IInv, OwnTypes, OwnParts, StartInit
  PROVE  OwnTypes' /\ OwnParts'
<1> USE DEF OwnParts, Made, Taken, Replies, Leaving, Early, Importing, Scanning, Holding
<1> DEFINE a == req.conn
<1>1. /\ UNCHANGED <<list, held, registry, exported, req, cur, nxt>>
      /\ pc[Main] = "init" /\ pc'[Main] = "procCreate" /\ pc'[Cleaner] = pc[Cleaner]
  BY MainPlace DEF StartInit, manager, devices, locals
<1>2. a \in Conns /\ req.dev \in Devices /\ conn[a].state = "INIT" /\ Live(a)
      /\ registry[req.dev] = a /\ exported[req.dev] /\ conn[a].dev = None
  BY <1>1 DEF StageInv, ImportDevInv
<1>3. /\ conn'[a].dev = req.dev /\ conn'[a].state = "INIT" /\ conn'[a].mem = conn[a].mem
      /\ \A c \in Conns : c # a => conn'[c] = conn[c]
  BY <1>2 DEF StartInit, IInv, Flags
<1>4. /\ \A c \in Conns : (InList(c)' <=> InList(c)) /\ (Live(c)' <=> Live(c))
      /\ InList(cur)' <=> InList(cur)
      /\ InList(req.conn)' <=> InList(req.conn)
  BY <1>1, <1>2, <1>3 DEF InList, Live
<1> HIDE DEF a
<1>5. OwnTypes'
  BY <1>1 DEF OwnTypes
<1>6. ListInv'
  BY <1>1, <1>4 DEF ListInv
<1>7. StageInv'
  BY <1>1, <1>2, <1>3, <1>4 DEF StageInv, a
<1>8. OwnerInv'
  <2>1. \A d \in Devices : registry[d] # None => registry[d] \in Conns
    BY DEF OwnTypes
  <2>2. \A d \in Devices : registry[d] = a => d = req.dev
    BY <1>2, ConnAssumption DEF OwnerInv, Conns
  <2> QED BY <1>1, <1>2, <1>3, <1>4, <2>1, <2>2 DEF OwnerInv, a
<1>9. ClaimInv'
  BY <1>1, <1>2, <1>3 DEF ClaimInv
<1>10. ImportDevInv'
  BY <1>1, <1>2 DEF ImportDevInv, a
<1>11. CleanDevInv'
  <2>1. pc[Cleaner] \in Scanning \ {"scan"} => cur \in Conns /\ cur # a
    BY <1>2 DEF ListInv, IInv, CleanInv, Teardown, Stopped
  <2> QED BY <1>1, <1>3, <2>1 DEF CleanDevInv
<1> QED BY <1>5, <1>6, <1>7, <1>8, <1>9, <1>10, <1>11

(* The connection is ACTIVE: it owns its device.                            *)
LEMMA StartActiveOwn ==
  ASSUME IInv, OwnTypes, OwnParts, StartActive
  PROVE  OwnTypes' /\ OwnParts'
<1> USE DEF OwnParts, Made, Taken, Replies, Leaving, Early, Importing, Scanning, Holding
<1> DEFINE a == req.conn
<1>1. /\ UNCHANGED <<list, held, registry, exported, req, cur, nxt>>
      /\ pc[Main] = "active" /\ pc'[Main] = "replyOk" /\ pc'[Cleaner] = pc[Cleaner]
  BY MainPlace DEF StartActive, StartSet, manager, devices, locals
<1>2. a \in Conns /\ req.dev \in Devices /\ conn[a].state = "INIT" /\ Live(a)
      /\ registry[req.dev] = a /\ exported[req.dev] /\ conn[a].dev = req.dev
  BY <1>1 DEF StageInv, ImportDevInv
<1>3. /\ conn'[a].dev = req.dev /\ conn'[a].state = "ACTIVE" /\ conn'[a].mem = conn[a].mem
      /\ \A c \in Conns : c # a => conn'[c] = conn[c]
  BY <1>2 DEF StartActive, StartSet, Set, IInv, Flags
<1>4. /\ \A c \in Conns : (InList(c)' <=> InList(c)) /\ (Live(c)' <=> Live(c))
      /\ InList(cur)' <=> InList(cur)
      /\ InList(req.conn)' <=> InList(req.conn)
  BY <1>1, <1>2, <1>3 DEF InList, Live
<1> HIDE DEF a
<1>5. OwnTypes'
  BY <1>1 DEF OwnTypes
<1>6. ListInv'
  BY <1>1, <1>4 DEF ListInv
<1>7. StageInv'
  BY <1>1, <1>2, <1>3, <1>4 DEF StageInv, a
<1>8. OwnerInv'
  <2>1. \A d \in Devices : registry[d] # None => registry[d] \in Conns
    BY DEF OwnTypes
  <2> QED BY <1>1, <1>2, <1>3, <1>4, <2>1 DEF OwnerInv
<1>9. ClaimInv'
  BY <1>1, <1>2, <1>3 DEF ClaimInv
<1>10. ImportDevInv'
  BY <1>1, <1>2 DEF ImportDevInv, a
<1>11. CleanDevInv'
  <2>1. pc[Cleaner] \in Scanning \ {"scan"} => cur \in Conns /\ cur # a
    BY <1>2 DEF ListInv, IInv, CleanInv, Teardown, Stopped
  <2> QED BY <1>1, <1>3, <2>1 DEF CleanDevInv
<1> QED BY <1>5, <1>6, <1>7, <1>8, <1>9, <1>10, <1>11

(* Main takes the device from the connection: it is nobody else's.          *)
LEMMA UnexportOwn ==
  ASSUME IInv, OwnTypes, OwnParts, MainUnexport
  PROVE  OwnTypes' /\ OwnParts'
<1> USE DEF OwnParts, Made, Taken, Replies, Leaving, Early, Importing, Scanning, Holding
<1>1. /\ pc[Main] = "unexport" /\ UNCHANGED <<conn, list, held, registry, req, cur, nxt>>
      /\ exported' = [exported EXCEPT ![req.dev] = FALSE]
  BY DEF MainUnexport, Step, manager, locals
<1>2. req.dev \in Devices /\ req.conn \in Conns /\ registry[req.dev] \in {None, req.conn}
  BY <1>1 DEF StageInv, ImportDevInv
<1>3. MainMoved("unexport", "available") /\ pc'[Main] = "available"
      /\ pc'[Cleaner] = pc[Cleaner]
  BY <1>1, MovedStays DEF MainUnexport, MainMoved
<1>4. ~exported'[req.dev] /\ \A d \in Devices : d # req.dev => exported'[d] = exported[d]
  BY <1>1, <1>2 DEF OwnTypes
<1>5. OwnTypes'
  BY <1>1 DEF OwnTypes
<1>6. ListInv'
  BY <1>1, <1>3, MovedFacts DEF ListInv
<1>7. StageInv'
  BY <1>1, <1>3, MovedFacts DEF StageInv
<1>8. OwnerInv'
  <2>1. \A d \in Devices : exported'[d] => exported[d]
    BY <1>4
  <2> QED BY <1>1, <1>3, <2>1, MovedFacts DEF OwnerInv, OwnTypes
<1>9. ClaimInv'
  <2>1. ASSUME NEW c \in Conns, conn[c].state \in {"ACTIVE", "CLOSING"}, c # req.conn,
               conn[c].dev = req.dev
        PROVE  pc[Cleaner] \in {"unbind", "closed"} /\ cur = c
    BY <1>1, <1>2, <2>1, ConnAssumption DEF ClaimInv, Conns
  <2>2. \A c \in Conns : conn[c].state # "INIT" => conn[c].dev \in Devices
    BY DEF StageInv
  <2> QED BY <1>1, <1>3, <1>4, <2>1, <2>2 DEF ClaimInv
<1>10. ImportDevInv'
  BY <1>1, <1>2, <1>3, <1>4 DEF ImportDevInv
<1>11. CleanDevInv'
  <2>1. pc[Cleaner] \in Scanning \ {"scan"} => conn[cur].dev \in Devices
    BY DEF ListInv, IInv, CleanInv, Teardown, Stopped, StageInv
  <2> QED BY <1>1, <1>3, <1>4, <2>1 DEF CleanDevInv
<1> QED BY <1>5, <1>6, <1>7, <1>8, <1>9, <1>10, <1>11

LEMMA ReleaseOwn ==
  ASSUME IInv, OwnTypes, OwnParts, MainRelease
  PROVE  OwnTypes' /\ OwnParts'
<1> USE DEF OwnParts, Made, Taken, Replies, Leaving, Early, Importing, Scanning, Holding
<1> DEFINE a == pc[Main]
           b == pc'[Main]
<1>1. /\ UNCHANGED <<conn, list, held, exported, req, cur, nxt>>
      /\ registry' = [registry EXCEPT ![req.dev] = None]
  BY DEF MainRelease, manager, locals, Registry!Release
<1>2. MainMoved("available", "unbind") \/ MainMoved("unbind", "remove")
  BY <1>1, MovedStays DEF MainRelease
<1>3. /\ (a = "available" /\ b = "unbind") \/ (a = "unbind" /\ b = "remove")
      /\ pc'[Cleaner] = pc[Cleaner] /\ MainMoved(a, b)
  BY <1>2 DEF MainMoved
<1> HIDE DEF a, b
<1>4. req.dev \in Devices /\ req.conn \in Conns /\ registry[req.dev] \in {None, req.conn}
      /\ ~exported[req.dev]
  BY <1>3 DEF StageInv, ImportDevInv, a
<1>5. registry'[req.dev] = None
      /\ \A d \in Devices : d # req.dev => registry'[d] = registry[d]
  BY <1>1, <1>4 DEF OwnTypes
<1>6. OwnTypes'
  BY <1>1 DEF OwnTypes
<1>7. ListInv'
  BY <1>1, <1>3, MovedFacts DEF ListInv, a, b
<1>8. StageInv'
  BY <1>1, <1>3, MovedFacts DEF StageInv, a, b
<1>9. OwnerInv'
  <2>1. \A d \in Devices : registry'[d] # None =>
          d # req.dev /\ registry'[d] = registry[d] /\ registry[d] \in Conns
    BY <1>5 DEF OwnTypes
  <2>2. \A d \in Devices : exported'[d] => registry'[d] # None
    BY <1>1, <1>4, <1>5 DEF OwnerInv
  <2> QED BY <1>1, <1>3, <2>1, <2>2, MovedFacts DEF OwnerInv, a, b
<1>10. ClaimInv'
  <2>1. ASSUME NEW c \in Conns, conn[c].state \in {"ACTIVE", "CLOSING"}, c # req.conn,
               conn[c].dev = req.dev
        PROVE  pc[Cleaner] \in {"unbind", "closed"} /\ cur = c
    BY <1>3, <1>4, <2>1, ConnAssumption DEF ClaimInv, Conns, a
  <2>2. \A c \in Conns : conn[c].state # "INIT" => conn[c].dev \in Devices
    BY DEF StageInv
  <2> QED BY <1>1, <1>3, <1>5, <2>1, <2>2 DEF ClaimInv, a, b
<1>11. ImportDevInv'
  BY <1>1, <1>3, <1>4, <1>5 DEF ImportDevInv, a, b
<1>12. CleanDevInv'
  <2>1. pc[Cleaner] \in Scanning \ {"scan"} => conn[cur].dev \in Devices
    BY DEF ListInv, IInv, CleanInv, Teardown, Stopped, StageInv
  <2> QED BY <1>1, <1>3, <1>5, <2>1 DEF CleanDevInv, a, b
<1> QED BY <1>6, <1>7, <1>8, <1>9, <1>10, <1>11, <1>12

(* The connection leaves the list and is freed.                             *)
LEMMA RemoveOwn ==
  ASSUME IInv, OwnTypes, OwnParts, MainRemove
  PROVE  OwnTypes' /\ OwnParts'
<1> USE DEF OwnParts, Made, Taken, Replies, Leaving, Early, Importing, Scanning, Holding
<1> DEFINE a == req.conn
<1>1. /\ UNCHANGED <<conn, held, registry, exported, req, cur, nxt>> /\ ~held
      /\ pc[Main] = "remove" /\ pc'[Main] = "free" /\ pc'[Cleaner] = pc[Cleaner]
      /\ Live(a) /\ Unlink(a)
  BY MainPlace DEF MainRemove, devices, locals
<1>2. a \in Conns /\ conn[a].dev = req.dev /\ registry[req.dev] = None
      /\ pc[Cleaner] \notin Holding
  BY <1>1 DEF StageInv, ImportDevInv, ListInv
<1>3. /\ list' \in Seq(Conns) /\ Len(list') <= Len(list)
      /\ \A i, j \in 1 .. Len(list') : list'[i] = list'[j] => i = j
      /\ \A c : InList(c)' <=> InList(c) /\ c # a
  BY <1>1, UnlinkFacts
<1>4. \A c \in Conns : Live(c)' <=> Live(c)
  BY <1>1 DEF Live
<1>5. Len(list) \in Nat /\ Len(list') \in Nat
  BY <1>3, LenProperties DEF OwnTypes
<1>6. (InList(cur)' <=> InList(cur) /\ cur # a) /\ (InList(req.conn)' <=> FALSE)
  BY <1>1, <1>3 DEF InList
<1> HIDE DEF a
<1>7. OwnTypes'
  BY <1>1, <1>3, <1>5, ConnAssumption DEF OwnTypes
<1>8. ListInv'
  BY <1>1, <1>2, <1>3, <1>4, <1>6 DEF ListInv
<1>9. StageInv'
  BY <1>1, <1>4 DEF StageInv
<1>10. OwnerInv'
  <2>1. \A d \in Devices : registry[d] # None => registry[d] \in Conns /\ registry[d] # a
    BY <1>1, <1>2 DEF OwnerInv, OwnTypes
  <2> QED BY <1>1, <1>3, <1>4, <2>1 DEF OwnerInv
<1>11. ClaimInv'
  BY <1>1 DEF ClaimInv
<1>12. ImportDevInv'
  BY <1>1 DEF ImportDevInv
<1>13. CleanDevInv'
  BY <1>1, <1>2 DEF CleanDevInv
<1> QED BY <1>7, <1>8, <1>9, <1>10, <1>11, <1>12, <1>13

LEMMA FreeOwn ==
  ASSUME IInv, OwnTypes, OwnParts, MainFree
  PROVE  OwnTypes' /\ OwnParts'
<1> USE DEF OwnParts, Made, Taken, Replies, Leaving, Early, Importing, Scanning, Holding
<1> DEFINE a == req.conn
<1>1. /\ UNCHANGED <<list, held, registry, exported, req, cur, nxt>> /\ Live(a)
      /\ pc[Main] = "free" /\ pc'[Main] = "close" /\ pc'[Cleaner] = pc[Cleaner]
      /\ conn' = [conn EXCEPT ![a] = Freed]
  BY MainPlace DEF MainFree, manager, devices, locals
<1>2. a \in Conns /\ ~InList(a) /\ conn[a].dev = req.dev /\ registry[req.dev] = None
  BY <1>1 DEF ListInv, StageInv, ImportDevInv
<1>3. /\ conn'[a].state = "INIT" /\ conn'[a].mem = "freed"
      /\ \A c \in Conns : c # a => conn'[c] = conn[c]
  BY <1>1, <1>2, BlankFacts DEF IInv
<1>4. /\ \A c \in Conns : (InList(c)' <=> InList(c)) /\ (Live(c)' <=> Live(c) /\ c # a)
      /\ InList(cur)' <=> InList(cur)
  BY <1>1, <1>3 DEF InList, Live
<1> HIDE DEF a
<1>5. OwnTypes'
  BY <1>1 DEF OwnTypes
<1>6. ListInv'
  BY <1>1, <1>2, <1>4 DEF ListInv
<1>7. StageInv'
  BY <1>1, <1>2, <1>3, <1>4 DEF StageInv, a
<1>8. OwnerInv'
  <2>1. \A d \in Devices : registry[d] # None => registry[d] \in Conns /\ registry[d] # a
    BY <1>1, <1>2 DEF OwnerInv, OwnTypes
  <2> QED BY <1>1, <1>3, <1>4, <2>1 DEF OwnerInv
<1>9. ClaimInv'
  BY <1>1, <1>3 DEF ClaimInv, a
<1>10. ImportDevInv'
  BY <1>1 DEF ImportDevInv
<1>11. CleanDevInv'
  <2>1. pc[Cleaner] \in Scanning => cur \in Conns /\ cur # a
    BY <1>2 DEF ListInv
  <2> QED BY <1>1, <1>3, <2>1 DEF CleanDevInv
<1> QED BY <1>5, <1>6, <1>7, <1>8, <1>9, <1>10, <1>11

(* The last step of the server clears the list; Cleaner is gone.            *)
LEMMA JoinOwn ==
  ASSUME IInv, OwnTypes, OwnParts, MainJoin
  PROVE  OwnTypes' /\ OwnParts'
<1> USE DEF OwnParts, Made, Taken, Replies, Leaving, Early, Importing, Scanning, Holding
<1>1. /\ UNCHANGED <<conn, held, registry, exported, req, cur, nxt>> /\ list' = <<>>
      /\ pc[Main] = "joinCleaner" /\ pc'[Main] = "done"
      /\ pc[Cleaner] = "done" /\ pc'[Cleaner] = "done"
  BY MainPlace DEF MainJoin, devices, locals
<1>2. \A c : ~InList(c)'
  BY <1>1 DEF InList
<1>3. \A c \in Conns : Live(c)' <=> Live(c)
  BY <1>1 DEF Live
<1>4. OwnTypes'
  BY <1>1, ConnAssumption DEF OwnTypes
<1>5. ListInv'
  BY <1>1, <1>2 DEF ListInv
<1>6. StageInv'
  BY <1>1, <1>3 DEF StageInv
<1>7. OwnerInv'
  BY <1>1, <1>3 DEF OwnerInv, OwnTypes
<1>8. ClaimInv'
  BY <1>1 DEF ClaimInv
<1>9. ImportDevInv'
  BY <1>1 DEF ImportDevInv
<1>10. CleanDevInv'
  BY <1>1 DEF CleanDevInv
<1> QED BY <1>4, <1>5, <1>6, <1>7, <1>8, <1>9, <1>10

(* The rest of what Main does leaves the ownership alone.                   *)
LEMMA MainRest ==
  ASSUME IInv, OwnTypes, OwnParts,
         \/ MainAccept \/ MainOther \/ StartProc \/ StartProcStarted \/ StartRx
         \/ StartRxStarted \/ StartFailQueue \/ StartFailJoin
         \/ MainClose \/ MainCollect \/ MainHalt
  PROVE  OwnTypes' /\ OwnParts'
<1> USE DEF Step, manager, devices, locals, Refuse, ImportDone
<1>1. conn \in [Conns -> Flags] /\ pc \in [Threads -> Places]
  BY DEF IInv
<1>2. /\ UNCHANGED <<list, held, registry, exported, cur, nxt>>
      /\ \A c \in Conns : Alike(c)
      /\ MainCalm /\ pc'[Cleaner] = pc[Cleaner]
  <2> USE DEF MainCalm, Made, Taken, Replies, Leaving, Early, Importing
  <2>1. CASE MainAccept \/ MainOther \/ MainClose \/ MainCollect \/ MainHalt
    <3>1. /\ UNCHANGED <<conn, list, held, registry, exported, cur, nxt>>
          /\ \E b \in {"op", "accept", "collect", "halt", "mark", "haltPost", "joinCleaner"} :
               pc' = [pc EXCEPT ![Main] = b]
          /\ pc[Main] \in {"accept", "op", "close", "collect", "halt", "haltPost"}
      BY <2>1 DEF MainAccept, MainOther, MainClose, MainCollect, MainHalt
    <3> QED BY <1>1, <3>1, ThreadFacts DEF Alike
  <2>2. CASE StartProc \/ StartRx
    <3>1. req.conn \in Conns
      BY <2>2 DEF StartProc, StartRx, Create, OwnParts, StageInv
    <3>2. /\ UNCHANGED <<conn, list, held, registry, exported, cur, nxt, req>>
          /\ pc[Main] \in {"procCreate", "rxCreate"}
          /\ \E b \in {"procStarted", "failDestroy", "rxStarted", "failQueue"} :
               \/ pc' = [pc EXCEPT ![Main] = b]
               \/ pc' = [pc EXCEPT ![Main] = b, ![Proc(req.conn)] = "loop"]
               \/ pc' = [pc EXCEPT ![Main] = b, ![Rx(req.conn)] = "loop"]
      BY <2>2 DEF StartProc, StartRx, Create
    <3> QED BY <1>1, <3>1, <3>2, ThreadFacts DEF Alike
  <2>3. CASE StartProcStarted \/ StartRxStarted \/ StartFailQueue \/ StartFailJoin
    <3>1. /\ UNCHANGED <<list, held, registry, exported, cur, nxt, req>>
          /\ pc[Main] \in Made /\ \E b \in Made : pc' = [pc EXCEPT ![Main] = b]
      BY <2>3 DEF StartProcStarted, StartRxStarted, StartFailQueue, StartFailJoin, StartSet
    <3>2. ASSUME NEW c \in Conns PROVE Alike(c)
      BY <1>1, <2>3 DEF StartProcStarted, StartRxStarted, StartFailQueue, StartFailJoin,
                        StartSet, Set, Alike, Flags
    <3> QED BY <1>1, <3>1, <3>2, ThreadFacts
  <2> QED BY <2>1, <2>2, <2>3
<1> QED BY <1>2, CalmInv

LEMMA MainOwn ==
  ASSUME IInv, OwnTypes, OwnParts, MainThread \/ ClientAsks
  PROVE  OwnTypes' /\ OwnParts'
<1>1. CASE StartFailDestroy
  <2>1. Step(Main, "failDestroy", "unexport") /\ UNCHANGED <<ctx, manager, devices, locals>>
    BY <1>1 DEF StartFailDestroy
  <2>2. ASSUME NEW c \in Conns PROVE Alike(c)
    BY <1>1 DEF StartFailDestroy, Alike, IInv, Flags
  <2>3. MainMoved("failDestroy", "unexport") /\ UNCHANGED <<registry, exported, req>>
    BY <2>1, <2>2, MainPlace DEF MainMoved, manager, devices, locals
  <2> QED BY <2>3, TurnOwn
<1>2. CASE MainReply
  <2> USE DEF manager, devices, locals, ImportDone
  <2>1. UNCHANGED <<conn, list, held, registry, exported, cur, nxt>>
    BY <1>2 DEF MainReply
  <2>2. CASE \/ Step(Main, "replyOk", "replyDev") /\ req' = req
             \/ Step(Main, "replyDev", "accept")
    <3>1. \/ MainMoved("replyOk", "replyDev") /\ req' = req
          \/ MainMoved("replyDev", "accept")
      BY <2>1, <2>2, MovedStays
    <3>2. MainCalm
      BY <3>1 DEF MainMoved, MainCalm, Made, Taken, Replies, Leaving, Early, Importing
    <3> QED BY <2>1, <3>1, <3>2, CalmInv DEF MainMoved
  <2>3. CASE Step(Main, "replyOk", "unexport") /\ req' = req
    BY <2>1, <2>3, MovedStays, TurnOwn DEF Replies
  <2>4. CASE Step(Main, "replyDev", "unexport") /\ req' = req
    BY <2>1, <2>4, MovedStays, TurnOwn DEF Replies
  <2> QED BY <1>2, <2>2, <2>3, <2>4 DEF MainReply
<1>3. CASE MainBind
  <2>1. pc[Main] = "bind"
    BY <1>3 DEF MainBind
  <2> QED BY <1>3, <2>1, BindOwn
<1>4. CASE StartConn
  BY <1>1, <1>4, MainRest, StartInitOwn, StartActiveOwn DEF StartConn
<1>5. CASE ImportFailed
  BY <1>5, MainRest, UnexportOwn, ReleaseOwn, RemoveOwn, FreeOwn DEF ImportFailed
<1>6. CASE MainShutdown
  BY <1>6, MainRest, JoinOwn DEF MainShutdown
<1>7. CASE ClientAsks
  BY <1>7, MainRest, ImportOwn DEF ClientAsks
<1> QED BY <1>2, <1>3, <1>4, <1>5, <1>6, <1>7, MainRest, LimitOwn, AddOwn, ExportOwn,
           BusyOwn DEF MainThread

-----------------------------------------------------------------------------
(* Every step.                                                              *)

(* After an access to freed memory nothing happens any more.                *)
LEMMA Halted ==
  ASSUME IInv, fault # None, \A t \in Threads : pc[t] = "crashed", [Next]_vars
  PROVE  UNCHANGED vars
<1> SUFFICES ASSUME Next PROVE FALSE
  OBVIOUS
<1> USE DEF Step
<1>1. pc[Main] = "crashed" /\ pc[Cleaner] = "crashed"
      /\ \A c \in Conns : pc[Rx(c)] = "crashed" /\ pc[Proc(c)] = "crashed"
  BY ThreadFacts
<1>2. CASE MainThread \/ ClientAsks
  <2>1. CASE MainAccept \/ MainLimit \/ MainAdd \/ MainBind \/ MainExport \/ MainBusy
             \/ MainReply \/ ClientAsks
    BY <1>1, <2>1 DEF MainAccept, MainLimit, MainAdd, MainBind, MainExport, MainBusy,
                      MainReply, ClientAsks, MainOther, MainImport
  <2>2. CASE StartConn
    BY <1>1, <2>2 DEF StartConn, StartInit, StartProc, StartRx, Create, StartProcStarted,
                      StartRxStarted, StartActive, StartSet, StartFailQueue,
                      StartFailJoin, StartFailDestroy
  <2>3. CASE ImportFailed \/ MainShutdown
    BY <1>1, <2>3 DEF ImportFailed, MainUnexport, MainRelease, MainRemove, MainFree,
                      MainClose, MainShutdown, MainCollect, MainHalt, MainJoin
  <2> QED BY <1>2, <2>1, <2>2, <2>3 DEF MainThread
<1>3. CASE CleanerThread
  BY <1>1, <1>3 DEF CleanerThread, CleanCheck, CleanWait, CleanLock, CleanScan,
                    CleanDestroyQueue, CleanUnexport, CleanRelease, CleanClosed,
                    CleanReap, CleanRemove, CleanFree, CleanRelock
<1>4. CASE SigStop
  BY <1>4 DEF SigStop
<1>5. ASSUME NEW c \in Conns, RxThread(c) \/ ProcThread(c) \/ RxHears(c) PROVE FALSE
  BY <1>1, <1>5 DEF RxThread, RxHears, RxLoop, RxRecv, RxShut, RxPush, RxExit, RxExitPost,
                    ProcThread, ProcLoop, ProcPop, ProcHandle, ProcSend, ProcExit,
                    ProcClear, ProcExitPost, ProcLog
<1>6. ASSUME NEW t \in Callers, Stop(t) PROVE FALSE
  <2>1. pc[t] \in StopPlaces /\ t \in Threads
    BY <1>6, StopEffect DEF Callers, Threads
  <2> QED BY <2>1 DEF StopPlaces
<1>7. ASSUME NEW t \in Threads, Fault(t) PROVE FALSE
  <2>1. pc[t] = "crashed" /\ \E o : o \in Gone(t)
    BY <1>7 DEF Fault
  <2>2. ~TouchesConn(t) /\ ~TouchesQueue(t) /\ ~TouchesCtx(t) /\ ~TouchesSem(t)
    BY <2>1 DEF TouchesConn, TouchesQueue, TouchesCtx, TouchesSem
  <2> QED BY <2>1, <2>2 DEF Gone
<1> QED BY <1>2, <1>3, <1>4, <1>5, <1>6, <1>7 DEF Next

(* What a Fault leaves behind.                                              *)
LEMMA FaultLeaves ==
  ASSUME IInv, NEW t \in Threads, Fault(t)
  PROVE  /\ fault' \in Faults /\ fault' # None
         /\ \A s \in Threads : pc'[s] = "crashed"
         /\ UNCHANGED <<conn, ctx, manager, devices, req, cur, nxt>>
<1>1. PICK o \in Gone(t) : fault' = [object |-> o, thread |-> t[1], at |-> pc[t]]
  BY DEF Fault
<1>2. o \in {"conn", "queue", "ctx", "sem"} /\ pc[t] \in Places
  BY DEF Gone, IInv
<1>3. t[1] \in {"main", "cleaner", "rx", "proc"}
  BY DEF Threads, Workers, Main, Cleaner
<1>4. fault' \in Faults /\ fault' # None
  BY <1>1, <1>2, <1>3, ConnAssumption DEF Faults
<1> QED BY <1>4 DEF Fault

LEMMA OwnInit == Init => OInv
<1> SUFFICES ASSUME Init PROVE OInv
  OBVIOUS
<1>1. IInv
  BY InitInv
<1>2. /\ list = <<>> /\ ~held /\ cur = None /\ nxt = None /\ fault = None
      /\ req = [conn |-> None, dev |-> None]
      /\ pc[Main] = "accept" /\ pc[Cleaner] = "check"
      /\ \A d \in Devices : registry[d] = None /\ ~exported[d]
      /\ \A c \in Conns : conn[c].mem = "none" /\ conn[c].state = "INIT"
  BY ThreadFacts, BlankFacts DEF Init
<1>3. OwnTypes
  BY <1>2, ConnAssumption DEF Init, OwnTypes
<1> USE DEF Made, Taken, Replies, Leaving, Early, Importing, Scanning, Holding
<1>4. ListInv
  BY <1>2 DEF ListInv, InList
<1>5. StageInv
  BY <1>2 DEF StageInv, Live
<1>6. OwnerInv /\ ClaimInv /\ ImportDevInv /\ CleanDevInv
  BY <1>2 DEF OwnerInv, ClaimInv, ImportDevInv, CleanDevInv
<1> QED BY <1>1, <1>2, <1>3, <1>4, <1>5, <1>6 DEF OInv, OwnParts

LEMMA OwnNext == OInv /\ [Next]_vars => OInv'
<1> SUFFICES ASSUME OInv, [Next]_vars PROVE OInv'
  OBVIOUS
<1>1. IInv /\ IInv'
  BY NextInv DEF OInv
<1>2. CASE UNCHANGED vars
  <2>1. UNCHANGED <<conn, list, held, registry, exported, pc, req, cur, nxt, fault>>
    BY <1>2 DEF vars
  <2>2. OwnTypes'
    BY <2>1 DEF OInv, OwnTypes
  <2>3. (\A c : InList(c)' <=> InList(c)) /\ \A c : Live(c)' <=> Live(c)
    BY <2>1 DEF InList, Live
  <2>4. OwnParts => OwnParts'
    <3>1. InList(cur)' <=> InList(cur)
      BY <2>1 DEF InList
    <3>2. InList(req.conn)' <=> InList(req.conn)
      BY <2>1 DEF InList
    <3>3. Live(req.conn)' <=> Live(req.conn)
      BY <2>1 DEF Live
    <3>4. ListInv => ListInv'
      BY <2>1, <2>3, <3>1, <3>2 DEF ListInv
    <3>5. StageInv => StageInv'
      BY <2>1, <2>3, <3>3 DEF StageInv
    <3>6. OwnerInv => OwnerInv'
      BY <2>1 DEF OwnerInv, Live, InList
    <3>7. (ClaimInv => ClaimInv') /\ (ImportDevInv => ImportDevInv')
          /\ (CleanDevInv => CleanDevInv')
      BY <2>1 DEF ClaimInv, ImportDevInv, CleanDevInv
    <3> QED BY <3>4, <3>5, <3>6, <3>7 DEF OwnParts
  <2> QED BY <1>1, <2>1, <2>2, <2>4 DEF OInv
<1>3. CASE fault # None
  BY <1>1, <1>2, <1>3, Halted DEF OInv
<1>4. CASE \E t \in Threads : Fault(t)
  <2>1. PICK t \in Threads : Fault(t)
    BY <1>4
  <2>2. /\ fault' # None /\ \A s \in Threads : pc'[s] = "crashed"
        /\ UNCHANGED <<list, registry, exported, cur, nxt>>
    BY <1>1, <2>1, FaultLeaves DEF manager, devices
  <2>3. OwnTypes'
    BY <2>2 DEF OInv, OwnTypes
  <2> QED BY <1>1, <2>2, <2>3 DEF OInv
<1>5. ASSUME fault = None, OwnTypes' /\ OwnParts', fault' = fault PROVE OInv'
  BY <1>1, <1>5 DEF OInv
<1>6. CASE fault = None /\ (MainThread \/ ClientAsks)
  <2>1. fault' = fault
    BY <1>6 DEF MainThread, ClientAsks, MainAccept, MainLimit, MainAdd, MainBind, MainExport,
                MainBusy, MainReply, MainOther, MainImport, Refuse, StartConn, StartInit,
                StartProc, StartRx, Create, StartProcStarted, StartRxStarted, StartActive,
                StartSet, StartFailQueue, StartFailJoin, StartFailDestroy, ImportFailed,
                MainUnexport, MainRelease, MainRemove, MainFree, MainClose, ImportDone,
                MainShutdown, MainCollect, MainHalt, MainJoin, locals
  <2> QED BY <1>1, <1>5, <1>6, <2>1, MainOwn DEF OInv
<1>7. CASE fault = None /\ CleanerThread
  <2>1. fault' = fault
    BY <1>7 DEF CleanerThread, CleanCheck, CleanWait, CleanLock, CleanScan,
                CleanDestroyQueue, CleanUnexport, CleanRelease, CleanClosed,
                CleanReap, CleanRemove, CleanFree, CleanRelock, Walk, locals
  <2> QED BY <1>1, <1>5, <1>7, <2>1, CleanerOwn DEF OInv
<1>8. CASE fault = None /\ SigStop
  <2>1. /\ UNCHANGED <<conn, list, held, registry, exported, pc, req, cur, nxt, fault>>
    BY <1>8 DEF SigStop, devices, locals
  <2>2. MainCalm /\ \A c \in Conns : Alike(c)
    BY <2>1 DEF MainCalm, Alike
  <2> QED BY <1>5, <1>8, <2>1, <2>2, CalmInv DEF OInv
<1>9. ASSUME fault = None, NEW c \in Conns, RxThread(c) \/ ProcThread(c) \/ RxHears(c)
      PROVE  OInv'
  <2>1. /\ \A d \in Conns : Alike(d)
        /\ UNCHANGED <<list, held, registry, exported, req, cur, nxt, fault>>
        /\ pc'[Main] = pc[Main] /\ pc'[Cleaner] = pc[Cleaner]
    BY <1>1, <1>9, WorkerCalm
  <2>2. MainCalm
    BY <2>1 DEF MainCalm
  <2> QED BY <1>5, <1>9, <2>1, <2>2, CalmInv DEF OInv
<1>10. ASSUME fault = None, NEW t \in Callers, Stop(t) PROVE OInv'
  <2>1. /\ \A d \in Conns : Alike(d)
        /\ MainCalm /\ pc'[Cleaner] = pc[Cleaner]
        /\ UNCHANGED <<list, held, registry, exported, cur, nxt, fault>>
    BY <1>1, <1>10, StopCalm
  <2> QED BY <1>5, <1>10, <2>1, CalmInv DEF OInv
<1> QED BY <1>2, <1>3, <1>4, <1>6, <1>7, <1>8, <1>9, <1>10 DEF Next

LEMMA OwnAlways == Spec => []OInv
BY OwnInit, OwnNext, PTL DEF Spec

-----------------------------------------------------------------------------
(* The theorems.                                                            *)

(* The steps that change the registry.                                      *)
LEMMA RegistrySteps ==
  ASSUME IInv, Next, registry' # registry
  PROVE  MainBind \/ MainBusy \/ MainRelease \/ CleanRelease
<1>1. ASSUME NEW c \in Conns, RxThread(c) \/ ProcThread(c) \/ RxHears(c) PROVE FALSE
  BY <1>1, WorkerCalm
<1>2. ASSUME NEW t \in Callers, Stop(t) PROVE FALSE
  BY <1>2, StopCalm
<1>3. ASSUME NEW t \in Threads, Fault(t) PROVE FALSE
  BY <1>3, FaultLeaves DEF devices
<1>4. ~SigStop
  BY DEF SigStop, devices
<1>5. CASE MainThread \/ ClientAsks
  BY <1>5 DEF MainThread, ClientAsks, MainAccept, MainLimit, MainAdd, MainExport,
              MainReply, MainOther, MainImport, Refuse, StartConn, StartInit,
              StartProc, StartRx, Create, StartProcStarted, StartRxStarted, StartActive,
              StartSet, StartFailQueue, StartFailJoin, StartFailDestroy, ImportFailed,
              MainUnexport, MainRemove, MainFree, MainClose,
              MainShutdown, MainCollect, MainHalt, MainJoin, devices
<1>6. CASE CleanerThread
  BY <1>6 DEF CleanerThread, CleanCheck, CleanWait, CleanLock, CleanScan,
              CleanDestroyQueue, CleanUnexport, CleanClosed,
              CleanReap, CleanRemove, CleanFree, CleanRelock, devices
<1> QED BY <1>1, <1>2, <1>3, <1>4, <1>5, <1>6 DEF Next

(* The device of a connection is taken away only by ConnCleanup while it    *)
(* takes that connection apart, or by the server while it takes that import *)
(* back (usbip_conn.c:272-273, usbip_server.c:310-331): the second release  *)
(* of a device never hits the import that came in between.                  *)
THEOREM OwnDeviceReleased == Spec => OnlyOwnDeviceReleased
<1> DEFINE A == \A d \in Devices : registry[d] \in Conns /\ registry'[d] # registry[d] =>
                  \/ pc[Cleaner] \in {"available", "unbind"} /\ cur = registry[d]
                  \/ pc[Main] \in {"available", "unbind"} /\ req.conn = registry[d]
<1>1. OInv /\ [Next]_vars => [A]_vars
  <2> SUFFICES ASSUME OInv, [Next]_vars, registry' # registry PROVE A
    BY DEF vars
  <2>0. fault = None
    BY Halted DEF OInv, vars
  <2>1. IInv /\ OwnTypes /\ OwnParts
    BY <2>0 DEF OInv
  <2>2. Next
    BY DEF vars
  <2>3. MainBind \/ MainBusy \/ MainRelease \/ CleanRelease
    BY <2>1, <2>2, RegistrySteps
  <2>4. \A d \in Devices : registry[d] \in Conns => registry[d] # None
    BY ConnAssumption DEF Conns
  <2>5. CASE MainBind \/ MainBusy
    <3>1. registry[req.dev] = None /\ req.dev \in Devices
          /\ \A d \in Devices : d # req.dev => registry'[d] = registry[d]
      BY <2>1, <2>5 DEF MainBind, MainBusy, Registry!Bind, Registry!SetBusy,
           Registry!CanBind, Registry!Available, OwnTypes, OwnParts, StageInv,
           Step, Importing, Early, Taken
    <3> QED BY <2>4, <3>1
  <2>6. CASE MainRelease
    <3>1. pc[Main] \in {"available", "unbind"} /\ req.dev \in Devices
          /\ registry[req.dev] \in {None, req.conn}
          /\ \A d \in Devices : d # req.dev => registry'[d] = registry[d]
      BY <2>1, <2>6 DEF MainRelease, Registry!Release, OwnTypes, OwnParts, StageInv,
           ImportDevInv, Step, Importing, Early, Leaving, Replies
    <3> QED BY <2>4, <3>1
  <2>7. CASE CleanRelease
    <3>1. pc[Cleaner] \in {"available", "unbind"} /\ Live(cur)
          /\ registry' = [registry EXCEPT ![conn[cur].dev] = None]
      BY <2>7 DEF CleanRelease, Registry!Release, Step
    <3>2. registry[conn[cur].dev] \in {None, cur}
      BY <2>1, <3>1 DEF OwnParts, CleanDevInv
    <3>3. \A d \in Devices : registry[d] \in Conns /\ registry'[d] # registry[d] =>
            d = conn[cur].dev /\ registry[d] # None
      BY <2>1, <3>1, ConnAssumption DEF OwnTypes, Conns
    <3> QED BY <3>1, <3>2, <3>3
  <2> QED BY <2>3, <2>5, <2>6, <2>7
<1> QED BY <1>1, OwnAlways, PTL DEF Spec, OnlyOwnDeviceReleased

(* What the import checked at its start still holds when it acts on it      *)
(* (usbip_server.c:228, 264, 280-292, usbip_devmgr.c:437-439): the mutex    *)
(* that adding the connection takes keeps ConnCleanup's two releases, and   *)
(* with them a second owner, out of the import.                             *)
THEOREM ChecksHold == Spec => []ChecksStillHold
<1>1. OInv => ChecksStillHold
  <2> SUFFICES ASSUME OInv, pc[Main] \in {"add", "bind", "export", "busy"}
               PROVE  ChecksStillHold
    BY DEF ChecksStillHold
  <2>1. IInv /\ OwnTypes /\ OwnParts
    BY ThreadFacts DEF OInv
  <2>2. pc[Main] = "bind" => Registry!CanBind(req.dev)
    BY <2>1, BindOwn
  <2> QED BY <2>1, <2>2 DEF ChecksStillHold, OwnParts, ListInv, ImportDevInv, Taken
<1> QED BY <1>1, OwnAlways, PTL

(* A registered device has an owner, which is live and listed, until the    *)
(* server ends (usbip_devmgr.c:490-541, usbip_server.c:286-331): no device  *)
(* stays busy without a connection that will give it back.                  *)
THEOREM OwnersListed == Spec => []OwnerListed
<1>1. OInv => OwnerListed
  BY ConnAssumption DEF OInv, OwnParts, OwnTypes, OwnerInv, OwnerListed
<1> QED BY <1>1, OwnAlways, PTL

(* The processor of a connection runs only after Main has created it.       *)
Unborn == {"op", "limit", "add", "bind", "export", "busy", "init", "procCreate"}

OffInv ==
  /\ \A c \in Conns : conn[c].mem = "none" => pc[Proc(c)] = "off"
  /\ pc[Main] \in Unborn => pc[Proc(req.conn)] = "off"

LEMMA OffNext == OInv /\ OffInv /\ [Next]_vars => OffInv' \/ fault' # None
<1> SUFFICES ASSUME OInv, OffInv, [Next]_vars, fault' = None PROVE OffInv'
  OBVIOUS
<1> USE DEF Step, locals, devices, manager, Unborn
<1>1. /\ IInv /\ conn \in [Conns -> Flags] /\ pc \in [Threads -> Places]
      /\ pc[Main] \in Unborn => req.conn \in Conns
  BY DEF OInv, IInv, ImportInv, Building
<1>2. ASSUME \A c \in Conns : conn'[c].mem = "none" => conn[c].mem = "none",
             \A c \in Conns : pc[Proc(c)] = "off" => pc'[Proc(c)] = "off",
             pc'[Main] \in Unborn => pc[Main] \in Unborn /\ req' .conn = req.conn
      PROVE  OffInv'
  BY <1>1, <1>2 DEF OffInv
<1>3. CASE UNCHANGED vars
  BY <1>2, <1>3 DEF vars
<1>4. CASE SigStop
  BY <1>2, <1>4 DEF SigStop
<1>5. ASSUME NEW c \in Conns, RxThread(c) \/ ProcThread(c) \/ RxHears(c)
      PROVE  OffInv'
  <2>1. /\ \A d \in Conns : conn'[d].mem = conn[d].mem
        /\ pc'[Main] = pc[Main] /\ req' = req
    BY <1>1, <1>5, WorkerCalm DEF Alike
  <2>2. \E t \in {Rx(c), Proc(c)}, b \in Places :
          pc[t] # "off" /\ pc' = [pc EXCEPT ![t] = b]
    <3>1. CASE RxThread(c) \/ RxHears(c)
      BY <3>1 DEF RxThread, RxHears, RxLoop, RxRecv, RxShut, RxPush, RxExit, RxExitPost, Places
    <3>2. CASE ProcThread(c)
      BY <3>2 DEF ProcThread, ProcLoop, ProcPop, ProcHandle, ProcSend, ProcExit, ProcClear,
                  ProcExitPost, ProcLog, Places
    <3> QED BY <1>5, <3>1, <3>2
  <2>3. \A d \in Conns : pc[Proc(d)] = "off" => pc'[Proc(d)] = "off"
    BY <1>1, <2>2, ThreadFacts
  <2> QED BY <1>2, <2>1, <2>3
<1>6. ASSUME NEW t \in Callers, Stop(t) PROVE OffInv'
  <2>1. \A d \in Conns : conn'[d].mem = conn[d].mem
    BY <1>1, <1>6, StopCalm DEF Alike
  <2>2. PICK b \in StopPlaces \cup {"exit", "halt"} : pc' = [pc EXCEPT ![t] = b]
    BY <1>1, <1>6, StopEffect
  <2>3. pc[t] \in StopPlaces /\ req' = req
    BY <1>1, <1>6, StopEffect
  <2>4. \A s \in Threads : pc'[s] = pc[s] \/ (pc'[s] = b /\ pc[s] \in StopPlaces)
    BY <1>1, <2>2, <2>3
  <2> QED BY <1>2, <2>1, <2>3, <2>4, ThreadFacts DEF StopPlaces
<1>7. CASE CleanerThread
  <2>1. req' = req /\ \E b \in Places : pc' = [pc EXCEPT ![Cleaner] = b]
    BY <1>7 DEF CleanerThread, CleanCheck, CleanWait, CleanLock, CleanScan,
                CleanDestroyQueue, CleanUnexport, CleanRelease, CleanClosed,
                CleanReap, CleanRemove, CleanFree, CleanRelock, Walk, Places
  <2>2. \A s \in Threads : s # Cleaner => pc'[s] = pc[s]
    BY <2>1
  <2>3. \A c \in Conns : conn'[c].mem = "none" => conn[c].mem = "none"
    <3>1. CASE CleanFree
      BY <1>1, <3>1, BlankFacts DEF CleanFree
    <3>2. CASE ~CleanFree
      BY <1>1, <1>7, <3>2 DEF CleanerThread, CleanCheck, CleanWait, CleanLock, CleanScan,
                CleanDestroyQueue, CleanUnexport, CleanRelease, CleanClosed,
                CleanReap, CleanRemove, CleanRelock, Set, Flags
    <3> QED BY <3>1, <3>2
  <2> QED BY <1>2, <2>1, <2>2, <2>3, ThreadFacts
<1>8. CASE MainThread \/ ClientAsks
  <2>1. CASE MainAccept
    <3>1. \A s \in Threads : s # Main => pc'[s] = pc[s]
      BY <1>1, <2>1 DEF MainAccept
    <3>2. UNCHANGED conn /\ (pc'[Main] \in Unborn => conn[req'.conn].mem = "none"
                                                   /\ req'.conn \in Conns)
      BY <1>1, <2>1, ThreadFacts DEF MainAccept, Unused
    <3> QED BY <3>1, <3>2, ThreadFacts DEF OffInv
  <2>2. CASE StartProc
    <3>1. /\ UNCHANGED <<conn, req>> /\ pc[Main] = "procCreate" /\ Live(req.conn)
          /\ \/ pc' = [pc EXCEPT ![Main] = "procStarted", ![Proc(req.conn)] = "loop"]
             \/ pc' = [pc EXCEPT ![Main] = "failDestroy"]
      BY <2>2 DEF StartProc, Create
    <3>2. pc'[Main] \notin Unborn
          /\ \A d \in Conns : d # req.conn => pc'[Proc(d)] = pc[Proc(d)]
      BY <1>1, <3>1, ThreadFacts
    <3> QED BY <3>1, <3>2 DEF OffInv, Live
  <2>3. CASE StartRx
    <3>1. /\ UNCHANGED <<conn, req>> /\ pc[Main] = "rxCreate" /\ req.conn \in Conns
          /\ \/ pc' = [pc EXCEPT ![Main] = "rxStarted", ![Rx(req.conn)] = "loop"]
             \/ pc' = [pc EXCEPT ![Main] = "failQueue"]
      BY <1>1, <2>3 DEF StartRx, Create, IInv, ImportInv, Building
    <3>2. pc'[Main] \notin Unborn /\ \A d \in Conns : pc'[Proc(d)] = pc[Proc(d)]
      BY <1>1, <3>1, ThreadFacts
    <3> QED BY <3>1, <3>2 DEF OffInv
  <2>4. CASE MainLimit
    <3>1. \A s \in Threads : s # Main => pc'[s] = pc[s]
      BY <1>1, <2>4 DEF MainLimit
    <3>2. pc[Main] = "limit" /\ (pc'[Main] \in Unborn => req' = req)
      BY <1>1, <2>4, ThreadFacts DEF MainLimit, Refuse
    <3>3. \A c \in Conns : conn'[c].mem = "none" => conn[c].mem = "none"
      BY <1>1, <2>4 DEF MainLimit, Refuse, Blank, Flags
    <3> QED BY <1>2, <3>1, <3>2, <3>3, ThreadFacts
  <2>5. CASE \/ MainAdd \/ MainBind \/ MainExport \/ MainBusy \/ MainReply
             \/ ClientAsks \/ ImportFailed \/ MainShutdown
    <3>1. /\ \E b \in Places : pc' = [pc EXCEPT ![Main] = b]
          /\ pc'[Main] \in Unborn => pc[Main] \in Unborn /\ req'.conn = req.conn
      <4>1. CASE MainAdd \/ MainBind \/ MainExport \/ MainBusy
        BY <1>1, <2>5, <4>1, ThreadFacts DEF MainAdd, MainBind, MainExport, MainBusy, Places
      <4>2. CASE MainReply \/ ImportFailed \/ MainShutdown
        BY <1>1, <2>5, <4>2, ThreadFacts
           DEF MainReply, ImportFailed, MainUnexport, MainRelease, MainRemove, MainFree,
               MainClose, ImportDone, MainShutdown, MainCollect, MainHalt, MainJoin, Places
      <4>3. CASE ClientAsks
        <5>1. CASE MainOther
          BY <1>1, <5>1, ThreadFacts DEF MainOther, Refuse, Places
        <5>2. ASSUME NEW d \in Devices, MainImport(d)
              PROVE /\ \E b \in Places : pc' = [pc EXCEPT ![Main] = b]
                    /\ pc'[Main] \in Unborn => pc[Main] \in Unborn /\ req'.conn = req.conn
          <6>1. [req EXCEPT !.dev = d].conn = req.conn
            BY <1>1 DEF IInv
          <6> QED BY <1>1, <5>2, <6>1, ThreadFacts DEF MainImport, Refuse, Places
        <5> QED BY <4>3, <5>1, <5>2 DEF ClientAsks
      <4> QED BY <2>5, <4>1, <4>2, <4>3
    <3>2. \A s \in Threads : s # Main => pc'[s] = pc[s]
      BY <1>1, <3>1
    <3>3. \A c \in Conns : conn'[c].mem = "none" => conn[c].mem = "none"
      <4>1. CASE MainFree
        BY <1>1, <4>1, BlankFacts DEF MainFree
      <4>2. CASE ~MainFree
        BY <1>1, <2>5, <4>2
           DEF MainAdd, MainBind, MainExport, MainBusy, MainReply, ClientAsks, MainOther,
               MainImport, Refuse, ImportFailed, MainUnexport, MainRelease, MainRemove,
               MainClose, MainShutdown, MainCollect, MainHalt, MainJoin
      <4> QED BY <4>1, <4>2
    <3> QED BY <1>2, <3>1, <3>2, <3>3, ThreadFacts
  <2>6. CASE \/ StartInit \/ StartProcStarted \/ StartRxStarted \/ StartActive
             \/ StartFailQueue \/ StartFailJoin \/ StartFailDestroy
    <3>1. /\ req' = req
          /\ \E b \in {"procCreate", "rxCreate", "active", "replyOk", "failJoin",
                       "failDestroy", "unexport"} :
               pc' = [pc EXCEPT ![Main] = b] /\ (b = "procCreate" => pc[Main] = "init")
      BY <2>6 DEF StartInit, StartProcStarted, StartRxStarted, StartActive, StartSet,
                  StartFailQueue, StartFailJoin, StartFailDestroy
    <3>2. /\ pc'[Main] \in Unborn => pc[Main] \in Unborn
          /\ \A s \in Threads : s # Main => pc'[s] = pc[s]
      BY <1>1, <3>1, ThreadFacts
    <3>3. ASSUME NEW c \in Conns PROVE conn'[c].mem = conn[c].mem
      <4>1. CASE StartInit \/ StartFailQueue \/ StartFailDestroy
        BY <1>1, <4>1 DEF StartInit, StartFailQueue, StartFailDestroy, Flags
      <4>2. CASE StartProcStarted \/ StartRxStarted \/ StartActive \/ StartFailJoin
        BY <1>1, <4>2 DEF StartProcStarted, StartRxStarted, StartActive, StartSet, Set,
                          StartFailJoin, Flags
      <4> QED BY <2>6, <4>1, <4>2
    <3> QED BY <1>2, <3>1, <3>2, <3>3, ThreadFacts
  <2> QED BY <1>8, <2>1, <2>2, <2>3, <2>4, <2>5, <2>6 DEF MainThread, StartConn
<1>9. ASSUME NEW t \in Threads, Fault(t) PROVE FALSE
  BY <1>1, <1>9, FaultLeaves
<1> QED BY <1>3, <1>4, <1>5, <1>6, <1>7, <1>8, <1>9 DEF Next

(* As long as the processor of a connection can hand an URB to the driver,  *)
(* the device is exported, and it is that connection's (usbip_conn.c:       *)
(* 272-273, usbip_server.c:228-303): no two connections serve one device.   *)
THEOREM HeldServed == Spec => []HeldWhileServed
<1>1. Init => OffInv \/ fault # None
  BY ThreadFacts DEF Init, OffInv, Unborn
<1>2. OInv /\ (OffInv \/ fault # None) /\ [Next]_vars => (OffInv \/ fault # None)'
  <2>1. OInv /\ fault # None /\ [Next]_vars => fault' # None
    BY Halted DEF OInv, vars
  <2> QED BY <2>1, OffNext
<1>3. OInv /\ (OffInv \/ fault # None) => HeldWhileServed
  <2> SUFFICES ASSUME OInv, OffInv \/ fault # None, NEW c \in Conns, Live(c), Serving(c),
                      ~(pc[Main] \in Leaving /\ req.conn = c)
               PROVE  registry[conn[c].dev] = c /\ exported[conn[c].dev]
    BY DEF HeldWhileServed, Leaving
  <2>1. IInv /\ OwnParts /\ OffInv
    BY ThreadFacts DEF OInv, Serving
  <2>2. ~ProcPast(c)
    BY DEF Serving, ProcPast
  <2>3. CASE conn[c].state = "INIT"
    <3>1. req.conn = c /\ pc[Main] \in Early \ Leaving
      BY <2>1, <2>3 DEF OwnParts, StageInv
    <3>2. pc[Main] \in Made
      BY <2>1, <3>1 DEF OffInv, Unborn, Serving, Early, Taken, Made, Leaving
    <3> QED BY <2>1, <3>1, <3>2 DEF OwnParts, StageInv, ImportDevInv, Taken
  <2>4. CASE conn[c].state \in {"ACTIVE", "CLOSING"}
    <3>1. ~(cur = c /\ pc[Cleaner] \in Teardown)
      BY <2>1, <2>2 DEF IInv, CleanInv, ExitInv, Stopped
    <3> QED BY <2>1, <2>4, <3>1 DEF OwnParts, ClaimInv, Teardown, Leaving
  <2>5. conn[c].state # "CLOSED"
    BY <2>1, <2>2 DEF IInv, ClosedInv
  <2> QED BY <2>1, <2>3, <2>4, <2>5 DEF IInv, Flags
<1> QED BY <1>1, <1>2, <1>3, OwnAlways, PTL DEF Spec

-----------------------------------------------------------------------------
(* Types.                                                                   *)

LEMMA RestInit == Init => RestTypes
<1> SUFFICES ASSUME Init PROVE RestTypes
  OBVIOUS
<1>1. ctx \in [Conns -> {"none", "open", "freed"}]
  BY DEF Init
<1>2. held = FALSE /\ cleanerOn = TRUE /\ serverOn = TRUE /\ posts = 0 /\ fault = None
  BY DEF Init
<1> QED BY <1>1, <1>2 DEF RestTypes

LEMMA RestNext == OInv /\ RestTypes /\ [Next]_vars => RestTypes'
<1> SUFFICES ASSUME OInv, RestTypes, [Next]_vars PROVE RestTypes'
  OBVIOUS
<1> USE DEF RestTypes, Step, manager, devices, locals, Post, CloseCtx
<1>1. CASE UNCHANGED vars \/ SigStop
  BY <1>1 DEF vars, SigStop
<1>2. ASSUME NEW t \in Threads, Fault(t) PROVE RestTypes'
  BY <1>2, FaultLeaves DEF OInv
<1> DEFINE Rest ==
      /\ UNCHANGED <<held, cleanerOn, serverOn, fault>>
      /\ posts' \in {posts, posts + 1}
      /\ ctx' = ctx \/ \E c : ctx' = [ctx EXCEPT ![c] = "freed"]
<1>r. Rest => RestTypes'
  OBVIOUS
<1>3. ASSUME NEW c \in Conns, RxThread(c) \/ RxHears(c) PROVE Rest
  BY <1>3 DEF RxThread, RxHears, RxLoop, RxRecv, RxShut, RxPush, RxExit, RxExitPost
<1>4. ASSUME NEW c \in Conns, ProcThread(c) PROVE Rest
  BY <1>4 DEF ProcThread, ProcLoop, ProcPop, ProcHandle, ProcSend, ProcExit, ProcClear,
              ProcExitPost, ProcLog
<1>5. ASSUME NEW t \in Callers, Stop(t) PROVE Rest
  BY <1>5 DEF Stop, StopMark, StopCloseQueue, StopSignalQueue, StopCloseCtx, StopClearCtx,
              StopReturns
<1>6. CASE CleanerThread
  <2>1. CASE CleanCheck \/ CleanWait \/ CleanDestroyQueue \/ CleanUnexport \/ CleanRelease
             \/ CleanRemove \/ CleanFree
    BY <2>1 DEF CleanCheck, CleanWait, CleanDestroyQueue, CleanUnexport, CleanRelease,
                CleanRemove, CleanFree
  <2>2. ASSUME NEW p, NEW c, Walk(p, c) PROVE RestTypes'
    BY <2>2 DEF Walk
  <2>3. CASE CleanLock \/ CleanScan \/ CleanClosed \/ CleanReap \/ CleanRelock
    BY <2>2, <2>3 DEF CleanLock, CleanScan, CleanClosed, CleanReap, CleanRelock
  <2> QED BY <1>6, <2>1, <2>3 DEF CleanerThread
<1>7. CASE MainThread \/ ClientAsks
  <2> USE DEF Refuse, ImportDone
  <2>1. CASE MainAccept \/ MainLimit \/ MainAdd \/ MainBind \/ MainExport \/ MainBusy
    BY <2>1 DEF MainAccept, MainLimit, MainAdd, MainBind, MainExport, MainBusy
  <2>2. CASE StartConn
    BY <2>2 DEF StartConn, StartInit, StartProc, StartRx, Create, StartProcStarted,
                StartRxStarted, StartActive, StartSet, StartFailQueue,
                StartFailJoin, StartFailDestroy
  <2>3. CASE MainReply \/ ImportFailed
    BY <2>3 DEF MainReply, ImportFailed, MainUnexport, MainRelease, MainRemove, MainFree,
                MainClose
  <2>4. CASE MainShutdown
    <3>1. /\ UNCHANGED <<ctx, held, serverOn, fault>> /\ posts' \in {posts, posts + 1}
          /\ cleanerOn' = cleanerOn \/ cleanerOn' = FALSE
      BY <2>4 DEF MainShutdown, MainCollect, MainHalt, MainJoin
    <3>2. posts' \in Nat
      BY <3>1
    <3>3. cleanerOn' \in BOOLEAN
      BY <3>1, Zenon
    <3> QED BY <3>1, <3>2, <3>3
  <2>5. CASE ClientAsks
    BY <2>5 DEF ClientAsks, MainOther, MainImport
  <2> QED BY <1>7, <2>1, <2>2, <2>3, <2>4, <2>5 DEF MainThread
<1> QED BY <1>r, <1>1, <1>2, <1>3, <1>4, <1>5, <1>6, <1>7 DEF Next

(* The registry has an entry for no more devices than the list has          *)
(* connections.                                                             *)
SizeInv == Cardinality({d \in Devices : registry[d] # None}) <= MaxConnections

LEMMA SizeFacts == OInv /\ fault = None /\ pc[Main] # "done" => SizeInv
<1> SUFFICES ASSUME OInv, fault = None, pc[Main] # "done" PROVE SizeInv
  OBVIOUS
<1> DEFINE B == {d \in Devices : registry[d] # None}
           n == Len(list)
           P == 1 .. n
           f == [d \in B |-> CHOOSE i \in P : list[i] = registry[d]]
<1>1. OwnTypes /\ OwnParts
  BY DEF OInv
<1>2. n \in Nat /\ n <= MaxConnections /\ DOMAIN list = P
  BY <1>1, LenProperties DEF OwnTypes
<1>3. ASSUME NEW d \in B PROVE f[d] \in P /\ list[f[d]] = registry[d]
  <2>1. \E i \in P : list[i] = registry[d]
    BY <1>1, <1>2 DEF InList, OwnParts, OwnerInv
  <2> DEFINE i == CHOOSE i \in P : list[i] = registry[d]
  <2>2. i \in P /\ list[i] = registry[d]
    BY <2>1
  <2>3. f[d] = i
    OBVIOUS
  <2> HIDE DEF i, f, P
  <2> QED BY <2>2, <2>3
<1>4. ASSUME NEW d \in B, NEW e \in B, f[d] = f[e] PROVE d = e
  <2>1. registry[d] = registry[e]
    BY <1>3, <1>4
  <2>2. \A b \in B : \/ conn[registry[b]].dev = b
                     \/ conn[registry[b]].dev = None /\ req.dev = b
    BY <1>1 DEF OwnParts, OwnerInv, StageInv
  <2> QED BY <2>1, <2>2, ConnAssumption
<1>5. f \in Injection(B, P)
  <2>1. f \in [B -> P]
    BY <1>3
  <2>2. \A d, e \in B : f[d] = f[e] => d = e
    BY <1>4
  <2> HIDE DEF f, B, P
  <2>3. DOMAIN f = B
    BY <2>1
  <2>4. IsInjective(f)
    BY <2>2, <2>3 DEF IsInjective
  <2> QED BY <2>1, <2>4 DEF Injection
<1>6. IsFiniteSet(P) /\ Cardinality(P) = n
  <2>1. 1 \in Int /\ n \in Int
    BY <1>2
  <2> HIDE DEF n
  <2>2. IsFiniteSet(1 .. n) /\ Cardinality(1 .. n) = IF 1 > n THEN 0 ELSE n - 1 + 1
    BY <2>1, FS_Interval
  <2> QED BY <1>2, <2>2
<1> HIDE DEF P, f
<1>7. Cardinality(B) <= Cardinality(P) /\ IsFiniteSet(B)
  BY <1>5, <1>6, FS_Injection
<1>8. Cardinality(B) \in Nat
  BY <1>7, FS_CardinalityType
<1> HIDE DEF n
<1>9. Cardinality(B) <= MaxConnections
  BY <1>2, <1>6, <1>7, <1>8, ConnAssumption
<1> QED BY <1>9 DEF SizeInv

(* Once the server has ended, nobody binds or releases a device.            *)
LEMMA SizeNext ==
  OInv /\ [Next]_vars => registry' = registry \/ (fault' = None /\ pc'[Main] # "done")
<1> SUFFICES ASSUME OInv, Next, registry' # registry PROVE fault' = None /\ pc'[Main] # "done"
  BY DEF vars
<1>1. fault = None /\ IInv /\ OwnTypes /\ OwnParts
  BY Halted DEF OInv, vars
<1>2. MainBind \/ MainBusy \/ MainRelease \/ CleanRelease
  BY <1>1, RegistrySteps
<1>3. CASE CleanRelease
  <2>1. pc'[Main] = pc[Main] /\ pc[Cleaner] # "done" /\ fault' = fault
    BY <1>1, <1>3, CleanerPlace DEF CleanRelease, Step, locals
  <2> QED BY <1>1, <2>1 DEF OwnParts, ListInv
<1>4. CASE MainBind \/ MainBusy \/ MainRelease
  BY <1>1, <1>4, ThreadFacts DEF MainBind, MainBusy, MainRelease, Step, locals, IInv
<1> QED BY <1>2, <1>3, <1>4

(* Type correctness; the list has no connection twice and never more than   *)
(* the limit, the registry never more entries than the list may have, and   *)
(* ConnCleanup holds the mutex exactly while it walks (usbip_conn.c:237-250,*)
(* 257-283).                                                                *)
THEOREM TypeCorrect == Spec => []TypeOK
<1>1. OInv /\ RestTypes /\ SizeInv => TypeOK
  <2> SUFFICES ASSUME OInv, RestTypes, SizeInv PROVE TypeOK
    OBVIOUS
  <2>1. IInv /\ OwnTypes
    BY DEF OInv
  <2>2. DOMAIN list = 1 .. Len(list)
    BY <2>1, LenProperties DEF OwnTypes
  <2>3. \A S : Registry!Cardinality(S) = Cardinality(S)
    BY DEF Registry!Cardinality, Cardinality
  <2>4. Registry!TypeOK
    BY <2>1, <2>3 DEF Registry!TypeOK, OwnTypes, SizeInv
  <2>5. fault = None => held = (pc[Cleaner] \in {"scan", "destroyQueue", "unexport",
                                                "available", "unbind", "closed", "reap"})
    BY DEF OInv, OwnParts, ListInv, Holding, Scanning, RestTypes
  <2> QED BY <2>1, <2>2, <2>4, <2>5 DEF TypeOK, IInv, OwnTypes, RestTypes
<1>2. Init => SizeInv
  <2> SUFFICES ASSUME Init PROVE SizeInv
    OBVIOUS
  <2>1. fault = None /\ pc[Main] # "done"
    BY ThreadFacts DEF Init
  <2> QED BY <2>1, OwnInit, SizeFacts
<1>3. registry' = registry /\ SizeInv => SizeInv'
  BY DEF SizeInv
<1>4. Spec => []RestTypes
  BY OwnAlways, RestInit, RestNext, PTL DEF Spec
<1> DEFINE X == fault = None /\ pc[Main] # "done"
<1>5. OInv /\ X => SizeInv
  BY SizeFacts
<1>6. OInv /\ [Next]_vars => registry' = registry \/ X'
  BY SizeNext
<1> HIDE DEF X
<1>7. Spec => []SizeInv
  BY <1>2, <1>3, <1>5, <1>6, OwnAlways, PTL DEF Spec
<1> QED BY <1>1, <1>4, <1>7, OwnAlways, PTL

-----------------------------------------------------------------------------
(* ConnCleanup finds all its work.                                          *)

PostPlaces == {"closeQueue", "lockQueue", "closeCtx", "clearCtx", "exitPost"}

(* A thread of c, or Main when it stops c, has a post of reap_sem ahead.    *)
PendingPost(c) == \E t \in Callers : Subject(t) = c /\ pc[t] \in PostPlaces

(* Main has added the connection it works on to the list.                   *)
Added == {"bind"} \cup Taken \cup Replies \cup Leaving

(* The connection Main works on is the last in the list, so that ConnCleanup*)
(* has nothing to lose behind it; what ConnCleanup can take apart or        *)
(* destroy is announced, or ahead of it in the walk it is in.               *)
ReapInv ==
  /\ pc[Main] \in Added /\ InList(req.conn) =>
       \A x \in Conns : InList(x) => Before(x, req.conn)
  /\ pc[Cleaner] = "remove" => nxt # cur
  /\ \A c \in Conns : InList(c) /\ Stopped(c) =>
       \/ posts > 0 \/ PendingPost(c) \/ pc[Cleaner] = "lockScan"
       \/ pc[Cleaner] \in Scanning /\ Before(cur, c)
  /\ \A c \in Conns : InList(c) /\ conn[c].state = "CLOSED" =>
       \/ pc[Cleaner] \in {"lockScan", "lockReap"} \cup Scanning
       \/ pc[Cleaner] = "reap" /\ Before(cur, c)
       \/ pc[Cleaner] \in {"remove", "free", "relock"} /\ Before(nxt, c)
       \/ pc[Cleaner] = "remove" /\ c = cur

(* What a step of Main or of a worker does, apart from the list.            *)
Announced ==
  /\ pc'[Cleaner] = pc[Cleaner] /\ UNCHANGED <<cur, nxt>>
  /\ posts' \in {posts, posts + 1}
  /\ pc'[Main] \in Added => pc[Main] \in Added /\ req'.conn = req.conn
  /\ \A c \in Conns : InList(c) =>
       /\ conn'[c].state = "CLOSED" => conn[c].state = "CLOSED"
       /\ Stopped(c) /\ PendingPost(c) => PendingPost(c)' \/ posts' = posts + 1
       /\ Stopped(c)' => Stopped(c) \/ PendingPost(c)'

LEMMA AnnouncedReap ==
  ASSUME OwnTypes, RestTypes, ReapInv, Announced, UNCHANGED list
  PROVE  ReapInv'
<1>1. \A x, y : (InList(x)' <=> InList(x)) /\ (Before(x, y)' <=> Before(x, y))
  BY DEF InList, Before
<1>2. posts \in Nat /\ posts' \in Nat /\ posts' >= posts
  BY DEF RestTypes, Announced
<1>3. pc[Main] \in Added /\ InList(req.conn) =>
        \A x \in Conns : InList(x) => Before(x, req.conn)
  BY DEF ReapInv
<1>4. pc'[Main] \in Added /\ InList(req.conn)' =>
        \A x \in Conns : InList(x)' => Before(x, req.conn)'
  BY <1>3 DEF Announced, InList, Before
<1>5. ASSUME NEW c \in Conns, InList(c)', Stopped(c)'
      PROVE  \/ posts' > 0 \/ PendingPost(c)' \/ pc'[Cleaner] = "lockScan"
             \/ pc'[Cleaner] \in Scanning /\ Before(cur, c)'
  <2>1. InList(c) /\ (Stopped(c) \/ PendingPost(c)')
    BY <1>1, <1>5 DEF Announced
  <2>2. CASE posts > 0
    BY <1>2, <2>2 DEF RestTypes
  <2>3. CASE Stopped(c) /\ PendingPost(c)
    BY <1>2, <2>1, <2>3 DEF Announced
  <2>4. CASE pc[Cleaner] \in Scanning /\ Before(cur, c)
    BY <2>4 DEF Announced, Before
  <2> QED BY <2>1, <2>2, <2>3, <2>4 DEF ReapInv, Announced
<1>6. ASSUME NEW c \in Conns, InList(c)', conn'[c].state = "CLOSED"
      PROVE  \/ pc'[Cleaner] \in {"lockScan", "lockReap"} \cup Scanning
             \/ pc'[Cleaner] = "reap" /\ Before(cur, c)'
             \/ pc'[Cleaner] \in {"remove", "free", "relock"} /\ Before(nxt, c)'
             \/ pc'[Cleaner] = "remove" /\ c = cur'
  <2>1. InList(c) /\ conn[c].state = "CLOSED"
    BY <1>1, <1>6 DEF Announced
  <2>2. Before(cur, c)' <=> Before(cur, c)
    BY DEF Announced, Before
  <2>3. Before(nxt, c)' <=> Before(nxt, c)
    BY DEF Announced, Before
  <2> QED BY <2>1, <2>2, <2>3 DEF ReapInv, Announced
<1> QED BY <1>4, <1>5, <1>6 DEF ReapInv, Announced

(* A step of one caller: who else has a post ahead still has.               *)
LEMMA PendingStays ==
  ASSUME IInv, NEW t \in Callers, NEW b, pc' = [pc EXCEPT ![t] = b],
         pc[t] \in PostPlaces => b \in PostPlaces \/ posts' = posts + 1,
         \A s \in Callers : s = Main /\ pc[s] \in PostPlaces => Subject(s)' = Subject(s)
  PROVE  \A c : PendingPost(c) => PendingPost(c)' \/ posts' = posts + 1
<1> SUFFICES ASSUME NEW c, PendingPost(c), posts' # posts + 1 PROVE PendingPost(c)'
  OBVIOUS
<1>1. PICK s \in Callers : Subject(s) = c /\ pc[s] \in PostPlaces
  BY DEF PendingPost
<1>2. Callers \subseteq Threads /\ Cleaner \notin Callers
  BY DEF Callers, Threads, Workers, Main, Cleaner
<1>3. pc'[s] \in PostPlaces
  BY <1>1, <1>2 DEF IInv
<1>4. Subject(s)' = Subject(s)
  <2>1. CASE s = Main
    BY <1>1, <2>1
  <2>2. CASE s # Main
    BY <1>1, <1>2, <2>2 DEF Subject
  <2> QED BY <2>1, <2>2
<1> QED BY <1>1, <1>3, <1>4 DEF PendingPost

LEMMA WorkerReap ==
  ASSUME IInv, RestTypes, NEW c \in Conns, RxThread(c) \/ RxHears(c) \/ ProcThread(c)
  PROVE  Announced
<1> USE DEF Step, manager, devices, locals
<1>1. conn \in [Conns -> Flags] /\ pc \in [Threads -> Places]
  BY DEF IInv
<1>2. PICK t \in {Rx(c), Proc(c)} :
        /\ \E b \in Places : pc' = [pc EXCEPT ![t] = b]
        /\ pc[t] \in PostPlaces => posts' = posts + 1
        /\ posts' \in {posts, posts + 1}
        /\ UNCHANGED <<req, toStop, cur, nxt>>
        /\ \/ conn' = conn
           \/ \E u : Set(c, "urbs", u)
           \/ Set(c, "running", FALSE)
           \/ Set(c, "rxStarted", FALSE) /\ pc'[t] = "exitPost"
           \/ Set(c, "procStarted", FALSE) /\ pc'[t] = "exitPost"
  <2> USE DEF PostPlaces, Post, Places
  <2>1. CASE RxThread(c) \/ RxHears(c)
    <3>1. CASE RxExit(c)
      BY <1>1, <3>1, ThreadFacts DEF RxExit
    <3>2. CASE ~RxExit(c)
      BY <2>1, <3>2 DEF RxThread, RxHears, RxLoop, RxRecv, RxShut, RxPush, RxExitPost
    <3> QED BY <3>1, <3>2
  <2>2. CASE ProcThread(c)
    <3>1. CASE ProcClear(c)
      BY <1>1, <3>1, ThreadFacts DEF ProcClear
    <3>2. CASE ~ProcClear(c)
      BY <2>2, <3>2 DEF ProcThread, ProcLoop, ProcPop, ProcHandle, ProcSend, ProcExit,
                        ProcExitPost, ProcLog
    <3> QED BY <3>1, <3>2
  <2> QED BY <2>1, <2>2
<1>3. t \in Callers /\ t \in Threads /\ t # Main /\ t # Cleaner /\ Subject(t)' = c
  <2>1. t \in Workers /\ t[2] = c
    BY DEF Workers, Rx, Proc
  <2>2. t \in Threads /\ t # Main /\ t # Cleaner
    BY ThreadFacts
  <2> QED BY <2>1, <2>2 DEF Callers, Subject
<1>4. \A s \in Callers : s = Main => Subject(s)' = Subject(s)
  BY <1>2 DEF Subject
<1>5. \A d : PendingPost(d) => PendingPost(d)' \/ posts' = posts + 1
  BY <1>2, <1>3, <1>4, PendingStays
<1>6. pc'[Main] = pc[Main] /\ pc'[Cleaner] = pc[Cleaner]
  BY <1>1, <1>2, <1>3, ThreadFacts
<1>7. ASSUME NEW d \in Conns
      PROVE  /\ conn'[d].state = "CLOSED" => conn[d].state = "CLOSED"
             /\ Stopped(d)' => Stopped(d) \/ PendingPost(d)'
  <2>1. CASE conn' = conn
    BY <2>1 DEF Stopped
  <2>2. CASE \E u : Set(c, "urbs", u)
    BY <1>1, <2>2 DEF Stopped, Set, Flags
  <2>3. CASE Set(c, "running", FALSE)
    BY <1>1, <2>3 DEF Stopped, Set, Flags
  <2>4. CASE pc'[t] = "exitPost" /\ (Set(c, "rxStarted", FALSE) \/ Set(c, "procStarted", FALSE))
    <3>1. PendingPost(c)'
      BY <1>3, <2>4 DEF PendingPost, PostPlaces, Callers
    <3>2. d # c => conn'[d] = conn[d]
      BY <1>1, <2>4 DEF Set
    <3>3. conn'[d].state = conn[d].state
      BY <1>1, <2>4 DEF Set, Flags
    <3>4. d # c => (Stopped(d)' <=> Stopped(d))
      BY <3>2 DEF Stopped
    <3> QED BY <3>1, <3>2, <3>3, <3>4
  <2> QED BY <1>2, <2>1, <2>2, <2>3, <2>4
<1> QED BY <1>2, <1>5, <1>6, <1>7 DEF Announced

(* Whoever makes a connection CLOSING goes on to the post.                  *)
LEMMA StopReap ==
  ASSUME IInv, RestTypes, NEW t \in Callers, Stop(t)
  PROVE  Announced
<1> USE DEF Step, manager, devices, locals
<1>1. conn \in [Conns -> Flags] /\ pc \in [Threads -> Places]
  BY DEF IInv
<1>2. t \in Threads /\ t # Cleaner
  BY DEF Callers, Threads, Workers, Cleaner, Main
<1>0. PICK u : u = Subject(t)
  OBVIOUS
<1>3. PICK b \in StopPlaces \cup {"exit", "halt"} : pc' = [pc EXCEPT ![t] = b]
  BY StopEffect
<1>4. /\ UNCHANGED <<req, cur, nxt>>
      /\ posts' \in {posts, posts + 1}
      /\ (t # Main \/ (pc[t] \in PostPlaces /\ posts' # posts + 1)) => toStop' = toStop
      /\ pc[t] \in PostPlaces => pc'[t] \in PostPlaces \/ posts' = posts + 1
      /\ \/ conn' = conn
         \/ /\ conn' = [conn EXCEPT ![u].state = "CLOSING", ![u].running = FALSE]
            /\ pc'[t] \in PostPlaces /\ UNCHANGED toStop
         \/ \E q : Set(u, "queue", q)
         \/ Set(u, "ptr", FALSE)
  <2> USE DEF PostPlaces, Post, StopReturns
  <2>1. CASE StopMark(t)
    BY <1>0, <1>1, <1>2, <2>1 DEF StopMark
  <2>2. CASE StopCloseQueue(t)
    BY <1>0, <1>1, <1>2, <2>2 DEF StopCloseQueue
  <2>3. CASE StopCloseCtx(t)
    BY <1>0, <1>1, <1>2, <2>3 DEF StopCloseCtx
  <2>4. CASE StopClearCtx(t)
    BY <1>0, <1>1, <1>2, <2>4 DEF StopClearCtx
  <2>5. CASE StopSignalQueue(t)
    BY <1>0, <1>1, <1>2, <2>5 DEF StopSignalQueue
  <2> QED BY <2>1, <2>2, <2>3, <2>4, <2>5 DEF Stop
<1>5. pc'[Cleaner] = pc[Cleaner] /\ (pc'[Main] \in Added => pc'[Main] = pc[Main])
  BY <1>1, <1>2, <1>3, ThreadFacts DEF Added, Taken, Made, Replies, Leaving, StopPlaces
<1>6. \A c : PendingPost(c) => PendingPost(c)' \/ posts' = posts + 1
  <2>1. CASE posts' = posts + 1
    BY <2>1
  <2>2. CASE posts' # posts + 1
    <3>1. \A s \in Callers : s = Main /\ pc[s] \in PostPlaces => Subject(s)' = Subject(s)
      BY <1>4, <2>2 DEF Subject
    <3>2. pc[t] \in PostPlaces => b \in PostPlaces \/ posts' = posts + 1
      BY <1>1, <1>2, <1>3, <1>4
    <3> QED BY <1>3, <3>1, <3>2, PendingStays
  <2> QED BY <2>1, <2>2
<1>7. ASSUME NEW c \in Conns
      PROVE  /\ conn'[c].state = "CLOSED" => conn[c].state = "CLOSED"
             /\ Stopped(c)' => Stopped(c) \/ PendingPost(c)'
  <2>1. CASE conn' = conn
    BY <2>1 DEF Stopped
  <2>2. CASE /\ conn' = [conn EXCEPT ![u].state = "CLOSING", ![u].running = FALSE]
             /\ pc'[t] \in PostPlaces /\ UNCHANGED toStop
    <3>1. Subject(t)' = u
      BY <1>0, <1>2, <1>4, <2>2 DEF Subject
    <3>2. PendingPost(u)'
      BY <2>2, <3>1 DEF PendingPost
    <3>3. conn'[c].state = "CLOSED" => conn[c].state = "CLOSED"
      BY <1>1, <2>2 DEF Flags
    <3>4. c # u => conn'[c] = conn[c]
      BY <1>1, <2>2
    <3>5. c # u => (Stopped(c)' <=> Stopped(c))
      BY <3>4 DEF Stopped
    <3>6. c = u => PendingPost(c)'
      BY <3>2
    <3> QED BY <3>3, <3>5, <3>6
  <2>3. CASE \E q : Set(u, "queue", q)
    BY <1>1, <2>3 DEF Stopped, Set, Flags
  <2>4. CASE Set(u, "ptr", FALSE)
    BY <1>1, <2>4 DEF Stopped, Set, Flags
  <2> QED BY <1>4, <2>1, <2>2, <2>3, <2>4
<1> QED BY <1>4, <1>5, <1>6, <1>7 DEF Announced

(* Main's steps that leave the list alone.                                  *)
MainElsewhere ==
  \/ MainAccept \/ ClientAsks \/ MainLimit \/ MainBind \/ MainExport \/ MainBusy
  \/ StartConn \/ MainReply \/ MainUnexport \/ MainRelease \/ MainFree \/ MainClose
  \/ MainCollect \/ MainHalt

LEMMA MainReap ==
  ASSUME IInv, OwnTypes, OwnParts, RestTypes, MainElsewhere
  PROVE  Announced /\ UNCHANGED list
<1> USE DEF Step, manager, devices, locals, Refuse, ImportDone
<1>1. conn \in [Conns -> Flags] /\ pc \in [Threads -> Places]
  BY DEF IInv
<1>2. UNCHANGED <<list, cur, nxt>> /\ posts' \in {posts, posts + 1}
  BY DEF MainElsewhere, MainAccept, ClientAsks, MainOther, MainImport, MainLimit, MainBind,
         MainExport, MainBusy, StartConn, StartInit, StartProc, StartRx, Create,
         StartProcStarted, StartRxStarted, StartActive, StartSet, StartFailQueue,
         StartFailJoin, StartFailDestroy, MainReply, MainUnexport, MainRelease, MainFree,
         MainClose, MainCollect, MainHalt
<1>3. /\ \A s \in Threads :
           s # Main => \/ pc'[s] = pc[s]
                       \/ /\ s \in {Rx(req.conn), Proc(req.conn)}
                          /\ pc[Main] \in {"procCreate", "rxCreate"}
      /\ pc[Main] \notin PostPlaces
  <2> USE DEF PostPlaces
  <2>1. CASE StartProc \/ StartRx
    <3>1. \/ pc' = [pc EXCEPT ![Main] = "procStarted", ![Proc(req.conn)] = "loop"]
          \/ pc' = [pc EXCEPT ![Main] = "rxStarted", ![Rx(req.conn)] = "loop"]
          \/ pc' = [pc EXCEPT ![Main] = "failDestroy"]
          \/ pc' = [pc EXCEPT ![Main] = "failQueue"]
      BY <2>1 DEF StartProc, StartRx, Create
    <3>2. pc[Main] \in {"procCreate", "rxCreate"}
      BY <2>1 DEF StartProc, StartRx, Create
    <3> QED BY <1>1, <3>1, <3>2
  <2>2. CASE ~(StartProc \/ StartRx)
    <3>1. /\ \E b : pc' = [pc EXCEPT ![Main] = b]
          /\ pc[Main] \notin PostPlaces
      <4>1. CASE StartConn
        BY <2>2, <4>1 DEF StartConn, StartInit, StartProcStarted, StartRxStarted,
                          StartActive, StartSet, StartFailQueue, StartFailJoin,
                          StartFailDestroy
      <4>2. CASE MainAccept \/ ClientAsks \/ MainLimit \/ MainBind \/ MainExport \/ MainBusy
        BY <4>2 DEF MainAccept, ClientAsks, MainOther, MainImport, MainLimit, MainBind,
                    MainExport, MainBusy
      <4>3. CASE \/ MainReply \/ MainUnexport \/ MainRelease \/ MainFree \/ MainClose
                 \/ MainCollect \/ MainHalt
        BY <4>3 DEF MainReply, MainUnexport, MainRelease, MainFree, MainClose, MainCollect,
                    MainHalt
      <4> QED BY <4>1, <4>2, <4>3 DEF MainElsewhere
    <3>2. PICK b : pc' = [pc EXCEPT ![Main] = b]
      BY <3>1
    <3>3. \A s \in Threads : s # Main => pc'[s] = pc[s]
      BY <1>1, <3>2
    <3>4. pc[Main] \notin PostPlaces
      BY <3>1
    <3> QED BY <3>3, <3>4
  <2> QED BY <2>1, <2>2
<1>4. pc[Main] \in Made => req.conn \in Conns /\ conn[req.conn].state = "INIT"
  BY DEF OwnParts, StageInv, Made, Taken, Importing, Early
<1>5. \A t \in Callers, c \in Conns :
        t # Main /\ Subject(t) = c /\ Stopped(c) => pc'[t] = pc[t] /\ Subject(t)' = c
  <2> SUFFICES ASSUME NEW t \in Callers, NEW c \in Conns,
                      t # Main, Subject(t) = c, Stopped(c)
               PROVE  pc'[t] = pc[t] /\ Subject(t)' = c
    OBVIOUS
  <2>1. t \in Workers /\ t \in Threads /\ t # Cleaner /\ t[2] = c
    BY ThreadFacts DEF Callers, Threads, Workers, Cleaner, Main, Subject
  <2>2. Subject(t)' = c
    BY <2>1 DEF Subject
  <2>3. pc[Main] \in {"procCreate", "rxCreate"} => req.conn # c /\ req.conn \in Conns
    BY <1>4 DEF Made, Stopped
  <2>4. req.conn # c => t # Rx(req.conn) /\ t # Proc(req.conn)
    BY <2>1 DEF Rx, Proc
  <2> QED BY <1>3, <2>1, <2>2, <2>3, <2>4
<1>6. \A c \in Conns : Stopped(c) /\ PendingPost(c) => PendingPost(c)'
  BY <1>3, <1>5 DEF PendingPost
<1>7. pc'[Main] \in Added => pc[Main] \in Added /\ req'.conn = req.conn
  <2> USE DEF Added, Taken, Made, Replies, Leaving
  <2>1. CASE MainAccept \/ MainLimit \/ ClientAsks \/ MainClose \/ MainCollect \/ MainHalt
    BY <1>1, <2>1, ThreadFacts DEF MainAccept, MainLimit, ClientAsks, MainOther, MainImport,
                                  MainClose, MainCollect, MainHalt
  <2>2. CASE MainBind \/ MainExport \/ MainBusy \/ MainUnexport \/ MainRelease \/ MainFree
    BY <1>1, <2>2, ThreadFacts DEF MainBind, MainExport, MainBusy, MainUnexport, MainRelease,
                                  MainFree
  <2>3. CASE MainReply
    BY <1>1, <2>3, ThreadFacts DEF MainReply
  <2>4. CASE StartConn
    BY <2>4 DEF StartConn, StartInit, StartProc, StartRx, Create, StartProcStarted,
                StartRxStarted, StartActive, StartSet, StartFailQueue, StartFailJoin,
                StartFailDestroy
  <2> QED BY <2>1, <2>2, <2>3, <2>4 DEF MainElsewhere
<1>8. ASSUME NEW c \in Conns
      PROVE  /\ conn'[c].state = "CLOSED" => conn[c].state = "CLOSED"
             /\ Stopped(c)' => Stopped(c)
  <2>1. CASE conn' = conn
    BY <2>1 DEF Stopped
  <2>2. CASE MainLimit \/ MainFree
    <3>1. conn'[c] = conn[c] \/ conn'[c].state = "INIT"
      BY <1>1, <2>2, BlankFacts DEF MainLimit, MainFree
    <3> QED BY <3>1 DEF Stopped
  <2>3. CASE StartConn
    <3>1. conn[req.conn].state = "INIT"
      BY <2>3 DEF StartConn, StartInit, StartProc, StartRx, Create, StartProcStarted,
                  StartRxStarted, StartActive, StartSet, StartFailQueue, StartFailJoin,
                  StartFailDestroy, OwnParts, StageInv, Taken, Made
    <3>2. CASE StartProc \/ StartRx
      BY <2>1, <3>2 DEF StartProc, StartRx, Create
    <3>3. CASE StartActive
      <4>1. c = req.conn => conn'[c].state = "ACTIVE"
        BY <1>1, <3>3 DEF StartActive, StartSet, Set, Flags
      <4>2. c # req.conn => conn'[c] = conn[c]
        BY <1>1, <3>3 DEF StartActive, StartSet, Set
      <4> QED BY <4>1, <4>2 DEF Stopped
    <3>4. CASE StartInit \/ StartFailQueue \/ StartFailDestroy
      BY <1>1, <3>4 DEF StartInit, StartFailQueue, StartFailDestroy, Stopped, Flags
    <3>5. CASE StartProcStarted \/ StartRxStarted \/ StartFailJoin
      <4>1. conn'[c].state = conn[c].state /\ (c # req.conn => conn'[c] = conn[c])
        BY <1>1, <3>5 DEF StartProcStarted, StartRxStarted, StartFailJoin, StartSet, Set, Flags
      <4> QED BY <3>1, <4>1 DEF Stopped
    <3> QED BY <2>3, <3>2, <3>3, <3>4, <3>5 DEF StartConn
  <2>4. CASE ~(StartConn \/ MainLimit \/ MainFree)
    <3>1. conn' = conn
      BY <2>4 DEF MainElsewhere, MainAccept, ClientAsks, MainOther, MainImport, MainBind,
                  MainExport, MainBusy, MainReply, MainUnexport, MainRelease, MainClose,
                  MainCollect, MainHalt
    <3> QED BY <2>1, <3>1
  <2> QED BY <2>2, <2>3, <2>4
<1>9. pc'[Cleaner] = pc[Cleaner]
  BY <1>3, <1>4, ThreadFacts DEF Made
<1> QED BY <1>2, <1>6, <1>7, <1>8, <1>9 DEF Announced

(* Main's steps on the list.                                                *)
LEMMA MainListReap ==
  ASSUME IInv, OwnTypes, OwnParts, RestTypes, ReapInv, MainAdd \/ MainRemove \/ MainJoin
  PROVE  ReapInv'
<1> USE DEF Step, locals, devices
<1>1. pc \in [Threads -> Places] /\ pc[Cleaner] = pc'[Cleaner]
      /\ UNCHANGED <<conn, req, toStop, cur, nxt, posts>>
  BY ThreadFacts DEF IInv, MainAdd, MainRemove, MainJoin
<1>2. \A c : PendingPost(c) => PendingPost(c)'
  <2>1. pc[Main] \notin PostPlaces /\ \E b : pc' = [pc EXCEPT ![Main] = b]
    BY DEF MainAdd, MainRemove, MainJoin, PostPlaces
  <2>2. Main \in Callers
    BY DEF Callers
  <2>3. \A s \in Callers : s = Main /\ pc[s] \in PostPlaces => Subject(s)' = Subject(s)
    BY <2>1
  <2>4. PICK b : pc' = [pc EXCEPT ![Main] = b]
    BY <2>1
  <2>5. \A c : PendingPost(c) => PendingPost(c)' \/ posts' = posts + 1
    BY <2>1, <2>2, <2>3, <2>4, PendingStays
  <2>6. posts' # posts + 1
    BY <1>1 DEF RestTypes
  <2> QED BY <2>5, <2>6
<1>3. \A c : Stopped(c)' <=> Stopped(c)
  BY <1>1 DEF Stopped
<1>4. ASSUME \A c \in Conns : InList(c)' /\ (Stopped(c) \/ conn[c].state = "CLOSED") =>
                InList(c),
             \A c \in Conns : InList(c)' /\ Stopped(c) /\ pc[Cleaner] \in Scanning
                /\ Before(cur, c) => Before(cur, c)',
             \A c \in Conns : InList(c)' /\ conn[c].state = "CLOSED" =>
                /\ pc[Cleaner] = "reap" /\ Before(cur, c) => Before(cur, c)'
                /\ pc[Cleaner] \in {"remove", "free", "relock"} /\ Before(nxt, c) =>
                     Before(nxt, c)',
             pc'[Main] \in Added /\ InList(req.conn)' =>
                \A x \in Conns : InList(x)' => Before(x, req.conn)'
      PROVE  ReapInv'
  <2>1. ASSUME NEW c \in Conns, InList(c)', Stopped(c)'
        PROVE  \/ posts' > 0 \/ PendingPost(c)' \/ pc'[Cleaner] = "lockScan"
               \/ pc'[Cleaner] \in Scanning /\ Before(cur, c)'
    <3>1. InList(c) /\ Stopped(c)
      BY <1>3, <1>4, <2>1
    <3> QED BY <1>1, <1>2, <1>4, <2>1, <3>1 DEF ReapInv
  <2>2. ASSUME NEW c \in Conns, InList(c)', conn'[c].state = "CLOSED"
        PROVE  \/ pc'[Cleaner] \in {"lockScan", "lockReap"} \cup Scanning
               \/ pc'[Cleaner] = "reap" /\ Before(cur, c)'
               \/ pc'[Cleaner] \in {"remove", "free", "relock"} /\ Before(nxt, c)'
               \/ pc'[Cleaner] = "remove" /\ c = cur'
    BY <1>1, <1>4, <2>2 DEF ReapInv
  <2>3. pc'[Cleaner] = "remove" => nxt' # cur'
    BY <1>1 DEF ReapInv
  <2>4. pc'[Main] \in Added /\ InList(req.conn)' =>
          \A x \in Conns : InList(x)' => Before(x, req.conn)'
    BY <1>4
  <2> QED BY <2>1, <2>2, <2>3, <2>4 DEF ReapInv
<1>5. CASE MainAdd
  <2>1. /\ req.conn \in Conns /\ ~InList(req.conn) /\ Len(list) < MaxConnections
        /\ conn[req.conn].state = "INIT"
    BY <1>5 DEF MainAdd, OwnParts, ListInv, StageInv, Importing, Early
  <2>2. list' = Append(list, req.conn)
    <3>1. Len(list) \in Nat
      BY LenProperties DEF OwnTypes
    <3>2. ~(Len(list) >= MaxConnections)
      BY <2>1, <3>1, ConnAssumption
    <3> QED BY <1>5, <3>2 DEF MainAdd
  <2>3. /\ list' \in Seq(Conns) /\ list'[Len(list')] = req.conn
        /\ \A x : InList(x)' <=> InList(x) \/ x = req.conn
        /\ \A x, y : Before(x, y) => Before(x, y)'
    BY <2>1, <2>2, AppendFacts
  <2>4. \A x \in Conns : InList(x)' => Before(x, req.conn)'
    <3>1. DOMAIN list' = 1 .. Len(list') /\ Len(list') \in Nat
      BY <2>3, LenProperties
    <3>2. ASSUME NEW x \in Conns, InList(x)' PROVE Before(x, req.conn)'
      <4>1. PICK i \in 1 .. Len(list') : list'[i] = x
        BY <3>1, <3>2 DEF InList
      <4>2. Len(list') \in 1 .. Len(list') /\ i <= Len(list')
        BY <3>1
      <4> QED BY <1>1, <2>3, <4>1, <4>2 DEF Before
    <3> QED BY <3>2
  <2>5. PICK k, n : k = cur /\ n = nxt
    OBVIOUS
  <2>6. \A c : (Before(cur, c) => Before(cur, c)') /\ (Before(nxt, c) => Before(nxt, c)')
    <3>1. \A c : (Before(k, c) => Before(k, c)') /\ (Before(n, c) => Before(n, c)')
      BY <2>3
    <3> QED BY <1>1, <2>5, <3>1 DEF Before
  <2>7. \A c \in Conns : InList(c)' /\ (Stopped(c) \/ conn[c].state = "CLOSED") => InList(c)
    BY <2>1, <2>3 DEF Stopped
  <2>8. req'.conn = req.conn
    BY <1>1
  <2>9. pc'[Main] \in Added /\ InList(req.conn)' =>
          \A x \in Conns : InList(x)' => Before(x, req.conn)'
    BY <2>4
  <2> QED BY <1>4, <2>6, <2>7, <2>9
<1>6. CASE MainRemove
  <2>1. pc[Main] \in Added /\ ~held /\ req.conn \in Conns /\ Unlink(req.conn)
    BY <1>6 DEF MainRemove, Added, Leaving, OwnParts, StageInv, Importing, Early
  <2>2. pc[Cleaner] \notin Holding
    BY <2>1 DEF OwnParts, ListInv
  <2>3. /\ \A x : InList(x)' <=> InList(x) /\ x # req.conn
        /\ \A x, y : x # req.conn /\ y # req.conn /\ Before(x, y) => Before(x, y)'
    BY <2>1, UnlinkFacts
  <2>4. ASSUME NEW c \in Conns, InList(c)', Before(nxt, c)
        PROVE  Before(nxt, c)'
    <3>1. InList(c) /\ c # req.conn
      BY <2>3, <2>4
    <3>2. CASE nxt = req.conn
      <4>1. InList(req.conn)
        BY <2>4, <3>2, WalkFacts
      <4>2. Before(c, req.conn)
        BY <2>1, <3>1, <4>1 DEF ReapInv
      <4> QED BY <2>4, <3>1, <3>2, <4>2, BeforeFacts
    <3>3. CASE nxt # req.conn
      <4>1. \E i, j \in 1 .. Len(list') : i <= j /\ list'[i] = nxt /\ list'[j] = c
        BY <2>3, <2>4, <3>1, <3>3 DEF Before
      <4> QED BY <1>1, <4>1 DEF Before
    <3> QED BY <3>2, <3>3
  <2>5. ~InList(req.conn)'
    <3>1. \A i \in DOMAIN list' : list'[i] # req.conn
      BY <2>3 DEF InList
    <3> QED BY <1>1, <3>1 DEF InList
  <2> QED BY <1>4, <2>2, <2>3, <2>4, <2>5 DEF Holding
<1>7. CASE MainJoin
  <2>1. \A c : ~InList(c)'
    BY <1>7 DEF MainJoin, InList
  <2>2. ~InList(req.conn)'
    BY <1>7 DEF MainJoin, InList
  <2> QED BY <1>4, <2>1, <2>2
<1> QED BY <1>5, <1>6, <1>7

(* ConnCleanup's steps.                                                     *)
LEMMA CleanAside ==
  ASSUME IInv, CleanerThread
  PROVE  /\ pc'[Main] = pc[Main] /\ UNCHANGED <<req, toStop>>
         /\ \A c : PendingPost(c) => PendingPost(c)'
<1>1. UNCHANGED <<req, toStop>> /\ \E b : pc' = [pc EXCEPT ![Cleaner] = b]
  BY DEF CleanerThread, CleanCheck, CleanWait, CleanLock, CleanScan,
         CleanDestroyQueue, CleanUnexport, CleanRelease, CleanClosed,
         CleanReap, CleanRemove, CleanFree, CleanRelock, Walk, Step, locals
<1>2. \A t \in Threads : t # Cleaner => pc'[t] = pc[t]
  BY <1>1 DEF IInv
<1>3. ASSUME NEW t \in Callers PROVE pc'[t] = pc[t] /\ Subject(t)' = Subject(t)
  <2>1. t \in Threads /\ t # Cleaner
    BY DEF Callers, Threads, Workers, Cleaner, Main
  <2> QED BY <1>1, <1>2, <2>1 DEF Subject
<1>4. \A c : PendingPost(c) => PendingPost(c)'
  BY <1>3 DEF PendingPost
<1> QED BY <1>1, <1>2, <1>4, ThreadFacts

(* ConnCleanup turns to k; the list stays.                                  *)
LEMMA CleanTurns ==
  ASSUME IInv, OwnTypes, RestTypes, ReapInv, CleanerThread, UNCHANGED list,
         NEW p, pc'[Cleaner] = p, NEW k, cur' = k, NEW n, nxt' = n,
         p # "lockScan" => posts' = posts,
         p = "remove" => n # k,
         \A c \in Conns : /\ conn'[c].state = conn[c].state \/ conn'[c].state = "INIT"
                             \/ p \in {"scan", "lockReap"}
                          /\ Stopped(c)' => Stopped(c),
         \A c \in Conns :
           /\ InList(c) /\ Stopped(c)' /\ p # "lockScan"
           /\ pc[Cleaner] = "lockScan" \/ (pc[Cleaner] \in Scanning /\ Before(cur, c))
           => p \in Scanning /\ Before(k, c),
         \A c \in Conns :
           /\ InList(c) /\ conn'[c].state = "CLOSED" /\ conn[c].state = "CLOSED"
           /\ p \notin {"lockScan", "lockReap"} \cup Scanning
           => \/ p = "reap" /\ Before(k, c)
              \/ p \in {"remove", "free", "relock"} /\ Before(n, c)
              \/ p = "remove" /\ c = k
  PROVE  ReapInv'
<1>1. \A x, y : (InList(x)' <=> InList(x)) /\ (Before(x, y)' <=> Before(x, y))
  BY DEF InList, Before
<1>2. pc'[Main] \in Added /\ InList(req.conn)' =>
        \A x \in Conns : InList(x)' => Before(x, req.conn)'
  <2>1. pc'[Main] = pc[Main] /\ req' = req
    BY CleanAside
  <2> QED BY <2>1 DEF ReapInv, InList, Before
<1>3. pc'[Cleaner] = "remove" => nxt' # cur'
  OBVIOUS
<1>4. \A c : Before(cur, c)' <=> Before(k, c)
  BY DEF Before
<1>5. \A c : Before(nxt, c)' <=> Before(n, c)
  BY DEF Before
<1>6. ASSUME NEW c \in Conns, InList(c)', Stopped(c)'
      PROVE  \/ posts' > 0 \/ PendingPost(c)' \/ pc'[Cleaner] = "lockScan"
             \/ pc'[Cleaner] \in Scanning /\ Before(cur, c)'
  <2>1. InList(c) /\ Stopped(c)
    BY <1>1, <1>6
  <2>2. PendingPost(c) => PendingPost(c)'
    BY CleanAside
  <2>3. \/ posts > 0 \/ PendingPost(c) \/ pc[Cleaner] = "lockScan"
        \/ pc[Cleaner] \in Scanning /\ Before(cur, c)
    BY <2>1 DEF ReapInv
  <2>4. CASE pc[Cleaner] = "lockScan" \/ (pc[Cleaner] \in Scanning /\ Before(cur, c))
    BY <1>4, <1>6, <2>1, <2>4
  <2>5. CASE p # "lockScan" /\ (posts > 0 \/ PendingPost(c))
    BY <2>2, <2>5
  <2> QED BY <2>3, <2>4, <2>5
<1>7. ASSUME NEW c \in Conns, InList(c)', conn'[c].state = "CLOSED"
      PROVE  \/ pc'[Cleaner] \in {"lockScan", "lockReap"} \cup Scanning
             \/ pc'[Cleaner] = "reap" /\ Before(cur, c)'
             \/ pc'[Cleaner] \in {"remove", "free", "relock"} /\ Before(nxt, c)'
             \/ pc'[Cleaner] = "remove" /\ c = cur'
  <2>1. InList(c)
    BY <1>1, <1>7
  <2> QED BY <1>4, <1>5, <1>7, <2>1 DEF Scanning
<1> QED BY <1>2, <1>3, <1>6, <1>7 DEF ReapInv

LEMMA CleanerReap ==
  ASSUME IInv, OwnTypes, OwnParts, RestTypes, ReapInv, CleanerThread
  PROVE  ReapInv'
<1> USE DEF Step, manager, devices, locals
<1>1. /\ pc[Cleaner] \in Holding \cup {"remove", "free"} => cur \in Conns
      /\ conn \in [Conns -> Flags]
  BY DEF OwnParts, ListInv, IInv
<1>2. \A c, x : Before(c, x) /\ x # c => NextOf(c) # None /\ Before(NextOf(c), x)
  BY WalkFacts
<1>3. CASE CleanCheck \/ CleanWait
  <2>1. /\ UNCHANGED <<list, conn, cur, nxt>>
        /\ pc[Cleaner] \in {"check", "wait"} /\ pc'[Cleaner] \in {"wait", "lockScan"}
        /\ pc'[Cleaner] # "lockScan" => posts' = posts
    BY <1>3, CleanerPlace DEF CleanCheck, CleanWait
  <2>2. \A c \in Conns : InList(c) => conn[c].state # "CLOSED"
    BY <2>1 DEF ReapInv, Scanning
  <2>3. \A c : Stopped(c)' <=> Stopped(c)
    BY <2>1 DEF Stopped
  <2>4. \A c \in Conns : InList(c) => ~(pc[Cleaner] = "lockScan" \/ pc[Cleaner] \in Scanning)
    BY <2>1 DEF Scanning
  <2> QED BY <2>1, <2>2, <2>3, <2>4, CleanTurns DEF Scanning
<1>4. ASSUME NEW p \in {"scan", "reap"}, NEW k \in Conns \cup {None}, Walk(p, k),
             \A c \in Conns : /\ \/ conn'[c].state = conn[c].state
                                 \/ p = "scan"
                              /\ Stopped(c)' => Stopped(c),
             nxt' = nxt \/ p = "reap",
             p = "scan" => \A c \in Conns :
               /\ InList(c) /\ Stopped(c)'
               /\ pc[Cleaner] = "lockScan" \/ (pc[Cleaner] \in Scanning /\ Before(cur, c))
               => k # None /\ Before(k, c),
             p = "reap" => pc[Cleaner] \notin {"lockScan"} \cup Scanning,
             p = "reap" => \A c \in Conns :
               InList(c) /\ conn[c].state = "CLOSED" => k # None /\ Before(k, c)
      PROVE  ReapInv'
  <2>1. /\ UNCHANGED <<list, posts>> /\ cur' = k
        /\ \/ k # None /\ pc'[Cleaner] = p
           \/ k = None /\ p = "scan" /\ pc'[Cleaner] = "lockReap"
           \/ k = None /\ p = "reap" /\ pc'[Cleaner] \in {"done", "check"}
    BY <1>4, CleanerPlace DEF Walk
  <2>2. PICK n : n = nxt'
    OBVIOUS
  <2>3. CASE p = "scan"
    BY <1>4, <2>1, <2>2, <2>3, CleanTurns DEF Scanning
  <2>4. CASE p = "reap"
    BY <1>4, <2>1, <2>2, <2>4, CleanTurns DEF Scanning
  <2> QED BY <2>3, <2>4
<1>5. CASE CleanLock
  <2>1. First \in Conns \cup {None} /\ \A c \in Conns : InList(c) =>
                                         First # None /\ Before(First, c)
    BY WalkFacts
  <2>2. UNCHANGED <<conn, nxt>> /\ \A c : Stopped(c)' <=> Stopped(c)
    BY <1>5 DEF CleanLock, Stopped
  <2>3. CASE pc[Cleaner] = "lockScan" /\ Walk("scan", First)
    BY <1>4, <2>1, <2>2, <2>3
  <2>4. CASE pc[Cleaner] = "lockReap" /\ Walk("reap", First)
    BY <1>4, <2>1, <2>2, <2>4 DEF Scanning
  <2> QED BY <1>5, <2>3, <2>4 DEF CleanLock
<1>6. CASE CleanScan
  <2>1. pc[Cleaner] = "scan" /\ cur \in Conns /\ UNCHANGED <<conn, nxt>>
        /\ (\A c : Stopped(c)' <=> Stopped(c)) /\ NextOf(cur) \in Conns \cup {None}
    BY <1>1, <1>6, WalkFacts DEF CleanScan, Stopped, Holding, Scanning
  <2>2. CASE Stopped(cur) /\ Step(Cleaner, "scan", "destroyQueue")
             /\ UNCHANGED <<ctx, manager, locals>>
    <3>1. pc'[Cleaner] = "destroyQueue" /\ UNCHANGED <<list, posts, cur>>
      BY <2>2, CleanerPlace
    <3>2. PICK k, n : k = cur /\ n = nxt
      OBVIOUS
    <3>3. \A c : Before(k, c) <=> Before(cur, c)
      BY <3>2
    <3> QED BY <2>1, <3>1, <3>2, <3>3, CleanTurns DEF Scanning
  <2>3. CASE ~Stopped(cur) /\ Walk("scan", NextOf(cur))
    BY <1>2, <1>4, <2>1, <2>3
  <2> QED BY <1>6, <2>2, <2>3 DEF CleanScan
<1>7. CASE CleanDestroyQueue \/ CleanUnexport \/ CleanRelease
  <2>1. /\ UNCHANGED <<list, posts, cur, nxt>> /\ pc[Cleaner] \in Scanning
        /\ pc'[Cleaner] \in Scanning
    BY <1>7, CleanerPlace DEF CleanDestroyQueue, CleanUnexport, CleanRelease, Scanning
  <2>2. \A c \in Conns : conn'[c].state = conn[c].state /\ (Stopped(c)' => Stopped(c))
    BY <1>1, <1>7 DEF CleanDestroyQueue, CleanUnexport, CleanRelease, Stopped, Flags
  <2>3. PICK k, n, p : k = cur /\ n = nxt /\ p = pc'[Cleaner]
    OBVIOUS
  <2>4. \A c : Before(k, c) <=> Before(cur, c)
    BY <2>3
  <2> QED BY <2>1, <2>2, <2>3, <2>4, CleanTurns DEF Scanning
<1>8. CASE CleanClosed
  <2>1. /\ pc[Cleaner] = "closed" /\ cur \in Conns /\ Walk("scan", NextOf(cur))
        /\ nxt' = nxt /\ Set(cur, "state", "CLOSED") /\ NextOf(cur) \in Conns \cup {None}
    BY <1>1, <1>8, WalkFacts DEF CleanClosed, Holding, Scanning
  <2>2. \A c \in Conns : Stopped(c)' => Stopped(c) /\ c # cur
    BY <1>1, <2>1 DEF Set, Stopped, Flags
  <2> QED BY <1>2, <1>4, <2>1, <2>2
<1>9. CASE CleanReap
  <2>1. /\ pc[Cleaner] = "reap" /\ cur \in Conns /\ conn' = conn
        /\ \A c : Stopped(c)' <=> Stopped(c)
        /\ NextOf(cur) \in Conns \cup {None} /\ NextOf(cur) # cur
    BY <1>1, <1>9, WalkFacts, BeforeFacts DEF CleanReap, Stopped, Holding
  <2>2. \A c \in Conns : InList(c) /\ conn[c].state = "CLOSED" => Before(cur, c)
    BY <2>1 DEF ReapInv, Scanning
  <2>3. CASE Step(Cleaner, "reap", "remove") /\ nxt' = NextOf(cur)
             /\ UNCHANGED <<list, posts, cur>>
    <3>1. pc'[Cleaner] = "remove"
      BY <2>3, CleanerPlace
    <3>2. PICK k, n : k = cur /\ n = NextOf(cur)
      OBVIOUS
    <3>3. \A c \in Conns : InList(c) /\ conn[c].state = "CLOSED" => c = k \/ Before(n, c)
      BY <1>2, <2>2, <3>2
    <3> QED BY <2>1, <2>3, <3>1, <3>2, <3>3, CleanTurns DEF Scanning
  <2>4. CASE conn[cur].state # "CLOSED" /\ Walk("reap", NextOf(cur)) /\ nxt' = nxt
    <3>1. \A c \in Conns : InList(c) /\ conn[c].state = "CLOSED" =>
                             NextOf(cur) # None /\ Before(NextOf(cur), c)
      BY <1>2, <2>2, <2>4
    <3> QED BY <1>4, <2>1, <2>4, <3>1 DEF Scanning
  <2> QED BY <1>9, <2>3, <2>4 DEF CleanReap
<1>10. CASE CleanRemove
  <2>1. /\ pc[Cleaner] = "remove" /\ pc'[Cleaner] = "free" /\ Unlink(cur)
        /\ UNCHANGED <<conn, cur, nxt, posts, req>> /\ pc'[Main] = pc[Main]
        /\ nxt # cur
    BY <1>10, CleanerPlace DEF CleanRemove, ReapInv
  <2>2. /\ \A x : InList(x)' <=> InList(x) /\ x # cur
        /\ \A x, y : x # cur /\ y # cur /\ Before(x, y) => Before(x, y)'
    BY <2>1, UnlinkFacts
  <2>3. pc'[Main] \in Added /\ InList(req.conn)' =>
          \A x \in Conns : InList(x)' => Before(x, req.conn)'
    <3>1. PICK a : a = req.conn
      OBVIOUS
    <3>2. InList(req.conn)' <=> InList(a)'
      BY <2>1, <3>1 DEF InList
    <3>3. \A x : Before(x, req.conn)' <=> Before(x, a)'
      BY <2>1, <3>1 DEF Before
    <3>4. pc[Main] \in Added /\ InList(a) => \A x \in Conns : InList(x) => Before(x, a)
      BY <3>1 DEF ReapInv
    <3> QED BY <2>1, <2>2, <3>2, <3>3, <3>4
  <2>4. ASSUME NEW c \in Conns, InList(c)', Stopped(c)'
        PROVE  posts' > 0 \/ PendingPost(c)'
    <3>1. InList(c) /\ Stopped(c)
      BY <2>1, <2>2, <2>4 DEF Stopped
    <3>2. posts > 0 \/ PendingPost(c)
      BY <2>1, <3>1 DEF ReapInv, Scanning
    <3> QED BY <2>1, <3>2, CleanAside
  <2>5. ASSUME NEW c \in Conns, InList(c)', conn'[c].state = "CLOSED"
        PROVE  Before(nxt, c)'
    <3>1. PICK n : n = nxt
      OBVIOUS
    <3>2. InList(c) /\ c # cur /\ conn[c].state = "CLOSED"
      BY <2>1, <2>2, <2>5
    <3>3. Before(n, c)
      BY <2>1, <3>1, <3>2 DEF ReapInv, Scanning
    <3>4. Before(n, c)'
      BY <2>1, <2>2, <3>1, <3>2, <3>3
    <3> QED BY <2>1, <3>1, <3>4 DEF Before
  <2> QED BY <2>1, <2>3, <2>4, <2>5 DEF ReapInv
<1>11. CASE CleanFree
  <2>1. /\ pc[Cleaner] = "free" /\ pc'[Cleaner] = "relock" /\ cur \in Conns
        /\ UNCHANGED <<list, posts, cur, nxt>> /\ conn' = [conn EXCEPT ![cur] = Freed]
    BY <1>1, <1>11, CleanerPlace DEF CleanFree
  <2>2. \A c \in Conns : /\ conn'[c].state = conn[c].state \/ conn'[c].state = "INIT"
                         /\ Stopped(c)' => Stopped(c)
    BY <1>1, <2>1, BlankFacts DEF Stopped
  <2>3. PICK k, n : k = cur /\ n = nxt
    OBVIOUS
  <2>4. \A c \in Conns : InList(c) /\ conn[c].state = "CLOSED" => Before(n, c)
    <3>1. \A c \in Conns : InList(c) /\ conn[c].state = "CLOSED" => Before(nxt, c)
      BY <2>1 DEF ReapInv, Scanning
    <3> QED BY <2>3, <3>1
  <2> QED BY <2>1, <2>2, <2>3, <2>4, CleanTurns DEF Scanning
<1>12. CASE CleanRelock
  <2>1. /\ pc[Cleaner] = "relock" /\ Walk("reap", nxt) /\ conn' = conn
        /\ \A c : Stopped(c)' <=> Stopped(c)
        /\ nxt \in Conns \cup {None}
    BY <1>12 DEF CleanRelock, Stopped, OwnTypes
  <2>2. \A c \in Conns : InList(c) /\ conn[c].state = "CLOSED" => Before(nxt, c)
    BY <2>1 DEF ReapInv, Scanning
  <2>3. None \notin Conns
    BY ConnAssumption DEF Conns
  <2>4. \A c \in Conns : InList(c) /\ conn[c].state = "CLOSED" => nxt # None
    BY <2>2, <2>3, BeforeFacts
  <2> QED BY <1>4, <2>1, <2>2, <2>4 DEF Scanning
<1> QED BY <1>3, <1>5, <1>6, <1>7, <1>8, <1>9, <1>10, <1>11, <1>12 DEF CleanerThread

LEMMA ReapInit == Init => ReapInv
<1> SUFFICES ASSUME Init PROVE ReapInv
  OBVIOUS
<1>1. list = <<>> /\ pc[Cleaner] = "check"
  BY ThreadFacts DEF Init
<1>2. \A c : ~InList(c)
  BY <1>1 DEF InList
<1> QED BY <1>1, <1>2 DEF ReapInv

LEMMA ReapNext == OInv /\ RestTypes /\ ReapInv /\ [Next]_vars => ReapInv' \/ fault' # None
<1> SUFFICES ASSUME OInv, RestTypes, ReapInv, [Next]_vars, fault' = None PROVE ReapInv'
  OBVIOUS
<1>1. fault = None /\ IInv /\ OwnTypes /\ OwnParts
  BY Halted DEF OInv, vars
<1>2. ASSUME UNCHANGED <<conn, list, posts, pc, req, toStop, cur, nxt>> PROVE ReapInv'
  <2>1. \A t : Subject(t)' = Subject(t)
    BY <1>2 DEF Subject
  <2>2. \A c : PendingPost(c)' <=> PendingPost(c)
    BY <1>2, <2>1 DEF PendingPost
  <2>3. Announced
    BY <1>2, <2>2 DEF Announced, Stopped
  <2> QED BY <1>1, <1>2, <2>3, AnnouncedReap
<1>3. CASE UNCHANGED vars
  BY <1>2, <1>3 DEF vars
<1>4. CASE SigStop
  BY <1>2, <1>4 DEF SigStop, locals
<1>5. ASSUME NEW c \in Conns, RxThread(c) \/ ProcThread(c) \/ RxHears(c) PROVE ReapInv'
  BY <1>1, <1>5, WorkerCalm, WorkerReap, AnnouncedReap
<1>6. ASSUME NEW t \in Callers, Stop(t) PROVE ReapInv'
  BY <1>1, <1>6, StopCalm, StopReap, AnnouncedReap
<1>7. CASE CleanerThread
  BY <1>1, <1>7, CleanerReap
<1>8. CASE MainThread \/ ClientAsks
  <2>1. MainElsewhere \/ MainAdd \/ MainRemove \/ MainJoin
    BY <1>8 DEF MainThread, ImportFailed, MainShutdown, MainElsewhere
  <2> QED BY <1>1, <2>1, MainReap, MainListReap, AnnouncedReap
<1>9. ASSUME NEW t \in Threads, Fault(t) PROVE FALSE
  BY <1>1, <1>9, FaultLeaves
<1> QED BY <1>3, <1>4, <1>5, <1>6, <1>7, <1>8, <1>9 DEF Next

(* ConnCleanup never sleeps through work: when it waits and reap_sem is 0,  *)
(* every listed connection it could take apart or destroy still has a       *)
(* thread that has not posted (usbip_conn.c:261-263, 293, 482, 605-606,     *)
(* 664-665).                                                                *)
THEOREM WorkFound == Spec => []ReapNotLost
<1>1. OInv /\ RestTypes /\ (ReapInv \/ fault # None) => ReapNotLost
  <2> SUFFICES ASSUME OInv, ReapInv \/ fault # None, RestTypes,
                      pc[Cleaner] = "wait", posts = 0, NEW c \in Conns, InList(c),
                      Stopped(c) \/ conn[c].state = "CLOSED"
               PROVE  \E t \in Callers : Subject(t) = c /\ pc[t] \in PostPlaces
    BY DEF ReapNotLost, PostPlaces
  <2>1. ReapInv
    BY ThreadFacts DEF OInv
  <2>2. ~(posts > 0)
    OBVIOUS
  <2>3. Stopped(c) => PendingPost(c)
    BY <2>1, <2>2 DEF ReapInv, Scanning
  <2>4. conn[c].state # "CLOSED"
    BY <2>1 DEF ReapInv, Scanning
  <2> QED BY <2>3, <2>4 DEF PendingPost
<1>2. OInv /\ fault # None /\ [Next]_vars => fault' # None
  BY Halted DEF OInv, vars
<1>3. Spec => []RestTypes
  BY OwnAlways, RestInit, RestNext, PTL DEF Spec
<1> DEFINE F == fault # None
<1>4. OInv /\ F /\ [Next]_vars => F'
  BY <1>2
<1>5. OInv /\ RestTypes /\ ReapInv /\ [Next]_vars => ReapInv' \/ F'
  BY ReapNext
<1>6. OInv /\ RestTypes /\ (ReapInv \/ F) => ReapNotLost
  BY <1>1
<1> HIDE DEF F
<1> QED BY <1>3, <1>4, <1>5, <1>6, ReapInit, OwnAlways, PTL DEF Spec

-----------------------------------------------------------------------------
(* Where freed memory can be touched while import replies are delivered.    *)

(* The caller that made the connection CLOSING is at one of these.          *)
Closing == {"closeQueue", "lockQueue", "closeCtx", "clearCtx"}

Failed == {"failQueue", "failJoin", "failDestroy"}

(* Main stops one collected connection after the other; of the callers of   *)
(* request_stop only one per connection gets beyond the test of its state.  *)
StopsInv ==
  /\ toStop \in Seq(Conns)
  /\ pc[Main] \in StopPlaces <=> toStop # <<>>
  /\ pc[Cleaner] \notin StopPlaces
  /\ \A t \in Callers : pc[t] \in Closing =>
       /\ Subject(t) \in Conns
       /\ \/ conn[Subject(t)].state \in {"CLOSING", "CLOSED"}
          \/ conn[Subject(t)].mem = "freed"
  /\ \A t, u \in Callers : pc[t] \in Closing /\ pc[u] \in Closing
                           /\ Subject(t) = Subject(u) => t = u

(* A live connection points to a freed context only until the caller that   *)
(* freed it clears the pointer; Main's import has its context.              *)
HasCtx == {"op", "limit", "add", "bind", "close"} \cup Taken \cup Leaving

CtxInv ==
  /\ \A c \in Conns : Live(c) /\ conn[c].ptr /\ ctx[c] = "freed" =>
       \E t \in Callers : Subject(t) = c /\ pc[t] = "clearCtx"
  /\ pc[Main] \in HasCtx => req.conn \in Conns /\ ctx[req.conn] = "open"
  /\ pc[Main] = "close" => ~Live(req.conn)

(* A connection is taken back only before it is ACTIVE, with its threads    *)
(* gone, and destroyed by ConnCleanup only when they are past it.           *)
RxOff == Unborn \cup {"procStarted", "rxCreate"} \cup Failed \cup Leaving

MemInv ==
  /\ pc[Main] \in Leaving => Live(req.conn) /\ conn[req.conn].state = "INIT"
  /\ pc[Cleaner] \in {"remove", "free"} => Live(cur)
  /\ \A c \in Conns : conn[c].mem = "freed" =>
       /\ pc[Rx(c)] \in {"exitPost", "done", "off"}
       /\ pc[Proc(c)] \in {"exitPost", "log", "done", "off"}
  /\ \A c \in Conns : conn[c].mem = "none" => pc[Rx(c)] = "off" /\ pc[Proc(c)] = "off"
  /\ pc[Main] \in RxOff => pc[Rx(req.conn)] = "off"
  /\ pc[Main] \in Unborn => pc[Proc(req.conn)] = "off"
  /\ pc[Main] \in {"failDestroy"} \cup Leaving => pc[Proc(req.conn)] \in {"off", "done"}

(* If no thread creation fails no import is taken back, and what ConnCleanup*)
(* remembers stays in the list.                                             *)
StartedInv ==
  "thread" \notin Events =>
    /\ pc[Main] \notin Failed \cup Leaving \cup {"close"}
    /\ pc[Cleaner] = "reap" => InList(cur)
    /\ pc[Cleaner] \in {"remove", "free", "relock"} => nxt = None \/ InList(nxt)

KnownInv == StopsInv /\ CtxInv /\ MemInv /\ StartedInv

(* A thread of a connection that closes its queue finds it there.           *)
QueueInv ==
  \A c \in Conns :
    "lockQueue" \in {pc[Rx(c)], pc[Proc(c)]} => conn[c].queue # "none"

(* The connection Main works on, before it is ACTIVE.                       *)
LEMMA ImportConn ==
  ASSUME IInv, OwnTypes, OwnParts, KnownInv, pc[Main] \in HasCtx
  PROVE  /\ req.conn \in Conns
         /\ \/ conn[req.conn].mem \in {"none", "freed"}
            \/ conn[req.conn].state = "INIT" /\ Live(req.conn)
<1> USE DEF HasCtx
<1>1. req.conn \in Conns /\ conn[req.conn] \in Flags
  BY DEF KnownInv, CtxInv, IInv
<1>2. CASE pc[Main] \in {"op", "limit"}
  BY <1>1, <1>2 DEF IInv, ImportInv
<1>3. CASE pc[Main] \in {"add", "bind"} \cup Taken
  BY <1>1, <1>3 DEF OwnParts, StageInv
<1>4. CASE pc[Main] \in Leaving
  BY <1>1, <1>4 DEF KnownInv, MemInv
<1>5. CASE pc[Main] = "close"
  <2>1. conn[req.conn].mem # "live"
    BY <1>5 DEF KnownInv, CtxInv, Live
  <2> QED BY <1>1, <2>1 DEF Flags
<1> QED BY <1>1, <1>2, <1>3, <1>4, <1>5

(* What a step of a connection's thread may do.                             *)
LEMMA WorkerSteps ==
  ASSUME IInv, NEW c \in Conns, RxThread(c) \/ RxHears(c) \/ ProcThread(c)
  PROVE  /\ UNCHANGED <<ctx, list, req, toStop, cur, nxt>>
         /\ \A d \in Conns : /\ conn'[d].mem = conn[d].mem
                             /\ conn'[d].state = conn[d].state
                             /\ conn'[d].ptr = conn[d].ptr
         /\ \E t \in {Rx(c), Proc(c)}, b \in Places :
              /\ pc' = [pc EXCEPT ![t] = b]
              /\ pc[t] \notin Closing \cup {"off", "done"} /\ b \notin Closing
              /\ pc[t] = "exitPost" => b = IF t = Rx(c) THEN "done" ELSE "log"
              /\ pc[t] = "log" => b = "done"
<1> USE DEF Step, manager, devices, locals, Post, Closing
<1>1. conn \in [Conns -> Flags]
  BY DEF IInv
<1>2. Rx(c) # Proc(c)
  BY ThreadFacts
<1>3. CASE RxThread(c) \/ RxHears(c)
  <2>1. UNCHANGED <<ctx, list, req, toStop, cur, nxt>>
    BY <1>3 DEF RxThread, RxHears, RxLoop, RxRecv, RxShut, RxPush, RxExit, RxExitPost
  <2>2. \A d \in Conns : /\ conn'[d].mem = conn[d].mem
                         /\ conn'[d].state = conn[d].state /\ conn'[d].ptr = conn[d].ptr
    BY <1>1, <1>3 DEF RxThread, RxHears, RxLoop, RxRecv, RxShut, RxPush, RxExit, RxExitPost,
                      Set, Flags
  <2>3. \E b \in Places :
          /\ pc' = [pc EXCEPT ![Rx(c)] = b]
          /\ pc[Rx(c)] \notin Closing \cup {"off", "done", "log"} /\ b \notin Closing
          /\ pc[Rx(c)] = "exitPost" => b = "done"
    BY <1>3 DEF RxThread, RxHears, RxLoop, RxRecv, RxShut, RxPush, RxExit, RxExitPost, Places
  <2> QED BY <2>1, <2>2, <2>3
<1>4. CASE ProcThread(c)
  <2> USE DEF ProcThread, ProcLoop, ProcPop, ProcHandle, ProcSend, ProcExit, ProcClear,
              ProcExitPost, ProcLog
  <2>1. UNCHANGED <<ctx, list, req, toStop, cur, nxt>>
    BY <1>4
  <2>2. \A d \in Conns : /\ conn'[d].mem = conn[d].mem
                         /\ conn'[d].state = conn[d].state /\ conn'[d].ptr = conn[d].ptr
    BY <1>1, <1>4 DEF Set, Flags
  <2>3. \E b \in Places :
          /\ pc' = [pc EXCEPT ![Proc(c)] = b]
          /\ pc[Proc(c)] \notin Closing \cup {"off", "done"} /\ b \notin Closing
          /\ pc[Proc(c)] = "exitPost" => b = "log"
          /\ pc[Proc(c)] = "log" => b = "done"
    BY <1>4 DEF Places
  <2> QED BY <1>2, <2>1, <2>2, <2>3
<1> QED BY <1>3, <1>4

LEMMA SubjectStays ==
  ASSUME UNCHANGED <<req, toStop>>, NEW t \in Callers
  PROVE  Subject(t)' = Subject(t)
BY DEF Subject, Callers, Workers, Main, Cleaner

LEMMA WorkerKnown ==
  ASSUME IInv, OwnTypes, OwnParts, KnownInv, NEW c \in Conns,
         RxThread(c) \/ RxHears(c) \/ ProcThread(c)
  PROVE  KnownInv'
<1>1. /\ UNCHANGED <<ctx, list, req, toStop, cur, nxt>>
      /\ \A d \in Conns : /\ conn'[d].mem = conn[d].mem
                          /\ conn'[d].state = conn[d].state
                          /\ conn'[d].ptr = conn[d].ptr
  BY WorkerSteps
<1>2. PICK t \in {Rx(c), Proc(c)}, b \in Places :
        /\ pc' = [pc EXCEPT ![t] = b]
        /\ pc[t] \notin Closing \cup {"off", "done"} /\ b \notin Closing
        /\ pc[t] = "exitPost" => b = IF t = Rx(c) THEN "done" ELSE "log"
        /\ pc[t] = "log" => b = "done"
  BY WorkerSteps
<1>3. pc \in [Threads -> Places]
  BY DEF IInv
<1>4. t \in Threads /\ t # Main /\ t # Cleaner
  BY ThreadFacts
<1>5. pc'[t] = b /\ \A s \in Threads : s # t => pc'[s] = pc[s]
  BY <1>2, <1>3, <1>4
<1>6. pc'[Main] = pc[Main] /\ pc'[Cleaner] = pc[Cleaner]
  BY <1>4, <1>5, ThreadFacts
<1>7. \A s \in Callers :
        /\ Subject(s)' = Subject(s)
        /\ pc'[s] \in Closing \/ pc[s] \in Closing => pc'[s] = pc[s]
  <2>1. Callers \subseteq Threads
    BY DEF Callers, Threads
  <2> QED BY <1>1, <1>2, <1>5, <2>1, SubjectStays
<1> USE DEF KnownInv
<1>8. StopsInv'
  <2>1. /\ toStop' \in Seq(Conns) /\ (pc'[Main] \in StopPlaces <=> toStop' # <<>>)
        /\ pc'[Cleaner] \notin StopPlaces
    BY <1>1, <1>6 DEF StopsInv
  <2>2. \A s \in Callers : pc'[s] \in Closing =>
          /\ Subject(s)' \in Conns
          /\ \/ conn'[Subject(s)'].state \in {"CLOSING", "CLOSED"}
             \/ conn'[Subject(s)'].mem = "freed"
    BY <1>1, <1>7 DEF StopsInv
  <2>3. \A s, u \in Callers : pc'[s] \in Closing /\ pc'[u] \in Closing
                           /\ Subject(s)' = Subject(u)' => s = u
    BY <1>7 DEF StopsInv
  <2> QED BY <2>1, <2>2, <2>3 DEF StopsInv
<1>9. CtxInv'
  <2>1. \A d \in Conns : Live(d)' /\ conn'[d].ptr /\ ctx'[d] = "freed" =>
          \E s \in Callers : Subject(s)' = d /\ pc'[s] = "clearCtx"
    BY <1>1, <1>7 DEF CtxInv, Live, Closing
  <2>2. pc'[Main] \in HasCtx => req'.conn \in Conns /\ ctx'[req'.conn] = "open"
    BY <1>1, <1>6 DEF CtxInv
  <2>3. pc'[Main] = "close" => conn'[req'.conn].mem # "live"
    <3>1. pc[Main] = "close" => req.conn \in Conns /\ conn[req.conn].mem # "live"
      BY DEF CtxInv, HasCtx, Live
    <3> QED BY <1>1, <1>6, <3>1
  <2> QED BY <2>1, <2>2, <2>3 DEF CtxInv, Live
<1>10. MemInv'
  <2>1. pc[Main] \in RxOff \cup {"failDestroy"} => req.conn \in Conns
    BY DEF OwnParts, StageInv, Importing, Early, RxOff, Unborn, Failed, Leaving, Taken,
           Made, CtxInv, HasCtx
  <2>2. pc[Main] \in RxOff => pc'[Rx(req.conn)] = "off"
    <3>1. pc[Main] \in RxOff => pc[Rx(req.conn)] = "off" /\ Rx(req.conn) \in Threads
      BY <2>1, ThreadFacts DEF MemInv
    <3> QED BY <1>2, <1>5, <3>1
  <2>3. /\ pc[Main] \in Unborn => pc'[Proc(req.conn)] = "off"
        /\ pc[Main] \in {"failDestroy"} \cup Leaving => pc'[Proc(req.conn)] \in {"off", "done"}
    <3>1. pc[Main] \in Unborn \cup {"failDestroy"} \cup Leaving =>
            /\ Proc(req.conn) \in Threads /\ pc[Proc(req.conn)] \in {"off", "done"}
            /\ pc[Main] \in Unborn => pc[Proc(req.conn)] = "off"
      BY <2>1, ThreadFacts DEF MemInv, RxOff, Failed
    <3>2. pc[Main] \in Unborn \cup {"failDestroy"} \cup Leaving =>
            pc'[Proc(req.conn)] = pc[Proc(req.conn)]
      BY <1>2, <1>5, <3>1
    <3> QED BY <3>1, <3>2
  <2>4. ASSUME NEW d \in Conns
        PROVE /\ conn[d].mem = "freed" =>
                   /\ pc'[Rx(d)] \in {"exitPost", "done", "off"}
                   /\ pc'[Proc(d)] \in {"exitPost", "log", "done", "off"}
              /\ conn[d].mem = "none" => pc'[Rx(d)] = "off" /\ pc'[Proc(d)] = "off"
    <3>1. Rx(d) \in Threads /\ Proc(d) \in Threads /\ Rx(d) # Proc(c)
          /\ Proc(d) # Rx(c)
      BY ThreadFacts
    <3>2. pc'[Rx(d)] = pc[Rx(d)] \/ (t = Rx(d) /\ d = c /\ pc'[Rx(d)] = b)
      BY <1>2, <1>5, <3>1, ThreadFacts
    <3>3. pc'[Proc(d)] = pc[Proc(d)] \/ (t = Proc(d) /\ d = c /\ pc'[Proc(d)] = b)
      BY <1>2, <1>5, <3>1, ThreadFacts
    <3> QED BY <1>2, <3>1, <3>2, <3>3 DEF MemInv
  <2>5. (pc[Main] \in Leaving => Live(req.conn) /\ conn[req.conn].state = "INIT")'
    <3>1. pc[Main] \in Leaving => /\ req.conn \in Conns /\ conn[req.conn].mem = "live"
                                  /\ conn[req.conn].state = "INIT"
      BY <2>1 DEF MemInv, Live, RxOff
    <3> QED BY <1>1, <1>6, <3>1 DEF Live
  <2>6. (pc[Cleaner] \in {"remove", "free"} => Live(cur))'
    <3>1. pc[Cleaner] \in {"remove", "free"} => cur \in Conns /\ conn[cur].mem = "live"
      BY DEF MemInv, Live, OwnParts, ListInv
    <3> QED BY <1>1, <1>6, <3>1 DEF Live
  <2> QED BY <1>1, <1>6, <2>2, <2>3, <2>4, <2>5, <2>6 DEF MemInv
<1>11. StartedInv'
  <2>1. (InList(cur)' <=> InList(cur)) /\ (InList(nxt)' <=> InList(nxt))
    BY <1>1 DEF InList
  <2> QED BY <1>1, <1>6, <2>1 DEF StartedInv
<1> QED BY <1>8, <1>9, <1>10, <1>11

(* The steps of request_stop, on u.                                         *)
StopForms(t, u) ==
  \/ /\ pc[t] = "mark" /\ conn[u].state = "ACTIVE" /\ pc'[t] = "closeQueue"
     /\ conn'[u].state = "CLOSING" /\ \A c \in Conns : conn'[c].ptr = conn[c].ptr
     /\ UNCHANGED <<ctx, toStop>>
  \/ /\ \/ pc[t] = "closeQueue" /\ pc'[t] \in {"lockQueue", "closeCtx"}
        \/ pc[t] = "lockQueue" /\ pc'[t] = "closeCtx"
     /\ \A c \in Conns : conn'[c].state = conn[c].state /\ conn'[c].ptr = conn[c].ptr
     /\ UNCHANGED <<ctx, toStop>>
  \/ /\ pc[t] = "closeCtx" /\ pc'[t] = "clearCtx"
     /\ ctx' = [ctx EXCEPT ![u] = "freed"]
     /\ UNCHANGED <<conn, toStop>>
  \/ /\ pc[t] \in {"mark", "closeCtx", "clearCtx"} /\ StopReturns(t)
     /\ \A c \in Conns : /\ conn'[c].state = conn[c].state
                         /\ conn'[c].ptr = IF c = u /\ pc[t] = "clearCtx" THEN FALSE
                                           ELSE conn[c].ptr
     /\ UNCHANGED ctx

LEMMA StopSteps ==
  ASSUME IInv, NEW t \in Callers, Stop(t), NEW u \in Conns, u = Subject(t)
  PROVE  /\ StopForms(t, u) /\ Live(u) /\ pc[t] \in StopPlaces
         /\ \A c \in Conns : /\ conn'[c].mem = conn[c].mem
                             /\ c # u => conn'[c].state = conn[c].state
         /\ \A s \in Threads : s # t => pc'[s] = pc[s]
<1> USE DEF Step, manager, devices, locals, Post, StopForms, StopPlaces
<1>1. conn \in [Conns -> Flags] /\ pc \in [Threads -> Places] /\ t \in Threads
  BY DEF IInv, Callers, Threads
<1>2. \A s \in Threads : s # t => pc'[s] = pc[s]
  BY <1>1 DEF Stop, StopMark, StopCloseQueue, StopSignalQueue, StopCloseCtx, StopClearCtx,
              StopReturns
<1>3. CASE StopMark(t)
  <2>1. CASE conn[u].state = "ACTIVE"
    <3>1. /\ pc[t] = "mark" /\ pc'[t] = "closeQueue" /\ Live(u)
          /\ conn' = [conn EXCEPT ![u].state = "CLOSING", ![u].running = FALSE]
          /\ UNCHANGED <<ctx, toStop>>
      BY <1>1, <1>3, <2>1 DEF StopMark
    <3>2. \A c \in Conns : /\ conn'[c].mem = conn[c].mem /\ conn'[c].ptr = conn[c].ptr
                           /\ conn'[c].state = IF c = u THEN "CLOSING" ELSE conn[c].state
      BY <1>1, <3>1 DEF Flags
    <3> QED BY <1>2, <2>1, <3>1, <3>2
  <2>2. CASE conn[u].state # "ACTIVE"
    BY <1>2, <1>3, <2>2 DEF StopMark
  <2> QED BY <2>1, <2>2
<1>4. CASE StopCloseQueue(t)
  BY <1>1, <1>2, <1>4 DEF StopCloseQueue
<1>7. CASE StopSignalQueue(t)
  <2>1. \A c \in Conns : /\ conn'[c].mem = conn[c].mem /\ conn'[c].state = conn[c].state
                         /\ conn'[c].ptr = conn[c].ptr
    BY <1>1, <1>7 DEF StopSignalQueue, Set, Flags
  <2>2. /\ pc[t] = "lockQueue" /\ pc'[t] = "closeCtx" /\ Live(u)
        /\ UNCHANGED <<ctx, toStop>>
    BY <1>1, <1>7 DEF StopSignalQueue
  <2> QED BY <1>2, <2>1, <2>2
<1>5. CASE StopCloseCtx(t)
  BY <1>1, <1>2, <1>5 DEF StopCloseCtx, CloseCtx
<1>6. CASE StopClearCtx(t)
  <2>1. \A c \in Conns : /\ conn'[c].mem = conn[c].mem /\ conn'[c].state = conn[c].state
                         /\ conn'[c].ptr = IF c = u THEN FALSE ELSE conn[c].ptr
    BY <1>1, <1>6 DEF StopClearCtx, Set, Flags
  <2> QED BY <1>2, <1>6, <2>1 DEF StopClearCtx
<1> QED BY <1>3, <1>4, <1>5, <1>6, <1>7 DEF Stop

(* The caller is done with a connection.                                    *)
LEMMA ReturnFacts ==
  ASSUME IInv, StopsInv, NEW t \in Callers, StopReturns(t), pc[t] \in StopPlaces
  PROVE  /\ pc'[t] \in {"exit", "mark", "halt"}
         /\ toStop' \in Seq(Conns)
         /\ pc'[Main] \in StopPlaces <=> toStop' # <<>>
<1>1. pc \in [Threads -> Places] /\ t \in Threads /\ Main \in Threads
  BY DEF IInv, Callers, Threads
<1>2. CASE t # Main
  BY <1>1, <1>2 DEF StopReturns, StopsInv
<1>3. CASE t = Main
  <2>1. toStop \in Seq(Conns) /\ toStop # <<>>
    BY <1>3 DEF StopsInv
  <2>2. Len(toStop) \in Nat \ {0} /\ toStop' = Tail(toStop)
        /\ pc'[Main] = IF Len(toStop) > 1 THEN "mark" ELSE "halt"
    BY <1>1, <1>3, <2>1, EmptySeq, LenProperties DEF StopReturns
  <2>3. toStop' \in Seq(Conns) /\ Len(toStop') = Len(toStop) - 1
    BY <2>1, <2>2, HeadTailProperties
  <2>4. toStop' # <<>> <=> Len(toStop) > 1
    <3>1. toStop' = <<>> <=> Len(toStop') = 0
      BY <2>3, EmptySeq
    <3> QED BY <2>2, <2>3, <3>1
  <2> QED BY <1>3, <2>2, <2>3, <2>4 DEF StopPlaces
<1> QED BY <1>2, <1>3

(* A caller's subject is a connection.                                      *)
LEMMA StopSubject ==
  ASSUME StopsInv, NEW t \in Callers, pc[t] \in StopPlaces
  PROVE  Subject(t) \in Conns
<1>1. CASE t = Main
  <2>1. toStop \in Seq(Conns) /\ toStop # <<>>
    BY <1>1 DEF StopsInv
  <2>2. Head(toStop) \in Conns
    BY <2>1, HeadTailProperties
  <2> QED BY <1>1, <2>1, <2>2 DEF Subject
<1>2. CASE t # Main
  BY <1>2 DEF Subject, Callers, Workers, Main, Cleaner
<1> QED BY <1>1, <1>2

LEMMA StopKnown ==
  ASSUME IInv, OwnTypes, OwnParts, RestTypes, KnownInv, NEW t \in Callers, Stop(t)
  PROVE  KnownInv'
<1> USE DEF KnownInv
<1>1. pc[t] \in StopPlaces /\ UNCHANGED req
  BY StopEffect
<1>2. PICK u \in Conns : u = Subject(t)
  BY <1>1, StopSubject
<1>3. /\ StopForms(t, u) /\ Live(u)
      /\ \A c \in Conns : /\ conn'[c].mem = conn[c].mem
                          /\ c # u => conn'[c].state = conn[c].state
      /\ \A s \in Threads : s # t => pc'[s] = pc[s]
  BY <1>2, StopSteps
<1>4. t \in Threads /\ t # Cleaner /\ Callers \subseteq Threads /\ Main \in Callers
  BY DEF Callers, Threads, Workers, Cleaner, Main
<1>5. pc'[Cleaner] = pc[Cleaner] /\ UNCHANGED <<list, cur, nxt>>
  BY StopCalm
<1>6. pc'[t] \in {"closeQueue", "lockQueue", "closeCtx", "clearCtx", "exit", "mark", "halt"}
  BY <1>1, <1>3, ReturnFacts DEF StopForms
<1>7. \A s \in Callers : s # t => pc'[s] = pc[s] /\ Subject(s)' = Subject(s)
  <2>1. \A s \in Callers : s # Main => Subject(s)' = Subject(s)
    BY <1>4 DEF Subject, Callers, Workers, Cleaner, Main
  <2>2. t # Main => toStop' = toStop
    BY <1>3 DEF StopForms, StopReturns
  <2>3. t # Main => Subject(Main)' = Subject(Main)
    BY <1>1, <2>2 DEF Subject
  <2> QED BY <1>3, <1>4, <2>1, <2>3
<1>8. pc'[t] \in Closing => /\ Subject(t)' = u
                            /\ conn'[u].state \in {"CLOSING", "CLOSED"}
                            /\ pc[t] \in Closing \/ conn[u].state = "ACTIVE"
  <2>1. CASE StopReturns(t)
    BY <1>1, <2>1, ReturnFacts DEF Closing
  <2>2. CASE toStop' = toStop /\ ~StopReturns(t)
    <3>1. Subject(t)' = u
      BY <1>1, <1>2, <2>2, SubjectStays
    <3>2. pc[t] \in Closing => conn[u].state \in {"CLOSING", "CLOSED"}
      BY <1>2, <1>3 DEF StopsInv, Live
    <3> QED BY <1>3, <2>2, <3>1, <3>2 DEF StopForms, Closing
  <2> QED BY <1>3, <2>1, <2>2 DEF StopForms
<1>9. pc'[Main] \in HasCtx \cup RxOff \cup {"failDestroy"} => t # Main /\ pc'[Main] = pc[Main]
  BY <1>3, <1>4, <1>6 DEF HasCtx, Taken, Made, Leaving, RxOff, Unborn, Failed
<1>10. pc[Main] \in HasCtx => /\ req.conn \in Conns
                              /\ conn'[req.conn].state = conn[req.conn].state
                              /\ ctx'[req.conn] = ctx[req.conn]
  <2> SUFFICES ASSUME pc[Main] \in HasCtx
               PROVE  /\ req.conn \in Conns
                      /\ conn'[req.conn].state = conn[req.conn].state
                      /\ ctx'[req.conn] = ctx[req.conn]
    OBVIOUS
  <2>1. /\ req.conn \in Conns
        /\ conn[req.conn].mem # "live" \/ conn[req.conn].state = "INIT"
    BY ImportConn
  <2>2. conn'[req.conn].state = conn[req.conn].state
    BY <1>3, <2>1 DEF StopForms, Live
  <2>3. ctx' = ctx \/ (ctx' = [ctx EXCEPT ![u] = "freed"] /\ pc[t] \in Closing)
    BY <1>3 DEF StopForms, Closing
  <2>4. pc[t] \in Closing => conn[u].state \in {"CLOSING", "CLOSED"} /\ conn[u].mem = "live"
    BY <1>2, <1>3 DEF StopsInv, Live
  <2>5. ctx \in [Conns -> {"none", "open", "freed"}]
    BY DEF RestTypes
  <2> QED BY <2>1, <2>2, <2>3, <2>4, <2>5
<1>11. StopsInv'
  <2>1. toStop' \in Seq(Conns) /\ (pc'[Main] \in StopPlaces <=> toStop' # <<>>)
    <3>1. CASE StopReturns(t)
      BY <1>1, <3>1, ReturnFacts
    <3>2. CASE ~StopReturns(t)
      <4>1. toStop' = toStop /\ pc'[t] \in StopPlaces
        BY <1>3, <3>2 DEF StopForms, StopPlaces
      <4>2. pc'[Main] \in StopPlaces <=> pc[Main] \in StopPlaces
        BY <1>1, <1>3, <1>4, <4>1
      <4> QED BY <4>1, <4>2 DEF StopsInv
    <3> QED BY <3>1, <3>2
  <2>2. ASSUME NEW s \in Callers, pc'[s] \in Closing
        PROVE  /\ Subject(s)' \in Conns
               /\ \/ conn'[Subject(s)'].state \in {"CLOSING", "CLOSED"}
                  \/ conn'[Subject(s)'].mem = "freed"
    <3>1. CASE s = t
      BY <1>2, <1>8, <2>2, <3>1
    <3>2. CASE s # t
      <4>1. PICK x \in Conns : x = Subject(s) /\ x = Subject(s)'
        BY <1>7, <2>2, <3>2 DEF StopsInv
      <4>2. conn[x].state \in {"CLOSING", "CLOSED"} \/ conn[x].mem = "freed"
        BY <1>7, <2>2, <3>2, <4>1 DEF StopsInv
      <4>3. conn'[x].state \in {"CLOSING", "CLOSED"} \/ conn'[x].mem = "freed"
        BY <1>3, <4>2 DEF StopForms
      <4> QED BY <4>1, <4>3
    <3> QED BY <3>1, <3>2
  <2>3. ASSUME NEW s \in Callers, s # t, pc'[s] \in Closing, pc'[t] \in Closing,
               Subject(s)' = Subject(t)'
        PROVE  FALSE
    <3>1. pc[s] \in Closing /\ Subject(s) = u
      BY <1>7, <1>8, <2>3
    <3>2. conn[u].state # "ACTIVE"
      BY <1>3, <3>1 DEF StopsInv, Live
    <3> QED BY <1>2, <1>8, <2>3, <3>1, <3>2 DEF StopsInv
  <2>4. ASSUME NEW s \in Callers, NEW v \in Callers, pc'[s] \in Closing, pc'[v] \in Closing,
               Subject(s)' = Subject(v)'
        PROVE  s = v
    <3>1. CASE s # t /\ v # t
      BY <1>7, <2>4, <3>1 DEF StopsInv
    <3>2. CASE s = t
      BY <2>3, <2>4, <3>2
    <3>3. CASE v = t
      BY <2>3, <2>4, <3>3
    <3> QED BY <3>1, <3>2, <3>3
  <2> QED BY <1>5, <2>1, <2>2, <2>4 DEF StopsInv
<1>12. CtxInv'
  <2>1. ASSUME NEW c \in Conns, conn'[c].mem = "live", conn'[c].ptr, ctx'[c] = "freed"
        PROVE  \E s \in Callers : Subject(s)' = c /\ pc'[s] = "clearCtx"
    <3>1. conn[c].mem = "live" /\ conn[c].ptr
      BY <1>3, <2>1 DEF StopForms
    <3>2. CASE ctx[c] = "freed"
      <4>1. PICK s \in Callers : Subject(s) = c /\ pc[s] = "clearCtx"
        BY <3>1, <3>2 DEF CtxInv, Live
      <4>2. s # t
        BY <1>2, <1>3, <2>1, <4>1 DEF StopForms
      <4> QED BY <1>7, <4>1, <4>2
    <3>3. CASE ctx[c] # "freed"
      <4>1. c = u /\ pc'[t] = "clearCtx"
        BY <1>3, <2>1, <3>3 DEF StopForms, RestTypes
      <4> QED BY <1>8, <4>1 DEF Closing
    <3> QED BY <3>2, <3>3
  <2>2. pc'[Main] \in HasCtx => req'.conn \in Conns /\ ctx'[req'.conn] = "open"
    BY <1>1, <1>9, <1>10 DEF CtxInv
  <2>3. pc'[Main] = "close" => conn'[req'.conn].mem # "live"
    <3>1. pc[Main] = "close" => req.conn \in Conns /\ conn[req.conn].mem # "live"
      BY DEF CtxInv, HasCtx, Live
    <3> QED BY <1>1, <1>3, <1>9, <3>1 DEF HasCtx
  <2> QED BY <2>1, <2>2, <2>3 DEF CtxInv, Live
<1>13. MemInv'
  <2>1. pc[Main] \in RxOff \cup {"failDestroy"} => req.conn \in Conns
    BY DEF OwnParts, StageInv, Importing, Early, RxOff, Unborn, Failed, Leaving, Taken,
           Made, CtxInv, HasCtx
  <2>2. (pc[Main] \in Leaving => Live(req.conn) /\ conn[req.conn].state = "INIT")'
    <3>1. pc[Main] \in Leaving => /\ req.conn \in Conns /\ conn[req.conn].mem = "live"
                                  /\ conn[req.conn].state = "INIT"
      BY <2>1 DEF MemInv, Live, RxOff
    <3> QED BY <1>1, <1>3, <1>9, <1>10, <3>1 DEF Live, HasCtx
  <2>3. (pc[Cleaner] \in {"remove", "free"} => Live(cur))'
    <3>1. pc[Cleaner] \in {"remove", "free"} => cur \in Conns /\ conn[cur].mem = "live"
      BY DEF MemInv, Live, OwnParts, ListInv
    <3> QED BY <1>3, <1>5, <3>1 DEF Live
  <2>4. ASSUME NEW c \in Conns, conn[c].mem # "live"
        PROVE  pc'[Rx(c)] = pc[Rx(c)] /\ pc'[Proc(c)] = pc[Proc(c)]
    BY <1>2, <1>3, <2>4, ThreadFacts, CallerFacts DEF Live
  <2>5. \A c \in Conns : conn'[c].mem = "freed" =>
          /\ pc'[Rx(c)] \in {"exitPost", "done", "off"}
          /\ pc'[Proc(c)] \in {"exitPost", "log", "done", "off"}
    BY <1>3, <2>4 DEF MemInv
  <2>6. \A c \in Conns : conn'[c].mem = "none" => pc'[Rx(c)] = "off" /\ pc'[Proc(c)] = "off"
    BY <1>3, <2>4 DEF MemInv
  <2>7. pc'[Main] \in RxOff => pc'[Rx(req.conn)] = "off"
    <3>1. pc[Main] \in RxOff => pc[Rx(req.conn)] = "off" /\ Rx(req.conn) \in Threads
      BY <2>1, ThreadFacts DEF MemInv
    <3> QED BY <1>1, <1>3, <1>9, <3>1 DEF StopPlaces
  <2>8. /\ pc'[Main] \in Unborn => pc'[Proc(req.conn)] = "off"
        /\ pc'[Main] \in {"failDestroy"} \cup Leaving => pc'[Proc(req.conn)] \in {"off", "done"}
    <3>1. pc[Main] \in Unborn \cup {"failDestroy"} \cup Leaving =>
            /\ Proc(req.conn) \in Threads /\ pc[Proc(req.conn)] \in {"off", "done"}
            /\ pc[Main] \in Unborn => pc[Proc(req.conn)] = "off"
      BY <2>1, ThreadFacts DEF MemInv, RxOff, Failed
    <3>2. pc[Main] \in Unborn \cup {"failDestroy"} \cup Leaving =>
            pc'[Proc(req.conn)] = pc[Proc(req.conn)]
      BY <1>1, <1>3, <3>1 DEF StopPlaces
    <3>3. pc'[Main] \in Unborn \cup {"failDestroy"} \cup Leaving => pc'[Main] = pc[Main]
      BY <1>9 DEF RxOff
    <3>4. pc[Main] \in {"failDestroy"} \cup Leaving => pc[Proc(req.conn)] \in {"off", "done"}
      BY DEF MemInv
    <3> QED BY <3>1, <3>2, <3>3, <3>4
  <2> QED BY <1>1, <2>2, <2>3, <2>5, <2>6, <2>7, <2>8 DEF MemInv
<1>14. StartedInv'
  <2>1. (InList(cur)' <=> InList(cur)) /\ (InList(nxt)' <=> InList(nxt))
    BY <1>5 DEF InList
  <2>2. pc'[Main] \in Failed \cup Leaving \cup {"close"} => pc'[Main] = pc[Main]
    BY <1>9 DEF RxOff, HasCtx
  <2> QED BY <1>5, <2>1, <2>2 DEF StartedInv
<1> QED BY <1>11, <1>12, <1>13, <1>14

(* A step of Main outside request_stop.  It changes a connection only while *)
(* it imports it, before the connection is ACTIVE.                          *)
Kept(c) == /\ conn'[c].mem = conn[c].mem /\ conn'[c].state = conn[c].state
           /\ conn'[c].ptr = conn[c].ptr

Turned ==
  /\ pc[Main] \notin StopPlaces /\ pc'[Main] \notin Closing
  /\ toStop' \in Seq(Conns) /\ (pc'[Main] \in StopPlaces <=> toStop' # <<>>)
  /\ pc'[Cleaner] = pc[Cleaner] /\ UNCHANGED <<cur, nxt>>
  /\ \A s \in Workers : \/ pc'[s] = pc[s]
                        \/ /\ pc[s] = "off" /\ pc'[s] = "loop"
                           /\ conn'[s[2]].mem = "live"
  /\ \A c \in Conns :
       \/ Kept(c)
       \/ /\ c = req.conn /\ pc[Main] \in HasCtx \ {"close"}
          /\ \/ conn'[c].mem = "live"
             \/ conn'[c].mem = "freed" /\ pc[Main] = "free"
  /\ \A c \in Conns : ctx'[c] = "freed" =>
       ctx[c] = "freed" \/ (c = req.conn /\ pc[Main] = "close")
  /\ pc'[Main] \in HasCtx =>
       /\ req'.conn \in Conns /\ ctx'[req'.conn] = "open"
       /\ \/ pc[Main] \in HasCtx /\ pc'[Main] # "op" /\ req'.conn = req.conn
          \/ pc[Main] = "accept" /\ pc'[Main] = "op" /\ conn[req'.conn].mem = "none"
  /\ pc'[Main] = "close" => conn'[req'.conn].mem # "live"
  /\ pc'[Main] \in Leaving => pc[Main] \in Leaving \cup {"failDestroy"} /\ Kept(req.conn)
  /\ pc'[Main] \in RxOff \ {"op"} =>
       pc[Main] \in RxOff /\ pc'[Rx(req.conn)] = pc[Rx(req.conn)]
  /\ pc'[Main] \in Unborn \ {"op"} =>
       pc[Main] \in Unborn /\ pc'[Proc(req.conn)] = pc[Proc(req.conn)]
  /\ pc'[Main] \in {"failDestroy"} \cup Leaving =>
       pc'[Proc(req.conn)] \in {"off", "done"}
  /\ "thread" \in Events
     \/ /\ pc'[Main] \in Failed \cup Leaving \cup {"close"} =>
             pc[Main] \in Failed \cup Leaving \cup {"close"}
        /\ pc[Cleaner] = "done" \/ \A c : InList(c) => InList(c)'

(* No thread of the connection Main imports is in request_stop.             *)
LEMMA ImportQuiet ==
  ASSUME IInv, OwnTypes, OwnParts, KnownInv, pc[Main] \in HasCtx \ {"close"},
         NEW s \in Workers, s[2] = req.conn
  PROVE  pc[s] \notin Closing
<1>1. s \in Callers /\ Subject(s) = s[2]
  BY DEF Callers, Subject, Workers, Main, Cleaner
<1>2. CASE pc[Main] \in {"op", "limit"}
  <2>1. conn[req.conn].mem = "none" /\ req.conn \in Conns
    BY <1>2 DEF IInv, ImportInv
  <2>2. pc[Rx(req.conn)] = "off" /\ pc[Proc(req.conn)] = "off"
    BY <2>1 DEF KnownInv, MemInv
  <2>3. s = Rx(req.conn) \/ s = Proc(req.conn)
    BY DEF Workers, Rx, Proc
  <2> QED BY <2>2, <2>3 DEF Closing
<1>3. CASE pc[Main] \notin {"op", "limit"}
  <2>1. req.conn \in Conns /\ Live(req.conn) /\ conn[req.conn].state = "INIT"
    BY <1>3 DEF KnownInv, MemInv, OwnParts, StageInv, HasCtx, Importing, Early
  <2> QED BY <1>1, <2>1 DEF KnownInv, StopsInv, Live
<1> QED BY <1>2, <1>3

LEMMA TurnKnown ==
  ASSUME IInv, OwnTypes, OwnParts, KnownInv, Turned
  PROVE  KnownInv'
<1>1. pc \in [Threads -> Places]
  BY DEF IInv
<1>2. \A s \in Workers : s \in Callers /\ s # Main /\ Subject(s) = s[2] /\ s[2] \in Conns
                         /\ Subject(s)' = s[2]
  BY DEF Callers, Subject, Workers, Main, Cleaner
<1>3. Callers = Workers \cup {Main}
  BY DEF Callers
<1>4. pc[Main] \notin Closing
  BY DEF Turned, StopPlaces, Closing
<1>5. \A s \in Workers : pc'[s] \in Closing => pc[s] = pc'[s]
  BY DEF Turned, Closing
<1>6. \A s \in Workers : pc'[s] \in Closing => Kept(s[2])
  BY <1>2, <1>5, ImportQuiet DEF Turned
<1>7. StopsInv'
  <2>1. ASSUME NEW s \in Callers, pc'[s] \in Closing
        PROVE  /\ s \in Workers /\ Subject(s)' \in Conns
               /\ \/ conn'[Subject(s)'].state \in {"CLOSING", "CLOSED"}
                  \/ conn'[Subject(s)'].mem = "freed"
    <3>1. s \in Workers
      BY <1>3, <2>1 DEF Turned
    <3>2. PICK x \in Conns : x = s[2]
      BY <1>2, <3>1
    <3>3. conn[x].state \in {"CLOSING", "CLOSED"} \/ conn[x].mem = "freed"
      BY <1>2, <1>5, <2>1, <3>1, <3>2 DEF KnownInv, StopsInv
    <3> QED BY <1>2, <1>6, <2>1, <3>1, <3>2, <3>3 DEF Kept
  <2>2. \A s, u \in Callers : pc'[s] \in Closing /\ pc'[u] \in Closing
                           /\ Subject(s)' = Subject(u)' => s = u
    BY <1>2, <1>5, <2>1 DEF KnownInv, StopsInv
  <2> QED BY <2>1, <2>2 DEF StopsInv, Turned, KnownInv
<1>8. CtxInv'
  <2>1. ASSUME NEW c \in Conns, conn'[c].mem = "live", conn'[c].ptr, ctx'[c] = "freed"
        PROVE  \E s \in Callers : Subject(s)' = c /\ pc'[s] = "clearCtx"
    <3>1. ~(c = req.conn /\ pc[Main] \in HasCtx)
      <4>1. SUFFICES ASSUME c = req.conn, pc[Main] \in HasCtx PROVE FALSE
        OBVIOUS
      <4>2. ctx[c] = "open"
        BY <4>1 DEF KnownInv, CtxInv
      <4>3. pc[Main] = "close" /\ Kept(c)
        BY <2>1, <4>1, <4>2 DEF Turned
      <4> QED BY <2>1, <4>1, <4>3 DEF KnownInv, CtxInv, Kept, Live
    <3>2. Live(c) /\ conn[c].ptr /\ ctx[c] = "freed"
      BY <2>1, <3>1 DEF Turned, Kept, Live, HasCtx
    <3>3. PICK s \in Callers : Subject(s) = c /\ pc[s] = "clearCtx"
      BY <3>2 DEF KnownInv, CtxInv
    <3>4. s \in Workers
      BY <1>3, <1>4, <3>3 DEF Closing
    <3>5. pc'[s] = "clearCtx"
      BY <3>3, <3>4 DEF Turned
    <3> QED BY <1>2, <3>3, <3>4, <3>5
  <2> QED BY <2>1 DEF CtxInv, Turned, Live
<1>9. MemInv'
  <2>1. (pc[Main] \in Leaving => Live(req.conn) /\ conn[req.conn].state = "INIT")'
    <3>1. pc'[Main] \in Leaving => /\ conn[req.conn].mem = "live"
                                   /\ conn[req.conn].state = "INIT"
      BY DEF Turned, KnownInv, MemInv, Live, OwnParts, StageInv, Leaving, Taken, Made
    <3>2. pc'[Main] \in Leaving => req'.conn = req.conn /\ Kept(req.conn)
      BY DEF Turned, HasCtx, Leaving
    <3> QED BY <3>1, <3>2 DEF Kept, Live
  <2>2. (pc[Cleaner] \in {"remove", "free"} => Live(cur))'
    <3>1. SUFFICES ASSUME pc[Cleaner] \in {"remove", "free"} PROVE conn'[cur].mem = "live"
      BY DEF Turned, Live
    <3>2. cur \in Conns /\ conn[cur].mem = "live" /\ conn[cur].state = "CLOSED"
      BY <3>1 DEF KnownInv, MemInv, OwnParts, ListInv, Live, IInv, CleanInv
    <3>3. pc[Main] = "free" => conn[req.conn].state = "INIT"
      BY DEF KnownInv, MemInv, Leaving
    <3> QED BY <3>2, <3>3 DEF Turned, Kept
  <2>3. ASSUME NEW c \in Conns, conn'[c].mem = "freed"
        PROVE  /\ pc'[Rx(c)] \in {"exitPost", "done", "off"}
               /\ pc'[Proc(c)] \in {"exitPost", "log", "done", "off"}
    <3>1. Rx(c) \in Workers /\ Proc(c) \in Workers /\ Rx(c)[2] = c /\ Proc(c)[2] = c
      BY DEF Rx, Proc, Workers
    <3>2. pc'[Rx(c)] = pc[Rx(c)] /\ pc'[Proc(c)] = pc[Proc(c)]
      BY <2>3, <3>1 DEF Turned
    <3>3. CASE Kept(c)
      BY <2>3, <3>2, <3>3 DEF Kept, KnownInv, MemInv
    <3>4. CASE ~Kept(c)
      <4>1. c = req.conn /\ pc[Main] = "free"
        BY <2>3, <3>4 DEF Turned
      <4> QED BY <3>2, <4>1 DEF KnownInv, MemInv, RxOff, Leaving
    <3> QED BY <3>3, <3>4
  <2>4. ASSUME NEW c \in Conns, conn'[c].mem = "none"
        PROVE  pc'[Rx(c)] = "off" /\ pc'[Proc(c)] = "off"
    <3>1. Rx(c) \in Workers /\ Proc(c) \in Workers /\ Rx(c)[2] = c /\ Proc(c)[2] = c
      BY DEF Rx, Proc, Workers
    <3>2. pc'[Rx(c)] = pc[Rx(c)] /\ pc'[Proc(c)] = pc[Proc(c)]
      BY <2>4, <3>1 DEF Turned
    <3> QED BY <2>4, <3>2 DEF Turned, Kept, KnownInv, MemInv
  <2>5. ASSUME pc'[Main] \in RxOff
        PROVE  /\ pc'[Rx(req'.conn)] = "off"
               /\ pc'[Main] \in Unborn => pc'[Proc(req'.conn)] = "off"
    <3>1. CASE pc[Main] = "accept" /\ pc'[Main] = "op" /\ conn[req'.conn].mem = "none"
      <4>1. PICK x \in Conns : x = req'.conn
        BY <3>1 DEF Turned, HasCtx
      <4>2. pc[Rx(x)] = "off" /\ pc[Proc(x)] = "off"
        BY <3>1, <4>1 DEF KnownInv, MemInv
      <4>3. Kept(x)
        BY <3>1, <4>1 DEF Turned, HasCtx, Taken, Made, Leaving
      <4>4. conn'[x].mem = "none"
        BY <3>1, <4>1, <4>3 DEF Kept
      <4> QED BY <2>4, <4>1, <4>4
    <3>2. CASE pc'[Main] # "op"
      <4>1. req'.conn = req.conn
        BY <2>5, <3>2 DEF Turned, RxOff, HasCtx, Unborn, Failed, Leaving, Taken, Made
      <4>2. pc'[Rx(req.conn)] = "off"
        BY <2>5, <3>2 DEF Turned, KnownInv, MemInv
      <4>3. pc'[Main] \in Unborn => pc'[Proc(req.conn)] = "off"
        BY <3>2 DEF Turned, KnownInv, MemInv
      <4> QED BY <4>1, <4>2, <4>3
    <3> QED BY <3>1, <3>2 DEF Turned, HasCtx
  <2>6. pc'[Main] \in {"failDestroy"} \cup Leaving => pc'[Proc(req'.conn)] \in {"off", "done"}
    BY DEF Turned, HasCtx, Leaving, Taken, Made
  <2> QED BY <2>1, <2>2, <2>3, <2>4, <2>5, <2>6 DEF MemInv, RxOff
<1>10. StartedInv'
  <2>1. "thread" \notin Events /\ InList(cur) /\ pc[Cleaner] = "reap" => InList(cur)'
    <3>1. "thread" \notin Events /\ InList(cur) /\ pc[Cleaner] = "reap" =>
            \E i \in DOMAIN list' : list'[i] = cur
      BY DEF Turned, InList
    <3> QED BY <3>1 DEF InList, Turned
  <2>2. "thread" \notin Events /\ InList(nxt) /\ pc[Cleaner] # "done" => InList(nxt)'
    <3>1. "thread" \notin Events /\ InList(nxt) /\ pc[Cleaner] # "done" =>
            \E i \in DOMAIN list' : list'[i] = nxt
      BY DEF Turned, InList
    <3> QED BY <3>1 DEF InList, Turned
  <2> QED BY <2>1, <2>2 DEF StartedInv, KnownInv, Turned
<1> QED BY <1>7, <1>8, <1>9, <1>10 DEF KnownInv

(* Main goes from a to b within an import, or has none.                     *)
SoftEdge(a, b) ==
  /\ {a, b} \cap StopPlaces = {} /\ b \notin {"op", "close"}
  /\ b \in HasCtx => a \in HasCtx
  /\ b \in Leaving => a \in Leaving \cup {"failDestroy"}
  /\ b \in RxOff => a \in RxOff
  /\ b \in Unborn => a \in Unborn
  /\ b \in {"failDestroy"} \cup Leaving =>
       a \in {"procCreate", "failDestroy"} \cup Leaving \/ pc[Proc(req.conn)] = "done"
  /\ b \in Failed \cup Leaving => a \in Failed \cup Leaving \/ "thread" \in Events

LEMMA SoftTurn ==
  ASSUME IInv, OwnTypes, OwnParts, KnownInv, NEW a, NEW b, Step(Main, a, b), SoftEdge(a, b),
         \A c \in Conns : Kept(c), UNCHANGED <<ctx, list, toStop, cur, nxt>>,
         req'.conn = req.conn
  PROVE  Turned
<1> USE DEF KnownInv, SoftEdge
<1>1. pc[Main] = a /\ pc'[Main] = b /\ pc'[Cleaner] = pc[Cleaner]
  BY MainPlace
<1>2. pc \in [Threads -> Places] /\ pc' = [pc EXCEPT ![Main] = b]
  BY DEF IInv, Step
<1>3. \A s \in Workers : pc'[s] = pc[s]
  BY <1>2 DEF Workers, Main, Threads
<1>4. a \in HasCtx => req.conn \in Conns /\ ctx'[req.conn] = "open"
  BY <1>1 DEF CtxInv
<1>5. b \in HasCtx \cup RxOff \cup Unborn \cup Leaving \cup {"failDestroy"} =>
        a \in HasCtx
  BY DEF HasCtx, RxOff, Unborn, Failed, Leaving, Taken, Made
<1>6. a \in HasCtx => pc'[Rx(req.conn)] = pc[Rx(req.conn)]
                      /\ pc'[Proc(req.conn)] = pc[Proc(req.conn)]
  BY <1>3, <1>4 DEF Rx, Proc, Workers
<1>7. b \in {"failDestroy"} \cup Leaving => pc[Proc(req.conn)] \in {"off", "done"}
  BY <1>1 DEF MemInv, Unborn
<1>8. \A c : InList(c) => InList(c)'
  BY DEF InList
<1>9. toStop' = <<>> /\ toStop' \in Seq(Conns)
  BY <1>1 DEF StopsInv
<1>10. b \in Leaving => Kept(req.conn)
  BY <1>4, <1>5
<1>11. b \notin StopPlaces /\ b \notin Closing /\ a \notin StopPlaces
  BY DEF StopPlaces, Closing
<1> QED BY <1>1, <1>3, <1>4, <1>5, <1>6, <1>7, <1>8, <1>9, <1>10, <1>11 DEF Turned

(* Main's steps that only go on with the import, or with the shutdown.      *)
MainGoesOn ==
  \/ MainBind \/ MainExport \/ MainBusy \/ StartInit \/ StartProcStarted
  \/ StartRxStarted \/ StartFailQueue \/ StartFailJoin \/ StartFailDestroy
  \/ MainUnexport \/ MainRelease \/ MainHalt

LEMMA GoesOnTurned ==
  ASSUME IInv, OwnTypes, OwnParts, KnownInv, MainGoesOn
  PROVE  Turned
<1> USE DEF manager, devices, locals, SoftEdge, StopPlaces
<1>1. conn \in [Conns -> Flags]
  BY DEF IInv
<1>2. UNCHANGED <<ctx, list, toStop, cur, nxt>> /\ req'.conn = req.conn
  BY DEF MainGoesOn, MainBind, MainExport, MainBusy, StartInit, StartProcStarted,
         StartRxStarted, StartSet, StartFailQueue, StartFailJoin, StartFailDestroy,
         MainUnexport, MainRelease, MainHalt
<1>3. \A c \in Conns : Kept(c)
  BY <1>1 DEF MainGoesOn, MainBind, MainExport, MainBusy, StartInit, StartProcStarted,
         StartRxStarted, StartSet, StartFailQueue, StartFailJoin, StartFailDestroy,
         MainUnexport, MainRelease, MainHalt, Set, Kept, Flags
<1>4. \E a, b : Step(Main, a, b) /\ SoftEdge(a, b)
  <2> USE DEF HasCtx, RxOff, Unborn, Failed, Leaving, Taken, Made
  <2>1. CASE MainBind
    <3>1. Step(Main, "bind", "export")
      BY <2>1, BindOwn DEF MainBind
    <3> QED BY <3>1
  <2>2. CASE MainExport
    <3>1. Step(Main, "export", "busy")
      BY <2>2 DEF MainExport, OwnParts, ImportDevInv, Step
    <3> QED BY <3>1
  <2>3. CASE MainBusy \/ StartInit
    BY <2>3 DEF MainBusy, StartInit
  <2>4. CASE StartProcStarted \/ StartRxStarted
    <3>1. Step(Main, "procStarted", "rxCreate") \/ Step(Main, "rxStarted", "active")
      BY <2>4 DEF StartProcStarted, StartRxStarted, StartSet
    <3> QED BY <3>1
  <2>5. CASE StartFailQueue
    BY <2>5 DEF StartFailQueue
  <2>6. CASE StartFailJoin
    BY <2>6 DEF StartFailJoin
  <2>7. CASE StartFailDestroy
    BY <2>7 DEF StartFailDestroy
  <2>8. CASE MainUnexport \/ MainRelease
    <3>1. Step(Main, "unexport", "available") \/ Step(Main, "available", "unbind")
          \/ Step(Main, "unbind", "remove")
      BY <2>8 DEF MainUnexport, MainRelease
    <3> QED BY <3>1
  <2>9. CASE MainHalt
    <3>1. Step(Main, "halt", "haltPost") \/ Step(Main, "haltPost", "joinCleaner")
      BY <2>9 DEF MainHalt
    <3> QED BY <3>1
  <2> QED BY <2>1, <2>2, <2>3, <2>4, <2>5, <2>6, <2>7, <2>8, <2>9 DEF MainGoesOn
<1>5. PICK a, b : Step(Main, a, b) /\ SoftEdge(a, b)
  BY <1>4
<1> QED BY <1>2, <1>3, <1>5, SoftTurn

(* Main is done with an import, or with the shutdown.                       *)
LEMMA EndTurn ==
  ASSUME IInv, OwnTypes, OwnParts, KnownInv, NEW a, NEW b \in {"accept", "collect", "done"},
         Step(Main, a, b), a \notin StopPlaces, UNCHANGED <<conn, toStop, cur, nxt>>,
         \A c \in Conns : ctx'[c] = "freed" =>
           ctx[c] = "freed" \/ (c = req.conn /\ a = "close"),
         UNCHANGED list \/ pc[Cleaner] = "done"
  PROVE  Turned
<1>1. pc[Main] = a /\ pc'[Main] = b /\ pc'[Cleaner] = pc[Cleaner]
  BY MainPlace
<1>2. \A s \in Workers : pc'[s] = pc[s]
  BY DEF Workers, Main, Threads, IInv, Step
<1>3. b \notin HasCtx \cup RxOff \cup Unborn \cup Leaving \cup Failed \cup Closing
                \cup StopPlaces \cup {"close"}
  BY DEF HasCtx, RxOff, Unborn, Failed, Leaving, Taken, Made, Closing, StopPlaces
<1>4. toStop' = <<>> /\ toStop' \in Seq(Conns)
  BY <1>1 DEF StopsInv, KnownInv
<1>5. pc[Cleaner] = "done" \/ \A c : InList(c) => InList(c)'
  BY DEF InList
<1> QED BY <1>1, <1>2, <1>3, <1>4, <1>5 DEF Turned, Kept

LEMMA ReplyTurned ==
  ASSUME IInv, OwnTypes, OwnParts, RestTypes, KnownInv, "reply" \notin Events,
         MainAccept \/ ClientAsks \/ MainReply \/ MainClose \/ MainJoin
  PROVE  Turned
<1> USE DEF manager, devices, locals, StopPlaces
<1>1. CASE MainAccept
  <2>1. CASE Step(Main, "accept", "op")
    <3>1. PICK c \in Conns : /\ Unused(c) /\ ctx' = [ctx EXCEPT ![c] = "open"]
                             /\ req' = [conn |-> c, dev |-> None]
      BY <1>1, <2>1, MainPlace DEF MainAccept
    <3>2. UNCHANGED <<conn, list, toStop, cur, nxt>>
      BY <1>1, <2>1, MainPlace DEF MainAccept
    <3>3. pc[Main] = "accept" /\ pc'[Main] = "op" /\ pc'[Cleaner] = pc[Cleaner]
      BY <2>1, MainPlace
    <3>4. \A s \in Workers : pc'[s] = pc[s]
      BY <2>1 DEF Workers, Main, Threads, IInv, Step
    <3>5. "op" \notin Leaving \cup Failed \cup Closing \cup StopPlaces \cup {"close"}
      BY DEF Failed, Leaving, Closing, StopPlaces
    <3>6. toStop' = <<>> /\ toStop' \in Seq(Conns)
      BY <3>2, <3>3 DEF StopsInv, KnownInv
    <3>7. \A x : InList(x) => InList(x)'
      BY <3>2 DEF InList
    <3>8. req'.conn = c /\ ctx'[c] = "open" /\ \A x \in Conns : ctx'[x] = "freed" => ctx[x] = "freed"
      BY <3>1 DEF RestTypes
    <3>9. conn[c].mem = "none"
      BY <3>1 DEF Unused
    <3> QED BY <3>2, <3>3, <3>4, <3>5, <3>6, <3>7, <3>8, <3>9 DEF Turned, Kept
  <2>2. CASE Step(Main, "accept", "collect")
    <3>1. UNCHANGED <<conn, list, ctx, toStop, cur, nxt>>
      BY <1>1, <2>2, MainPlace DEF MainAccept
    <3> QED BY <2>2, <3>1, EndTurn
  <2> QED BY <1>1, <2>1, <2>2 DEF MainAccept
<1>2. CASE Step(Main, "op", "accept") /\ Refuse
  <2>1. /\ UNCHANGED <<conn, list, toStop, cur, nxt>>
        /\ \A c \in Conns : ctx'[c] = "freed" => ctx[c] = "freed"
    BY <1>2 DEF Refuse
  <2> QED BY <1>2, <2>1, EndTurn
<1>3. CASE \E d \in Devices : Step(Main, "op", "limit") /\ MainImport(d)
  <2>1. UNCHANGED <<conn, list, ctx, toStop, cur, nxt>> /\ req'.conn = req.conn
    BY <1>3, MainPlace DEF MainImport, IInv
  <2>2. Step(Main, "op", "limit") /\ SoftEdge("op", "limit")
    BY <1>3 DEF SoftEdge, HasCtx, RxOff, Unborn, Failed, Leaving, Taken, Made
  <2> QED BY <2>1, <2>2, SoftTurn DEF Kept
<1>4. CASE MainReply
  <2>1. UNCHANGED <<conn, ctx, list, toStop, cur, nxt>>
    BY <1>4 DEF MainReply, ImportDone
  <2>2. \/ Step(Main, "replyOk", "replyDev") /\ UNCHANGED req
        \/ Step(Main, "replyDev", "accept")
    BY <1>4 DEF MainReply
  <2>3. CASE Step(Main, "replyOk", "replyDev") /\ UNCHANGED req
    <3>1. SoftEdge("replyOk", "replyDev")
      BY DEF SoftEdge, HasCtx, RxOff, Unborn, Failed, Leaving, Taken, Made
    <3> QED BY <2>1, <2>3, <3>1, SoftTurn DEF Kept
  <2>4. CASE Step(Main, "replyDev", "accept")
    BY <2>1, <2>4, EndTurn
  <2> QED BY <2>2, <2>3, <2>4
<1>5. CASE MainClose
  <2>1. /\ UNCHANGED <<conn, list, toStop, cur, nxt>> /\ Step(Main, "close", "accept")
        /\ ctx' = [ctx EXCEPT ![req.conn] = "freed"]
    BY <1>5 DEF MainClose, CloseCtx, ImportDone
  <2>2. \A c \in Conns : ctx'[c] = "freed" => ctx[c] = "freed" \/ c = req.conn
    BY <2>1
  <2> QED BY <2>1, <2>2, EndTurn
<1>6. CASE MainJoin
  <2>1. /\ UNCHANGED <<conn, ctx, toStop, cur, nxt>> /\ Step(Main, "joinCleaner", "done")
        /\ pc[Cleaner] = "done"
    BY <1>6 DEF MainJoin
  <2> QED BY <2>1, EndTurn
<1> QED BY <1>1, <1>2, <1>3, <1>4, <1>5, <1>6 DEF ClientAsks, MainOther, MainImport

(* A thread that starts runs on a live connection.                          *)
LEMMA StartTurned ==
  ASSUME IInv, OwnTypes, OwnParts, KnownInv, StartProc \/ StartRx \/ StartActive
  PROVE  Turned
<1> USE DEF manager, devices, locals, StopPlaces
<1>1. /\ pc[Main] \in HasCtx /\ req.conn \in Conns /\ Live(req.conn)
      /\ ctx[req.conn] = "open"
  BY DEF StartProc, StartRx, StartActive, Create, StartSet, Step, HasCtx, Taken, Made,
         KnownInv, CtxInv
<1>2. toStop = <<>> /\ toStop \in Seq(Conns)
  BY DEF StartProc, StartRx, StartActive, Create, StartSet, Step, KnownInv, StopsInv
<1>3. UNCHANGED <<ctx, list, toStop, cur, nxt, req>>
  BY DEF StartProc, StartRx, StartActive, Create, StartSet
<1>4. \A c : InList(c) => InList(c)'
  BY <1>3 DEF InList
<1>5. conn \in [Conns -> Flags] /\ pc \in [Threads -> Places] /\ Workers \subseteq Threads
  BY DEF IInv, Threads
<1>6. CASE StartProc /\ pc' = [pc EXCEPT ![Main] = "procStarted", ![Proc(req.conn)] = "loop"]
  <2>1. pc[Main] = "procCreate" /\ UNCHANGED conn
    BY <1>6 DEF StartProc, Create
  <2>2. pc[Proc(req.conn)] = "off"
    BY <2>1 DEF KnownInv, MemInv, Unborn
  <2>3. /\ pc'[Main] = "procStarted" /\ pc'[Cleaner] = pc[Cleaner]
        /\ pc'[Rx(req.conn)] = pc[Rx(req.conn)]
        /\ \A s \in Workers : pc'[s] = pc[s] \/ (s = Proc(req.conn) /\ pc'[s] = "loop")
    BY <1>1, <1>5, <1>6, ThreadFacts DEF Workers, Main, Threads
  <2>4. Proc(req.conn)[2] = req.conn /\ conn'[req.conn].mem = "live"
    BY <1>1, <2>1 DEF Proc, Live
  <2>5. "procStarted" \notin Leaving \cup Failed \cup Unborn \cup Closing \cup StopPlaces
                              \cup {"close", "op"}
    BY DEF Failed, Leaving, Closing, Unborn
  <2>6. {"procCreate", "procStarted"} \subseteq RxOff \cap HasCtx
    BY DEF RxOff, Unborn, HasCtx, Taken, Made
  <2> QED BY <1>1, <1>2, <1>3, <1>4, <2>1, <2>2, <2>3, <2>4, <2>5, <2>6 DEF Turned, Kept
<1>7. CASE StartRx /\ pc' = [pc EXCEPT ![Main] = "rxStarted", ![Rx(req.conn)] = "loop"]
  <2>1. pc[Main] = "rxCreate" /\ UNCHANGED conn
    BY <1>7 DEF StartRx, Create
  <2>2. pc[Rx(req.conn)] = "off"
    BY <2>1 DEF KnownInv, MemInv, RxOff
  <2>3. /\ pc'[Main] = "rxStarted" /\ pc'[Cleaner] = pc[Cleaner]
        /\ \A s \in Workers : pc'[s] = pc[s] \/ (s = Rx(req.conn) /\ pc'[s] = "loop")
    BY <1>1, <1>5, <1>7, ThreadFacts DEF Workers, Main, Threads
  <2>4. Rx(req.conn)[2] = req.conn /\ conn'[req.conn].mem = "live"
    BY <1>1, <2>1 DEF Rx, Live
  <2>5. "rxStarted" \notin Leaving \cup Failed \cup Unborn \cup Closing \cup StopPlaces
                              \cup {"close", "op"} \cup RxOff
    BY DEF Failed, Leaving, Closing, Unborn, RxOff
  <2> QED BY <1>1, <1>2, <1>3, <1>4, <2>1, <2>2, <2>3, <2>4, <2>5 DEF Turned, Kept
<1>8. CASE StartActive
  <2>1. Step(Main, "active", "replyOk") /\ Set(req.conn, "state", "ACTIVE")
    BY <1>8 DEF StartActive, StartSet
  <2>2. pc[Main] = "active" /\ pc'[Main] = "replyOk" /\ pc'[Cleaner] = pc[Cleaner]
    BY <2>1, MainPlace
  <2>3. \A s \in Workers : pc'[s] = pc[s]
    BY <2>1 DEF Workers, Main, Threads, IInv, Step
  <2>4. \A c \in Conns : Kept(c) \/ (c = req.conn /\ conn'[c].mem = "live")
    <3>1. conn' = [conn EXCEPT ![req.conn].state = "ACTIVE"]
      BY <2>1 DEF Set
    <3> QED BY <1>1, <1>5, <3>1 DEF Kept, Flags, Live
  <2>5. "replyOk" \notin Leaving \cup Failed \cup Unborn \cup Closing \cup StopPlaces
                              \cup {"close", "op"} \cup RxOff \cup HasCtx
    BY DEF Failed, Leaving, Closing, Unborn, RxOff, HasCtx, Taken, Made
  <2> QED BY <1>1, <1>2, <1>3, <1>4, <2>2, <2>3, <2>4, <2>5 DEF Turned
<1>9. CASE /\ "thread" \in Events /\ UNCHANGED conn
           /\ pc' = [pc EXCEPT ![Main] = "failDestroy"] /\ pc[Main] = "procCreate"
  <2>1. SoftEdge("procCreate", "failDestroy") /\ Step(Main, "procCreate", "failDestroy")
    BY <1>9 DEF SoftEdge, HasCtx, RxOff, Unborn, Failed, Leaving, Taken, Made, Step
  <2> QED BY <1>3, <1>9, <2>1, SoftTurn DEF Kept
<1>10. CASE /\ "thread" \in Events /\ UNCHANGED conn
            /\ pc' = [pc EXCEPT ![Main] = "failQueue"] /\ pc[Main] = "rxCreate"
  <2>1. SoftEdge("rxCreate", "failQueue") /\ Step(Main, "rxCreate", "failQueue")
    BY <1>10 DEF SoftEdge, HasCtx, RxOff, Unborn, Failed, Leaving, Taken, Made, Step
  <2> QED BY <1>3, <1>10, <2>1, SoftTurn DEF Kept
<1> QED BY <1>6, <1>7, <1>8, <1>9, <1>10 DEF StartProc, StartRx, Create

(* The import enters the list, or leaves it, and the object comes and goes. *)
LEMMA ListTurned ==
  ASSUME IInv, OwnTypes, OwnParts, RestTypes, KnownInv,
         MainLimit \/ MainAdd \/ MainRemove \/ MainFree \/ MainCollect
  PROVE  Turned
<1> USE DEF manager, devices, locals, StopPlaces, Step
<1>1. toStop = <<>> /\ toStop \in Seq(Conns) /\ pc[Main] \notin StopPlaces
  BY DEF MainLimit, MainAdd, MainRemove, MainFree, MainCollect, KnownInv, StopsInv
<1>2. conn \in [Conns -> Flags] /\ pc \in [Threads -> Places] /\ Workers \subseteq Threads
      /\ Main \notin Workers
  BY DEF IInv, Threads, Workers, Main
<1>3. pc'[Cleaner] = pc[Cleaner] /\ \A s \in Workers : pc'[s] = pc[s]
  BY <1>2, ThreadFacts DEF MainLimit, MainAdd, MainRemove, MainFree, MainCollect
<1>4. UNCHANGED <<cur, nxt>>
  BY DEF MainLimit, Refuse, MainAdd, MainRemove, MainFree, MainCollect
<1>5. pc[Main] \in {"limit", "add", "remove", "free"} =>
        /\ pc[Main] \in HasCtx \cap RxOff /\ req.conn \in Conns /\ ctx[req.conn] = "open"
        /\ pc'[Rx(req.conn)] = pc[Rx(req.conn)] /\ pc'[Proc(req.conn)] = pc[Proc(req.conn)]
  <2>1. pc[Main] \in {"limit", "add", "remove", "free"} => pc[Main] \in HasCtx \cap RxOff
    BY DEF HasCtx, RxOff, Unborn, Leaving
  <2> QED BY <1>3, <2>1 DEF KnownInv, CtxInv, Workers, Rx, Proc
<1>6. CASE MainLimit
  <2>1. CASE Step(Main, "limit", "accept") /\ Refuse
    <3>1. /\ UNCHANGED <<conn, list, toStop, cur, nxt>>
          /\ \A c \in Conns : ctx'[c] = "freed" => ctx[c] = "freed"
      BY <2>1 DEF Refuse
    <3> QED BY <2>1, <3>1, EndTurn
  <2>2. CASE Step(Main, "limit", "add")
    <3>1. /\ pc[Main] = "limit" /\ pc' = [pc EXCEPT ![Main] = "add"]
          /\ conn' = [conn EXCEPT ![req.conn] = [[Blank EXCEPT !["mem"] = "live"] EXCEPT !["ptr"] = TRUE]]
          /\ UNCHANGED <<ctx, list, toStop, req>>
      <4>1. pc'[Main] = "add"
        BY <2>2, MainPlace
      <4> QED BY <1>2, <1>6, <2>2, <4>1, ThreadFacts DEF MainLimit
    <3>2. pc'[Main] = "add"
      BY <1>2, <3>1, ThreadFacts
    <3>3. conn'[req.conn].mem = "live" /\ \A c \in Conns : c # req.conn => conn'[c] = conn[c]
      BY <1>2, <1>5, <3>1 DEF Blank
    <3>4. \A c : InList(c) => InList(c)'
      BY <3>1 DEF InList
    <3>5. "add" \notin Leaving \cup Failed \cup Closing
      BY DEF Leaving, Failed, Closing
    <3>6. "limit" \in Unborn
      BY DEF Unborn
    <3> QED BY <1>1, <1>3, <1>4, <1>5, <3>1, <3>2, <3>3, <3>4, <3>5, <3>6 DEF Turned, Kept
  <2> QED BY <1>6, <2>1, <2>2 DEF MainLimit
<1>7. CASE MainAdd
  <2>1. pc[Main] = "add" /\ Len(list) < MaxConnections /\ ~InList(req.conn)
    BY <1>7 DEF MainAdd, OwnParts, ListInv
  <2>2. /\ pc' = [pc EXCEPT ![Main] = "bind"] /\ list' = Append(list, req.conn)
        /\ UNCHANGED <<conn, ctx, toStop, req>>
    <3>1. Len(list) \in Nat
      BY LenProperties DEF OwnTypes
    <3>2. ~(Len(list) >= MaxConnections)
      BY <2>1, <3>1, ConnAssumption
    <3> QED BY <1>7, <3>2 DEF MainAdd
  <2>3. pc'[Main] = "bind"
    BY <1>2, <2>2, ThreadFacts
  <2>4. \A c : InList(c) => InList(c)'
    BY <1>5, <2>1, <2>2, AppendFacts
  <2>5. "bind" \notin Leaving \cup Failed \cup Closing /\ "add" \in Unborn
    BY DEF Leaving, Failed, Closing, Unborn
  <2> QED BY <1>1, <1>3, <1>4, <1>5, <2>1, <2>2, <2>3, <2>4, <2>5 DEF Turned, Kept
<1>8. CASE MainRemove \/ MainFree
  <2>1. /\ pc[Main] \in {"remove", "free"} /\ UNCHANGED <<ctx, toStop, req>>
        /\ pc[Main] = "remove" => UNCHANGED conn
        /\ pc[Main] = "free" => UNCHANGED list /\ conn' = [conn EXCEPT ![req.conn] = Freed]
        /\ pc' = [pc EXCEPT ![Main] = IF pc[Main] = "remove" THEN "free" ELSE "close"]
    BY <1>8 DEF MainRemove, MainFree
  <2>2. pc'[Main] = IF pc[Main] = "remove" THEN "free" ELSE "close"
    BY <1>2, <2>1, ThreadFacts
  <2>3. pc[Main] \in Leaving /\ "free" \in Leaving /\ "close" \notin RxOff \cup Leaving \cup Closing
        /\ {"free", "close"} \cap Unborn = {} /\ {"free", "close"} \cap Failed = {}
        /\ "free" \notin Closing
    BY <2>1 DEF Leaving, RxOff, Unborn, Failed, Closing
  <2>4. "thread" \in Events
    BY <2>3 DEF KnownInv, StartedInv
  <2>5. pc[Proc(req.conn)] \in {"off", "done"}
    BY <2>3 DEF KnownInv, MemInv
  <2>6. /\ pc[Main] = "free" => conn'[req.conn].mem = "freed"
        /\ \A c \in Conns : c # req.conn => conn'[c] = conn[c]
    BY <1>2, <1>5, <2>1 DEF Freed, Blank
  <2> QED BY <1>1, <1>3, <1>4, <1>5, <2>1, <2>2, <2>3, <2>4, <2>5, <2>6 DEF Turned, Kept
<1>9. CASE MainCollect
  <2>1. /\ pc[Main] = "collect" /\ UNCHANGED <<conn, ctx, list>> /\ toStop' = list
        /\ pc' = [pc EXCEPT ![Main] = IF list = <<>> THEN "halt" ELSE "mark"]
    BY <1>9 DEF MainCollect
  <2>2. pc'[Main] = IF list = <<>> THEN "halt" ELSE "mark"
    BY <1>2, <2>1, ThreadFacts
  <2>3. list \in Seq(Conns)
    BY DEF OwnTypes
  <2>4. \A c : InList(c) => InList(c)'
    BY <2>1 DEF InList
  <2>5. {"halt", "mark"} \cap (HasCtx \cup RxOff \cup Unborn \cup Leaving \cup Failed
                               \cup Closing \cup {"close"}) = {}
    BY DEF HasCtx, RxOff, Unborn, Failed, Leaving, Taken, Made, Closing
  <2> QED BY <1>1, <1>3, <1>4, <2>1, <2>2, <2>3, <2>4, <2>5 DEF Turned, Kept
<1> QED BY <1>6, <1>7, <1>8, <1>9

LEMMA MainKnown ==
  ASSUME IInv, OwnTypes, OwnParts, RestTypes, KnownInv, "reply" \notin Events,
         MainThread \/ ClientAsks
  PROVE  KnownInv'
<1>1. CASE MainGoesOn
  BY <1>1, GoesOnTurned, TurnKnown
<1>2. CASE MainAccept \/ ClientAsks \/ MainReply \/ MainClose \/ MainJoin
  BY <1>2, ReplyTurned, TurnKnown
<1>3. CASE StartProc \/ StartRx \/ StartActive
  BY <1>3, StartTurned, TurnKnown
<1>4. CASE MainLimit \/ MainAdd \/ MainRemove \/ MainFree \/ MainCollect
  BY <1>4, ListTurned, TurnKnown
<1> QED BY <1>1, <1>2, <1>3, <1>4
        DEF MainThread, StartConn, ImportFailed, MainShutdown, MainGoesOn

(* What ConnCleanup does to a connection.                                   *)
LEMMA CleanForms ==
  ASSUME IInv, OwnTypes, OwnParts, CleanerThread, NEW c \in Conns
  PROVE  \/ Kept(c)
         \/ /\ conn[c].state = "CLOSING" /\ conn'[c].state = "CLOSED"
            /\ conn'[c].mem = conn[c].mem /\ conn'[c].ptr = conn[c].ptr
         \/ /\ conn[c].state = "CLOSED" /\ conn'[c].mem = "freed"
            /\ pc[Cleaner] = "free"
<1> USE DEF Step, Kept
<1>1. pc[Cleaner] \in Holding \cup {"remove", "free"} => cur \in Conns
  BY DEF OwnParts, ListInv
<1>2. conn \in [Conns -> Flags]
  BY DEF IInv
<1>3. CASE CleanDestroyQueue
  <2>1. cur \in Conns
    BY <1>1, <1>3 DEF CleanDestroyQueue, Holding, Scanning
  <2> QED BY <1>2, <1>3, <2>1 DEF CleanDestroyQueue, Flags
<1>4. CASE CleanClosed
  <2>1. /\ pc[Cleaner] = "closed" /\ cur \in Conns /\ Live(cur)
        /\ conn' = [conn EXCEPT ![cur].state = "CLOSED"]
    BY <1>1, <1>4 DEF CleanClosed, Holding, Scanning, Set
  <2>2. conn[cur].state = "CLOSING"
    BY <2>1 DEF IInv, CleanInv, Teardown, Stopped
  <2> QED BY <1>2, <2>1, <2>2 DEF Flags
<1>5. CASE CleanFree
  <2>1. /\ pc[Cleaner] = "free" /\ cur \in Conns /\ Live(cur)
        /\ conn' = [conn EXCEPT ![cur] = Freed]
    BY <1>1, <1>5 DEF CleanFree
  <2>2. conn[cur].state = "CLOSED"
    BY <2>1 DEF IInv, CleanInv
  <2> QED BY <1>2, <2>1, <2>2, BlankFacts
<1>6. CASE CleanCheck \/ CleanWait \/ CleanLock \/ CleanScan \/ CleanUnexport
           \/ CleanRelease \/ CleanReap \/ CleanRemove \/ CleanRelock
  BY <1>6 DEF CleanCheck, CleanWait, CleanLock, CleanScan, CleanUnexport, CleanRelease,
              CleanReap, CleanRemove, CleanRelock
<1> QED BY <1>3, <1>4, <1>5, <1>6 DEF CleanerThread

(* What ConnCleanup goes on to is in the list.                              *)
LEMMA CleanStarted ==
  ASSUME IInv, OwnTypes, OwnParts, ReapInv, StartedInv, CleanerThread
  PROVE  StartedInv'
<1> SUFFICES ASSUME "thread" \notin Events
             PROVE  /\ pc'[Main] \notin Failed \cup Leaving \cup {"close"}
                    /\ pc'[Cleaner] = "reap" => InList(cur)'
                    /\ pc'[Cleaner] \in {"remove", "free", "relock"} =>
                         nxt' = None \/ InList(nxt)'
  BY DEF StartedInv
<1> USE DEF Step
<1>1. pc'[Main] \notin Failed \cup Leaving \cup {"close"}
  BY CleanAside DEF StartedInv
<1>2. /\ \A c : NextOf(c) # None => InList(NextOf(c))
      /\ First # None => InList(First)
  BY WalkFacts
<1>3. ASSUME NEW p \in {"scan", "reap"}, NEW k, Walk(p, k), k # None => InList(k)
      PROVE  /\ pc'[Cleaner] = "reap" => InList(cur)'
             /\ pc'[Cleaner] \notin {"remove", "free", "relock"}
  <2>1. cur' = k /\ UNCHANGED list
        /\ pc'[Cleaner] = IF k # None THEN p
                          ELSE IF p = "scan" THEN "lockReap"
                          ELSE IF final THEN "done" ELSE "check"
    BY <1>3, ThreadFacts DEF Walk, IInv
  <2>2. InList(cur)' <=> InList(k)
    BY <2>1 DEF InList
  <2> QED BY <1>3, <2>1, <2>2
<1>4. CASE CleanLock
  BY <1>1, <1>2, <1>3, <1>4 DEF CleanLock
<1>5. CASE CleanScan
  <2>1. CASE Walk("scan", NextOf(cur))
    BY <1>1, <1>2, <1>3, <2>1
  <2>2. CASE Step(Cleaner, "scan", "destroyQueue")
    BY <1>1, <2>2, CleanerPlace
  <2> QED BY <1>5, <2>1, <2>2 DEF CleanScan
<1>6. CASE CleanClosed
  BY <1>1, <1>2, <1>3, <1>6 DEF CleanClosed
<1>7. CASE CleanReap
  <2>1. CASE Walk("reap", NextOf(cur))
    BY <1>1, <1>2, <1>3, <2>1
  <2>2. CASE Step(Cleaner, "reap", "remove") /\ nxt' = NextOf(cur) /\ UNCHANGED list
    <3>1. pc'[Cleaner] = "remove"
      BY <2>2, CleanerPlace
    <3>2. PICK n : n = NextOf(cur)
      OBVIOUS
    <3>3. InList(nxt)' <=> InList(n)
      BY <2>2, <3>2 DEF InList
    <3> QED BY <1>1, <1>2, <2>2, <3>1, <3>2, <3>3
  <2> QED BY <1>7, <2>1, <2>2 DEF CleanReap
<1>8. CASE CleanRelock
  <2>1. pc[Cleaner] = "relock" /\ Walk("reap", nxt)
    BY <1>8 DEF CleanRelock
  <2>2. PICK n : n = nxt
    OBVIOUS
  <2>3. n # None => InList(n)
    BY <2>1, <2>2 DEF StartedInv
  <2> QED BY <1>1, <1>3, <2>1, <2>2, <2>3
<1>9. CASE CleanRemove
  <2>1. /\ pc[Cleaner] = "remove" /\ pc'[Cleaner] = "free" /\ Unlink(cur)
        /\ nxt' = nxt /\ nxt # cur
    BY <1>9, CleanerPlace DEF CleanRemove, ReapInv, locals
  <2>2. PICK n : n = nxt
    OBVIOUS
  <2>3. n = None \/ InList(n)
    BY <2>1, <2>2 DEF StartedInv
  <2>4. InList(n) => InList(n)'
    BY <2>1, <2>2, UnlinkFacts
  <2>5. InList(nxt)' <=> InList(n)'
    BY <2>1, <2>2 DEF InList
  <2> QED BY <1>1, <2>1, <2>2, <2>3, <2>4, <2>5
<1>10. CASE CleanFree
  <2>1. /\ pc[Cleaner] = "free" /\ pc'[Cleaner] = "relock" /\ UNCHANGED <<nxt, list>>
    BY <1>10, CleanerPlace DEF CleanFree, locals, manager
  <2>2. InList(nxt)' <=> InList(nxt)
    BY <2>1 DEF InList
  <2> QED BY <1>1, <2>1, <2>2 DEF StartedInv
<1>11. CASE CleanCheck \/ CleanWait \/ CleanDestroyQueue \/ CleanUnexport \/ CleanRelease
  <2>1. pc'[Cleaner] \in {"wait", "lockScan"} \cup Scanning
    BY <1>11, CleanerPlace DEF CleanCheck, CleanWait, CleanDestroyQueue, CleanUnexport,
                               CleanRelease, Scanning
  <2> QED BY <1>1, <2>1 DEF Scanning
<1> QED BY <1>4, <1>5, <1>6, <1>7, <1>8, <1>9, <1>10, <1>11 DEF CleanerThread

LEMMA CleanerKnown ==
  ASSUME IInv, OwnTypes, OwnParts, ReapInv, KnownInv, fault = None, CleanerThread
  PROVE  KnownInv'
<1> USE DEF KnownInv
<1>1. pc'[Main] = pc[Main] /\ UNCHANGED <<req, toStop>>
  BY CleanAside
<1>2. UNCHANGED ctx /\ \E b : pc' = [pc EXCEPT ![Cleaner] = b]
  BY DEF CleanerThread, CleanCheck, CleanWait, CleanLock, CleanScan,
         CleanDestroyQueue, CleanUnexport, CleanRelease, CleanClosed,
         CleanReap, CleanRemove, CleanFree, CleanRelock, Walk, Step, locals
<1>3. \A t \in Threads : t # Cleaner => pc'[t] = pc[t]
  BY <1>2 DEF IInv
<1>4. \A t \in Callers : pc'[t] = pc[t] /\ Subject(t)' = Subject(t)
  BY <1>1, <1>3, SubjectStays DEF Callers, Threads, Workers, Cleaner, Main
<1>5. \A c \in Conns : pc'[Rx(c)] = pc[Rx(c)] /\ pc'[Proc(c)] = pc[Proc(c)]
  BY <1>3, ThreadFacts
<1>6. ASSUME NEW c \in Conns
      PROVE  /\ conn'[c].mem = conn[c].mem \/ conn'[c].mem = "freed"
             /\ conn[c].state \in {"CLOSING", "CLOSED"} =>
                  conn'[c].state \in {"CLOSING", "CLOSED"} \/ conn'[c].mem = "freed"
             /\ conn[c].state = "INIT" => Kept(c)
             /\ conn'[c].ptr = conn[c].ptr \/ conn'[c].mem = "freed"
  BY CleanForms DEF Kept
<1>7. StopsInv'
  <2>1. \A s \in Callers : pc'[s] \in Closing =>
          /\ Subject(s)' \in Conns
          /\ \/ conn'[Subject(s)'].state \in {"CLOSING", "CLOSED"}
             \/ conn'[Subject(s)'].mem = "freed"
    BY <1>4, <1>6 DEF StopsInv
  <2>2. \A s, u \in Callers : pc'[s] \in Closing /\ pc'[u] \in Closing
                           /\ Subject(s)' = Subject(u)' => s = u
    BY <1>4 DEF StopsInv
  <2>3. pc'[Cleaner] \notin StopPlaces
    <3>1. pc'[Cleaner] \in Scanning \cup {"check", "wait", "lockScan", "lockReap", "done",
                                        "reap", "remove", "free", "relock"}
      BY ThreadFacts DEF CleanerThread, CleanCheck, CleanWait, CleanLock, CleanScan,
         CleanDestroyQueue, CleanUnexport, CleanRelease, CleanClosed,
         CleanReap, CleanRemove, CleanFree, CleanRelock, Walk, Step, IInv, Scanning
    <3> QED BY <3>1 DEF StopPlaces, Scanning
  <2> QED BY <1>1, <2>1, <2>2, <2>3 DEF StopsInv
<1>8. CtxInv'
  <2>1. ASSUME NEW c \in Conns, conn'[c].mem = "live", conn'[c].ptr, ctx'[c] = "freed"
        PROVE  \E s \in Callers : Subject(s)' = c /\ pc'[s] = "clearCtx"
    <3>1. Live(c) /\ conn[c].ptr /\ ctx[c] = "freed"
      BY <1>2, <1>6, <2>1 DEF Live
    <3> QED BY <1>4, <3>1 DEF CtxInv
  <2>2. pc[Main] = "close" => conn'[req.conn].mem # "live"
    <3>1. pc[Main] = "close" => req.conn \in Conns /\ conn[req.conn].mem # "live"
      BY DEF CtxInv, HasCtx, Live
    <3> QED BY <1>6, <3>1
  <2> QED BY <1>1, <1>2, <2>1, <2>2 DEF CtxInv, Live
<1>9. MemInv'
  <2>1. pc[Main] \in Leaving => conn'[req.conn].mem = "live" /\ conn'[req.conn].state = "INIT"
    <3>1. pc[Main] \in Leaving => /\ req.conn \in Conns /\ conn[req.conn].mem = "live"
                                  /\ conn[req.conn].state = "INIT"
      BY DEF CtxInv, MemInv, HasCtx, Live
    <3> QED BY <1>6, <3>1 DEF Kept
  <2>2. pc'[Cleaner] \in {"remove", "free"} => conn'[cur'].mem = "live"
    <3>1. pc'[Cleaner] \in {"remove", "free"} =>
            \/ CleanReap /\ Step(Cleaner, "reap", "remove") /\ cur' = cur
            \/ CleanRemove
      BY ThreadFacts DEF CleanerThread, CleanCheck, CleanWait, CleanLock, CleanScan,
         CleanDestroyQueue, CleanUnexport, CleanRelease, CleanClosed,
         CleanReap, CleanFree, CleanRelock, Walk, Step, IInv
    <3> QED BY <3>1 DEF CleanReap, CleanRemove, Live, locals
  <2>3. ASSUME NEW c \in Conns, conn'[c].mem = "freed"
        PROVE  /\ pc'[Rx(c)] \in {"exitPost", "done", "off"}
               /\ pc'[Proc(c)] \in {"exitPost", "log", "done", "off"}
    <3>1. CASE conn[c].mem = "freed"
      BY <1>5, <3>1 DEF MemInv
    <3>2. CASE conn[c].state = "CLOSED"
      <4>1. RxPast(c) /\ ProcPast(c)
        BY <3>2 DEF IInv, ClosedInv
      <4>2. pc[Rx(c)] # "crashed" /\ pc[Proc(c)] # "crashed"
        BY ThreadFacts DEF IInv, CrashInv
      <4> QED BY <1>5, <4>1, <4>2 DEF RxPast, ProcPast
    <3> QED BY <2>3, <3>1, <3>2, CleanForms DEF Kept
  <2>4. \A c \in Conns : conn'[c].mem = "none" => conn[c].mem = "none"
    BY <1>6
  <2> QED BY <1>1, <1>5, <2>1, <2>2, <2>3, <2>4 DEF MemInv, Live, RxOff, Unborn, Failed, Leaving,
                                       HasCtx, CtxInv, Taken, Made
<1>10. StartedInv'
  BY CleanStarted
<1> QED BY <1>7, <1>8, <1>9, <1>10

LEMMA KnownInit == Init => KnownInv
<1> SUFFICES ASSUME Init PROVE KnownInv
  OBVIOUS
<1>1. pc[Main] = "accept" /\ pc[Cleaner] = "check" /\ \A t \in Workers : pc[t] = "off"
  BY ThreadFacts DEF Init, Workers, Main, Cleaner, Threads
<1>2. \A c \in Conns : /\ pc[Rx(c)] = "off" /\ pc[Proc(c)] = "off"
                       /\ conn[c].mem = "none"
  BY <1>1 DEF Rx, Proc, Workers, Init, Blank
<1>3. \A t \in Callers : pc[t] \notin Closing
  BY <1>1 DEF Callers, Closing
<1>4. toStop = <<>> /\ toStop \in Seq(Conns)
  BY DEF Init
<1>5. StopsInv
  BY <1>1, <1>3, <1>4 DEF StopsInv, StopPlaces
<1>6. CtxInv
  BY <1>1, <1>2 DEF CtxInv, HasCtx, Taken, Made, Leaving, Live
<1>7. MemInv
  BY <1>1, <1>2 DEF MemInv, RxOff, Unborn, Failed, Leaving
<1>8. StartedInv
  BY <1>1 DEF StartedInv, Failed, Leaving
<1> QED BY <1>5, <1>6, <1>7, <1>8 DEF KnownInv

LEMMA KnownNext ==
  ASSUME OInv, RestTypes, ReapInv, KnownInv, "reply" \notin Events, [Next]_vars, fault' = None
  PROVE  KnownInv'
<1>1. fault = None /\ IInv /\ OwnTypes /\ OwnParts
  BY Halted DEF OInv, vars
<1>2. CASE UNCHANGED vars \/ SigStop
  <2>1. UNCHANGED <<conn, ctx, list, pc, req, toStop, cur, nxt>>
    BY <1>2 DEF vars, SigStop, locals
  <2>2. \A t : Subject(t)' = Subject(t)
    BY <2>1 DEF Subject
  <2>3. StopsInv'
    BY <2>1, <2>2 DEF KnownInv, StopsInv
  <2>4. CtxInv'
    <3>1. \A c \in Conns : Live(c)' /\ conn'[c].ptr /\ ctx'[c] = "freed" =>
            \E t \in Callers : Subject(t)' = c /\ pc'[t] = "clearCtx"
      BY <2>1, <2>2 DEF KnownInv, CtxInv, Live
    <3> QED BY <2>1, <3>1 DEF KnownInv, CtxInv, Live
  <2>5. MemInv'
    BY <2>1 DEF KnownInv, MemInv, Live
  <2>6. StartedInv'
    BY <2>1 DEF KnownInv, StartedInv, InList
  <2> QED BY <2>3, <2>4, <2>5, <2>6 DEF KnownInv
<1>3. ASSUME NEW c \in Conns, RxThread(c) \/ RxHears(c) \/ ProcThread(c) PROVE KnownInv'
  BY <1>1, <1>3, WorkerKnown
<1>4. ASSUME NEW t \in Callers, Stop(t) PROVE KnownInv'
  BY <1>1, <1>4, StopKnown
<1>5. CASE CleanerThread
  BY <1>1, <1>5, CleanerKnown
<1>6. CASE MainThread \/ ClientAsks
  BY <1>1, <1>6, MainKnown
<1>7. ASSUME NEW t \in Threads, Fault(t) PROVE FALSE
  BY <1>1, <1>7, FaultLeaves
<1> QED BY <1>2, <1>3, <1>4, <1>5, <1>6, <1>7 DEF Next

LEMMA QueueInit == Init => QueueInv
BY ThreadFacts DEF Init, QueueInv

(* A queue is destroyed only when no thread of its connection is about to   *)
(* close it.                                                                *)
LEMMA QueueNext ==
  ASSUME OInv, KnownInv, QueueInv, [Next]_vars, fault' = None
  PROVE  QueueInv'
<1>1. fault = None /\ IInv /\ OwnTypes /\ OwnParts
  BY Halted DEF OInv, vars
<1>2. conn \in [Conns -> Flags] /\ pc \in [Threads -> Places]
  BY <1>1 DEF IInv
<1> DEFINE Own(c) == {Rx(c), Proc(c)}
           Calm(c) == /\ conn'[c].queue = conn[c].queue \/ conn'[c].queue # "none"
                      /\ \A t \in Own(c) : pc'[t] = "lockQueue" => pc[t] = "lockQueue"
           Away(c) == \A t \in Own(c) : pc'[t] # "lockQueue"
<1>3. SUFFICES ASSUME NEW c \in Conns PROVE Calm(c) \/ Away(c) \/ conn'[c].queue # "none"
  BY DEF QueueInv
<1>4. CASE UNCHANGED vars \/ SigStop
  BY <1>4 DEF vars, SigStop
<1>5. ASSUME NEW d \in Conns, RxThread(d) \/ RxHears(d) \/ ProcThread(d) PROVE Calm(c)
  <2>1. PICK t \in {Rx(d), Proc(d)}, b \in Places :
          pc' = [pc EXCEPT ![t] = b] /\ b \notin Closing
    BY <1>1, <1>5, WorkerSteps
  <2>2. \A s \in Own(c) : pc'[s] = "lockQueue" => pc[s] = "lockQueue"
    BY <1>2, <2>1, ThreadFacts DEF Closing
  <2>3. conn'[c].queue = conn[c].queue
    BY <1>2, <1>5 DEF RxThread, RxHears, RxLoop, RxRecv, RxShut, RxPush, RxExit, RxExitPost,
                      ProcThread, ProcLoop, ProcPop, ProcHandle, ProcSend, ProcExit,
                      ProcClear, ProcExitPost, ProcLog, Set, Flags
  <2> QED BY <2>2, <2>3
<1>6. ASSUME NEW t \in Callers, Stop(t) PROVE Calm(c) \/ conn'[c].queue # "none"
  <2>1. PICK u \in Conns : u = Subject(t)
    BY <1>1, <1>6, StopEffect, StopSubject DEF KnownInv
  <2>2. t \in Threads /\ (t \in Own(c) => u = c)
    BY <2>1, CallerFacts DEF Callers, Threads
  <2>3. CASE StopCloseQueue(t)
    BY <1>2, <2>1, <2>2, <2>3, ThreadFacts DEF StopCloseQueue, Step
  <2>4. CASE StopSignalQueue(t)
    BY <1>2, <2>1, <2>2, <2>4, ThreadFacts DEF StopSignalQueue, Step, Set, Flags
  <2>5. CASE StopMark(t) \/ StopCloseCtx(t) \/ StopClearCtx(t)
    <3>1. conn'[c].queue = conn[c].queue
      BY <1>2, <2>5 DEF StopMark, StopCloseCtx, StopClearCtx, Set, Flags
    <3>2. pc'[t] # "lockQueue" /\ \A s \in Threads : s # t => pc'[s] = pc[s]
      BY <1>2, <2>2, <2>5 DEF StopMark, StopCloseCtx, StopClearCtx, StopReturns, Step
    <3> QED BY <3>1, <3>2, ThreadFacts
  <2> QED BY <1>6, <2>3, <2>4, <2>5 DEF Stop
<1>7. CASE CleanerThread
  <2>1. \A t \in Own(c) : pc'[t] = pc[t]
    <3>1. \E b : pc' = [pc EXCEPT ![Cleaner] = b]
      BY <1>7 DEF CleanerThread, CleanCheck, CleanWait, CleanLock, CleanScan,
         CleanDestroyQueue, CleanUnexport, CleanRelease, CleanClosed,
         CleanReap, CleanRemove, CleanFree, CleanRelock, Walk, Step, locals
    <3> QED BY <1>2, <3>1, ThreadFacts
  <2>2. pc[Cleaner] \in Holding \cup {"remove", "free"} => cur \in Conns
    BY <1>1 DEF OwnParts, ListInv
  <2>3. CASE CleanDestroyQueue /\ cur = c
    <3>1. Stopped(c)
      BY <1>1, <2>3 DEF CleanDestroyQueue, Step, IInv, CleanInv, Teardown
    <3>2. RxPast(c) /\ ProcPast(c)
      BY <1>1, <3>1 DEF Stopped, IInv, ExitInv
    <3> QED BY <2>1, <3>2 DEF RxPast, ProcPast
  <2>4. CASE CleanFree /\ cur = c
    <3>1. conn[c].state = "CLOSED"
      BY <1>1, <2>4 DEF CleanFree, Step, IInv, CleanInv
    <3>2. RxPast(c) /\ ProcPast(c)
      BY <1>1, <3>1 DEF IInv, ClosedInv
    <3> QED BY <2>1, <3>2 DEF RxPast, ProcPast
  <2>5. CASE (CleanDestroyQueue \/ CleanFree) /\ cur # c
    BY <1>2, <2>1, <2>5 DEF CleanDestroyQueue, CleanFree
  <2>6. CASE CleanClosed
    BY <1>2, <2>1, <2>6 DEF CleanClosed, Set, Flags
  <2>7. CASE CleanCheck \/ CleanWait \/ CleanLock \/ CleanScan \/ CleanUnexport
             \/ CleanRelease \/ CleanReap \/ CleanRemove \/ CleanRelock
    BY <2>1, <2>7 DEF CleanCheck, CleanWait, CleanLock, CleanScan, CleanUnexport, CleanRelease,
                      CleanReap, CleanRemove, CleanRelock
  <2> QED BY <1>7, <2>3, <2>4, <2>5, <2>6, <2>7 DEF CleanerThread
<1>8. CASE MainThread \/ ClientAsks
  <2> USE DEF Step
  <2>1. \A t \in Own(c) : pc'[t] = "lockQueue" => pc[t] = "lockQueue"
    <3>1. \E b : \/ pc' = [pc EXCEPT ![Main] = b]
               \/ \E t : pc' = [pc EXCEPT ![Main] = b, ![t] = "loop"]
      BY <1>8 DEF MainThread, MainAccept, ClientAsks, MainOther, MainImport, MainLimit, MainAdd,
         MainBind, MainExport, MainBusy, StartConn, StartInit, StartProc, StartRx, Create,
         StartProcStarted, StartRxStarted, StartActive, StartSet, StartFailQueue,
         StartFailJoin, StartFailDestroy, MainReply, ImportFailed, MainUnexport, MainRelease,
         MainRemove, MainFree, MainClose, MainShutdown, MainCollect, MainHalt, MainJoin
    <3> QED BY <1>2, <3>1, ThreadFacts
  <2>2. conn'[c] = conn[c] \/ (c = req.conn /\ pc[Main] \in HasCtx \ {"close"})
    <3>1. CASE StartConn
      BY <1>2, <3>1 DEF StartConn, StartInit, StartProc, StartRx, Create, StartFailQueue,
         StartFailJoin, StartFailDestroy, StartProcStarted, StartRxStarted, StartActive,
         StartSet, Set, HasCtx, Taken, Made
    <3>2. CASE MainLimit \/ MainFree
      BY <1>2, <3>2 DEF MainLimit, MainFree, Refuse, HasCtx, Leaving
    <3>3. CASE \/ MainAccept \/ ClientAsks \/ MainAdd \/ MainBind \/ MainExport \/ MainBusy
               \/ MainReply \/ MainShutdown \/ MainUnexport \/ MainRelease \/ MainRemove
               \/ MainClose
      BY <3>3 DEF MainAccept, ClientAsks, MainOther, MainImport, MainAdd, MainBind, MainExport,
         MainBusy, MainReply, MainUnexport, MainRelease, MainRemove, MainClose, MainShutdown,
         MainCollect, MainHalt, MainJoin, Refuse
    <3> QED BY <1>8, <3>1, <3>2, <3>3 DEF MainThread, ImportFailed
  <2>3. c = req.conn /\ pc[Main] \in HasCtx \ {"close"} =>
          \A t \in Own(c) : pc[t] # "lockQueue"
    BY <1>1, ImportQuiet DEF Rx, Proc, Workers, Closing
  <2> QED BY <2>1, <2>2, <2>3
<1>9. ASSUME NEW t \in Threads, Fault(t) PROVE FALSE
  BY <1>1, <1>9, FaultLeaves
<1> QED BY <1>4, <1>5, <1>6, <1>7, <1>8, <1>9 DEF Next

(* The access to freed memory that ends the behaviour.                      *)
LEMMA FaultStep ==
  ASSUME OInv, KnownInv, QueueInv, fault = None, NEW t \in Threads, Fault(t)
  PROVE  FaultsKnown'
<1> USE DEF KnownInv
<1>1. IInv /\ OwnTypes /\ OwnParts
  BY DEF OInv
<1>2. PICK o \in Gone(t) : fault' = [object |-> o, thread |-> t[1], at |-> pc[t]]
  BY DEF Fault
<1>3. fault'.object = o /\ fault'.thread = t[1] /\ fault'.at = pc[t]
  BY <1>2
<1>4. Subject(t) # None
  BY DEF Fault
<1>5. \/ t = Main \/ t = Cleaner
      \/ \E c \in Conns : t = Rx(c) \/ t = Proc(c)
  BY CallerFacts DEF Threads
<1>6. pc[Main] \notin StopPlaces => Subject(Main) = req.conn
  BY DEF StopsInv, Subject
<1>7. CASE o = "sem"
  BY <1>3, <1>7 DEF FaultsKnown
<1>8. CASE o = "ctx"
  <2>1. TouchesCtx(t) /\ ctx[Subject(t)] = "freed"
        /\ ~(TouchesConn(t) /\ conn[Subject(t)].mem = "freed")
    BY <1>2, <1>8 DEF Gone
  <2>2. CASE pc[t] = "closeCtx" /\ conn[Subject(t)].ptr
    <3>1. t \in Callers
      BY <2>2 DEF StopsInv, StopPlaces, Threads, Callers
    <3>2. PICK u \in Conns : u = Subject(t)
      BY <2>2, <3>1 DEF StopsInv, Closing
    <3>3. conn[u].mem # "freed"
      BY <2>1, <2>2, <3>2 DEF TouchesConn
    <3>4. conn[u].state \in {"CLOSING", "CLOSED"}
      BY <2>2, <3>1, <3>2, <3>3 DEF StopsInv, Closing
    <3>5. Live(u)
      BY <1>1, <3>4 DEF OwnParts, StageInv
    <3>6. PICK s \in Callers : Subject(s) = u /\ pc[s] = "clearCtx"
      BY <2>1, <2>2, <3>2, <3>5 DEF CtxInv
    <3>7. s = t
      BY <2>2, <3>1, <3>2, <3>6 DEF StopsInv, Closing
    <3> QED BY <2>2, <3>6, <3>7
  <2>3. CASE t = Main /\ pc[t] = "close"
    BY <1>6, <2>1, <2>3 DEF CtxInv, HasCtx, StopPlaces
  <2>4. CASE pc[t] \in {"recv", "send", "replyOk", "replyDev"}
    BY <1>3, <1>8, <2>4 DEF FaultsKnown
  <2> QED BY <2>1, <2>2, <2>3, <2>4 DEF TouchesCtx
<1>9. CASE o = "conn"
  <2>1. TouchesConn(t) /\ conn[Subject(t)].mem = "freed"
    BY <1>2, <1>9 DEF Gone
  <2>2. CASE t = Main
    <3>1. CASE pc[Main] \in StopPlaces
      <4>1. pc[Main] # "lockQueue"
        BY <2>1, <2>2 DEF TouchesConn, Main, Cleaner, Workers
      <4> QED BY <1>3, <1>9, <2>2, <3>1, <4>1 DEF FaultsKnown, StopPlaces, Main
    <3>2. CASE pc[Main] \notin StopPlaces
      <4>1. pc[Main] \in Taken \cup Leaving
        BY <2>1, <2>2, <3>2, ThreadFacts
           DEF TouchesConn, StopPlaces, Taken, Made, Leaving, Workers, Main
      <4>2. Live(req.conn)
        BY <1>1, <4>1 DEF MemInv, OwnParts, StageInv
      <4> QED BY <1>6, <2>1, <2>2, <3>2, <4>2 DEF Live
    <3> QED BY <3>1, <3>2
  <2>3. CASE t = Cleaner
    <3>1. Subject(t) = cur /\ cur # None
      BY <1>4, <2>3, CallerFacts
    <3>2. pc[Cleaner] \in Scanning \cup {"reap", "remove", "free"}
      BY <2>1, <2>3 DEF TouchesConn, StopsInv, StopPlaces, Scanning, Main, Cleaner, Workers
    <3>3. ~Live(cur)
      BY <2>1, <3>1 DEF Live
    <3>4. cur \in Conns
      BY <1>1, <3>1 DEF OwnTypes
    <3>5. pc[Cleaner] \in {"remove", "free"} => FALSE
      BY <3>3 DEF MemInv
    <3>6. pc[Cleaner] \in Scanning => FALSE
      BY <1>1, <3>3, <3>4 DEF OwnParts, ListInv
    <3>7. pc[Cleaner] = "reap" /\ "thread" \in Events
      BY <1>1, <3>2, <3>3, <3>4, <3>5, <3>6 DEF OwnParts, ListInv, StartedInv
    <3> QED BY <1>3, <1>9, <2>3, <3>7 DEF FaultsKnown, Cleaner
  <2>4. ASSUME NEW c \in Conns, t = Rx(c) \/ t = Proc(c)
        PROVE  FaultsKnown'
    <3>1. conn[c].mem = "freed"
      BY <2>1, <2>4, CallerFacts
    <3>2. t # Main /\ t # Cleaner
      BY <2>4, ThreadFacts
    <3>3. CASE t = Rx(c)
      <4>1. pc[t] \in {"exitPost", "done", "off"}
        BY <3>1, <3>3 DEF MemInv
      <4> QED BY <2>1, <3>2, <4>1 DEF TouchesConn
    <3>4. CASE t = Proc(c)
      <4>1. pc[t] \in {"exitPost", "log", "done", "off"}
        BY <3>1, <3>4 DEF MemInv
      <4>2. pc[t] = "log"
        BY <2>1, <3>2, <4>1 DEF TouchesConn
      <4> QED BY <1>3, <1>9, <3>4, <4>2 DEF FaultsKnown, Proc
    <3> QED BY <2>4, <3>3, <3>4
  <2> QED BY <1>5, <2>2, <2>3, <2>4
<1>10. CASE o = "queue"
  <2>1. pc[t] = "lockQueue" /\ conn[Subject(t)].queue = "none"
    BY <1>2, <1>10 DEF Gone, TouchesQueue
  <2>2. t # Cleaner
    BY <2>1 DEF StopsInv, StopPlaces
  <2>3. \A c \in Conns : t # Rx(c) /\ t # Proc(c)
    BY <2>1, CallerFacts DEF QueueInv
  <2>4. fault'.object = "queue" /\ fault'.thread = "main"
    BY <1>3, <1>5, <1>10, <2>2, <2>3 DEF Main
  <2> QED BY <2>4 DEF FaultsKnown
<1> QED BY <1>2, <1>7, <1>8, <1>9, <1>10 DEF Gone

(* As long as import replies are delivered, freed memory is touched only by *)
(* the accesses FaultsKnown lists: no context or connection is freed twice, *)
(* RX and the processor never use a freed connection but for the last log   *)
(* line, nobody but the server's thread at shutdown a destroyed queue, and  *)
(* ConnCleanup uses a freed connection only where a thread could not be     *)
(* created and it goes on to an import taken back in the meantime           *)
(* (usbip_conn.c:111-118, 233-284, 448-478, usbip_urb.c:270-281).           *)
THEOREM FaultsListed == Spec => []FaultsKnown
<1> DEFINE F == fault # None
           R == "reply" \in Events
<1>1. OInv /\ F /\ [Next]_vars => F' /\ (FaultsKnown => FaultsKnown')
  <2> SUFFICES ASSUME OInv, F, [Next]_vars PROVE F' /\ (FaultsKnown => FaultsKnown')
    OBVIOUS
  <2>1. UNCHANGED vars
    BY Halted DEF OInv
  <2> QED BY <2>1 DEF FaultsKnown, vars
<1>2. OInv /\ RestTypes /\ ReapInv /\ KnownInv /\ ~R /\ [Next]_vars => KnownInv' \/ F'
  BY KnownNext
<1>11. OInv /\ KnownInv /\ QueueInv /\ [Next]_vars => QueueInv' \/ F'
  BY QueueNext
<1>3. OInv /\ ((KnownInv /\ QueueInv) \/ F) /\ ~R /\ FaultsKnown /\ [Next]_vars
        => FaultsKnown'
  <2> SUFFICES ASSUME OInv, (KnownInv /\ QueueInv) \/ F, ~R, FaultsKnown, [Next]_vars,
                      fault = None, F'
               PROVE  FaultsKnown'
    BY <1>1 DEF FaultsKnown
  <2>1. \E t \in Threads : Fault(t)
    <3>1. IInv
      BY DEF OInv
    <3>2. ASSUME NEW c \in Conns, RxThread(c) \/ RxHears(c) \/ ProcThread(c) PROVE FALSE
      BY <3>1, <3>2, WorkerCalm
    <3>3. ASSUME NEW t \in Callers, Stop(t) PROVE FALSE
      BY <3>1, <3>3, StopCalm
    <3>4. ~CleanerThread
      BY DEF CleanerThread, CleanCheck, CleanWait, CleanLock, CleanScan,
         CleanDestroyQueue, CleanUnexport, CleanRelease, CleanClosed,
         CleanReap, CleanRemove, CleanFree, CleanRelock, Walk, locals
    <3>5. ~(MainThread \/ ClientAsks)
      BY DEF MainThread, MainAccept, ClientAsks, MainOther, MainImport, MainLimit, MainAdd,
         MainBind, MainExport, MainBusy, StartConn, StartInit, StartProc, StartRx, Create,
         StartProcStarted, StartRxStarted, StartActive, StartSet, StartFailQueue,
         StartFailJoin, StartFailDestroy, MainReply, ImportFailed, MainUnexport, MainRelease,
         MainRemove, MainFree, MainClose, MainShutdown, MainCollect, MainHalt, MainJoin,
         Refuse, ImportDone, locals
    <3> QED BY <3>2, <3>3, <3>4, <3>5 DEF Next, SigStop, locals, vars
  <2> QED BY <2>1, FaultStep
<1>4. Init => FaultsKnown
  BY DEF Init, FaultsKnown
<1>5. R => FaultsKnown
  BY DEF FaultsKnown
<1>6. OInv /\ RestTypes /\ ReapInv /\ [Next]_vars => ReapInv' \/ F'
  BY ReapNext
<1>7. OInv /\ F /\ [Next]_vars => F'
  BY <1>1
<1>8. Spec => []RestTypes
  BY OwnAlways, RestInit, RestNext, PTL DEF Spec
<1>9. CASE R
  <2>1. FaultsKnown
    BY <1>9 DEF FaultsKnown
  <2> QED BY <1>9, <1>5, PTL
<1>10. CASE ~R
  <2>1. OInv /\ RestTypes /\ ReapInv /\ KnownInv /\ [Next]_vars => KnownInv' \/ F'
    BY <1>2, <1>10
  <2>2. OInv /\ ((KnownInv /\ QueueInv) \/ F) /\ FaultsKnown /\ [Next]_vars => FaultsKnown'
    BY <1>3, <1>10
  <2> HIDE DEF F
  <2> QED BY <1>4, <1>6, <1>7, <1>8, <1>11, <2>1, <2>2, ReapInit, KnownInit, QueueInit,
             OwnAlways, PTL DEF Spec
<1> QED BY <1>9, <1>10

===============================================================================
