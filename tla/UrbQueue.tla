------------------------------ MODULE UrbQueue ------------------------------
(***************************************************************************)
(* The per-connection URB queue of usbip_urb.c: a ring of                  *)
(* USBIP_URB_QUEUE_SIZE slots under one mutex, with the condition          *)
(* variables not_empty and not_full.  The RX thread pushes, the URB        *)
(* processor pops, and any thread (both of them included, through          *)
(* usbip_connection_request_stop) may close.                               *)
(*                                                                         *)
(* A call is a sequence of steps of its thread: take the mutex, find the   *)
(* loop condition true and sleep on the condition variable (giving up the  *)
(* mutex), wake, take the mutex again, copy the slot, move the index and   *)
(* return.  A sleeper wakes when it is signalled or spuriously, which      *)
(* pthread_cond_wait permits and the while loops at 171 and 226 absorb.    *)
(***************************************************************************)
EXTENDS Naturals, Sequences

CONSTANTS
  Urbs,      \* the URBs (header, data and data_len together)
  NoUrb,     \* the content of a slot or a buffer nothing was copied to
  Rx,        \* the connection's RX thread
  Proc,      \* the connection's URB processor thread
  Closers,   \* the other threads that may close the queue
  Free,      \* the owner of a free mutex
  Size       \* USBIP_URB_QUEUE_SIZE

Threads == {Rx, Proc} \cup Closers

ASSUME SizeAssumption == Size \in Nat /\ Size >= 2
ASSUME UrbAssumption == NoUrb \notin Urbs
ASSUME ThreadAssumption == Rx # Proc /\ {Rx, Proc} \cap Closers = {}
                           /\ Free \notin Threads

VARIABLES
  slots,     \* the ring
  head,      \* index of the oldest URB
  tail,      \* index of the slot the next push fills
  closed,    \* set once by usbip_urb_queue_close
  lock,      \* the owner of the mutex, or Free
  pc,        \* where each thread is in its call
  call,      \* which call that is
  arg,       \* the URB given to the push
  buf,       \* the buffer a pop copies to
  ret        \* the result of the last call: "ok" is 0, "failed" is -1,
             \* "void" a close that returned

vars == <<slots, head, tail, closed, lock, pc, call, arg, buf, ret>>

Index == 0 .. Size - 1

(* "lock": waits for the mutex; "check": holds it, at the loop condition;   *)
(* "asleep": in osal_cond_wait; "copied": holds it, the slot is copied and  *)
(* the index not yet moved.                                                 *)
Places == {"outside", "lock", "check", "asleep", "copied"}

TypeOK ==
  /\ slots \in [Index -> Urbs \cup {NoUrb}]
  /\ head \in Index
  /\ tail \in Index
  /\ closed \in BOOLEAN
  /\ lock \in Threads \cup {Free}
  /\ pc \in [Threads -> Places]
  /\ call \in [Threads -> {"none", "push", "pop", "close"}]
  /\ arg \in Urbs \cup {NoUrb}
  /\ buf \in Urbs \cup {NoUrb}
  /\ ret \in [Threads -> {"none", "ok", "failed", "void"}]

(* The slot after i.                                                        *)
Succ(i) == (i + 1) % Size

(* One slot always stays free: head = tail means empty.                     *)
Full == Succ(tail) = head
Empty == head = tail

Init ==
  /\ slots = [i \in Index |-> NoUrb]
  /\ head = 0
  /\ tail = 0
  /\ closed = FALSE
  /\ lock = Free
  /\ pc = [t \in Threads |-> "outside"]
  /\ call = [t \in Threads |-> "none"]
  /\ arg = NoUrb
  /\ buf = NoUrb
  /\ ret = [t \in Threads |-> "none"]

-----------------------------------------------------------------------------
(* Steps every call is made of.                                             *)

Enter(t, c) ==
  /\ pc[t] = "outside"
  /\ pc' = [pc EXCEPT ![t] = "lock"]
  /\ call' = [call EXCEPT ![t] = c]
  /\ ret' = [ret EXCEPT ![t] = "none"]

Lock(t) ==
  /\ pc[t] = "lock" /\ lock = Free
  /\ lock' = t
  /\ pc' = [pc EXCEPT ![t] = "check"]
  /\ UNCHANGED <<slots, head, tail, closed, call, arg, buf, ret>>

(* osal_cond_wait gives up the mutex and sleeps in one step.                *)
Sleep(t) ==
  /\ lock' = Free
  /\ pc' = [pc EXCEPT ![t] = "asleep"]
  /\ UNCHANGED <<slots, head, tail, closed, call, arg, buf, ret>>

(* osal_cond_wait returns without a signal.                                 *)
SpuriousWake(t) ==
  /\ pc[t] = "asleep"
  /\ pc' = [pc EXCEPT ![t] = "lock"]
  /\ UNCHANGED <<slots, head, tail, closed, lock, call, arg, buf, ret>>

(* Thread t unlocks and returns r, having signalled or broadcast to Woken.  *)
Return(t, r, Woken) ==
  /\ lock' = Free
  /\ pc' = [s \in Threads |->
              IF s = t THEN "outside"
              ELSE IF s \in Woken /\ pc[s] = "asleep" THEN "lock"
              ELSE pc[s]]
  /\ call' = [call EXCEPT ![t] = "none"]
  /\ ret' = [ret EXCEPT ![t] = r]

Holding(t, c, p) == lock = t /\ call[t] = c /\ pc[t] = p

-----------------------------------------------------------------------------
(* usbip_urb_queue_push                                                     *)

CallPush(u) ==
  /\ Enter(Rx, "push")
  /\ arg' = u
  /\ UNCHANGED <<slots, head, tail, closed, lock, buf>>

PushWait ==
  /\ Holding(Rx, "push", "check") /\ Full /\ ~closed
  /\ Sleep(Rx)

PushFail ==
  /\ Holding(Rx, "push", "check") /\ closed
  /\ Return(Rx, "failed", {})
  /\ UNCHANGED <<slots, head, tail, closed, arg, buf>>

PushCopy ==
  /\ Holding(Rx, "push", "check") /\ ~Full /\ ~closed
  /\ slots' = [slots EXCEPT ![tail] = arg]
  /\ pc' = [pc EXCEPT ![Rx] = "copied"]
  /\ UNCHANGED <<head, tail, closed, lock, call, arg, buf, ret>>

(* Signals not_empty, on which only the processor can be asleep.            *)
PushAdvance ==
  /\ Holding(Rx, "push", "copied")
  /\ tail' = Succ(tail)
  /\ Return(Rx, "ok", {Proc})
  /\ UNCHANGED <<slots, head, closed, arg, buf>>

-----------------------------------------------------------------------------
(* usbip_urb_queue_pop                                                      *)

CallPop ==
  /\ Enter(Proc, "pop")
  /\ UNCHANGED <<slots, head, tail, closed, lock, arg, buf>>

PopWait ==
  /\ Holding(Proc, "pop", "check") /\ Empty /\ ~closed
  /\ Sleep(Proc)

(* Mutant of PopFail: a closed queue is not drained.                        *)
PopFailUndrained ==
  /\ Holding(Proc, "pop", "check") /\ closed
  /\ Return(Proc, "failed", {})
  /\ UNCHANGED <<slots, head, tail, closed, arg, buf>>

PopFail ==
  /\ Holding(Proc, "pop", "check") /\ Empty /\ closed
  /\ Return(Proc, "failed", {})
  /\ UNCHANGED <<slots, head, tail, closed, arg, buf>>

(* The size check at 243 compares slot->data_len with itself and never      *)
(* fails; clearing slot->valid is left out, nothing reads it.               *)
PopCopy ==
  /\ Holding(Proc, "pop", "check") /\ ~Empty
  /\ buf' = slots[head]
  /\ pc' = [pc EXCEPT ![Proc] = "copied"]
  /\ UNCHANGED <<slots, head, tail, closed, lock, call, arg, ret>>

(* Mutant of PopAdvance: not_full is not signalled.                         *)
PopAdvanceSilent ==
  /\ Holding(Proc, "pop", "copied")
  /\ head' = Succ(head)
  /\ Return(Proc, "ok", {})
  /\ UNCHANGED <<slots, tail, closed, arg, buf>>

(* Signals not_full, on which only the RX thread can be asleep.             *)
PopAdvance ==
  /\ Holding(Proc, "pop", "copied")
  /\ head' = Succ(head)
  /\ Return(Proc, "ok", {Rx})
  /\ UNCHANGED <<slots, tail, closed, arg, buf>>

-----------------------------------------------------------------------------
(* usbip_urb_queue_close                                                    *)

CallClose(t) ==
  /\ Enter(t, "close")
  /\ UNCHANGED <<slots, head, tail, closed, lock, arg, buf>>

(* Mutant of Close: sleepers are not woken.                                 *)
CloseSilent(t) ==
  /\ Holding(t, "close", "check")
  /\ closed' = TRUE
  /\ Return(t, "void", {})
  /\ UNCHANGED <<slots, head, tail, arg, buf>>

(* Broadcasts both condition variables.                                     *)
Close(t) ==
  /\ Holding(t, "close", "check")
  /\ closed' = TRUE
  /\ Return(t, "void", Threads)
  /\ UNCHANGED <<slots, head, tail, arg, buf>>

-----------------------------------------------------------------------------

Push == PushWait \/ PushFail \/ PushCopy \/ PushAdvance
Pop == PopWait \/ PopFail \/ PopCopy \/ PopAdvance

Next ==
  \/ \E u \in Urbs : CallPush(u)
  \/ CallPop
  \/ PushWait \/ PushFail \/ PushCopy \/ PushAdvance
  \/ PopWait \/ PopFail \/ PopCopy \/ PopAdvance
  \/ \E t \in Threads : CallClose(t) \/ Close(t) \/ Lock(t) \/ SpuriousWake(t)

Spec == Init /\ [][Next]_vars

(* Threads keep running inside a call and the mutex starves nobody.         *)
(* Nothing is assumed of who calls, or of spurious wake-ups.                *)
Fairness ==
  /\ WF_vars(Push) /\ WF_vars(Pop)
  /\ \A t \in Threads : WF_vars(Close(t)) /\ SF_vars(Lock(t))

FairSpec == Spec /\ Fairness

-----------------------------------------------------------------------------
(* Properties                                                               *)

(* A thread asleep on a condition variable has something to wait for: a     *)
(* sleeping push finds the ring full, a sleeping pop finds it empty, and    *)
(* nobody sleeps in a closed queue.  A missed signal, or a wait entered     *)
(* with the condition already false (usbip_urb.c:171-174, 226-229), would   *)
(* leave a thread of the connection asleep for good.                        *)
NoLostWakeup ==
  /\ pc[Rx] = "asleep" => Full /\ ~closed
  /\ pc[Proc] = "asleep" => Empty /\ ~closed

-----------------------------------------------------------------------------
(* The queue is a bounded, closable FIFO.                                   *)

Count == IF head <= tail THEN tail - head ELSE tail + Size - head

At(i) == IF head + i - 1 < Size THEN head + i - 1 ELSE head + i - 1 - Size

Contents == [i \in 1 .. Count |-> slots[At(i)]]

(* A pop's buffer is read by its caller only when the pop returned 0.       *)
Got == IF ret[Proc] = "ok" THEN buf ELSE NoUrb

Fifo == INSTANCE UrbFifo WITH fifo <- Contents, got <- Got,
                              Capacity <- Size - 1

(* The ring with its mutex and condition variables implements the FIFO      *)
(* channel of UrbFifo: URBs leave in the order they entered, none is lost,  *)
(* duplicated or overwritten, also across the close (usbip_urb.c:150-282).  *)
ImplementsFifo == Fifo!Spec

(* ... and every call that the channel can let return does return.          *)
ImplementsLiveFifo == Fifo!LiveSpec

=============================================================================
