------------------------------- MODULE UrbFifo -------------------------------
(***************************************************************************)
(* What one connection's URB queue promises its users, with the ring, the  *)
(* mutex and the condition variables of usbip_urb.c left out: a bounded    *)
(* first-in first-out channel from the RX thread to the URB processor that *)
(* can be closed once.  After the close no URB enters any more, but those  *)
(* already inside are still handed out, and only then does a pop fail.     *)
(***************************************************************************)
EXTENDS Naturals, Sequences

CONSTANTS
  Urbs,      \* the URBs (header and data together) that can be queued
  NoUrb,     \* the content of a buffer nothing was copied to
  Rx,        \* the thread that pushes
  Proc,      \* the thread that pops
  Closers,   \* the other threads, which only close
  Capacity   \* how many URBs fit in the queue

Threads == {Rx, Proc} \cup Closers

VARIABLES
  fifo,      \* the URBs inside, oldest first
  closed,    \* has the queue been closed?
  call,      \* the call a thread is inside of, "none" when it is outside
  arg,       \* the URB of Rx's current or last push
  ret,       \* the result of a thread's last call, "none" while it is inside
  got        \* the URB the last successful pop returned to Proc

vars == <<fifo, closed, call, arg, ret, got>>

TypeOK ==
  /\ fifo \in Seq(Urbs) /\ Len(fifo) <= Capacity
  /\ closed \in BOOLEAN
  /\ call \in [Threads -> {"none", "push", "pop", "close"}]
  /\ arg \in Urbs \cup {NoUrb}
  /\ ret \in [Threads -> {"none", "ok", "failed", "void"}]
  /\ got \in Urbs \cup {NoUrb}

Init ==
  /\ fifo = <<>>
  /\ closed = FALSE
  /\ call = [t \in Threads |-> "none"]
  /\ arg = NoUrb
  /\ ret = [t \in Threads |-> "none"]
  /\ got = NoUrb

Enter(t, c) ==
  /\ call[t] = "none"
  /\ call' = [call EXCEPT ![t] = c]
  /\ ret' = [ret EXCEPT ![t] = "none"]

Return(t, r) ==
  /\ call' = [call EXCEPT ![t] = "none"]
  /\ ret' = [ret EXCEPT ![t] = r]

CallPush(u) ==
  /\ Enter(Rx, "push")
  /\ arg' = u
  /\ UNCHANGED <<fifo, closed, got>>

CallPop ==
  /\ Enter(Proc, "pop")
  /\ got' = NoUrb
  /\ UNCHANGED <<fifo, closed, arg>>

CallClose(t) ==
  /\ Enter(t, "close")
  /\ got' = IF t = Proc THEN NoUrb ELSE got
  /\ UNCHANGED <<fifo, closed, arg>>

Put ==
  /\ call[Rx] = "push" /\ ~closed /\ Len(fifo) < Capacity
  /\ fifo' = Append(fifo, arg)
  /\ Return(Rx, "ok")
  /\ UNCHANGED <<closed, arg, got>>

Refuse ==
  /\ call[Rx] = "push" /\ closed
  /\ Return(Rx, "failed")
  /\ UNCHANGED <<fifo, closed, arg, got>>

Take ==
  /\ call[Proc] = "pop" /\ fifo # <<>>
  /\ got' = Head(fifo)
  /\ fifo' = Tail(fifo)
  /\ Return(Proc, "ok")
  /\ UNCHANGED <<closed, arg>>

Drained ==
  /\ call[Proc] = "pop" /\ closed /\ fifo = <<>>
  /\ Return(Proc, "failed")
  /\ UNCHANGED <<fifo, closed, arg, got>>

Close(t) ==
  /\ call[t] = "close"
  /\ closed' = TRUE
  /\ Return(t, "void")
  /\ UNCHANGED <<fifo, arg, got>>

Next ==
  \/ \E u \in Urbs : CallPush(u)
  \/ CallPop
  \/ Put \/ Refuse
  \/ Take \/ Drained
  \/ \E t \in Threads : CallClose(t) \/ Close(t)

Spec == Init /\ [][Next]_vars

(* A call that can return does return: a push once there is room or the    *)
(* queue is closed, a pop once a URB is inside or the queue is closed.     *)
Fairness ==
  /\ WF_vars(Put) /\ WF_vars(Refuse)
  /\ WF_vars(Take) /\ WF_vars(Drained)
  /\ \A t \in Threads : WF_vars(Close(t))

LiveSpec == Spec /\ Fairness

=============================================================================
