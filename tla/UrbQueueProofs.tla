--------------------------- MODULE UrbQueueProofs ---------------------------
(***************************************************************************)
(* Proofs about UrbQueue for every ring size from 2 up, every set of URBs  *)
(* and every set of closing threads: the type invariant, the absence of    *)
(* lost wake-ups, and the refinement of the bounded FIFO UrbFifo.          *)
(***************************************************************************)
EXTENDS UrbQueue, SequenceTheorems, TLAPS

-----------------------------------------------------------------------------
(* Index arithmetic, stated once without the modulo.                        *)

LEMMA SuccValue ==
  ASSUME NEW i \in Index
  PROVE  Succ(i) = (IF i = Size - 1 THEN 0 ELSE i + 1) /\ Succ(i) \in Index
<1> USE SizeAssumption DEF Index, Succ
<1>1. CASE i = Size - 1
  BY <1>1, SMT
<1>2. CASE i # Size - 1
  BY <1>2, SMT
<1> QED BY <1>1, <1>2

-----------------------------------------------------------------------------
(* The inductive invariant.                                                 *)

(* The mutex is held exactly by the thread that is between lock and unlock. *)
LockInv ==
  \A t \in Threads : lock = t <=> pc[t] \in {"check", "copied"}

(* Only Rx pushes, only Proc pops, and only they sleep or copy.             *)
CallInv ==
  /\ \A t \in Threads :
       /\ call[t] = "none" <=> pc[t] = "outside"
       /\ call[t] # "none" => ret[t] = "none"
       /\ call[t] = "push" => t = Rx
       /\ call[t] = "pop" => t = Proc
       /\ pc[t] \in {"asleep", "copied"} => call[t] \in {"push", "pop"}
  /\ call[Rx] = "push" => arg \in Urbs

(* The indices between head and tail, where the queued URBs lie.            *)
Occupied ==
  IF head <= tail THEN head .. tail - 1
                  ELSE (head .. Size - 1) \cup (0 .. tail - 1)

(* What a thread knows between its copy and its index update.               *)
CopyInv ==
  /\ pc[Rx] = "copied" => ~Full /\ ~closed /\ slots[tail] = arg
  /\ pc[Proc] = "copied" => ~Empty /\ buf = slots[head]

(* Every queued slot holds a URB.                                           *)
OccupiedInv == \A i \in Occupied : slots[i] \in Urbs

IInv ==
  /\ TypeOK
  /\ LockInv
  /\ CallInv
  /\ CopyInv
  /\ OccupiedInv
  /\ NoLostWakeup

LEMMA InitInv == Init => IInv
<1> SUFFICES ASSUME Init PROVE IInv
  OBVIOUS
<1> USE ThreadAssumption DEF Init, Threads
<1>0. 0 \in Index
  BY SizeAssumption DEF Index
<1>1. TypeOK
  BY <1>0 DEF TypeOK, Places
<1>2. LockInv
  BY DEF LockInv
<1>3. CallInv
  BY DEF CallInv
<1>4. CopyInv
  BY DEF CopyInv
<1>5. OccupiedInv
  BY DEF OccupiedInv, Occupied
<1>6. NoLostWakeup
  BY DEF NoLostWakeup
<1> QED BY <1>1, <1>2, <1>3, <1>4, <1>5, <1>6 DEF IInv

(* A step of a thread that only moves it between places.                    *)
LEMMA EnterInv ==
  ASSUME IInv, NEW t \in Threads, NEW c \in {"push", "pop", "close"},
         Enter(t, c), c = "push" => t = Rx /\ arg' \in Urbs,
         c = "pop" => t = Proc,
         arg' = arg \/ c = "push",
         arg' \in Urbs \cup {NoUrb},
         UNCHANGED <<slots, head, tail, closed, lock, buf>>
  PROVE  IInv'
<1> USE ThreadAssumption DEF IInv, Enter, Threads, Places
<1>1. TypeOK'
  BY DEF TypeOK
<1>2. LockInv'
  BY DEF TypeOK, LockInv
<1>3. CallInv'
  BY DEF TypeOK, CallInv
<1>4. CopyInv'
  BY DEF TypeOK, CopyInv, CallInv, Full, Empty
<1>5. OccupiedInv'
  BY DEF TypeOK, OccupiedInv, Occupied
<1>6. NoLostWakeup'
  BY DEF TypeOK, NoLostWakeup, Full, Empty
<1> QED BY <1>1, <1>2, <1>3, <1>4, <1>5, <1>6

LEMMA LockStepInv ==
  ASSUME IInv, NEW t \in Threads, Lock(t) \/ SpuriousWake(t)
  PROVE  IInv'
<1> USE ThreadAssumption DEF IInv, Lock, SpuriousWake, Threads, Places
<1>1. TypeOK'
  BY DEF TypeOK
<1>2. LockInv'
  BY DEF TypeOK, LockInv
<1>3. CallInv'
  BY DEF TypeOK, CallInv
<1>4. CopyInv'
  BY DEF TypeOK, CopyInv, Full, Empty
<1>5. OccupiedInv'
  BY DEF TypeOK, OccupiedInv, Occupied
<1>6. NoLostWakeup'
  BY DEF TypeOK, NoLostWakeup, Full, Empty
<1> QED BY <1>1, <1>2, <1>3, <1>4, <1>5, <1>6

LEMMA WaitInv ==
  ASSUME IInv, PushWait \/ PopWait
  PROVE  IInv'
<1> USE ThreadAssumption
    DEF IInv, PushWait, PopWait, Holding, Sleep, Threads, Places
<1>1. TypeOK'
  BY DEF TypeOK
<1>2. LockInv'
  BY DEF TypeOK, LockInv
<1>3. CallInv'
  BY DEF TypeOK, CallInv
<1>4. CopyInv'
  BY DEF TypeOK, CopyInv, Full, Empty
<1>5. OccupiedInv'
  BY DEF TypeOK, OccupiedInv, Occupied
<1>6. NoLostWakeup'
  BY DEF TypeOK, NoLostWakeup, Full, Empty
<1> QED BY <1>1, <1>2, <1>3, <1>4, <1>5, <1>6

LEMMA FailInv ==
  ASSUME IInv, PushFail \/ PopFail
  PROVE  IInv'
<1> USE ThreadAssumption
    DEF IInv, PushFail, PopFail, Holding, Return, Threads, Places
<1>1. TypeOK'
  BY DEF TypeOK
<1>2. LockInv'
  BY DEF TypeOK, LockInv
<1>3. CallInv'
  BY DEF TypeOK, CallInv
<1>4. CopyInv'
  BY DEF TypeOK, CopyInv, Full, Empty
<1>5. OccupiedInv'
  BY DEF TypeOK, OccupiedInv, Occupied
<1>6. NoLostWakeup'
  BY DEF TypeOK, NoLostWakeup, Full, Empty
<1> QED BY <1>1, <1>2, <1>3, <1>4, <1>5, <1>6

LEMMA CloseInv ==
  ASSUME IInv, NEW t \in Threads, Close(t)
  PROVE  IInv'
<1> USE ThreadAssumption DEF IInv, Close, Holding, Return, Threads, Places
<1>1. TypeOK'
  BY DEF TypeOK
<1>2. LockInv'
  BY DEF TypeOK, LockInv
<1>3. CallInv'
  BY DEF TypeOK, CallInv
<1>4. CopyInv'
  BY DEF TypeOK, CopyInv, LockInv, Full, Empty
<1>5. OccupiedInv'
  BY DEF TypeOK, OccupiedInv, Occupied
<1>6. NoLostWakeup'
  BY DEF TypeOK, NoLostWakeup, Full, Empty
<1> QED BY <1>1, <1>2, <1>3, <1>4, <1>5, <1>6

(* The slot being filled is outside the occupied ones, so they keep theirs. *)
LEMMA PushCopyInv ==
  ASSUME IInv, PushCopy
  PROVE  IInv'
<1> USE ThreadAssumption DEF IInv, PushCopy, Holding, Threads, Places
<1>0. tail \in Index /\ head \in Index /\ tail \notin Occupied
  BY SizeAssumption DEF TypeOK, Occupied, Index
<1>a. arg \in Urbs
  BY DEF CallInv
<1>1. TypeOK'
  BY <1>a DEF TypeOK
<1>2. LockInv'
  BY DEF TypeOK, LockInv
<1>3. CallInv'
  BY DEF TypeOK, CallInv
<1>4. CopyInv'
  BY <1>0 DEF TypeOK, CopyInv, LockInv, Full, Empty
<1>5. OccupiedInv'
  <2>1. Occupied' = Occupied /\ Occupied \subseteq Index
    BY SizeAssumption DEF Occupied, TypeOK, Index
  <2> QED BY <1>0, <2>1 DEF TypeOK, OccupiedInv
<1>6. NoLostWakeup'
  BY DEF TypeOK, NoLostWakeup, Full, Empty
<1> QED BY <1>1, <1>2, <1>3, <1>4, <1>5, <1>6

(* The filled slot becomes occupied.                                        *)
LEMMA PushAdvanceInv ==
  ASSUME IInv, PushAdvance
  PROVE  IInv'
<1> USE ThreadAssumption
    DEF IInv, PushAdvance, Holding, Return, Threads, Places
<1>0. /\ tail \in Index /\ head \in Index
      /\ Succ(tail) = (IF tail = Size - 1 THEN 0 ELSE tail + 1)
      /\ Succ(tail) \in Index /\ Succ(tail) # head
      /\ slots[tail] \in Urbs
  BY SuccValue DEF TypeOK, CopyInv, CallInv, Full
<1>1. TypeOK'
  BY <1>0 DEF TypeOK
<1>2. LockInv'
  BY DEF TypeOK, LockInv
<1>3. CallInv'
  BY DEF TypeOK, CallInv
<1>4. CopyInv'
  BY DEF TypeOK, CopyInv, LockInv
<1>5. OccupiedInv'
  <2>1. Occupied' = Occupied \cup {tail}
    BY <1>0, SizeAssumption DEF Occupied, Index
  <2> QED BY <1>0, <2>1 DEF OccupiedInv
<1>6. NoLostWakeup'
  BY DEF TypeOK, NoLostWakeup
<1> QED BY <1>1, <1>2, <1>3, <1>4, <1>5, <1>6

LEMMA PopCopyInv ==
  ASSUME IInv, PopCopy
  PROVE  IInv'
<1> USE ThreadAssumption DEF IInv, PopCopy, Holding, Threads, Places
<1>1. TypeOK'
  BY DEF TypeOK
<1>2. LockInv'
  BY DEF TypeOK, LockInv
<1>3. CallInv'
  BY DEF TypeOK, CallInv
<1>4. CopyInv'
  BY DEF TypeOK, CopyInv, LockInv, Full, Empty
<1>5. OccupiedInv'
  BY DEF TypeOK, OccupiedInv, Occupied
<1>6. NoLostWakeup'
  BY DEF TypeOK, NoLostWakeup, Full, Empty
<1> QED BY <1>1, <1>2, <1>3, <1>4, <1>5, <1>6

LEMMA PopAdvanceInv ==
  ASSUME IInv, PopAdvance
  PROVE  IInv'
<1> USE ThreadAssumption
    DEF IInv, PopAdvance, Holding, Return, Threads, Places
<1>0. /\ tail \in Index /\ head \in Index
      /\ Succ(head) = (IF head = Size - 1 THEN 0 ELSE head + 1)
      /\ Succ(head) \in Index /\ head # tail
  BY SuccValue DEF TypeOK, CopyInv, Empty
<1>1. TypeOK'
  BY <1>0 DEF TypeOK
<1>2. LockInv'
  BY DEF TypeOK, LockInv
<1>3. CallInv'
  BY DEF TypeOK, CallInv
<1>4. CopyInv'
  BY DEF TypeOK, CopyInv, LockInv
<1>5. OccupiedInv'
  <2>1. Occupied' \subseteq Occupied
    BY <1>0, SizeAssumption DEF Occupied, Index
  <2> QED BY <2>1 DEF OccupiedInv
<1>6. NoLostWakeup'
  BY DEF TypeOK, NoLostWakeup
<1> QED BY <1>1, <1>2, <1>3, <1>4, <1>5, <1>6

LEMMA NextInv == IInv /\ [Next]_vars => IInv'
<1> SUFFICES ASSUME IInv, [Next]_vars PROVE IInv'
  OBVIOUS
<1>1. ASSUME NEW u \in Urbs, CallPush(u) PROVE IInv'
  <2> Rx \in Threads /\ "push" \in {"push", "pop", "close"}
    BY DEF Threads
  <2> QED BY <1>1, EnterInv DEF CallPush
<1>2. CASE CallPop
  <2>1. Proc \in Threads /\ "pop" \in {"push", "pop", "close"} /\ arg \in Urbs \cup {NoUrb}
    BY DEF Threads, IInv, TypeOK
  <2> QED BY <1>2, <2>1, EnterInv DEF CallPop
<1>3. ASSUME NEW t \in Threads, CallClose(t) PROVE IInv'
  <2>1. "close" \in {"push", "pop", "close"} /\ arg \in Urbs \cup {NoUrb}
    BY DEF IInv, TypeOK
  <2> QED BY <1>3, <2>1, EnterInv DEF CallClose
<1>4. CASE UNCHANGED vars
  BY <1>4 DEF vars, IInv, TypeOK, LockInv, CallInv, CopyInv, OccupiedInv,
              Occupied, NoLostWakeup, Full, Empty
<1> QED BY <1>1, <1>2, <1>3, <1>4, LockStepInv, WaitInv, FailInv, CloseInv,
           PushCopyInv, PushAdvanceInv, PopCopyInv, PopAdvanceInv DEF Next

LEMMA SpecInv == Spec => []IInv
BY InitInv, NextInv, PTL DEF Spec

(* Every variable keeps its type.                                           *)
THEOREM TypeCorrect == Spec => []TypeOK
BY SpecInv, PTL DEF IInv

(* No thread of a connection sleeps in the queue while what it waits for    *)
(* has already happened: a signal is never lost (usbip_urb.c:150-282).      *)
THEOREM WakeupsNotLost == Spec => []NoLostWakeup
BY SpecInv, PTL DEF IInv

-----------------------------------------------------------------------------
(* The refinement.                                                          *)

LEMMA ContentsType ==
  ASSUME IInv
  PROVE  /\ Count \in 0 .. Size - 1
         /\ \A i \in 1 .. Count : At(i) \in Occupied
         /\ Contents \in Seq(Urbs)
         /\ Len(Contents) = Count
         /\ Contents = <<>> <=> Empty
         /\ Count < Size - 1 <=> ~Full
<1> USE SizeAssumption DEF IInv
<1>0. head \in Index /\ tail \in Index
  BY DEF TypeOK
<1>1. Count \in 0 .. Size - 1
  BY <1>0 DEF Count, Index
<1>2. \A i \in 1 .. Count : At(i) \in Occupied
  BY <1>0 DEF Count, At, Occupied, Index
<1>3. Contents \in Seq(Urbs) /\ Len(Contents) = Count
  <2>1. Contents \in [1 .. Count -> Urbs]
    BY <1>2 DEF Contents, OccupiedInv
  <2> QED BY <1>1, <2>1 DEF Contents
<1>4. Contents = <<>> <=> Empty
  <2>1. Count = 0 <=> Empty
    BY <1>0 DEF Count, Empty, Index
  <2> QED BY <1>1, <1>3, <2>1
<1>5. Count < Size - 1 <=> ~Full
  BY <1>0, SuccValue DEF Count, Full, Index
<1> QED BY <1>1, <1>2, <1>3, <1>4, <1>5

(* Moving tail past a filled slot appends that slot's URB.                  *)
LEMMA AppendContents ==
  ASSUME IInv, ~Full, tail' = Succ(tail), UNCHANGED <<slots, head>>
  PROVE  Contents' = Append(Contents, slots[tail])
<1> USE SizeAssumption
<1>0. /\ head \in Index /\ tail \in Index
      /\ Succ(tail) = (IF tail = Size - 1 THEN 0 ELSE tail + 1)
      /\ Succ(tail) # head
  BY SuccValue DEF IInv, TypeOK, Full
<1>1. Count' = Count + 1 /\ Count \in Nat
  BY <1>0 DEF Count, Index
<1>2. At(Count + 1) = tail
  BY <1>0 DEF Count, At, Index
<1>3. Contents' = [i \in 1 .. Count + 1 |-> slots[At(i)]]
  BY <1>1 DEF Contents, At
<1>4. Append(Contents, slots[tail])
        = [i \in 1 .. Count + 1 |-> IF i = Count + 1 THEN slots[tail]
                                                     ELSE Contents[i]]
  <2>1. Contents \in Seq(Urbs) /\ Len(Contents) = Count
    BY ContentsType
  <2> QED BY <2>1, <1>1
<1>5. \A i \in 1 .. Count + 1 :
         slots[At(i)] = IF i = Count + 1 THEN slots[tail] ELSE Contents[i]
  BY <1>1, <1>2 DEF Contents
<1> QED BY <1>3, <1>4, <1>5

(* Moving head past the oldest URB removes it.                              *)
LEMMA TailContents ==
  ASSUME IInv, ~Empty, head' = Succ(head), UNCHANGED <<slots, tail>>
  PROVE  /\ Head(Contents) = slots[head]
         /\ Contents' = Tail(Contents)
<1> USE SizeAssumption
<1>0. /\ head \in Index /\ tail \in Index
      /\ Succ(head) = (IF head = Size - 1 THEN 0 ELSE head + 1)
      /\ head # tail
  BY SuccValue DEF IInv, TypeOK, Empty
<1>1. Count' = Count - 1 /\ Count \in Nat /\ Count >= 1
  BY <1>0 DEF Count, Index
<1>2. Contents \in Seq(Urbs) /\ Len(Contents) = Count
  BY ContentsType
<1>3. Head(Contents) = slots[head]
  <2>1. At(1) = head
    BY <1>0 DEF At, Index
  <2>2. Contents[1] = slots[At(1)]
    BY <1>1 DEF Contents
  <2> QED BY <1>1, <1>2, <2>1, <2>2
<1>4. Tail(Contents) = [i \in 1 .. Count - 1 |-> Contents[i + 1]]
  <2> DEFINE Rest == [i \in 1 .. Count - 1 |-> Contents[i + 1]]
  <2>1. /\ Tail(Contents) \in Seq(Urbs)
        /\ Len(Tail(Contents)) = Count - 1
        /\ \A i \in 1 .. Len(Tail(Contents)) :
              Tail(Contents)[i] = Contents[i + 1]
    <3>1. Contents # <<>>
      BY <1>1, <1>2
    <3> QED BY <1>2, <3>1, HeadTailProperties
  <2>2. Rest \in Seq(Urbs) /\ Len(Rest) = Count - 1
    <3>1. \A i \in 1 .. Count - 1 : Contents[i + 1] \in Urbs
      BY <1>1, <1>2, ElementOfSeq
    <3>2. Rest \in [1 .. Count - 1 -> Urbs]
      BY <3>1
    <3> QED BY <1>1, <3>2
  <2>3. \A i \in 1 .. Count - 1 : Tail(Contents)[i] = Rest[i]
    BY <2>1
  <2> HIDE DEF Rest
  <2>4. Tail(Contents) = Rest
    BY <2>1, <2>2, <2>3, SeqEqual
  <2> QED BY <2>4 DEF Rest
<1>5. \A i \in 1 .. Count - 1 : At(i)' = At(i + 1)
  <2> SUFFICES ASSUME NEW i \in 1 .. Count - 1 PROVE At(i)' = At(i + 1)
    OBVIOUS
  <2>1. /\ At(i)' = (IF head' + i - 1 < Size THEN head' + i - 1
                                            ELSE head' + i - 1 - Size)
        /\ At(i + 1) = (IF head + (i + 1) - 1 < Size
                        THEN head + (i + 1) - 1
                        ELSE head + (i + 1) - 1 - Size)
    BY DEF At
  <2>2. i \in Nat /\ i < Size /\ i >= 1
    BY <1>0, <1>1 DEF Count, Index
  <2>3. CASE head = Size - 1
    BY <1>0, <2>1, <2>2, <2>3 DEF Index
  <2>4. CASE head # Size - 1
    BY <1>0, <2>1, <2>2, <2>4 DEF Index
  <2> QED BY <2>3, <2>4
<1>6. Contents' = [i \in 1 .. Count - 1 |-> slots[At(i)']]
  BY <1>1 DEF Contents, At
<1>7. \A i \in 1 .. Count - 1 : Contents[i + 1] = slots[At(i + 1)]
  BY <1>1 DEF Contents
<1> QED BY <1>3, <1>4, <1>5, <1>6, <1>7

(* Filling the free slot does not change what is queued.                    *)
LEMMA CopyKeepsContents ==
  ASSUME IInv, PushCopy
  PROVE  Contents' = Contents
<1>1. tail \notin Occupied /\ Occupied \subseteq Index
  BY SizeAssumption DEF IInv, TypeOK, Occupied, Index
<1>2. \A i \in 1 .. Count : At(i) \in Occupied
  BY ContentsType
<1>3. \A i \in Occupied : slots'[i] = slots[i]
  BY <1>1 DEF IInv, TypeOK, PushCopy
<1>4. Count' = Count /\ \A i : At(i)' = At(i)
  BY DEF PushCopy, Count, At
<1> QED BY <1>2, <1>3, <1>4 DEF Contents

LEMMA FifoInit == Init => Fifo!Init
<1> SUFFICES ASSUME Init PROVE Fifo!Init
  OBVIOUS
<1>1. Contents = <<>>
  BY DEF Init, Contents, Count
<1> QED BY <1>1 DEF Init, Fifo!Init, Fifo!Threads, Threads, Got

LEMMA FifoStep == IInv /\ IInv' /\ [Next]_vars => [Fifo!Next]_(Fifo!vars)
<1> SUFFICES ASSUME IInv, IInv', [Next]_vars
             PROVE  Fifo!Next \/ UNCHANGED Fifo!vars
  OBVIOUS
<1> DEFINE Same == UNCHANGED Fifo!vars
<1>t. Fifo!Threads = Threads
  BY DEF Fifo!Threads, Threads
<1>p. Rx \in Threads /\ Proc \in Threads /\ Rx # Proc
  BY ThreadAssumption DEF Threads
<1>k. UNCHANGED <<slots, head, tail>> => UNCHANGED Contents
  BY DEF Contents, Count, At
<1>0. IInv /\ TypeOK
  BY DEF IInv
<1>1. ASSUME NEW u \in Urbs, CallPush(u) PROVE Fifo!CallPush(u)
  BY <1>1, <1>0, <1>p, <1>k, <1>t
     DEF CallPush, Enter, Fifo!CallPush, Fifo!Enter, CallInv, IInv, Got, TypeOK
<1>2. CASE CallPop
  BY <1>2, <1>0, <1>p, <1>k, <1>t
     DEF CallPop, Enter, Fifo!CallPop, Fifo!Enter, CallInv, IInv, Got, TypeOK, Fifo!Next
<1>3. ASSUME NEW t \in Threads, CallClose(t) PROVE Fifo!CallClose(t)
  BY <1>3, <1>0, <1>p, <1>k, <1>t
     DEF CallClose, Enter, Fifo!CallClose, Fifo!Enter, CallInv, IInv, Got, TypeOK
<1>4. ASSUME NEW t \in Threads, Lock(t) \/ SpuriousWake(t) PROVE Same
  BY <1>4, <1>k DEF Lock, SpuriousWake, Fifo!vars, Got
<1>5. CASE PushWait \/ PopWait
  BY <1>5, <1>k DEF PushWait, PopWait, Sleep, Fifo!vars, Got
<1>6. CASE PushFail
  BY <1>6, <1>0, <1>p, <1>k
     DEF PushFail, Holding, Return, Fifo!Refuse, Fifo!Return, Got, TypeOK, Fifo!Next
<1>7. CASE PushCopy
  BY <1>7, CopyKeepsContents DEF PushCopy, Fifo!vars, Got
<1>8. CASE PushAdvance
  <2>1. ~Full /\ ~closed /\ slots[tail] = arg
    BY <1>8 DEF PushAdvance, Holding, IInv, CopyInv
  <2>2. Contents' = Append(Contents, arg)
    BY <1>8, <2>1, AppendContents DEF PushAdvance
  <2>3. Len(Contents) < Size - 1
    BY <2>1, ContentsType
  <2>4. Fifo!Put
    BY <1>8, <1>0, <1>p, <2>1, <2>2, <2>3
       DEF PushAdvance, Holding, Return, Fifo!Put, Fifo!Return, Got, TypeOK
  <2> QED BY <2>4 DEF Fifo!Next
<1>9. CASE PopFail
  <2>1. Contents = <<>>
    BY <1>9, ContentsType DEF PopFail
  <2> QED BY <1>9, <1>0, <1>p, <1>k, <2>1
     DEF PopFail, Holding, Return, Fifo!Drained, Fifo!Return, Got, TypeOK,
         IInv, CallInv, Fifo!Next
<1>10. CASE PopCopy
  <2>1. ret[Proc] # "ok"
    BY <1>10, <1>0, <1>p DEF PopCopy, Holding, IInv, CallInv
  <2> QED BY <1>10, <1>k, <2>1 DEF PopCopy, Fifo!vars, Got
<1>11. CASE PopAdvance
  <2>1. ~Empty /\ buf = slots[head]
    BY <1>11 DEF PopAdvance, Holding, IInv, CopyInv
  <2>2. Contents' = Tail(Contents) /\ Head(Contents) = buf /\ Contents # <<>>
    BY <1>11, <2>1, TailContents, ContentsType DEF PopAdvance
  <2>3. Fifo!Take
    BY <1>11, <1>0, <1>p, <2>2
       DEF PopAdvance, Holding, Return, Fifo!Take, Fifo!Return, Got, TypeOK
  <2> QED BY <2>3 DEF Fifo!Next
<1>12. ASSUME NEW t \in Threads, Close(t) PROVE Fifo!Close(t)
  BY <1>12, <1>0, <1>p, <1>k
     DEF Close, Holding, Return, Fifo!Close, Fifo!Return, Got, TypeOK,
         IInv, CallInv
<1>13. CASE UNCHANGED vars
  BY <1>13, <1>k DEF vars, Fifo!vars, Got
<1> QED BY <1>1, <1>2, <1>3, <1>4, <1>5, <1>6, <1>7, <1>8, <1>9, <1>10, <1>11,
           <1>12, <1>13, <1>t DEF Next, Fifo!Next

(* The ring under its mutex and condition variables is a bounded, closable  *)
(* FIFO of Size - 1 URBs: what is pushed comes out once, in order, and what *)
(* was accepted before the close is still handed out after it.              *)
THEOREM RefinesFifo == Spec => ImplementsFifo
<1>1. IInv /\ [Next]_vars => [Fifo!Next]_(Fifo!vars)
  BY NextInv, FifoStep
<1> QED BY <1>1, SpecInv, FifoInit, PTL DEF Spec, ImplementsFifo, Fifo!Spec

=============================================================================
