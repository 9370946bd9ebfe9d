--------------------------- MODULE DapDriverProofs ---------------------------
(* Theorems about DapDriver, for any number of drivers behind the one       *)
(* command processor and any number of sessions and commands.               *)
EXTENDS DapDriver, TLAPS

(* A transfer that is about to end sees the port it began with.             *)
PortInv ==
  \A d \in Drivers : pc[d] = "end" /\ command[d] = "Transfer" => used[d] = port

(* A handler at work runs a command of a session of an exported driver.     *)
CommandInv ==
  \A d \in Drivers :
    /\ exported[d] => session[d] > 0
    /\ pc[d] # "ready" => exported[d] /\ sent[d] > 0 /\ session[d] > 0

(* Two handlers at work have met, in both directions.                       *)
MetInv ==
  \A d, e \in Drivers :
    d # e /\ pc[d] # "ready" /\ pc[e] # "ready" => e \in met[d]

(* Past the setting of the size, it is one's own but for a handler met.     *)
SizeInv ==
  \A d \in Drivers :
    pc[d] \in {"lock", "begin", "end"} /\ met[d] = {} => packet_size = Own[d]

(* Between commands, what is pending belongs to the session's last command, *)
(* or to an earlier session if there was none.                              *)
SlotInv ==
  \A d \in Drivers : pc[d] = "ready" /\ pending[d] =>
    \/ sent[d] > 0 /\ Label(response[d]) = <<session[d], sent[d]>>
    \/ sent[d] = 0 /\ response[d].session < session[d]

(* What was given is older than the command at work, and as old as the last *)
(* one only when nothing is pending.                                        *)
TakenInv ==
  \A d \in Drivers : taken[d] # None =>
    \/ taken[d].of[1] < session[d]
    \/ /\ taken[d].of[1] = session[d]
       /\ \/ taken[d].of[2] < sent[d]
          \/ taken[d].of[2] = sent[d] /\ pc[d] = "ready" /\ ~pending[d]

IInv ==
  /\ TypeOK /\ PortInv /\ CommandInv /\ MetInv /\ SizeInv /\ SlotInv /\ TakenInv
  /\ OwnResponses /\ EachOnce /\ TransfersIntact /\ OwnSize

LEMMA InitInv == Init => IInv
<1> SUFFICES ASSUME Init PROVE IInv
  OBVIOUS
<1> USE DapDriverAssumption DEF Init
<1>1. TypeOK
  BY DEF TypeOK, Sizes
<1>2. PortInv /\ CommandInv /\ MetInv /\ SizeInv /\ SlotInv /\ TakenInv
  BY DEF PortInv, CommandInv, MetInv, SizeInv, SlotInv, TakenInv
<1>3. OwnResponses /\ EachOnce /\ TransfersIntact /\ OwnSize
  BY DEF OwnResponses, EachOnce, TransfersIntact, OwnSize
<1> QED BY <1>1, <1>2, <1>3 DEF IInv

LEMMA ExportInv ==
  ASSUME IInv, NEW d \in Drivers, Export(d)
  PROVE  IInv'
<1> USE DapDriverAssumption DEF Export, slot
<1>1. TypeOK'
  <2>1. exported' \in [Drivers -> BOOLEAN]
    BY DEF IInv, TypeOK
  <2>2. session' \in [Drivers -> Nat] /\ sent' \in [Drivers -> Nat]
    BY DEF IInv, TypeOK
  <2>3. \A e \in Drivers : session'[e] <= MaxSessions[e] /\ sent'[e] <= MaxCommands[e]
    <3> SUFFICES ASSUME NEW e \in Drivers
                 PROVE  session'[e] <= MaxSessions[e] /\ sent'[e] <= MaxCommands[e]
      OBVIOUS
    <3>1. CASE e = d
      <4>1. session'[d] = session[d] + 1 /\ sent'[d] = 0
        BY DEF IInv, TypeOK
      <4>2. /\ session[d] \in Nat /\ MaxSessions[d] \in Nat /\ MaxCommands[d] \in Nat
            /\ session[d] < MaxSessions[d]
        BY DEF IInv, TypeOK
      <4> QED BY <3>1, <4>1, <4>2
    <3>2. CASE e # d
      BY <3>2 DEF IInv, TypeOK
    <3> QED BY <3>1, <3>2
  <2> QED BY <2>1, <2>2, <2>3 DEF IInv, TypeOK
<1>2. PortInv' /\ MetInv' /\ SizeInv'
  BY DEF IInv, PortInv, MetInv, SizeInv
<1>3. CommandInv'
  <2>1. pc[d] = "ready"
    BY DEF IInv, TypeOK, CommandInv
  <2>2. session'[d] > 0
    BY DEF IInv, TypeOK
  <2>3. \A e \in Drivers : e # d => /\ exported'[e] = exported[e]
                                    /\ session'[e] = session[e] /\ sent'[e] = sent[e]
    BY DEF IInv, TypeOK
  <2> QED BY <2>1, <2>2, <2>3 DEF IInv, CommandInv
<1>4. SlotInv'
  BY DEF IInv, TypeOK, SlotInv, CommandInv, Label, Responses
<1>5. TakenInv'
  BY DEF IInv, TypeOK, TakenInv, Takings
<1>6. OwnResponses' /\ EachOnce' /\ TransfersIntact' /\ OwnSize'
  BY DEF IInv, OwnResponses, EachOnce, TransfersIntact, OwnSize
<1> QED BY <1>1, <1>2, <1>3, <1>4, <1>5, <1>6 DEF IInv

LEMMA UnexportInv ==
  ASSUME IInv, NEW d \in Drivers, Unexport(d)
  PROVE  IInv'
<1> USE DapDriverAssumption DEF Unexport, slot
<1>1. TypeOK'
  BY DEF IInv, TypeOK
<1>2. PortInv' /\ MetInv' /\ SizeInv' /\ SlotInv' /\ TakenInv'
  BY DEF IInv, PortInv, MetInv, SizeInv, SlotInv, TakenInv
<1>3. CommandInv'
  BY DEF IInv, TypeOK, CommandInv
<1>4. OwnResponses' /\ EachOnce' /\ TransfersIntact' /\ OwnSize'
  BY DEF IInv, OwnResponses, EachOnce, TransfersIntact, OwnSize
<1> QED BY <1>1, <1>2, <1>3, <1>4 DEF IInv

LEMMA OutInv ==
  ASSUME IInv, NEW d \in Drivers, Out(d)
  PROVE  IInv'
<1> USE DapDriverAssumption DEF Out, slot
<1>1. TypeOK'
  <2>1. sent' \in [Drivers -> Nat]
    BY DEF IInv, TypeOK
  <2>2. \A e \in Drivers : session'[e] <= MaxSessions[e] /\ sent'[e] <= MaxCommands[e]
    <3>1. sent'[d] = sent[d] + 1 /\ sent[d] \in Nat /\ MaxCommands[d] \in Nat
      BY DEF IInv, TypeOK
    <3>2. sent'[d] <= MaxCommands[d]
      BY <3>1
    <3> QED BY <3>2 DEF IInv, TypeOK
  <2>3. met' \in [Drivers -> SUBSET Drivers]
    BY DEF IInv, TypeOK, Busy
  <2>4. command' \in [Drivers -> Commands \cup {None}]
    BY DEF IInv, TypeOK
  <2>5. pc' \in [Drivers -> {"ready", "checkSize", "setSize", "lock", "begin", "end"}]
    BY DEF IInv, TypeOK
  <2>6. \A e \in Drivers : pc'[e] \in {"begin", "end"} <=> dap_lock' = e
    BY DEF IInv, TypeOK
  <2> QED BY <2>1, <2>2, <2>3, <2>4, <2>5, <2>6 DEF IInv, TypeOK
<1>2. PortInv' /\ SlotInv'
  BY DEF IInv, TypeOK, PortInv, SlotInv
<1>3. CommandInv'
  BY DEF IInv, TypeOK, CommandInv
<1>4. MetInv'
  <2> SUFFICES ASSUME NEW e \in Drivers, NEW f \in Drivers, e # f,
                      pc'[e] # "ready", pc'[f] # "ready"
               PROVE  f \in met'[e]
    BY DEF MetInv
  <2>1. \A g \in Drivers : g # d => pc'[g] = pc[g]
    BY DEF IInv, TypeOK
  <2>2. CASE e = d
    BY <2>1, <2>2 DEF Busy
  <2>3. CASE e # d
    BY <2>1, <2>3 DEF Busy, IInv, MetInv
  <2> QED BY <2>2, <2>3
<1>5. SizeInv'
  <2>1. \A e \in Drivers : e # d => pc'[e] = pc[e] /\ (met'[e] = {} => met[e] = {})
    BY DEF IInv, TypeOK, Busy
  <2>2. pc'[d] = "checkSize" /\ packet_size' = packet_size
    BY DEF IInv, TypeOK
  <2> QED BY <2>1, <2>2 DEF IInv, SizeInv
<1>6. TakenInv'
  BY DEF IInv, TypeOK, TakenInv, Takings
<1>7. OwnResponses' /\ EachOnce' /\ TransfersIntact' /\ OwnSize'
  BY DEF IInv, OwnResponses, EachOnce, TransfersIntact, OwnSize
<1> QED BY <1>1, <1>2, <1>3, <1>4, <1>5, <1>6, <1>7 DEF IInv

LEMMA SizeSteps ==
  ASSUME IInv, NEW d \in Drivers, CheckSize(d) \/ SetSize(d)
  PROVE  IInv'
<1> USE DapDriverAssumption DEF CheckSize, SetSize, slot
<1>1. TypeOK'
  BY DEF IInv, TypeOK, Sizes
<1>2. PortInv' /\ MetInv' /\ CommandInv' /\ SlotInv' /\ TakenInv'
  BY DEF IInv, TypeOK, PortInv, MetInv, CommandInv, SlotInv, TakenInv
<1>3. SizeInv'
  <2> SUFFICES ASSUME NEW e \in Drivers, pc'[e] \in {"lock", "begin", "end"},
                      met'[e] = {}
               PROVE  packet_size' = Own[e]
    BY DEF SizeInv
  <2>1. CASE e = d
    BY <2>1 DEF IInv, TypeOK
  <2>2. CASE e # d
    BY <2>2 DEF IInv, TypeOK, MetInv, SizeInv
  <2> QED BY <2>1, <2>2
<1>4. OwnResponses' /\ EachOnce' /\ TransfersIntact' /\ OwnSize'
  BY DEF IInv, OwnResponses, EachOnce, TransfersIntact, OwnSize
<1> QED BY <1>1, <1>2, <1>3, <1>4 DEF IInv

LEMMA LockSteps ==
  ASSUME IInv, NEW d \in Drivers, Lock(d) \/ Begin(d)
  PROVE  IInv'
<1> USE DapDriverAssumption DEF Lock, Begin, slot
<1>1. TypeOK'
  BY DEF IInv, TypeOK
<1>2. PortInv'
  BY DEF IInv, TypeOK, PortInv
<1>3. MetInv' /\ SizeInv' /\ CommandInv' /\ SlotInv' /\ TakenInv'
  BY DEF IInv, TypeOK, MetInv, SizeInv, CommandInv, SlotInv, TakenInv
<1>4. OwnResponses' /\ EachOnce' /\ TransfersIntact' /\ OwnSize'
  BY DEF IInv, OwnResponses, EachOnce, TransfersIntact, OwnSize
<1> QED BY <1>1, <1>2, <1>3, <1>4 DEF IInv

(* The response says what the invariants say of the command that ends.      *)
LEMMA ReplyFacts ==
  ASSUME IInv, NEW d \in Drivers, pc[d] = "end"
  PROVE  /\ Reply(d) \in Responses
         /\ Label(Reply(d)) = <<session[d], sent[d]>>
         /\ Reply(d).intact
         /\ Reply(d).size # None /\ Reply(d).alone => Reply(d).size = Own[d]
<1> USE DEF Reply
<1>1. session[d] \in Nat \ {0} /\ sent[d] \in Nat \ {0} /\ packet_size \in Sizes
  BY DEF IInv, TypeOK, CommandInv
<1>2. Reply(d) \in Responses
  BY <1>1 DEF Responses
<1>3. Label(Reply(d)) = <<session[d], sent[d]>>
  BY DEF Label
<1>4. Reply(d).intact
  BY DEF IInv, PortInv
<1>5. Reply(d).size # None /\ Reply(d).alone => Reply(d).size = Own[d]
  BY DEF IInv, SizeInv
<1> QED BY <1>2, <1>3, <1>4, <1>5

LEMMA EndInv ==
  ASSUME IInv, NEW d \in Drivers, End(d)
  PROVE  IInv'
<1> USE DapDriverAssumption DEF End, Store, Release
<1>1. /\ response'[d] = Reply(d) /\ pending'[d] /\ pc'[d] = "ready"
      /\ \A e \in Drivers : e # d => /\ response'[e] = response[e]
                                     /\ pending'[e] = pending[e]
                                     /\ pc'[e] = pc[e]
  BY DEF IInv, TypeOK
<1>2. TypeOK'
  <2>1. \A e \in Drivers : pending'[e] => response'[e] \in Responses
    BY <1>1, ReplyFacts DEF IInv, TypeOK
  <2>2. response' \in [Drivers -> Responses \cup {None}]
    BY ReplyFacts DEF IInv, TypeOK
  <2>3. \A e \in Drivers : pc'[e] \in {"begin", "end"} <=> dap_lock' = e
    BY <1>1 DEF IInv, TypeOK
  <2> QED BY <2>1, <2>2, <2>3 DEF IInv, TypeOK
<1>3. PortInv'
  <2>1. \A e \in Drivers : pc'[e] # "end"
    BY <1>1 DEF IInv, TypeOK
  <2> QED BY <2>1 DEF PortInv
<1>4. MetInv' /\ SizeInv' /\ CommandInv'
  BY DEF IInv, TypeOK, MetInv, SizeInv, CommandInv
<1>5. SlotInv'
  BY <1>1, ReplyFacts DEF IInv, TypeOK, SlotInv, CommandInv
<1>6. TakenInv'
  BY <1>1 DEF IInv, TypeOK, TakenInv
<1>7. OwnResponses'
  BY DEF IInv, OwnResponses
<1>8. EachOnce'
  <2> SUFFICES ASSUME NEW e \in Drivers, pending'[e], taken'[e] # None
               PROVE  Older(taken'[e].of, Label(response'[e]))
    BY DEF EachOnce
  <2>1. CASE e # d
    BY <1>1, <2>1 DEF IInv, EachOnce
  <2>2. CASE e = d
    BY <1>1, <2>2, ReplyFacts DEF IInv, TakenInv, Older
  <2> QED BY <2>1, <2>2
<1>9. TransfersIntact' /\ OwnSize'
  BY <1>1, ReplyFacts DEF IInv, TransfersIntact, OwnSize
<1> QED BY <1>2, <1>3, <1>4, <1>5, <1>6, <1>7, <1>8, <1>9 DEF IInv

LEMMA InTakes ==
  ASSUME IInv, NEW d \in Drivers, In(d)
  PROVE  IInv'
<1> USE DapDriverAssumption DEF In, Consume
<1>1. /\ taken'[d] = [of |-> Label(response[d]), session |-> session[d],
                      after |-> sent[d]]
      /\ ~pending'[d]
      /\ \A e \in Drivers : e # d => taken'[e] = taken[e] /\ pending'[e] = pending[e]
  BY DEF IInv, TypeOK
<1>2. /\ response[d] \in Responses
      /\ \/ sent[d] > 0 /\ Label(response[d]) = <<session[d], sent[d]>>
         \/ sent[d] = 0 /\ response[d].session < session[d]
  BY DEF IInv, TypeOK, SlotInv
<1>3. /\ Label(response[d]) \in (Nat \ {0}) \X (Nat \ {0})
      /\ Label(response[d])[1] = response[d].session
  BY <1>2 DEF Label, Responses
<1>4. TypeOK'
  <2>1. taken' \in [Drivers -> Takings \cup {None}]
    BY <1>3 DEF IInv, TypeOK, CommandInv, Takings
  <2>2. pending' \in [Drivers -> BOOLEAN]
    BY DEF IInv, TypeOK
  <2>3. \A e \in Drivers : pending'[e] => response'[e] \in Responses
    BY <1>1 DEF IInv, TypeOK
  <2> QED BY <2>1, <2>2, <2>3 DEF IInv, TypeOK
<1>5. PortInv' /\ MetInv' /\ SizeInv' /\ CommandInv'
  BY DEF IInv, PortInv, MetInv, SizeInv, CommandInv
<1>6. SlotInv'
  BY <1>1 DEF IInv, SlotInv
<1>7. TakenInv'
  BY <1>1, <1>2, <1>3 DEF IInv, TypeOK, TakenInv
<1>8. OwnResponses'
  BY <1>1, <1>2, <1>3 DEF IInv, TypeOK, OwnResponses
<1>9. EachOnce'
  BY <1>1 DEF IInv, EachOnce
<1>10. TransfersIntact' /\ OwnSize'
  BY DEF IInv, TransfersIntact, OwnSize
<1> QED BY <1>4, <1>5, <1>6, <1>7, <1>8, <1>9, <1>10 DEF IInv

LEMMA NextInv == IInv /\ [Next]_vars => IInv'
<1> SUFFICES ASSUME IInv, [Next]_vars PROVE IInv'
  OBVIOUS
<1>1. CASE UNCHANGED vars
  BY <1>1 DEF vars, slot, IInv, TypeOK, PortInv, CommandInv, MetInv, SizeInv, SlotInv,
              TakenInv, OwnResponses, EachOnce, TransfersIntact, OwnSize
<1>2. CASE Next
  BY <1>2, ExportInv, UnexportInv, OutInv, InTakes, SizeSteps, LockSteps, EndInv
     DEF Next, Handle
<1> QED BY <1>1, <1>2

(* Every variable has its type, and s_dap_lock (hid_dap.c:48-57) is held by *)
(* the driver whose command runs, by no other.                              *)
THEOREM TypeCorrect == Spec => []TypeOK
<1>1. IInv => TypeOK
  BY DEF IInv
<1> QED BY <1>1, InitInv, NextInv, PTL DEF Spec

(* From its first command on, a session's IN URBs are given the response to *)
(* its latest command or nothing (hid_dap.c:539-566, bulk_dap.c:384-407).   *)
THEOREM ResponsesOwn == Spec => []OwnResponses
<1>1. IInv => OwnResponses
  BY DEF IInv
<1> QED BY <1>1, InitInv, NextInv, PTL DEF Spec

(* No response is given twice, nor after a later one.                       *)
THEOREM ResponsesOnce == Spec => []EachOnce
<1>1. IInv => EachOnce
  BY DEF IInv
<1> QED BY <1>1, InitInv, NextInv, PTL DEF Spec

(* No other driver's command switches the port in the middle of a transfer. *)
THEOREM TransfersUndivided == Spec => []TransfersIntact
<1>1. IInv => TransfersIntact
  BY DEF IInv
<1> QED BY <1>1, InitInv, NextInv, PTL DEF Spec

(* A client that met no other is told the packet size of its own driver.    *)
THEOREM SizeTold == Spec => []OwnSize
<1>1. IInv => OwnSize
  BY DEF IInv
<1> QED BY <1>1, InitInv, NextInv, PTL DEF Spec

=============================================================================
