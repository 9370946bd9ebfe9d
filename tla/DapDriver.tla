------------------------------ MODULE DapDriver ------------------------------
(***************************************************************************)
(* The URB handlers of the two CMSIS-DAP drivers, hid_dap.c and bulk_dap.c, *)
(* over the one DAP command processor they share.                          *)
(*                                                                         *)
(* A driver serves one connection at a time, in that connection's          *)
(* processor thread, and is only unexported when the thread is past it     *)
(* (TornDownAfterExit of UsbipConn; the rollback of a failed import reply, *)
(* which breaks this, is left out), so handlers of one driver do not       *)
(* overlap and its response_lock is never contended.  Handlers of the two  *)
(* drivers do overlap.  An OUT URB runs its command and leaves the         *)
(* response in the driver's only slot; an IN URB takes it.                 *)
(*                                                                         *)
(* The commands: one that reports the packet size (DAP_Info), the two that *)
(* switch the port, and transfers, which use the port from beginning to    *)
(* end.  A response is known by the session and the number of its command. *)
(* URBs that change no state are left out: descriptors, CMD_UNLINK, other  *)
(* endpoints, and GET_REPORT, which copies the response and leaves it.     *)
(* Memory is taken to suffice.                                             *)
(***************************************************************************)
EXTENDS Naturals, Sequences

CONSTANTS
  Drivers,      \* the drivers
  Own,          \* the packet size of each driver
  DefaultSize,  \* DAP_PACKET_SIZE
  MaxSessions,  \* bound: how often each driver is exported
  MaxCommands,  \* bound: OUT URBs of a session of each driver
  None          \* no response, no owner of the lock

ASSUME DapDriverAssumption ==
  /\ None \notin Drivers \cup Nat
  /\ Own \in [Drivers -> Nat] /\ DefaultSize \in Nat
  /\ MaxSessions \in [Drivers -> Nat] /\ MaxCommands \in [Drivers -> Nat]

Commands == {"Info", "Connect", "Disconnect", "Transfer"}

VARIABLES
  exported, session,  \* of each driver; how often it was exported so far
  pc, command, sent,  \* of each driver's processor: where its handler is, the
                      \* command it runs and how many its session has sent
  response, pending,  \* the slot of each driver
  dap_lock,           \* s_dap_lock: its holder
  packet_size, port,  \* dap_packet_size and DAP_Data.debug_port
  used,               \* the port a running transfer began with
  taken,              \* what the last IN URB with an answer gave each driver's
                      \* client, and at which point of which session
  met                 \* whose commands ran while the current one did

slot == <<response, pending>>
vars == <<exported, session, pc, command, sent, slot, dap_lock, packet_size, port,
          used, taken, met>>

Init ==
  /\ exported = [d \in Drivers |-> FALSE] /\ session = [d \in Drivers |-> 0]
  /\ pc = [d \in Drivers |-> "ready"] /\ command = [d \in Drivers |-> None]
  /\ sent = [d \in Drivers |-> 0]
  /\ response = [d \in Drivers |-> None] /\ pending = [d \in Drivers |-> FALSE]
  /\ dap_lock = None /\ packet_size = DefaultSize /\ port = "DISABLED"
  /\ used = [d \in Drivers |-> None]
  /\ taken = [d \in Drivers |-> None]
  /\ met = [d \in Drivers |-> {}]

-----------------------------------------------------------------------------
(* Export and unexport.  The slot stays as it is.                           *)

Export(d) ==
  /\ ~exported[d] /\ session[d] < MaxSessions[d]
  /\ exported' = [exported EXCEPT ![d] = TRUE]
  /\ session' = [session EXCEPT ![d] = @ + 1]
  /\ sent' = [sent EXCEPT ![d] = 0]
  /\ UNCHANGED <<pc, command, slot, dap_lock, packet_size, port, used, taken, met>>

Unexport(d) ==
  /\ exported[d] /\ pc[d] = "ready"
  /\ exported' = [exported EXCEPT ![d] = FALSE]
  /\ UNCHANGED <<session, pc, command, sent, slot, dap_lock, packet_size, port, used,
                 taken, met>>

-----------------------------------------------------------------------------
(* An OUT URB, or SET_REPORT: a command.                                    *)

Busy == {d \in Drivers : pc[d] # "ready"}

Out(d) ==
  /\ exported[d] /\ pc[d] = "ready" /\ sent[d] < MaxCommands[d]
  /\ \E c \in Commands : command' = [command EXCEPT ![d] = c]
  /\ pc' = [pc EXCEPT ![d] = "checkSize"]
  /\ sent' = [sent EXCEPT ![d] = @ + 1]
  /\ met' = [e \in Drivers |-> CASE e = d -> Busy
                                 [] e \in Busy \ {d} -> met[e] \cup {d}
                                 [] OTHER -> met[e]]
  /\ UNCHANGED <<exported, session, slot, dap_lock, packet_size, port, used, taken>>

(* Mutant of CheckSize: a size that was set is taken to be the right one.   *)
CheckSizeOnce(d) ==
  /\ pc[d] = "checkSize"
  /\ pc' = [pc EXCEPT ![d] = IF packet_size # DefaultSize THEN "lock" ELSE "setSize"]
  /\ UNCHANGED <<exported, session, command, sent, slot, dap_lock, packet_size, port,
                 used, taken, met>>

(* The packet size is looked at and set before any lock is taken.           *)
CheckSize(d) ==
  /\ pc[d] = "checkSize"
  /\ pc' = [pc EXCEPT ![d] = IF packet_size = Own[d] THEN "lock" ELSE "setSize"]
  /\ UNCHANGED <<exported, session, command, sent, slot, dap_lock, packet_size, port,
                 used, taken, met>>

SetSize(d) ==
  /\ pc[d] = "setSize"
  /\ packet_size' = Own[d]
  /\ pc' = [pc EXCEPT ![d] = "lock"]
  /\ UNCHANGED <<exported, session, command, sent, slot, dap_lock, port, used, taken,
                 met>>

(* Mutant of Lock: the lock is not waited for.                              *)
LockUnasked(d) ==
  /\ pc[d] = "lock"
  /\ dap_lock' = d
  /\ pc' = [pc EXCEPT ![d] = "begin"]
  /\ UNCHANGED <<exported, session, command, sent, slot, packet_size, port, used,
                 taken, met>>

(* dap_process_command_safety: the command runs under s_dap_lock.           *)
Lock(d) ==
  /\ pc[d] = "lock" /\ dap_lock = None
  /\ dap_lock' = d
  /\ pc' = [pc EXCEPT ![d] = "begin"]
  /\ UNCHANGED <<exported, session, command, sent, slot, packet_size, port, used,
                 taken, met>>

(* DAP_ProcessCommand begins: a transfer looks at the port.                 *)
Begin(d) ==
  /\ pc[d] = "begin"
  /\ used' = [used EXCEPT ![d] = IF command[d] = "Transfer" THEN port ELSE None]
  /\ pc' = [pc EXCEPT ![d] = "end"]
  /\ UNCHANGED <<exported, session, command, sent, slot, dap_lock, packet_size, port,
                 taken, met>>

(* It ends, and the response is in the slot.                                *)
Reply(d) ==
  [session |-> session[d], number |-> sent[d],
   size |-> IF command[d] = "Info" THEN packet_size ELSE None,
   intact |-> command[d] = "Transfer" => used[d] = port,
   alone |-> met[d] = {}]

(* Mutant of Store: a response that was not fetched is kept.                *)
StoreIfFree(d) ==
  /\ response' = [response EXCEPT ![d] = IF pending[d] THEN @ ELSE Reply(d)]
  /\ pending' = [pending EXCEPT ![d] = TRUE]

Store(d) ==
  /\ response' = [response EXCEPT ![d] = Reply(d)]
  /\ pending' = [pending EXCEPT ![d] = TRUE]

(* Mutant of Release: the lock is kept after a command.                     *)
ReleaseNot == UNCHANGED dap_lock

Release == dap_lock' = None

End(d) ==
  /\ pc[d] = "end"
  /\ port' = CASE command[d] = "Connect" -> "SWD"
               [] command[d] = "Disconnect" -> "DISABLED"
               [] OTHER -> port
  /\ Store(d)
  /\ Release
  /\ used' = [used EXCEPT ![d] = None]
  /\ command' = [command EXCEPT ![d] = None]
  /\ met' = [met EXCEPT ![d] = {}]
  /\ pc' = [pc EXCEPT ![d] = "ready"]
  /\ UNCHANGED <<exported, session, sent, packet_size, taken>>

-----------------------------------------------------------------------------
(* An IN URB takes the response, if there is one; with none the answer is   *)
(* empty and the state as before.                                           *)

Label(r) == <<r.session, r.number>>

(* Mutant of Consume: the response stays.                                   *)
ConsumeNot(d) == UNCHANGED pending

Consume(d) == pending' = [pending EXCEPT ![d] = FALSE]

In(d) ==
  /\ exported[d] /\ pc[d] = "ready" /\ pending[d]
  /\ Consume(d)
  /\ taken' = [taken EXCEPT ![d] =
                 [of |-> Label(response[d]), session |-> session[d],
                  after |-> sent[d]]]
  /\ UNCHANGED <<exported, session, pc, command, sent, response, dap_lock, packet_size,
                 port, used, met>>

-----------------------------------------------------------------------------
Handle(d) == CheckSize(d) \/ SetSize(d) \/ Lock(d) \/ Begin(d) \/ End(d)

Next ==
  \E d \in Drivers :
    Export(d) \/ Unexport(d) \/ Out(d) \/ In(d) \/ Handle(d)

Spec == Init /\ [][Next]_vars

(* Processor threads keep running, and a thread that waits for s_dap_lock   *)
(* gets it when it is given back again and again.                           *)
FairSpec == Spec /\ \A d \in Drivers : WF_vars(Handle(d)) /\ SF_vars(Lock(d))

-----------------------------------------------------------------------------
(* Properties.                                                              *)

Sizes == {DefaultSize} \cup {Own[d] : d \in Drivers}
Responses == [session : Nat \ {0}, number : Nat \ {0},
              size : Sizes \cup {None}, intact : BOOLEAN, alone : BOOLEAN]
Takings == [of : (Nat \ {0}) \X (Nat \ {0}), session : Nat \ {0}, after : Nat]

(* Every variable has its type, a pending response is there, and the lock   *)
(* is held by the driver whose command runs.                                *)
TypeOK ==
  /\ exported \in [Drivers -> BOOLEAN]
  /\ session \in [Drivers -> Nat] /\ sent \in [Drivers -> Nat]
  /\ \A d \in Drivers : session[d] <= MaxSessions[d] /\ sent[d] <= MaxCommands[d]
  /\ pc \in [Drivers -> {"ready", "checkSize", "setSize", "lock", "begin", "end"}]
  /\ command \in [Drivers -> Commands \cup {None}]
  /\ response \in [Drivers -> Responses \cup {None}]
  /\ pending \in [Drivers -> BOOLEAN]
  /\ \A d \in Drivers : pending[d] => response[d] \in Responses
  /\ taken \in [Drivers -> Takings \cup {None}]
  /\ packet_size \in Sizes /\ port \in {"SWD", "DISABLED"}
  /\ used \in [Drivers -> {"SWD", "DISABLED", None}]
  /\ met \in [Drivers -> SUBSET Drivers]
  /\ \A d \in Drivers : pc[d] \in {"begin", "end"} <=> dap_lock = d

Older(l, m) == l[1] < m[1] \/ (l[1] = m[1] /\ l[2] < m[2])

(* From a session's first command on, an IN URB is given the response to    *)
(* the latest command of its own session or nothing.  Before it, a client   *)
(* can be given what the session before has left (hid_dap.c:681-695 and     *)
(* bulk_dap.c:525-539 do not clear the slot), never something of its own.   *)
OwnResponses ==
  \A d \in Drivers : taken[d] # None =>
    IF taken[d].after > 0
    THEN taken[d].of = <<taken[d].session, taken[d].after>>
    ELSE taken[d].of[1] < taken[d].session

(* No response is given twice, nor after a later one: what is pending is    *)
(* newer than what was given, across sessions too.                          *)
EachOnce ==
  \A d \in Drivers :
    pending[d] /\ taken[d] # None => Older(taken[d].of, Label(response[d]))

(* A transfer ends with the port it began with: no other client's command   *)
(* switches it in the middle (hid_dap.c:48-57).                             *)
TransfersIntact == \A d \in Drivers : response[d] # None => response[d].intact

(* A client is told the packet size of its own driver, unless the other     *)
(* driver's client sent a command at the same time: the size both set is    *)
(* checked and set outside the lock (hid_dap.c:317-320, bulk_dap.c:240-243).*)
OwnSize ==
  \A d \in Drivers :
    response[d] # None /\ response[d].size # None /\ response[d].alone =>
      response[d].size = Own[d]

(* Every OUT URB is answered, whatever the other driver's client does.      *)
CommandsEnd == \A d \in Drivers : pc[d] # "ready" ~> pc[d] = "ready"

=============================================================================
