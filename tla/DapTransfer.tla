----------------------------- MODULE DapTransfer -----------------------------
(***************************************************************************)
(* DAP_Transfer and DAP_TransferBlock of DAP.c over SWD, with the commands *)
(* that change what they depend on: Connect, Disconnect, TransferConfigure *)
(* and WriteABORT.                                                         *)
(*                                                                         *)
(* An access port answers a read with the result of the read before; the   *)
(* code posts a read and collects its result with the next access port     *)
(* read, or from RDBUFF before it does anything else.  Every SWD transfer  *)
(* the target answers with WAIT is repeated.  One action is one SWD        *)
(* transfer and what the code does until the next one.                     *)
(*                                                                         *)
(* Data words are abstracted to the number of the request whose access of  *)
(* the target produced them, 0 for what an earlier command left; whether a *)
(* value matches is a free choice.  DAP_TransferAbort is never set outside *)
(* these functions, and timestamps and JTAG are compiled out               *)
(* (DAP_config.h:63, 111).                                                 *)
(***************************************************************************)
EXTENDS Naturals, Sequences, FiniteSets

CONSTANTS
  MaxRequests,   \* bound: requests of a command
  MaxRetry,      \* bound: retry_count
  MaxMatchRetry  \* bound: match_retry

ASSUME DapTransferAssumption ==
  MaxRequests \in Nat /\ MaxRetry \in Nat /\ MaxMatchRetry \in Nat

Acks == {"OK", "WAIT", "FAULT", "ERROR"}

(* A request: which port, and a read, a read that must match, a write, or   *)
(* the setting of the match mask, which concerns no port.                   *)
Requests == [port : {"AP", "DP"}, op : {"read", "match", "write"}]
            \cup {[port |-> "none", op |-> "mask"]}
IsAPRead(r) == r.port = "AP" /\ r.op = "read"

VARIABLES
  debug_port, retry_count, match_retry_count,             \* DAP_Data
  reqs,                    \* the requests of the command, kept for its answer
  pc,                      \* which SWD transfer comes next
  i,                       \* the number of the request in progress
  retry, match_retry, post_read, check_write,             \* locals
  response_count, response_value, mismatch, words,        \* the answer
  rdbuff, sticky, done     \* the target: RDBUFF, its sticky error flag, and
                           \* the requests it performed an access for

config == <<debug_port, retry_count, match_retry_count>>
flags == <<post_read, check_write>>
answer == <<response_count, response_value, mismatch, words>>
target == <<rdbuff, sticky, done>>
vars == <<config, reqs, pc, i, retry, match_retry, flags, answer, target>>

Init ==
  /\ debug_port = "DISABLED" /\ retry_count = MaxRetry /\ match_retry_count = 0
  /\ reqs = <<>> /\ pc = "idle" /\ i = 0 /\ retry = 0 /\ match_retry = 0
  /\ post_read = FALSE /\ check_write = FALSE
  /\ response_count = 0 /\ response_value = "None" /\ mismatch = FALSE
  /\ words = <<>> /\ rdbuff = 0 /\ sticky = FALSE /\ done = <<>>

-----------------------------------------------------------------------------
(* The target.  It may answer WAIT at any time, FAULT when its sticky error *)
(* is set; a transfer may be garbled on the line, a read also after it took *)
(* effect.  An access of an access port, or a write that arrives garbled,   *)
(* can set the sticky error after it was acknowledged, and a write of ABORT *)
(* clears it; while it is set only some debug port registers can be used.   *)

Access(r) ==
  CASE r.port = "AP" -> IF r.op = "write" THEN "APWrite" ELSE "APRead"
    [] r.port = "DP" -> IF r.op = "write" THEN "DPWrite" ELSE "DPRead"

Perform(access, by) ==
  /\ sticky => access \in {"DPRead", "DPWrite"}
  /\ rdbuff' = IF access = "APRead" THEN by ELSE rdbuff
  /\ sticky' \in IF access \in {"DPRead", "RDBUFF"} THEN {sticky} ELSE BOOLEAN
  /\ done' = IF access = "RDBUFF" THEN done ELSE Append(done, by)

Data(access, by) == IF access = "DPRead" THEN by ELSE rdbuff

SWD_Transfer(access, by, ack) ==
  \/ /\ \/ ack \in {"WAIT", "ERROR"}
        \/ ack = "FAULT" /\ sticky
     /\ UNCHANGED target
  \/ /\ \/ ack = "OK"
        \/ ack = "ERROR" /\ access \in {"APRead", "DPRead", "RDBUFF"}
     /\ Perform(access, by)

-----------------------------------------------------------------------------
(* What follows a transfer.                                                 *)

Goto(place) == pc' = place /\ retry' = retry_count

(* Mutant of MayRetry: a transfer garbled on the line is repeated too.      *)
MayRetryGarbled(ack) == ack \in {"WAIT", "ERROR"} /\ retry > 0

(* do { ... } while (WAIT && retry-- ...)                                    *)
MayRetry(ack) == ack = "WAIT" /\ retry > 0

Retry(ack) ==
  /\ MayRetry(ack)
  /\ retry' = retry - 1
  /\ UNCHANGED <<pc, i, match_retry, flags, answer>>

(* The first transfer that fails ends the command; the rest of the requests *)
(* is skipped, and nothing looks at the flags any more.                     *)
Fail(ack) ==
  /\ ack # "OK" /\ ~MayRetry(ack)
  /\ response_value' = ack /\ pc' = "end"
  /\ UNCHANGED <<i, retry, match_retry, flags, response_count, mismatch, words>>

Store(word) == words' = Append(words, word)

Complete ==
  /\ response_count' = response_count + 1 /\ response_value' = "OK"
  /\ Goto("next")

(* The way to request r's own access, no read being posted.                 *)
Proceed(r) ==
  \/ /\ r.op = "mask" /\ Complete
     /\ UNCHANGED <<match_retry, check_write, mismatch>>
  \/ /\ r.op # "mask"
     /\ Goto(CASE IsAPRead(r) -> "post"
               [] r.op = "read" /\ r.port = "DP" -> "read"
               [] r.op = "match" -> IF r.port = "AP" THEN "matchPost" ELSE "match"
               [] r.op = "write" -> "write")
     /\ match_retry' = IF r.op = "match" THEN match_retry_count ELSE match_retry
     /\ UNCHANGED <<check_write, response_count, response_value, mismatch>>

(* A posted read is collected before anything else happens.                 *)
(* Mutant of CollectFirst: not before an access of the debug port.          *)
CollectFirstAP(r) == post_read /\ r.port = "AP"

CollectFirst(r) == post_read

(* The loop over the requests.                                              *)
Take ==
  /\ pc = "next" /\ i < Len(reqs) /\ i' = i + 1
  /\ \/ /\ CollectFirst(reqs[i + 1]) /\ Goto("flush")
        /\ UNCHANGED <<match_retry, check_write, response_count, response_value, mismatch>>
     \/ ~CollectFirst(reqs[i + 1]) /\ Proceed(reqs[i + 1])
  /\ UNCHANGED <<config, reqs, post_read, words, target>>

(* A posted read's result, fetched by the next posted read or from RDBUFF.  *)
Flush ==
  /\ pc = "flush"
  /\ LET access == IF IsAPRead(reqs[i]) THEN "APRead" ELSE "RDBUFF"
     IN  \E ack \in Acks :
           /\ SWD_Transfer(access, i, ack)
           /\ \/ Retry(ack)
              \/ Fail(ack)
              \/ /\ ack = "OK" /\ Store(Data(access, i)) /\ i' = i
                 /\ \/ /\ IsAPRead(reqs[i]) /\ Complete
                       /\ check_write' = FALSE
                       /\ UNCHANGED <<match_retry, post_read, mismatch>>
                    \/ /\ ~IsAPRead(reqs[i]) /\ Proceed(reqs[i])
                       /\ post_read' = FALSE
  /\ UNCHANGED <<config, reqs>>

Post ==
  /\ pc = "post"
  /\ \E ack \in Acks :
       /\ SWD_Transfer("APRead", i, ack)
       /\ \/ Retry(ack)
          \/ Fail(ack)
          \/ /\ ack = "OK" /\ Complete
             /\ post_read' = TRUE /\ check_write' = FALSE
             /\ UNCHANGED <<i, match_retry, mismatch, words>>
  /\ UNCHANGED <<config, reqs>>

ReadDP ==
  /\ pc = "read"
  /\ \E ack \in Acks :
       /\ SWD_Transfer("DPRead", i, ack)
       /\ \/ Retry(ack)
          \/ Fail(ack)
          \/ /\ ack = "OK" /\ Store(Data("DPRead", i)) /\ Complete
             /\ check_write' = FALSE
             /\ UNCHANGED <<i, match_retry, post_read, mismatch>>
  /\ UNCHANGED <<config, reqs>>

MatchPost ==
  /\ pc = "matchPost"
  /\ \E ack \in Acks :
       /\ SWD_Transfer("APRead", i, ack)
       /\ \/ Retry(ack)
          \/ Fail(ack)
          \/ /\ ack = "OK" /\ Goto("match")
             /\ UNCHANGED <<i, match_retry, flags, answer>>
  /\ UNCHANGED <<config, reqs>>

(* Reading until the value matches.  After a failed transfer the code       *)
(* compares what an earlier transfer left in data, which may be nothing.    *)
Match ==
  /\ pc = "match"
  /\ \E ack \in Acks, differs \in BOOLEAN :
       /\ SWD_Transfer(Access(reqs[i]), i, ack)
       /\ \/ Retry(ack)
          \/ /\ ack # "OK" /\ ~MayRetry(ack)
             /\ response_value' = ack /\ mismatch' = differs /\ pc' = "end"
             /\ UNCHANGED <<i, retry, match_retry, flags, response_count, words>>
          \/ /\ ack = "OK" /\ differs /\ match_retry > 0
             /\ match_retry' = match_retry - 1 /\ Goto("match")
             /\ UNCHANGED <<i, flags, answer>>
          \/ /\ ack = "OK" /\ differs /\ match_retry = 0
             /\ response_value' = ack /\ mismatch' = TRUE /\ pc' = "end"
             /\ UNCHANGED <<i, retry, match_retry, flags, response_count, words>>
          \/ /\ ack = "OK" /\ ~differs /\ Complete
             /\ check_write' = FALSE
             /\ UNCHANGED <<i, match_retry, post_read, mismatch, words>>
  /\ UNCHANGED <<config, reqs>>

Write ==
  /\ pc = "write"
  /\ \E ack \in Acks :
       /\ SWD_Transfer(Access(reqs[i]), i, ack)
       /\ \/ Retry(ack)
          \/ Fail(ack)
          \/ /\ ack = "OK" /\ Complete
             /\ check_write' = TRUE
             /\ UNCHANGED <<i, match_retry, post_read, mismatch, words>>
  /\ UNCHANGED <<config, reqs>>

(* Mutant of Conclude: the last posted read is not collected.               *)
ConcludeUncollected ==
  /\ pc = "next" /\ i = Len(reqs)
  /\ Goto(CASE response_value = "OK" /\ check_write -> "lastWrite"
            [] OTHER -> "end")
  /\ UNCHANGED <<config, reqs, i, match_retry, flags, answer, target>>

(* Mutant of Conclude: the last write is not checked.                       *)
ConcludeUnchecked ==
  /\ pc = "next" /\ i = Len(reqs)
  /\ Goto(CASE response_value = "OK" /\ post_read -> "lastRead"
            [] OTHER -> "end")
  /\ UNCHANGED <<config, reqs, i, match_retry, flags, answer, target>>

(* After the last request: the last posted read, or the last write's fate.  *)
Conclude ==
  /\ pc = "next" /\ i = Len(reqs)
  /\ Goto(CASE response_value = "OK" /\ post_read -> "lastRead"
            [] response_value = "OK" /\ ~post_read /\ check_write -> "lastWrite"
            [] OTHER -> "end")
  /\ UNCHANGED <<config, reqs, i, match_retry, flags, answer, target>>

LastRead ==
  /\ pc = "lastRead"
  /\ \E ack \in Acks :
       /\ SWD_Transfer("RDBUFF", i, ack)
       /\ \/ Retry(ack)
          \/ Fail(ack)
          \/ /\ ack = "OK" /\ Store(Data("RDBUFF", i))
             /\ pc' = "end" /\ response_value' = ack
             /\ UNCHANGED <<i, retry, match_retry, flags, response_count, mismatch>>
  /\ UNCHANGED <<config, reqs>>

LastWrite ==
  /\ pc = "lastWrite"
  /\ \E ack \in Acks :
       /\ SWD_Transfer("RDBUFF", i, ack)
       /\ \/ Retry(ack)
          \/ /\ ~MayRetry(ack)
             /\ pc' = "end" /\ response_value' = ack
             /\ UNCHANGED <<i, retry, match_retry, flags, response_count, mismatch, words>>
  /\ UNCHANGED <<config, reqs>>

-----------------------------------------------------------------------------
(* DAP_SWD_TransferBlock: the same request again and again.  i counts the   *)
(* requests served; a posted read is one access ahead of that.              *)

BlockPost ==
  /\ pc = "blockPost"
  /\ \E ack \in Acks :
       /\ SWD_Transfer("APRead", 1, ack)
       /\ \/ Retry(ack)
          \/ Fail(ack)
          \/ /\ ack = "OK" /\ Goto("blockRead") /\ response_value' = ack
             /\ UNCHANGED <<i, match_retry, flags, response_count, mismatch, words>>
  /\ UNCHANGED <<config, reqs>>

BlockAccess(n) ==
  IF reqs[1].port = "AP" /\ n = Len(reqs) THEN "RDBUFF" ELSE Access(reqs[1])

BlockRead ==
  /\ pc = "blockRead"
  /\ LET n == i + 1
         access == BlockAccess(n)
         by == IF reqs[1].port = "AP" THEN n + 1 ELSE n
     IN  \E ack \in Acks :
           /\ SWD_Transfer(access, by, ack)
           /\ \/ Retry(ack)
              \/ Fail(ack)
              \/ /\ ack = "OK" /\ Store(Data(access, by))
                 /\ i' = n /\ response_count' = n /\ response_value' = ack
                 /\ Goto(IF n = Len(reqs) THEN "end" ELSE "blockRead")
                 /\ UNCHANGED <<match_retry, flags, mismatch>>
  /\ UNCHANGED <<config, reqs>>

BlockWrite ==
  /\ pc = "blockWrite"
  /\ LET n == i + 1
     IN  \E ack \in Acks :
           /\ SWD_Transfer(Access(reqs[1]), n, ack)
           /\ \/ Retry(ack)
              \/ Fail(ack)
              \/ /\ ack = "OK"
                 /\ i' = n /\ response_count' = n /\ response_value' = ack
                 /\ Goto(IF n = Len(reqs) THEN "lastWrite" ELSE "blockWrite")
                 /\ UNCHANGED <<match_retry, flags, mismatch, words>>
  /\ UNCHANGED <<config, reqs>>

-----------------------------------------------------------------------------
(* The commands.  The host sends the next one when it has the answer.       *)

(* DAP_Transfer, DAP_TransferBlock: without a port the answer is that       *)
(* nothing was done (DAP_Dummy_Transfer).                                   *)
Begin(rs, place) ==
  /\ pc = "idle"
  /\ reqs' = rs /\ UNCHANGED <<i, match_retry>>
  /\ Goto(IF debug_port = "SWD" THEN place ELSE "end")
  /\ UNCHANGED <<config, flags, answer, target>>

(* The answer is handed to the driver, and the locals are gone.  What the   *)
(* target still holds is of no request any more.                            *)
Return ==
  /\ pc = "end" /\ pc' = "idle"
  /\ reqs' = <<>> /\ i' = 0 /\ retry' = 0 /\ match_retry' = 0
  /\ post_read' = FALSE /\ check_write' = FALSE
  /\ response_count' = 0 /\ response_value' = "None" /\ mismatch' = FALSE
  /\ words' = <<>> /\ rdbuff' = 0 /\ done' = <<>>
  /\ UNCHANGED <<config, sticky>>

Transfer ==
  \E n \in 0 .. MaxRequests : \E rs \in [1 .. n -> Requests] : Begin(rs, "next")

(* A block's request has no match bits that anything looks at.              *)
TransferBlock ==
  \E n \in 0 .. MaxRequests, r \in {q \in Requests : q.op \in {"read", "write"}} :
    Begin([k \in 1 .. n |-> r],
          CASE n = 0 -> "end"
            [] n > 0 /\ r.op = "write" -> "blockWrite"
            [] n > 0 /\ IsAPRead(r) -> "blockPost"
            [] n > 0 /\ r.op = "read" /\ ~IsAPRead(r) -> "blockRead")

Setting ==
  /\ pc = "idle"
  /\ UNCHANGED <<reqs, pc, i, retry, match_retry, flags, answer>>

Connect ==
  /\ Setting /\ debug_port' = "SWD"
  /\ UNCHANGED <<retry_count, match_retry_count, target>>

Disconnect ==
  /\ Setting /\ debug_port' = "DISABLED"
  /\ UNCHANGED <<retry_count, match_retry_count, target>>

TransferConfigure ==
  /\ Setting
  /\ retry_count' \in 0 .. MaxRetry /\ match_retry_count' \in 0 .. MaxMatchRetry
  /\ UNCHANGED <<debug_port, target>>

(* One transfer without retry; its acknowledge is not looked at.            *)
WriteAbort ==
  /\ Setting /\ debug_port = "SWD"
  /\ sticky' \in {sticky, FALSE}
  /\ UNCHANGED <<config, rdbuff, done>>

-----------------------------------------------------------------------------
Step ==
  \/ Take \/ Flush \/ Post \/ ReadDP \/ MatchPost \/ Match \/ Write
  \/ Conclude \/ LastRead \/ LastWrite \/ BlockPost \/ BlockRead \/ BlockWrite
  \/ Return

Next ==
  \/ Step
  \/ Transfer \/ TransferBlock
  \/ Connect \/ Disconnect \/ TransferConfigure \/ WriteAbort

Spec == Init /\ [][Next]_vars

-----------------------------------------------------------------------------
(* Properties.                                                              *)

Places == {"idle", "end", "next", "flush", "post", "read", "matchPost", "match", "write",
           "lastRead", "lastWrite", "blockPost", "blockRead", "blockWrite"}
Numbers == 0 .. MaxRequests

(* Every variable has its type; the requests a word or an access stands for *)
(* are requests of the command.                                             *)
TypeOK ==
  /\ debug_port \in {"SWD", "DISABLED"}
  /\ retry_count \in 0 .. MaxRetry /\ match_retry_count \in 0 .. MaxMatchRetry
  /\ reqs \in Seq(Requests) /\ Len(reqs) \in Numbers
  /\ pc \in Places /\ i \in 0 .. Len(reqs)
  /\ retry \in 0 .. MaxRetry /\ match_retry \in 0 .. MaxMatchRetry
  /\ post_read \in BOOLEAN /\ check_write \in BOOLEAN
  /\ response_count \in 0 .. Len(reqs) /\ response_value \in Acks \cup {"None"}
  /\ mismatch \in BOOLEAN /\ words \in Seq(1 .. Len(reqs))
  /\ rdbuff \in 0 .. Len(reqs) /\ sticky \in BOOLEAN
  /\ done \in Seq(1 .. Len(reqs))

Reads == {k \in DOMAIN reqs : reqs[k].op = "read"}

(* The words are those of the reads up to request n, in order, none twice.  *)
WordsUpTo(n) ==
  /\ \A p, q \in DOMAIN words : p < q => words[p] < words[q]
  /\ {words[p] : p \in DOMAIN words} = {k \in Reads : k <= n}

(* The words of an answer are the values of the reads asked for, in their   *)
(* order and none left out, however reads of the two ports, value matches,  *)
(* writes and repeated transfers are mixed; and what is compared with a     *)
(* match value was read for that very request.  Posted reads                *)
(* (DAP.c:735-770, 858-873) make each value arrive one transfer late.       *)
OwnAnswers ==
  /\ \E n \in 0 .. Len(reqs) : WordsUpTo(n)
  /\ pc = "match" /\ reqs[i].port = "AP" => rdbuff = i

Once(k) == reqs[k].op \in {"read", "write"}

(* A repeated transfer repeats nothing at the target: accesses are made in  *)
(* the order of the requests, and each read or write is performed once, but *)
(* for a match, which is asked to read again (DAP.c:740-742 and its like).  *)
PerformedOnce ==
  \A p, q \in DOMAIN done :
    p < q => \/ done[p] < done[q]
             \/ done[p] = done[q] /\ ~Once(done[p])

Succeeded == response_value = "OK" /\ ~mismatch
Performed == {done[p] : p \in DOMAIN done}

(* What the answer says is what happened.  Success: every request was       *)
(* performed and every read's word is there.  Failure: all the requests     *)
(* counted were performed, at most one more, in a block of posted reads     *)
(* two, and of the words of counted reads only the one still posted can be  *)
(* missing (DAP.c:906-957, 1331-1397).                                      *)
AnswerHolds ==
  pc = "end" =>
    /\ Succeeded =>
         /\ response_count = Len(reqs) /\ WordsUpTo(Len(reqs))
         /\ \A k \in DOMAIN reqs : reqs[k].op # "mask" => k \in Performed
    /\ \A k \in 1 .. response_count : reqs[k].op # "mask" => k \in Performed
    /\ \A k \in Performed :
         \/ k <= response_count + 1
         \/ k <= Len(words) + 2 /\ \A l \in 1 .. k : IsAPRead(reqs[l])
    /\ LET counted == {k \in Reads : k <= response_count}
       IN  Len(words) \in {Cardinality(counted) - 1, Cardinality(counted)}

(* An access that fails after it was acknowledged is reported by its own    *)
(* command: a command that succeeds and ends with a write or an access port *)
(* read leaves no sticky error behind (check_write and the last posted      *)
(* read, DAP.c:928-950 and 1387-1391).  It may after debug port reads,      *)
(* which the target can answer in spite of the error, and after a match,    *)
(* which posts one read more than it collects.                              *)
ErrorsReported ==
  pc = "end" /\ Succeeded /\ sticky =>
    ~ \E k \in DOMAIN reqs :
        /\ reqs[k].op = "write" \/ IsAPRead(reqs[k])
        /\ \A l \in k + 1 .. Len(reqs) : reqs[l].op = "mask"

=============================================================================
