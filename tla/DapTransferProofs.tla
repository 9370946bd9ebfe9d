--------------------------- MODULE DapTransferProofs ---------------------------
(***************************************************************************)
(* Proofs about DapTransfer for commands of any length and any number of   *)
(* retries: what an answer of DAP_Transfer or DAP_TransferBlock says is    *)
(* what happened at the target, although a posted read's value arrives one *)
(* transfer late and the target may ask for a transfer again or garble it. *)
(***************************************************************************)
EXTENDS DapTransfer, FunctionTheorems, FiniteSetTheorems, SequenceTheorems, TLAPS

-----------------------------------------------------------------------------
(* The inductive invariant.                                                 *)

(* A request of DAP_Transfer is being served; its loop; that of a block.    *)
Working == {"flush", "post", "read", "matchPost", "match", "write"}
Last == {"lastRead", "lastWrite"}
Block == {"blockPost", "blockRead", "blockWrite"}
Busy == {"next"} \cup Working \cup Last \cup Block

(* How many requests have been served, and up to which the words are there. *)
Served == IF pc \in Working THEN i - 1 ELSE i
Collected == IF post_read THEN Served - 1 ELSE Served

(* Up to which request the target may have performed an access.             *)
Reached ==
  IF pc = "match" \/ (pc = "blockRead" /\ reqs[1].port = "AP") THEN Served + 1
  ELSE Served

IdleInv ==
  pc = "idle" =>
    /\ reqs = <<>> /\ i = 0 /\ words = <<>> /\ done = <<>> /\ rdbuff = 0
    /\ response_count = 0 /\ response_value = "None" /\ mismatch = FALSE
    /\ post_read = FALSE /\ check_write = FALSE

(* Where a command is, and the request it is at.                            *)
PlaceInv ==
  /\ pc \in Working => i >= 1
  /\ pc \in Last => i = Len(reqs)
  /\ pc \in Block => /\ i < Len(reqs) /\ reqs[1].op \in {"read", "write"}
                     /\ \A k \in DOMAIN reqs : reqs[k] = reqs[1]
  /\ pc = "post" => IsAPRead(reqs[i])
  /\ pc = "read" => reqs[i].port = "DP" /\ reqs[i].op = "read"
  /\ pc = "matchPost" => reqs[i].port = "AP" /\ reqs[i].op = "match"
  /\ pc = "match" => reqs[i].op = "match" /\ (reqs[i].port = "AP" => rdbuff = i)
  /\ pc = "write" => reqs[i].op = "write"
  /\ pc = "blockPost" => i = 0 /\ IsAPRead(reqs[1])
  /\ pc = "blockRead" => reqs[1].op = "read" /\ (reqs[1].port = "AP" => rdbuff = i + 1)
  /\ pc = "blockWrite" => reqs[1].op = "write"
  /\ pc \in Busy => response_count = Served

(* A read is posted: its value is what the target holds.                    *)
PostInv ==
  /\ pc \in {"flush", "lastRead"} => post_read
  /\ pc \in Busy /\ post_read =>
       /\ pc \in {"next", "flush", "lastRead"}
       /\ Served >= 1 /\ IsAPRead(reqs[Served]) /\ rdbuff = Served

WordsInv ==
  /\ pc \in Busy => WordsUpTo(Collected)
  /\ \E n \in 0 .. Len(reqs) : WordsUpTo(n)

DoneInv ==
  /\ PerformedOnce
  /\ pc \in Busy => /\ \A k \in 1 .. Served : reqs[k].op # "mask" => k \in Performed
                    /\ \A k \in Performed : k <= Reached
  /\ pc = "blockPost" => Performed = {}
  /\ pc = "blockRead" /\ reqs[1].port = "AP" => i + 1 \in Performed

(* k is the last access up to request n, and only a later one tells its fate.*)
Pending(n) ==
  \E k \in 1 .. n : /\ reqs[k].op = "write" \/ IsAPRead(reqs[k])
                    /\ \A l \in k + 1 .. n : reqs[l].op = "mask"

ErrorInv == pc = "next" /\ sticky /\ ~post_read /\ ~check_write => ~Pending(i)

TInv == /\ TypeOK /\ IdleInv /\ PlaceInv /\ PostInv /\ WordsInv /\ DoneInv /\ ErrorInv
        /\ AnswerHolds /\ ErrorsReported

-----------------------------------------------------------------------------
(* Lemmas about the words of an answer and the accesses of the target.      *)

(* TypeOK, taken apart for the sequences.                                   *)
LEMMA SequenceTypes ==
  ASSUME TypeOK
  PROVE  /\ Len(reqs) \in Nat /\ DOMAIN reqs = 1 .. Len(reqs)
         /\ \A k \in 1 .. Len(reqs) : reqs[k] \in Requests
         /\ Len(words) \in Nat /\ DOMAIN words = 1 .. Len(words)
         /\ \A p \in 1 .. Len(words) : words[p] \in 1 .. Len(reqs)
         /\ Len(done) \in Nat /\ DOMAIN done = 1 .. Len(done)
         /\ \A p \in 1 .. Len(done) : done[p] \in 1 .. Len(reqs)
         /\ i \in 0 .. Len(reqs) /\ Performed \subseteq 1 .. Len(reqs)
<1>1. /\ reqs \in Seq(Requests) /\ words \in Seq(1 .. Len(reqs))
      /\ done \in Seq(1 .. Len(reqs)) /\ i \in 0 .. Len(reqs)
  BY DEF TypeOK
<1>2. ASSUME NEW S, NEW s \in Seq(S)
      PROVE  /\ Len(s) \in Nat /\ DOMAIN s = 1 .. Len(s)
             /\ \A p \in 1 .. Len(s) : s[p] \in S
  OBVIOUS
<1>3. \A p \in 1 .. Len(done) : done[p] \in 1 .. Len(reqs) BY <1>1, <1>2
<1>4. DOMAIN done = 1 .. Len(done) BY <1>1, <1>2
<1>5. Performed \subseteq 1 .. Len(reqs) BY <1>3, <1>4 DEF Performed
<1>. QED BY <1>1, <1>2, <1>5

(* What the fields of a request can be.                                     *)
LEMMA RequestForms ==
  ASSUME NEW r \in Requests
  PROVE  /\ r.op \in {"read", "match", "write", "mask"}
         /\ r.op # "mask" => r.port \in {"AP", "DP"}
         /\ IsAPRead(r) <=> r.port = "AP" /\ r.op = "read"
BY DEF Requests, IsAPRead

(* The last element of a sequence is the one appended, the others stay.     *)
LEMMA AppendFacts ==
  ASSUME NEW S, NEW s \in Seq(S), NEW x \in S
  PROVE  /\ Append(s, x) \in Seq(S) /\ Len(Append(s, x)) = Len(s) + 1
         /\ DOMAIN Append(s, x) = 1 .. Len(s) + 1
         /\ Append(s, x)[Len(s) + 1] = x
         /\ \A p \in 1 .. Len(s) : Append(s, x)[p] = s[p]
OBVIOUS

(* A word for the next read continues the words.                            *)
LEMMA AppendWord ==
  ASSUME TypeOK, NEW n \in Nat, n + 1 \in Reads, WordsUpTo(n),
         words' = Append(words, n + 1), reqs' = reqs
  PROVE  WordsUpTo(n + 1)' /\ words' \in Seq(1 .. Len(reqs')) /\ Len(words') = Len(words) + 1
<1> USE SequenceTypes
<1>1. n + 1 \in 1 .. Len(reqs) /\ Reads \subseteq 1 .. Len(reqs) BY DEF Reads
<1>2. words \in Seq(1 .. Len(reqs)) BY DEF TypeOK
<1>3. /\ words' \in Seq(1 .. Len(reqs)) /\ Len(words') = Len(words) + 1
      /\ DOMAIN words' = 1 .. Len(words) + 1 /\ words'[Len(words) + 1] = n + 1
      /\ \A p \in 1 .. Len(words) : words'[p] = words[p]
  BY <1>1, <1>2, AppendFacts
<1>4. \A p \in 1 .. Len(words) : words[p] \in Reads /\ words[p] <= n
  BY DEF WordsUpTo
<1>5. \A p, q \in DOMAIN words' : p < q => words'[p] < words'[q]
  <2>1. SUFFICES ASSUME NEW p \in DOMAIN words', NEW q \in DOMAIN words', p < q
                 PROVE  words'[p] < words'[q]
    OBVIOUS
  <2>2. CASE q = Len(words) + 1
    <3>1. p \in 1 .. Len(words) BY <1>3, <2>1, <2>2
    <3>. QED BY <1>1, <1>3, <1>4, <2>2, <3>1
  <2>3. CASE q # Len(words) + 1
    <3>1. p \in 1 .. Len(words) /\ q \in 1 .. Len(words) BY <1>3, <2>1, <2>3
    <3>. QED BY <1>3, <2>1, <3>1 DEF WordsUpTo
  <2>. QED BY <2>2, <2>3
<1>6. {words'[p] : p \in DOMAIN words'} = {k \in Reads : k <= n + 1}
  <2>1. ASSUME NEW p \in DOMAIN words' PROVE words'[p] \in Reads /\ words'[p] <= n + 1
    <3>1. CASE p = Len(words) + 1 BY <1>3, <3>1
    <3>2. CASE p # Len(words) + 1
      <4>1. p \in 1 .. Len(words) BY <1>3, <2>1, <3>2
      <4>. QED BY <1>1, <1>3, <1>4, <4>1
    <3>. QED BY <3>1, <3>2
  <2>2. ASSUME NEW k \in Reads, k <= n + 1 PROVE \E p \in DOMAIN words' : words'[p] = k
    <3>1. CASE k = n + 1
      <4>1. Len(words) + 1 \in DOMAIN words' BY <1>3
      <4>. QED BY <1>3, <3>1, <4>1
    <3>2. CASE k # n + 1
      <4>1. k \in {l \in Reads : l <= n} BY <1>1, <2>2, <3>2
      <4>2. PICK p \in 1 .. Len(words) : words[p] = k BY <4>1 DEF WordsUpTo
      <4>3. p \in DOMAIN words' BY <1>3
      <4>. QED BY <1>3, <4>2, <4>3
    <3>. QED BY <3>1, <3>2
  <2>3. {words'[p] : p \in DOMAIN words'} \subseteq {k \in Reads : k <= n + 1} BY <2>1
  <2>4. {k \in Reads : k <= n + 1} \subseteq {words'[p] : p \in DOMAIN words'} BY <2>2
  <2>. QED BY <2>3, <2>4
<1>7. Reads' = Reads BY DEF Reads
<1>. QED BY <1>3, <1>5, <1>6, <1>7 DEF WordsUpTo

(* A request that is not a read adds no word.                               *)
LEMMA SkipWord ==
  ASSUME TypeOK, NEW n \in Nat, n + 1 \notin Reads, WordsUpTo(n),
         words' = words, reqs' = reqs
  PROVE  WordsUpTo(n + 1)'
<1>1. Reads \subseteq Nat BY SequenceTypes DEF Reads
<1>2. \A k \in Reads : k <= n + 1 <=> k <= n BY <1>1
<1>3. {k \in Reads : k <= n + 1} = {k \in Reads : k <= n} BY <1>2
<1>4. Reads' = Reads BY DEF Reads
<1>. QED BY <1>3, <1>4 DEF WordsUpTo

(* An answer has one word for each read up to the request it has reached.   *)
LEMMA Counting ==
  ASSUME TypeOK, NEW n \in 0 .. Len(reqs), WordsUpTo(n)
  PROVE  /\ IsFiniteSet({k \in Reads : k <= n})
         /\ Len(words) = Cardinality({k \in Reads : k <= n})
<1> DEFINE S == {k \in Reads : k <= n}
<1> USE SequenceTypes
<1>1. words \in [1 .. Len(words) -> S] BY DEF WordsUpTo, TypeOK
<1>2. words \in Bijection(1 .. Len(words), S)
  <2>1. ASSUME NEW p \in 1 .. Len(words), NEW q \in 1 .. Len(words), p # q
        PROVE  words[p] # words[q]
    <3>1. p < q \/ q < p BY <2>1
    <3>2. words[p] < words[q] \/ words[q] < words[p] BY <2>1, <3>1 DEF WordsUpTo
    <3>. QED BY <2>1, <3>2
  <2>2. \A k \in S : \E p \in 1 .. Len(words) : words[p] = k BY DEF WordsUpTo
  <2>. QED BY <1>1, <2>1, <2>2, Fun_IsBij
<1>3. Len(words) = Cardinality(S)
  <2>1. ExistsBijection(1 .. Len(words), S) BY <1>2 DEF ExistsBijection
  <2>. HIDE DEF S
  <2>. QED BY <2>1, FS_CountingElements
<1>4. IsFiniteSet(S)
  <2>1. IsFiniteSet(1 .. Len(reqs)) BY FS_Interval
  <2>2. S \in SUBSET (1 .. Len(reqs)) BY DEF Reads
  <2>. HIDE DEF S
  <2>. QED BY <2>1, <2>2, FS_Subset
<1>. QED BY <1>3, <1>4

(* A posted read is one read more than the words are.                       *)
LEMMA CountingPosted ==
  ASSUME TypeOK, NEW n \in Nat, n + 1 \in Reads, WordsUpTo(n)
  PROVE  Len(words) = Cardinality({k \in Reads : k <= n + 1}) - 1
<1>1. n \in 0 .. Len(reqs) /\ Reads \subseteq Nat BY SequenceTypes DEF Reads
<1> DEFINE S == {k \in Reads : k <= n}
           T == {k \in Reads : k <= n + 1}
<1>2. IsFiniteSet(S) /\ Len(words) = Cardinality(S) BY <1>1, Counting
<1>3. T = S \cup {n + 1}
  <2>1. \A k \in Reads : k <= n + 1 <=> k <= n \/ k = n + 1 BY <1>1
  <2>. QED BY <2>1
<1>4. n + 1 \notin S BY <1>1
<1>. SUFFICES Len(words) = Cardinality(T) - 1 OBVIOUS
<1>. HIDE DEF S, T
<1>5. Cardinality(S \cup {n + 1}) = Cardinality(S) + 1 BY <1>2, <1>4, FS_AddElement
<1>6. Cardinality(S) \in Nat BY <1>2, FS_CardinalityType
<1>. QED BY <1>2, <1>3, <1>5, <1>6

-----------------------------------------------------------------------------
(* Lemmas about a transfer and what follows it.                             *)

(* The access of the latest request is performed after the others.          *)
LEMMA AppendDone ==
  ASSUME TypeOK, PerformedOnce, NEW by \in 1 .. Len(reqs),
         \A k \in Performed : k <= by, by \in Performed => ~Once(by),
         done' = Append(done, by), reqs' = reqs
  PROVE  /\ PerformedOnce' /\ done' \in Seq(1 .. Len(reqs'))
         /\ Performed' = Performed \cup {by}
<1> USE SequenceTypes
<1>1. done \in Seq(1 .. Len(reqs)) BY DEF TypeOK
<1>2. /\ done' \in Seq(1 .. Len(reqs)) /\ DOMAIN done' = 1 .. Len(done) + 1
      /\ done'[Len(done) + 1] = by /\ \A p \in 1 .. Len(done) : done'[p] = done[p]
  BY <1>1, AppendFacts
<1>3. \A p \in 1 .. Len(done) : done[p] \in Performed BY DEF Performed
<1>4. \A k : Once(k)' <=> reqs[k].op \in {"read", "write"} BY DEF Once
<1>5. PerformedOnce'
  <2>1. ASSUME NEW p \in DOMAIN done', NEW q \in DOMAIN done', p < q
        PROVE  (done[p] < done[q] \/ (done[p] = done[q] /\ ~Once(done[p])))'
    <3>1. p \in 1 .. Len(done) BY <1>2, <2>1
    <3>2. CASE q = Len(done) + 1
      <4>1. done'[p] \in Performed /\ done'[p] \in Nat /\ done'[p] <= by BY <1>2, <1>3, <3>1
      <4>2. CASE done'[p] < by
        <5>1. done'[q] = by BY <1>2, <3>2
        <5>. QED BY <4>2, <5>1
      <4>3. CASE ~(done'[p] < by)
        <5>1. done'[p] = by BY <4>1, <4>3
        <5>2. ~Once(by) BY <4>1, <5>1
        <5>3. ~Once(by)' BY <1>4, <5>2 DEF Once
        <5>4. done'[q] = by BY <1>2, <3>2
        <5>. QED BY <5>1, <5>3, <5>4
      <4>. QED BY <4>2, <4>3
    <3>3. CASE q # Len(done) + 1
      <4>1. q \in 1 .. Len(done) BY <1>2, <2>1, <3>3
      <4>2. done'[p] = done[p] /\ done'[q] = done[q] BY <1>2, <3>1, <4>1
      <4>3. done[p] < done[q] \/ (done[p] = done[q] /\ ~Once(done[p]))
        BY <2>1, <3>1, <4>1 DEF PerformedOnce
      <4>4. Once(done[p])' <=> Once(done[p]) BY <1>4, <4>2 DEF Once
      <4>. QED BY <4>2, <4>3, <4>4
    <3>. QED BY <3>2, <3>3
  <2>. QED BY <2>1 DEF PerformedOnce
<1>6. Performed' = Performed \cup {by}
  <2>1. \A k \in Performed' : k \in Performed \cup {by} BY <1>2 DEF Performed
  <2>2. \A k \in Performed : k \in Performed' BY <1>2 DEF Performed
  <2>3. Len(done) + 1 \in DOMAIN done' BY <1>2
  <2>4. by \in Performed' BY <1>2, <2>3 DEF Performed
  <2>. QED BY <2>1, <2>2, <2>4
<1>. QED BY <1>2, <1>5, <1>6

(* An SWD transfer changes the target by at most the access it asks for.    *)
LEMMA TransferEffect ==
  ASSUME TypeOK, PerformedOnce, reqs' = reqs,
         NEW access \in {"APRead", "APWrite", "DPRead", "DPWrite", "RDBUFF"},
         NEW by, NEW ack \in Acks, SWD_Transfer(access, by, ack),
         access # "RDBUFF" =>
           /\ by \in 1 .. Len(reqs) /\ \A k \in Performed : k <= by
           /\ by \in Performed => ~Once(by)
  PROVE  /\ PerformedOnce' /\ done' \in Seq(1 .. Len(reqs'))
         /\ rdbuff' \in 0 .. Len(reqs') /\ sticky' \in BOOLEAN
         /\ Performed \subseteq Performed' /\ Performed' \subseteq Performed \cup {by}
         /\ access = "RDBUFF" => Performed' = Performed
         /\ access # "RDBUFF" /\ ack = "OK" => by \in Performed'
         /\ access # "APRead" => rdbuff' = rdbuff
         /\ access = "APRead" /\ ack = "OK" => rdbuff' = by
         /\ access = "RDBUFF" /\ ack = "OK" => ~sticky'
         /\ ack = "WAIT" => UNCHANGED target
<1> USE SequenceTypes
<1>1. rdbuff \in 0 .. Len(reqs) /\ sticky \in BOOLEAN /\ done \in Seq(1 .. Len(reqs))
  BY DEF TypeOK
<1>2. CASE UNCHANGED target /\ ack # "OK"
  <2>1. PerformedOnce' /\ Performed' = Performed
    BY <1>2 DEF PerformedOnce, Performed, Once, target
  <2>2. rdbuff' = rdbuff /\ sticky' = sticky /\ done' = done BY <1>2 DEF target
  <2>. QED BY <1>1, <1>2, <2>1, <2>2
<1>3. CASE Perform(access, by) /\ ack # "WAIT"
  <2>1. sticky' \in BOOLEAN BY <1>1, <1>3, Zenon DEF Perform
  <2>2. rdbuff' = IF access = "APRead" THEN by ELSE rdbuff BY <1>3 DEF Perform
  <2>3. access = "RDBUFF" => ~sticky'
    <3>1. access = "RDBUFF" => ~sticky BY <1>3 DEF Perform
    <3>2. access = "RDBUFF" => sticky' = sticky BY <1>3 DEF Perform
    <3>. QED BY <3>1, <3>2
  <2>4. CASE access = "RDBUFF"
    <3>1. done' = done BY <1>3, <2>4 DEF Perform
    <3>2. PerformedOnce' /\ Performed' = Performed
      BY <3>1 DEF PerformedOnce, Performed, Once
    <3>. QED BY <1>1, <1>3, <2>1, <2>2, <2>3, <2>4, <3>1, <3>2
  <2>5. CASE access # "RDBUFF"
    <3>1. done' = Append(done, by) BY <1>3, <2>5 DEF Perform
    <3>2. /\ PerformedOnce' /\ done' \in Seq(1 .. Len(reqs'))
          /\ Performed' = Performed \cup {by}
      BY <2>5, <3>1, AppendDone
    <3>. QED BY <1>1, <1>3, <2>1, <2>2, <2>5, <3>2
  <2>. QED BY <2>4, <2>5
<1>. QED BY <1>2, <1>3 DEF SWD_Transfer

(* What the target performs is acknowledged only when no error is pending.  *)
LEMMA NotSticky ==
  ASSUME NEW access, NEW by, SWD_Transfer(access, by, "OK"),
         access \notin {"DPRead", "DPWrite"}
  PROVE  ~sticky
BY DEF SWD_Transfer, Perform

(* The invariant does not depend on how many retries are left.              *)
LEMMA OnlyRetry ==
  ASSUME TInv, retry' \in 0 .. MaxRetry,
         UNCHANGED <<config, reqs, pc, i, match_retry, flags, answer, target>>
  PROVE  TInv'
<1>1. /\ debug_port' = debug_port /\ retry_count' = retry_count /\ reqs' = reqs
      /\ match_retry_count' = match_retry_count /\ pc' = pc /\ i' = i
      /\ match_retry' = match_retry /\ post_read' = post_read /\ words' = words
      /\ check_write' = check_write /\ response_count' = response_count
      /\ response_value' = response_value /\ mismatch' = mismatch
      /\ rdbuff' = rdbuff /\ sticky' = sticky /\ done' = done
  BY DEF config, flags, answer, target
<1>2. TypeOK' BY <1>1 DEF TInv, TypeOK
<1>3. /\ Served' = Served /\ Reached' = Reached /\ Performed' = Performed
      /\ Collected' = Collected /\ Reads' = Reads /\ Succeeded' = Succeeded
  BY <1>1 DEF Served, Reached, Performed, Collected, Reads, Succeeded
<1>4. IdleInv' BY <1>1 DEF TInv, IdleInv
<1>5. PlaceInv' BY <1>1, <1>3, Zenon DEF TInv, PlaceInv
<1>6. PostInv' BY <1>1, <1>3 DEF TInv, PostInv
<1>7. WordsInv' BY <1>1, <1>3, Zenon DEF TInv, WordsInv, WordsUpTo
<1>8. DoneInv' BY <1>1, <1>3, Zenon DEF TInv, DoneInv, PerformedOnce, Once
<1>9. ErrorInv' BY <1>1, Zenon DEF TInv, ErrorInv, Pending
<1>10. AnswerHolds' BY <1>1, <1>3, Zenon DEF TInv, AnswerHolds, WordsUpTo
<1>11. ErrorsReported' BY <1>1, <1>3, Zenon DEF TInv, ErrorsReported
<1>. QED BY <1>2, <1>4, <1>5, <1>6, <1>7, <1>8, <1>9, <1>10, <1>11 DEF TInv

(* A repeated transfer has changed nothing.                                 *)
LEMMA RetryStep ==
  ASSUME TInv, NEW access, NEW by, NEW ack \in Acks, SWD_Transfer(access, by, ack),
         Retry(ack), UNCHANGED <<config, reqs>>
  PROVE  TInv'
<1>1. ack = "WAIT" BY DEF Retry, MayRetry
<1>2. UNCHANGED target BY <1>1 DEF SWD_Transfer
<1>3. retry' \in 0 .. MaxRetry
  BY DapTransferAssumption DEF TInv, TypeOK, Retry, MayRetry
<1>. QED BY <1>2, <1>3, OnlyRetry DEF Retry

-----------------------------------------------------------------------------
(* The end of a command.                                                    *)

(* At the end only what the answer says is left to show.                    *)
LEMMA AtEnd ==
  ASSUME pc' = "end", TypeOK', PerformedOnce', (\E n \in 0 .. Len(reqs) : WordsUpTo(n))',
         AnswerHolds', ErrorsReported'
  PROVE  TInv'
<1>1. IdleInv' BY DEF IdleInv
<1>2. PlaceInv' BY DEF PlaceInv, Working, Last, Block, Busy
<1>3. PostInv' BY DEF PostInv, Working, Last, Block, Busy
<1>4. WordsInv' BY DEF WordsInv, Working, Last, Block, Busy
<1>5. DoneInv' BY DEF DoneInv, Working, Last, Block, Busy
<1>6. ErrorInv' BY DEF ErrorInv
<1>. QED BY <1>1, <1>2, <1>3, <1>4, <1>5, <1>6 DEF TInv

(* The words of the requests served, but for the one that is posted.        *)
LEMMA WordsServed ==
  ASSUME TInv, pc \in Busy
  PROVE  /\ Served \in 0 .. Len(reqs)
         /\ post_read => Len(words) = Cardinality({k \in Reads : k <= Served}) - 1
         /\ ~post_read => Len(words) = Cardinality({k \in Reads : k <= Served})
<1> USE SequenceTypes
<1>1. TypeOK /\ PlaceInv /\ PostInv /\ WordsInv BY DEF TInv
<1>2. Served \in 0 .. Len(reqs)
  BY <1>1 DEF Served, PlaceInv
<1>3. WordsUpTo(Collected) BY <1>1 DEF WordsInv
<1>4. CASE post_read
  <2>1. Served >= 1 /\ IsAPRead(reqs[Served]) BY <1>1, <1>4 DEF PostInv
  <2>2. Served \in Reads BY <1>1, <1>2, <2>1 DEF Reads, IsAPRead
  <2> DEFINE n == Served - 1
  <2>3. n \in Nat /\ n + 1 = Served BY <1>2, <2>1
  <2>4. WordsUpTo(n) BY <1>3, <1>4 DEF Collected
  <2>5. n + 1 \in Reads BY <2>2, <2>3
  <2>6. Len(words) = Cardinality({k \in Reads : k <= n + 1}) - 1
    <3>. HIDE DEF n
    <3>. QED BY <1>1, <2>3, <2>4, <2>5, CountingPosted
  <2>7. Len(words) = Cardinality({k \in Reads : k <= Served}) - 1
    <3>. HIDE DEF n
    <3>. QED BY <2>3, <2>6
  <2>. QED BY <1>2, <1>4, <2>7
<1>5. CASE ~post_read
  <2>1. WordsUpTo(Served) BY <1>3, <1>5 DEF Collected
  <2>2. Len(words) = Cardinality({k \in Reads : k <= Served}) BY <1>1, <1>2, <2>1, Counting
  <2>. QED BY <1>2, <1>5, <2>2
<1>. QED BY <1>4, <1>5

(* A command that fails has done what it counts and at most what was        *)
(* already under way.                                                       *)
LEMMA EndFailed ==
  ASSUME TInv, pc \in Busy, pc' = "end", TypeOK', PerformedOnce', ~Succeeded',
         reqs' = reqs, words' = words, response_count' = response_count,
         Performed \subseteq Performed',
         \A k \in Performed' :
           k <= Served + 1 \/ (pc = "blockRead" /\ reqs[1].port = "AP" /\ k <= i + 2)
  PROVE  TInv'
<1> USE SequenceTypes
<1>1. TypeOK /\ PlaceInv /\ PostInv /\ WordsInv /\ DoneInv BY DEF TInv
<1>2. response_count = Served /\ Served \in 0 .. Len(reqs)
  BY <1>1, WordsServed DEF PlaceInv
<1>3. (\E n \in 0 .. Len(reqs) : WordsUpTo(n))'
  <2>1. PICK n \in 0 .. Len(reqs) : WordsUpTo(n) BY <1>1 DEF WordsInv
  <2>2. Reads' = Reads BY DEF Reads
  <2>3. WordsUpTo(n)' BY <2>1, <2>2 DEF WordsUpTo
  <2>. QED BY <2>3
<1>4. Performed' \subseteq 1 .. Len(reqs)
  <2>1. done' \in Seq(1 .. Len(reqs)) BY DEF TypeOK
  <2>2. \A p \in DOMAIN done' : done'[p] \in 1 .. Len(reqs) BY <2>1
  <2>. QED BY <2>2 DEF Performed
<1>5. ErrorsReported' BY DEF ErrorsReported
<1>6. \A k \in 1 .. response_count' : reqs'[k].op # "mask" => k \in Performed'
  BY <1>1, <1>2 DEF DoneInv
<1>7. ASSUME NEW k \in Performed'
      PROVE  \/ k <= response_count' + 1
             \/ k <= Len(words') + 2 /\ \A l \in 1 .. k : IsAPRead(reqs'[l])
  <2>1. CASE k <= Served + 1 BY <1>2, <2>1
  <2>2. CASE pc = "blockRead" /\ reqs[1].port = "AP" /\ k <= i + 2
    <3>1. /\ i < Len(reqs) /\ reqs[1].op = "read" /\ \A l \in 1 .. Len(reqs) : reqs[l] = reqs[1]
      BY <1>1, <2>2 DEF PlaceInv, Block
    <3>2. \A l \in 1 .. k : IsAPRead(reqs[l])
      BY <1>4, <2>2, <3>1 DEF IsAPRead
    <3>3. ~post_read /\ Served = i
      BY <1>1, <2>2 DEF PostInv, Served, Working, Busy, Block
    <3>4. Len(words) = Cardinality({l \in Reads : l <= i}) BY <3>3, WordsServed
    <3>5. {l \in Reads : l <= i} = 1 .. i
      <4>1. \A l : l \in Reads <=> l \in 1 .. Len(reqs) BY <3>1 DEF Reads
      <4>. QED BY <1>1, <3>1, <4>1
    <3>6. Cardinality(1 .. i) = i BY <1>1, FS_Interval
    <3>7. Len(words) = i BY <3>4, <3>5, <3>6
    <3>. QED BY <2>2, <3>2, <3>7
  <2>. QED BY <2>1, <2>2
<1>8. Len(words') \in {Cardinality({k \in Reads : k <= response_count}) - 1,
                       Cardinality({k \in Reads : k <= response_count})}'
  <2>1. Reads' = Reads BY DEF Reads
  <2>2. Len(words) \in {Cardinality({k \in Reads : k <= Served}) - 1,
                        Cardinality({k \in Reads : k <= Served})}
    BY <1>1, WordsServed DEF TypeOK
  <2>. QED BY <1>2, <2>1, <2>2
<1>9. AnswerHolds' BY <1>6, <1>7, <1>8 DEF AnswerHolds
<1>. QED BY <1>3, <1>5, <1>9, AtEnd

(* A command that succeeds has done all it was asked for.                   *)
LEMMA EndSucceeded ==
  ASSUME TypeOK, pc' = "end", TypeOK', PerformedOnce', reqs' = reqs,
         response_count' = Len(reqs), WordsUpTo(Len(reqs))',
         Len(words') = Cardinality({k \in Reads : k <= Len(reqs)}),
         \A k \in DOMAIN reqs : reqs[k].op # "mask" => k \in Performed',
         ErrorsReported'
  PROVE  TInv'
<1> USE SequenceTypes
<1>1. Performed' \subseteq 1 .. Len(reqs)
  <2>1. done' \in Seq(1 .. Len(reqs)) BY DEF TypeOK
  <2>2. \A p \in DOMAIN done' : done'[p] \in 1 .. Len(reqs) BY <2>1
  <2>. QED BY <2>2 DEF Performed
<1>2. (\E n \in 0 .. Len(reqs) : WordsUpTo(n))' OBVIOUS
<1>3. \A k \in Performed' : k <= response_count' + 1 BY <1>1
<1>4. \A k \in 1 .. response_count' : reqs'[k].op # "mask" => k \in Performed' OBVIOUS
<1>5. Reads' = Reads BY DEF Reads
<1>6. Len(words') = Cardinality({k \in Reads : k <= response_count})' BY <1>5
<1>7. AnswerHolds' BY <1>3, <1>4, <1>6 DEF AnswerHolds
<1>. QED BY <1>2, <1>7, AtEnd

(* A transfer that fails for good ends the command.                         *)
LEMMA FailStep ==
  ASSUME TInv, pc \in Busy, NEW ack \in Acks, Fail(ack), UNCHANGED <<config, reqs>>,
         PerformedOnce', done' \in Seq(1 .. Len(reqs')), rdbuff' \in 0 .. Len(reqs'),
         sticky' \in BOOLEAN, Performed \subseteq Performed',
         \A k \in Performed' :
           k <= Served + 1 \/ (pc = "blockRead" /\ reqs[1].port = "AP" /\ k <= i + 2)
  PROVE  TInv'
<1>1. /\ debug_port' = debug_port /\ retry_count' = retry_count /\ reqs' = reqs
      /\ match_retry_count' = match_retry_count /\ pc' = "end" /\ i' = i
      /\ match_retry' = match_retry /\ post_read' = post_read /\ words' = words
      /\ check_write' = check_write /\ response_count' = response_count
      /\ response_value' = ack /\ mismatch' = mismatch /\ retry' = retry /\ ack # "OK"
  BY DEF Fail, config, flags
<1>2. TypeOK' BY <1>1 DEF TInv, TypeOK, Places
<1>3. ~Succeeded' BY <1>1 DEF Succeeded
<1>. QED BY <1>1, <1>2, <1>3, EndFailed

-----------------------------------------------------------------------------
(* The requests of DAP_Transfer, one after the other.                       *)

(* The way to a request's own access, once all before it are done with.     *)
LEMMA ProceedStep ==
  ASSUME TInv, pc \in {"next", "flush"}, UNCHANGED <<config, reqs>>,
         NEW n \in Nat, n < Len(reqs), i' = n + 1, Proceed(reqs[n + 1]), ~post_read',
         post_read' \in BOOLEAN, response_count = n, WordsUpTo(n)', words' \in Seq(1 .. Len(reqs)),
         PerformedOnce', done' \in Seq(1 .. Len(reqs)), rdbuff' \in 0 .. Len(reqs),
         sticky' \in BOOLEAN, \A k \in Performed' : k <= n,
         \A k \in 1 .. n : reqs[k].op # "mask" => k \in Performed',
         sticky' /\ ~check_write' => ~Pending(n)'
  PROVE  TInv'
<1> USE SequenceTypes
<1>1. /\ debug_port' = debug_port /\ retry_count' = retry_count /\ reqs' = reqs
      /\ match_retry_count' = match_retry_count
  BY DEF config
<1>2. TypeOK BY DEF TInv
<1>3. reqs[n + 1] \in Requests BY <1>2
<1>4. (\E m \in 0 .. Len(reqs) : WordsUpTo(m))'
  <2>1. n \in 0 .. Len(reqs') BY <1>1, <1>2
  <2>. QED BY <2>1
<1>5. CASE reqs[n + 1].op = "mask"
  <2>1. /\ Complete /\ check_write' = check_write /\ mismatch' = mismatch
        /\ match_retry' = match_retry
    BY <1>5 DEF Proceed
  <2>2. /\ pc' = "next" /\ retry' = retry_count /\ response_value' = "OK"
        /\ response_count' = n + 1
    BY <1>2, <2>1 DEF Complete, Goto
  <2>3. TypeOK'
    <3>1. i' \in 0 .. Len(reqs) /\ response_count' \in 0 .. Len(reqs) BY <1>2, <2>2
    <3>2. pc' \in Places /\ response_value' \in Acks \cup {"None"}
      BY <2>2 DEF Places, Acks
    <3>3. check_write' \in BOOLEAN /\ mismatch' \in BOOLEAN BY <1>2, <2>1 DEF TypeOK
    <3>4. retry' \in 0 .. MaxRetry /\ match_retry' \in 0 .. MaxMatchRetry
      BY <1>2, <2>1, <2>2 DEF TypeOK
    <3>5. /\ debug_port' \in {"SWD", "DISABLED"} /\ retry_count' \in 0 .. MaxRetry
          /\ match_retry_count' \in 0 .. MaxMatchRetry
          /\ reqs' \in Seq(Requests) /\ Len(reqs') \in Numbers
      BY <1>1, <1>2 DEF TypeOK
    <3>. QED BY <1>1, <3>1, <3>2, <3>3, <3>4, <3>5 DEF TypeOK
  <2>4. Served' = n + 1 /\ Collected' = n + 1 /\ Reached' = n + 1
    BY <2>2 DEF Served, Collected, Reached, Working
  <2>5. WordsUpTo(n + 1)'
    <3>1. n + 1 \notin Reads' /\ Reads' \subseteq 1 .. Len(reqs) BY <1>1, <1>2, <1>5 DEF Reads
    <3>2. \A k \in Reads' : k <= n + 1 <=> k <= n BY <3>1
    <3>3. {k \in Reads' : k <= n + 1} = {k \in Reads' : k <= n} BY <3>2
    <3>. QED BY <3>3 DEF WordsUpTo
  <2>6. WordsInv' BY <1>4, <2>4, <2>5 DEF WordsInv
  <2>7. PlaceInv' BY <2>2, <2>4 DEF PlaceInv, Working, Last, Block
  <2>8. PostInv' BY <2>2 DEF PostInv
  <2>9. DoneInv'
    <3>1. ASSUME NEW k \in 1 .. n + 1, reqs[k].op # "mask" PROVE k \in Performed'
      <4>1. k # n + 1 BY <1>5, <3>1
      <4>2. k \in 1 .. n BY <4>1
      <4>. QED BY <3>1, <4>2
    <3>2. \A k \in Performed' : k <= n + 1
      <4>1. Performed' \subseteq 1 .. Len(reqs)
        <5>1. \A p \in DOMAIN done' : done'[p] \in 1 .. Len(reqs) OBVIOUS
        <5>. QED BY <5>1 DEF Performed
      <4>. QED BY <4>1
    <3>. QED BY <1>1, <2>2, <2>4, <3>1, <3>2 DEF DoneInv
  <2>10. ErrorInv'
    <3>1. ASSUME sticky', ~check_write', NEW k \in 1 .. n + 1,
                 reqs[k].op = "write" \/ IsAPRead(reqs[k]),
                 \A l \in k + 1 .. n + 1 : reqs[l].op = "mask"
          PROVE  FALSE
      <4>1. k # n + 1 BY <1>5, <3>1 DEF IsAPRead
      <4>2. k \in 1 .. n /\ \A l \in k + 1 .. n : reqs[l].op = "mask"
        BY <1>2, <3>1, <4>1
      <4>3. Pending(n)' BY <1>1, <3>1, <4>2 DEF Pending
      <4>. QED BY <3>1, <4>3
    <3>. QED BY <1>1, <3>1 DEF ErrorInv, Pending
  <2>11. IdleInv' /\ AnswerHolds' /\ ErrorsReported'
    BY <2>2 DEF IdleInv, AnswerHolds, ErrorsReported
  <2>. QED BY <2>3, <2>6, <2>7, <2>8, <2>9, <2>10, <2>11 DEF TInv
<1>6. CASE reqs[n + 1].op # "mask"
  <2> DEFINE r == reqs[n + 1]
  <2>1. /\ Goto(CASE IsAPRead(r) -> "post"
               [] r.op = "read" /\ r.port = "DP" -> "read"
               [] r.op = "match" -> IF r.port = "AP" THEN "matchPost" ELSE "match"
               [] r.op = "write" -> "write")
        /\ match_retry' = IF r.op = "match" THEN match_retry_count ELSE match_retry
        /\ check_write' = check_write /\ mismatch' = mismatch
        /\ response_count' = response_count /\ response_value' = response_value
    BY <1>6 DEF Proceed
  <2>2. /\ r.op \in {"read", "match", "write"} /\ r.port \in {"AP", "DP"}
        /\ IsAPRead(r) <=> r.port = "AP" /\ r.op = "read"
    BY <1>3, <1>6, RequestForms
  <2>3. \/ pc' = "post" /\ IsAPRead(r)
        \/ pc' = "read" /\ r.op = "read" /\ r.port = "DP"
        \/ pc' = "matchPost" /\ r.op = "match" /\ r.port = "AP"
        \/ pc' = "match" /\ r.op = "match" /\ r.port = "DP"
        \/ pc' = "write" /\ r.op = "write"
    <3>. HIDE DEF r
    <3>. QED BY <2>1, <2>2 DEF Goto
  <2>4. retry' = retry_count BY <2>1 DEF Goto
  <2>5. pc' \in Working /\ pc' \notin {"flush", "next", "end", "idle"} /\ pc' \notin Last \cup Block
    BY <2>3 DEF Working, Last, Block
  <2>6. match_retry' \in 0 .. MaxMatchRetry BY <1>2, <2>1 DEF TypeOK
  <2>7. TypeOK'
    <3>1. i' \in 0 .. Len(reqs) BY <1>2
    <3>2. pc' \in Places BY <2>5 DEF Places, Working
    <3>. QED BY <1>1, <1>2, <2>1, <2>4, <2>6, <3>1, <3>2 DEF TypeOK
  <2>8. Served' = n /\ Collected' = n BY <2>5 DEF Served, Collected
  <2>9. Reached' \in {n, n + 1} BY <1>2, <2>5, <2>8 DEF Reached, Block
  <2>10. WordsInv' BY <1>4, <2>8 DEF WordsInv
  <2>11. PlaceInv'
    <3>1. Len(reqs) >= 1 /\ i' >= 1 BY <1>2
    <3>. QED BY <1>1, <2>1, <2>3, <2>5, <2>8, <3>1 DEF PlaceInv, Block
  <2>12. PostInv' BY <2>5 DEF PostInv, Last
  <2>13. DoneInv'
    <3>1. \A k \in Performed' : k <= Reached'
      <4>1. Performed' \subseteq 1 .. Len(reqs)
        <5>1. \A p \in DOMAIN done' : done'[p] \in 1 .. Len(reqs) OBVIOUS
        <5>. QED BY <5>1 DEF Performed
      <4>. QED BY <2>9, <4>1
    <3>. QED BY <1>1, <2>5, <2>8, <3>1 DEF DoneInv, Block
  <2>14. IdleInv' /\ AnswerHolds' /\ ErrorsReported' /\ ErrorInv'
    BY <2>5 DEF IdleInv, AnswerHolds, ErrorsReported, ErrorInv
  <2>. QED BY <2>7, <2>10, <2>11, <2>12, <2>13, <2>14 DEF TInv
<1>. QED BY <1>5, <1>6

(* Taking the next request, or a posted read's value before it.             *)
LEMMA TakeStep == TInv /\ Take => TInv'
<1> USE SequenceTypes
<1> SUFFICES ASSUME TInv, Take PROVE TInv'
  OBVIOUS
<1>1. TypeOK /\ PlaceInv /\ PostInv /\ WordsInv /\ DoneInv /\ ErrorInv BY DEF TInv
<1>2. /\ pc = "next" /\ i < Len(reqs) /\ i' = i + 1
      /\ UNCHANGED <<config, reqs, post_read, words, target>>
  BY DEF Take
<1>3. /\ debug_port' = debug_port /\ retry_count' = retry_count /\ reqs' = reqs
      /\ match_retry_count' = match_retry_count /\ post_read' = post_read
      /\ words' = words /\ rdbuff' = rdbuff /\ sticky' = sticky /\ done' = done
  BY <1>2 DEF config, target
<1>4. Served = i /\ Reached = i /\ pc \in Busy /\ response_count = i
  BY <1>1, <1>2 DEF Served, Reached, Working, Busy, PlaceInv
<1>5. Reads' = Reads /\ Performed' = Performed /\ PerformedOnce'
  BY <1>1, <1>3 DEF Reads, Performed, PerformedOnce, Once, DoneInv
<1>6. CASE post_read /\ Goto("flush")
           /\ UNCHANGED <<match_retry, check_write, response_count, response_value, mismatch>>
  <2>1. pc' = "flush" /\ retry' = retry_count BY <1>6 DEF Goto
  <2>2. TypeOK' BY <1>1, <1>2, <1>3, <1>6, <2>1 DEF TypeOK, Places
  <2>3. Served' = i /\ Collected' = i - 1 /\ Reached' = i
    BY <1>1, <1>2, <1>3, <1>6, <2>1 DEF Served, Collected, Reached, Working
  <2>4. Collected = i - 1 BY <1>4, <1>6 DEF Collected
  <2>5. WordsInv'
    <3>1. WordsUpTo(i - 1) BY <1>1, <1>4, <2>4 DEF WordsInv
    <3>2. i >= 1 BY <1>1, <1>4, <1>6 DEF PostInv
    <3> DEFINE n == i - 1
    <3>3. n \in 0 .. Len(reqs) /\ WordsUpTo(n) /\ Collected' = n BY <1>1, <2>3, <3>1, <3>2
    <3>. HIDE DEF n
    <3>4. WordsUpTo(Collected)'
      BY <1>3, <1>5, <3>3 DEF WordsUpTo
    <3>. QED BY <1>3, <3>3, <3>4 DEF WordsInv
  <2>6. PlaceInv' BY <1>1, <1>2, <1>3, <1>4, <1>6, <2>1, <2>3 DEF PlaceInv, Working, Last, Block
  <2>7. PostInv' BY <1>1, <1>3, <1>4, <1>6, <2>1, <2>3 DEF PostInv
  <2>8. DoneInv' BY <1>1, <1>3, <1>4, <1>5, <2>1, <2>3 DEF DoneInv
  <2>9. IdleInv' /\ AnswerHolds' /\ ErrorsReported' /\ ErrorInv'
    BY <2>1 DEF IdleInv, AnswerHolds, ErrorsReported, ErrorInv
  <2>. QED BY <2>2, <2>5, <2>6, <2>7, <2>8, <2>9 DEF TInv
<1>7. CASE ~post_read /\ Proceed(reqs[i + 1])
  <2>1. WordsUpTo(i) BY <1>1, <1>4, <1>7 DEF WordsInv, Collected
  <2> PICK n : n = i OBVIOUS
  <2>2. WordsUpTo(n)' BY <1>3, <1>5, <2>1 DEF WordsUpTo
  <2>3. ASSUME sticky', ~check_write' PROVE ~Pending(n)'
    <3>1. check_write' = check_write BY <1>7 DEF Proceed
    <3>2. ~Pending(n) BY <1>1, <1>2, <1>3, <1>7, <2>3, <3>1 DEF ErrorInv
    <3>. QED BY <1>3, <3>2 DEF Pending
  <2>4. /\ n \in Nat /\ n < Len(reqs) /\ i' = n + 1 /\ response_count = n
        /\ ~post_read' /\ post_read' \in BOOLEAN
    BY <1>1, <1>2, <1>3, <1>4, <1>7 DEF TypeOK
  <2>4a. /\ \A k \in Performed' : k <= n
        /\ \A k \in 1 .. n : reqs[k].op # "mask" => k \in Performed'
    BY <1>1, <1>4, <1>5 DEF DoneInv
  <2>5. /\ words' \in Seq(1 .. Len(reqs)) /\ done' \in Seq(1 .. Len(reqs))
        /\ rdbuff' \in 0 .. Len(reqs) /\ sticky' \in BOOLEAN
    BY <1>1, <1>3 DEF TypeOK
  <2>6. Proceed(reqs[n + 1]) BY <1>7
  <2>. QED BY <1>2, <1>5, <2>2, <2>3, <2>4, <2>4a, <2>5, <2>6, ProceedStep
<1>. QED BY <1>6, <1>7 DEF Take, CollectFirst

(* At its own access a request has all the earlier ones behind it.          *)
LEMMA AtRequest ==
  ASSUME TInv, pc \in {"post", "read", "matchPost", "match", "write"}
  PROVE  /\ i \in 1 .. Len(reqs) /\ Served = i - 1 /\ response_count = i - 1
         /\ ~post_read /\ pc \in Busy /\ WordsUpTo(i - 1)
         /\ \A k \in Performed : k <= i
         /\ i \in Performed => ~Once(i)
<1> USE SequenceTypes
<1>1. TypeOK /\ PlaceInv /\ PostInv /\ WordsInv /\ DoneInv BY DEF TInv
<1>2. pc \in Busy /\ i \in 1 .. Len(reqs) /\ Served = i - 1
  BY <1>1 DEF Busy, Working, Served, PlaceInv
<1>3. ~post_read BY <1>1, <1>2 DEF PostInv
<1>4. response_count = i - 1 BY <1>1, <1>2 DEF PlaceInv
<1>5. WordsUpTo(i - 1) BY <1>1, <1>2, <1>3 DEF WordsInv, Collected
<1>6. pc # "blockRead" OBVIOUS
<1>7. CASE pc = "match"
  <2>1. \A k \in Performed : k <= i BY <1>1, <1>2, <1>7 DEF DoneInv, Reached
  <2>2. ~Once(i) BY <1>1, <1>7 DEF PlaceInv, Once
  <2>. QED BY <1>2, <1>3, <1>4, <1>5, <2>1, <2>2
<1>8. CASE pc # "match"
  <2>1. \A k \in Performed : k <= i - 1 BY <1>1, <1>2, <1>6, <1>8 DEF DoneInv, Reached
  <2>2. \A k \in Performed : k \in Nat /\ k < i BY <1>1, <1>2, <2>1
  <2>. QED BY <1>2, <1>3, <1>4, <1>5, <2>2
<1>. QED BY <1>7, <1>8

(* The transfers of a request's own access.                                 *)
LEMMA OwnTransfer ==
  ASSUME TInv, pc \in {"post", "read", "matchPost", "match", "write"},
         NEW access \in {"APRead", "APWrite", "DPRead", "DPWrite"}, NEW ack \in Acks,
         SWD_Transfer(access, i, ack), UNCHANGED <<config, reqs>>
  PROVE  /\ PerformedOnce' /\ done' \in Seq(1 .. Len(reqs'))
         /\ rdbuff' \in 0 .. Len(reqs') /\ sticky' \in BOOLEAN
         /\ Performed \subseteq Performed' /\ Performed' \subseteq Performed \cup {i}
         /\ ack = "OK" => i \in Performed'
         /\ access # "APRead" => rdbuff' = rdbuff
         /\ access = "APRead" /\ ack = "OK" => rdbuff' = i
         /\ Retry(ack) => TInv'
         /\ Fail(ack) => TInv'
         /\ \A k \in Performed' : k <= i
<1>1. TypeOK /\ PerformedOnce /\ reqs' = reqs BY DEF TInv, DoneInv
<1>2. /\ i \in 1 .. Len(reqs) /\ Served = i - 1 /\ pc \in Busy
      /\ \A k \in Performed : k <= i
      /\ i \in Performed => ~Once(i)
  BY AtRequest
<1>3. /\ PerformedOnce' /\ done' \in Seq(1 .. Len(reqs'))
      /\ rdbuff' \in 0 .. Len(reqs') /\ sticky' \in BOOLEAN
      /\ Performed \subseteq Performed' /\ Performed' \subseteq Performed \cup {i}
      /\ ack = "OK" => i \in Performed'
      /\ access # "APRead" => rdbuff' = rdbuff
      /\ access = "APRead" /\ ack = "OK" => rdbuff' = i
  BY <1>1, <1>2, TransferEffect
<1>4. Retry(ack) => TInv' BY RetryStep
<1>5. \A k \in Performed' : k <= i BY <1>2, <1>3
<1>6. \A k \in Performed' : k <= Served + 1 BY <1>1, <1>2, <1>5 DEF TypeOK
<1>7. Fail(ack) => TInv' BY <1>2, <1>3, <1>6, FailStep
<1>. QED BY <1>3, <1>4, <1>5, <1>7

(* A request is served by its own access.                                   *)
LEMMA ServedStep ==
  ASSUME TInv, pc \in {"post", "read", "match", "write"}, UNCHANGED <<config, reqs, i>>,
         Complete, match_retry' = match_retry, mismatch' = mismatch,
         post_read' \in BOOLEAN, check_write' \in BOOLEAN,
         PerformedOnce', done' \in Seq(1 .. Len(reqs')), rdbuff' \in 0 .. Len(reqs'),
         sticky' \in BOOLEAN, Performed \subseteq Performed', i \in Performed',
         \A k \in Performed' : k <= i,
         words' \in Seq(1 .. Len(reqs)), WordsUpTo(Collected)',
         post_read' => IsAPRead(reqs[i]) /\ rdbuff' = i,
         sticky' /\ ~post_read' /\ ~check_write' => ~Pending(i)'
  PROVE  TInv'
<1> USE SequenceTypes
<1>1. /\ debug_port' = debug_port /\ retry_count' = retry_count /\ reqs' = reqs
      /\ match_retry_count' = match_retry_count /\ i' = i
  BY DEF config
<1>2. TypeOK /\ PlaceInv /\ DoneInv BY DEF TInv
<1>3. i \in 1 .. Len(reqs) /\ Served = i - 1 /\ response_count = i - 1 /\ pc \in Busy
  BY AtRequest
<1>4. /\ pc' = "next" /\ retry' = retry_count /\ response_value' = "OK"
      /\ response_count' = i
  BY <1>2, <1>3 DEF Complete, Goto
<1>5. TypeOK'
  <2>1. i' \in 0 .. Len(reqs) /\ response_count' \in 0 .. Len(reqs) BY <1>1, <1>2, <1>3, <1>4
  <2>2. pc' \in Places /\ response_value' \in Acks \cup {"None"} BY <1>4 DEF Places, Acks
  <2>3. mismatch' \in BOOLEAN BY <1>2 DEF TypeOK
  <2>4. retry' \in 0 .. MaxRetry /\ match_retry' \in 0 .. MaxMatchRetry
    BY <1>2, <1>4 DEF TypeOK
  <2>5. /\ debug_port' \in {"SWD", "DISABLED"} /\ retry_count' \in 0 .. MaxRetry
        /\ match_retry_count' \in 0 .. MaxMatchRetry
        /\ reqs' \in Seq(Requests) /\ Len(reqs') \in Numbers
    BY <1>1, <1>2 DEF TypeOK
  <2>. QED BY <1>1, <2>1, <2>2, <2>3, <2>4, <2>5 DEF TypeOK
<1>6. Served' = i /\ Reached' = i /\ Collected' = IF post_read' THEN i - 1 ELSE i
  BY <1>1, <1>4 DEF Served, Reached, Collected, Working
<1>7. PlaceInv' BY <1>4, <1>6 DEF PlaceInv, Working, Last, Block
<1>8. PostInv' BY <1>1, <1>3, <1>4, <1>6 DEF PostInv
<1>9. WordsInv'
  <2>1. Collected' \in 0 .. Len(reqs') BY <1>1, <1>2, <1>3, <1>6
  <2>. QED BY <2>1 DEF WordsInv
<1>10. DoneInv'
  <2>1. ASSUME NEW k \in 1 .. i, reqs[k].op # "mask" PROVE k \in Performed'
    <3>1. CASE k = i BY <3>1
    <3>2. CASE k # i
      <4>1. k \in 1 .. Served BY <1>2, <1>3, <3>2
      <4>. QED BY <1>2, <1>3, <2>1, <4>1 DEF DoneInv
    <3>. QED BY <3>1, <3>2
  <2>. QED BY <1>1, <1>4, <1>6, <2>1 DEF DoneInv
<1>11. ErrorInv' BY <1>1 DEF ErrorInv
<1>12. IdleInv' /\ AnswerHolds' /\ ErrorsReported'
  BY <1>4 DEF IdleInv, AnswerHolds, ErrorsReported
<1>. QED BY <1>5, <1>7, <1>8, <1>9, <1>10, <1>11, <1>12 DEF TInv

(* Nothing is pending after a request that is no write and posts no read.   *)
LEMMA NotPending ==
  ASSUME TypeOK, i \in 1 .. Len(reqs), UNCHANGED <<reqs, i>>,
         reqs[i].op \in {"read", "match"},
         reqs[i].op = "read" => reqs[i].port = "DP"
  PROVE  ~Pending(i)'
<1>1. SUFFICES ASSUME NEW k \in 1 .. i, reqs[k].op = "write" \/ IsAPRead(reqs[k]),
                      \A l \in k + 1 .. i : reqs[l].op = "mask"
               PROVE  FALSE
  BY DEF Pending
<1>2. CASE k = i BY <1>1, <1>2 DEF IsAPRead
<1>3. CASE k # i
  <2>1. i \in k + 1 .. i BY <1>1, <1>3
  <2>. QED BY <1>1, <2>1
<1>. QED BY <1>2, <1>3

LEMMA PostStep == TInv /\ Post => TInv'
<1> SUFFICES ASSUME TInv, Post PROVE TInv'
  OBVIOUS
<1>1. PICK ack \in Acks :
        /\ SWD_Transfer("APRead", i, ack)
        /\ \/ Retry(ack)
           \/ Fail(ack)
           \/ /\ ack = "OK" /\ Complete
              /\ post_read' = TRUE /\ check_write' = FALSE
              /\ UNCHANGED <<i, match_retry, mismatch, words>>
  BY DEF Post
<1>2. pc = "post" /\ UNCHANGED <<config, reqs>> BY DEF Post
<1>3. /\ PerformedOnce' /\ done' \in Seq(1 .. Len(reqs'))
      /\ rdbuff' \in 0 .. Len(reqs') /\ sticky' \in BOOLEAN
      /\ Performed \subseteq Performed' /\ \A k \in Performed' : k <= i
      /\ ack = "OK" => i \in Performed' /\ rdbuff' = i
      /\ Retry(ack) => TInv'
      /\ Fail(ack) => TInv'
  BY <1>1, <1>2, OwnTransfer
<1>4. CASE ack = "OK" /\ Complete /\ post_read' = TRUE /\ check_write' = FALSE
           /\ UNCHANGED <<i, match_retry, mismatch, words>>
  <2>1. TypeOK /\ IsAPRead(reqs[i]) BY <1>2 DEF TInv, PlaceInv
  <2>2. WordsUpTo(i - 1) /\ i \in 1 .. Len(reqs) BY <1>2, AtRequest
  <2>3. pc' = "next" /\ i' = i BY <1>4 DEF Complete, Goto
  <2> PICK n : n = i - 1 OBVIOUS
  <2>4. Collected' = n BY <1>4, <2>3 DEF Collected, Served, Working
  <2>5. WordsUpTo(n)' BY <1>2, <1>4, <2>2 DEF WordsUpTo, Reads
  <2>6. WordsUpTo(Collected)' BY <2>4, <2>5
  <2>7. words' \in Seq(1 .. Len(reqs)) BY <1>4, <2>1 DEF TypeOK
  <2>. QED BY <1>2, <1>3, <1>4, <2>1, <2>6, <2>7, ServedStep
<1>. QED BY <1>1, <1>3, <1>4

LEMMA ReadDPStep == TInv /\ ReadDP => TInv'
<1> SUFFICES ASSUME TInv, ReadDP PROVE TInv'
  OBVIOUS
<1>1. PICK ack \in Acks :
        /\ SWD_Transfer("DPRead", i, ack)
        /\ \/ Retry(ack)
           \/ Fail(ack)
           \/ /\ ack = "OK" /\ Store(Data("DPRead", i)) /\ Complete
              /\ check_write' = FALSE
              /\ UNCHANGED <<i, match_retry, post_read, mismatch>>
  BY DEF ReadDP
<1>2. pc = "read" /\ UNCHANGED <<config, reqs>> BY DEF ReadDP
<1>3. /\ PerformedOnce' /\ done' \in Seq(1 .. Len(reqs'))
      /\ rdbuff' \in 0 .. Len(reqs') /\ sticky' \in BOOLEAN
      /\ Performed \subseteq Performed' /\ \A k \in Performed' : k <= i
      /\ ack = "OK" => i \in Performed'
      /\ Retry(ack) => TInv'
      /\ Fail(ack) => TInv'
  BY <1>1, <1>2, OwnTransfer
<1>4. CASE ack = "OK" /\ Store(Data("DPRead", i)) /\ Complete /\ check_write' = FALSE
           /\ UNCHANGED <<i, match_retry, post_read, mismatch>>
  <2>1. TypeOK /\ reqs[i].op = "read" /\ reqs[i].port = "DP" BY <1>2 DEF TInv, PlaceInv
  <2>2. WordsUpTo(i - 1) /\ i \in 1 .. Len(reqs) /\ ~post_read BY <1>2, AtRequest
  <2>3. pc' = "next" /\ i' = i BY <1>4 DEF Complete, Goto
  <2>4. words' = Append(words, i) BY <1>4 DEF Store, Data
  <2>5. PICK n \in Nat : n + 1 = i /\ n = i - 1 BY <2>1, <2>2 DEF TypeOK
  <2>6. n + 1 \in Reads BY <2>1, <2>2, <2>5, SequenceTypes DEF Reads
  <2>7. WordsUpTo(n + 1)' /\ words' \in Seq(1 .. Len(reqs'))
    <3>1. words' = Append(words, n + 1) /\ WordsUpTo(n) /\ reqs' = reqs
      BY <1>2, <2>2, <2>4, <2>5
    <3>. QED BY <2>1, <2>6, <3>1, AppendWord
  <2>8. Collected' = n + 1 BY <1>4, <2>2, <2>3, <2>5 DEF Collected, Served, Working
  <2>9. WordsUpTo(Collected)' BY <2>7, <2>8
  <2>10. ~Pending(i)' BY <1>2, <1>4, <2>1, <2>2, NotPending
  <2>11. /\ ~post_read' /\ post_read' \in BOOLEAN /\ check_write' \in BOOLEAN
         /\ words' \in Seq(1 .. Len(reqs))
    BY <1>2, <1>4, <2>1, <2>2, <2>7 DEF TypeOK
  <2>. QED BY <1>2, <1>3, <1>4, <2>9, <2>10, <2>11, ServedStep
<1>. QED BY <1>1, <1>3, <1>4

LEMMA MatchPostStep == TInv /\ MatchPost => TInv'
<1> SUFFICES ASSUME TInv, MatchPost PROVE TInv'
  OBVIOUS
<1> USE SequenceTypes
<1>1. PICK ack \in Acks :
        /\ SWD_Transfer("APRead", i, ack)
        /\ \/ Retry(ack)
           \/ Fail(ack)
           \/ /\ ack = "OK" /\ Goto("match")
              /\ UNCHANGED <<i, match_retry, flags, answer>>
  BY DEF MatchPost
<1>2. pc = "matchPost" /\ UNCHANGED <<config, reqs>> BY DEF MatchPost
<1>3. /\ PerformedOnce' /\ done' \in Seq(1 .. Len(reqs'))
      /\ rdbuff' \in 0 .. Len(reqs') /\ sticky' \in BOOLEAN
      /\ Performed \subseteq Performed' /\ \A k \in Performed' : k <= i
      /\ ack = "OK" => i \in Performed' /\ rdbuff' = i
      /\ Retry(ack) => TInv'
      /\ Fail(ack) => TInv'
  BY <1>1, <1>2, OwnTransfer
<1>4. CASE ack = "OK" /\ Goto("match") /\ UNCHANGED <<i, match_retry, flags, answer>>
  <2>1. TypeOK /\ PlaceInv /\ WordsInv /\ DoneInv BY DEF TInv
  <2>2. /\ WordsUpTo(i - 1) /\ i \in 1 .. Len(reqs) /\ ~post_read
        /\ response_count = i - 1 /\ Served = i - 1
    BY <1>2, AtRequest
  <2>3. /\ debug_port' = debug_port /\ retry_count' = retry_count /\ reqs' = reqs
        /\ match_retry_count' = match_retry_count /\ pc' = "match" /\ i' = i
        /\ match_retry' = match_retry /\ post_read' = post_read /\ words' = words
        /\ check_write' = check_write /\ response_count' = response_count
        /\ response_value' = response_value /\ mismatch' = mismatch
        /\ retry' = retry_count
    BY <1>2, <1>4 DEF config, flags, answer, Goto
  <2>4. TypeOK' BY <1>3, <2>1, <2>3 DEF TypeOK, Places
  <2>5. Served' = Served /\ Collected' = Served /\ Reached' = i
    BY <1>2, <2>1, <2>2, <2>3 DEF Served, Collected, Reached, Working
  <2>6. PlaceInv'
    BY <1>2, <1>3, <1>4, <2>1, <2>2, <2>3, <2>5 DEF PlaceInv, Working, Last, Block
  <2>7. PostInv' BY <2>2, <2>3 DEF PostInv
  <2>8. WordsInv'
    <3>1. PICK n \in 0 .. Len(reqs) : n = Served BY <2>1, <2>2
    <3>2. WordsUpTo(n)' BY <2>2, <2>3, <3>1 DEF WordsUpTo, Reads
    <3>3. Collected' = n BY <2>5, <3>1
    <3>. QED BY <2>3, <3>2, <3>3 DEF WordsInv
  <2>9. DoneInv'
    <3>1. \A k \in 1 .. Served : reqs[k].op # "mask" => k \in Performed'
      BY <1>2, <1>3, <2>1 DEF DoneInv, Busy, Working
    <3>. QED BY <1>3, <2>3, <2>5, <3>1 DEF DoneInv
  <2>10. IdleInv' /\ AnswerHolds' /\ ErrorsReported' /\ ErrorInv'
    BY <2>3 DEF IdleInv, AnswerHolds, ErrorsReported, ErrorInv
  <2>. QED BY <2>4, <2>6, <2>7, <2>8, <2>9, <2>10 DEF TInv
<1>. QED BY <1>1, <1>3, <1>4

LEMMA MatchStep == TInv /\ Match => TInv'
<1> SUFFICES ASSUME TInv, Match PROVE TInv'
  OBVIOUS
<1> USE SequenceTypes
<1> DEFINE Again == /\ match_retry' = match_retry - 1 /\ Goto("match")
                    /\ UNCHANGED <<i, flags, answer>>
           End(ack) == /\ response_value' = ack /\ pc' = "end"
                       /\ UNCHANGED <<i, retry, match_retry, flags, response_count, words>>
           Matched == /\ Complete /\ check_write' = FALSE
                      /\ UNCHANGED <<i, match_retry, post_read, mismatch, words>>
<1>1. PICK ack \in Acks, differs \in BOOLEAN :
        /\ SWD_Transfer(Access(reqs[i]), i, ack)
        /\ \/ Retry(ack)
           \/ ack # "OK" /\ mismatch' = differs /\ End(ack)
           \/ ack = "OK" /\ match_retry > 0 /\ Again
           \/ ack = "OK" /\ mismatch' = TRUE /\ End(ack)
           \/ ack = "OK" /\ Matched
  <2>1. PICK ack \in Acks, differs \in BOOLEAN :
          /\ SWD_Transfer(Access(reqs[i]), i, ack)
          /\ \/ Retry(ack)
             \/ /\ ack # "OK" /\ ~MayRetry(ack)
                /\ response_value' = ack /\ mismatch' = differs /\ pc' = "end"
                /\ UNCHANGED <<i, retry, match_retry, flags, response_count, words>>
             \/ /\ ack = "OK" /\ differs /\ match_retry > 0
                /\ match_retry' = match_retry - 1 /\ Goto("match")
                /\ UNCHANGED <<i, flags, answer>>
             \/ /\ ack = "OK" /\ differs /\ match_retry = 0
                /\ response_value' = ack /\ mismatch' = TRUE /\ pc' = "end"
                /\ UNCHANGED <<i, retry, match_retry, flags, response_count, words>>
             \/ /\ ack = "OK" /\ ~differs /\ Complete
                /\ check_write' = FALSE
                /\ UNCHANGED <<i, match_retry, post_read, mismatch, words>>
    BY Zenon DEF Match
  <2>. QED BY <2>1, Zenon
<1>2. pc = "match" /\ UNCHANGED <<config, reqs>> BY DEF Match
<1>3. TypeOK /\ PlaceInv /\ WordsInv /\ DoneInv BY DEF TInv
<1>4. /\ WordsUpTo(i - 1) /\ i \in 1 .. Len(reqs) /\ ~post_read /\ pc \in Busy
      /\ response_count = i - 1 /\ Served = i - 1
  BY <1>2, AtRequest
<1>5. reqs[i].op = "match" /\ (reqs[i].port = "AP" => rdbuff = i) BY <1>2, <1>3 DEF PlaceInv
<1>6. /\ Access(reqs[i]) = IF reqs[i].port = "AP" THEN "APRead" ELSE "DPRead"
      /\ Access(reqs[i]) \in {"APRead", "DPRead"}
  <2>1. reqs[i] \in Requests BY <1>3, <1>4
  <2>2. reqs[i].port \in {"AP", "DP"} BY <1>5, <2>1, RequestForms
  <2>. QED BY <1>5, <2>2 DEF Access
<1>7. /\ PerformedOnce' /\ done' \in Seq(1 .. Len(reqs'))
      /\ rdbuff' \in 0 .. Len(reqs') /\ sticky' \in BOOLEAN
      /\ Performed \subseteq Performed' /\ \A k \in Performed' : k <= i
      /\ ack = "OK" => i \in Performed'
      /\ ack = "OK" /\ reqs[i].port = "AP" => rdbuff' = i
      /\ Retry(ack) => TInv'
  BY <1>1, <1>2, <1>6, OwnTransfer
<1>8. /\ debug_port' = debug_port /\ retry_count' = retry_count /\ reqs' = reqs
      /\ match_retry_count' = match_retry_count
  BY <1>2 DEF config
<1>9. PICK n \in 0 .. Len(reqs) : n = i - 1 BY <1>3, <1>4
<1>10. CASE End(ack) /\ (ack # "OK" \/ mismatch' = TRUE) /\ mismatch' \in BOOLEAN
  <2>1. /\ pc' = "end" /\ i' = i /\ retry' = retry /\ match_retry' = match_retry
        /\ post_read' = post_read /\ check_write' = check_write
        /\ response_count' = response_count /\ words' = words /\ response_value' = ack
    BY <1>10 DEF flags
  <2>2. TypeOK' BY <1>3, <1>7, <1>8, <1>10, <2>1 DEF TypeOK, Places
  <2>3. ~Succeeded' BY <1>10, <2>1 DEF Succeeded
  <2>4. \A k \in Performed' : k <= Served + 1 BY <1>3, <1>4, <1>7
  <2>. QED BY <1>4, <1>7, <1>8, <2>1, <2>2, <2>3, <2>4, EndFailed
<1>11. CASE ack = "OK" /\ match_retry > 0 /\ Again
  <2>1. /\ pc' = "match" /\ i' = i /\ match_retry' = match_retry - 1
        /\ post_read' = post_read /\ words' = words
        /\ check_write' = check_write /\ response_count' = response_count
        /\ response_value' = response_value /\ mismatch' = mismatch
        /\ retry' = retry_count
    BY <1>11 DEF flags, answer, Goto
  <2>2. match_retry' \in 0 .. MaxMatchRetry
    BY <1>3, <1>11, <2>1, DapTransferAssumption DEF TypeOK
  <2>3. TypeOK' BY <1>3, <1>7, <1>8, <2>1, <2>2 DEF TypeOK, Places
  <2>4. Served' = n /\ Collected' = n /\ Reached' = i
    BY <1>3, <1>4, <1>9, <2>1 DEF Served, Collected, Reached, Working
  <2>5. PlaceInv'
    BY <1>2, <1>3, <1>4, <1>5, <1>7, <1>8, <1>9, <1>11, <2>1, <2>4
    DEF PlaceInv, Working, Last, Block
  <2>6. PostInv' BY <1>4, <2>1 DEF PostInv
  <2>7. WordsInv'
    <3>1. WordsUpTo(n)' BY <1>4, <1>8, <1>9, <2>1 DEF WordsUpTo, Reads
    <3>. QED BY <1>8, <2>4, <3>1 DEF WordsInv
  <2>8. DoneInv'
    <3>1. \A k \in 1 .. n : reqs[k].op # "mask" => k \in Performed'
      BY <1>3, <1>4, <1>7, <1>9 DEF DoneInv
    <3>. QED BY <1>7, <1>8, <2>1, <2>4, <3>1 DEF DoneInv
  <2>9. IdleInv' /\ AnswerHolds' /\ ErrorsReported' /\ ErrorInv'
    BY <2>1 DEF IdleInv, AnswerHolds, ErrorsReported, ErrorInv
  <2>. QED BY <2>3, <2>5, <2>6, <2>7, <2>8, <2>9 DEF TInv
<1>12. CASE ack = "OK" /\ Matched
  <2>1. pc' = "next" /\ i' = i BY <1>12 DEF Complete, Goto
  <2>2. Reads' = Reads /\ n + 1 = i /\ n \in Nat /\ i \notin Reads
    BY <1>3, <1>4, <1>5, <1>8, <1>9 DEF Reads
  <2>3. WordsUpTo(n + 1)'
    <3>1. words' = words /\ WordsUpTo(n) /\ n + 1 \notin Reads BY <1>4, <1>9, <1>12, <2>2
    <3>. QED BY <1>3, <1>8, <2>2, <3>1, SkipWord
  <2>4. Collected' = n + 1 BY <1>4, <1>12, <2>1, <2>2 DEF Collected, Served, Working
  <2>5. WordsUpTo(Collected)' BY <2>3, <2>4
  <2>6. ~Pending(i)' BY <1>3, <1>4, <1>5, <1>8, <2>1, NotPending
  <2>7. /\ ~post_read' /\ post_read' \in BOOLEAN /\ check_write' \in BOOLEAN
        /\ words' \in Seq(1 .. Len(reqs))
    BY <1>3, <1>4, <1>12 DEF TypeOK
  <2>8. Complete /\ UNCHANGED <<i, match_retry, mismatch>> BY <1>12
  <2>9. i \in Performed' BY <1>7, <1>12
  <2>. HIDE DEF Matched, Again, End
  <2>. QED BY <1>2, <1>7, <2>5, <2>6, <2>7, <2>8, <2>9, ServedStep
<1>13. mismatch' = differs \/ mismatch' = TRUE => mismatch' \in BOOLEAN OBVIOUS
<1>. HIDE DEF Matched, Again, End
<1>. QED BY <1>1, <1>7, <1>10, <1>11, <1>12, <1>13

LEMMA WriteStep == TInv /\ Write => TInv'
<1> SUFFICES ASSUME TInv, Write PROVE TInv'
  OBVIOUS
<1> USE SequenceTypes
<1>1. PICK ack \in Acks :
        /\ SWD_Transfer(Access(reqs[i]), i, ack)
        /\ \/ Retry(ack)
           \/ Fail(ack)
           \/ /\ ack = "OK" /\ Complete
              /\ check_write' = TRUE
              /\ UNCHANGED <<i, match_retry, post_read, mismatch, words>>
  BY DEF Write
<1>2. pc = "write" /\ UNCHANGED <<config, reqs>> BY DEF Write
<1>3. TypeOK /\ reqs[i].op = "write" BY <1>2 DEF TInv, PlaceInv
<1>4. WordsUpTo(i - 1) /\ i \in 1 .. Len(reqs) /\ ~post_read BY <1>2, AtRequest
<1>5. Access(reqs[i]) \in {"APWrite", "DPWrite"}
  <2>1. reqs[i] \in Requests BY <1>3, <1>4
  <2>2. reqs[i].port \in {"AP", "DP"} BY <1>3, <2>1, RequestForms
  <2>. QED BY <1>3, <2>2 DEF Access
<1>6. /\ PerformedOnce' /\ done' \in Seq(1 .. Len(reqs'))
      /\ rdbuff' \in 0 .. Len(reqs') /\ sticky' \in BOOLEAN
      /\ Performed \subseteq Performed' /\ \A k \in Performed' : k <= i
      /\ ack = "OK" => i \in Performed'
      /\ Retry(ack) => TInv'
      /\ Fail(ack) => TInv'
  BY <1>1, <1>2, <1>5, OwnTransfer
<1>7. CASE ack = "OK" /\ Complete /\ check_write' = TRUE
           /\ UNCHANGED <<i, match_retry, post_read, mismatch, words>>
  <2>1. pc' = "next" /\ i' = i BY <1>7 DEF Complete, Goto
  <2>2. PICK n \in Nat : n = i - 1 /\ n + 1 = i BY <1>3, <1>4
  <2>3. WordsUpTo(n + 1)'
    <3>1. words' = words /\ WordsUpTo(n) /\ n + 1 \notin Reads
      BY <1>3, <1>4, <1>7, <2>2 DEF Reads
    <3>. QED BY <1>2, <1>3, <3>1, SkipWord
  <2>4. Collected' = n + 1 BY <1>4, <1>7, <2>1, <2>2 DEF Collected, Served, Working
  <2>5. WordsUpTo(Collected)' BY <2>3, <2>4
  <2>6. /\ ~post_read' /\ post_read' \in BOOLEAN /\ check_write'
        /\ words' \in Seq(1 .. Len(reqs))
    BY <1>3, <1>4, <1>7 DEF TypeOK
  <2>. QED BY <1>2, <1>6, <1>7, <2>5, <2>6, ServedStep
<1>. QED BY <1>1, <1>6, <1>7

(* A posted read's value arrives with the next access port read, or from    *)
(* RDBUFF, and the request that made it arrive is served after it.          *)
LEMMA FlushStep == TInv /\ Flush => TInv'
<1> SUFFICES ASSUME TInv, Flush PROVE TInv'
  OBVIOUS
<1> USE SequenceTypes
<1> DEFINE access == IF IsAPRead(reqs[i]) THEN "APRead" ELSE "RDBUFF"
           Posted == /\ IsAPRead(reqs[i]) /\ Complete /\ check_write' = FALSE
                     /\ UNCHANGED <<match_retry, post_read, mismatch>>
           Freed == /\ ~IsAPRead(reqs[i]) /\ Proceed(reqs[i]) /\ post_read' = FALSE
<1>1. PICK ack \in Acks :
        /\ SWD_Transfer(access, i, ack)
        /\ \/ Retry(ack)
           \/ Fail(ack)
           \/ /\ ack = "OK" /\ Store(Data(access, i)) /\ i' = i
              /\ Posted \/ Freed
  BY Zenon DEF Flush
<1>2. pc = "flush" /\ UNCHANGED <<config, reqs>> BY DEF Flush
<1>3. TypeOK /\ PlaceInv /\ PostInv /\ WordsInv /\ DoneInv BY DEF TInv
<1>4. /\ pc \in Busy /\ i \in 1 .. Len(reqs) /\ Served = i - 1 /\ Reached = i - 1
      /\ response_count = i - 1 /\ post_read
      /\ i - 1 >= 1 /\ IsAPRead(reqs[i - 1]) /\ rdbuff = i - 1
  BY <1>2, <1>3 DEF Busy, Working, Served, Reached, PlaceInv, PostInv
<1>5. PICK n \in Nat : n = i - 1 /\ n + 1 = i BY <1>3, <1>4
<1>6. PICK m \in Nat : m = n - 1 /\ m + 1 = n BY <1>4, <1>5
<1>7. WordsUpTo(m) BY <1>3, <1>4, <1>5, <1>6 DEF WordsInv, Collected
<1>8. /\ debug_port' = debug_port /\ retry_count' = retry_count /\ reqs' = reqs
      /\ match_retry_count' = match_retry_count
  BY <1>2 DEF config
<1>9. \A k \in Performed : k \in Nat /\ k <= n BY <1>3, <1>4, <1>5 DEF DoneInv
<1>10. /\ PerformedOnce' /\ done' \in Seq(1 .. Len(reqs'))
       /\ rdbuff' \in 0 .. Len(reqs') /\ sticky' \in BOOLEAN
       /\ Performed \subseteq Performed' /\ Performed' \subseteq Performed \cup {i}
       /\ access = "RDBUFF" => Performed' = Performed
       /\ access = "APRead" /\ ack = "OK" => i \in Performed' /\ rdbuff' = i
       /\ access = "RDBUFF" /\ ack = "OK" => ~sticky'
  <2>1. \A k \in Performed : k <= i BY <1>5, <1>9
  <2>2. i \notin Performed BY <1>5, <1>9
  <2>3. access \in {"APRead", "RDBUFF"} OBVIOUS
  <2>. HIDE DEF access
  <2>. QED BY <1>1, <1>3, <1>4, <1>8, <2>1, <2>2, <2>3, TransferEffect DEF DoneInv
<1>11. Retry(ack) => TInv' BY <1>1, <1>2, RetryStep
<1>12. Fail(ack) => TInv'
  <2>1. \A k \in Performed' : k <= Served + 1 BY <1>3, <1>4, <1>5, <1>9, <1>10
  <2>. QED BY <1>2, <1>4, <1>10, <2>1, FailStep
<1>13. ASSUME Store(Data(access, i))
       PROVE  WordsUpTo(n)' /\ words' \in Seq(1 .. Len(reqs))
  <2>1. words' = Append(words, n) BY <1>4, <1>5, <1>13 DEF Store, Data
  <2>2. n \in Reads BY <1>3, <1>4, <1>5 DEF Reads, IsAPRead
  <2>3. words' = Append(words, m + 1) /\ m + 1 \in Reads BY <1>6, <2>1, <2>2
  <2>4. WordsUpTo(m + 1)' /\ words' \in Seq(1 .. Len(reqs'))
    BY <1>3, <1>7, <1>8, <2>3, AppendWord
  <2>. QED BY <1>6, <1>8, <2>4
<1>14. \A k \in 1 .. n : reqs[k].op # "mask" => k \in Performed'
  BY <1>3, <1>4, <1>5, <1>10 DEF DoneInv
<1>15. CASE ack = "OK" /\ Store(Data(access, i)) /\ i' = i /\ Posted
  <2>1. access = "APRead" /\ IsAPRead(reqs[i]) BY <1>15
  <2>2. /\ pc' = "next" /\ retry' = retry_count /\ response_value' = "OK"
        /\ response_count' = i /\ i' = i /\ post_read' = post_read /\ ~check_write'
        /\ match_retry' = match_retry /\ mismatch' = mismatch
    BY <1>3, <1>4, <1>15 DEF Complete, Goto
  <2>3. TypeOK'
    <3>1. pc' \in Places /\ response_value' \in Acks \cup {"None"} BY <2>2 DEF Places, Acks
    <3>2. i' \in 0 .. Len(reqs) /\ response_count' \in 0 .. Len(reqs) BY <1>3, <1>4, <2>2
    <3>3. words' \in Seq(1 .. Len(reqs)) BY <1>13, <1>15
    <3>4. check_write' \in BOOLEAN BY <1>15
    <3>. HIDE DEF Posted, Freed, access
    <3>. QED BY <1>3, <1>8, <1>10, <2>2, <3>1, <3>2, <3>3, <3>4 DEF TypeOK
  <2>4. Served' = i /\ Reached' = i /\ Collected' = n
    BY <1>4, <1>5, <2>2 DEF Served, Reached, Collected, Working
  <2>5. PlaceInv' BY <2>2, <2>4 DEF PlaceInv, Working, Last, Block
  <2>6. PostInv'
    BY <1>3, <1>4, <1>5, <1>8, <1>10, <1>15, <2>1, <2>2, <2>4 DEF PostInv
  <2>7. WordsInv'
    <3>1. n \in 0 .. Len(reqs') /\ WordsUpTo(n)' BY <1>3, <1>4, <1>5, <1>8, <1>13, <1>15
    <3>. QED BY <2>4, <3>1 DEF WordsInv
  <2>8. DoneInv'
    <3>1. \A k \in 1 .. i : reqs[k].op # "mask" => k \in Performed'
      <4>1. \A k \in 1 .. i : k = i \/ k \in 1 .. n BY <1>5
      <4>. QED BY <1>10, <1>14, <1>15, <2>1, <4>1
    <3>2. \A k \in Performed' : k <= i BY <1>4, <1>5, <1>9, <1>10
    <3>. QED BY <1>8, <1>10, <2>2, <2>4, <3>1, <3>2 DEF DoneInv
  <2>9. ErrorInv' BY <1>4, <2>2 DEF ErrorInv
  <2>10. IdleInv' /\ AnswerHolds' /\ ErrorsReported'
    BY <2>2 DEF IdleInv, AnswerHolds, ErrorsReported
  <2>. QED BY <2>3, <2>5, <2>6, <2>7, <2>8, <2>9, <2>10 DEF TInv
<1>16. CASE ack = "OK" /\ Store(Data(access, i)) /\ i' = i /\ Freed
  <2>1. access = "RDBUFF" /\ Proceed(reqs[n + 1]) BY <1>5, <1>16
  <2>2. ~sticky' /\ Performed' = Performed BY <1>10, <1>16, <2>1
  <2>3. n < Len(reqs) /\ i' = n + 1 /\ response_count = n BY <1>3, <1>4, <1>5, <1>16
  <2>3a. ~post_read' /\ post_read' \in BOOLEAN BY <1>16, Zenon
  <2>4. \A k \in Performed' : k <= n BY <1>9, <2>2
  <2>5. WordsUpTo(n)' /\ words' \in Seq(1 .. Len(reqs)) BY <1>13, <1>16
  <2>6. done' \in Seq(1 .. Len(reqs)) /\ rdbuff' \in 0 .. Len(reqs) BY <1>8, <1>10
  <2>. HIDE DEF Posted, Freed, access
  <2>. QED BY <1>2, <1>5, <1>10, <1>14, <2>1, <2>2, <2>3, <2>3a, <2>4, <2>5, <2>6, ProceedStep
<1>. HIDE DEF Posted, Freed, access
<1>. QED BY <1>1, <1>11, <1>12, <1>15, <1>16

-----------------------------------------------------------------------------
(* The end of DAP_Transfer: the last posted read, or the last write's fate. *)

LEMMA ConcludeStep == TInv /\ Conclude => TInv'
<1> SUFFICES ASSUME TInv, Conclude PROVE TInv'
  OBVIOUS
<1> USE SequenceTypes
<1>1. TypeOK /\ PlaceInv /\ PostInv /\ WordsInv /\ DoneInv /\ ErrorInv BY DEF TInv
<1>2. /\ pc = "next" /\ i = Len(reqs)
      /\ Goto(CASE response_value = "OK" /\ post_read -> "lastRead"
               [] response_value = "OK" /\ ~post_read /\ check_write -> "lastWrite"
               [] OTHER -> "end")
      /\ UNCHANGED <<config, reqs, i, match_retry, flags, answer, target>>
  BY DEF Conclude
<1>3. /\ debug_port' = debug_port /\ retry_count' = retry_count /\ reqs' = reqs
      /\ match_retry_count' = match_retry_count /\ i' = i
      /\ match_retry' = match_retry /\ post_read' = post_read /\ words' = words
      /\ check_write' = check_write /\ response_count' = response_count
      /\ response_value' = response_value /\ mismatch' = mismatch
      /\ rdbuff' = rdbuff /\ sticky' = sticky /\ done' = done /\ retry' = retry_count
  BY <1>2 DEF config, flags, answer, target, Goto
<1>4. \/ pc' = "lastRead" /\ post_read
      \/ pc' = "lastWrite" /\ ~post_read /\ check_write
      \/ pc' = "end" /\ ~(response_value = "OK" /\ (post_read \/ check_write))
  BY <1>2 DEF Goto
<1>5. pc \in Busy /\ Served = i /\ Reached = i /\ response_count = i
  BY <1>1, <1>2 DEF Busy, Served, Reached, Working, PlaceInv
<1>6. /\ Reads' = Reads /\ Performed' = Performed /\ PerformedOnce'
      /\ \A n : WordsUpTo(n)' <=> WordsUpTo(n)
  BY <1>1, <1>3 DEF Reads, Performed, PerformedOnce, Once, DoneInv, WordsUpTo
<1>7. TypeOK' BY <1>1, <1>3, <1>4 DEF TypeOK, Places
<1>8. CASE pc' # "end"
  <2>1. /\ pc' \in Last /\ pc' \notin {"end", "idle", "next", "flush", "match"}
        /\ pc' \notin Working \cup Block
        /\ \/ pc' = "lastRead" /\ post_read
           \/ pc' = "lastWrite" /\ ~post_read
    BY <1>4, <1>8 DEF Last, Working, Block
  <2>2. Served' = Served /\ Reached' = Reached /\ Collected' = Collected
    BY <1>3, <1>5, <2>1 DEF Served, Reached, Collected, Block
  <2>3. PlaceInv' BY <1>2, <1>3, <1>5, <2>1, <2>2 DEF PlaceInv, Block
  <2>4. PostInv'
    <3>1. post_read => Served >= 1 /\ IsAPRead(reqs[Served]) /\ rdbuff = Served
      BY <1>1, <1>5 DEF PostInv
    <3>. QED BY <1>3, <2>1, <2>2, <3>1 DEF PostInv
  <2>5. WordsInv' BY <1>1, <1>3, <1>5, <1>6, <2>2 DEF WordsInv
  <2>6. DoneInv' BY <1>1, <1>3, <1>5, <1>6, <2>1, <2>2 DEF DoneInv, Block
  <2>7. IdleInv' /\ AnswerHolds' /\ ErrorsReported' /\ ErrorInv'
    BY <2>1 DEF IdleInv, AnswerHolds, ErrorsReported, ErrorInv
  <2>. QED BY <1>7, <2>3, <2>4, <2>5, <2>6, <2>7 DEF TInv
<1>9. CASE pc' = "end" /\ ~Succeeded
  <2>1. ~Succeeded' BY <1>3, <1>9 DEF Succeeded
  <2>2. \A k \in Performed' : k <= Served + 1
    BY <1>1, <1>5, <1>6 DEF DoneInv
  <2>. QED BY <1>3, <1>5, <1>6, <1>7, <1>9, <2>1, <2>2, EndFailed
<1>10. CASE pc' = "end" /\ Succeeded
  <2>1. ~post_read /\ ~check_write BY <1>4, <1>10 DEF Succeeded
  <2>2. WordsUpTo(Len(reqs)) BY <1>1, <1>2, <1>5, <2>1 DEF WordsInv, Collected
  <2>3. Len(words) = Cardinality({k \in Reads : k <= Len(reqs)})
    <3>1. Len(reqs) \in 0 .. Len(reqs) BY <1>1
    <3>. QED BY <1>1, <2>2, <3>1, Counting
  <2>4. \A k \in DOMAIN reqs : reqs[k].op # "mask" => k \in Performed'
    BY <1>1, <1>2, <1>5, <1>6 DEF DoneInv
  <2>5. ErrorsReported'
    <3>1. sticky => ~Pending(Len(reqs)) BY <1>1, <1>2, <2>1 DEF ErrorInv
    <3>2. DOMAIN reqs = 1 .. Len(reqs) BY <1>1
    <3>. QED BY <1>3, <3>1, <3>2 DEF ErrorsReported, Pending
  <2>6. response_count' = Len(reqs) /\ Len(words') = Len(words) /\ WordsUpTo(Len(reqs))'
    BY <1>2, <1>3, <1>5, <1>6, <2>2 DEF WordsUpTo
  <2>. QED BY <1>1, <1>3, <1>6, <1>7, <1>10, <2>3, <2>4, <2>5, <2>6, EndSucceeded
<1>. QED BY <1>8, <1>9, <1>10

(* The transfers of RDBUFF change nothing at the target.                    *)
LEMMA LastTransfer ==
  ASSUME TInv, pc \in Last, NEW ack \in Acks, SWD_Transfer("RDBUFF", i, ack),
         UNCHANGED <<config, reqs>>
  PROVE  /\ PerformedOnce' /\ done' \in Seq(1 .. Len(reqs'))
         /\ rdbuff' \in 0 .. Len(reqs') /\ sticky' \in BOOLEAN
         /\ Performed' = Performed /\ rdbuff' = rdbuff
         /\ ack = "OK" => ~sticky'
         /\ Retry(ack) => TInv'
         /\ Fail(ack) => TInv'
<1>1. TypeOK /\ PlaceInv /\ DoneInv BY DEF TInv
<1>2. /\ PerformedOnce' /\ done' \in Seq(1 .. Len(reqs'))
      /\ rdbuff' \in 0 .. Len(reqs') /\ sticky' \in BOOLEAN
      /\ Performed \subseteq Performed' /\ Performed' = Performed /\ rdbuff' = rdbuff
      /\ ack = "OK" => ~sticky'
  BY <1>1, TransferEffect DEF DoneInv
<1>3. pc \in Busy /\ Served = i /\ Reached = i
  BY DEF Last, Busy, Served, Reached, Working
<1>4. \A k \in Performed' : k <= Served + 1
  BY <1>1, <1>2, <1>3, SequenceTypes DEF DoneInv
<1>5. Retry(ack) => TInv' BY RetryStep
<1>6. Fail(ack) => TInv' BY <1>2, <1>3, <1>4, FailStep
<1>. QED BY <1>2, <1>5, <1>6

LEMMA LastReadStep == TInv /\ LastRead => TInv'
<1> SUFFICES ASSUME TInv, LastRead PROVE TInv'
  OBVIOUS
<1> USE SequenceTypes
<1>1. PICK ack \in Acks :
        /\ SWD_Transfer("RDBUFF", i, ack)
        /\ \/ Retry(ack)
           \/ Fail(ack)
           \/ /\ ack = "OK" /\ Store(Data("RDBUFF", i))
              /\ pc' = "end" /\ response_value' = ack
              /\ UNCHANGED <<i, retry, match_retry, flags, response_count, mismatch>>
  BY DEF LastRead
<1>2. pc = "lastRead" /\ pc \in Last /\ UNCHANGED <<config, reqs>> BY DEF LastRead, Last
<1>3. TypeOK /\ PlaceInv /\ PostInv /\ WordsInv /\ DoneInv BY DEF TInv
<1>4. /\ PerformedOnce' /\ done' \in Seq(1 .. Len(reqs'))
      /\ rdbuff' \in 0 .. Len(reqs') /\ sticky' \in BOOLEAN
      /\ Performed' = Performed
      /\ ack = "OK" => ~sticky'
      /\ Retry(ack) => TInv'
      /\ Fail(ack) => TInv'
  BY <1>1, <1>2, LastTransfer
<1>5. CASE /\ ack = "OK" /\ Store(Data("RDBUFF", i))
           /\ pc' = "end" /\ response_value' = ack
           /\ UNCHANGED <<i, retry, match_retry, flags, response_count, mismatch>>
  <2>1. /\ debug_port' = debug_port /\ retry_count' = retry_count /\ reqs' = reqs
        /\ match_retry_count' = match_retry_count /\ i' = i /\ retry' = retry
        /\ match_retry' = match_retry /\ post_read' = post_read /\ mismatch' = mismatch
        /\ check_write' = check_write /\ response_count' = response_count
        /\ response_value' = "OK"
    BY <1>2, <1>5 DEF config, flags
  <2>2. /\ pc \in Busy /\ Served = i /\ Reached = i /\ i = Len(reqs) /\ post_read
        /\ response_count = i /\ i >= 1 /\ IsAPRead(reqs[i]) /\ rdbuff = i
    BY <1>2, <1>3 DEF Last, Busy, Served, Reached, Working, PlaceInv, PostInv
  <2>2a. i \in Nat /\ i \in 1 .. Len(reqs) BY <1>3, <2>2
  <2>3. PICK n \in Nat : n = i - 1 /\ n + 1 = i BY <2>2a
  <2>4. WordsUpTo(n) BY <1>3, <2>2, <2>3 DEF WordsInv, Collected
  <2>5. n + 1 \in Reads BY <1>3, <2>2, <2>3 DEF Reads, IsAPRead
  <2>6. words' = Append(words, n + 1) BY <1>5, <2>2, <2>3 DEF Store, Data
  <2>7. /\ WordsUpTo(n + 1)' /\ words' \in Seq(1 .. Len(reqs'))
        /\ Len(words') = Len(words) + 1
    BY <1>3, <2>1, <2>4, <2>5, <2>6, AppendWord
  <2>8. Len(words') = Cardinality({k \in Reads : k <= n + 1})
    <3>1. Len(words) = Cardinality({k \in Reads : k <= n + 1}) - 1
      BY <1>3, <2>4, <2>5, CountingPosted
    <3>2. IsFiniteSet({k \in Reads : k <= n + 1})
      <4>1. IsFiniteSet(1 .. Len(reqs)) BY <1>3, FS_Interval
      <4>2. {k \in Reads : k <= n + 1} \in SUBSET (1 .. Len(reqs)) BY <1>3 DEF Reads
      <4>. QED BY <4>1, <4>2, FS_Subset
    <3>3. Cardinality({k \in Reads : k <= n + 1}) \in Nat BY <3>2, FS_CardinalityType
    <3>. QED BY <1>3, <2>7, <3>1, <3>3
  <2>9. TypeOK' BY <1>3, <1>4, <1>5, <2>1, <2>7 DEF TypeOK, Places, Acks
  <2>10. \A k \in DOMAIN reqs : reqs[k].op # "mask" => k \in Performed'
    BY <1>3, <1>4, <2>2 DEF DoneInv
  <2>11. ErrorsReported' BY <1>4, <1>5 DEF ErrorsReported
  <2>12. n + 1 = Len(reqs) /\ response_count' = Len(reqs) BY <2>1, <2>2, <2>3
  <2>13. WordsUpTo(Len(reqs))'
    BY <2>1, <2>7, <2>12
  <2>14. Len(words') = Cardinality({k \in Reads : k <= Len(reqs)}) BY <2>8, <2>12
  <2>. QED BY <1>3, <1>4, <1>5, <2>1, <2>9, <2>10, <2>11, <2>12, <2>13, <2>14, EndSucceeded
<1>. QED BY <1>1, <1>4, <1>5

LEMMA LastWriteStep == TInv /\ LastWrite => TInv'
<1> SUFFICES ASSUME TInv, LastWrite PROVE TInv'
  OBVIOUS
<1> USE SequenceTypes
<1>1. PICK ack \in Acks :
        /\ SWD_Transfer("RDBUFF", i, ack)
        /\ \/ Retry(ack)
           \/ /\ ~MayRetry(ack)
              /\ pc' = "end" /\ response_value' = ack
              /\ UNCHANGED <<i, retry, match_retry, flags, response_count, mismatch, words>>
  BY DEF LastWrite
<1>2. pc = "lastWrite" /\ pc \in Last /\ UNCHANGED <<config, reqs>> BY DEF LastWrite, Last
<1>3. TypeOK /\ PlaceInv /\ PostInv /\ WordsInv /\ DoneInv BY DEF TInv
<1>4. /\ PerformedOnce' /\ done' \in Seq(1 .. Len(reqs'))
      /\ rdbuff' \in 0 .. Len(reqs') /\ sticky' \in BOOLEAN
      /\ Performed' = Performed
      /\ ack = "OK" => ~sticky'
      /\ Retry(ack) => TInv'
  BY <1>1, <1>2, LastTransfer
<1>5. CASE /\ pc' = "end" /\ response_value' = ack
           /\ UNCHANGED <<i, retry, match_retry, flags, response_count, mismatch, words>>
  <2>1. /\ debug_port' = debug_port /\ retry_count' = retry_count /\ reqs' = reqs
        /\ match_retry_count' = match_retry_count /\ i' = i /\ retry' = retry
        /\ match_retry' = match_retry /\ post_read' = post_read /\ mismatch' = mismatch
        /\ check_write' = check_write /\ response_count' = response_count
        /\ response_value' = ack /\ words' = words
    BY <1>2, <1>5 DEF config, flags
  <2>2. /\ pc \in Busy /\ Served = i /\ Reached = i /\ i = Len(reqs) /\ ~post_read
        /\ response_count = i
    BY <1>2, <1>3 DEF Last, Busy, Served, Reached, Working, PlaceInv, PostInv
  <2>3. TypeOK' BY <1>3, <1>4, <1>5, <2>1 DEF TypeOK, Places
  <2>4. CASE ack # "OK"
    <3>1. ~Succeeded' BY <2>1, <2>4 DEF Succeeded
    <3>2. \A k \in Performed' : k <= Served + 1 BY <1>3, <1>4, <2>2 DEF DoneInv
    <3>. QED BY <1>4, <1>5, <2>1, <2>2, <2>3, <3>1, <3>2, EndFailed
  <2>5. CASE ack = "OK"
    <3>1. WordsUpTo(Len(reqs)) BY <1>3, <2>2 DEF WordsInv, Collected
    <3>2. Len(words) = Cardinality({k \in Reads : k <= Len(reqs)}) BY <1>3, <3>1, Counting
    <3>3. \A k \in DOMAIN reqs : reqs[k].op # "mask" => k \in Performed'
      BY <1>3, <1>4, <2>2 DEF DoneInv
    <3>4. ErrorsReported' BY <1>4, <2>5 DEF ErrorsReported
    <3>5. response_count' = Len(reqs) /\ Len(words') = Len(words) /\ WordsUpTo(Len(reqs))'
      BY <2>1, <2>2, <3>1 DEF WordsUpTo, Reads
    <3>. QED BY <1>3, <1>4, <1>5, <2>1, <2>3, <3>2, <3>3, <3>4, <3>5, EndSucceeded
  <2>. QED BY <2>4, <2>5
<1>. QED BY <1>1, <1>4, <1>5

-----------------------------------------------------------------------------
(* DAP_TransferBlock: every request is the same.                            *)

(* What a block has done while it runs.                                     *)
LEMMA InBlock ==
  ASSUME TInv, pc \in Block
  PROVE  /\ i + 1 \in 1 .. Len(reqs) /\ Served = i /\ response_count = i /\ ~post_read
         /\ pc \in Busy /\ WordsUpTo(i) /\ reqs[1] \in Requests
         /\ \A k \in 1 .. Len(reqs) : reqs[k] = reqs[1]
         /\ \A k \in 1 .. i : k \in Performed
         /\ pc = "blockPost" => Performed = {} /\ i = 0
         /\ pc = "blockRead" /\ reqs[1].port = "AP" =>
              /\ i + 1 \in Performed /\ rdbuff = i + 1
              /\ \A k \in Performed : k <= i + 1
         /\ pc = "blockWrite" \/ (pc = "blockRead" /\ reqs[1].port # "AP") =>
              \A k \in Performed : k <= i
<1> USE SequenceTypes
<1>1. TypeOK /\ PlaceInv /\ PostInv /\ WordsInv /\ DoneInv BY DEF TInv
<1>2. /\ pc \in Busy /\ pc \notin Working \cup {"next", "lastRead"} /\ Served = i
  BY DEF Busy, Block, Working, Served
<1>3. /\ i < Len(reqs) /\ \A k \in DOMAIN reqs : reqs[k] = reqs[1]
      /\ reqs[1].op \in {"read", "write"}
  BY <1>1 DEF PlaceInv
<1>4. ~post_read BY <1>1, <1>2 DEF PostInv, Working
<1>5. WordsUpTo(i) BY <1>1, <1>2, <1>4 DEF WordsInv, Collected
<1>6. i + 1 \in 1 .. Len(reqs) /\ response_count = i BY <1>1, <1>2, <1>3 DEF PlaceInv
<1>7. ASSUME NEW k \in 1 .. i PROVE k \in Performed
  <2>1. k \in 1 .. Len(reqs) /\ k \in 1 .. Served BY <1>1, <1>2, <1>3
  <2>2. reqs[k].op # "mask" BY <1>1, <1>3, <2>1
  <2>. QED BY <1>1, <1>2, <2>1, <2>2 DEF DoneInv
<1>8. pc = "blockPost" => Performed = {} /\ i = 0 BY <1>1 DEF DoneInv, PlaceInv
<1>9. \A k \in Performed : k <= Reached BY <1>1, <1>2 DEF DoneInv
<1>10. /\ pc = "blockRead" /\ reqs[1].port = "AP" => Reached = i + 1
       /\ pc = "blockWrite" \/ (pc = "blockRead" /\ reqs[1].port # "AP") => Reached = i
  BY <1>2 DEF Reached
<1>11. pc = "blockRead" /\ reqs[1].port = "AP" => i + 1 \in Performed /\ rdbuff = i + 1
  BY <1>1 DEF DoneInv, PlaceInv
<1>12. reqs[1] \in Requests BY <1>1, <1>6
<1>. QED BY <1>1, <1>2, <1>3, <1>4, <1>5, <1>6, <1>7, <1>8, <1>9, <1>10, <1>11, <1>12

(* One more request of a block is served, and there is another.             *)
LEMMA BlockServed ==
  ASSUME TInv, pc \in Block, UNCHANGED <<config, reqs, match_retry, flags, mismatch>>,
         NEW place \in {"blockRead", "blockWrite"}, Goto(place),
         place = "blockWrite" <=> reqs[1].op = "write",
         NEW n \in Nat, n < Len(reqs), i' = n, response_count' = n,
         response_value' = "OK",
         PerformedOnce', done' \in Seq(1 .. Len(reqs')), rdbuff' \in 0 .. Len(reqs'),
         sticky' \in BOOLEAN, \A k \in 1 .. n : k \in Performed',
         words' \in Seq(1 .. Len(reqs)), WordsUpTo(n)',
         IF place = "blockRead" /\ reqs[1].port = "AP"
         THEN n + 1 \in Performed' /\ rdbuff' = n + 1 /\ \A k \in Performed' : k <= n + 1
         ELSE \A k \in Performed' : k <= n
  PROVE  TInv'
<1> USE SequenceTypes
<1>1. /\ debug_port' = debug_port /\ retry_count' = retry_count /\ reqs' = reqs
      /\ match_retry_count' = match_retry_count /\ retry' = retry_count /\ pc' = place
      /\ match_retry' = match_retry /\ post_read' = post_read /\ mismatch' = mismatch
      /\ check_write' = check_write
  BY DEF config, flags, Goto
<1>2. TypeOK /\ PlaceInv BY DEF TInv
<1>3. /\ ~post_read /\ reqs[1] \in Requests /\ \A k \in 1 .. Len(reqs) : reqs[k] = reqs[1]
  BY InBlock
<1>4. reqs[1].op \in {"read", "write"} BY <1>2 DEF PlaceInv
<1>5. pc' \in Places /\ pc' \in Block /\ pc' \notin {"next", "idle", "end", "flush", "match"}
  BY <1>1 DEF Places, Block
<1>6. pc' \notin Working \cup Last BY <1>1 DEF Working, Last
<1>7. TypeOK'
  <2>1. i' \in 0 .. Len(reqs) /\ response_count' \in 0 .. Len(reqs) BY <1>2
  <2>2. response_value' \in Acks \cup {"None"} BY DEF Acks
  <2>3. retry' \in 0 .. MaxRetry BY <1>1, <1>2 DEF TypeOK
  <2>. QED BY <1>1, <1>2, <1>5, <2>1, <2>2, <2>3 DEF TypeOK
<1>8. /\ Served' = n /\ Collected' = n
      /\ Reached' = IF place = "blockRead" /\ reqs[1].port = "AP" THEN n + 1 ELSE n
  BY <1>1, <1>3, <1>5, <1>6 DEF Served, Collected, Reached
<1>9. PlaceInv' BY <1>1, <1>2, <1>3, <1>4, <1>5, <1>6, <1>8 DEF PlaceInv
<1>10. PostInv' BY <1>1, <1>3, <1>5, <1>6 DEF PostInv
<1>11. WordsInv'
  <2>1. n \in 0 .. Len(reqs') BY <1>1, <1>2
  <2>. QED BY <1>8, <2>1 DEF WordsInv
<1>12. DoneInv' BY <1>1, <1>8 DEF DoneInv
<1>13. IdleInv' /\ AnswerHolds' /\ ErrorsReported' /\ ErrorInv'
  BY <1>5 DEF IdleInv, AnswerHolds, ErrorsReported, ErrorInv
<1>. QED BY <1>7, <1>9, <1>10, <1>11, <1>12, <1>13 DEF TInv

LEMMA BlockPostStep == TInv /\ BlockPost => TInv'
<1> SUFFICES ASSUME TInv, BlockPost PROVE TInv'
  OBVIOUS
<1> USE SequenceTypes
<1>1. PICK ack \in Acks :
        /\ SWD_Transfer("APRead", 1, ack)
        /\ \/ Retry(ack)
           \/ Fail(ack)
           \/ /\ ack = "OK" /\ Goto("blockRead") /\ response_value' = ack
              /\ UNCHANGED <<i, match_retry, flags, response_count, mismatch, words>>
  BY DEF BlockPost
<1>2. pc = "blockPost" /\ pc \in Block /\ UNCHANGED <<config, reqs>> /\ reqs' = reqs
  BY DEF BlockPost, Block
<1>3. TypeOK /\ IsAPRead(reqs[1]) /\ PerformedOnce BY <1>2 DEF TInv, PlaceInv, DoneInv
<1>4. /\ i = 0 /\ Performed = {} /\ 1 \in 1 .. Len(reqs) /\ Served = 0 /\ WordsUpTo(0)
      /\ response_count = 0 /\ pc \in Busy
  BY <1>2, InBlock
<1>5. /\ PerformedOnce' /\ done' \in Seq(1 .. Len(reqs'))
      /\ rdbuff' \in 0 .. Len(reqs') /\ sticky' \in BOOLEAN
      /\ Performed' \subseteq {1}
      /\ ack = "OK" => 1 \in Performed' /\ rdbuff' = 1
  BY <1>1, <1>2, <1>3, <1>4, TransferEffect
<1>6. Retry(ack) => TInv' BY <1>1, <1>2, RetryStep
<1>7. Fail(ack) => TInv'
  <2>1. \A k \in Performed' : k <= Served + 1 BY <1>4, <1>5
  <2>. QED BY <1>2, <1>4, <1>5, <2>1, FailStep
<1>8. CASE ack = "OK" /\ Goto("blockRead") /\ response_value' = ack
           /\ UNCHANGED <<i, match_retry, flags, response_count, mismatch, words>>
  <2>1. 0 < Len(reqs) /\ i' = 0 /\ response_count' = 0 BY <1>3, <1>4, <1>8
  <2>2. words' \in Seq(1 .. Len(reqs)) /\ WordsUpTo(0)'
    BY <1>2, <1>3, <1>4, <1>8 DEF TypeOK, WordsUpTo, Reads
  <2>3. reqs[1].op # "write" /\ reqs[1].port = "AP" BY <1>3 DEF IsAPRead
  <2>4. 0 + 1 \in Performed' /\ rdbuff' = 0 + 1 /\ \A k \in Performed' : k <= 0 + 1
    BY <1>5, <1>8
  <2>5. \A k \in 1 .. 0 : k \in Performed' OBVIOUS
  <2>. QED BY <1>2, <1>5, <1>8, <2>1, <2>2, <2>3, <2>4, <2>5, BlockServed
<1>. QED BY <1>1, <1>6, <1>7, <1>8

LEMMA BlockReadStep == TInv /\ BlockRead => TInv'
<1> SUFFICES ASSUME TInv, BlockRead PROVE TInv'
  OBVIOUS
<1> USE SequenceTypes
<1>1. PICK n, access, by :
        /\ n = i + 1 /\ access = BlockAccess(n)
        /\ by = IF reqs[1].port = "AP" THEN n + 1 ELSE n
  OBVIOUS
<1>2. PICK ack \in Acks :
        /\ SWD_Transfer(access, by, ack)
        /\ \/ Retry(ack)
           \/ Fail(ack)
           \/ /\ ack = "OK" /\ Store(Data(access, by))
              /\ i' = n /\ response_count' = n /\ response_value' = ack
              /\ Goto(IF n = Len(reqs) THEN "end" ELSE "blockRead")
              /\ UNCHANGED <<match_retry, flags, mismatch>>
  BY <1>1, Zenon DEF BlockRead
<1>3. pc = "blockRead" /\ pc \in Block /\ UNCHANGED <<config, reqs>> /\ reqs' = reqs
  BY DEF BlockRead, Block
<1>4. TypeOK /\ PerformedOnce /\ reqs[1].op = "read" /\ (reqs[1].port = "AP" => rdbuff = n)
  BY <1>1, <1>3 DEF TInv, PlaceInv, DoneInv
<1>5. /\ n \in 1 .. Len(reqs) /\ Served = i /\ response_count = i /\ ~post_read
      /\ pc \in Busy /\ WordsUpTo(i) /\ reqs[1] \in Requests
      /\ \A k \in 1 .. Len(reqs) : reqs[k] = reqs[1]
      /\ \A k \in 1 .. i : k \in Performed
  BY <1>1, <1>3, InBlock
<1>6. i \in Nat /\ \A k \in Performed : k \in Nat BY <1>4
<1>6a. Len(reqs) \in Nat BY <1>4
<1>6b. n \in Nat /\ n <= Len(reqs) BY <1>5, <1>6a
<1>7. /\ reqs[1].port = "AP" => n \in Performed /\ \A k \in Performed : k <= n
      /\ reqs[1].port # "AP" => \A k \in Performed : k <= i
  BY <1>1, <1>3, InBlock
<1>8. reqs[1].port \in {"AP", "DP"} BY <1>4, <1>5, RequestForms
<1>9. \/ reqs[1].port = "AP" /\ access = "RDBUFF" /\ n = Len(reqs)
      \/ reqs[1].port = "AP" /\ access = "APRead" /\ n < Len(reqs) /\ by = n + 1
      \/ reqs[1].port = "DP" /\ access = "DPRead" /\ by = n
  <2>1. Access(reqs[1]) = IF reqs[1].port = "AP" THEN "APRead" ELSE "DPRead"
    BY <1>4, <1>8 DEF Access
  <2>2. n <= Len(reqs) /\ n \in Nat BY <1>4, <1>5
  <2>. QED BY <1>1, <1>4, <1>8, <2>1, <2>2 DEF BlockAccess
<1>10. access # "RDBUFF" =>
         /\ by \in 1 .. Len(reqs) /\ \A k \in Performed : k <= by
         /\ by \notin Performed
  <2>1. CASE access = "APRead"
    <3>1. reqs[1].port = "AP" /\ n < Len(reqs) /\ by = n + 1 BY <1>9, <2>1
    <3>. QED BY <1>4, <1>5, <1>6, <1>7, <3>1
  <2>2. CASE access = "DPRead"
    <3>1. reqs[1].port # "AP" /\ by = n BY <1>9, <2>2
    <3>. QED BY <1>1, <1>4, <1>5, <1>6, <1>7, <3>1
  <2>. QED BY <1>9, <2>1, <2>2
<1>11. /\ PerformedOnce' /\ done' \in Seq(1 .. Len(reqs'))
       /\ rdbuff' \in 0 .. Len(reqs') /\ sticky' \in BOOLEAN
       /\ Performed \subseteq Performed' /\ Performed' \subseteq Performed \cup {by}
       /\ access = "RDBUFF" => Performed' = Performed
       /\ access # "RDBUFF" /\ ack = "OK" => by \in Performed'
       /\ access # "APRead" => rdbuff' = rdbuff
       /\ access = "APRead" /\ ack = "OK" => rdbuff' = by
       /\ access = "RDBUFF" /\ ack = "OK" => ~sticky'
  BY <1>2, <1>3, <1>4, <1>9, <1>10, TransferEffect
<1>12. Retry(ack) => TInv' BY <1>2, <1>3, RetryStep
<1>13. Fail(ack) => TInv'
  <2>1. ASSUME NEW k \in Performed'
        PROVE  k <= Served + 1 \/ (pc = "blockRead" /\ reqs[1].port = "AP" /\ k <= i + 2)
    <3>1. k \in Performed \/ (k = by /\ access # "RDBUFF") BY <1>11, <2>1
    <3>2. CASE reqs[1].port = "AP"
      <4>1. k <= n + 1 BY <1>5, <1>6, <1>7, <1>9, <3>1, <3>2
      <4>. QED BY <1>1, <1>3, <1>6, <3>2, <4>1
    <3>3. CASE reqs[1].port # "AP"
      <4>1. k <= n BY <1>1, <1>5, <1>6, <1>7, <1>9, <3>1, <3>3
      <4>. QED BY <1>1, <1>5, <4>1
    <3>. QED BY <3>2, <3>3
  <2>. QED BY <1>3, <1>5, <1>11, <2>1, FailStep
<1>14. CASE /\ ack = "OK" /\ Store(Data(access, by))
            /\ i' = n /\ response_count' = n /\ response_value' = ack
            /\ Goto(IF n = Len(reqs) THEN "end" ELSE "blockRead")
            /\ UNCHANGED <<match_retry, flags, mismatch>>
  <2>1. words' = Append(words, i + 1) BY <1>1, <1>4, <1>9, <1>14 DEF Store, Data
  <2>2. PICK m \in Nat : m = i /\ m + 1 = n BY <1>1, <1>6
  <2>3. m + 1 \in Reads BY <1>4, <1>5, <2>2 DEF Reads
  <2>4. /\ WordsUpTo(n)' /\ words' \in Seq(1 .. Len(reqs'))
        /\ Len(words') = Len(words) + 1
    <3>1. WordsUpTo(m) /\ words' = Append(words, m + 1) BY <1>5, <2>1, <2>2
    <3>2. /\ WordsUpTo(m + 1)' /\ words' \in Seq(1 .. Len(reqs'))
          /\ Len(words') = Len(words) + 1
      BY <1>3, <1>4, <2>3, <3>1, AppendWord
    <3>. QED BY <2>2, <3>2
  <2>5. \A k \in 1 .. n : k \in Performed'
    <3>1. n \in Performed' BY <1>7, <1>9, <1>11, <1>14
    <3>2. \A k \in 1 .. n : k = n \/ k \in 1 .. i BY <1>1, <1>5, <1>6
    <3>. QED BY <1>5, <1>11, <3>1, <3>2
  <2>6. CASE n = Len(reqs)
    <3>1. pc' = "end" /\ retry' = retry_count BY <1>14, <2>6 DEF Goto
    <3>2. /\ debug_port' = debug_port /\ retry_count' = retry_count
          /\ match_retry_count' = match_retry_count /\ i' = n /\ response_count' = n
          /\ match_retry' = match_retry /\ post_read' = post_read /\ mismatch' = mismatch
          /\ check_write' = check_write /\ response_value' = "OK"
      BY <1>3, <1>14 DEF config, flags
    <3>3. TypeOK'
      <4>1. i' \in 0 .. Len(reqs) /\ response_count' \in 0 .. Len(reqs)
        BY <1>4, <1>5, <3>2
      <4>. QED BY <1>3, <1>4, <1>11, <2>4, <3>1, <3>2, <4>1 DEF TypeOK, Places, Acks
    <3>4. ErrorsReported'
      <4>1. CASE reqs[1].port = "AP"
        <5>1. access = "RDBUFF" BY <1>4, <1>9, <2>6, <4>1
        <5>2. ~sticky' BY <1>11, <1>14, <5>1
        <5>. QED BY <5>2 DEF ErrorsReported
      <4>2. CASE reqs[1].port # "AP"
        <5>1. \A k \in DOMAIN reqs : reqs[k].op # "write" /\ ~IsAPRead(reqs[k])
          BY <1>4, <1>5, <4>2 DEF IsAPRead
        <5>. QED BY <1>3, <5>1 DEF ErrorsReported
      <4>. QED BY <4>1, <4>2
    <3>5. Len(words') = Cardinality({k \in Reads : k <= Len(reqs)})
      <4>1. WordsUpTo(m) BY <1>5, <2>2
      <4>2. Len(words) = Cardinality({k \in Reads : k <= m + 1}) - 1
        BY <1>4, <2>3, <4>1, CountingPosted
      <4>3. IsFiniteSet({k \in Reads : k <= m + 1})
        <5>1. IsFiniteSet(1 .. Len(reqs)) BY <1>6a, FS_Interval
        <5>2. {k \in Reads : k <= m + 1} \in SUBSET (1 .. Len(reqs)) BY <1>4 DEF Reads
        <5>. QED BY <5>1, <5>2, FS_Subset
      <4>4. Cardinality({k \in Reads : k <= m + 1}) \in Nat BY <4>3, FS_CardinalityType
      <4>5. Len(words') = Cardinality({k \in Reads : k <= m + 1}) BY <1>4, <2>4, <4>2, <4>4
      <4>. QED BY <2>2, <2>6, <4>5
    <3>6. \A k \in DOMAIN reqs : reqs[k].op # "mask" => k \in Performed'
      BY <1>4, <2>5, <2>6
    <3>7. response_count' = Len(reqs) /\ WordsUpTo(Len(reqs))'
      BY <1>3, <2>4, <2>6, <3>2
    <3>. QED BY <1>3, <1>4, <1>11, <3>1, <3>3, <3>4, <3>5, <3>6, <3>7, EndSucceeded
  <2>7. CASE n # Len(reqs)
    <3>1. n \in Nat /\ n < Len(reqs) BY <1>6a, <1>6b, <2>7
    <3>2. Goto("blockRead") BY <1>14, <2>7
    <3>3. IF reqs[1].port = "AP"
          THEN n + 1 \in Performed' /\ rdbuff' = n + 1 /\ \A k \in Performed' : k <= n + 1
          ELSE \A k \in Performed' : k <= n
      <4>1. CASE reqs[1].port = "AP"
        <5>1. access = "APRead" /\ by = n + 1 BY <1>9, <2>7, <4>1
        <5>2. \A k \in Performed' : k <= n + 1 BY <1>6, <1>7, <1>11, <3>1, <4>1, <5>1
        <5>. QED BY <1>11, <1>14, <4>1, <5>1, <5>2
      <4>2. CASE reqs[1].port # "AP"
        <5>1. by = n BY <1>9, <4>2
        <5>2. \A k \in Performed' : k <= n
          BY <1>1, <1>6, <1>7, <1>11, <3>1, <4>2, <5>1
        <5>. QED BY <4>2, <5>2
      <4>. QED BY <4>1, <4>2
    <3>4. /\ i' = n /\ response_count' = n /\ response_value' = "OK"
          /\ UNCHANGED <<config, reqs, match_retry, flags, mismatch>>
      BY <1>3, <1>14
    <3>5. words' \in Seq(1 .. Len(reqs)) BY <1>3, <2>4
    <3>6. "blockRead" = "blockWrite" <=> reqs[1].op = "write" BY <1>4
    <3>. QED BY <1>3, <1>11, <2>4, <2>5, <3>1, <3>2, <3>3, <3>4, <3>5, <3>6, BlockServed
  <2>. QED BY <2>6, <2>7
<1>. QED BY <1>2, <1>12, <1>13, <1>14

LEMMA BlockWriteStep == TInv /\ BlockWrite => TInv'
<1> SUFFICES ASSUME TInv, BlockWrite PROVE TInv'
  OBVIOUS
<1> USE SequenceTypes
<1>1. PICK n : n = i + 1 OBVIOUS
<1>2. PICK ack \in Acks :
        /\ SWD_Transfer(Access(reqs[1]), n, ack)
        /\ \/ Retry(ack)
           \/ Fail(ack)
           \/ /\ ack = "OK"
              /\ i' = n /\ response_count' = n /\ response_value' = ack
              /\ Goto(IF n = Len(reqs) THEN "lastWrite" ELSE "blockWrite")
              /\ UNCHANGED <<match_retry, flags, mismatch, words>>
  BY <1>1, Zenon DEF BlockWrite
<1>3. pc = "blockWrite" /\ pc \in Block /\ UNCHANGED <<config, reqs>> /\ reqs' = reqs
  BY DEF BlockWrite, Block
<1>4. TypeOK /\ PerformedOnce /\ reqs[1].op = "write"
  BY <1>3 DEF TInv, PlaceInv, DoneInv
<1>5. /\ n \in 1 .. Len(reqs) /\ Served = i /\ response_count = i /\ ~post_read
      /\ pc \in Busy /\ WordsUpTo(i) /\ reqs[1] \in Requests
      /\ \A k \in 1 .. Len(reqs) : reqs[k] = reqs[1]
      /\ \A k \in 1 .. i : k \in Performed
      /\ \A k \in Performed : k <= i
  BY <1>1, <1>3, InBlock
<1>6. i \in Nat /\ \A k \in Performed : k \in Nat BY <1>4
<1>7. \A k \in Performed : k <= n BY <1>1, <1>5, <1>6
<1>8. n \notin Performed BY <1>1, <1>5, <1>6
<1>9. Access(reqs[1]) \in {"APWrite", "DPWrite"}
  <2>1. reqs[1].port \in {"AP", "DP"} BY <1>4, <1>5, RequestForms
  <2>. QED BY <1>4, <2>1 DEF Access
<1>10. /\ PerformedOnce' /\ done' \in Seq(1 .. Len(reqs'))
       /\ rdbuff' \in 0 .. Len(reqs') /\ sticky' \in BOOLEAN
       /\ Performed \subseteq Performed' /\ Performed' \subseteq Performed \cup {n}
       /\ ack = "OK" => n \in Performed'
  BY <1>2, <1>3, <1>4, <1>5, <1>7, <1>8, <1>9, TransferEffect
<1>11. \A k \in Performed' : k <= n BY <1>5, <1>7, <1>10
<1>12. Retry(ack) => TInv' BY <1>2, <1>3, RetryStep
<1>13. Fail(ack) => TInv'
  <2>1. \A k \in Performed' : k <= Served + 1 BY <1>1, <1>5, <1>11
  <2>. QED BY <1>3, <1>5, <1>10, <2>1, FailStep
<1>14. CASE /\ ack = "OK"
            /\ i' = n /\ response_count' = n /\ response_value' = ack
            /\ Goto(IF n = Len(reqs) THEN "lastWrite" ELSE "blockWrite")
            /\ UNCHANGED <<match_retry, flags, mismatch, words>>
  <2>1. PICK m \in Nat : m = i /\ m + 1 = n BY <1>1, <1>6
  <2>2. WordsUpTo(n)'
    <3>1. m + 1 \notin Reads /\ WordsUpTo(m) BY <1>4, <1>5, <2>1 DEF Reads
    <3>2. WordsUpTo(m + 1)' BY <1>3, <1>4, <1>14, <3>1, SkipWord
    <3>. QED BY <2>1, <3>2
  <2>3. words' \in Seq(1 .. Len(reqs)) BY <1>4, <1>14 DEF TypeOK
  <2>4. \A k \in 1 .. n : k \in Performed'
    <3>1. \A k \in 1 .. n : k = n \/ k \in 1 .. i BY <1>1, <1>5, <1>6
    <3>. QED BY <1>5, <1>10, <1>14, <3>1
  <2>5. CASE n # Len(reqs)
    <3>1. n \in Nat /\ n < Len(reqs) BY <1>4, <1>5, <2>5
    <3>2. Goto("blockWrite") BY <1>14, <2>5
    <3>3. /\ i' = n /\ response_count' = n /\ response_value' = "OK"
          /\ UNCHANGED <<config, reqs, match_retry, flags, mismatch>>
      BY <1>3, <1>14
    <3>. QED BY <1>3, <1>4, <1>10, <1>11, <2>2, <2>3, <2>4, <3>1, <3>2, <3>3, BlockServed
  <2>6. CASE n = Len(reqs)
    <3>1. /\ debug_port' = debug_port /\ retry_count' = retry_count
          /\ match_retry_count' = match_retry_count /\ i' = n /\ response_count' = n
          /\ match_retry' = match_retry /\ post_read' = post_read /\ mismatch' = mismatch
          /\ check_write' = check_write /\ response_value' = "OK"
          /\ pc' = "lastWrite" /\ retry' = retry_count
      BY <1>3, <1>14, <2>6 DEF config, flags, Goto
    <3>2. TypeOK'
      <4>1. i' \in 0 .. Len(reqs) /\ response_count' \in 0 .. Len(reqs)
        BY <1>4, <1>5, <3>1
      <4>. QED BY <1>3, <1>4, <1>10, <2>3, <3>1, <4>1 DEF TypeOK, Places, Acks
    <3>3. Served' = n /\ Collected' = n /\ Reached' = n
      BY <1>5, <3>1 DEF Served, Collected, Reached, Working
    <3>4. PlaceInv' BY <1>3, <2>6, <3>1, <3>3 DEF PlaceInv, Working, Block
    <3>5. PostInv' BY <1>5, <3>1 DEF PostInv
    <3>6. WordsInv'
      <4>1. n \in 0 .. Len(reqs') BY <1>3, <1>4, <1>5
      <4>. QED BY <2>2, <3>3, <4>1 DEF WordsInv
    <3>7. DoneInv' BY <1>10, <1>11, <2>4, <3>1, <3>3 DEF DoneInv
    <3>8. IdleInv' /\ AnswerHolds' /\ ErrorsReported' /\ ErrorInv'
      BY <3>1 DEF IdleInv, AnswerHolds, ErrorsReported, ErrorInv
    <3>. QED BY <3>2, <3>4, <3>5, <3>6, <3>7, <3>8 DEF TInv
  <2>. QED BY <2>5, <2>6
<1>. QED BY <1>2, <1>12, <1>13, <1>14

-----------------------------------------------------------------------------
(* The commands.                                                            *)

(* A command begins with nothing done, and without a port it ends like that.*)
LEMMA BeginStep ==
  ASSUME TInv, NEW n \in 0 .. MaxRequests, NEW rs \in [1 .. n -> Requests],
         NEW place \in {"next", "end"} \cup Block, Begin(rs, place),
         place \in Block =>
           n >= 1 /\ rs[1].op \in {"read", "write"} /\ \A k \in 1 .. n : rs[k] = rs[1],
         place = "blockPost" => IsAPRead(rs[1]),
         place = "blockRead" => rs[1].op = "read" /\ rs[1].port # "AP",
         place = "blockWrite" => rs[1].op = "write"
  PROVE  TInv'
<1>1. TypeOK /\ IdleInv BY DEF TInv
<1>2. /\ pc = "idle" /\ reqs' = rs /\ debug_port' = debug_port
      /\ retry_count' = retry_count /\ match_retry_count' = match_retry_count
      /\ i' = i /\ match_retry' = match_retry /\ post_read' = post_read
      /\ check_write' = check_write /\ response_count' = response_count
      /\ response_value' = response_value /\ mismatch' = mismatch /\ words' = words
      /\ rdbuff' = rdbuff /\ sticky' = sticky /\ done' = done /\ retry' = retry_count
      /\ pc' \in {place, "end"}
  BY DEF Begin, config, flags, answer, target, Goto
<1>3. /\ i = 0 /\ words = <<>> /\ done = <<>> /\ rdbuff = 0 /\ response_count = 0
      /\ response_value = "None" /\ ~mismatch /\ ~post_read /\ ~check_write
  BY <1>1, <1>2 DEF IdleInv
<1>4. n \in Nat /\ rs \in Seq(Requests) /\ Len(rs) = n /\ DOMAIN rs = 1 .. n
  BY DapTransferAssumption
<1>5. pc' \in Places /\ pc' \in {"next", "end"} \cup Block BY <1>2 DEF Places, Block
<1>6. words' \in Seq(1 .. Len(reqs')) /\ done' \in Seq(1 .. Len(reqs')) BY <1>2, <1>3
<1>7. TypeOK'
  <2>1. Len(reqs') \in Numbers BY <1>2, <1>4, DapTransferAssumption DEF Numbers
  <2>2. /\ i' \in 0 .. Len(reqs') /\ response_count' \in 0 .. Len(reqs')
        /\ rdbuff' \in 0 .. Len(reqs')
    BY <1>2, <1>3, <1>4
  <2>. QED BY <1>1, <1>2, <1>4, <1>5, <1>6, <2>1, <2>2 DEF TypeOK
<1>8. Performed' = {} /\ DOMAIN done' = {} /\ DOMAIN words' = {} /\ Len(words') = 0
  BY <1>2, <1>3 DEF Performed
<1>9. {k \in Reads' : k <= 0} = {}
  <2>1. Reads' \subseteq 1 .. n BY <1>2, <1>4 DEF Reads
  <2>2. \A k \in Reads' : ~(k <= 0) BY <1>4, <2>1
  <2>. QED BY <2>2
<1>10. WordsUpTo(0)' BY <1>8, <1>9 DEF WordsUpTo
<1>11. PerformedOnce' BY <1>8 DEF PerformedOnce
<1>12. (\E m \in 0 .. Len(reqs) : WordsUpTo(m))'
  <2>1. 0 \in 0 .. Len(reqs') BY <1>2, <1>4
  <2>. QED BY <1>10, <2>1
<1>13. ErrorsReported' BY <1>2, <1>3 DEF ErrorsReported, Succeeded
<1>14. CASE pc' = "end"
  <2>1. ~Succeeded' BY <1>2, <1>3 DEF Succeeded
  <2>2. Cardinality({k \in Reads' : k <= 0}) = 0 BY <1>9, FS_EmptySet
  <2>3. AnswerHolds' BY <1>2, <1>3, <1>8, <2>1, <2>2 DEF AnswerHolds
  <2>. QED BY <1>7, <1>11, <1>12, <1>13, <1>14, <2>3, AtEnd
<1>15. CASE pc' # "end"
  <2>1. /\ pc' = place /\ pc' \in {"next"} \cup Block /\ pc' \notin Working \cup Last
        /\ pc' \notin {"match", "flush", "lastRead", "idle", "end"}
    BY <1>2, <1>15 DEF Block, Working, Last
  <2>2. pc' = "blockRead" => reqs'[1].port # "AP" BY <1>2, <2>1
  <2>3. Served' = 0 /\ Collected' = 0 /\ Reached' = 0
    BY <1>2, <1>3, <2>1, <2>2 DEF Served, Collected, Reached
  <2>4. PlaceInv'
    <3>1. pc' \in Block =>
            /\ i' < Len(reqs') /\ reqs'[1].op \in {"read", "write"}
            /\ \A k \in DOMAIN reqs' : reqs'[k] = reqs'[1]
      BY <1>2, <1>3, <1>4, <2>1
    <3>. QED BY <1>2, <1>3, <2>1, <2>3, <3>1 DEF PlaceInv, Working, Last
  <2>5. PostInv' BY <1>2, <1>3, <2>1 DEF PostInv
  <2>6. WordsInv' BY <1>10, <1>12, <2>3 DEF WordsInv
  <2>7. DoneInv'
    <3>1. \A k \in 1 .. 0 : k \in Performed' OBVIOUS
    <3>. QED BY <1>8, <1>11, <2>2, <2>3, <3>1 DEF DoneInv
  <2>8. ErrorInv' BY <1>2, <1>3 DEF ErrorInv, Pending
  <2>9. IdleInv' /\ AnswerHolds' BY <2>1 DEF IdleInv, AnswerHolds
  <2>. QED BY <1>7, <1>13, <2>4, <2>5, <2>6, <2>7, <2>8, <2>9 DEF TInv
<1>. QED BY <1>14, <1>15

LEMMA TransferStep == TInv /\ Transfer => TInv'
<1> SUFFICES ASSUME TInv, Transfer PROVE TInv'
  OBVIOUS
<1>1. PICK n \in 0 .. MaxRequests : \E rs \in [1 .. n -> Requests] : Begin(rs, "next")
  BY DEF Transfer
<1>2. PICK rs \in [1 .. n -> Requests] : Begin(rs, "next") BY <1>1
<1>. QED BY <1>2, BeginStep DEF Block

LEMMA TransferBlockStep == TInv /\ TransferBlock => TInv'
<1> SUFFICES ASSUME TInv, TransferBlock PROVE TInv'
  OBVIOUS
<1> DEFINE place(n, r) == CASE n = 0 -> "end"
                            [] n > 0 /\ r.op = "write" -> "blockWrite"
                            [] n > 0 /\ IsAPRead(r) -> "blockPost"
                            [] n > 0 /\ r.op = "read" /\ ~IsAPRead(r) -> "blockRead"
<1>1. PICK n \in 0 .. MaxRequests, r \in {q \in Requests : q.op \in {"read", "write"}} :
        Begin([k \in 1 .. n |-> r], place(n, r))
  BY DEF TransferBlock
<1>2. PICK rs : rs = [k \in 1 .. n |-> r] OBVIOUS
<1>3. PICK p : p = place(n, r) OBVIOUS
<1>4. r \in Requests /\ r.op \in {"read", "write"} /\ n \in Nat
  BY DapTransferAssumption
<1>5. /\ rs \in [1 .. n -> Requests] /\ \A k \in 1 .. n : rs[k] = r
      /\ n >= 1 => rs[1] = r
  BY <1>2, <1>4
<1>6. \/ n = 0 /\ p = "end"
      \/ n >= 1 /\ p = "blockWrite" /\ r.op = "write"
      \/ n >= 1 /\ p = "blockPost" /\ IsAPRead(r)
      \/ n >= 1 /\ p = "blockRead" /\ r.op = "read" /\ ~IsAPRead(r)
  BY <1>3, <1>4 DEF IsAPRead
<1>7. Begin(rs, p) BY <1>1, <1>2, <1>3
<1>. HIDE DEF place
<1>8. p \in {"next", "end"} \cup Block BY <1>6 DEF Block
<1>9. /\ p \in Block =>
           n >= 1 /\ rs[1].op \in {"read", "write"} /\ \A k \in 1 .. n : rs[k] = rs[1]
      /\ p = "blockPost" => IsAPRead(rs[1])
      /\ p = "blockRead" => rs[1].op = "read" /\ rs[1].port # "AP"
      /\ p = "blockWrite" => rs[1].op = "write"
  BY <1>4, <1>5, <1>6 DEF Block, IsAPRead
<1>. QED BY <1>5, <1>7, <1>8, <1>9, BeginStep

(* Between commands: everything is as at the start but for the settings and *)
(* the target's error flag.                                                 *)
LEMMA IdleStep ==
  ASSUME pc' = "idle", TypeOK', IdleInv'
  PROVE  TInv'
<1>1. PlaceInv' BY DEF PlaceInv, Working, Last, Block, Busy
<1>2. PostInv' BY DEF PostInv, Working, Last, Block, Busy
<1>3. reqs' = <<>> /\ words' = <<>> /\ done' = <<>> BY DEF IdleInv
<1>4. DOMAIN reqs' = {} /\ DOMAIN words' = {} /\ DOMAIN done' = {} /\ Len(reqs') = 0 BY <1>3
<1>5. WordsInv'
  <2>1. Reads' = {} BY <1>4 DEF Reads
  <2>2. WordsUpTo(0)' BY <1>4, <2>1 DEF WordsUpTo
  <2>3. 0 \in 0 .. Len(reqs') BY <1>4
  <2>. QED BY <2>2, <2>3 DEF WordsInv, Working, Last, Block, Busy
<1>6. DoneInv' BY <1>4 DEF DoneInv, PerformedOnce, Working, Last, Block, Busy
<1>7. ErrorInv' /\ AnswerHolds' /\ ErrorsReported'
  BY DEF ErrorInv, AnswerHolds, ErrorsReported
<1>. QED BY <1>1, <1>2, <1>5, <1>6, <1>7 DEF TInv

LEMMA ReturnStep == TInv /\ Return => TInv'
<1> SUFFICES ASSUME TInv, Return PROVE TInv'
  OBVIOUS
<1>1. /\ pc' = "idle" /\ reqs' = <<>> /\ i' = 0 /\ retry' = 0 /\ match_retry' = 0
      /\ post_read' = FALSE /\ check_write' = FALSE
      /\ response_count' = 0 /\ response_value' = "None" /\ mismatch' = FALSE
      /\ words' = <<>> /\ rdbuff' = 0 /\ done' = <<>> /\ sticky' = sticky
      /\ debug_port' = debug_port /\ retry_count' = retry_count
      /\ match_retry_count' = match_retry_count
  BY DEF Return, config
<1>2. IdleInv' BY <1>1 DEF IdleInv
<1>3. TypeOK'
  <2>1. <<>> \in Seq(Requests) /\ <<>> \in Seq(1 .. 0) /\ Len(<<>>) = 0 OBVIOUS
  <2>2. Len(reqs') = 0 /\ 0 \in Numbers BY <1>1, DapTransferAssumption DEF Numbers
  <2>3. TypeOK BY DEF TInv
  <2>4. /\ reqs' \in Seq(Requests) /\ words' \in Seq(1 .. Len(reqs'))
        /\ done' \in Seq(1 .. Len(reqs'))
    BY <1>1, <2>1, <2>2
  <2>5. /\ i' \in 0 .. Len(reqs') /\ response_count' \in 0 .. Len(reqs')
        /\ rdbuff' \in 0 .. Len(reqs') /\ Len(reqs') \in Numbers
    BY <1>1, <2>2
  <2>6. retry' \in 0 .. MaxRetry /\ match_retry' \in 0 .. MaxMatchRetry
    BY <1>1, DapTransferAssumption
  <2>. QED BY <1>1, <2>3, <2>4, <2>5, <2>6 DEF TypeOK, Places
<1>. QED BY <1>1, <1>2, <1>3, IdleStep

LEMMA SettingStep ==
  TInv /\ (Connect \/ Disconnect \/ TransferConfigure \/ WriteAbort) => TInv'
<1> SUFFICES ASSUME TInv, Connect \/ Disconnect \/ TransferConfigure \/ WriteAbort
             PROVE  TInv'
  OBVIOUS
<1>1. /\ pc = "idle" /\ pc' = "idle" /\ reqs' = reqs /\ i' = i /\ retry' = retry
      /\ match_retry' = match_retry /\ post_read' = post_read
      /\ check_write' = check_write /\ response_count' = response_count
      /\ response_value' = response_value /\ mismatch' = mismatch /\ words' = words
      /\ rdbuff' = rdbuff /\ done' = done
  BY DEF Connect, Disconnect, TransferConfigure, WriteAbort, Setting, flags, answer, target
<1>2. TypeOK /\ IdleInv BY DEF TInv
<1>3. /\ debug_port' \in {"SWD", "DISABLED"} /\ retry_count' \in 0 .. MaxRetry
      /\ match_retry_count' \in 0 .. MaxMatchRetry
  BY <1>2 DEF TypeOK, Connect, Disconnect, TransferConfigure, WriteAbort, config
<1>4. sticky' \in BOOLEAN
  <2>1. sticky \in BOOLEAN BY <1>2 DEF TypeOK
  <2>2. sticky' = sticky \/ sticky' = FALSE
    BY DEF Connect, Disconnect, TransferConfigure, WriteAbort, target
  <2>. QED BY <2>1, <2>2
<1>5. TypeOK' BY <1>1, <1>2, <1>3, <1>4 DEF TypeOK
<1>6. IdleInv' BY <1>1, <1>2 DEF IdleInv
<1>. QED BY <1>1, <1>5, <1>6, IdleStep

-----------------------------------------------------------------------------
(* The invariant holds, and with it the properties.                         *)

LEMMA InitTInv == Init => TInv
<1> SUFFICES ASSUME Init PROVE TInv
  OBVIOUS
<1>1. pc = "idle" /\ reqs = <<>> /\ words = <<>> /\ done = <<>> BY DEF Init
<1>2. IdleInv BY DEF Init, IdleInv
<1>3. TypeOK
  <2>1. <<>> \in Seq(Requests) /\ <<>> \in Seq(1 .. 0) /\ Len(<<>>) = 0 OBVIOUS
  <2>2. Len(reqs) = 0 /\ 0 \in Numbers BY <1>1, DapTransferAssumption DEF Numbers
  <2>3. /\ reqs \in Seq(Requests) /\ words \in Seq(1 .. Len(reqs))
        /\ done \in Seq(1 .. Len(reqs)) /\ Len(reqs) \in Numbers
    BY <1>1, <2>1, <2>2
  <2>4. i \in 0 .. Len(reqs) /\ response_count \in 0 .. Len(reqs) /\ rdbuff \in 0 .. Len(reqs)
    BY <2>2 DEF Init
  <2>5. /\ retry_count \in 0 .. MaxRetry /\ match_retry_count \in 0 .. MaxMatchRetry
        /\ retry \in 0 .. MaxRetry /\ match_retry \in 0 .. MaxMatchRetry
    BY DapTransferAssumption DEF Init
  <2>. QED BY <2>3, <2>4, <2>5 DEF Init, TypeOK, Places
<1>4. PlaceInv BY <1>1 DEF PlaceInv, Working, Last, Block, Busy
<1>5. PostInv BY <1>1 DEF PostInv, Working, Last, Block, Busy
<1>6. DOMAIN reqs = {} /\ DOMAIN words = {} /\ DOMAIN done = {} /\ Len(reqs) = 0 BY <1>1
<1>7. WordsInv
  <2>1. Reads = {} BY <1>6 DEF Reads
  <2>2. WordsUpTo(0) BY <1>6, <2>1 DEF WordsUpTo
  <2>3. 0 \in 0 .. Len(reqs) BY <1>6
  <2>. QED BY <1>1, <2>2, <2>3 DEF WordsInv, Working, Last, Block, Busy
<1>8. DoneInv BY <1>1, <1>6 DEF DoneInv, PerformedOnce, Working, Last, Block, Busy
<1>9. ErrorInv /\ AnswerHolds /\ ErrorsReported
  BY <1>1 DEF ErrorInv, AnswerHolds, ErrorsReported
<1>. QED BY <1>2, <1>3, <1>4, <1>5, <1>7, <1>8, <1>9 DEF TInv

LEMMA NextTInv == TInv /\ [Next]_vars => TInv'
<1> SUFFICES ASSUME TInv, [Next]_vars PROVE TInv'
  OBVIOUS
<1>1. CASE Step
  BY <1>1, TakeStep, FlushStep, PostStep, ReadDPStep, MatchPostStep, MatchStep, WriteStep,
     ConcludeStep, LastReadStep, LastWriteStep, BlockPostStep, BlockReadStep,
     BlockWriteStep, ReturnStep DEF Step
<1>2. CASE Transfer \/ TransferBlock BY <1>2, TransferStep, TransferBlockStep
<1>3. CASE Connect \/ Disconnect \/ TransferConfigure \/ WriteAbort BY <1>3, SettingStep
<1>4. CASE UNCHANGED vars
  <2>1. UNCHANGED <<config, reqs, pc, i, match_retry, flags, answer, target>> /\ retry' = retry
    BY <1>4 DEF vars
  <2>2. retry' \in 0 .. MaxRetry BY <2>1 DEF TInv, TypeOK
  <2>. QED BY <2>1, <2>2, OnlyRetry
<1>. QED BY <1>1, <1>2, <1>3, <1>4 DEF Next

LEMMA SpecTInv == Spec => []TInv
BY InitTInv, NextTInv, PTL DEF Spec

(* Every variable has its type: requests of the command is what words and   *)
(* accesses stand for.                                                      *)
THEOREM TypeCorrect == Spec => []TypeOK
<1>1. TInv => TypeOK BY DEF TInv
<1>. QED BY <1>1, SpecTInv, PTL

(* For commands of any length and any retry counts: an answer's words are   *)
(* those of its reads, in their order and without a gap (DAP.c:735-770).    *)
THEOREM AnswersOwn == Spec => []OwnAnswers
<1>1. TInv => OwnAnswers BY DEF TInv, WordsInv, PlaceInv, OwnAnswers
<1>. QED BY <1>1, SpecTInv, PTL

(* However often transfers are repeated, the target performs each read or   *)
(* write once and in the order of the requests (DAP.c:740-742).             *)
THEOREM EachOnce == Spec => []PerformedOnce
<1>1. TInv => PerformedOnce BY DEF TInv, DoneInv
<1>. QED BY <1>1, SpecTInv, PTL

(* What an answer says was done was done: all of it on success, all that is *)
(* counted on failure (DAP.c:906-957, 1331-1397).                           *)
THEOREM AnswersTrue == Spec => []AnswerHolds
<1>1. TInv => AnswerHolds BY DEF TInv
<1>. QED BY <1>1, SpecTInv, PTL

(* A command that succeeds and ends with a write or an access port read     *)
(* leaves no error behind (DAP.c:928-950, 1387-1391).                       *)
THEOREM ErrorsTold == Spec => []ErrorsReported
<1>1. TInv => ErrorsReported BY DEF TInv
<1>. QED BY <1>1, SpecTInv, PTL

===============================================================================
