---------------------------- MODULE MachineProofs ---------------------------
(***************************************************************************)
(* Proofs about the parts of the Lab 3 machine, for every value of their   *)
(* constants: the console neither loses nor repeats a byte, and nothing    *)
(* sleeps past its event (ConsoleCorrect); however threads are preempted,  *)
(* each is on the one list that its status names, locks are exclusive, no  *)
(* unit or signal is lost and a ready thread waits no longer than a time   *)
(* slice for each thread (RoundRobinCorrect); and requests to the disks    *)
(* are atomic, partitions lie within their disk and no interrupt is lost   *)
(* (DiskCorrect).                                                          *)
(***************************************************************************)
EXTENDS Console, RoundRobin, Disk, FiniteSetTheorems, SequenceTheorems, TLAPS

(***************************************************************************)
(* The console.                                                            *)
(***************************************************************************)

(* appending to the second of two concatenated sequences *)
LEMMA AppendRight ==
    ASSUME NEW S, NEW s \in Seq(S), NEW q \in Seq(S), NEW e \in S
    PROVE  s \o Append(q, e) = Append(s \o q, e)
<1>1. s \o Append(q, e) \in Seq(S) /\ Append(s \o q, e) \in Seq(S)
  OBVIOUS
<1>2. Len(s \o Append(q, e)) = Len(Append(s \o q, e))
  OBVIOUS
<1>3. ASSUME NEW i \in 1 .. Len(s \o Append(q, e))
      PROVE  (s \o Append(q, e))[i] = Append(s \o q, e)[i]
  OBVIOUS
<1> QED
  BY <1>1, <1>2, <1>3, SeqEqual

(* moving the head of the second sequence to the end of the first *)
LEMMA MoveHead ==
    ASSUME NEW S, NEW s \in Seq(S), NEW q \in Seq(S), q # <<>>
    PROVE  Append(s, Head(q)) \o Tail(q) = s \o q
<1>1. /\ Append(s, Head(q)) \o Tail(q) \in Seq(S) /\ s \o q \in Seq(S)
      /\ Append(s, Head(q)) \in Seq(S) /\ Tail(q) \in Seq(S) /\ Head(q) \in S
      /\ Len(Tail(q)) = Len(q) - 1 /\ Len(q) \in Nat \ {0} /\ Len(s) \in Nat
      /\ Head(q) = q[1] /\ Len(Append(s, Head(q))) = Len(s) + 1
  OBVIOUS
<1>2. Len(Append(s, Head(q)) \o Tail(q)) = Len(s \o q)
  BY <1>1
<1>3. ASSUME NEW i \in 1 .. Len(Append(s, Head(q)) \o Tail(q))
      PROVE  (Append(s, Head(q)) \o Tail(q))[i] = (s \o q)[i]
  <2>1. CASE i <= Len(s)
    BY <1>1, <2>1
  <2>2. CASE i = Len(s) + 1
    BY <1>1, <2>2
  <2>3. CASE i > Len(s) + 1
    <3>1. (Append(s, Head(q)) \o Tail(q))[i] = Tail(q)[i - Len(s) - 1]
      BY <1>1, <2>3
    <3>2. Tail(q)[i - Len(s) - 1] = q[i - Len(s)]
      BY <1>1, <2>3
    <3>3. (s \o q)[i] = q[i - Len(s)]
      BY <1>1, <2>3
    <3> QED
      BY <3>1, <3>2, <3>3
  <2> QED
    BY <1>1, <2>1, <2>2, <2>3
<1> QED
  BY <1>1, <1>2, <1>3, SeqEqual

-----------------------------------------------------------------------------
ConsoleSpec == ConsoleInit /\ [][ConsoleNext]_consoleVars

ReaderState == {"out", "waiting", "woken", "queued", "granted"}

ConsoleType ==
    /\ in_buf \in Seq(Nat) /\ taken \in Seq(Nat) /\ got \in Seq(Nat)
    /\ txq \in Seq(Nat) /\ sent \in Seq(Nat) /\ written \in Seq(Nat)
    /\ not_empty \in Reader \cup {Nobody}
    /\ in_lock \in {0, 1} /\ lock_queue \in Seq(Reader)
    /\ reader \in [Reader -> ReaderState]
    /\ tx_byte \in Nat /\ rbr \in Nat /\ arrived \in Nat
    /\ not_full \in BOOLEAN
    /\ mode \in {"POLL", "QUEUE"}

(* the input side: the history, and who has the lock, who waits for it and *)
(* who for a byte                                                          *)
InputOK ==
    /\ taken = got \o in_buf
    /\ not_empty # Nobody => in_buf = <<>> /\ reader[not_empty] = "waiting"
    /\ \A r \in Reader : reader[r] = "waiting" => not_empty = r
    /\ \A r \in Reader : reader[r] \in {"waiting", "woken"} =>
          in_lock = 0 /\ \A u \in Reader : reader[u] \in {"waiting", "woken"} => u = r
    /\ \A i \in 1 .. Len(lock_queue) : reader[lock_queue[i]] = "queued"
    /\ \A i, j \in 1 .. Len(lock_queue) : lock_queue[i] = lock_queue[j] => i = j

(* the output side: the bytes numbered so far, except one that waits, are  *)
(* in written, each in one place                                           *)
OutputOK ==
    /\ written = sent \o txq
    /\ mode = "POLL" => txq = <<>> /\ tx_byte = 0
    /\ not_full => intq_full(txq)
    /\ tx_byte < NextByte
    /\ \A b \in 1 .. NextByte - 1 : b # tx_byte => \E i \in 1 .. Len(written) : written[i] = b
    /\ \A i \in 1 .. Len(written) : written[i] \in 1 .. NextByte - 1 /\ written[i] # tx_byte
    /\ \A i, j \in 1 .. Len(written) : written[i] = written[j] => i = j

(* the UART's interrupts are enabled for what there is room for, and to do *)
ArmedOK ==
    mode = "QUEUE" => /\ "RECV" \in ier <=> ~intq_full(in_buf)
                      /\ txq # <<>> => "XMIT" \in ier

ConsoleInv == ConsoleType /\ InputOK /\ OutputOK /\ ArmedOK

inputVars == <<in_buf, not_empty, in_lock, lock_queue, reader, taken, got>>
outputVars == <<txq, not_full, tx_byte, sent, written, mode>>

(* A step that leaves the input side alone keeps what holds of it. *)
LEMMA InputFrame ==
    ASSUME InputOK, UNCHANGED inputVars
    PROVE  InputOK'
  BY DEF InputOK, inputVars

(* And one that leaves the output side alone. *)
LEMMA OutputFrame ==
    ASSUME OutputOK, UNCHANGED outputVars
    PROVE  OutputOK'
  BY DEF OutputOK, outputVars, NextByte, intq_full

(* write_ier() enables what ArmedOK asks for *)
LEMMA Armed ==
    ASSUME NEW tx, NEW in
    PROVE  /\ "RECV" \in write_ier(tx, in) <=> ~intq_full(in)
           /\ tx # <<>> => "XMIT" \in write_ier(tx, in)
  BY DEF write_ier

(* The inductive invariant implies the property: a byte with one place in  *)
(* the history occurs there once.                                          *)
LEMMA ConsoleImplies ==
    ASSUME ConsoleInv
    PROVE  ConsoleExact
<1> USE DEF ConsoleInv
<1>1. ASSUME NEW b \in 1 .. NextByte - 1
      PROVE  Cardinality({i \in DOMAIN written : written[i] = b}) = IF b = tx_byte THEN 0 ELSE 1
  <2>1. DOMAIN written = 1 .. Len(written)
    BY DEF ConsoleType
  <2>2. CASE b = tx_byte
    <3>1. {i \in DOMAIN written : written[i] = b} = {}
      BY <2>1, <2>2 DEF OutputOK
    <3> QED
      BY <3>1, <2>2, FS_EmptySet
  <2>3. CASE b # tx_byte
    <3>1. PICK i \in 1 .. Len(written) : written[i] = b
      BY <2>3 DEF OutputOK
    <3>2. {j \in DOMAIN written : written[j] = b} = {i}
      BY <2>1, <3>1 DEF OutputOK
    <3> QED
      BY <3>2, <2>3, FS_Singleton
  <2> QED
    BY <2>2, <2>3
<1>2. /\ taken = got \o in_buf
      /\ not_empty # Nobody => in_buf = <<>> /\ reader[not_empty] = "waiting"
      /\ \A r \in Reader : reader[r] = "waiting" => not_empty = r
      /\ in_lock = 1 => \A r \in Reader : reader[r] \notin {"waiting", "woken"}
  BY DEF InputOK
<1>3. written = sent \o txq /\ (not_full => intq_full(txq))
  BY DEF OutputOK
<1> QED
  BY <1>1, <1>2, <1>3 DEF ConsoleExact, ArmedOK

-----------------------------------------------------------------------------
(* intq_getc() with a byte there *)
LEMMA TakeByteKeeps ==
    ASSUME ConsoleInv, NEW r \in Reader, NEW st \in [Reader -> ReaderState],
           in_buf # <<>>, TakeByte(r, st), ReaderFrame
    PROVE  /\ in_buf' \in Seq(Nat) /\ got' \in Seq(Nat) /\ ArmedOK'
           /\ reader' \in [Reader -> ReaderState]
           /\ taken' = got' \o in_buf' /\ not_empty' = Nobody /\ not_empty = Nobody
<1>1. Head(in_buf) \in Nat /\ Tail(in_buf) \in Seq(Nat)
  BY DEF ConsoleInv, ConsoleType
<1>2. taken' = got' \o in_buf'
  <2>1. in_buf \in Seq(Nat) /\ got \in Seq(Nat)
    BY DEF ConsoleInv, ConsoleType
  <2>2. Append(got, Head(in_buf)) \o Tail(in_buf) = got \o in_buf
    BY <2>1, MoveHead
  <2> QED
    BY <2>2 DEF ConsoleInv, InputOK, TakeByte, ReaderFrame
<1>3. ArmedOK'
  BY Armed DEF ArmedOK, TakeByte, Notify, ReaderFrame, intq_full
<1> QED
  BY <1>1, <1>2, <1>3 DEF ConsoleInv, ConsoleType, InputOK, TakeByte, ReaderState

(* input_getc(): a byte is taken, or the reader waits for one or for the   *)
(* lock.                                                                   *)
LEMMA GetcStep ==
    ASSUME ConsoleInv, NEW r \in Reader, input_getc(r)
    PROVE  ConsoleInv'
<1>a. ReaderFrame /\ reader[r] = "out"
  BY DEF input_getc
<1>b. OutputOK'
  BY <1>a, OutputFrame DEF ConsoleInv, ReaderFrame, outputVars
<1>1. CASE in_buf # <<>>
  <2>1. TakeByte(r, reader) /\ UNCHANGED <<in_lock, lock_queue>>
    BY <1>1 DEF input_getc
  <2>2. /\ in_buf' \in Seq(Nat) /\ got' \in Seq(Nat) /\ ArmedOK'
        /\ reader' \in [Reader -> ReaderState]
        /\ taken' = got' \o in_buf' /\ not_empty' = Nobody /\ not_empty = Nobody
    BY <1>a, <1>1, <2>1, TakeByteKeeps DEF ConsoleInv, ConsoleType
  <2>3. reader' = [reader EXCEPT ![r] = "out"]
    BY <2>1 DEF TakeByte
  <2>4. reader' = reader
    BY <1>a, <2>3 DEF ConsoleInv, ConsoleType
  <2>5. InputOK'
    BY <2>1, <2>2, <2>4 DEF ConsoleInv, InputOK
  <2>6. ConsoleType'
    BY <1>a, <2>1, <2>2 DEF ConsoleInv, ConsoleType, ReaderFrame
  <2> QED
    BY <1>b, <2>2, <2>5, <2>6 DEF ConsoleInv
<1>2. CASE in_buf = <<>> /\ in_lock = 1
  <2>1. WaitByte(r, reader) /\ UNCHANGED lock_queue
    BY <1>2 DEF input_getc
  <2>2. ConsoleType'
    BY <1>a, <2>1 DEF ConsoleInv, ConsoleType, ReaderFrame, WaitByte, ReaderState
  <2>3. ArmedOK'
    BY <1>a, <2>1 DEF ConsoleInv, ArmedOK, ReaderFrame, WaitByte, intq_full
  <2>4. InputOK'
    BY <1>a, <1>2, <2>1, ConsoleAssumption
    DEF ConsoleInv, ConsoleType, InputOK, ReaderFrame, WaitByte, ReaderState
  <2> QED
    BY <1>b, <2>2, <2>3, <2>4 DEF ConsoleInv
<1>3. CASE in_buf = <<>> /\ in_lock = 0
  <2>1. QueueForLock(r)
    BY <1>3 DEF input_getc
  <2>2. ConsoleType'
    BY <1>a, <2>1 DEF ConsoleInv, ConsoleType, ReaderFrame, QueueForLock, ReaderState
  <2>3. ArmedOK'
    BY <1>a, <2>1 DEF ConsoleInv, ArmedOK, ReaderFrame, QueueForLock, intq_full
  <2>4. InputOK'
    BY <1>a, <1>3, <2>1, ConsoleAssumption
    DEF ConsoleInv, ConsoleType, InputOK, ReaderFrame, QueueForLock, ReaderState
  <2> QED
    BY <1>b, <2>2, <2>3, <2>4 DEF ConsoleInv
<1> QED
  BY <1>1, <1>2, <1>3 DEF ConsoleInv, ConsoleType

(* A reader that was signalled takes a byte or waits again, and the lock   *)
(* goes to the next one.                                                   *)
LEMMA ResumeStep ==
    ASSUME ConsoleInv, NEW r \in Reader, Resume(r)
    PROVE  ConsoleInv'
<1> DEFINE st == IF lock_queue = <<>> THEN reader
                 ELSE [reader EXCEPT ![Head(lock_queue)] = "granted"]
<1>a. /\ ReaderFrame /\ reader[r] = "woken"
      /\ lock_queue' = IF lock_queue = <<>> THEN <<>> ELSE Tail(lock_queue)
  BY DEF Resume
<1>b. OutputOK'
  BY <1>a, OutputFrame DEF ConsoleInv, ReaderFrame, outputVars
<1>c. ConsoleType /\ InputOK /\ not_empty = Nobody /\ in_lock = 0
  BY <1>a DEF ConsoleInv, InputOK, ConsoleType
<1>d. st \in [Reader -> ReaderState] /\ lock_queue' \in Seq(Reader)
  BY <1>a, <1>c DEF ConsoleType, ReaderState
<1>e. /\ \A u \in Reader : st[u] = reader[u] \/ (reader[u] = "queued" /\ st[u] = "granted")
      /\ \A i \in 1 .. Len(lock_queue') : st[lock_queue'[i]] = "queued" /\ lock_queue'[i] # r
      /\ \A i, j \in 1 .. Len(lock_queue') : lock_queue'[i] = lock_queue'[j] => i = j
  <2>1. CASE lock_queue = <<>>
    BY <1>a, <1>c, <2>1 DEF InputOK, ConsoleType
  <2>2. CASE lock_queue # <<>>
    <3>1. /\ Head(lock_queue) = lock_queue[1] /\ Len(lock_queue) \in Nat \ {0}
          /\ lock_queue[1] \in Reader
          /\ \A i \in 1 .. Len(lock_queue) : lock_queue[i] \in Reader
          /\ lock_queue' = Tail(lock_queue) /\ Len(Tail(lock_queue)) = Len(lock_queue) - 1
          /\ \A i \in 1 .. Len(Tail(lock_queue)) : Tail(lock_queue)[i] = lock_queue[i + 1]
      BY <1>a, <1>c, <2>2 DEF ConsoleType
    <3>2. st = [reader EXCEPT ![lock_queue[1]] = "granted"]
      BY <3>1, <2>2
    <3>3. \A u \in Reader : st[u] = IF u = lock_queue[1] THEN "granted" ELSE reader[u]
      BY <3>1, <3>2, <1>c DEF ConsoleType
    <3> HIDE DEF st
    <3>4. reader[lock_queue[1]] = "queued"
      BY <1>c, <3>1 DEF InputOK
    <3>5. ASSUME NEW i \in 1 .. Len(lock_queue')
          PROVE  st[lock_queue'[i]] = "queued" /\ lock_queue'[i] # r
      <4>1. lock_queue'[i] = lock_queue[i + 1] /\ i + 1 \in 1 .. Len(lock_queue) /\ i + 1 # 1
        BY <3>1
      <4>2. lock_queue[i + 1] # lock_queue[1]
        BY <3>1, <4>1, <1>c DEF InputOK
      <4>3. reader[lock_queue[i + 1]] = "queued"
        BY <1>c, <4>1 DEF InputOK
      <4> QED
        BY <1>a, <3>1, <3>3, <4>1, <4>2, <4>3
    <3>6. ASSUME NEW i \in 1 .. Len(lock_queue'), NEW j \in 1 .. Len(lock_queue'),
                 lock_queue'[i] = lock_queue'[j]
          PROVE  i = j
      <4>1. /\ lock_queue'[i] = lock_queue[i + 1] /\ i + 1 \in 1 .. Len(lock_queue)
            /\ lock_queue'[j] = lock_queue[j + 1] /\ j + 1 \in 1 .. Len(lock_queue)
        BY <3>1
      <4>2. i + 1 = j + 1
        BY <4>1, <3>6, <1>c DEF InputOK
      <4> QED
        BY <4>2
    <3> QED
      BY <3>3, <3>4, <3>5, <3>6
  <2> QED
    BY <2>1, <2>2
<1>f. IF in_buf # <<>> THEN TakeByte(r, st) /\ in_lock' = 1 ELSE WaitByte(r, st)
  BY DEF Resume
<1> HIDE DEF st
<1>1. CASE in_buf # <<>>
  <2>1. TakeByte(r, st) /\ in_lock' = 1
    BY <1>1, <1>f
  <2>2. /\ in_buf' \in Seq(Nat) /\ got' \in Seq(Nat) /\ ArmedOK'
        /\ reader' \in [Reader -> ReaderState]
        /\ taken' = got' \o in_buf' /\ not_empty' = Nobody /\ not_empty = Nobody
    BY <1>a, <1>d, <1>1, <2>1, TakeByteKeeps
  <2>3. \A u \in Reader : reader'[u] = IF u = r THEN "out" ELSE st[u]
    BY <1>d, <2>1 DEF TakeByte
  <2>4. \A u \in Reader : reader'[u] \notin {"waiting", "woken"}
    BY <1>a, <1>c, <1>e, <2>3 DEF InputOK
  <2>5. \A i \in 1 .. Len(lock_queue') : reader'[lock_queue'[i]] = "queued"
    BY <1>d, <1>e, <2>3
  <2>6. InputOK'
    BY <1>e, <2>2, <2>4, <2>5 DEF InputOK
  <2>7. ConsoleType'
    BY <1>a, <1>c, <1>d, <2>1, <2>2 DEF ConsoleType, ReaderFrame
  <2> QED
    BY <1>b, <2>2, <2>6, <2>7 DEF ConsoleInv
<1>2. CASE in_buf = <<>>
  <2>1. WaitByte(r, st)
    BY <1>2, <1>f
  <2>2. ConsoleType'
    BY <1>a, <1>c, <1>d, <2>1 DEF ConsoleType, ReaderFrame, WaitByte, ReaderState
  <2>3. ArmedOK'
    BY <1>a, <2>1 DEF ConsoleInv, ArmedOK, ReaderFrame, WaitByte, intq_full
  <2>4. \A u \in Reader : reader'[u] = IF u = r THEN "waiting" ELSE st[u]
    BY <1>d, <2>1 DEF WaitByte
  <2>5. \A u \in Reader : reader'[u] \in {"waiting", "woken"} => u = r
    BY <1>a, <1>c, <1>e, <2>4 DEF InputOK
  <2>6. \A i \in 1 .. Len(lock_queue') : reader'[lock_queue'[i]] = "queued"
    BY <1>d, <1>e, <2>4
  <2>7. taken' = got' \o in_buf' /\ in_lock' = 0 /\ not_empty' = r /\ in_buf' = <<>>
    BY <1>a, <1>c, <1>2, <2>1 DEF WaitByte, ReaderFrame, InputOK
  <2>8. InputOK'
    BY <1>e, <2>4, <2>5, <2>6, <2>7 DEF InputOK
  <2> QED
    BY <1>b, <2>2, <2>3, <2>8 DEF ConsoleInv
<1> QED
  BY <1>1, <1>2

(* A reader that was granted the lock queues again, waits for a byte, or   *)
(* runs into the assertion.                                                *)
LEMMA GrantedStep ==
    ASSUME ConsoleInv, NEW r \in Reader, Granted(r)
    PROVE  ConsoleInv'
<1>a. ReaderFrame /\ reader[r] = "granted"
  BY DEF Granted
<1>b. OutputOK'
  BY <1>a, OutputFrame DEF ConsoleInv, ReaderFrame, outputVars
<1>1. CASE in_lock = 0 /\ QueueForLock(r)
  <2>1. QueueForLock(r)
    BY <1>1
  <2>2. ConsoleType'
    BY <1>a, <2>1 DEF ConsoleInv, ConsoleType, ReaderFrame, QueueForLock, ReaderState
  <2>3. ArmedOK'
    BY <1>a, <2>1 DEF ConsoleInv, ArmedOK, ReaderFrame, QueueForLock, intq_full
  <2>4. InputOK'
    BY <1>a, <2>1, ConsoleAssumption
    DEF ConsoleInv, ConsoleType, InputOK, ReaderFrame, QueueForLock, ReaderState
  <2> QED
    BY <1>b, <2>2, <2>3, <2>4 DEF ConsoleInv
<1>2. CASE in_lock = 1 /\ in_buf = <<>> /\ WaitByte(r, reader) /\ UNCHANGED lock_queue
  <2>2. ConsoleType'
    BY <1>a, <1>2 DEF ConsoleInv, ConsoleType, ReaderFrame, WaitByte, ReaderState
  <2>3. ArmedOK'
    BY <1>a, <1>2 DEF ConsoleInv, ArmedOK, ReaderFrame, WaitByte, intq_full
  <2>4. InputOK'
    BY <1>a, <1>2, ConsoleAssumption
    DEF ConsoleInv, ConsoleType, InputOK, ReaderFrame, WaitByte, ReaderState
  <2> QED
    BY <1>b, <2>2, <2>3, <2>4 DEF ConsoleInv
<1>3. CASE UNCHANGED <<in_buf, not_empty, in_lock, lock_queue, reader, got, ier>>
  <2>2. ConsoleType'
    BY <1>a, <1>3 DEF ConsoleInv, ConsoleType, ReaderFrame
  <2>3. ArmedOK'
    BY <1>a, <1>3 DEF ConsoleInv, ArmedOK, ReaderFrame, intq_full
  <2>4. InputOK'
    BY <1>a, <1>3, InputFrame DEF ConsoleInv, ReaderFrame, inputVars
  <2> QED
    BY <1>b, <2>2, <2>3, <2>4 DEF ConsoleInv
<1> QED
  BY <1>1, <1>2, <1>3 DEF Granted

-----------------------------------------------------------------------------
(* a byte is put and numbered: the next number, or the waiting byte's *)
LEMMA PutNext ==
    ASSUME ConsoleInv, written' = Append(written, NextByte), UNCHANGED tx_byte
    PROVE  /\ NextByte \in Nat /\ NextByte' = NextByte + 1
           /\ \A b \in 1 .. NextByte' - 1 : b # tx_byte' =>
                 \E i \in 1 .. Len(written') : written'[i] = b
           /\ \A i \in 1 .. Len(written') : written'[i] \in 1 .. NextByte' - 1
                                            /\ written'[i] # tx_byte'
           /\ \A i, j \in 1 .. Len(written') : written'[i] = written'[j] => i = j
           /\ tx_byte' < NextByte'
<1>1. /\ written \in Seq(Nat) /\ tx_byte \in Nat /\ Len(written) \in Nat /\ NextByte \in Nat
      /\ NextByte > 0
  BY DEF ConsoleInv, ConsoleType, NextByte
<1>2. /\ Len(written') = Len(written) + 1 /\ written'[Len(written) + 1] = NextByte
      /\ \A i \in 1 .. Len(written) : written'[i] = written[i]
  BY <1>1
<1>3. NextByte' = NextByte + 1
  BY <1>1, <1>2 DEF NextByte
<1>4. /\ \A b \in 1 .. NextByte - 1 : b # tx_byte => \E i \in 1 .. Len(written) : written[i] = b
      /\ \A i \in 1 .. Len(written) : written[i] \in 1 .. NextByte - 1 /\ written[i] # tx_byte
      /\ \A i, j \in 1 .. Len(written) : written[i] = written[j] => i = j
      /\ tx_byte < NextByte
  BY DEF ConsoleInv, OutputOK
<1> HIDE DEF NextByte
<1>5. ASSUME NEW b \in 1 .. NextByte' - 1, b # tx_byte'
      PROVE  \E i \in 1 .. Len(written') : written'[i] = b
  <2>1. CASE b = NextByte
    BY <1>1, <1>2, <2>1
  <2>2. CASE b # NextByte
    <3>1. b \in 1 .. NextByte - 1
      BY <1>1, <1>3, <2>2
    <3>2. PICK i \in 1 .. Len(written) : written[i] = b
      BY <1>4, <1>5, <3>1
    <3> QED
      BY <1>1, <1>2, <3>2
  <2> QED
    BY <2>1, <2>2
<1>6. ASSUME NEW i \in 1 .. Len(written')
      PROVE  written'[i] \in 1 .. NextByte' - 1 /\ written'[i] # tx_byte'
  BY <1>1, <1>2, <1>3, <1>4
<1>7. ASSUME NEW i \in 1 .. Len(written'), NEW j \in 1 .. Len(written'), written'[i] = written'[j]
      PROVE  i = j
  BY <1>1, <1>2, <1>4, <1>7
<1>8. tx_byte' < NextByte'
  BY <1>1, <1>3, <1>4
<1> QED
  BY <1>1, <1>3, <1>5, <1>6, <1>7, <1>8

(* Putting the byte whose writer waited gives it its place in the history. *)
LEMMA PutTheWaiting ==
    ASSUME ConsoleInv, tx_byte # 0, written' = Append(written, tx_byte), tx_byte' = 0
    PROVE  /\ \A b \in 1 .. NextByte' - 1 : b # tx_byte' =>
                 \E i \in 1 .. Len(written') : written'[i] = b
           /\ \A i \in 1 .. Len(written') : written'[i] \in 1 .. NextByte' - 1
                                            /\ written'[i] # tx_byte'
           /\ \A i, j \in 1 .. Len(written') : written'[i] = written'[j] => i = j
           /\ tx_byte' < NextByte'
<1>1. /\ written \in Seq(Nat) /\ tx_byte \in Nat /\ Len(written) \in Nat
      /\ NextByte = Len(written) + 2 /\ tx_byte \in 1 .. Len(written) + 1
  BY DEF ConsoleInv, ConsoleType, NextByte, OutputOK
<1>2. /\ Len(written') = Len(written) + 1 /\ written'[Len(written) + 1] = tx_byte
      /\ \A i \in 1 .. Len(written) : written'[i] = written[i]
  BY <1>1
<1>3. NextByte' = Len(written) + 2
  BY <1>1, <1>2 DEF NextByte
<1>4. /\ \A b \in 1 .. NextByte - 1 : b # tx_byte => \E i \in 1 .. Len(written) : written[i] = b
      /\ \A i \in 1 .. Len(written) : written[i] \in 1 .. NextByte - 1 /\ written[i] # tx_byte
      /\ \A i, j \in 1 .. Len(written) : written[i] = written[j] => i = j
  BY DEF ConsoleInv, OutputOK
<1>5. ASSUME NEW b \in 1 .. NextByte' - 1, b # tx_byte'
      PROVE  \E i \in 1 .. Len(written') : written'[i] = b
  <2>1. CASE b = tx_byte
    BY <1>1, <1>2, <2>1
  <2>2. CASE b # tx_byte
    <3>1. PICK i \in 1 .. Len(written) : written[i] = b
      BY <1>1, <1>3, <1>4, <2>2
    <3> QED
      BY <1>1, <1>2, <3>1
  <2> QED
    BY <2>1, <2>2
<1>6. ASSUME NEW i \in 1 .. Len(written')
      PROVE  written'[i] \in 1 .. NextByte' - 1 /\ written'[i] # tx_byte'
  BY <1>1, <1>2, <1>3, <1>4
<1>7. ASSUME NEW i \in 1 .. Len(written'), NEW j \in 1 .. Len(written'), written'[i] = written'[j]
      PROVE  i = j
  BY <1>1, <1>2, <1>4, <1>7
<1>8. tx_byte' < NextByte'
  BY <1>1, <1>3
<1> QED
  BY <1>5, <1>6, <1>7, <1>8

(* what WriterFrame leaves of the input side *)
LEMMA WriterKeepsInput ==
    ASSUME ConsoleInv, WriterFrame
    PROVE  InputOK' /\ mode' = mode /\ in_buf' = in_buf
  BY InputFrame DEF ConsoleInv, WriterFrame, inputVars

(* intq_putc() with room *)
LEMMA EnqueueKeeps ==
    ASSUME ConsoleInv, mode = "QUEUE", NEW b \in Nat, Enqueue(b), WriterFrame, UNCHANGED sent
    PROVE  txq' \in Seq(Nat) /\ written' \in Seq(Nat) /\ written' = sent' \o txq' /\ ArmedOK'
<1>1. txq \in Seq(Nat) /\ sent \in Seq(Nat) /\ written \in Seq(Nat) /\ written = sent \o txq
  BY DEF ConsoleInv, ConsoleType, OutputOK
<1>2. sent \o Append(txq, b) = Append(sent \o txq, b)
  BY <1>1, AppendRight
<1>3. ArmedOK'
  BY Armed DEF ArmedOK, Enqueue, WriterFrame, intq_full
<1> QED
  BY <1>1, <1>2, <1>3 DEF Enqueue

(* serial_putc() puts a byte or makes its writer wait. *)
LEMMA PutcStep ==
    ASSUME ConsoleInv, serial_putc
    PROVE  ConsoleInv'
<1>a. WriterFrame /\ mode = "QUEUE" /\ tx_byte = 0 /\ sent' = sent
  BY DEF serial_putc
<1>b. InputOK' /\ mode' = mode /\ in_buf' = in_buf
  BY <1>a, WriterKeepsInput
<1>c. ConsoleType /\ NextByte \in Nat /\ NextByte = Len(written) + 1 /\ Len(written) \in Nat
  BY <1>a DEF ConsoleInv, ConsoleType, NextByte
<1>1. CASE ~intq_full(txq) /\ Enqueue(NextByte) /\ UNCHANGED <<not_full, tx_byte>>
  <2>1. txq' \in Seq(Nat) /\ written' \in Seq(Nat) /\ written' = sent' \o txq' /\ ArmedOK'
    BY <1>a, <1>c, <1>1, EnqueueKeeps
  <2>2. ConsoleType'
    BY <1>a, <1>b, <1>c, <1>1, <2>1 DEF ConsoleType, WriterFrame
  <2>3. OutputOK'
    <3>1. ~not_full'
      BY <1>1 DEF ConsoleInv, OutputOK
    <3>2. written' = Append(written, NextByte)
      BY <1>1 DEF Enqueue
    <3> QED
      BY <1>a, <1>b, <1>1, <2>1, <3>1, <3>2, PutNext DEF OutputOK
  <2> QED
    BY <1>b, <2>1, <2>2, <2>3 DEF ConsoleInv
<1>2. CASE /\ intq_full(txq)
           /\ not_full' = TRUE /\ tx_byte' = NextByte
           /\ UNCHANGED <<txq, written, ier>>
  <2>1. ConsoleType'
    BY <1>a, <1>b, <1>c, <1>2 DEF ConsoleType, WriterFrame
  <2>2. ArmedOK'
    BY <1>b, <1>2 DEF ConsoleInv, ArmedOK, intq_full
  <2>3. NextByte' = NextByte + 1 /\ tx_byte' # 0
    BY <1>c, <1>2 DEF NextByte
  <2>4. OutputOK'
    <3>1. ASSUME NEW b \in 1 .. NextByte' - 1, b # tx_byte'
          PROVE  \E i \in 1 .. Len(written') : written'[i] = b
      <4>1. b \in 1 .. NextByte - 1 /\ b # tx_byte
        BY <1>a, <1>c, <1>2, <2>3, <3>1
      <4> QED
        BY <4>1, <1>2 DEF ConsoleInv, OutputOK
    <3>2. ASSUME NEW i \in 1 .. Len(written')
          PROVE  written'[i] \in 1 .. NextByte' - 1 /\ written'[i] # tx_byte'
      <4>1. written'[i] \in 1 .. NextByte - 1
        BY <1>2 DEF ConsoleInv, OutputOK
      <4> QED
        BY <1>c, <1>2, <2>3, <4>1
    <3>3. /\ \A i, j \in 1 .. Len(written') : written'[i] = written'[j] => i = j
          /\ written' = sent' \o txq' /\ mode' # "POLL" /\ intq_full(txq)'
      BY <1>a, <1>b, <1>2 DEF ConsoleInv, OutputOK, intq_full
    <3>4. tx_byte' < NextByte'
      BY <1>c, <1>2, <2>3
    <3> QED
      BY <3>1, <3>2, <3>3, <3>4 DEF OutputOK
  <2> QED
    BY <1>b, <2>1, <2>2, <2>4 DEF ConsoleInv
<1> QED
  BY <1>1, <1>2 DEF serial_putc

(* The waiting writer puts its byte or waits on. *)
LEMMA PutWaitingStep ==
    ASSUME ConsoleInv, PutWaiting
    PROVE  ConsoleInv'
<1>a. WriterFrame /\ tx_byte # 0 /\ ~not_full /\ sent' = sent
  BY DEF PutWaiting
<1>b. InputOK' /\ mode' = mode /\ in_buf' = in_buf
  BY <1>a, WriterKeepsInput
<1>c. ConsoleType /\ tx_byte \in Nat
  BY DEF ConsoleInv, ConsoleType
<1>1. CASE ~intq_full(txq) /\ Enqueue(tx_byte) /\ tx_byte' = 0 /\ UNCHANGED not_full
  <2>0. mode = "QUEUE"
    BY <1>a, <1>c DEF ConsoleInv, OutputOK, ConsoleType
  <2>1. txq' \in Seq(Nat) /\ written' \in Seq(Nat) /\ written' = sent' \o txq' /\ ArmedOK'
    BY <1>a, <1>c, <1>1, <2>0, EnqueueKeeps
  <2>2. ConsoleType'
    BY <1>a, <1>b, <1>c, <1>1, <2>1 DEF ConsoleType, WriterFrame
  <2>3. OutputOK'
    <3>2. written' = Append(written, tx_byte)
      BY <1>1 DEF Enqueue
    <3> QED
      BY <1>a, <1>b, <1>1, <2>0, <2>1, <3>2, PutTheWaiting DEF OutputOK
  <2> QED
    BY <1>b, <2>1, <2>2, <2>3 DEF ConsoleInv
<1>2. CASE intq_full(txq) /\ not_full' = TRUE /\ UNCHANGED <<txq, written, tx_byte, ier>>
  <2>1. ConsoleType'
    BY <1>a, <1>b, <1>c, <1>2 DEF ConsoleType, WriterFrame
  <2>2. ArmedOK'
    BY <1>b, <1>2 DEF ConsoleInv, ArmedOK, intq_full
  <2>3. OutputOK'
    BY <1>a, <1>b, <1>2 DEF ConsoleInv, OutputOK, NextByte, intq_full
  <2> QED
    BY <1>b, <2>1, <2>2, <2>3 DEF ConsoleInv
<1> QED
  BY <1>1, <1>2 DEF PutWaiting

(* serial_putc() with interrupts off sends the oldest byte itself when     *)
(* there is no room.                                                       *)
LEMMA PutPolledStep ==
    ASSUME ConsoleInv, PutPolled
    PROVE  ConsoleInv'
<1>a. WriterFrame /\ tx_byte' = tx_byte
  BY DEF PutPolled
<1>b. InputOK' /\ mode' = mode /\ in_buf' = in_buf
  BY <1>a, WriterKeepsInput
<1>c. ConsoleType /\ NextByte \in Nat
  BY DEF ConsoleInv, ConsoleType, NextByte
<1>d. txq \in Seq(Nat) /\ sent \in Seq(Nat) /\ written \in Seq(Nat) /\ written = sent \o txq
  BY DEF ConsoleInv, ConsoleType, OutputOK
<1>1. CASE /\ mode = "POLL"
           /\ sent' = Append(sent, NextByte) /\ written' = Append(written, NextByte)
           /\ UNCHANGED <<txq, not_full, ier>>
  <2>1. txq = <<>> /\ tx_byte = 0 /\ (not_full => intq_full(txq))
    BY <1>1 DEF ConsoleInv, OutputOK
  <2>2. sent' \in Seq(Nat) /\ written' \in Seq(Nat)
    BY <1>c, <1>d, <1>1
  <2>3. written' = sent' \o txq'
    BY <1>1, <1>d, <2>1, <2>2
  <2>4. ConsoleType'
    BY <1>a, <1>b, <1>c, <1>1, <2>2 DEF ConsoleType, WriterFrame
  <2>5. ArmedOK'
    BY <1>b, <1>1 DEF ArmedOK
  <2>6. OutputOK'
    BY <1>a, <1>b, <1>1, <2>1, <2>3, PutNext DEF OutputOK, intq_full
  <2> QED
    BY <1>b, <2>4, <2>5, <2>6 DEF ConsoleInv
<1>2. CASE /\ mode = "QUEUE" /\ intq_full(txq)
           /\ sent' = Append(sent, Head(txq))
           /\ txq' = Append(Tail(txq), NextByte)
           /\ written' = Append(written, NextByte)
           /\ not_full' = FALSE
           /\ ier' = write_ier(txq', in_buf)
  <2>1. txq # <<>>
    BY <1>2, ConsoleAssumption DEF intq_full
  <2>2. Head(txq) \in Nat /\ Tail(txq) \in Seq(Nat)
    BY <1>d, <2>1
  <2>3. sent' \in Seq(Nat) /\ txq' \in Seq(Nat) /\ written' \in Seq(Nat)
    BY <1>c, <1>d, <1>2, <2>2
  <2>4. sent' \o Tail(txq) = written
    BY <1>d, <1>2, <2>1, MoveHead
  <2>5. sent' \o Append(Tail(txq), NextByte) = Append(sent' \o Tail(txq), NextByte)
    <3> DEFINE s == Append(sent, Head(txq))
               q == Tail(txq)
               b == NextByte
    <3>1. s \in Seq(Nat) /\ q \in Seq(Nat) /\ b \in Nat
      BY <1>c, <1>d, <2>2
    <3> HIDE DEF s, q, b
    <3>2. s \o Append(q, b) = Append(s \o q, b)
      BY <3>1, AppendRight
    <3> QED
      BY <1>2, <3>2 DEF s, q, b
  <2>6. written' = sent' \o txq'
    BY <1>2, <2>4, <2>5
  <2>7. ConsoleType'
    BY <1>a, <1>b, <1>c, <1>2, <2>3 DEF ConsoleType, WriterFrame
  <2>8. ArmedOK'
    BY <1>b, <1>2, Armed DEF ArmedOK, intq_full
  <2>9. OutputOK'
    BY <1>a, <1>b, <1>2, <2>6, PutNext DEF OutputOK
  <2> QED
    BY <1>b, <2>7, <2>8, <2>9 DEF ConsoleInv
<1>3. CASE mode = "QUEUE" /\ ~intq_full(txq) /\ Enqueue(NextByte) /\ UNCHANGED <<sent, not_full>>
  <2>1. txq' \in Seq(Nat) /\ written' \in Seq(Nat) /\ written' = sent' \o txq' /\ ArmedOK'
    BY <1>a, <1>c, <1>3, EnqueueKeeps
  <2>2. ConsoleType'
    BY <1>a, <1>b, <1>c, <1>3, <2>1 DEF ConsoleType, WriterFrame
  <2>3. OutputOK'
    <3>1. ~not_full'
      BY <1>3 DEF ConsoleInv, OutputOK
    <3>2. written' = Append(written, NextByte)
      BY <1>3 DEF Enqueue
    <3> QED
      BY <1>a, <1>b, <1>3, <2>1, <3>1, <3>2, PutNext DEF OutputOK
  <2> QED
    BY <1>b, <2>1, <2>2, <2>3 DEF ConsoleInv
<1> QED
  BY <1>1, <1>2, <1>3 DEF PutPolled

(* serial_flush() moves all that is queued to what was sent. *)
LEMMA FlushStep ==
    ASSUME ConsoleInv, serial_flush
    PROVE  ConsoleInv'
<1>a. ConsoleType /\ OutputOK /\ txq # <<>>
  BY DEF ConsoleInv, serial_flush
<1>1. InputOK'
  BY InputFrame DEF ConsoleInv, serial_flush, inputVars
<1>2. ConsoleType'
  <2>1. <<>> \in Seq(Nat) /\ sent \o txq \in Seq(Nat)
    BY <1>a DEF ConsoleType
  <2> QED
    BY <1>a, <2>1 DEF ConsoleType, serial_flush
<1>3. ArmedOK'
  BY DEF ConsoleInv, ArmedOK, serial_flush, intq_full
<1>4. written' = sent' \o txq'
  BY <1>a, <1>2 DEF ConsoleType, OutputOK, serial_flush
<1>5. OutputOK'
  BY <1>a, <1>4 DEF OutputOK, serial_flush, NextByte
<1> QED
  BY <1>1, <1>2, <1>3, <1>5 DEF ConsoleInv

(* serial_init_queue() changes the mode while the queue is empty, and arms *)
(* the interrupts.                                                         *)
LEMMA InitQueueStep ==
    ASSUME ConsoleInv, serial_init_queue
    PROVE  ConsoleInv'
<1>1. InputOK'
  BY InputFrame DEF ConsoleInv, serial_init_queue, inputVars
<1>2. ConsoleType'
  BY DEF ConsoleInv, ConsoleType, serial_init_queue
<1>3. ArmedOK'
  BY Armed DEF ArmedOK, serial_init_queue, intq_full
<1>4. OutputOK'
  BY DEF ConsoleInv, OutputOK, serial_init_queue, NextByte, intq_full
<1> QED
  BY <1>1, <1>2, <1>3, <1>4 DEF ConsoleInv

(* A byte that arrives at the UART changes no queue. *)
LEMMA ArrivesStep ==
    ASSUME ConsoleInv, ByteArrives
    PROVE  ConsoleInv'
<1>1. InputOK'
  BY InputFrame DEF ConsoleInv, ByteArrives, inputVars
<1>2. ConsoleType'
  BY DEF ConsoleInv, ConsoleType, ByteArrives
<1>3. ArmedOK'
  BY DEF ConsoleInv, ArmedOK, ByteArrives, intq_full
<1>4. OutputOK'
  BY OutputFrame DEF ConsoleInv, ByteArrives, outputVars
<1> QED
  BY <1>1, <1>2, <1>3, <1>4 DEF ConsoleInv

(* Nor does a shift key or caps lock. *)
LEMMA ModifierStep ==
    ASSUME ConsoleInv, ModifierKey
    PROVE  ConsoleInv'
<1>1. InputOK'
  BY InputFrame DEF ConsoleInv, ModifierKey, inputVars
<1>2. ConsoleType'
  BY DEF ConsoleInv, ConsoleType, ModifierKey
<1>3. ArmedOK'
  BY DEF ConsoleInv, ArmedOK, ModifierKey, intq_full
<1>4. OutputOK'
  BY OutputFrame DEF ConsoleInv, ModifierKey, outputVars
<1> QED
  BY <1>1, <1>2, <1>3, <1>4 DEF ConsoleInv

-----------------------------------------------------------------------------
(* a byte is accepted and the waiting reader, if any, is woken *)
LEMMA AcceptKeeps ==
    ASSUME ConsoleInv, NEW c \in Nat, in_buf' = Append(in_buf, c), taken' = Append(taken, c),
           SignalReader(reader), UNCHANGED <<in_lock, lock_queue, got>>
    PROVE  /\ InputOK' /\ in_buf' \in Seq(Nat) /\ taken' \in Seq(Nat)
           /\ reader' \in [Reader -> ReaderState] /\ not_empty' = Nobody
<1>a. /\ ConsoleType /\ InputOK
      /\ in_buf \in Seq(Nat) /\ got \in Seq(Nat) /\ taken \in Seq(Nat)
  BY DEF ConsoleInv, ConsoleType
<1>1. taken' = got' \o in_buf'
  <2>1. got \o Append(in_buf, c) = Append(got \o in_buf, c)
    BY <1>a, AppendRight
  <2> QED
    BY <2>1, <1>a DEF InputOK
<1>2. in_buf' \in Seq(Nat) /\ taken' \in Seq(Nat) /\ not_empty' = Nobody
  BY <1>a DEF SignalReader
<1>3. CASE not_empty = Nobody
  <2>1. reader' = reader
    BY <1>3 DEF SignalReader
  <2>2. \A r \in Reader : reader[r] # "waiting"
    BY <1>3, <1>a, ConsoleAssumption DEF InputOK
  <2>3. InputOK'
    BY <1>a, <1>1, <1>2, <2>1, <2>2 DEF InputOK
  <2> QED
    BY <1>a, <1>2, <2>1, <2>3 DEF ConsoleType
<1>4. CASE not_empty # Nobody
  <2>1. not_empty \in Reader /\ reader' = [reader EXCEPT ![not_empty] = "woken"]
    BY <1>a, <1>4 DEF SignalReader, ConsoleType
  <2>2. /\ \A r \in Reader : reader'[r] = IF r = not_empty THEN "woken" ELSE reader[r]
        /\ reader' \in [Reader -> ReaderState]
    BY <1>a, <2>1 DEF ConsoleType, ReaderState
  <2>3. reader[not_empty] = "waiting" /\ in_lock = 0
    BY <1>a, <1>4, <2>1 DEF InputOK
  <2>4. \A r \in Reader : reader'[r] # "waiting"
    BY <1>a, <2>2 DEF InputOK
  <2>5. \A r \in Reader : reader'[r] \in {"waiting", "woken"} <=> reader[r] \in {"waiting", "woken"}
    BY <2>2, <2>3
  <2>6. \A i \in 1 .. Len(lock_queue) : reader'[lock_queue[i]] = "queued"
    <3>1. \A i \in 1 .. Len(lock_queue) : lock_queue[i] \in Reader
      BY <1>a DEF ConsoleType
    <3> QED
      BY <1>a, <2>2, <2>3, <3>1 DEF InputOK
  <2>7. InputOK'
    BY <1>a, <1>1, <1>2, <2>4, <2>5, <2>6 DEF InputOK
  <2> QED
    BY <1>2, <2>2, <2>7
<1> QED
  BY <1>3, <1>4

(* A character key puts its letter into the buffer if there is room, and   *)
(* wakes the waiting reader.                                               *)
LEMMA KeyStep ==
    ASSUME ConsoleInv, KeyPressed
    PROVE  ConsoleInv'
<1> DEFINE c == IF (shift_keys # {}) = caps_lock THEN 97 ELSE 65
<1>a. /\ UNCHANGED <<in_lock, lock_queue, txq, not_full, tx_byte, rbr, arrived, mode, shift_keys,
                     caps_lock, got, sent, written, console_panic>>
      /\ c \in Nat
  BY DEF KeyPressed
<1>b. OutputOK'
  BY <1>a, OutputFrame DEF ConsoleInv, outputVars
<1>1. CASE intq_full(in_buf)
  <2>1. UNCHANGED <<in_buf, taken, reader, not_empty, ier>>
    BY <1>1 DEF KeyPressed
  <2>2. InputOK'
    BY <1>a, <2>1, InputFrame DEF ConsoleInv, inputVars
  <2>3. ConsoleType'
    BY <1>a, <2>1 DEF ConsoleInv, ConsoleType
  <2>4. ArmedOK'
    BY <1>a, <2>1 DEF ConsoleInv, ArmedOK, intq_full
  <2> QED
    BY <1>b, <2>2, <2>3, <2>4 DEF ConsoleInv
<1>2. CASE ~intq_full(in_buf)
  <2>1. /\ in_buf' = Append(in_buf, c) /\ taken' = Append(taken, c)
        /\ SignalReader(reader) /\ Notify(txq, in_buf')
    BY <1>2 DEF KeyPressed
  <2> HIDE DEF c
  <2>2. /\ InputOK' /\ in_buf' \in Seq(Nat) /\ taken' \in Seq(Nat)
        /\ reader' \in [Reader -> ReaderState] /\ not_empty' = Nobody
    BY <1>a, <2>1, AcceptKeeps
  <2>3. ConsoleType'
    BY <1>a, <2>2 DEF ConsoleInv, ConsoleType
  <2>4. ArmedOK'
    BY <1>a, <2>1, Armed DEF ArmedOK, Notify, intq_full
  <2> QED
    BY <1>b, <2>2, <2>3, <2>4 DEF ConsoleInv
<1> QED
  BY <1>1, <1>2

(* serial_interrupt() receives and sends a byte, as there is room and work. *)
LEMMA SerialInterruptStep ==
    ASSUME ConsoleInv, NEW ready \in BOOLEAN, serial_interrupt(ready)
    PROVE  ConsoleInv'
<1> DEFINE receive == rbr # 0 /\ ~intq_full(in_buf)
           send == ready /\ txq # <<>>
<1>a. /\ UNCHANGED <<in_lock, lock_queue, tx_byte, arrived, mode, got, written>>
      /\ ConsoleType /\ InputOK /\ OutputOK
  BY DEF serial_interrupt, ConsoleInv
<1>b. /\ in_buf' = IF receive THEN Append(in_buf, rbr) ELSE in_buf
      /\ taken' = IF receive THEN Append(taken, rbr) ELSE taken
      /\ rbr' = IF receive THEN 0 ELSE rbr
      /\ IF receive THEN SignalReader(reader) ELSE UNCHANGED <<reader, not_empty>>
  BY DEF serial_interrupt
<1>c. /\ txq' = IF send THEN Tail(txq) ELSE txq
      /\ sent' = IF send THEN Append(sent, Head(txq)) ELSE sent
      /\ not_full' = (not_full /\ ~send)
      /\ ier' = write_ier(txq', in_buf')
  BY DEF serial_interrupt
<1>1. ArmedOK'
  BY <1>c, Armed DEF ArmedOK, intq_full
<1>2. /\ InputOK' /\ in_buf' \in Seq(Nat) /\ taken' \in Seq(Nat) /\ rbr' \in Nat
      /\ reader' \in [Reader -> ReaderState] /\ not_empty' \in Reader \cup {Nobody}
  <2>1. CASE receive
    BY <1>a, <1>b, <2>1, AcceptKeeps DEF ConsoleType
  <2>2. CASE ~receive
    BY <1>a, <1>b, <2>2, InputFrame DEF ConsoleType, inputVars
  <2> QED
    BY <2>1, <2>2
<1>3. /\ OutputOK' /\ txq' \in Seq(Nat) /\ sent' \in Seq(Nat) /\ not_full' \in BOOLEAN
  <2>1. CASE send
    <3>1. txq \in Seq(Nat) /\ sent \in Seq(Nat) /\ txq # <<>>
      BY <1>a, <2>1 DEF ConsoleType
    <3>a. Tail(txq) \in Seq(Nat) /\ Append(sent, Head(txq)) \in Seq(Nat)
      BY <3>1
    <3>2. /\ txq' = Tail(txq) /\ sent' = Append(sent, Head(txq)) /\ not_full' = FALSE
          /\ txq' \in Seq(Nat) /\ sent' \in Seq(Nat)
      BY <1>c, <2>1, <3>a
    <3>3. sent' \o txq' = sent \o txq
      BY <3>1, <3>2, MoveHead
    <3>4. mode # "POLL"
      BY <1>a, <3>1 DEF OutputOK
    <3> QED
      BY <1>a, <3>2, <3>3, <3>4 DEF OutputOK, NextByte
  <2>2. CASE ~send
    <3>1. txq' = txq /\ sent' = sent /\ not_full' = not_full
      BY <1>a, <1>c, <2>2 DEF ConsoleType
    <3> QED
      BY <1>a, <3>1, OutputFrame DEF ConsoleType, outputVars
  <2> QED
    BY <2>1, <2>2
<1>4. ConsoleType'
  BY <1>a, <1>2, <1>3 DEF ConsoleType
<1> QED
  BY <1>1, <1>2, <1>3, <1>4 DEF ConsoleInv

-----------------------------------------------------------------------------
(* The inductive invariant holds initially. *)
LEMMA ConsoleStart ==
    ASSUME ConsoleInit
    PROVE  ConsoleInv
<1>1. ConsoleType
  <2>1. <<>> \in Seq(Nat) /\ <<>> \in Seq(Reader)
    OBVIOUS
  <2> QED
    BY <2>1 DEF ConsoleInit, ConsoleType, ReaderState
<1>2. InputOK
  BY <1>1 DEF ConsoleInit, InputOK
<1>3. OutputOK
  BY <1>1 DEF ConsoleInit, OutputOK, NextByte
<1>4. ArmedOK
  BY DEF ConsoleInit, ArmedOK
<1> QED
  BY <1>1, <1>2, <1>3, <1>4 DEF ConsoleInv

(* Every step of the console keeps it. *)
LEMMA ConsoleStep ==
    ASSUME ConsoleInv, [ConsoleNext]_consoleVars
    PROVE  ConsoleInv'
<1>1. CASE UNCHANGED consoleVars
  <2>1. ConsoleType' /\ ArmedOK'
    BY <1>1 DEF consoleVars, ConsoleInv, ConsoleType, ArmedOK, intq_full
  <2>2. InputOK' /\ OutputOK'
    BY <1>1, InputFrame, OutputFrame DEF consoleVars, ConsoleInv, inputVars, outputVars
  <2> QED
    BY <2>1, <2>2 DEF ConsoleInv
<1>2. CASE ConsoleNext
  BY <1>2, GetcStep, ResumeStep, GrantedStep, PutcStep, PutWaitingStep, PutPolledStep, FlushStep,
     InitQueueStep, ArrivesStep, SerialInterruptStep, KeyStep, ModifierStep DEF ConsoleNext
<1> QED
  BY <1>1, <1>2

(* intq.c, input.c, serial.c: for any number of readers and any size of    *)
(* the queues, no byte is lost, repeated or reordered, no thread is        *)
(* recorded as waiting once what it waits for is there, and the interrupts *)
(* are armed for what can be done.                                         *)
THEOREM ConsoleCorrect == ConsoleSpec => []ConsoleExact
<1>1. ConsoleInit => ConsoleInv
  BY ConsoleStart
<1>2. ConsoleInv /\ [ConsoleNext]_consoleVars => ConsoleInv'
  BY ConsoleStep
<1>3. ConsoleInv => ConsoleExact
  BY ConsoleImplies
<1> QED
  BY <1>1, <1>2, <1>3, PTL DEF ConsoleSpec

-----------------------------------------------------------------------------
(***************************************************************************)
(* The round-robin scheduler and its semaphores, locks and condition       *)
(* variables.                                                              *)
(***************************************************************************)

ThreadSpec == RoundRobinInit /\ [][RoundRobinNext]_threadVars

(* the threads on a list, and a list that has nobody twice *)
OnList(q) == {q[i] : i \in 1 .. Len(q)}
Once(q) == \A i, j \in 1 .. Len(q) : q[i] = q[j] => i = j

(* Who is added to the end of a list is on it. *)
LEMMA OnListAppend ==
    ASSUME NEW S, NEW q \in Seq(S), NEW x \in S
    PROVE  /\ Append(q, x) \in Seq(S) /\ OnList(Append(q, x)) = OnList(q) \cup {x}
           /\ Once(q) /\ x \notin OnList(q) => Once(Append(q, x))
<1>1. /\ Append(q, x) \in Seq(S) /\ Len(Append(q, x)) = Len(q) + 1 /\ Len(q) \in Nat
      /\ \A i \in 1 .. Len(q) : Append(q, x)[i] = q[i]
      /\ Append(q, x)[Len(q) + 1] = x
  OBVIOUS
<1> DEFINE p == Append(q, x)
<1> HIDE DEF p
<1>2. ASSUME NEW y
      PROVE  y \in OnList(p) <=> y \in OnList(q) \cup {x}
  <2>1. y \in OnList(p) <=> \E i \in 1 .. Len(q) + 1 : p[i] = y
    BY <1>1 DEF OnList, p
  <2>2. y \in OnList(q) <=> \E i \in 1 .. Len(q) : q[i] = y
    BY DEF OnList
  <2>3. \A i \in 1 .. Len(q) + 1 : i \in 1 .. Len(q) \/ i = Len(q) + 1
    BY <1>1
  <2>4. Len(q) + 1 \in 1 .. Len(q) + 1 /\ \A i \in 1 .. Len(q) : i \in 1 .. Len(q) + 1
    BY <1>1
  <2> QED
    BY <1>1, <2>1, <2>2, <2>3, <2>4 DEF p
<1>3. ASSUME Once(q), x \notin OnList(q), NEW i \in 1 .. Len(p), NEW j \in 1 .. Len(p), p[i] = p[j]
      PROVE  i = j
  <2>1. \A k \in 1 .. Len(q) : q[k] # x
    BY <1>3 DEF OnList
  <2>2. Len(p) = Len(q) + 1 /\ p[Len(q) + 1] = x /\ \A k \in 1 .. Len(q) : p[k] = q[k]
    BY <1>1 DEF p
  <2>3. (i \in 1 .. Len(q) \/ i = Len(q) + 1) /\ (j \in 1 .. Len(q) \/ j = Len(q) + 1)
    BY <1>1, <2>2
  <2> QED
    BY <1>3, <2>1, <2>2, <2>3 DEF Once
<1> QED
  BY <1>1, <1>2, <1>3 DEF Once, p

(* The first on a list leaves it. *)
LEMMA OnListTail ==
    ASSUME NEW S, NEW q \in Seq(S), q # <<>>
    PROVE  /\ Head(q) = q[1] /\ Head(q) \in S /\ Head(q) \in OnList(q) /\ Len(q) \in Nat \ {0}
           /\ Tail(q) \in Seq(S) /\ Len(Tail(q)) = Len(q) - 1
           /\ \A i \in 1 .. Len(Tail(q)) : Tail(q)[i] = q[i + 1] /\ i + 1 \in 1 .. Len(q)
           /\ OnList(q) = OnList(Tail(q)) \cup {Head(q)}
           /\ Once(q) => Once(Tail(q)) /\ Head(q) \notin OnList(Tail(q))
<1>1. /\ Head(q) = q[1] /\ Head(q) \in S /\ Len(q) \in Nat \ {0}
      /\ Tail(q) \in Seq(S) /\ Len(Tail(q)) = Len(q) - 1
      /\ \A i \in 1 .. Len(Tail(q)) : Tail(q)[i] = q[i + 1] /\ i + 1 \in 1 .. Len(q)
  OBVIOUS
<1> DEFINE p == Tail(q)
<1> HIDE DEF p
<1>2. /\ Len(p) = Len(q) - 1 /\ Len(q) \in Nat \ {0} /\ Len(p) \in Nat
      /\ \A i \in 1 .. Len(p) : p[i] = q[i + 1] /\ i + 1 \in 1 .. Len(q)
  BY <1>1 DEF p
<1>3. ASSUME NEW y
      PROVE  y \in OnList(q) <=> y \in OnList(p) \cup {q[1]}
  <2>1. y \in OnList(p) <=> \E i \in 1 .. Len(p) : p[i] = y
    BY DEF OnList
  <2>2. y \in OnList(q) <=> \E i \in 1 .. Len(q) : q[i] = y
    BY DEF OnList
  <2>3. ASSUME NEW i \in 1 .. Len(q)
        PROVE  i = 1 \/ (i - 1 \in 1 .. Len(p) /\ p[i - 1] = q[i])
    BY <1>2
  <2>4. 1 \in 1 .. Len(q)
    BY <1>2
  <2> QED
    BY <1>2, <2>1, <2>2, <2>3, <2>4
<1>4. ASSUME Once(q)
      PROVE  Once(p) /\ q[1] \notin OnList(p)
  <2>1. ASSUME NEW i \in 1 .. Len(p)
        PROVE  p[i] # q[1]
    <3>1. 1 \in 1 .. Len(q) /\ i + 1 \in 1 .. Len(q) /\ p[i] = q[i + 1] /\ i + 1 # 1
      BY <1>2
    <3> QED
      BY <1>4, <3>1 DEF Once
  <2>2. ASSUME NEW i \in 1 .. Len(p), NEW j \in 1 .. Len(p), p[i] = p[j]
        PROVE  i = j
    <3>1. i + 1 \in 1 .. Len(q) /\ j + 1 \in 1 .. Len(q) /\ q[i + 1] = q[j + 1]
      BY <1>2, <2>2
    <3>2. i + 1 = j + 1
      BY <1>4, <3>1 DEF Once
    <3> QED
      BY <3>2
  <2> QED
    BY <2>1, <2>2 DEF Once, OnList
<1>5. q[1] \in OnList(q)
  BY <1>2 DEF OnList
<1> QED
  BY <1>1, <1>3, <1>4, <1>5 DEF p

(* How often somebody is on a list that has nobody twice. *)
LEMMA OccurrencesAre ==
    ASSUME NEW S, NEW q \in Seq(S), Once(q), NEW x
    PROVE  Occurrences(x, q) = IF x \in OnList(q) THEN 1 ELSE 0
<1>1. DOMAIN q = 1 .. Len(q)
  OBVIOUS
<1>2. CASE x \in OnList(q)
  <2>1. PICK i \in 1 .. Len(q) : q[i] = x
    BY <1>2 DEF OnList
  <2>2. {j \in DOMAIN q : q[j] = x} = {i}
    BY <1>1, <2>1 DEF Once
  <2> QED
    BY <1>2, <2>2, FS_Singleton DEF Occurrences
<1>3. CASE x \notin OnList(q)
  <2>1. {j \in DOMAIN q : q[j] = x} = {}
    BY <1>1, <1>3 DEF OnList
  <2> QED
    BY <1>3, <2>1, FS_EmptySet DEF Occurrences
<1> QED
  BY <1>2, <1>3

(* A list of threads that has nobody twice is no longer than their number. *)
LEMMA OnceLen ==
    ASSUME NEW q \in Seq(KThread), Once(q)
    PROVE  Len(q) <= Cardinality(KThread) /\ Cardinality(KThread) \in Nat /\ Len(q) \in Nat
<1>1. Len(q) \in Nat /\ DOMAIN q = 1 .. Len(q) /\ q \in [1 .. Len(q) -> KThread]
  OBVIOUS
<1>2. q \in Injection(1 .. Len(q), KThread)
  BY <1>1 DEF Injection, IsInjective, Once
<1>3. IsFiniteSet(1 .. Len(q)) /\ Cardinality(1 .. Len(q)) = Len(q)
  BY <1>1, FS_Interval
<1>4. IsFiniteSet(KThread)
  BY RoundRobinAssumption
<1>5. Cardinality(1 .. Len(q)) <= Cardinality(KThread)
  BY <1>2, <1>4, FS_Injection
<1> QED
  BY <1>1, <1>3, <1>4, <1>5, FS_CardinalityType

-----------------------------------------------------------------------------
(* A sequence is given by its elements. *)
LEMMA Listed ==
    ASSUME NEW S, NEW a \in S, NEW b \in S, NEW c \in S, NEW d \in S, NEW e \in S, NEW f \in S,
           NEW p \in Seq(S)
    PROVE  /\ Len(p) = 1 /\ p[1] = a
              => p = <<a>>
           /\ Len(p) = 2 /\ p[1] = a /\ p[2] = b
              => p = <<a, b>>
           /\ Len(p) = 3 /\ p[1] = a /\ p[2] = b /\ p[3] = c
              => p = <<a, b, c>>
           /\ Len(p) = 4 /\ p[1] = a /\ p[2] = b /\ p[3] = c /\ p[4] = d
              => p = <<a, b, c, d>>
           /\ Len(p) = 5 /\ p[1] = a /\ p[2] = b /\ p[3] = c /\ p[4] = d /\ p[5] = e
              => p = <<a, b, c, d, e>>
           /\ Len(p) = 6 /\ p[1] = a /\ p[2] = b /\ p[3] = c /\ p[4] = d /\ p[5] = e /\ p[6] = f
              => p = <<a, b, c, d, e, f>>
<1>1. ASSUME Len(p) = 1, p[1] = a
      PROVE  p = <<a>>
  <2>1. <<a>> \in Seq(S) /\ Len(<<a>>) = 1
    OBVIOUS
  <2>2. \A i \in 1 .. 1 : p[i] = <<a>>[i]
    BY <1>1
  <2> QED
    BY <1>1, <2>1, <2>2, SeqEqual
<1>2. ASSUME Len(p) = 2, p[1] = a, p[2] = b
      PROVE  p = <<a, b>>
  <2>1. <<a, b>> \in Seq(S) /\ Len(<<a, b>>) = 2
    OBVIOUS
  <2>2. \A i \in 1 .. 2 : p[i] = <<a, b>>[i]
    BY <1>2
  <2> QED
    BY <1>2, <2>1, <2>2, SeqEqual
<1>3. ASSUME Len(p) = 3, p[1] = a, p[2] = b, p[3] = c
      PROVE  p = <<a, b, c>>
  <2>1. <<a, b, c>> \in Seq(S) /\ Len(<<a, b, c>>) = 3
    OBVIOUS
  <2>2. \A i \in 1 .. 3 : p[i] = <<a, b, c>>[i]
    BY <1>3
  <2> QED
    BY <1>3, <2>1, <2>2, SeqEqual
<1>4. ASSUME Len(p) = 4, p[1] = a, p[2] = b, p[3] = c, p[4] = d
      PROVE  p = <<a, b, c, d>>
  <2>1. <<a, b, c, d>> \in Seq(S) /\ Len(<<a, b, c, d>>) = 4
    OBVIOUS
  <2>2. \A i \in 1 .. 4 : p[i] = <<a, b, c, d>>[i]
    BY <1>4
  <2> QED
    BY <1>4, <2>1, <2>2, SeqEqual
<1>5. ASSUME Len(p) = 5, p[1] = a, p[2] = b, p[3] = c, p[4] = d, p[5] = e
      PROVE  p = <<a, b, c, d, e>>
  <2>1. <<a, b, c, d, e>> \in Seq(S) /\ Len(<<a, b, c, d, e>>) = 5
    OBVIOUS
  <2>2. \A i \in 1 .. 5 : p[i] = <<a, b, c, d, e>>[i]
    BY <1>5
  <2> QED
    BY <1>5, <2>1, <2>2, SeqEqual
<1>6. ASSUME Len(p) = 6, p[1] = a, p[2] = b, p[3] = c, p[4] = d, p[5] = e, p[6] = f
      PROVE  p = <<a, b, c, d, e, f>>
  <2>1. <<a, b, c, d, e, f>> \in Seq(S) /\ Len(<<a, b, c, d, e, f>>) = 6
    OBVIOUS
  <2>2. \A i \in 1 .. 6 : p[i] = <<a, b, c, d, e, f>>[i]
    BY <1>6
  <2> QED
    BY <1>6, <2>1, <2>2, SeqEqual
<1> QED
  BY <1>1, <1>2, <1>3, <1>4, <1>5, <1>6

(* Sequences that are given by their elements, put together. *)
LEMMA Join10 ==
    ASSUME NEW a
    PROVE  <<a>> \o <<>> = <<a>>
<1> DEFINE S == {a}
           p == <<a>> \o <<>>
<1>1. p \in Seq(S) /\ Len(p) = 1
  OBVIOUS
<1>2. p[1] = a
  OBVIOUS
<1>3. a \in S
  OBVIOUS
<1> HIDE DEF p, S
<1>4. p = <<a>>
  BY <1>1, <1>2, <1>3, Listed
<1> QED
  BY <1>4 DEF p

(* One step and one. *)
LEMMA Join11 ==
    ASSUME NEW a, NEW b
    PROVE  <<a>> \o <<b>> = <<a, b>>
<1> DEFINE S == {a, b}
           p == <<a>> \o <<b>>
<1>1. p \in Seq(S) /\ Len(p) = 2
  OBVIOUS
<1>2. p[1] = a /\ p[2] = b
  OBVIOUS
<1>3. a \in S /\ b \in S
  OBVIOUS
<1> HIDE DEF p, S
<1>4. p = <<a, b>>
  BY <1>1, <1>2, <1>3, Listed
<1> QED
  BY <1>4 DEF p

(* One step and two. *)
LEMMA Join12 ==
    ASSUME NEW a, NEW b, NEW c
    PROVE  <<a>> \o <<b, c>> = <<a, b, c>>
<1> DEFINE S == {a, b, c}
           p == <<a>> \o <<b, c>>
<1>1. p \in Seq(S) /\ Len(p) = 3
  OBVIOUS
<1>2. p[1] = a /\ p[2] = b /\ p[3] = c
  OBVIOUS
<1>3. a \in S /\ b \in S /\ c \in S
  OBVIOUS
<1> HIDE DEF p, S
<1>4. p = <<a, b, c>>
  BY <1>1, <1>2, <1>3, Listed
<1> QED
  BY <1>4 DEF p

(* Two steps and two. *)
LEMMA Join22 ==
    ASSUME NEW a, NEW b, NEW c, NEW d
    PROVE  <<a, b>> \o <<c, d>> = <<a, b, c, d>>
<1> DEFINE S == {a, b, c, d}
           p == <<a, b>> \o <<c, d>>
<1>1. p \in Seq(S) /\ Len(p) = 4
  OBVIOUS
<1>2. p[1] = a /\ p[2] = b /\ p[3] = c /\ p[4] = d
  OBVIOUS
<1>3. a \in S /\ b \in S /\ c \in S /\ d \in S
  OBVIOUS
<1> HIDE DEF p, S
<1>4. p = <<a, b, c, d>>
  BY <1>1, <1>2, <1>3, Listed
<1> QED
  BY <1>4 DEF p

(* Three steps and one. *)
LEMMA Join31 ==
    ASSUME NEW a, NEW b, NEW c, NEW d
    PROVE  <<a, b, c>> \o <<d>> = <<a, b, c, d>>
<1> DEFINE S == {a, b, c, d}
           p == <<a, b, c>> \o <<d>>
<1>1. p \in Seq(S) /\ Len(p) = 4
  OBVIOUS
<1>2. p[1] = a /\ p[2] = b /\ p[3] = c /\ p[4] = d
  OBVIOUS
<1>3. a \in S /\ b \in S /\ c \in S /\ d \in S
  OBVIOUS
<1> HIDE DEF p, S
<1>4. p = <<a, b, c, d>>
  BY <1>1, <1>2, <1>3, Listed
<1> QED
  BY <1>4 DEF p

(* Four steps and one. *)
LEMMA Join41 ==
    ASSUME NEW a, NEW b, NEW c, NEW d, NEW e
    PROVE  <<a, b, c, d>> \o <<e>> = <<a, b, c, d, e>>
<1> DEFINE S == {a, b, c, d, e}
           p == <<a, b, c, d>> \o <<e>>
<1>1. p \in Seq(S) /\ Len(p) = 5
  OBVIOUS
<1>2. p[1] = a /\ p[2] = b /\ p[3] = c /\ p[4] = d /\ p[5] = e
  OBVIOUS
<1>3. a \in S /\ b \in S /\ c \in S /\ d \in S /\ e \in S
  OBVIOUS
<1> HIDE DEF p, S
<1>4. p = <<a, b, c, d, e>>
  BY <1>1, <1>2, <1>3, Listed
<1> QED
  BY <1>4 DEF p

(* Four steps and two. *)
LEMMA Join42 ==
    ASSUME NEW a, NEW b, NEW c, NEW d, NEW e, NEW f
    PROVE  <<a, b, c, d>> \o <<e, f>> = <<a, b, c, d, e, f>>
<1> DEFINE S == {a, b, c, d, e, f}
           p == <<a, b, c, d>> \o <<e, f>>
<1>1. p \in Seq(S) /\ Len(p) = 6
  OBVIOUS
<1>2. p[1] = a /\ p[2] = b /\ p[3] = c /\ p[4] = d /\ p[5] = e /\ p[6] = f
  OBVIOUS
<1>3. a \in S /\ b \in S /\ c \in S /\ d \in S /\ e \in S /\ f \in S
  OBVIOUS
<1> HIDE DEF p, S
<1>4. p = <<a, b, c, d, e, f>>
  BY <1>1, <1>2, <1>3, Listed
<1> QED
  BY <1>4 DEF p

(* Five steps and none. *)
LEMMA Join50 ==
    ASSUME NEW a, NEW b, NEW c, NEW d, NEW e
    PROVE  <<a, b, c, d, e>> \o <<>> = <<a, b, c, d, e>>
<1> DEFINE S == {a, b, c, d, e}
           p == <<a, b, c, d, e>> \o <<>>
<1>1. p \in Seq(S) /\ Len(p) = 5
  OBVIOUS
<1>2. p[1] = a /\ p[2] = b /\ p[3] = c /\ p[4] = d /\ p[5] = e
  OBVIOUS
<1>3. a \in S /\ b \in S /\ c \in S /\ d \in S /\ e \in S
  OBVIOUS
<1> HIDE DEF p, S
<1>4. p = <<a, b, c, d, e>>
  BY <1>1, <1>2, <1>3, Listed
<1> QED
  BY <1>4 DEF p

-----------------------------------------------------------------------------
(* the steps a thread may still have to do *)
Plain(t) == {<<>>, <<<<"down", "sema">>>>, <<<<"retry", "sema">>>>, <<<<"up", "sema">>>>,
             <<<<"yield", t>>>>, <<<<"sleep", t>>>>, <<<<"create", t>>>>, <<<<"exit", t>>>>,
             <<<<"signal", "once">>>>, <<<<"signal", "all">>>>}

Raising(u) == {<<<<"up", u>>>>, <<<<"up", u>>, <<"signal", "all">>>>}

Locking == {<<<<"down", "lock">>, <<"hold", "lock">>>>, <<<<"retry", "lock">>, <<"hold", "lock">>>>,
            <<<<"hold", "lock">>>>, <<<<"drop", "lock">>, <<"up", "lock">>>>, <<<<"up", "lock">>>>}

Birth(u) ==
    {<<<<"down", "tid_lock">>, <<"hold", "tid_lock">>, <<"drop", "tid_lock">>, <<"up", "tid_lock">>,
       <<"unblock", u>>>>,
     <<<<"retry", "tid_lock">>, <<"hold", "tid_lock">>, <<"drop", "tid_lock">>, <<"up", "tid_lock">>,
       <<"unblock", u>>>>,
     <<<<"hold", "tid_lock">>, <<"drop", "tid_lock">>, <<"up", "tid_lock">>, <<"unblock", u>>>>,
     <<<<"drop", "tid_lock">>, <<"up", "tid_lock">>, <<"unblock", u>>>>,
     <<<<"up", "tid_lock">>, <<"unblock", u>>>>,
     <<<<"unblock", u>>>>}

Queueing(t) == <<<<"queue", t>>, <<"drop", "lock">>, <<"up", "lock">>, <<"down", t>>,
                 <<"down", "lock">>, <<"hold", "lock">>>>

(* from the entry in cond->waiters to the unit of the thread's semaphore *)
Window(t) ==
    {<<<<"drop", "lock">>, <<"up", "lock">>, <<"down", t>>, <<"down", "lock">>, <<"hold", "lock">>>>,
     <<<<"up", "lock">>, <<"down", t>>, <<"down", "lock">>, <<"hold", "lock">>>>,
     <<<<"down", t>>, <<"down", "lock">>, <<"hold", "lock">>>>,
     <<<<"retry", t>>, <<"down", "lock">>, <<"hold", "lock">>>>}

IsPlan(t, p) ==
    \/ p \in Plain(t) \/ p \in Locking \/ p = Queueing(t) \/ p \in Window(t)
    \/ \E u \in KThread : p \in Raising(u)
    \/ \E u \in KThread : p \in Birth(u)

(* plan p goes on with this step *)
Op(p, op, x) == p # <<>> /\ Head(p) = <<op, x>>

-----------------------------------------------------------------------------
Threads == KThread \cup {Idle}
Status == {"none", "BLOCKED", "READY", "RUNNING", "DYING"}

(* n time slices *)
Slices(n) == TIME_SLICE * n

(* what the scheduler keeps: who runs, who is ready and for how long *)
CoreOK ==
    /\ current \in Threads /\ status \in [Threads -> Status]
    /\ ready_list \in Seq(KThread) /\ Once(ready_list)
    /\ thread_ticks \in Nat /\ thread_ticks < TIME_SLICE
    /\ delay \in [KThread -> Nat]
    /\ \A t \in KThread : status[t] = "RUNNING" <=> current = t
    /\ \A t \in KThread : t \in OnList(ready_list) <=> status[t] = "READY"
    /\ \A t \in KThread : status[t] # "READY" => delay[t] = 0
    /\ \A i \in 1 .. Len(ready_list) :
          delay[ready_list[i]] + (TIME_SLICE - thread_ticks) + Slices(i - 1)
             <= Slices(Cardinality(KThread))

Blocked(t) == status[t] = "BLOCKED"
Off(t) == status[t] \in {"none", "DYING"}

CallType ==
    /\ DOMAIN todo = KThread
    /\ \A t \in KThread : IsPlan(t, todo[t]) /\ (Off(t) => todo[t] = <<>>)
    /\ value \in [SemName -> Nat] /\ waiters \in [SemName -> Seq(KThread)]
    /\ holder \in [LockName -> KThread \cup {Unheld}]
    /\ cond_waiters \in Seq(KThread)

(* who sleeps on a semaphore, and that a thread sleeps for a reason: on a  *)
(* semaphore, or because it is being created, by one thread                *)
WaitersOK ==
    /\ \A s \in SemName : Once(waiters[s])
    /\ \A s \in SemName, t \in KThread :
          t \in OnList(waiters[s]) <=> Blocked(t) /\ Op(todo[t], "retry", s)
    /\ \A t \in KThread : Blocked(t) =>
          \/ \E s \in SemName : Op(todo[t], "retry", s)
          \/ todo[t] = <<>> /\ \E u \in KThread : todo[u] \in Birth(t)
    /\ \A t, u \in KThread : todo[u] \in Birth(t) => Blocked(t) /\ todo[t] = <<>>
    /\ \A t, u, v \in KThread : todo[u] \in Birth(t) /\ todo[v] \in Birth(t) => u = v

IsInside(t, l) == holder[l] = t \/ Op(todo[t], "hold", l) \/ Op(todo[t], "up", l)

(* a lock's unit is there, or one thread has it *)
LockOK ==
    \A l \in LockName :
       /\ value[l] \in {0, 1}
       /\ \A t \in KThread : IsInside(t, l) => value[l] = 0
       /\ value[l] = 0 => \E t \in KThread : IsInside(t, l)
       /\ \A t, u \in KThread : IsInside(t, l) /\ IsInside(u, l) => t = u
       /\ \A t \in KThread : Op(todo[t], "up", l) => holder[l] # t
       /\ \A t \in KThread : Op(todo[t], "drop", l) => holder[l] = t
       /\ \A t \in KThread : Op(todo[t], "queue", t) => holder["lock"] = t

(* the units of a semaphore that threads sleep on belong to those woken *)
IsWoken(t, s) == ~Blocked(t) /\ Op(todo[t], "retry", s)
UnitsOK ==
    \A s \in SemName : waiters[s] # <<>> =>
       value[s] <= Cardinality({t \in KThread : IsWoken(t, s)})

(* the signal for a thread is in one place: its semaphore is queued, or    *)
(* somebody is about to raise it, or it has its unit                       *)
SignalOK ==
    /\ Once(cond_waiters)
    /\ \A t \in KThread : todo[t] \in Window(t) =>
          \/ t \in OnList(cond_waiters)
          \/ \E u \in KThread : Op(todo[u], "up", t)
          \/ value[t] = 1
    /\ \A t \in KThread : t \in OnList(cond_waiters) =>
          /\ todo[t] \in Window(t) /\ value[t] = 0
          /\ \A u \in KThread : ~Op(todo[u], "up", t)
    /\ \A t, u \in KThread : Op(todo[u], "up", t) => todo[t] \in Window(t) /\ value[t] = 0
    /\ \A t, u, v \in KThread : Op(todo[u], "up", t) /\ Op(todo[v], "up", t) => u = v
    /\ \A t \in KThread : value[t] # 0 => todo[t] \in Window(t) /\ value[t] = 1

CallsOK == CallType /\ WaitersOK /\ LockOK /\ UnitsOK /\ SignalOK

ThreadInv == CoreOK /\ CallsOK

-----------------------------------------------------------------------------
(* The next step of a plan is one step. *)
LEMMA AtOne ==
    ASSUME NEW p, NEW op, NEW x, NEW o, NEW y, Op(p, op, x), Op(p, o, y)
    PROVE  op = o /\ x = y
  BY DEF Op

(* The plans differ in their lengths and their last steps: a call that is  *)
(* nobody else's business is at most one step,                             *)
LEMMA PlainLen ==
    ASSUME NEW t, NEW p \in Plain(t)
    PROVE  Len(p) \in 0 .. 1 /\ (p # <<>> => Len(p) = 1)
  BY DEF Plain

(* A call of lock_acquire() or lock_release() is at most two steps, *)
LEMMA LockingLen ==
    ASSUME NEW p \in Locking
    PROVE  Len(p) \in 1 .. 2 /\ p # <<>>
  BY DEF Locking

(* and so is the rest of condvar_signal() or condvar_broadcast(). *)
LEMMA RaisingLen ==
    ASSUME NEW u, NEW p \in Raising(u)
    PROVE  Len(p) \in 1 .. 2 /\ p # <<>> /\ Head(p) = <<"up", u>>
  BY DEF Raising

(* condvar_wait() ends with taking the lock again, *)
LEMMA WindowLast ==
    ASSUME NEW t, NEW p \in Window(t)
    PROVE  /\ p # <<>>
           /\ \/ Len(p) = 5 /\ p[5] = <<"hold", "lock">>
              \/ Len(p) = 4 /\ p[4] = <<"hold", "lock">>
              \/ Len(p) = 3 /\ p[3] = <<"hold", "lock">>
<1>1. CASE p = <<<<"drop", "lock">>, <<"up", "lock">>, <<"down", t>>, <<"down", "lock">>, <<"hold", "lock">>>>
  <2>1. Len(p) = 5 /\ p # <<>>
    BY <1>1
  <2>2. p[5] = <<"hold", "lock">>
    BY <1>1
  <2> QED
    BY <2>1, <2>2
<1>2. CASE p = <<<<"up", "lock">>, <<"down", t>>, <<"down", "lock">>, <<"hold", "lock">>>>
  <2>1. Len(p) = 4 /\ p # <<>>
    BY <1>2
  <2>2. p[4] = <<"hold", "lock">>
    BY <1>2
  <2> QED
    BY <2>1, <2>2
<1>3. CASE p = <<<<"down", t>>, <<"down", "lock">>, <<"hold", "lock">>>>
  <2>1. Len(p) = 3 /\ p # <<>>
    BY <1>3
  <2>2. p[3] = <<"hold", "lock">>
    BY <1>3
  <2> QED
    BY <2>1, <2>2
<1>4. CASE p = <<<<"retry", t>>, <<"down", "lock">>, <<"hold", "lock">>>>
  <2>1. Len(p) = 3 /\ p # <<>>
    BY <1>4
  <2>2. p[3] = <<"hold", "lock">>
    BY <1>4
  <2> QED
    BY <2>1, <2>2
<1> QED
  BY <1>1, <1>2, <1>3, <1>4 DEF Window

(* and thread_create() with making the thread ready. *)
LEMMA BirthLast ==
    ASSUME NEW u, NEW p \in Birth(u)
    PROVE  /\ p # <<>>
           /\ \/ Len(p) = 5 /\ p[5] = <<"unblock", u>>
              \/ Len(p) = 4 /\ p[4] = <<"unblock", u>>
              \/ Len(p) = 3 /\ p[3] = <<"unblock", u>>
              \/ Len(p) = 2 /\ p[2] = <<"unblock", u>>
              \/ Len(p) = 1 /\ p[1] = <<"unblock", u>>
<1>1. CASE p = <<<<"down", "tid_lock">>, <<"hold", "tid_lock">>, <<"drop", "tid_lock">>, <<"up", "tid_lock">>, <<"unblock", u>>>>
  <2>1. Len(p) = 5 /\ p # <<>>
    BY <1>1
  <2>2. p[5] = <<"unblock", u>>
    BY <1>1
  <2> QED
    BY <2>1, <2>2
<1>2. CASE p = <<<<"retry", "tid_lock">>, <<"hold", "tid_lock">>, <<"drop", "tid_lock">>, <<"up", "tid_lock">>, <<"unblock", u>>>>
  <2>1. Len(p) = 5 /\ p # <<>>
    BY <1>2
  <2>2. p[5] = <<"unblock", u>>
    BY <1>2
  <2> QED
    BY <2>1, <2>2
<1>3. CASE p = <<<<"hold", "tid_lock">>, <<"drop", "tid_lock">>, <<"up", "tid_lock">>, <<"unblock", u>>>>
  <2>1. Len(p) = 4 /\ p # <<>>
    BY <1>3
  <2>2. p[4] = <<"unblock", u>>
    BY <1>3
  <2> QED
    BY <2>1, <2>2
<1>4. CASE p = <<<<"drop", "tid_lock">>, <<"up", "tid_lock">>, <<"unblock", u>>>>
  <2>1. Len(p) = 3 /\ p # <<>>
    BY <1>4
  <2>2. p[3] = <<"unblock", u>>
    BY <1>4
  <2> QED
    BY <2>1, <2>2
<1>5. CASE p = <<<<"up", "tid_lock">>, <<"unblock", u>>>>
  <2>1. Len(p) = 2 /\ p # <<>>
    BY <1>5
  <2>2. p[2] = <<"unblock", u>>
    BY <1>5
  <2> QED
    BY <2>1, <2>2
<1>6. CASE p = <<<<"unblock", u>>>>
  <2>1. Len(p) = 1 /\ p # <<>>
    BY <1>6
  <2>2. p[1] = <<"unblock", u>>
    BY <1>6
  <2> QED
    BY <2>1, <2>2
<1> QED
  BY <1>1, <1>2, <1>3, <1>4, <1>5, <1>6 DEF Birth

(* So the steps a thread does for others are told apart from its own. *)
LEMMA WindowApart ==
    ASSUME NEW t, NEW p \in Window(t)
    PROVE  /\ p \notin Plain(t) /\ p \notin Locking /\ p # Queueing(t)
           /\ \A u : p \notin Raising(u) /\ p \notin Birth(u)
<1>1. Len(p) \in 3 .. 5
  BY WindowLast
<1>2. Len(Queueing(t)) = 6
  BY DEF Queueing
<1>3. ASSUME NEW u, p \in Birth(u)
      PROVE  FALSE
  <2>1. <<"hold", "lock">> = <<"unblock", u>>
    BY <1>3, WindowLast, BirthLast
  <2> QED
    BY <2>1
<1>4. p \notin Plain(t)
  BY <1>1, PlainLen
<1>5. p \notin Locking
  BY <1>1, LockingLen
<1>6. p # Queueing(t)
  BY <1>1, <1>2
<1>7. \A u : p \notin Raising(u)
  BY <1>1, RaisingLen
<1> QED
  BY <1>3, <1>4, <1>5, <1>6, <1>7

(* What is left of thread_create() is no other call. *)
LEMMA BirthApart ==
    ASSUME NEW t, NEW u, NEW p \in Birth(u)
    PROVE  /\ p \notin Plain(t) /\ p \notin Locking /\ p # Queueing(t)
           /\ \A v : p \notin Raising(v)
<1>1. Len(Queueing(t)) = 6
  BY DEF Queueing
<1>2. p # Queueing(t)
  <2>1. Len(p) \in 1 .. 5
    BY BirthLast
  <2> QED
    BY <1>1, <2>1
<1>3. p \notin Plain(t)
  BY BirthLast DEF Plain
<1>4. p \notin Locking
  BY BirthLast DEF Locking
<1>5. \A v : p \notin Raising(v)
  BY BirthLast DEF Raising
<1> QED
  BY <1>2, <1>3, <1>4, <1>5

(* Next1() and Arg() in these terms *)
LEMMA AtIs ==
    ASSUME NEW t \in KThread, NEW op, IsPlan(t, todo[t]), Next1(t, op)
    PROVE  Op(todo[t], op, Arg(t))
<1> DEFINE p == todo[t]
<1>1. p # <<>> /\ Head(p)[1] = op
  BY DEF Next1
<1>2. Head(p) = <<Head(p)[1], Head(p)[2]>>
  <2> HIDE DEF p
  <2>1. CASE p \in Plain(t)
    BY <1>1, <2>1 DEF Plain
  <2>2. CASE p \in Locking
    BY <2>2 DEF Locking
  <2>3. CASE p = Queueing(t)
    BY <2>3 DEF Queueing
  <2>4. CASE p \in Window(t)
    BY <2>4 DEF Window
  <2>5. CASE \E u \in KThread : p \in Raising(u)
    BY <2>5 DEF Raising
  <2>6. CASE \E u \in KThread : p \in Birth(u)
    BY <2>6 DEF Birth
  <2>7. IsPlan(t, p)
    BY DEF p
  <2> QED
    BY <2>1, <2>2, <2>3, <2>4, <2>5, <2>6, <2>7 DEF IsPlan
<1> QED
  BY <1>1, <1>2 DEF Op, Arg

(* thread_create() has one thread to make ready. *)
LEMMA BirthOne ==
    ASSUME NEW p, NEW u, NEW v, p \in Birth(u), p \in Birth(v)
    PROVE  u = v
<1>1. <<"unblock", u>> = <<"unblock", v>>
  BY BirthLast
<1> QED
  BY <1>1

(* A plan that is neither of the two forms in which others are involved. *)
LEMMA Own ==
    ASSUME NEW t, NEW p,
           \/ p \in Plain(t) \/ p \in Locking \/ p = Queueing(t) \/ \E u : p \in Raising(u)
    PROVE  p \notin Window(t) /\ \A u : p \notin Birth(u)
  BY WindowApart, BirthApart

(* Who makes u ready does not do so for others, nor waits for a signal. *)
LEMMA BirthOnly ==
    ASSUME NEW t, NEW u, NEW p \in Birth(u)
    PROVE  p \notin Window(t) /\ \A v : p \in Birth(v) <=> v = u
<1>1. \A v : p \in Birth(v) => v = u
  BY BirthOne
<1>2. p \notin Window(t)
  BY WindowApart
<1> QED
  BY <1>1, <1>2

(* A thread with nothing to do is at no step; one at a step is at no other. *)
LEMMA AtOnly ==
    ASSUME NEW p
    PROVE  /\ p = <<>> => \A o, y : ~Op(p, o, y)
           /\ \A op, x : Op(p, op, x) => \A o, y : Op(p, o, y) <=> o = op /\ y = x
  BY DEF Op

(* What a thread that takes a unit of a semaphore goes on with. *)
LEMMA DownPlan ==
    ASSUME NEW t \in KThread, NEW p, IsPlan(t, p), NEW x,
           NEW op \in {"down", "retry"}, Op(p, op, x)
    PROVE  /\ x \in SemName /\ IsPlan(t, Tail(p)) /\ Tail(p) \notin Window(t)
           /\ \A u : p \in Birth(u) <=> Tail(p) \in Birth(u)
           /\ \/ x = "sema" /\ p \notin Window(t) /\ Tail(p) = <<>>
              \/ x \in LockName /\ Op(Tail(p), "hold", x) /\ p \notin Window(t)
              \/ x = t /\ p \in Window(t) /\ Op(Tail(p), "down", "lock")
<1> DEFINE r == Tail(p)
<1>1. CASE p \in Plain(t)
  <2>0. p = <<<<op, "sema">>>>
    BY <1>1 DEF Op, Plain
  <2>1. x = "sema" /\ r = <<>>
    BY <2>0 DEF Op
  <2> HIDE DEF r
  <2>2. r \in Plain(t)
    BY <2>1 DEF Plain
  <2>3. /\ p \notin Window(t) /\ \A u : p \notin Birth(u)
        /\ r \notin Window(t) /\ \A u : r \notin Birth(u)
    BY <1>1, <2>2, Own
  <2> QED
    BY <2>1, <2>2, <2>3 DEF r, IsPlan, SemName
<1>2. CASE p \in Locking
  <2>0. p = <<<<op, "lock">>, <<"hold", "lock">>>>
    BY <1>2 DEF Op, Locking
  <2>1. x = "lock" /\ r = <<<<"hold", "lock">>>>
    BY <2>0 DEF Op
  <2> HIDE DEF r
  <2>2. r \in Locking /\ Op(r, "hold", "lock")
    BY <2>1 DEF Locking, Op
  <2>3. /\ p \notin Window(t) /\ \A u : p \notin Birth(u)
        /\ r \notin Window(t) /\ \A u : r \notin Birth(u)
    BY <1>2, <2>2, Own
  <2> QED
    BY <2>1, <2>2, <2>3 DEF r, IsPlan, SemName, LockName
<1>3. CASE p = Queueing(t)
  BY <1>3 DEF Op, Queueing
<1>4. CASE p \in Window(t)
  <2>0. p = <<<<op, t>>, <<"down", "lock">>, <<"hold", "lock">>>>
    BY <1>4 DEF Op, Window
  <2>1. x = t /\ r = <<<<"down", "lock">>, <<"hold", "lock">>>>
    BY <2>0 DEF Op
  <2> HIDE DEF r
  <2>2. r \in Locking /\ Op(r, "down", "lock")
    BY <2>1 DEF Locking, Op
  <2>3. /\ \A u : p \notin Birth(u)
        /\ r \notin Window(t) /\ \A u : r \notin Birth(u)
    BY <1>4, <2>2, Own, WindowApart
  <2> QED
    BY <1>4, <2>1, <2>2, <2>3 DEF r, IsPlan, SemName
<1>5. ASSUME NEW u \in KThread, p \in Raising(u)
      PROVE  FALSE
  BY <1>5 DEF Op, Raising
<1>6. ASSUME NEW u \in KThread, p \in Birth(u)
      PROVE  /\ x = "tid_lock" /\ Op(r, "hold", "tid_lock") /\ r \in Birth(u)
  <2>0. p = <<<<op, "tid_lock">>, <<"hold", "tid_lock">>, <<"drop", "tid_lock">>, <<"up", "tid_lock">>, <<"unblock", u>>>>
    BY <1>6 DEF Op, Birth
  <2>1. x = "tid_lock" /\ r = <<<<"hold", "tid_lock">>, <<"drop", "tid_lock">>, <<"up", "tid_lock">>, <<"unblock", u>>>>
    BY <2>0 DEF Op
  <2> HIDE DEF r
  <2>2. r \in Birth(u)
    BY <2>1 DEF Birth
  <2>3. Op(r, "hold", "tid_lock")
    BY <2>1 DEF Op
  <2> QED
    BY <2>1, <2>2, <2>3
<1>7. ASSUME NEW u \in KThread, p \in Birth(u)
      PROVE  /\ x \in SemName /\ IsPlan(t, r) /\ r \notin Window(t) /\ p \notin Window(t)
             /\ \A v : p \in Birth(v) <=> r \in Birth(v)
             /\ x \in LockName /\ Op(r, "hold", x)
  <2> HIDE DEF r
  <2>1. x = "tid_lock" /\ Op(r, "hold", "tid_lock") /\ r \in Birth(u)
    BY <1>6, <1>7
  <2>2. /\ p \notin Window(t) /\ \A v : p \in Birth(v) <=> v = u
        /\ r \notin Window(t) /\ \A v : r \in Birth(v) <=> v = u
    BY <1>7, <2>1, BirthOnly
  <2> QED
    BY <2>1, <2>2 DEF IsPlan, SemName, LockName
<1> QED
  BY <1>1, <1>2, <1>3, <1>4, <1>5, <1>7 DEF IsPlan

(* And what it is at when there is no unit. *)
LEMMA RetryPlan ==
    ASSUME NEW t \in KThread, NEW p, IsPlan(t, p), NEW x,
           NEW op \in {"down", "retry"}, Op(p, op, x),
           NEW q, q = [p EXCEPT ![1] = <<"retry", x>>]
    PROVE  /\ IsPlan(t, q) /\ Op(q, "retry", x) /\ q # <<>>
           /\ p \in Window(t) <=> q \in Window(t)
           /\ \A u : p \in Birth(u) <=> q \in Birth(u)
<1>1. CASE p \in Plain(t)
  <2>1. q = <<<<"retry", "sema">>>> /\ x = "sema"
    BY <1>1 DEF Op, Plain
  <2>2. q \in Plain(t) /\ Op(q, "retry", x) /\ q # <<>>
    BY <2>1 DEF Plain, Op
  <2> QED
    BY <1>1, <2>2, Own DEF IsPlan
<1>2. CASE p \in Locking
  <2>1. q = <<<<"retry", "lock">>, <<"hold", "lock">>>> /\ x = "lock"
    BY <1>2 DEF Op, Locking
  <2>2. q \in Locking /\ Op(q, "retry", x) /\ q # <<>>
    BY <2>1 DEF Locking, Op
  <2> QED
    BY <1>2, <2>2, Own DEF IsPlan
<1>3. CASE p = Queueing(t)
  BY <1>3 DEF Op, Queueing
<1>4. CASE p \in Window(t)
  <2>1. q = <<<<"retry", t>>, <<"down", "lock">>, <<"hold", "lock">>>> /\ x = t
    BY <1>4 DEF Op, Window
  <2>2. q \in Window(t) /\ Op(q, "retry", x) /\ q # <<>>
    BY <2>1 DEF Window, Op
  <2> QED
    BY <1>4, <2>2, WindowApart DEF IsPlan
<1>5. ASSUME NEW u \in KThread, p \in Raising(u)
      PROVE  FALSE
  BY <1>5 DEF Op, Raising
<1>6. ASSUME NEW u \in KThread, p \in Birth(u)
      PROVE  Op(q, "retry", x) /\ q # <<>> /\ q \in Birth(u)
  <2>0. p = <<<<op, "tid_lock">>, <<"hold", "tid_lock">>, <<"drop", "tid_lock">>, <<"up", "tid_lock">>, <<"unblock", u>>>>
    BY <1>6 DEF Op, Birth
  <2>1. x = "tid_lock"
    BY <2>0 DEF Op
  <2>4. q = <<<<"retry", "tid_lock">>, <<"hold", "tid_lock">>, <<"drop", "tid_lock">>, <<"up", "tid_lock">>, <<"unblock", u>>>>
    BY <2>0, <2>1
  <2>2. q \in Birth(u)
    BY <2>4 DEF Birth
  <2>3. Op(q, "retry", x) /\ q # <<>>
    BY <2>1, <2>4 DEF Op
  <2> QED
    BY <2>2, <2>3
<1>7. ASSUME NEW u \in KThread, p \in Birth(u)
      PROVE  /\ IsPlan(t, q) /\ Op(q, "retry", x) /\ q # <<>>
             /\ p \notin Window(t) /\ q \notin Window(t)
             /\ \A v : p \in Birth(v) <=> q \in Birth(v)
  <2>1. Op(q, "retry", x) /\ q # <<>> /\ q \in Birth(u)
    BY <1>6, <1>7
  <2>2. p \notin Window(t) /\ \A v : p \in Birth(v) <=> v = u
    BY <1>7, BirthOnly
  <2>3. \A z : z \in Birth(u) => z \notin Window(t) /\ \A v : z \in Birth(v) <=> v = u
    BY BirthOnly
  <2> QED
    BY <2>1, <2>2, <2>3 DEF IsPlan
<1> QED
  BY <1>1, <1>2, <1>3, <1>4, <1>5, <1>7 DEF IsPlan

(* lock->holder is set once the unit was taken. *)
LEMMA HoldPlan ==
    ASSUME NEW t \in KThread, NEW p, IsPlan(t, p), NEW x, Op(p, "hold", x)
    PROVE  /\ x \in LockName /\ IsPlan(t, Tail(p))
           /\ p \notin Window(t) /\ Tail(p) \notin Window(t)
           /\ \A u : p \in Birth(u) <=> Tail(p) \in Birth(u)
           /\ Tail(p) = <<>> \/ Op(Tail(p), "drop", x)
<1> DEFINE r == Tail(p)
<1>1. CASE p \in Plain(t)
  BY <1>1 DEF Op, Plain
<1>2. CASE p \in Locking
  <2>0. p = <<<<"hold", "lock">>>>
    BY <1>2 DEF Op, Locking
  <2>1. x = "lock" /\ r = <<>>
    BY <2>0 DEF Op
  <2> HIDE DEF r
  <2>2. r \in Plain(t)
    BY <2>1 DEF Plain
  <2>3. /\ p \notin Window(t) /\ \A u : p \notin Birth(u)
        /\ r \notin Window(t) /\ \A u : r \notin Birth(u)
    BY <1>2, <2>2, Own
  <2> QED
    BY <2>1, <2>2, <2>3 DEF r, IsPlan, LockName
<1>3. CASE p = Queueing(t)
  BY <1>3 DEF Op, Queueing
<1>4. CASE p \in Window(t)
  BY <1>4 DEF Op, Window
<1>5. ASSUME NEW u \in KThread, p \in Raising(u)
      PROVE  FALSE
  BY <1>5 DEF Op, Raising
<1>6. ASSUME NEW u \in KThread, p \in Birth(u)
      PROVE  /\ x \in LockName /\ IsPlan(t, r) /\ p \notin Window(t) /\ r \notin Window(t)
             /\ \A v : p \in Birth(v) <=> r \in Birth(v)
             /\ Op(r, "drop", x)
  <2>0. p = <<<<"hold", "tid_lock">>, <<"drop", "tid_lock">>, <<"up", "tid_lock">>, <<"unblock", u>>>>
    BY <1>6 DEF Op, Birth
  <2>1. x = "tid_lock" /\ r = <<<<"drop", "tid_lock">>, <<"up", "tid_lock">>, <<"unblock", u>>>>
    BY <2>0 DEF Op
  <2> HIDE DEF r
  <2>2. r \in Birth(u)
    BY <2>1 DEF Birth
  <2>3. Op(r, "drop", x)
    BY <2>1 DEF Op
  <2>4. /\ p \notin Window(t) /\ \A v : p \in Birth(v) <=> v = u
        /\ r \notin Window(t) /\ \A v : r \in Birth(v) <=> v = u
    BY <1>6, <2>2, BirthOnly
  <2> QED
    BY <2>1, <2>2, <2>3, <2>4 DEF IsPlan, LockName
<1> QED
  BY <1>1, <1>2, <1>3, <1>4, <1>5, <1>6 DEF IsPlan

(* And cleared before the unit is given back. *)
LEMMA DropPlan ==
    ASSUME NEW t \in KThread, NEW p, IsPlan(t, p), NEW x, Op(p, "drop", x)
    PROVE  /\ x \in LockName /\ IsPlan(t, Tail(p)) /\ Op(Tail(p), "up", x)
           /\ p \in Window(t) <=> Tail(p) \in Window(t)
           /\ \A u : p \in Birth(u) <=> Tail(p) \in Birth(u)
<1> DEFINE r == Tail(p)
<1>1. CASE p \in Plain(t)
  BY <1>1 DEF Op, Plain
<1>2. CASE p \in Locking
  <2>0. p = <<<<"drop", "lock">>, <<"up", "lock">>>>
    BY <1>2 DEF Op, Locking
  <2>1. x = "lock" /\ r = <<<<"up", "lock">>>>
    BY <2>0 DEF Op
  <2> HIDE DEF r
  <2>2. r \in Locking /\ Op(r, "up", "lock")
    BY <2>1 DEF Locking, Op
  <2>3. /\ p \notin Window(t) /\ \A u : p \notin Birth(u)
        /\ r \notin Window(t) /\ \A u : r \notin Birth(u)
    BY <1>2, <2>2, Own
  <2> QED
    BY <2>1, <2>2, <2>3 DEF r, IsPlan, LockName
<1>3. CASE p = Queueing(t)
  BY <1>3 DEF Op, Queueing
<1>4. CASE p \in Window(t)
  <2>0. p = <<<<"drop", "lock">>, <<"up", "lock">>, <<"down", t>>, <<"down", "lock">>, <<"hold", "lock">>>>
    BY <1>4 DEF Op, Window
  <2>1. x = "lock" /\ r = <<<<"up", "lock">>, <<"down", t>>, <<"down", "lock">>, <<"hold", "lock">>>>
    BY <2>0 DEF Op
  <2> HIDE DEF r
  <2>2. r \in Window(t)
    BY <2>1 DEF Window
  <2>3. Op(r, "up", "lock")
    BY <2>1 DEF Op
  <2>4. (\A u : p \notin Birth(u)) /\ \A u : r \notin Birth(u)
    BY <1>4, <2>2, WindowApart
  <2> QED
    BY <1>4, <2>1, <2>2, <2>3, <2>4 DEF r, IsPlan, LockName
<1>5. ASSUME NEW u \in KThread, p \in Raising(u)
      PROVE  FALSE
  BY <1>5 DEF Op, Raising
<1>6. ASSUME NEW u \in KThread, p \in Birth(u)
      PROVE  /\ x \in LockName /\ IsPlan(t, r) /\ p \notin Window(t) /\ r \notin Window(t)
             /\ \A v : p \in Birth(v) <=> r \in Birth(v)
             /\ Op(r, "up", x)
  <2>0. p = <<<<"drop", "tid_lock">>, <<"up", "tid_lock">>, <<"unblock", u>>>>
    BY <1>6 DEF Op, Birth
  <2>1. x = "tid_lock" /\ r = <<<<"up", "tid_lock">>, <<"unblock", u>>>>
    BY <2>0 DEF Op
  <2> HIDE DEF r
  <2>2. r \in Birth(u)
    BY <2>1 DEF Birth
  <2>3. Op(r, "up", x)
    BY <2>1 DEF Op
  <2>4. /\ p \notin Window(t) /\ \A v : p \in Birth(v) <=> v = u
        /\ r \notin Window(t) /\ \A v : r \in Birth(v) <=> v = u
    BY <1>6, <2>2, BirthOnly
  <2> QED
    BY <2>1, <2>2, <2>3, <2>4 DEF IsPlan, LockName
<1> QED
  BY <1>1, <1>2, <1>3, <1>4, <1>5, <1>6 DEF IsPlan

(* What a thread that raises a semaphore goes on with. *)
LEMMA UpPlan ==
    ASSUME NEW t \in KThread, NEW p, IsPlan(t, p), NEW x, Op(p, "up", x)
    PROVE  /\ x \in SemName /\ IsPlan(t, Tail(p))
           /\ p \in Window(t) <=> Tail(p) \in Window(t)
           /\ \A u : p \in Birth(u) <=> Tail(p) \in Birth(u)
           /\ \/ Tail(p) = <<>>
              \/ Op(Tail(p), "down", t) /\ x \notin KThread
              \/ Op(Tail(p), "signal", "all")
              \/ \E u \in KThread : Op(Tail(p), "unblock", u) /\ x \notin KThread
           /\ x \in KThread => p \notin Window(t)
<1> DEFINE r == Tail(p)
<1>1. CASE p \in Plain(t)
  <2>0. p = <<<<"up", "sema">>>>
    BY <1>1 DEF Op, Plain
  <2>1. x = "sema" /\ r = <<>>
    BY <2>0 DEF Op
  <2> HIDE DEF r
  <2>2. r \in Plain(t)
    BY <2>1 DEF Plain
  <2>3. /\ p \notin Window(t) /\ \A u : p \notin Birth(u)
        /\ r \notin Window(t) /\ \A u : r \notin Birth(u)
    BY <1>1, <2>2, Own
  <2> QED
    BY <2>1, <2>2, <2>3, RoundRobinAssumption DEF r, IsPlan, SemName
<1>2. CASE p \in Locking
  <2>0. p = <<<<"up", "lock">>>>
    BY <1>2 DEF Op, Locking
  <2>1. x = "lock" /\ r = <<>>
    BY <2>0 DEF Op
  <2> HIDE DEF r
  <2>2. r \in Plain(t)
    BY <2>1 DEF Plain
  <2>3. /\ p \notin Window(t) /\ \A u : p \notin Birth(u)
        /\ r \notin Window(t) /\ \A u : r \notin Birth(u)
    BY <1>2, <2>2, Own
  <2> QED
    BY <2>1, <2>2, <2>3, RoundRobinAssumption DEF r, IsPlan, SemName, LockName
<1>3. CASE p = Queueing(t)
  BY <1>3 DEF Op, Queueing
<1>4. CASE p \in Window(t)
  <2>0. p = <<<<"up", "lock">>, <<"down", t>>, <<"down", "lock">>, <<"hold", "lock">>>>
    BY <1>4 DEF Op, Window
  <2>1. x = "lock" /\ r = <<<<"down", t>>, <<"down", "lock">>, <<"hold", "lock">>>>
    BY <2>0 DEF Op
  <2> HIDE DEF r
  <2>2. r \in Window(t)
    BY <2>1 DEF Window
  <2>3. Op(r, "down", t)
    BY <2>1 DEF Op
  <2>4. (\A u : p \notin Birth(u)) /\ \A u : r \notin Birth(u)
    BY <1>4, <2>2, WindowApart
  <2>5. x \in SemName /\ x \notin KThread
    BY <2>1, RoundRobinAssumption DEF SemName, LockName
  <2> QED
    BY <1>4, <2>2, <2>3, <2>4, <2>5 DEF r, IsPlan
<1>5. ASSUME NEW u \in KThread, p \in Raising(u)
      PROVE  /\ x = u /\ IsPlan(t, r) /\ p \notin Window(t) /\ r \notin Window(t)
             /\ \A v : p \notin Birth(v) /\ r \notin Birth(v)
             /\ r = <<>> \/ Op(r, "signal", "all")
  <2>1. x = u /\ (r = <<>> \/ r = <<<<"signal", "all">>>>)
    <3>1. CASE p = <<<<"up", u>>>>
      BY <3>1 DEF Op
    <3>2. CASE p = <<<<"up", u>>, <<"signal", "all">>>>
      BY <3>2 DEF Op
    <3> QED
      BY <1>5, <3>1, <3>2 DEF Raising
  <2> HIDE DEF r
  <2>2. r \in Plain(t)
    BY <2>1 DEF Plain
  <2>3. r = <<>> \/ Op(r, "signal", "all")
    BY <2>1 DEF Op
  <2>4. /\ p \notin Window(t) /\ \A v : p \notin Birth(v)
        /\ r \notin Window(t) /\ \A v : r \notin Birth(v)
    BY <1>5, <2>2, Own
  <2> QED
    BY <2>1, <2>2, <2>3, <2>4 DEF IsPlan
<1>6. ASSUME NEW u \in KThread, p \in Birth(u)
      PROVE  /\ x = "tid_lock" /\ IsPlan(t, r) /\ p \notin Window(t) /\ r \notin Window(t)
             /\ \A v : p \in Birth(v) <=> r \in Birth(v)
             /\ Op(r, "unblock", u)
  <2>0. p = <<<<"up", "tid_lock">>, <<"unblock", u>>>>
    BY <1>6 DEF Op, Birth
  <2>1. x = "tid_lock" /\ r = <<<<"unblock", u>>>>
    BY <2>0 DEF Op
  <2> HIDE DEF r
  <2>2. r \in Birth(u)
    BY <2>1 DEF Birth
  <2>3. Op(r, "unblock", u)
    BY <2>1 DEF Op
  <2>4. /\ p \notin Window(t) /\ \A v : p \in Birth(v) <=> v = u
        /\ r \notin Window(t) /\ \A v : r \in Birth(v) <=> v = u
    BY <1>6, <2>2, BirthOnly
  <2> QED
    BY <2>1, <2>2, <2>3, <2>4 DEF IsPlan
<1>7. "tid_lock" \in SemName /\ "tid_lock" \notin KThread /\ KThread \subseteq SemName
  BY RoundRobinAssumption DEF SemName, LockName
<1> QED
  BY <1>1, <1>2, <1>3, <1>4, <1>5, <1>6, <1>7 DEF IsPlan

(* condvar_wait() queues the thread, and then gives the lock back. *)
LEMMA QueuePlan ==
    ASSUME NEW t \in KThread, NEW p, IsPlan(t, p), NEW x, Op(p, "queue", x)
    PROVE  /\ x = t /\ IsPlan(t, Tail(p)) /\ Op(Tail(p), "drop", "lock")
           /\ p \notin Window(t) /\ Tail(p) \in Window(t)
           /\ \A u : p \notin Birth(u) /\ Tail(p) \notin Birth(u)
<1> DEFINE r == Tail(p)
<1>1. p = Queueing(t)
  <2>1. p \notin Plain(t)
    BY DEF Op, Plain
  <2>2. p \notin Locking
    BY DEF Op, Locking
  <2>3. p \notin Window(t)
    BY DEF Op, Window
  <2>4. \A u : p \notin Raising(u)
    BY DEF Op, Raising
  <2>5. \A u : p \notin Birth(u)
    BY DEF Op, Birth
  <2> QED
    BY <2>1, <2>2, <2>3, <2>4, <2>5 DEF IsPlan
<1>2. x = t
  BY <1>1 DEF Op, Queueing
<1>3. r = <<<<"drop", "lock">>, <<"up", "lock">>, <<"down", t>>, <<"down", "lock">>, <<"hold", "lock">>>>
  BY <1>1 DEF Queueing
<1> HIDE DEF r
<1>4. r \in Window(t)
  BY <1>3 DEF Window
<1>5. Op(r, "drop", "lock")
  BY <1>3 DEF Op
<1>6. p \notin Window(t) /\ \A u : p \notin Birth(u) /\ r \notin Birth(u)
  BY <1>1, <1>4, Own, WindowApart
<1> QED
  BY <1>2, <1>4, <1>5, <1>6 DEF r, IsPlan

(* condvar_signal() and condvar_broadcast() raise somebody's semaphore. *)
LEMMA SignalPlan ==
    ASSUME NEW t \in KThread, NEW p, IsPlan(t, p), NEW x, Op(p, "signal", x)
    PROVE  /\ p \notin Window(t) /\ \A u : p \notin Birth(u)
           /\ Tail(p) = <<>>
           /\ \A u \in KThread : \A q :
                 q = <<<<"up", u>>>> \o (IF x = "all" THEN p ELSE Tail(p)) =>
                    /\ IsPlan(t, q) /\ Op(q, "up", u)
                    /\ q \notin Window(t) /\ \A v : q \notin Birth(v)
<1>1. x \in {"once", "all"} /\ p = <<<<"signal", x>>>>
  <2>1. CASE p \in Plain(t)
    BY <2>1 DEF Op, Plain
  <2>2. p \notin Locking
    BY DEF Op, Locking
  <2>3. p \notin Window(t)
    BY DEF Op, Window
  <2>4. \A u : p \notin Raising(u)
    BY DEF Op, Raising
  <2>5. \A u : p \notin Birth(u)
    BY DEF Op, Birth
  <2>6. p # Queueing(t)
    BY DEF Op, Queueing
  <2> QED
    BY <2>1, <2>2, <2>3, <2>4, <2>5, <2>6 DEF IsPlan
<1>2. p \in Plain(t)
  BY <1>1 DEF Plain
<1>3. Tail(p) = <<>>
  BY <1>1
<1>4. ASSUME NEW u \in KThread,
             NEW q, q = <<<<"up", u>>>> \o (IF x = "all" THEN p ELSE Tail(p))
      PROVE  /\ IsPlan(t, q) /\ Op(q, "up", u)
             /\ q \notin Window(t) /\ \A v : q \notin Birth(v)
  <2>1. q = <<<<"up", u>>>> \/ q = <<<<"up", u>>, <<"signal", "all">>>>
    <3>1. CASE x = "all"
      <4>1. q = <<<<"up", u>>>> \o <<<<"signal", "all">>>>
        BY <1>1, <1>4, <3>1
      <4> QED
        BY <4>1, Join11
    <3>2. CASE x # "all"
      <4>1. q = <<<<"up", u>>>> \o <<>>
        BY <1>3, <1>4, <3>2
      <4> QED
        BY <4>1, Join10
    <3> QED
      BY <3>1, <3>2
  <2>2. \A z : z = <<<<"up", u>>>> \/ z = <<<<"up", u>>, <<"signal", "all">>>>
               => z \in Raising(u) /\ Op(z, "up", u)
    BY DEF Raising, Op
  <2>3. \A z : z \in Raising(u) => z \notin Window(t) /\ \A v : z \notin Birth(v)
    BY Own
  <2>4. q \in Raising(u) /\ Op(q, "up", u)
    BY <2>1, <2>2, Zenon
  <2> QED
    BY <2>3, <2>4 DEF IsPlan
<1> QED
  BY <1>2, <1>3, <1>4, Own

(* thread_create() has the tid to get and the new thread to make ready. *)
LEMMA CreatePlan ==
    ASSUME NEW t \in KThread, NEW p, IsPlan(t, p), NEW x, Op(p, "create", x)
    PROVE  /\ p \notin Window(t) /\ \A u : p \notin Birth(u)
           /\ Tail(p) = <<>>
           /\ \A u \in KThread : \A q : q = thread_create(u) \o Tail(p) =>
                 IsPlan(t, q) /\ Op(q, "down", "tid_lock") /\ q \in Birth(u)
<1>1. p = <<<<"create", t>>>>
  <2>1. CASE p \in Plain(t)
    BY <2>1 DEF Op, Plain
  <2>2. p \notin Locking
    BY DEF Op, Locking
  <2>3. p \notin Window(t)
    BY DEF Op, Window
  <2>4. \A u : p \notin Raising(u)
    BY DEF Op, Raising
  <2>5. \A u : p \notin Birth(u)
    BY DEF Op, Birth
  <2>6. p # Queueing(t)
    BY DEF Op, Queueing
  <2> QED
    BY <2>1, <2>2, <2>3, <2>4, <2>5, <2>6 DEF IsPlan
<1>2. p \in Plain(t)
  BY <1>1 DEF Plain
<1>3. Tail(p) = <<>>
  BY <1>1
<1>4. ASSUME NEW u \in KThread, NEW q, q = thread_create(u) \o Tail(p)
      PROVE  IsPlan(t, q) /\ Op(q, "down", "tid_lock") /\ q \in Birth(u)
  <2> DEFINE z == <<<<"down", "tid_lock">>, <<"hold", "tid_lock">>, <<"drop", "tid_lock">>, <<"up", "tid_lock">>,
                    <<"unblock", u>>>>
  <2>1. thread_create(u) = z
    <3> DEFINE a == <<"down", "tid_lock">>
               b == <<"hold", "tid_lock">>
               c == <<"drop", "tid_lock">>
               d == <<"up", "tid_lock">>
               e == <<"unblock", u>>
    <3>1. thread_create(u) = <<a, b>> \o <<c, d>> \o <<e>>
      BY DEF thread_create, lock_acquire, lock_release
    <3>2. z = <<a, b, c, d, e>>
      OBVIOUS
    <3> HIDE DEF a, b, c, d, e, z
    <3>3. <<a, b>> \o <<c, d>> = <<a, b, c, d>>
      BY Join22, Zenon
    <3>4. <<a, b, c, d>> \o <<e>> = <<a, b, c, d, e>>
      BY Join41, Zenon
    <3> QED
      BY <3>1, <3>2, <3>3, <3>4
  <2>2. z \o <<>> = z
    BY Join50
  <2>3. q = z
    BY <1>3, <1>4, <2>1, <2>2
  <2>4. z \in Birth(u)
    BY DEF Birth
  <2>5. Op(z, "down", "tid_lock")
    BY DEF Op
  <2> HIDE DEF z
  <2> QED
    BY <2>3, <2>4, <2>5 DEF IsPlan
<1> QED
  BY <1>2, <1>3, <1>4, Own

(* It ends with making the thread ready. *)
LEMMA UnblockPlan ==
    ASSUME NEW t \in KThread, NEW p, IsPlan(t, p), NEW x, Op(p, "unblock", x)
    PROVE  x \in KThread /\ p \in Birth(x) /\ Tail(p) = <<>>
<1>1. p \notin Plain(t)
  BY DEF Op, Plain
<1>2. p \notin Locking
  BY DEF Op, Locking
<1>3. p \notin Window(t)
  BY DEF Op, Window
<1>4. \A u : p \notin Raising(u)
  BY DEF Op, Raising
<1>5. p # Queueing(t)
  BY DEF Op, Queueing
<1>6. PICK u \in KThread : p \in Birth(u)
  BY <1>1, <1>2, <1>3, <1>4, <1>5 DEF IsPlan
<1>7. p = <<<<"unblock", x>>>> /\ x = u
  BY <1>6 DEF Op, Birth
<1> QED
  BY <1>6, <1>7

(* The other calls are one step. *)
LEMMA LastPlan ==
    ASSUME NEW t \in KThread, NEW p, IsPlan(t, p), NEW x, NEW op \in {"yield", "sleep", "exit"},
           Op(p, op, x)
    PROVE  p \notin Window(t) /\ (\A u : p \notin Birth(u)) /\ Tail(p) = <<>>
<1>1. p = <<<<op, t>>>> /\ p \in Plain(t)
  <2>1. CASE p \in Plain(t)
    BY <2>1 DEF Op, Plain
  <2>2. p \notin Locking
    BY DEF Op, Locking
  <2>3. p \notin Window(t)
    BY DEF Op, Window
  <2>4. \A u : p \notin Raising(u)
    BY DEF Op, Raising
  <2>5. \A u : p \notin Birth(u)
    BY DEF Op, Birth
  <2>6. p # Queueing(t)
    BY DEF Op, Queueing
  <2> QED
    BY <2>1, <2>2, <2>3, <2>4, <2>5, <2>6 DEF IsPlan
<1> QED
  BY <1>1, Own

(* A thread with nothing left to do. *)
LEMMA EmptyPlan ==
    ASSUME NEW t
    PROVE  /\ IsPlan(t, <<>>) /\ <<>> \notin Window(t) /\ \A u : <<>> \notin Birth(u)
           /\ \A o, y : ~Op(<<>>, o, y)
<1>1. <<>> \in Plain(t)
  BY DEF Plain
<1> QED
  BY <1>1, Own, AtOnly DEF IsPlan

(* The calls that a thread can make. *)
LEMMA CallPlan ==
    ASSUME NEW t \in KThread, NEW c \in Calls(t)
    PROVE  /\ IsPlan(t, c) /\ c # <<>> /\ c \notin Window(t) /\ \A u : c \notin Birth(u)
           /\ \A x : ~Op(c, "retry", x) /\ ~Op(c, "hold", x)
           /\ \A x : Op(c, "up", x) => x = "sema"
           /\ \A x : Op(c, "drop", x) => x = "lock" /\ holder["lock"] = t
           /\ \A x : Op(c, "queue", x) => x = t /\ holder["lock"] = t
<1>1. \/ c \in Plain(t) /\ c # <<>> /\ c # <<<<"retry", "sema">>>>
      \/ c = <<<<"down", "lock">>, <<"hold", "lock">>>>
      \/ c = <<<<"drop", "lock">>, <<"up", "lock">>>> /\ holder["lock"] = t
      \/ c = Queueing(t) /\ holder["lock"] = t
  <2>1. lock_release("lock") = <<<<"drop", "lock">>, <<"up", "lock">>>>
    BY DEF lock_release
  <2>2. lock_acquire("lock") = <<<<"down", "lock">>, <<"hold", "lock">>>>
    BY DEF lock_acquire
  <2>3. condvar_wait(t) = Queueing(t)
    <3> DEFINE a == <<"queue", t>>
               b == <<"drop", "lock">>
               g == <<"up", "lock">>
               d == <<"down", t>>
               e == <<"down", "lock">>
               f == <<"hold", "lock">>
    <3>1. condvar_wait(t) = <<a>> \o <<b, g>> \o <<d>> \o <<e, f>>
      BY <2>1, <2>2 DEF condvar_wait
    <3>2. Queueing(t) = <<a, b, g, d, e, f>>
      BY DEF Queueing
    <3> HIDE DEF a, b, d, e, f, g
    <3>3. <<a>> \o <<b, g>> = <<a, b, g>>
      BY Join12, Zenon
    <3>4. <<a, b, g>> \o <<d>> = <<a, b, g, d>>
      BY Join31, Zenon
    <3>5. <<a, b, g, d>> \o <<e, f>> = <<a, b, g, d, e, f>>
      BY Join42
    <3> QED
      BY <3>1, <3>2, <3>3, <3>4, <3>5
  <2>4. CASE c \in {<<<<"down", "sema">>>>, <<<<"yield", t>>>>, <<<<"sleep", t>>>>, <<<<"create", t>>>>,
                    <<<<"up", "sema">>>>, <<<<"signal", "once">>>>, <<<<"signal", "all">>>>, <<<<"exit", t>>>>}
    BY <2>4 DEF Plain
  <2> QED
    BY <2>1, <2>2, <2>3, <2>4 DEF Calls
<1>2. CASE c \in Plain(t) /\ c # <<>> /\ c # <<<<"retry", "sema">>>>
  <2>1. c \notin Window(t) /\ \A u : c \notin Birth(u)
    BY <1>2, Own
  <2>2. /\ \A x : ~Op(c, "retry", x) /\ ~Op(c, "hold", x)
        /\ \A x : Op(c, "up", x) => x = "sema"
        /\ \A x : ~Op(c, "drop", x) /\ ~Op(c, "queue", x)
    BY <1>2 DEF Plain, Op
  <2> QED
    BY <1>2, <2>1, <2>2 DEF IsPlan
<1>3. CASE c = <<<<"down", "lock">>, <<"hold", "lock">>>>
  <2>1. c \in Locking /\ Op(c, "down", "lock") /\ c # <<>>
    BY <1>3 DEF Locking, Op
  <2>2. \A o, y : Op(c, o, y) <=> o = "down" /\ y = "lock"
    BY <2>1, AtOnly
  <2>3. \A z : z \in Locking => IsPlan(t, z) /\ z \notin Window(t) /\ \A u : z \notin Birth(u)
    BY Own DEF IsPlan
  <2> QED
    BY <2>1, <2>2, <2>3
<1>4. CASE c = <<<<"drop", "lock">>, <<"up", "lock">>>> /\ holder["lock"] = t
  <2>1. c \in Locking /\ Op(c, "drop", "lock") /\ c # <<>>
    BY <1>4 DEF Locking, Op
  <2>2. \A o, y : Op(c, o, y) <=> o = "drop" /\ y = "lock"
    BY <2>1, AtOnly
  <2>3. \A z : z \in Locking => IsPlan(t, z) /\ z \notin Window(t) /\ \A u : z \notin Birth(u)
    BY Own DEF IsPlan
  <2> QED
    BY <1>4, <2>1, <2>2, <2>3
<1>5. CASE c = Queueing(t) /\ holder["lock"] = t
  <2>1. Op(c, "queue", t) /\ c # <<>>
    BY <1>5 DEF Queueing, Op
  <2>2. \A o, y : Op(c, o, y) <=> o = "queue" /\ y = t
    BY <2>1, AtOnly
  <2>3. \A z : z = Queueing(t) => IsPlan(t, z) /\ z \notin Window(t) /\ \A u : z \notin Birth(u)
    BY Own DEF IsPlan
  <2> QED
    BY <1>5, <2>1, <2>2, <2>3
<1> QED
  BY <1>1, <1>2, <1>3, <1>4, <1>5

-----------------------------------------------------------------------------
(* How time slices add up. *)
LEMMA SlicesAre ==
    ASSUME NEW i \in Nat
    PROVE  /\ TIME_SLICE \in Nat \ {0} /\ Slices(i) \in Nat /\ Slices(i + 1) = Slices(i) + TIME_SLICE
           /\ \A j \in Nat : i <= j => Slices(i) <= Slices(j)
<1>1. TIME_SLICE \in Nat \ {0}
  BY RoundRobinAssumption
<1>2. Slices(i) \in Nat /\ Slices(i + 1) = Slices(i) + TIME_SLICE
  BY <1>1 DEF Slices
<1>3. ASSUME NEW j \in Nat, i <= j
      PROVE  Slices(i) <= Slices(j)
  BY <1>1, <1>3 DEF Slices
<1> QED
  BY <1>1, <1>2, <1>3

(* A switch to the next thread of q, when st has nobody running and q has  *)
(* the ready threads, each with time left for those before it.             *)
LEMMA ScheduleKeeps ==
    ASSUME CoreOK, NEW st \in [Threads -> Status], NEW q \in Seq(KThread), Once(q),
           \A x \in KThread : x \in OnList(q) <=> st[x] = "READY",
           \A x \in KThread : st[x] # "RUNNING",
           Schedule(st, q), NEW n \in Nat, Ticks(n),
           \A i \in 1 .. Len(q) - 1 : delay'[q[i + 1]] + Slices(i) <= Slices(Cardinality(KThread))
    PROVE  /\ CoreOK'
           /\ current' \in KThread => st[current'] = "READY"
           /\ \A x \in KThread : status'[x] = IF x = current' THEN "RUNNING" ELSE st[x]
<1> DEFINE next == IF q = <<>> THEN Idle ELSE Head(q)
<1>0. /\ current' = next /\ thread_ticks' = 0
      /\ status' = [st EXCEPT ![next] = "RUNNING"]
      /\ ready_list' = IF q = <<>> THEN q ELSE Tail(q)
      /\ delay' = [t \in KThread |->
                     IF status[t] = "READY" /\ status'[t] = "READY" THEN delay[t] + n ELSE 0]
  BY DEF Schedule, Ticks
<1>1. /\ q # <<>> => /\ Head(q) \in KThread /\ Head(q) \in OnList(q)
                     /\ Tail(q) \in Seq(KThread) /\ Len(Tail(q)) = Len(q) - 1 /\ Len(q) \in Nat \ {0}
                     /\ \A i \in 1 .. Len(Tail(q)) : Tail(q)[i] = q[i + 1]
                     /\ OnList(q) = OnList(Tail(q)) \cup {Head(q)}
                     /\ Once(Tail(q)) /\ Head(q) \notin OnList(Tail(q))
      /\ Idle \notin KThread /\ TIME_SLICE \in Nat /\ TIME_SLICE > 0
  BY OnListTail, RoundRobinAssumption
<1>2. next \in Threads /\ (next \in KThread <=> q # <<>>)
  BY <1>1 DEF Threads
<1>3. /\ status' \in [Threads -> Status]
      /\ \A x \in KThread : status'[x] = IF x = next THEN "RUNNING" ELSE st[x]
  BY <1>0, <1>2 DEF Status, Threads
<1>4. /\ ready_list' \in Seq(KThread) /\ Once(ready_list')
      /\ \A x \in KThread : x \in OnList(ready_list') <=> x \in OnList(q) /\ x # next
  <2>1. CASE q = <<>>
    <3>1. \A x : x \notin OnList(q)
      BY <2>1 DEF OnList
    <3> QED
      BY <1>0, <2>1, <3>1
  <2>2. CASE q # <<>>
    BY <1>0, <1>1, <2>2
  <2> QED
    BY <2>1, <2>2
<1>5. \A x \in KThread : x \in OnList(ready_list') <=> status'[x] = "READY"
  BY <1>2, <1>3, <1>4
<1>6. \A x \in KThread : status'[x] = "RUNNING" <=> current' = x
  BY <1>0, <1>3
<1>7. delay' \in [KThread -> Nat] /\ \A x \in KThread : status'[x] # "READY" => delay'[x] = 0
  BY <1>0 DEF CoreOK
<1>8. ASSUME NEW i \in 1 .. Len(ready_list')
      PROVE  delay'[ready_list'[i]] + (TIME_SLICE - thread_ticks') + Slices(i - 1)
                <= Slices(Cardinality(KThread))
  <2>1. q # <<>> /\ ready_list' = Tail(q)
    BY <1>0, <1>8
  <2>2. i \in 1 .. Len(q) - 1 /\ ready_list'[i] = q[i + 1] /\ i - 1 \in Nat /\ q[i + 1] \in KThread
    BY <1>1, <1>8, <2>1
  <2>3. Slices(i) = Slices(i - 1) + TIME_SLICE /\ Slices(i - 1) \in Nat
    <3> DEFINE j == i - 1
    <3>1. j \in Nat /\ i = j + 1
      BY <2>2
    <3> HIDE DEF j
    <3>2. Slices(j + 1) = Slices(j) + TIME_SLICE /\ Slices(j) \in Nat
      BY <3>1, SlicesAre
    <3> QED
      BY <3>1, <3>2 DEF j
  <2>4. delay'[q[i + 1]] + Slices(i) <= Slices(Cardinality(KThread))
    BY <2>2
  <2>5. delay'[q[i + 1]] \in Nat
    BY <1>7, <2>2
  <2>6. Slices(Cardinality(KThread)) \in Nat
    BY SlicesAre, FS_CardinalityType, RoundRobinAssumption
  <2> QED
    BY <1>0, <1>1, <2>2, <2>3, <2>4, <2>5, <2>6
<1>9. current' \in Threads /\ thread_ticks' \in Nat /\ thread_ticks' < TIME_SLICE
  BY <1>0, <1>1, <1>2
<1>10. CoreOK'
  BY <1>3, <1>4, <1>5, <1>6, <1>7, <1>8, <1>9 DEF CoreOK
<1> QED
  BY <1>0, <1>1, <1>2, <1>3, <1>10

(* The numbers in what CoreOK says of the ready threads. *)
LEMMA ReadyNumbers ==
    ASSUME CoreOK, NEW i \in 1 .. Len(ready_list)
    PROVE  /\ ready_list[i] \in KThread /\ delay[ready_list[i]] \in Nat
           /\ TIME_SLICE - thread_ticks \in Nat \ {0} /\ i - 1 \in Nat /\ Slices(i - 1) \in Nat
           /\ Slices(Cardinality(KThread)) \in Nat
           /\ delay[ready_list[i]] + (TIME_SLICE - thread_ticks) + Slices(i - 1)
                <= Slices(Cardinality(KThread))
<1>1. ready_list \in Seq(KThread) /\ i \in Nat /\ i - 1 \in Nat
  BY DEF CoreOK
<1>2. ready_list[i] \in KThread
  BY <1>1
<1>3. \A j \in Nat : Slices(j) \in Nat
  BY SlicesAre
<1>4. Cardinality(KThread) \in Nat
  BY FS_CardinalityType, RoundRobinAssumption
<1>5. TIME_SLICE - thread_ticks \in Nat \ {0}
  BY RoundRobinAssumption DEF CoreOK
<1>6. delay[ready_list[i]] + (TIME_SLICE - thread_ticks) + Slices(i - 1)
        <= Slices(Cardinality(KThread))
  BY DEF CoreOK
<1>7. delay[ready_list[i]] \in Nat
  BY <1>2 DEF CoreOK
<1>8. Slices(i - 1) \in Nat
  BY <1>1, <1>3
<1>9. Slices(Cardinality(KThread)) \in Nat
  BY <1>3, <1>4
<1> QED
  BY <1>1, <1>2, <1>5, <1>6, <1>7, <1>8, <1>9

(* A step that neither switches nor changes who is ready. *)
LEMMA CoreStays ==
    ASSUME CoreOK, NEW n \in Nat, current' = current, ready_list' = ready_list,
           thread_ticks' = thread_ticks + n, thread_ticks' < TIME_SLICE,
           status' \in [Threads -> Status],
           \A x \in KThread : \/ status'[x] = status[x]
                              \/ status[x] \notin {"READY", "RUNNING"} /\ status'[x] \notin {"READY", "RUNNING"},
           Ticks(n)
    PROVE  CoreOK'
<1>1. /\ delay' \in [KThread -> Nat]
      /\ \A x \in KThread : status'[x] # "READY" => delay'[x] = 0
      /\ \A x \in KThread : delay'[x] <= delay[x] + n
  BY DEF CoreOK, Ticks
<1>2. ASSUME NEW i \in 1 .. Len(ready_list)
      PROVE  delay'[ready_list[i]] + (TIME_SLICE - thread_ticks') + Slices(i - 1)
                <= Slices(Cardinality(KThread))
  <2>1. thread_ticks \in Nat /\ TIME_SLICE \in Nat
    BY RoundRobinAssumption DEF CoreOK
  <2>2. /\ ready_list[i] \in KThread /\ delay[ready_list[i]] \in Nat /\ Slices(i - 1) \in Nat
        /\ Slices(Cardinality(KThread)) \in Nat
        /\ delay[ready_list[i]] + (TIME_SLICE - thread_ticks) + Slices(i - 1)
             <= Slices(Cardinality(KThread))
    BY ReadyNumbers
  <2>3. delay'[ready_list[i]] \in Nat /\ delay'[ready_list[i]] <= delay[ready_list[i]] + n
    BY <1>1, <2>2
  <2> DEFINE a == delay[ready_list[i]]
             b == delay'[ready_list[i]]
             c == Slices(i - 1)
             d == Slices(Cardinality(KThread))
             m == thread_ticks'
  <2>4. /\ a \in Nat /\ b \in Nat /\ c \in Nat /\ d \in Nat /\ b <= a + n
        /\ a + (TIME_SLICE - thread_ticks) + c <= d /\ m = thread_ticks + n
    BY <2>2, <2>3
  <2> HIDE DEF a, b, c, d, m
  <2>5. b + (TIME_SLICE - m) + c <= d
    BY <2>1, <2>4
  <2> QED
    BY <2>5 DEF a, b, c, d, m
<1>3. thread_ticks' \in Nat
  BY DEF CoreOK
<1>4. /\ \A x \in KThread : status'[x] = "RUNNING" <=> current' = x
      /\ \A x \in KThread : x \in OnList(ready_list') <=> status'[x] = "READY"
  BY DEF CoreOK
<1>5. current' \in Threads /\ ready_list' \in Seq(KThread) /\ Once(ready_list')
  BY DEF CoreOK
<1> QED
  BY <1>1, <1>2, <1>3, <1>4, <1>5 DEF CoreOK

(* thread_unblock() of a sleeping thread, which has nobody to switch to. *)
LEMMA CoreWakes ==
    ASSUME CoreOK, NEW t \in KThread, Blocked(t), thread_unblock(t), SameThread, Ticks(0)
    PROVE  /\ CoreOK'
           /\ \A x \in KThread : status'[x] = IF x = t THEN "READY" ELSE status[x]
<1> DEFINE q == ready_list
           p == Append(ready_list, t)
<1>1. /\ current' = current /\ thread_ticks' = thread_ticks /\ ready_list' = p
      /\ status' = [status EXCEPT ![t] = "READY"]
  BY DEF thread_unblock, SameThread
<1>2. t \in Threads /\ status \in [Threads -> Status] /\ q \in Seq(KThread) /\ Once(q)
  BY DEF CoreOK, Threads
<1>3. /\ status' \in [Threads -> Status]
      /\ \A x \in KThread : status'[x] = IF x = t THEN "READY" ELSE status[x]
  BY <1>1, <1>2 DEF Status, Threads
<1>4. t \notin OnList(q) /\ status[t] # "RUNNING" /\ status[t] # "READY"
  BY DEF CoreOK, Blocked
<1>5. p \in Seq(KThread) /\ Once(p) /\ OnList(p) = OnList(q) \cup {t}
  BY <1>2, <1>4, OnListAppend
<1>6. /\ Len(p) = Len(q) + 1 /\ Len(q) \in Nat /\ p[Len(q) + 1] = t
      /\ \A i \in 1 .. Len(q) : p[i] = q[i]
  BY <1>2
<1>7. Len(p) <= Cardinality(KThread) /\ Cardinality(KThread) \in Nat
  <2> HIDE DEF p
  <2> QED
    BY <1>5, OnceLen
<1>8. /\ delay' \in [KThread -> Nat]
      /\ \A x \in KThread : status'[x] # "READY" => delay'[x] = 0
      /\ \A x \in KThread : delay'[x] <= delay[x]
      /\ delay'[t] = 0
  BY <1>3, <1>4 DEF CoreOK, Ticks
<1>9. ASSUME NEW i \in 1 .. Len(p)
      PROVE  delay'[p[i]] + (TIME_SLICE - thread_ticks) + Slices(i - 1)
                <= Slices(Cardinality(KThread))
  <2>1. CASE i \in 1 .. Len(q)
    <3>1. p[i] = q[i]
      BY <1>6, <2>1
    <3>2. delay'[q[i]] <= delay[q[i]] /\ delay'[q[i]] \in Nat
      BY <1>8, <2>1, ReadyNumbers
    <3>3. /\ delay[q[i]] \in Nat /\ TIME_SLICE - thread_ticks \in Nat \ {0} /\ Slices(i - 1) \in Nat
          /\ Slices(Cardinality(KThread)) \in Nat
          /\ delay[q[i]] + (TIME_SLICE - thread_ticks) + Slices(i - 1)
               <= Slices(Cardinality(KThread))
      BY <2>1, ReadyNumbers
    <3> QED
      BY <3>1, <3>2, <3>3
  <2>2. CASE i = Len(q) + 1
    <3>1. p[i] = t /\ i - 1 = Len(q)
      BY <1>6, <2>2
    <3>2. TIME_SLICE \in Nat /\ thread_ticks \in Nat
      BY RoundRobinAssumption DEF CoreOK
    <3>3. Slices(Len(q)) \in Nat /\ Slices(Len(q) + 1) = Slices(Len(q)) + TIME_SLICE
      BY <1>6, SlicesAre
    <3>4. Slices(Len(q) + 1) <= Slices(Cardinality(KThread)) /\ Slices(Cardinality(KThread)) \in Nat
      <4>1. Len(q) + 1 \in Nat /\ Len(q) + 1 <= Cardinality(KThread)
        BY <1>6, <1>7
      <4> DEFINE m == Len(q) + 1
      <4> HIDE DEF m
      <4>2. m \in Nat /\ m <= Cardinality(KThread)
        BY <4>1 DEF m
      <4>3. Slices(m) <= Slices(Cardinality(KThread)) /\ Slices(Cardinality(KThread)) \in Nat
        BY <1>7, <4>2, SlicesAre
      <4> QED
        BY <4>3 DEF m
    <3> QED
      BY <1>8, <3>1, <3>2, <3>3, <3>4
  <2> QED
    BY <1>6, <2>1, <2>2
<1>10. /\ \A x \in KThread : status'[x] = "RUNNING" <=> current' = x
       /\ \A x \in KThread : x \in OnList(p) <=> status'[x] = "READY"
  BY <1>1, <1>3, <1>4, <1>5 DEF CoreOK
<1>11. current' \in Threads /\ thread_ticks' \in Nat /\ thread_ticks' < TIME_SLICE
  BY <1>1 DEF CoreOK
<1> HIDE DEF p
<1>12. CoreOK'
  BY <1>1, <1>3, <1>5, <1>8, <1>9, <1>10, <1>11 DEF CoreOK
<1> QED
  BY <1>3, <1>12

(* The thread that runs leaves: it blocks or exits. *)
LEMMA CoreLeaves ==
    ASSUME CoreOK, NEW b \in {"BLOCKED", "none", "DYING"},
           Schedule([status EXCEPT ![current] = b], ready_list), Ticks(0)
    PROVE  /\ CoreOK'
           /\ \A x \in KThread : \/ x = current /\ status'[x] = b
                                 \/ x # current /\ status'[x] = status[x]
                                 \/ x # current /\ status[x] = "READY" /\ status'[x] = "RUNNING"
<1> DEFINE st == [status EXCEPT ![current] = b]
           q == ready_list
<1>1. current \in Threads /\ status \in [Threads -> Status] /\ q \in Seq(KThread) /\ Once(q)
  BY DEF CoreOK
<1>2. /\ st \in [Threads -> Status]
      /\ \A x \in KThread : st[x] = IF x = current THEN b ELSE status[x]
  BY <1>1 DEF Status, Threads
<1>3. /\ \A x \in KThread : x \in OnList(q) <=> st[x] = "READY"
      /\ \A x \in KThread : st[x] # "RUNNING"
  BY <1>2 DEF CoreOK
<1>4. ASSUME NEW i \in 1 .. Len(q) - 1
      PROVE  delay'[q[i + 1]] + Slices(i) <= Slices(Cardinality(KThread))
  <2> DEFINE j == i + 1
  <2>1. j \in 1 .. Len(q) /\ j - 1 = i
    BY <1>1
  <2> HIDE DEF j
  <2>2. q[j] \in KThread /\ delay[q[j]] \in Nat
    BY <2>1, ReadyNumbers
  <2>3. delay'[q[j]] \in Nat /\ delay'[q[j]] <= delay[q[j]]
    BY <2>2 DEF Ticks
  <2>4. delay'[q[j]] + Slices(i) <= Slices(Cardinality(KThread))
    BY <2>1, <2>3, ReadyNumbers
  <2> QED
    BY <2>4 DEF j
<1>5. Schedule(st, q)
  OBVIOUS
<1> HIDE DEF st
<1>6. /\ CoreOK'
      /\ current' \in KThread => st[current'] = "READY"
      /\ \A x \in KThread : status'[x] = IF x = current' THEN "RUNNING" ELSE st[x]
  BY <1>1, <1>2, <1>3, <1>4, <1>5, ScheduleKeeps
<1> QED
  BY <1>2, <1>6

(* The thread that runs yields: it goes to the end of the ready threads,   *)
(* at the end of its time slice or before.                                 *)
LEMMA CoreYields ==
    ASSUME CoreOK, thread_yield(status, ready_list, current),
           NEW n \in Nat, n <= TIME_SLICE - thread_ticks, Ticks(n)
    PROVE  /\ CoreOK'
           /\ \A x \in KThread : \/ status'[x] = status[x]
                                 \/ /\ status[x] \in {"READY", "RUNNING"}
                                    /\ status'[x] \in {"READY", "RUNNING"}
<1> DEFINE st == [status EXCEPT ![current] = "READY"]
           q == ready_list
           p == IF current = Idle THEN q ELSE Append(q, current)
<1>1. current \in Threads /\ status \in [Threads -> Status] /\ q \in Seq(KThread) /\ Once(q)
  BY DEF CoreOK
<1>2. /\ st \in [Threads -> Status]
      /\ \A x \in KThread : st[x] = IF x = current THEN "READY" ELSE status[x]
  BY <1>1 DEF Status, Threads
<1>3. current # Idle => current \in KThread /\ status[current] = "RUNNING" /\ current \notin OnList(q)
  BY <1>1 DEF CoreOK, Threads
<1>4. /\ p \in Seq(KThread) /\ Once(p)
      /\ OnList(p) = IF current = Idle THEN OnList(q) ELSE OnList(q) \cup {current}
  <2>1. CASE current = Idle
    BY <1>1, <2>1
  <2>2. CASE current # Idle
    BY <1>1, <1>3, <2>2, OnListAppend
  <2> QED
    BY <2>1, <2>2
<1>5. /\ \A x \in KThread : x \in OnList(p) <=> st[x] = "READY"
      /\ \A x \in KThread : st[x] # "RUNNING"
  BY <1>2, <1>3, <1>4, RoundRobinAssumption DEF CoreOK
<1>6. /\ Len(q) \in Nat /\ Len(p) \in Nat /\ Len(p) <= Len(q) + 1
      /\ \A i \in 1 .. Len(q) : p[i] = q[i]
      /\ current # Idle => p[Len(q) + 1] = current
      /\ current = Idle => Len(p) = Len(q)
  BY <1>1, <1>3
<1>7. Len(p) <= Cardinality(KThread) /\ Cardinality(KThread) \in Nat
  <2> HIDE DEF p
  <2> QED
    BY <1>4, OnceLen
<1>8. \A x \in KThread : /\ delay'[x] \in Nat /\ delay'[x] <= delay[x] + n
                         /\ status[x] # "READY" => delay'[x] = 0
  BY DEF Ticks, CoreOK
<1>9. ASSUME NEW i \in 1 .. Len(p) - 1
      PROVE  delay'[p[i + 1]] + Slices(i) <= Slices(Cardinality(KThread))
  <2> DEFINE j == i + 1
  <2>1. j \in 1 .. Len(p) /\ j - 1 = i /\ i \in Nat
    BY <1>6
  <2> HIDE DEF j, p
  <2>2. CASE j \in 1 .. Len(q)
    <3>1. p[j] = q[j] /\ q[j] \in KThread /\ delay[q[j]] \in Nat
      BY <1>6, <2>2, ReadyNumbers
    <3>2. delay'[q[j]] \in Nat /\ delay'[q[j]] <= delay[q[j]] + n
      BY <1>8, <3>1
    <3>3. /\ TIME_SLICE - thread_ticks \in Nat \ {0} /\ Slices(j - 1) \in Nat
          /\ Slices(Cardinality(KThread)) \in Nat
          /\ delay[q[j]] + (TIME_SLICE - thread_ticks) + Slices(j - 1)
               <= Slices(Cardinality(KThread))
      BY <2>2, ReadyNumbers
    <3>4. delay'[p[j]] + Slices(j - 1) <= Slices(Cardinality(KThread))
      BY <3>1, <3>2, <3>3
    <3> QED
      BY <2>1, <3>4 DEF j
  <2>3. CASE j = Len(q) + 1
    <3>1. current # Idle /\ p[j] = current
      BY <1>6, <2>1, <2>3
    <3>2. delay'[p[j]] = 0
      BY <1>3, <1>8, <3>1
    <3>3. i <= Cardinality(KThread)
      BY <1>6, <1>7, <2>1
    <3>4. Slices(i) <= Slices(Cardinality(KThread)) /\ Slices(i) \in Nat
      BY <1>7, <2>1, <3>3, SlicesAre
    <3> QED
      BY <3>2, <3>4 DEF j
  <2> QED
    BY <1>6, <2>1, <2>2, <2>3
<1>10. Schedule(st, p)
  BY DEF thread_yield
<1> HIDE DEF st, p
<1>11. /\ CoreOK'
       /\ current' \in KThread => st[current'] = "READY"
       /\ \A x \in KThread : status'[x] = IF x = current' THEN "RUNNING" ELSE st[x]
  BY <1>2, <1>4, <1>5, <1>9, <1>10, ScheduleKeeps
<1>12. ASSUME NEW x \in KThread
       PROVE  \/ status'[x] = status[x]
              \/ status[x] \in {"READY", "RUNNING"} /\ status'[x] \in {"READY", "RUNNING"}
  <2>1. CASE x = current
    <3>1. status[x] = "RUNNING" /\ st[x] = "READY"
      BY <1>2, <1>3, <2>1, RoundRobinAssumption
    <3> QED
      BY <1>11, <3>1
  <2>2. CASE x # current
    <3>1. st[x] = status[x] /\ (x = current' => st[x] = "READY")
      BY <1>2, <1>11, <2>2
    <3> QED
      BY <1>11, <3>1
  <2> QED
    BY <2>1, <2>2
<1> QED
  BY <1>11, <1>12

(* WaitersOK when no thread falls asleep, wakes or is created. *)
LEMMA WaitersSame ==
    ASSUME WaitersOK, waiters' = waiters,
           \A u \in KThread : Blocked(u)' <=> Blocked(u),
           \A u \in KThread : Blocked(u) => todo'[u] = todo[u],
           \A u, v \in KThread : todo'[u] \in Birth(v) <=> todo[u] \in Birth(v)
    PROVE  WaitersOK'
<1>1. /\ \A s \in SemName : Once(waiters'[s])
      /\ \A s \in SemName, t \in KThread :
           t \in OnList(waiters'[s]) <=> Blocked(t)' /\ Op(todo'[t], "retry", s)
  BY DEF WaitersOK
<1>2. ASSUME NEW t \in KThread, Blocked(t)'
      PROVE  \/ \E s \in SemName : Op(todo'[t], "retry", s)
             \/ todo'[t] = <<>> /\ \E u \in KThread : todo'[u] \in Birth(t)
  BY <1>2 DEF WaitersOK
<1>3. \A t, u \in KThread : todo'[u] \in Birth(t) => Blocked(t)' /\ todo'[t] = <<>>
  BY DEF WaitersOK
<1>4. \A t, u, v \in KThread : todo'[u] \in Birth(t) /\ todo'[v] \in Birth(t) => u = v
  BY DEF WaitersOK
<1> QED
  BY <1>1, <1>2, <1>3, <1>4 DEF WaitersOK

(* LockOK when no lock changes hands. *)
LEMMA LockSame ==
    ASSUME LockOK, holder' = holder,
           \A l \in LockName : value'[l] = value[l],
           \A u \in KThread, l \in LockName :
              /\ Op(todo'[u], "hold", l) <=> Op(todo[u], "hold", l)
              /\ Op(todo'[u], "up", l) <=> Op(todo[u], "up", l)
              /\ Op(todo'[u], "drop", l) => Op(todo[u], "drop", l) \/ holder[l] = u
              /\ Op(todo'[u], "queue", u) => Op(todo[u], "queue", u) \/ holder["lock"] = u
    PROVE  LockOK'
<1>1. \A u \in KThread, l \in LockName : IsInside(u, l)' <=> IsInside(u, l)
  BY DEF IsInside
<1> QED
  BY <1>1 DEF LockOK

(* UnitsOK for a semaphore that nobody is woken for and nobody tries. *)
LEMMA UnitsSame ==
    ASSUME UnitsOK, waiters' = waiters, value' = value,
           \A u \in KThread, s \in SemName : IsWoken(u, s)' <=> IsWoken(u, s)
    PROVE  UnitsOK'
<1>1. ASSUME NEW s \in SemName
      PROVE  {t \in KThread : IsWoken(t, s)'} = {t \in KThread : IsWoken(t, s)}
  OBVIOUS
<1> QED
  BY <1>1 DEF UnitsOK

(* SignalOK when no signal moves. *)
LEMMA SignalSame ==
    ASSUME SignalOK, cond_waiters' = cond_waiters,
           \A u \in KThread : value'[u] = value[u] /\ (todo'[u] \in Window(u) <=> todo[u] \in Window(u)),
           \A u, v \in KThread : Op(todo'[v], "up", u) <=> Op(todo[v], "up", u)
    PROVE  SignalOK'
  BY DEF SignalOK

(* CallType when only some of it changes. *)
LEMMA TypeStep ==
    ASSUME CallType, NEW t \in KThread, NEW q, IsPlan(t, q), todo' = [todo EXCEPT ![t] = q],
           \A u \in KThread : Off(u)' => Off(u) \/ (u = t /\ q = <<>>), ~Off(t) \/ q = <<>>,
           value' \in [SemName -> Nat], waiters' \in [SemName -> Seq(KThread)],
           holder' \in [LockName -> KThread \cup {Unheld}], cond_waiters' \in Seq(KThread)
    PROVE  /\ CallType'
           /\ todo'[t] = q /\ \A u \in KThread : u # t => todo'[u] = todo[u]
<1>1. DOMAIN todo' = KThread /\ todo'[t] = q /\ \A u \in KThread : u # t => todo'[u] = todo[u]
  BY DEF CallType
<1>2. \A u \in KThread : IsPlan(u, todo'[u]) /\ (Off(u)' => todo'[u] = <<>>)
  BY <1>1 DEF CallType
<1> QED
  BY <1>1, <1>2 DEF CallType

(* The names of the semaphores. *)
LEMMA SemNames ==
    /\ "sema" \in SemName /\ "sema" \notin KThread /\ "sema" \notin LockName
    /\ LockName \subseteq SemName /\ KThread \subseteq SemName
    /\ \A l \in LockName : l \notin KThread
    /\ "lock" \in LockName /\ "tid_lock" \in LockName /\ Unheld \notin KThread
  BY RoundRobinAssumption DEF SemName, LockName

(* The threads woken for a semaphore are finitely many. *)
LEMMA WokenFinite ==
    ASSUME NEW s
    PROVE  /\ IsFiniteSet({u \in KThread : IsWoken(u, s)})
           /\ Cardinality({u \in KThread : IsWoken(u, s)}) \in Nat
<1>1. IsFiniteSet({u \in KThread : IsWoken(u, s)})
  BY FS_Subset, RoundRobinAssumption
<1> QED
  BY <1>1, FS_CardinalityType

(* One step is no other. *)
LEMMA AtThis ==
    ASSUME NEW p, NEW op, NEW x, Op(p, op, x)
    PROVE  \A o, y : Op(p, o, y) <=> o = op /\ y = x
  BY DEF Op

(* semaphore_down() takes a unit. *)
LEMMA DownTakes ==
    ASSUME CallsOK, NEW t \in KThread, status[t] = "RUNNING", NEW x, NEW op \in {"down", "retry"},
           Op(todo[t], op, x), value[x] # 0,
           value' = [value EXCEPT ![x] = @ - 1], todo' = [todo EXCEPT ![t] = Tail(@)],
           UNCHANGED <<status, waiters, holder, cond_waiters>>
    PROVE  CallsOK'
<1> DEFINE p == todo[t]
           q == Tail(p)
<1>0. CallType /\ WaitersOK /\ LockOK /\ UnitsOK /\ SignalOK
  BY DEF CallsOK
<1>1. /\ x \in SemName /\ IsPlan(t, q) /\ q \notin Window(t)
      /\ \A u : p \in Birth(u) <=> q \in Birth(u)
      /\ \/ x = "sema" /\ p \notin Window(t) /\ q = <<>>
         \/ x \in LockName /\ Op(q, "hold", x) /\ p \notin Window(t)
         \/ x = t /\ p \in Window(t) /\ Op(q, "down", "lock")
  <2>1. IsPlan(t, p) /\ Op(p, op, x)
    BY <1>0 DEF CallType
  <2> DEFINE r == p
  <2>2. r = p
    OBVIOUS
  <2> HIDE DEF r
  <2>3. /\ x \in SemName /\ IsPlan(t, Tail(r)) /\ Tail(r) \notin Window(t)
        /\ \A u : r \in Birth(u) <=> Tail(r) \in Birth(u)
        /\ \/ x = "sema" /\ r \notin Window(t) /\ Tail(r) = <<>>
           \/ x \in LockName /\ Op(Tail(r), "hold", x) /\ r \notin Window(t)
           \/ x = t /\ r \in Window(t) /\ Op(Tail(r), "down", "lock")
    BY <2>1, <2>2, DownPlan
  <2> QED
    BY <2>2, <2>3
<1>2. ~Blocked(t) /\ ~Off(t) /\ \A u : (Blocked(u)' <=> Blocked(u)) /\ (Off(u)' <=> Off(u))
  BY DEF Blocked, Off
<1>3. /\ value' \in [SemName -> Nat] /\ value'[x] = value[x] - 1 /\ value[x] \in Nat
      /\ \A s \in SemName : s # x => value'[s] = value[s]
  BY <1>0, <1>1 DEF CallType
<1>4. /\ CallType'
      /\ todo'[t] = q /\ \A u \in KThread : u # t => todo'[u] = todo[u]
  <2>1. todo' = [todo EXCEPT ![t] = q]
    BY <1>0 DEF CallType
  <2> HIDE DEF q
  <2> QED
    BY <1>0, <1>1, <1>2, <1>3, <2>1, TypeStep DEF CallType
<1>5. \A o, y : Op(p, o, y) <=> o = op /\ y = x
  BY AtOnly
<1>6. \A o, y : Op(q, o, y) => \/ o = "hold" /\ y = x /\ x \in LockName
                               \/ o = "down" /\ y = "lock"
  <2> HIDE DEF q
  <2>1. CASE q = <<>>
    BY <2>1, AtOnly
  <2>2. CASE x \in LockName /\ Op(q, "hold", x)
    BY <2>2, AtThis
  <2>3. CASE Op(q, "down", "lock")
    BY <2>3, AtThis
  <2> QED
    BY <1>1, <2>1, <2>2, <2>3
<1> HIDE DEF p, q
<1>7. p = todo[t]
  BY DEF p
<1>8. WaitersOK'
  <2>1. \A u \in KThread : Blocked(u) => todo'[u] = todo[u]
    BY <1>2, <1>4
  <2>2. \A u, v \in KThread : todo'[u] \in Birth(v) <=> todo[u] \in Birth(v)
    BY <1>1, <1>4, <1>7
  <2> QED
    BY <1>0, <1>2, <2>1, <2>2, WaitersSame
<1>9. LockOK'
  <2>1. CASE x \notin LockName
    <3>1. \A u \in KThread, l \in LockName :
              /\ Op(todo'[u], "hold", l) <=> Op(todo[u], "hold", l)
              /\ Op(todo'[u], "up", l) <=> Op(todo[u], "up", l)
              /\ Op(todo'[u], "drop", l) => Op(todo[u], "drop", l) \/ holder[l] = u
              /\ Op(todo'[u], "queue", u) => Op(todo[u], "queue", u) \/ holder["lock"] = u
      <4>1. \A l \in LockName : /\ ~Op(q, "hold", l) /\ ~Op(q, "up", l) /\ ~Op(q, "drop", l)
                                /\ ~Op(p, "hold", l) /\ ~Op(p, "up", l)
        BY <1>5, <1>6, <2>1
      <4>2. ~Op(q, "queue", t)
        BY <1>6
      <4> QED
        BY <1>4, <1>7, <4>1, <4>2
    <3>2. \A l \in LockName : value'[l] = value[l]
      BY <1>3, <2>1, SemNames
    <3> QED
      BY <1>0, <3>1, <3>2, LockSame
  <2>2. CASE x \in LockName
    <3>1. Op(q, "hold", x)
      BY <1>1, <2>2, SemNames
    <3>2. \A u \in KThread, l \in LockName :
              /\ Op(todo'[u], "hold", l) <=> Op(todo[u], "hold", l) \/ (u = t /\ l = x)
              /\ Op(todo'[u], "up", l) <=> Op(todo[u], "up", l)
              /\ Op(todo'[u], "drop", l) => Op(todo[u], "drop", l)
              /\ Op(todo'[u], "queue", u) => Op(todo[u], "queue", u)
      <4>1. \A o, y : Op(q, o, y) <=> o = "hold" /\ y = x
        BY <3>1, AtOnly
      <4> QED
        BY <1>4, <1>5, <1>7, <4>1
    <3>3. \A u \in KThread, l \in LockName : IsInside(u, l)' <=> IsInside(u, l) \/ (u = t /\ l = x)
      BY <3>2 DEF IsInside
    <3>4. value[x] = 1 /\ value'[x] = 0 /\ \A u \in KThread : ~IsInside(u, x)
      BY <1>0, <1>3, <2>2 DEF LockOK
    <3>5. \A l \in LockName : l # x => value'[l] = value[l]
      BY <1>3, SemNames
    <3>6. /\ \A l \in LockName : value[l] \in {0, 1}
          /\ \A l \in LockName, u \in KThread : IsInside(u, l) => value[l] = 0
          /\ \A l \in LockName : value[l] = 0 => \E u \in KThread : IsInside(u, l)
          /\ \A l \in LockName, u, v \in KThread : IsInside(u, l) /\ IsInside(v, l) => u = v
      BY <1>0 DEF LockOK
    <3>7. /\ \A l \in LockName : value'[l] \in {0, 1}
          /\ \A l \in LockName, u \in KThread : IsInside(u, l)' => value'[l] = 0
          /\ \A l \in LockName : value'[l] = 0 => \E u \in KThread : IsInside(u, l)'
          /\ \A l \in LockName, u, v \in KThread : IsInside(u, l)' /\ IsInside(v, l)' => u = v
      BY <3>3, <3>4, <3>5, <3>6
    <3>8. /\ \A l \in LockName, u \in KThread : Op(todo'[u], "up", l) => holder'[l] # u
          /\ \A l \in LockName, u \in KThread : Op(todo'[u], "drop", l) => holder'[l] = u
          /\ \A l \in LockName, u \in KThread : Op(todo'[u], "queue", u) => holder'["lock"] = u
      BY <1>0, <3>2 DEF LockOK
    <3> QED
      BY <3>7, <3>8 DEF LockOK
  <2> QED
    BY <2>1, <2>2
<1>10. UnitsOK'
  <2>1. \A u \in KThread, s \in SemName :
           IsWoken(u, s)' <=> IsWoken(u, s) /\ ~(u = t /\ op = "retry" /\ s = x)
    BY <1>2, <1>4, <1>5, <1>6, <1>7 DEF IsWoken
  <2>2. ASSUME NEW s \in SemName, waiters[s] # <<>>
        PROVE  value'[s] <= Cardinality({u \in KThread : IsWoken(u, s)'})
    <3> DEFINE W == {u \in KThread : IsWoken(u, s)}
               V == {u \in KThread : IsWoken(u, s)'}
    <3>1. value[s] <= Cardinality(W) /\ value[s] \in Nat /\ Cardinality(W) \in Nat /\ IsFiniteSet(W)
      BY <1>0, <2>2, WokenFinite DEF UnitsOK, CallType
    <3>2. CASE op = "retry" /\ s = x
      <4>1. V = W \ {t} /\ t \in W
        BY <1>2, <1>5, <1>7, <2>1, <3>2 DEF IsWoken
      <4>2. Cardinality(W \ {t}) = Cardinality(W) - 1
        BY <3>1, <4>1, FS_RemoveElement
      <4> HIDE DEF W, V
      <4>3. Cardinality(V) = Cardinality(W) - 1 /\ value'[s] = value[s] - 1
        BY <1>3, <3>2, <4>1, <4>2
      <4>4. value'[s] <= Cardinality(V)
        BY <3>1, <4>3
      <4> QED
        BY <4>4 DEF V
    <3>3. CASE ~(op = "retry" /\ s = x)
      <4>1. V = W
        BY <2>1, <3>3
      <4>2. value'[s] <= value[s] /\ value'[s] \in Nat
        BY <1>3, <3>1
      <4> HIDE DEF W, V
      <4>3. value'[s] <= Cardinality(V)
        BY <3>1, <4>1, <4>2
      <4> QED
        BY <4>3 DEF V
    <3> QED
      BY <3>2, <3>3
  <2> QED
    BY <2>2 DEF UnitsOK
<1>11. SignalOK'
  <2>1. \A u, v \in KThread : Op(todo'[v], "up", u) <=> Op(todo[v], "up", u)
    <3>1. \A u : ~Op(p, "up", u) /\ ~Op(q, "up", u)
      BY <1>5, <1>6
    <3> QED
      BY <1>4, <1>7, <3>1
  <2>2. CASE x # t
    <3>1. \A u \in KThread : value'[u] = value[u] /\ (todo'[u] \in Window(u) <=> todo[u] \in Window(u))
      <4>1. x \notin KThread /\ p \notin Window(t)
        BY <1>1, <2>2, SemNames
      <4> QED
        BY <1>1, <1>3, <1>4, <1>7, <4>1, SemNames
    <3> QED
      BY <1>0, <2>1, <3>1, SignalSame
  <2>3. CASE x = t
    <3>1. value[t] = 1 /\ t \notin OnList(cond_waiters) /\ \A v \in KThread : ~Op(todo[v], "up", t)
      BY <1>0, <2>3 DEF SignalOK
    <3>2. /\ value'[t] = 0 /\ todo'[t] \notin Window(t)
          /\ \A u \in KThread : u # t =>
                value'[u] = value[u] /\ (todo'[u] \in Window(u) <=> todo[u] \in Window(u))
      <4>1. value'[t] = 0 /\ todo'[t] \notin Window(t)
        <5>1. value'[x] = value[x] - 1 /\ value[x] = 1
          BY <1>3, <2>3, <3>1
        <5>2. value'[x] = 0
          BY <5>1
        <5>3. q \notin Window(t)
          BY <1>1
        <5> QED
          BY <1>4, <2>3, <5>2, <5>3
      <4>2. \A u \in KThread : u # t => value'[u] = value[u] /\ todo'[u] = todo[u]
        BY <1>3, <1>4, <2>3, SemNames
      <4> QED
        BY <4>1, <4>2
    <3> QED
      BY <1>0, <2>1, <3>1, <3>2 DEF SignalOK
  <2> QED
    BY <2>2, <2>3
<1> QED
  BY <1>4, <1>8, <1>9, <1>10, <1>11 DEF CallsOK

(* A thread that runs does not sleep. *)
LEMMA Runs ==
    ASSUME CallsOK, NEW t \in KThread, status[t] = "RUNNING"
    PROVE  /\ CallType /\ WaitersOK /\ LockOK /\ UnitsOK /\ SignalOK
           /\ IsPlan(t, todo[t]) /\ ~Blocked(t) /\ ~Off(t)
           /\ \A u \in KThread : todo[u] \notin Birth(t)
<1>1. CallType /\ WaitersOK /\ LockOK /\ UnitsOK /\ SignalOK
  BY DEF CallsOK
<1>2. ~Blocked(t) /\ ~Off(t)
  BY DEF Blocked, Off
<1> QED
  BY <1>1, <1>2 DEF CallType, WaitersOK

(* A step that leaves what the threads do to the scheduler. *)
LEMMA CallsKept ==
    ASSUME CallsOK, UNCHANGED <<todo, value, waiters, holder, cond_waiters>>,
           \A u \in KThread : (Blocked(u)' <=> Blocked(u)) /\ (Off(u)' => Off(u))
    PROVE  CallsOK'
<1>0. CallType /\ WaitersOK /\ LockOK /\ UnitsOK /\ SignalOK
  BY DEF CallsOK
<1>1. CallType'
  BY <1>0 DEF CallType
<1>2. WaitersOK'
  BY <1>0, WaitersSame
<1>3. LockOK'
  BY <1>0, LockSame
<1>4. UnitsOK'
  <2>1. \A u \in KThread, s \in SemName : IsWoken(u, s)' <=> IsWoken(u, s)
    BY DEF IsWoken
  <2> QED
    BY <1>0, <2>1, UnitsSame
<1>5. SignalOK'
  BY <1>0, SignalSame
<1> QED
  BY <1>1, <1>2, <1>3, <1>4, <1>5 DEF CallsOK

(* What does not change when a thread goes on from a step that neither     *)
(* takes nor raises a semaphore, nor makes a thread ready.                 *)
LEMMA Frame ==
    ASSUME CallsOK, NEW t \in KThread, ~Blocked(t), NEW q, IsPlan(t, q),
           todo' = [todo EXCEPT ![t] = q], waiters' = waiters, value' = value,
           holder' \in [LockName -> KThread \cup {Unheld}], cond_waiters' \in Seq(KThread),
           \A u \in KThread : Blocked(u)' <=> Blocked(u),
           \A u \in KThread : Off(u)' => Off(u) \/ (u = t /\ q = <<>>), ~Off(t) \/ q = <<>>,
           \A u : q \in Birth(u) <=> todo[t] \in Birth(u),
           \A s : ~Op(q, "retry", s) /\ ~Op(todo[t], "retry", s)
    PROVE  /\ CallType' /\ WaitersOK' /\ UnitsOK'
           /\ todo'[t] = q /\ \A u \in KThread : u # t => todo'[u] = todo[u]
<1>0. CallType /\ WaitersOK /\ LockOK /\ UnitsOK /\ SignalOK
  BY DEF CallsOK
<1>1. /\ CallType'
      /\ todo'[t] = q /\ \A u \in KThread : u # t => todo'[u] = todo[u]
  <2>1. value' \in [SemName -> Nat] /\ waiters' \in [SemName -> Seq(KThread)]
    BY <1>0 DEF CallType
  <2> QED
    BY <1>0, <2>1, TypeStep
<1>2. WaitersOK'
  <2>1. \A u \in KThread : Blocked(u) => todo'[u] = todo[u]
    BY <1>1
  <2>2. \A u, v \in KThread : todo'[u] \in Birth(v) <=> todo[u] \in Birth(v)
    BY <1>1
  <2> QED
    BY <1>0, <2>1, <2>2, WaitersSame
<1>3. UnitsOK'
  <2>1. \A u \in KThread, s \in SemName : IsWoken(u, s)' <=> IsWoken(u, s)
    BY <1>1 DEF IsWoken
  <2> QED
    BY <1>0, <2>1, UnitsSame
<1> QED
  BY <1>1, <1>2, <1>3

(* A step that is nobody else's business. *)
LEMMA QuietStep ==
    ASSUME CallsOK, NEW t \in KThread, ~Blocked(t), NEW q, IsPlan(t, q),
           todo' = [todo EXCEPT ![t] = q], UNCHANGED <<value, waiters, holder, cond_waiters>>,
           \A u \in KThread : Blocked(u)' <=> Blocked(u),
           \A u \in KThread : Off(u)' => Off(u) \/ (u = t /\ q = <<>>), ~Off(t) \/ q = <<>>,
           \A u : q \notin Birth(u) /\ todo[t] \notin Birth(u),
           q \notin Window(t) /\ todo[t] \notin Window(t),
           \A s : ~Op(q, "retry", s) /\ ~Op(todo[t], "retry", s),
           \A s : ~Op(q, "hold", s) /\ ~Op(todo[t], "hold", s),
           \A s : (Op(q, "up", s) => s = "sema") /\ ~Op(todo[t], "up", s),
           \A s : Op(q, "drop", s) => s = "lock" /\ holder["lock"] = t,
           \A s : Op(q, "queue", s) => holder["lock"] = t
    PROVE  CallsOK'
<1>0. CallType /\ WaitersOK /\ LockOK /\ UnitsOK /\ SignalOK
  BY DEF CallsOK
<1>1. /\ CallType' /\ WaitersOK' /\ UnitsOK'
      /\ todo'[t] = q /\ \A u \in KThread : u # t => todo'[u] = todo[u]
  <2>1. holder' \in [LockName -> KThread \cup {Unheld}] /\ cond_waiters' \in Seq(KThread)
    BY <1>0 DEF CallType
  <2> QED
    BY <2>1, Frame
<1>2. LockOK'
  <2>1. \A u \in KThread, l \in LockName :
              /\ Op(todo'[u], "hold", l) <=> Op(todo[u], "hold", l)
              /\ Op(todo'[u], "up", l) <=> Op(todo[u], "up", l)
              /\ Op(todo'[u], "drop", l) => Op(todo[u], "drop", l) \/ holder[l] = u
              /\ Op(todo'[u], "queue", u) => Op(todo[u], "queue", u) \/ holder["lock"] = u
    BY <1>1, SemNames
  <2> QED
    BY <1>0, <2>1, LockSame
<1>3. SignalOK'
  <2>1. \A u \in KThread : value'[u] = value[u] /\ (todo'[u] \in Window(u) <=> todo[u] \in Window(u))
    BY <1>1
  <2>2. \A u, v \in KThread : Op(todo'[v], "up", u) <=> Op(todo[v], "up", u)
    BY <1>1, SemNames
  <2> QED
    BY <1>0, <2>1, <2>2, SignalSame
<1> QED
  BY <1>1, <1>2, <1>3 DEF CallsOK

(* So is the end of a call that is one step. *)
LEMMA LastStep ==
    ASSUME CallsOK, NEW t \in KThread, status[t] = "RUNNING",
           NEW op \in {"yield", "sleep", "exit", "signal", "create"}, NEW x, Op(todo[t], op, x),
           todo' = [todo EXCEPT ![t] = Tail(@)], UNCHANGED <<value, waiters, holder, cond_waiters>>,
           \A u \in KThread : (Blocked(u)' <=> Blocked(u)) /\ (Off(u)' => Off(u) \/ u = t)
    PROVE  CallsOK'
<1>1. CallType /\ ~Blocked(t) /\ ~Off(t) /\ IsPlan(t, todo[t])
  BY Runs
<1> DEFINE p == todo[t]
<1>2. IsPlan(t, p) /\ Op(p, op, x) /\ p = todo[t]
  BY <1>1
<1>3. todo' = [todo EXCEPT ![t] = Tail(p)]
  BY <1>1 DEF CallType
<1> HIDE DEF p
<1>4. p \notin Window(t) /\ (\A u : p \notin Birth(u)) /\ Tail(p) = <<>>
  <2>1. CASE op \in {"yield", "sleep", "exit"}
    BY <1>2, <2>1, LastPlan
  <2>2. CASE op = "signal"
    <3>1. Op(p, "signal", x)
      BY <1>2, <2>2
    <3> QED
      BY <1>2, <3>1, SignalPlan
  <2>3. CASE op = "create"
    <3>1. Op(p, "create", x)
      BY <1>2, <2>3
    <3> QED
      BY <1>2, <3>1, CreatePlan
  <2> QED
    BY <2>1, <2>2, <2>3
<1>5. \A o, y : Op(p, o, y) => o = op
  BY <1>2, AtThis
<1>6. \A s : ~Op(p, "retry", s) /\ ~Op(p, "hold", s) /\ ~Op(p, "up", s)
  BY <1>5
<1> DEFINE q == <<>>
<1>7. /\ IsPlan(t, q) /\ q \notin Window(t) /\ \A u : q \notin Birth(u)
      /\ \A o, y : ~Op(q, o, y)
  BY EmptyPlan
<1>8. todo' = [todo EXCEPT ![t] = q] /\ q = <<>>
  BY <1>3, <1>4
<1> HIDE DEF q
<1> QED
  BY <1>1, <1>2, <1>4, <1>6, <1>7, <1>8, QuietStep

(* And the call that a thread makes. *)
LEMMA CallMade ==
    ASSUME CallsOK, NEW t \in KThread, status[t] = "RUNNING", todo[t] = <<>>,
           NEW c \in Calls(t), todo' = [todo EXCEPT ![t] = c],
           UNCHANGED <<status, value, waiters, holder, cond_waiters>>
    PROVE  CallsOK'
<1>1. CallType /\ ~Blocked(t) /\ ~Off(t)
  BY Runs
<1>2. /\ IsPlan(t, c) /\ c # <<>> /\ c \notin Window(t) /\ \A u : c \notin Birth(u)
      /\ \A x : ~Op(c, "retry", x) /\ ~Op(c, "hold", x)
      /\ \A x : Op(c, "up", x) => x = "sema"
      /\ \A x : Op(c, "drop", x) => x = "lock" /\ holder["lock"] = t
      /\ \A x : Op(c, "queue", x) => x = t /\ holder["lock"] = t
  BY CallPlan
<1>3. todo[t] \notin Window(t) /\ (\A u : todo[t] \notin Birth(u)) /\ \A o, y : ~Op(todo[t], o, y)
  BY EmptyPlan
<1>4. \A u \in KThread : (Blocked(u)' <=> Blocked(u)) /\ (Off(u)' <=> Off(u))
  BY DEF Blocked, Off
<1> QED
  BY <1>1, <1>2, <1>3, <1>4, QuietStep

(* lock->holder is set. *)
LEMMA HoldStep ==
    ASSUME CallsOK, NEW t \in KThread, status[t] = "RUNNING", NEW x, Op(todo[t], "hold", x),
           holder' = [holder EXCEPT ![x] = t], todo' = [todo EXCEPT ![t] = Tail(@)],
           UNCHANGED <<value, waiters, cond_waiters>>,
           \A u \in KThread : (Blocked(u)' <=> Blocked(u)) /\ (Off(u)' <=> Off(u))
    PROVE  CallsOK'
<1>0. /\ CallType /\ WaitersOK /\ LockOK /\ UnitsOK /\ SignalOK
      /\ IsPlan(t, todo[t]) /\ ~Blocked(t) /\ ~Off(t)
  BY Runs
<1> DEFINE p == todo[t]
           q == Tail(p)
<1>1. IsPlan(t, p) /\ Op(p, "hold", x) /\ p = todo[t]
  BY <1>0
<1>2. todo' = [todo EXCEPT ![t] = q]
  BY <1>0 DEF CallType
<1> HIDE DEF p
<1>3. /\ x \in LockName /\ IsPlan(t, q)
      /\ p \notin Window(t) /\ q \notin Window(t)
      /\ \A u : p \in Birth(u) <=> q \in Birth(u)
      /\ q = <<>> \/ Op(q, "drop", x)
  BY <1>1, HoldPlan
<1> HIDE DEF q
<1>4. \A o, y : Op(p, o, y) <=> o = "hold" /\ y = x
  BY <1>1, AtThis
<1>5. \A o, y : Op(q, o, y) => o = "drop" /\ y = x
  <2>1. CASE q = <<>>
    BY <2>1, AtOnly
  <2>2. CASE Op(q, "drop", x)
    BY <2>2, AtThis
  <2> QED
    BY <1>3, <2>1, <2>2
<1>6. /\ holder' \in [LockName -> KThread \cup {Unheld}] /\ holder'[x] = t
      /\ \A l \in LockName : l # x => holder'[l] = holder[l]
  BY <1>0, <1>3 DEF CallType
<1>7. /\ CallType' /\ WaitersOK' /\ UnitsOK'
      /\ todo'[t] = q /\ \A u \in KThread : u # t => todo'[u] = todo[u]
  <2>1. cond_waiters' \in Seq(KThread)
    BY <1>0 DEF CallType
  <2>2. \A s : ~Op(p, "retry", s) /\ ~Op(q, "retry", s)
    BY <1>4, <1>5
  <2> QED
    BY <1>0, <1>1, <1>2, <1>3, <1>6, <2>1, <2>2, Frame
<1>8. LockOK'
  <2>1. \A u \in KThread : \A l \in LockName : IsInside(u, l)' <=> IsInside(u, l)
    <3>1. IsInside(t, x)
      BY <1>1 DEF IsInside
    <3>2. \A u \in KThread : IsInside(u, x) => u = t
      BY <1>0, <1>3, <3>1 DEF LockOK
    <3>3. \A l \in LockName : l # x => (IsInside(t, l)' <=> IsInside(t, l))
      <4>1. \A l \in LockName : l # x => /\ ~Op(p, "hold", l) /\ ~Op(p, "up", l)
                                        /\ ~Op(q, "hold", l) /\ ~Op(q, "up", l)
        BY <1>4, <1>5
      <4> QED
        BY <1>1, <1>6, <1>7, <4>1 DEF IsInside
    <3>4. IsInside(t, x)'
      BY <1>6 DEF IsInside
    <3>5. \A u \in KThread : u # t => ~IsInside(u, x)'
      BY <1>3, <1>6, <1>7, <3>2 DEF IsInside
    <3>6. \A u \in KThread : u # t => \A l \in LockName : l # x => (IsInside(u, l)' <=> IsInside(u, l))
      BY <1>6, <1>7 DEF IsInside
    <3> QED
      BY <3>1, <3>2, <3>3, <3>4, <3>5, <3>6
  <2>2. \A u \in KThread : u # t => ~IsInside(u, x)
    <3>1. IsInside(t, x)
      BY <1>1 DEF IsInside
    <3> QED
      BY <1>0, <1>3, <3>1 DEF LockOK
  <2>3. ASSUME NEW u \in KThread, NEW l \in LockName
        PROVE  /\ Op(todo'[u], "up", l) => holder'[l] # u
               /\ Op(todo'[u], "drop", l) => holder'[l] = u
               /\ Op(todo'[u], "queue", u) => holder'["lock"] = u
    <3>1. CASE u = t
      <4>1. todo'[u] = q /\ ~Op(q, "up", l) /\ ~Op(q, "queue", u) /\ (Op(q, "drop", l) => l = x)
        BY <1>5, <1>7, <3>1
      <4> QED
        BY <1>6, <3>1, <4>1
    <3>2. CASE u # t
      <4>1. /\ Op(todo[u], "up", l) => holder[l] # u
            /\ Op(todo[u], "drop", l) => holder[l] = u
            /\ Op(todo[u], "queue", u) => holder["lock"] = u
        BY <1>0 DEF LockOK
      <4>2. todo'[u] = todo[u] /\ holder[x] # u
        BY <1>7, <2>2, <3>2 DEF IsInside
      <4> QED
        BY <1>6, <3>2, <4>1, <4>2, SemNames
    <3> QED
      BY <3>1, <3>2
  <2> QED
    BY <1>0, <2>1, <2>3 DEF LockOK
<1>9. SignalOK'
  <2>1. \A u \in KThread : value'[u] = value[u] /\ (todo'[u] \in Window(u) <=> todo[u] \in Window(u))
    BY <1>1, <1>3, <1>7
  <2>2. \A u, v \in KThread : Op(todo'[v], "up", u) <=> Op(todo[v], "up", u)
    <3>1. \A u : ~Op(p, "up", u) /\ ~Op(q, "up", u)
      BY <1>4, <1>5
    <3> QED
      BY <1>1, <1>7, <3>1
  <2> QED
    BY <1>0, <2>1, <2>2, SignalSame
<1> QED
  BY <1>7, <1>8, <1>9 DEF CallsOK

(* lock->holder is cleared. *)
LEMMA DropStep ==
    ASSUME CallsOK, NEW t \in KThread, status[t] = "RUNNING", NEW x, Op(todo[t], "drop", x),
           holder' = [holder EXCEPT ![x] = Unheld], todo' = [todo EXCEPT ![t] = Tail(@)],
           UNCHANGED <<value, waiters, cond_waiters>>,
           \A u \in KThread : (Blocked(u)' <=> Blocked(u)) /\ (Off(u)' <=> Off(u))
    PROVE  CallsOK'
<1>0. /\ CallType /\ WaitersOK /\ LockOK /\ UnitsOK /\ SignalOK
      /\ IsPlan(t, todo[t]) /\ ~Blocked(t) /\ ~Off(t)
  BY Runs
<1> DEFINE p == todo[t]
           q == Tail(p)
<1>1. IsPlan(t, p) /\ Op(p, "drop", x) /\ p = todo[t]
  BY <1>0
<1>2. todo' = [todo EXCEPT ![t] = q]
  BY <1>0 DEF CallType
<1> HIDE DEF p
<1>3. /\ x \in LockName /\ IsPlan(t, q) /\ Op(q, "up", x)
      /\ p \in Window(t) <=> q \in Window(t)
      /\ \A u : p \in Birth(u) <=> q \in Birth(u)
  BY <1>1, DropPlan
<1> HIDE DEF q
<1>4. \A o, y : Op(p, o, y) <=> o = "drop" /\ y = x
  BY <1>1, AtThis
<1>5. \A o, y : Op(q, o, y) <=> o = "up" /\ y = x
  BY <1>3, AtThis
<1>6. /\ holder' \in [LockName -> KThread \cup {Unheld}] /\ holder'[x] = Unheld
      /\ \A l \in LockName : l # x => holder'[l] = holder[l]
  BY <1>0, <1>3 DEF CallType
<1>7. /\ CallType' /\ WaitersOK' /\ UnitsOK'
      /\ todo'[t] = q /\ \A u \in KThread : u # t => todo'[u] = todo[u]
  <2>1. cond_waiters' \in Seq(KThread)
    BY <1>0 DEF CallType
  <2>2. \A s : ~Op(p, "retry", s) /\ ~Op(q, "retry", s)
    BY <1>4, <1>5
  <2> QED
    BY <1>0, <1>1, <1>2, <1>3, <1>6, <2>1, <2>2, Frame
<1>8. LockOK'
  <2>0. holder[x] = t
    BY <1>0, <1>1, <1>3 DEF LockOK
  <2>1. \A u \in KThread : \A l \in LockName : IsInside(u, l)' <=> IsInside(u, l)
    <3>1. IsInside(t, x)
      BY <2>0 DEF IsInside
    <3>2. \A u \in KThread : IsInside(u, x) => u = t
      BY <1>0, <1>3, <3>1 DEF LockOK
    <3>3. \A l \in LockName : l # x => (IsInside(t, l)' <=> IsInside(t, l))
      <4>1. \A l \in LockName : l # x => /\ ~Op(p, "hold", l) /\ ~Op(p, "up", l)
                                        /\ ~Op(q, "hold", l) /\ ~Op(q, "up", l)
        BY <1>4, <1>5
      <4> QED
        BY <1>1, <1>6, <1>7, <4>1 DEF IsInside
    <3>4. IsInside(t, x)'
      BY <1>3, <1>7 DEF IsInside
    <3>5. \A u \in KThread : u # t => ~IsInside(u, x)'
      BY <1>3, <1>6, <1>7, <3>2, SemNames DEF IsInside
    <3>6. \A u \in KThread : u # t => \A l \in LockName : l # x => (IsInside(u, l)' <=> IsInside(u, l))
      BY <1>6, <1>7 DEF IsInside
    <3> QED
      BY <3>1, <3>2, <3>3, <3>4, <3>5, <3>6
  <2>2. ASSUME NEW u \in KThread, NEW l \in LockName
        PROVE  /\ Op(todo'[u], "up", l) => holder'[l] # u
               /\ Op(todo'[u], "drop", l) => holder'[l] = u
               /\ Op(todo'[u], "queue", u) => holder'["lock"] = u
    <3>1. CASE u = t
      <4>1. todo'[u] = q /\ (Op(q, "up", l) => l = x) /\ ~Op(q, "queue", u) /\ ~Op(q, "drop", l)
        BY <1>5, <1>7, <3>1
      <4> QED
        BY <1>6, <3>1, <4>1, SemNames
    <3>2. CASE u # t
      <4>1. /\ Op(todo[u], "up", l) => holder[l] # u
            /\ Op(todo[u], "drop", l) => holder[l] = u
            /\ Op(todo[u], "queue", u) => holder["lock"] = u
        BY <1>0 DEF LockOK
      <4>2. todo'[u] = todo[u] /\ holder[x] # u
        BY <1>7, <2>0, <3>2
      <4> QED
        BY <1>6, <3>2, <4>1, <4>2, SemNames
    <3> QED
      BY <3>1, <3>2
  <2> QED
    BY <1>0, <2>1, <2>2 DEF LockOK
<1>9. SignalOK'
  <2>1. \A u \in KThread : value'[u] = value[u] /\ (todo'[u] \in Window(u) <=> todo[u] \in Window(u))
    BY <1>1, <1>3, <1>7
  <2>2. \A u, v \in KThread : Op(todo'[v], "up", u) <=> Op(todo[v], "up", u)
    <3>1. \A u \in KThread : ~Op(p, "up", u) /\ ~Op(q, "up", u)
      BY <1>3, <1>4, <1>5, SemNames
    <3> QED
      BY <1>1, <1>7, <3>1
  <2> QED
    BY <1>0, <2>1, <2>2, SignalSame
<1> QED
  BY <1>7, <1>8, <1>9 DEF CallsOK

(* condvar_wait() queues a thread's semaphore. *)
LEMMA QueueStep ==
    ASSUME CallsOK, NEW t \in KThread, status[t] = "RUNNING", NEW x, Op(todo[t], "queue", x),
           cond_waiters' = Append(cond_waiters, t), value' = [value EXCEPT ![t] = 0],
           todo' = [todo EXCEPT ![t] = Tail(@)], UNCHANGED <<waiters, holder>>,
           \A u \in KThread : (Blocked(u)' <=> Blocked(u)) /\ (Off(u)' <=> Off(u))
    PROVE  CallsOK'
<1>0. /\ CallType /\ WaitersOK /\ LockOK /\ UnitsOK /\ SignalOK
      /\ IsPlan(t, todo[t]) /\ ~Blocked(t) /\ ~Off(t)
  BY Runs
<1> DEFINE p == todo[t]
           q == Tail(p)
<1>1. IsPlan(t, p) /\ Op(p, "queue", x) /\ p = todo[t]
  BY <1>0
<1>2. todo' = [todo EXCEPT ![t] = q]
  BY <1>0 DEF CallType
<1> HIDE DEF p
<1>3. /\ x = t /\ IsPlan(t, q) /\ Op(q, "drop", "lock")
      /\ p \notin Window(t) /\ q \in Window(t)
      /\ \A u : p \notin Birth(u) /\ q \notin Birth(u)
  BY <1>1, QueuePlan
<1> HIDE DEF q
<1>4. \A o, y : Op(p, o, y) <=> o = "queue" /\ y = x
  BY <1>1, AtThis
<1>5. \A o, y : Op(q, o, y) <=> o = "drop" /\ y = "lock"
  BY <1>3, AtThis
<1>6. value[t] = 0 /\ t \notin OnList(cond_waiters) /\ \A v \in KThread : ~Op(todo[v], "up", t)
  BY <1>0, <1>1, <1>3 DEF SignalOK
<1>7. value' = value
  BY <1>0, <1>6 DEF CallType
<1>8. /\ cond_waiters' \in Seq(KThread) /\ OnList(cond_waiters') = OnList(cond_waiters) \cup {t}
      /\ Once(cond_waiters')
  BY <1>0, <1>6, OnListAppend DEF CallType, SignalOK
<1>9. /\ CallType' /\ WaitersOK' /\ UnitsOK'
      /\ todo'[t] = q /\ \A u \in KThread : u # t => todo'[u] = todo[u]
  <2>1. holder' \in [LockName -> KThread \cup {Unheld}]
    BY <1>0 DEF CallType
  <2>2. \A s : ~Op(p, "retry", s) /\ ~Op(q, "retry", s)
    BY <1>4, <1>5
  <2> QED
    BY <1>0, <1>1, <1>2, <1>3, <1>7, <1>8, <2>1, <2>2, Frame
<1>10. LockOK'
  <2>1. holder["lock"] = t
    BY <1>0, <1>1, <1>3, SemNames DEF LockOK
  <2>2. \A l \in LockName :
              /\ ~Op(p, "hold", l) /\ ~Op(q, "hold", l) /\ ~Op(p, "up", l) /\ ~Op(q, "up", l)
              /\ Op(q, "drop", l) => l = "lock"
              /\ ~Op(q, "queue", t)
    BY <1>4, <1>5
  <2>3. \A u \in KThread, l \in LockName :
              /\ Op(todo'[u], "hold", l) <=> Op(todo[u], "hold", l)
              /\ Op(todo'[u], "up", l) <=> Op(todo[u], "up", l)
              /\ Op(todo'[u], "drop", l) => Op(todo[u], "drop", l) \/ holder[l] = u
              /\ Op(todo'[u], "queue", u) => Op(todo[u], "queue", u) \/ holder["lock"] = u
    BY <1>1, <1>9, <2>1, <2>2
  <2> QED
    BY <1>0, <1>7, <2>3, LockSame
<1>11. SignalOK'
  <2>1. \A u, v \in KThread : Op(todo'[v], "up", u) <=> Op(todo[v], "up", u)
    <3>1. \A u : ~Op(p, "up", u) /\ ~Op(q, "up", u)
      BY <1>4, <1>5
    <3> QED
      BY <1>1, <1>9, <3>1
  <2>2. \A u \in KThread : todo'[u] \in Window(u) <=> todo[u] \in Window(u) \/ u = t
    BY <1>3, <1>9
  <2>3. value' = value /\ Once(cond_waiters') /\ OnList(cond_waiters') = OnList(cond_waiters) \cup {t}
    BY <1>7, <1>8
  <2> QED
    BY <1>0, <1>6, <2>1, <2>2, <2>3 DEF SignalOK
<1> QED
  BY <1>9, <1>10, <1>11 DEF CallsOK

(* condvar_signal() takes a semaphore off the queue. *)
LEMMA SignalStep ==
    ASSUME CallsOK, NEW t \in KThread, status[t] = "RUNNING", NEW x, Op(todo[t], "signal", x),
           cond_waiters # <<>>, cond_waiters' = Tail(cond_waiters),
           todo' = [todo EXCEPT ![t] = <<<<"up", Head(cond_waiters)>>>> \o
                                          IF x = "all" THEN @ ELSE Tail(@)],
           UNCHANGED <<value, waiters, holder>>,
           \A u \in KThread : (Blocked(u)' <=> Blocked(u)) /\ (Off(u)' <=> Off(u))
    PROVE  CallsOK'
<1>0. /\ CallType /\ WaitersOK /\ LockOK /\ UnitsOK /\ SignalOK
      /\ IsPlan(t, todo[t]) /\ ~Blocked(t) /\ ~Off(t)
  BY Runs
<1> DEFINE p == todo[t]
           h == Head(cond_waiters)
           q == <<<<"up", h>>>> \o (IF x = "all" THEN p ELSE Tail(p))
<1>1. IsPlan(t, p) /\ Op(p, "signal", x) /\ p = todo[t]
  BY <1>0
<1>2. todo' = [todo EXCEPT ![t] = q]
  BY <1>0 DEF CallType
<1>3. /\ h \in KThread /\ h \in OnList(cond_waiters) /\ cond_waiters' \in Seq(KThread)
      /\ OnList(cond_waiters) = OnList(cond_waiters') \cup {h}
      /\ Once(cond_waiters') /\ h \notin OnList(cond_waiters')
  <2>1. cond_waiters \in Seq(KThread) /\ Once(cond_waiters)
    BY <1>0 DEF CallType, SignalOK
  <2> QED
    BY <2>1, OnListTail
<1> HIDE DEF p, h
<1>4. p \notin Window(t) /\ (\A u : p \notin Birth(u))
  BY <1>1, SignalPlan
<1>5. /\ IsPlan(t, q) /\ Op(q, "up", h)
      /\ q \notin Window(t) /\ \A v : q \notin Birth(v)
  <2>1. \A z : z = <<<<"up", h>>>> \o (IF x = "all" THEN p ELSE Tail(p)) =>
             /\ IsPlan(t, z) /\ Op(z, "up", h)
             /\ z \notin Window(t) /\ \A v : z \notin Birth(v)
    BY <1>1, <1>3, SignalPlan
  <2> QED
    BY <2>1
<1> HIDE DEF q
<1>6. \A o, y : Op(p, o, y) <=> o = "signal" /\ y = x
  BY <1>1, AtThis
<1>7. \A o, y : Op(q, o, y) <=> o = "up" /\ y = h
  BY <1>5, AtThis
<1>8. /\ CallType' /\ WaitersOK' /\ UnitsOK'
      /\ todo'[t] = q /\ \A u \in KThread : u # t => todo'[u] = todo[u]
  <2>1. holder' \in [LockName -> KThread \cup {Unheld}]
    BY <1>0 DEF CallType
  <2>2. \A s : ~Op(p, "retry", s) /\ ~Op(q, "retry", s)
    BY <1>6, <1>7
  <2> QED
    BY <1>0, <1>1, <1>2, <1>3, <1>4, <1>5, <2>1, <2>2, Frame
<1>9. LockOK'
  <2>1. \A l \in LockName :
              /\ ~Op(p, "hold", l) /\ ~Op(q, "hold", l) /\ ~Op(p, "up", l) /\ ~Op(q, "up", l)
              /\ ~Op(q, "drop", l) /\ ~Op(q, "queue", t)
    BY <1>3, <1>6, <1>7, SemNames
  <2>2. \A u \in KThread, l \in LockName :
              /\ Op(todo'[u], "hold", l) <=> Op(todo[u], "hold", l)
              /\ Op(todo'[u], "up", l) <=> Op(todo[u], "up", l)
              /\ Op(todo'[u], "drop", l) => Op(todo[u], "drop", l) \/ holder[l] = u
              /\ Op(todo'[u], "queue", u) => Op(todo[u], "queue", u) \/ holder["lock"] = u
    BY <1>1, <1>8, <2>1
  <2> QED
    BY <1>0, <2>2, LockSame
<1>10. SignalOK'
  <2>1. \A u, v \in KThread : Op(todo'[v], "up", u) <=> Op(todo[v], "up", u) \/ (v = t /\ u = h)
    <3>1. \A u : ~Op(p, "up", u) /\ (Op(q, "up", u) <=> u = h)
      BY <1>6, <1>7
    <3> QED
      BY <1>1, <1>8, <3>1
  <2>2. \A u \in KThread : todo'[u] \in Window(u) <=> todo[u] \in Window(u)
    BY <1>1, <1>4, <1>5, <1>8
  <2>3. todo[h] \in Window(h) /\ value[h] = 0 /\ \A v \in KThread : ~Op(todo[v], "up", h)
    BY <1>0, <1>3 DEF SignalOK
  <2>4. /\ \A u \in KThread : todo[u] \in Window(u) =>
              \/ u \in OnList(cond_waiters)
              \/ \E v \in KThread : Op(todo[v], "up", u)
              \/ value[u] = 1
        /\ \A u \in KThread : u \in OnList(cond_waiters) =>
              /\ todo[u] \in Window(u) /\ value[u] = 0
              /\ \A v \in KThread : ~Op(todo[v], "up", u)
        /\ \A u, v \in KThread : Op(todo[v], "up", u) => todo[u] \in Window(u) /\ value[u] = 0
        /\ \A u, v, w \in KThread : Op(todo[v], "up", u) /\ Op(todo[w], "up", u) => v = w
        /\ \A u \in KThread : value[u] # 0 => todo[u] \in Window(u) /\ value[u] = 1
    BY <1>0 DEF SignalOK
  <2>5. \A u \in KThread : todo'[u] \in Window(u) =>
              \/ u \in OnList(cond_waiters')
              \/ \E v \in KThread : Op(todo'[v], "up", u)
              \/ value'[u] = 1
    BY <1>3, <2>1, <2>2, <2>4
  <2>6. \A u \in KThread : u \in OnList(cond_waiters') =>
              /\ todo'[u] \in Window(u) /\ value'[u] = 0
              /\ \A v \in KThread : ~Op(todo'[v], "up", u)
    BY <1>3, <2>1, <2>2, <2>4
  <2>7. \A u, v \in KThread : Op(todo'[v], "up", u) => todo'[u] \in Window(u) /\ value'[u] = 0
    BY <2>1, <2>2, <2>3, <2>4
  <2>8. ASSUME NEW u \in KThread, NEW v \in KThread, NEW w \in KThread,
               Op(todo'[v], "up", u), Op(todo'[w], "up", u)
        PROVE  v = w
    <3>1. CASE u = h
      BY <2>1, <2>3, <2>8, <3>1
    <3>2. CASE u # h
      <4>1. Op(todo[v], "up", u) /\ Op(todo[w], "up", u)
        BY <2>1, <2>8, <3>2
      <4> QED
        BY <2>4, <4>1
    <3> QED
      BY <3>1, <3>2
  <2>9. \A u \in KThread : value'[u] # 0 => todo'[u] \in Window(u) /\ value'[u] = 1
    BY <2>2, <2>4
  <2> QED
    BY <1>3, <2>5, <2>6, <2>7, <2>8, <2>9 DEF SignalOK
<1> QED
  BY <1>8, <1>9, <1>10 DEF CallsOK

(* thread_create() begins. *)
LEMMA CreateStep ==
    ASSUME CallsOK, NEW t \in KThread, status[t] = "RUNNING", NEW x, Op(todo[t], "create", x),
           NEW u \in KThread, status[u] = "none", todo' = [todo EXCEPT ![t] = thread_create(u) \o Tail(@)],
           Blocked(u)', \A v \in KThread : v # u => (Blocked(v)' <=> Blocked(v)) /\ (Off(v)' <=> Off(v)),
           UNCHANGED <<value, waiters, holder, cond_waiters>>
    PROVE  CallsOK'
<1>0. /\ CallType /\ WaitersOK /\ LockOK /\ UnitsOK /\ SignalOK
      /\ IsPlan(t, todo[t]) /\ ~Blocked(t) /\ ~Off(t)
  BY Runs
<1> DEFINE p == todo[t]
           q == thread_create(u) \o Tail(p)
<1>1. IsPlan(t, p) /\ Op(p, "create", x) /\ p = todo[t]
  BY <1>0
<1>2. todo' = [todo EXCEPT ![t] = q]
  BY <1>0 DEF CallType
<1> HIDE DEF p
<1>3. p \notin Window(t) /\ (\A v : p \notin Birth(v))
  BY <1>1, CreatePlan
<1>4. IsPlan(t, q) /\ Op(q, "down", "tid_lock") /\ q \in Birth(u)
  <2>1. \A z : z = thread_create(u) \o Tail(p) => IsPlan(t, z) /\ Op(z, "down", "tid_lock") /\ z \in Birth(u)
    BY <1>1, CreatePlan
  <2> QED
    BY <2>1
<1> HIDE DEF q
<1>5. q \notin Window(t) /\ \A v : q \in Birth(v) <=> v = u
  BY <1>4, BirthOnly
<1>6. \A o, y : Op(p, o, y) <=> o = "create" /\ y = x
  BY <1>1, AtThis
<1>7. \A o, y : Op(q, o, y) <=> o = "down" /\ y = "tid_lock"
  BY <1>4, AtThis
<1>8. /\ u # t /\ ~Blocked(u) /\ Off(u) /\ todo[u] = <<>> /\ ~Off(u)'
      /\ \A v \in KThread : todo[v] \notin Birth(u)
      /\ \A o, y : ~Op(todo[u], o, y)
  <2>1. u # t /\ ~Blocked(u) /\ Off(u)
    BY DEF Blocked, Off
  <2>2. todo[u] = <<>>
    BY <1>0, <2>1 DEF CallType
  <2>3. \A v \in KThread : todo[v] \notin Birth(u)
    BY <1>0, <2>1 DEF WaitersOK
  <2>4. ~Off(u)'
    BY DEF Blocked, Off
  <2> QED
    BY <2>1, <2>2, <2>3, <2>4, EmptyPlan
<1>9. /\ CallType'
      /\ todo'[t] = q /\ \A v \in KThread : v # t => todo'[v] = todo[v]
  <2>1. /\ value' \in [SemName -> Nat] /\ waiters' \in [SemName -> Seq(KThread)]
        /\ holder' \in [LockName -> KThread \cup {Unheld}] /\ cond_waiters' \in Seq(KThread)
    BY <1>0 DEF CallType
  <2>2. \A v \in KThread : Off(v)' => Off(v)
    BY <1>8
  <2> QED
    BY <1>0, <1>2, <1>4, <2>1, <2>2, TypeStep
<1>10. WaitersOK'
  <2>1. \A s \in SemName : Once(waiters'[s])
    BY <1>0 DEF WaitersOK
  <2>2. \A s : ~Op(p, "retry", s) /\ ~Op(q, "retry", s)
    BY <1>6, <1>7
  <2>3. ASSUME NEW s \in SemName, NEW v \in KThread
        PROVE  v \in OnList(waiters'[s]) <=> Blocked(v)' /\ Op(todo'[v], "retry", s)
    <3>1. v \in OnList(waiters[s]) <=> Blocked(v) /\ Op(todo[v], "retry", s)
      BY <1>0 DEF WaitersOK
    <3> QED
      BY <1>1, <1>8, <1>9, <2>2, <3>1
  <2>4. \A v, w \in KThread : todo'[w] \in Birth(v) <=> todo[w] \in Birth(v) \/ (w = t /\ v = u)
    BY <1>1, <1>3, <1>5, <1>9
  <2>5. ASSUME NEW v \in KThread, Blocked(v)'
        PROVE  \/ \E s \in SemName : Op(todo'[v], "retry", s)
               \/ todo'[v] = <<>> /\ \E w \in KThread : todo'[w] \in Birth(v)
    <3>1. CASE v = u
      BY <1>8, <1>9, <2>4, <3>1
    <3>2. CASE v # u
      <4>1. Blocked(v) /\ v # t /\ todo'[v] = todo[v]
        BY <1>0, <1>9, <2>5, <3>2
      <4> QED
        BY <1>0, <2>4, <4>1 DEF WaitersOK
    <3> QED
      BY <3>1, <3>2
  <2>6. ASSUME NEW v \in KThread, NEW w \in KThread, todo'[w] \in Birth(v)
        PROVE  Blocked(v)' /\ todo'[v] = <<>>
    <3>1. CASE v = u
      BY <1>8, <1>9, <3>1
    <3>2. CASE v # u
      <4>1. Blocked(v) /\ todo[v] = <<>>
        BY <1>0, <2>4, <2>6, <3>2 DEF WaitersOK
      <4>2. v # t
        BY <1>0, <4>1
      <4> QED
        BY <1>9, <3>2, <4>1, <4>2
    <3> QED
      BY <3>1, <3>2
  <2>7. \A v, w, z \in KThread : todo'[w] \in Birth(v) /\ todo'[z] \in Birth(v) => w = z
    BY <1>0, <1>8, <2>4 DEF WaitersOK
  <2> QED
    BY <2>1, <2>3, <2>5, <2>6, <2>7 DEF WaitersOK
<1>11. LockOK'
  <2>1. \A l \in LockName :
              /\ ~Op(p, "hold", l) /\ ~Op(q, "hold", l) /\ ~Op(p, "up", l) /\ ~Op(q, "up", l)
              /\ ~Op(q, "drop", l) /\ ~Op(q, "queue", t)
    BY <1>6, <1>7
  <2>2. \A v \in KThread, l \in LockName :
              /\ Op(todo'[v], "hold", l) <=> Op(todo[v], "hold", l)
              /\ Op(todo'[v], "up", l) <=> Op(todo[v], "up", l)
              /\ Op(todo'[v], "drop", l) => Op(todo[v], "drop", l) \/ holder[l] = v
              /\ Op(todo'[v], "queue", v) => Op(todo[v], "queue", v) \/ holder["lock"] = v
    BY <1>1, <1>9, <2>1
  <2> QED
    BY <1>0, <2>2, LockSame
<1>12. UnitsOK'
  <2>1. \A s : ~Op(p, "retry", s) /\ ~Op(q, "retry", s)
    BY <1>6, <1>7
  <2>2. \A v \in KThread, s \in SemName : IsWoken(v, s)' <=> IsWoken(v, s)
    BY <1>1, <1>8, <1>9, <2>1 DEF IsWoken
  <2> QED
    BY <1>0, <2>2, UnitsSame
<1>13. SignalOK'
  <2>1. \A v \in KThread : value'[v] = value[v] /\ (todo'[v] \in Window(v) <=> todo[v] \in Window(v))
    BY <1>1, <1>3, <1>5, <1>9
  <2>2. \A v, w \in KThread : Op(todo'[w], "up", v) <=> Op(todo[w], "up", v)
    <3>1. \A v : ~Op(p, "up", v) /\ ~Op(q, "up", v)
      BY <1>6, <1>7
    <3> QED
      BY <1>1, <1>9, <3>1
  <2> QED
    BY <1>0, <2>1, <2>2, SignalSame
<1> QED
  BY <1>9, <1>10, <1>11, <1>12, <1>13 DEF CallsOK

(* thread_create() ends. *)
LEMMA UnblockStep ==
    ASSUME CallsOK, NEW t \in KThread, status[t] = "RUNNING", NEW x, Op(todo[t], "unblock", x),
           todo' = [todo EXCEPT ![t] = Tail(@)], UNCHANGED <<value, waiters, holder, cond_waiters>>,
           ~Blocked(x)', ~Off(x)',
           \A v \in KThread : v # x => (Blocked(v)' <=> Blocked(v)) /\ (Off(v)' <=> Off(v))
    PROVE  CallsOK'
<1>0. /\ CallType /\ WaitersOK /\ LockOK /\ UnitsOK /\ SignalOK
      /\ IsPlan(t, todo[t]) /\ ~Blocked(t) /\ ~Off(t)
  BY Runs
<1> DEFINE p == todo[t]
           q == Tail(p)
<1>1. IsPlan(t, p) /\ Op(p, "unblock", x) /\ p = todo[t]
  BY <1>0
<1>2. todo' = [todo EXCEPT ![t] = q]
  BY <1>0 DEF CallType
<1> HIDE DEF p
<1>3. x \in KThread /\ p \in Birth(x) /\ q = <<>>
  BY <1>1, UnblockPlan
<1> HIDE DEF q
<1>4. p \notin Window(t) /\ \A v : p \in Birth(v) <=> v = x
  BY <1>3, BirthOnly
<1>5. IsPlan(t, q) /\ q \notin Window(t) /\ (\A v : q \notin Birth(v)) /\ \A o, y : ~Op(q, o, y)
  BY <1>3, EmptyPlan
<1>6. \A o, y : Op(p, o, y) <=> o = "unblock" /\ y = x
  BY <1>1, AtThis
<1>7. Blocked(x) /\ todo[x] = <<>> /\ x # t /\ \A o, y : ~Op(todo[x], o, y)
  <2>1. Blocked(x) /\ todo[x] = <<>>
    BY <1>0, <1>1, <1>3 DEF WaitersOK
  <2>2. x # t
    BY <1>0, <2>1
  <2> QED
    BY <2>1, <2>2, EmptyPlan
<1>8. /\ CallType'
      /\ todo'[t] = q /\ \A v \in KThread : v # t => todo'[v] = todo[v]
  <2>1. /\ value' \in [SemName -> Nat] /\ waiters' \in [SemName -> Seq(KThread)]
        /\ holder' \in [LockName -> KThread \cup {Unheld}] /\ cond_waiters' \in Seq(KThread)
    BY <1>0 DEF CallType
  <2> QED
    BY <1>0, <1>2, <1>5, <2>1, TypeStep
<1>9. WaitersOK'
  <2>1. \A s \in SemName : Once(waiters'[s])
    BY <1>0 DEF WaitersOK
  <2>2. ASSUME NEW s \in SemName, NEW v \in KThread
        PROVE  v \in OnList(waiters'[s]) <=> Blocked(v)' /\ Op(todo'[v], "retry", s)
    <3>1. v \in OnList(waiters[s]) <=> Blocked(v) /\ Op(todo[v], "retry", s)
      BY <1>0 DEF WaitersOK
    <3>2. CASE v = t
      BY <1>0, <1>5, <1>8, <3>1, <3>2
    <3>3. CASE v # t
      BY <1>7, <1>8, <3>1, <3>3
    <3> QED
      BY <3>2, <3>3
  <2>3. \A v, w \in KThread : todo'[w] \in Birth(v) <=> todo[w] \in Birth(v) /\ w # t
    BY <1>5, <1>8
  <2>4. \A w \in KThread : todo[w] \in Birth(x) => w = t
    BY <1>0, <1>1, <1>3 DEF WaitersOK
  <2>5. ASSUME NEW v \in KThread, Blocked(v)'
        PROVE  \/ \E s \in SemName : Op(todo'[v], "retry", s)
               \/ todo'[v] = <<>> /\ \E w \in KThread : todo'[w] \in Birth(v)
    <3>1. Blocked(v) /\ v # x /\ v # t /\ todo'[v] = todo[v]
      BY <1>0, <1>7, <1>8, <2>5
    <3>2. \/ \E s \in SemName : Op(todo[v], "retry", s)
          \/ todo[v] = <<>> /\ \E w \in KThread : todo[w] \in Birth(v)
      BY <1>0, <3>1 DEF WaitersOK
    <3>3. \A w \in KThread : todo[w] \in Birth(v) => w # t
      BY <1>1, <1>4, <3>1
    <3> QED
      BY <2>3, <3>1, <3>2, <3>3
  <2>6. ASSUME NEW v \in KThread, NEW w \in KThread, todo'[w] \in Birth(v)
        PROVE  Blocked(v)' /\ todo'[v] = <<>>
    <3>1. todo[w] \in Birth(v) /\ w # t
      BY <2>3, <2>6
    <3>2. Blocked(v) /\ todo[v] = <<>> /\ v # x /\ v # t
      BY <1>0, <2>4, <3>1 DEF WaitersOK
    <3> QED
      BY <1>8, <3>2
  <2>7. \A v, w, z \in KThread : todo'[w] \in Birth(v) /\ todo'[z] \in Birth(v) => w = z
    BY <1>0, <2>3 DEF WaitersOK
  <2> QED
    BY <2>1, <2>2, <2>5, <2>6, <2>7 DEF WaitersOK
<1>10. LockOK'
  <2>1. \A l \in LockName :
              /\ ~Op(p, "hold", l) /\ ~Op(q, "hold", l) /\ ~Op(p, "up", l) /\ ~Op(q, "up", l)
              /\ ~Op(q, "drop", l) /\ ~Op(q, "queue", t)
    BY <1>5, <1>6
  <2>2. \A v \in KThread, l \in LockName :
              /\ Op(todo'[v], "hold", l) <=> Op(todo[v], "hold", l)
              /\ Op(todo'[v], "up", l) <=> Op(todo[v], "up", l)
              /\ Op(todo'[v], "drop", l) => Op(todo[v], "drop", l) \/ holder[l] = v
              /\ Op(todo'[v], "queue", v) => Op(todo[v], "queue", v) \/ holder["lock"] = v
    BY <1>1, <1>8, <2>1
  <2> QED
    BY <1>0, <2>2, LockSame
<1>11. UnitsOK'
  <2>1. \A s : ~Op(p, "retry", s) /\ ~Op(q, "retry", s)
    BY <1>5, <1>6
  <2>2. ASSUME NEW v \in KThread, NEW s \in SemName
        PROVE  IsWoken(v, s)' <=> IsWoken(v, s)
    <3>1. CASE v = t
      BY <1>1, <1>8, <2>1, <3>1 DEF IsWoken
    <3>2. CASE v # t
      BY <1>7, <1>8, <3>2 DEF IsWoken
    <3> QED
      BY <3>1, <3>2
  <2> QED
    BY <1>0, <2>2, UnitsSame
<1>12. SignalOK'
  <2>1. \A v \in KThread : value'[v] = value[v] /\ (todo'[v] \in Window(v) <=> todo[v] \in Window(v))
    BY <1>1, <1>4, <1>5, <1>8
  <2>2. \A v, w \in KThread : Op(todo'[w], "up", v) <=> Op(todo[w], "up", v)
    <3>1. \A v : ~Op(p, "up", v) /\ ~Op(q, "up", v)
      BY <1>5, <1>6
    <3> QED
      BY <1>1, <1>8, <3>1
  <2> QED
    BY <1>0, <2>1, <2>2, SignalSame
<1> QED
  BY <1>8, <1>9, <1>10, <1>11, <1>12 DEF CallsOK

(* semaphore_down() finds no unit. *)
LEMMA DownWaits ==
    ASSUME CallsOK, NEW t \in KThread, status[t] = "RUNNING", NEW x, NEW op \in {"down", "retry"},
           Op(todo[t], op, x), value[x] = 0,
           waiters' = [waiters EXCEPT ![x] = Append(@, t)], todo' = [todo EXCEPT ![t][1] = <<"retry", x>>],
           UNCHANGED <<value, holder, cond_waiters>>,
           Blocked(t)', \A v \in KThread : v # t => (Blocked(v)' <=> Blocked(v)) /\ (Off(v)' <=> Off(v))
    PROVE  CallsOK'
<1>0. /\ CallType /\ WaitersOK /\ LockOK /\ UnitsOK /\ SignalOK
      /\ IsPlan(t, todo[t]) /\ ~Blocked(t) /\ ~Off(t)
      /\ \A u \in KThread : todo[u] \notin Birth(t)
  BY Runs
<1> DEFINE p == todo[t]
           q == [p EXCEPT ![1] = <<"retry", x>>]
<1>1. IsPlan(t, p) /\ Op(p, op, x) /\ p = todo[t]
  BY <1>0
<1>2. todo' = [todo EXCEPT ![t] = q]
  BY <1>0 DEF CallType
<1> HIDE DEF p
<1>3. /\ IsPlan(t, q) /\ Op(q, "retry", x) /\ q # <<>>
      /\ p \in Window(t) <=> q \in Window(t)
      /\ \A u : p \in Birth(u) <=> q \in Birth(u)
  BY <1>1, RetryPlan
<1> HIDE DEF q
<1>4. x \in SemName
  <2>1. /\ x \in SemName /\ IsPlan(t, Tail(p)) /\ Tail(p) \notin Window(t)
        /\ \A u : p \in Birth(u) <=> Tail(p) \in Birth(u)
        /\ \/ x = "sema" /\ p \notin Window(t) /\ Tail(p) = <<>>
           \/ x \in LockName /\ Op(Tail(p), "hold", x) /\ p \notin Window(t)
           \/ x = t /\ p \in Window(t) /\ Op(Tail(p), "down", "lock")
    BY <1>1, DownPlan
  <2> QED
    BY <2>1
<1>5. \A o, y : Op(p, o, y) <=> o = op /\ y = x
  BY <1>1, AtThis
<1>6. \A o, y : Op(q, o, y) <=> o = "retry" /\ y = x
  BY <1>3, AtThis
<1>7. /\ waiters' \in [SemName -> Seq(KThread)] /\ waiters'[x] = Append(waiters[x], t)
      /\ \A s \in SemName : s # x => waiters'[s] = waiters[s]
  BY <1>0, <1>4 DEF CallType
<1>8. /\ CallType'
      /\ todo'[t] = q /\ \A v \in KThread : v # t => todo'[v] = todo[v]
  <2>1. /\ value' \in [SemName -> Nat]
        /\ holder' \in [LockName -> KThread \cup {Unheld}] /\ cond_waiters' \in Seq(KThread)
    BY <1>0 DEF CallType
  <2>2. \A u \in KThread : Off(u)' => Off(u) \/ (u = t /\ q = <<>>)
    <3>1. ~Off(t)'
      BY DEF Blocked, Off
    <3> QED
      BY <3>1
  <2> QED
    BY <1>0, <1>2, <1>3, <1>7, <2>1, <2>2, TypeStep
<1>9. \A s \in SemName : t \notin OnList(waiters[s])
  BY <1>0 DEF WaitersOK
<1>10. OnList(waiters'[x]) = OnList(waiters[x]) \cup {t} /\ Once(waiters'[x])
  <2> DEFINE w == waiters[x]
  <2>1. w \in Seq(KThread) /\ Once(w) /\ t \notin OnList(w)
    BY <1>0, <1>4, <1>9 DEF WaitersOK, CallType
  <2>2. waiters'[x] = Append(w, t)
    BY <1>7
  <2> HIDE DEF w
  <2>3. OnList(Append(w, t)) = OnList(w) \cup {t} /\ Once(Append(w, t))
    BY <2>1, OnListAppend
  <2> QED
    BY <2>2, <2>3 DEF w
<1>11. WaitersOK'
  <2>1. \A s \in SemName : Once(waiters'[s])
    BY <1>0, <1>7, <1>10 DEF WaitersOK
  <2>2. ASSUME NEW s \in SemName, NEW v \in KThread
        PROVE  v \in OnList(waiters'[s]) <=> Blocked(v)' /\ Op(todo'[v], "retry", s)
    <3>1. v \in OnList(waiters[s]) <=> Blocked(v) /\ Op(todo[v], "retry", s)
      BY <1>0 DEF WaitersOK
    <3>2. CASE v = t
      BY <1>6, <1>7, <1>8, <1>9, <1>10, <3>2
    <3>3. CASE v # t
      <4>1. v \in OnList(waiters'[s]) <=> v \in OnList(waiters[s])
        BY <1>7, <1>10, <3>3
      <4> QED
        BY <1>8, <3>1, <3>3, <4>1
    <3> QED
      BY <3>2, <3>3
  <2>3. \A v, w \in KThread : todo'[w] \in Birth(v) <=> todo[w] \in Birth(v)
    BY <1>1, <1>3, <1>8
  <2>4. ASSUME NEW v \in KThread, Blocked(v)'
        PROVE  \/ \E s \in SemName : Op(todo'[v], "retry", s)
               \/ todo'[v] = <<>> /\ \E w \in KThread : todo'[w] \in Birth(v)
    <3>1. CASE v = t
      BY <1>3, <1>4, <1>8, <3>1
    <3>2. CASE v # t
      BY <1>0, <1>8, <2>3, <2>4, <3>2 DEF WaitersOK
    <3> QED
      BY <3>1, <3>2
  <2>5. ASSUME NEW v \in KThread, NEW w \in KThread, todo'[w] \in Birth(v)
        PROVE  Blocked(v)' /\ todo'[v] = <<>>
    <3>1. v # t /\ Blocked(v) /\ todo[v] = <<>>
      BY <1>0, <2>3, <2>5 DEF WaitersOK
    <3> QED
      BY <1>8, <3>1
  <2>6. \A v, w, z \in KThread : todo'[w] \in Birth(v) /\ todo'[z] \in Birth(v) => w = z
    BY <1>0, <2>3 DEF WaitersOK
  <2> QED
    BY <2>1, <2>2, <2>4, <2>5, <2>6 DEF WaitersOK
<1>12. LockOK'
  <2>1. \A l \in LockName :
              /\ ~Op(p, "hold", l) /\ ~Op(q, "hold", l) /\ ~Op(p, "up", l) /\ ~Op(q, "up", l)
              /\ ~Op(q, "drop", l) /\ ~Op(q, "queue", t)
    BY <1>5, <1>6
  <2>2. \A v \in KThread, l \in LockName :
              /\ Op(todo'[v], "hold", l) <=> Op(todo[v], "hold", l)
              /\ Op(todo'[v], "up", l) <=> Op(todo[v], "up", l)
              /\ Op(todo'[v], "drop", l) => Op(todo[v], "drop", l) \/ holder[l] = v
              /\ Op(todo'[v], "queue", v) => Op(todo[v], "queue", v) \/ holder["lock"] = v
    BY <1>1, <1>8, <2>1
  <2> QED
    BY <1>0, <2>2, LockSame
<1>13. UnitsOK'
  <2>1. \A v \in KThread, s \in SemName : s # x => (IsWoken(v, s)' <=> IsWoken(v, s))
    <3>1. \A s : s # x => ~Op(p, "retry", s) /\ ~Op(q, "retry", s)
      BY <1>5, <1>6
    <3>2. \A s : s # x => (IsWoken(t, s)' <=> IsWoken(t, s))
      BY <1>1, <1>8, <3>1 DEF IsWoken
    <3>3. \A v \in KThread, s \in SemName : v # t => (IsWoken(v, s)' <=> IsWoken(v, s))
      BY <1>8 DEF IsWoken
    <3> QED
      BY <3>2, <3>3
  <2>2. ASSUME NEW s \in SemName, waiters'[s] # <<>>
        PROVE  value'[s] <= Cardinality({v \in KThread : IsWoken(v, s)'})
    <3>1. CASE s # x
      <4>1. {v \in KThread : IsWoken(v, s)'} = {v \in KThread : IsWoken(v, s)}
        BY <2>1, <3>1
      <4> QED
        BY <1>0, <1>7, <2>2, <3>1, <4>1 DEF UnitsOK
    <3>2. CASE s = x
      <4> DEFINE V == {v \in KThread : IsWoken(v, s)'}
      <4>1. IsFiniteSet(V)
        BY FS_Subset, RoundRobinAssumption
      <4> HIDE DEF V
      <4>2. Cardinality(V) \in Nat
        BY <4>1, FS_CardinalityType
      <4>3. value'[s] <= Cardinality(V)
        BY <3>2, <4>2
      <4> QED
        BY <4>3 DEF V
    <3> QED
      BY <3>1, <3>2
  <2> QED
    BY <2>2 DEF UnitsOK
<1>14. SignalOK'
  <2>1. \A v \in KThread : value'[v] = value[v] /\ (todo'[v] \in Window(v) <=> todo[v] \in Window(v))
    BY <1>1, <1>3, <1>8
  <2>2. \A v, w \in KThread : Op(todo'[w], "up", v) <=> Op(todo[w], "up", v)
    <3>1. \A v : ~Op(p, "up", v) /\ ~Op(q, "up", v)
      BY <1>5, <1>6
    <3> QED
      BY <1>1, <1>8, <3>1
  <2> QED
    BY <1>0, <2>1, <2>2, SignalSame
<1> QED
  BY <1>8, <1>11, <1>12, <1>13, <1>14 DEF CallsOK

(* What semaphore_up() does to the threads that wait: the first of them is *)
(* woken for the new unit.                                                 *)
LEMMA UpWakes ==
    ASSUME CoreOK, CallType, WaitersOK, UnitsOK, NEW x \in SemName, Up(x),
           \A u \in KThread : Blocked(u) => todo'[u] = todo[u],
           \A u, v \in KThread : todo'[u] \in Birth(v) <=> todo[u] \in Birth(v),
           \A u \in KThread, s \in SemName : Op(todo'[u], "retry", s) <=> Op(todo[u], "retry", s)
    PROVE  /\ WaitersOK' /\ UnitsOK'
           /\ value' \in [SemName -> Nat] /\ waiters' \in [SemName -> Seq(KThread)]
           /\ value'[x] = value[x] + 1 /\ \A s \in SemName : s # x => value'[s] = value[s]
<1> DEFINE w == waiters[x]
           h == Head(w)
<1>1. /\ value' \in [SemName -> Nat] /\ value'[x] = value[x] + 1
      /\ \A s \in SemName : s # x => value'[s] = value[s]
  BY DEF Up, CallType
<1>2. /\ \A s \in SemName : Once(waiters[s]) /\ waiters[s] \in Seq(KThread)
      /\ \A s \in SemName, t \in KThread :
           t \in OnList(waiters[s]) <=> Blocked(t) /\ Op(todo[t], "retry", s)
  BY DEF WaitersOK, CallType
<1>3. CASE w = <<>>
  <2>1. UNCHANGED <<waiters, status>>
    BY <1>3 DEF Up
  <2>2. \A u \in KThread : Blocked(u)' <=> Blocked(u)
    BY <2>1 DEF Blocked
  <2>3. WaitersOK'
    BY <2>1, <2>2, WaitersSame
  <2>4. ASSUME NEW s \in SemName, waiters'[s] # <<>>
        PROVE  value'[s] <= Cardinality({t \in KThread : IsWoken(t, s)'})
    <3>1. s # x /\ value'[s] = value[s]
      BY <1>1, <1>3, <2>1, <2>4
    <3>2. {t \in KThread : IsWoken(t, s)'} = {t \in KThread : IsWoken(t, s)}
      BY <2>2 DEF IsWoken
    <3> QED
      BY <2>1, <2>4, <3>1, <3>2 DEF UnitsOK
  <2> QED
    BY <1>1, <2>1, <2>3, <2>4 DEF UnitsOK, CallType
<1>4. CASE w # <<>>
  <2>1. /\ thread_unblock(h)
        /\ waiters' = [waiters EXCEPT ![x] = Tail(@)]
    BY <1>4 DEF Up
  <2>2. /\ waiters' \in [SemName -> Seq(KThread)] /\ waiters'[x] = Tail(w)
        /\ \A s \in SemName : s # x => waiters'[s] = waiters[s]
    <3>1. Tail(w) \in Seq(KThread)
      BY <1>2, <1>4
    <3> QED
      BY <2>1, <3>1 DEF CallType
  <2>3. /\ h \in KThread /\ h \in OnList(w) /\ OnList(w) = OnList(waiters'[x]) \cup {h}
        /\ Once(waiters'[x]) /\ h \notin OnList(waiters'[x])
    <3>1. w \in Seq(KThread) /\ Once(w)
      BY <1>2
    <3> DEFINE r == w
    <3>2. r = w
      OBVIOUS
    <3> HIDE DEF r
    <3>3. /\ Head(r) \in KThread /\ Head(r) \in OnList(r) /\ OnList(r) = OnList(Tail(r)) \cup {Head(r)}
          /\ Once(Tail(r)) /\ Head(r) \notin OnList(Tail(r))
      BY <1>4, <3>1, <3>2, OnListTail
    <3> QED
      BY <2>2, <3>2, <3>3
  <2> HIDE DEF h
  <2>4. Blocked(h) /\ Op(todo[h], "retry", x) /\ \A s : Op(todo[h], "retry", s) => s = x
    <3>1. Blocked(h) /\ Op(todo[h], "retry", x)
      BY <1>2, <2>3
    <3> QED
      BY <3>1, AtThis
  <2>5. \A u \in KThread : Blocked(u)' <=> Blocked(u) /\ u # h
    <3>1. status' = [status EXCEPT ![h] = "READY"]
      BY <2>1 DEF thread_unblock
    <3>2. ASSUME NEW u \in KThread
          PROVE  Blocked(u)' <=> Blocked(u) /\ u # h
      <4>1. CASE u = h
        <5>1. status'[h] # "BLOCKED"
          BY <2>3, <3>1 DEF CoreOK, Threads
        <5> QED
          BY <4>1, <5>1 DEF Blocked
      <4>2. CASE u # h
        BY <3>1, <4>2 DEF Blocked
      <4> QED
        BY <4>1, <4>2
    <3> QED
      BY <3>2
  <2>6. WaitersOK'
    <3>1. \A s \in SemName : Once(waiters'[s])
      BY <1>2, <2>2, <2>3
    <3>2. ASSUME NEW s \in SemName, NEW t \in KThread
          PROVE  t \in OnList(waiters'[s]) <=> Blocked(t)' /\ Op(todo'[t], "retry", s)
      <4>1. t \in OnList(waiters[s]) <=> Blocked(t) /\ Op(todo[t], "retry", s)
        BY <1>2
      <4>2. t \in OnList(waiters'[s]) <=> t \in OnList(waiters[s]) /\ t # h
        <5>1. CASE s = x
          <6>1. t \in OnList(waiters[x]) <=> t \in OnList(waiters'[x]) \/ t = h
            BY <2>3
          <6> QED
            BY <2>3, <5>1, <6>1
        <5>2. CASE s # x
          <6>1. t = h => t \notin OnList(waiters[s])
            BY <1>2, <2>4, <5>2
          <6> QED
            BY <2>2, <5>2, <6>1
        <5> QED
          BY <5>1, <5>2
      <4> QED
        BY <2>5, <4>1, <4>2
    <3>3. ASSUME NEW t \in KThread, Blocked(t)'
          PROVE  \/ \E s \in SemName : Op(todo'[t], "retry", s)
                 \/ todo'[t] = <<>> /\ \E u \in KThread : todo'[u] \in Birth(t)
      <4>1. Blocked(t) /\ todo'[t] = todo[t]
        BY <2>5, <3>3
      <4>2. \/ \E s \in SemName : Op(todo[t], "retry", s)
            \/ todo[t] = <<>> /\ \E u \in KThread : todo[u] \in Birth(t)
        BY <4>1 DEF WaitersOK
      <4> QED
        BY <4>1, <4>2
    <3>4. ASSUME NEW t \in KThread, NEW u \in KThread, todo'[u] \in Birth(t)
          PROVE  Blocked(t)' /\ todo'[t] = <<>>
      <4>1. Blocked(t) /\ todo[t] = <<>>
        BY <3>4 DEF WaitersOK
      <4>2. t # h
        BY <2>4, <4>1 DEF Op
      <4> QED
        BY <2>5, <4>1, <4>2
    <3>5. \A t, u, v \in KThread : todo'[u] \in Birth(t) /\ todo'[v] \in Birth(t) => u = v
      BY DEF WaitersOK
    <3> QED
      BY <3>1, <3>2, <3>3, <3>4, <3>5 DEF WaitersOK
  <2>7. \A t \in KThread, s \in SemName : IsWoken(t, s)' <=> IsWoken(t, s) \/ (t = h /\ s = x)
    <3>1. \A t \in KThread, s \in SemName : IsWoken(t, s)' <=> (~Blocked(t) \/ t = h) /\ Op(todo[t], "retry", s)
      BY <2>5 DEF IsWoken
    <3>2. \A s \in SemName : Op(todo[h], "retry", s) <=> s = x
      BY <2>4
    <3> QED
      BY <2>4, <3>1, <3>2 DEF IsWoken
  <2>8. ASSUME NEW s \in SemName, waiters'[s] # <<>>
        PROVE  value'[s] <= Cardinality({t \in KThread : IsWoken(t, s)'})
    <3> DEFINE W == {t \in KThread : IsWoken(t, s)}
               V == {t \in KThread : IsWoken(t, s)'}
    <3>1. waiters[s] # <<>>
      BY <1>4, <2>2, <2>8
    <3>2. value[s] <= Cardinality(W) /\ value[s] \in Nat /\ Cardinality(W) \in Nat /\ IsFiniteSet(W)
      BY <3>1, WokenFinite DEF UnitsOK, CallType
    <3>3. CASE s # x
      <4>1. V = W
        BY <2>7, <3>3
      <4>2. value'[s] = value[s]
        BY <1>1, <3>3
      <4> HIDE DEF V, W
      <4>3. value'[s] <= Cardinality(V)
        BY <3>2, <4>1, <4>2
      <4> QED
        BY <4>3 DEF V
    <3>4. CASE s = x
      <4>1. V = W \cup {h} /\ h \notin W
        BY <2>3, <2>4, <2>7, <3>4 DEF IsWoken
      <4> HIDE DEF V, W
      <4>2. Cardinality(V) = Cardinality(W) + 1
        BY <3>2, <4>1, FS_AddElement
      <4>3. value'[s] = value[s] + 1
        BY <1>1, <3>4
      <4>4. value'[s] <= Cardinality(V)
        BY <3>2, <4>2, <4>3
      <4> QED
        BY <4>4 DEF V
    <3> QED
      BY <3>3, <3>4
  <2> QED
    BY <1>1, <2>2, <2>6, <2>8 DEF UnitsOK
<1> QED
  BY <1>3, <1>4

(* semaphore_up() in a thread. *)
LEMMA UpStep ==
    ASSUME CoreOK, CallsOK, NEW t \in KThread, status[t] = "RUNNING", NEW x, Op(todo[t], "up", x), Up(x),
           todo' = [todo EXCEPT ![t] = Tail(@)], UNCHANGED <<holder, cond_waiters>>,
           \A u \in KThread : Off(u)' => Off(u)
    PROVE  CallsOK'
<1>0. /\ CallType /\ WaitersOK /\ LockOK /\ UnitsOK /\ SignalOK
      /\ IsPlan(t, todo[t]) /\ ~Blocked(t) /\ ~Off(t)
  BY Runs
<1> DEFINE p == todo[t]
           q == Tail(p)
<1>1. IsPlan(t, p) /\ Op(p, "up", x) /\ p = todo[t]
  BY <1>0
<1>2. todo' = [todo EXCEPT ![t] = q]
  BY <1>0 DEF CallType
<1> HIDE DEF p
<1>3. /\ x \in SemName /\ IsPlan(t, q)
      /\ p \in Window(t) <=> q \in Window(t)
      /\ \A u : p \in Birth(u) <=> q \in Birth(u)
      /\ \/ q = <<>>
         \/ Op(q, "down", t) /\ x \notin KThread
         \/ Op(q, "signal", "all")
         \/ \E u \in KThread : Op(q, "unblock", u) /\ x \notin KThread
      /\ x \in KThread => p \notin Window(t)
  BY <1>1, UpPlan
<1> HIDE DEF q
<1>4. \A o, y : Op(p, o, y) <=> o = "up" /\ y = x
  BY <1>1, AtThis
<1>5. \A o, y : Op(q, o, y) => o \in {"down", "signal", "unblock"}
  <2>1. CASE q = <<>>
    BY <2>1, AtOnly
  <2>2. CASE Op(q, "down", t)
    BY <2>2, AtThis
  <2>3. CASE Op(q, "signal", "all")
    BY <2>3, AtThis
  <2>4. CASE \E u \in KThread : Op(q, "unblock", u)
    <3>1. PICK u \in KThread : Op(q, "unblock", u)
      BY <2>4
    <3> QED
      BY <3>1, AtThis
  <2> QED
    BY <1>3, <2>1, <2>2, <2>3, <2>4
<1>6. \A y : /\ ~Op(p, "retry", y) /\ ~Op(p, "hold", y) /\ ~Op(p, "drop", y) /\ ~Op(p, "queue", y)
             /\ ~Op(q, "retry", y) /\ ~Op(q, "hold", y) /\ ~Op(q, "drop", y) /\ ~Op(q, "queue", y)
             /\ ~Op(q, "up", y)
  BY <1>4, <1>5
<1>7. DOMAIN todo' = KThread /\ todo'[t] = q /\ \A u \in KThread : u # t => todo'[u] = todo[u]
  BY <1>0, <1>2 DEF CallType
<1>8. /\ WaitersOK' /\ UnitsOK'
      /\ value' \in [SemName -> Nat] /\ waiters' \in [SemName -> Seq(KThread)]
      /\ value'[x] = value[x] + 1 /\ \A s \in SemName : s # x => value'[s] = value[s]
  <2>1. \A u \in KThread : Blocked(u) => todo'[u] = todo[u]
    BY <1>0, <1>7
  <2>2. \A u, v \in KThread : todo'[u] \in Birth(v) <=> todo[u] \in Birth(v)
    BY <1>1, <1>3, <1>7
  <2>3. \A u \in KThread, s \in SemName : Op(todo'[u], "retry", s) <=> Op(todo[u], "retry", s)
    BY <1>1, <1>6, <1>7
  <2> QED
    BY <1>0, <1>3, <2>1, <2>2, <2>3, UpWakes
<1>9. CallType'
  <2>1. holder' \in [LockName -> KThread \cup {Unheld}] /\ cond_waiters' \in Seq(KThread)
    BY <1>0 DEF CallType
  <2>2. \A u \in KThread : Off(u)' => Off(u) \/ (u = t /\ q = <<>>)
    OBVIOUS
  <2> QED
    BY <1>0, <1>2, <1>3, <1>8, <2>1, <2>2, TypeStep
<1>10. LockOK'
  <2>1. CASE x \notin LockName
    <3>1. \A u \in KThread, l \in LockName :
              /\ Op(todo'[u], "hold", l) <=> Op(todo[u], "hold", l)
              /\ Op(todo'[u], "up", l) <=> Op(todo[u], "up", l)
              /\ Op(todo'[u], "drop", l) => Op(todo[u], "drop", l) \/ holder[l] = u
              /\ Op(todo'[u], "queue", u) => Op(todo[u], "queue", u) \/ holder["lock"] = u
      <4>1. \A l \in LockName : ~Op(p, "up", l)
        BY <1>4, <2>1
      <4> QED
        BY <1>1, <1>6, <1>7, <4>1
    <3>2. \A l \in LockName : value'[l] = value[l]
      BY <1>8, <2>1, SemNames
    <3> QED
      BY <1>0, <3>1, <3>2, LockSame
  <2>2. CASE x \in LockName
    <3>1. IsInside(t, x) /\ value[x] = 0 /\ holder[x] # t /\ \A u \in KThread : IsInside(u, x) => u = t
      <4>1. IsInside(t, x)
        BY <1>1 DEF IsInside
      <4> QED
        BY <1>0, <1>1, <2>2, <4>1 DEF LockOK
    <3>2. \A u \in KThread : \A l \in LockName : IsInside(u, l)' <=> IsInside(u, l) /\ l # x
      <4>1. \A l \in LockName : IsInside(t, l)' <=> holder[l] = t
        BY <1>6, <1>7 DEF IsInside
      <4>2. \A l \in LockName : l # x => (IsInside(t, l) <=> holder[l] = t)
        <5>1. \A l \in LockName : l # x => ~Op(p, "up", l)
          BY <1>4
        <5> QED
          BY <1>1, <1>6, <5>1 DEF IsInside
      <4>3. \A u \in KThread : u # t => \A l \in LockName : IsInside(u, l)' <=> IsInside(u, l)
        BY <1>7 DEF IsInside
      <4>4. ASSUME NEW u \in KThread, NEW l \in LockName
            PROVE  IsInside(u, l)' <=> IsInside(u, l) /\ l # x
        <5>1. CASE u = t /\ l = x
          BY <3>1, <4>1, <5>1
        <5>2. CASE u = t /\ l # x
          BY <4>1, <4>2, <5>2
        <5>3. CASE u # t
          BY <3>1, <4>3, <5>3
        <5> QED
          BY <5>1, <5>2, <5>3
      <4> QED
        BY <4>4
    <3>3. \A l \in LockName : value'[l] = IF l = x THEN 1 ELSE value[l]
      BY <1>8, <3>1, SemNames
    <3>4. /\ \A l \in LockName : value[l] \in {0, 1}
          /\ \A l \in LockName, u \in KThread : IsInside(u, l) => value[l] = 0
          /\ \A l \in LockName : value[l] = 0 => \E u \in KThread : IsInside(u, l)
          /\ \A l \in LockName, u, v \in KThread : IsInside(u, l) /\ IsInside(v, l) => u = v
      BY <1>0 DEF LockOK
    <3>5. /\ \A l \in LockName : value'[l] \in {0, 1}
          /\ \A l \in LockName, u \in KThread : IsInside(u, l)' => value'[l] = 0
          /\ \A l \in LockName, u, v \in KThread : IsInside(u, l)' /\ IsInside(v, l)' => u = v
      BY <3>2, <3>3, <3>4
    <3>6. ASSUME NEW l \in LockName, value'[l] = 0
          PROVE  \E u \in KThread : IsInside(u, l)'
      <4>1. l # x /\ value[l] = 0
        BY <3>3, <3>6
      <4> QED
        BY <3>2, <3>4, <4>1
    <3>7. ASSUME NEW u \in KThread, NEW l \in LockName
          PROVE  /\ Op(todo'[u], "up", l) => holder'[l] # u
                 /\ Op(todo'[u], "drop", l) => holder'[l] = u
                 /\ Op(todo'[u], "queue", u) => holder'["lock"] = u
      <4>1. CASE u = t
        BY <1>6, <1>7, <4>1
      <4>2. CASE u # t
        BY <1>0, <1>7, <4>2 DEF LockOK
      <4> QED
        BY <4>1, <4>2
    <3> QED
      BY <3>5, <3>6, <3>7 DEF LockOK
  <2> QED
    BY <2>1, <2>2
<1>11. SignalOK'
  <2>1. \A u \in KThread : todo'[u] \in Window(u) <=> todo[u] \in Window(u)
    BY <1>1, <1>3, <1>7
  <2>2. CASE x \notin KThread
    <3>1. \A u, v \in KThread : Op(todo'[v], "up", u) <=> Op(todo[v], "up", u)
      <4>1. \A u \in KThread : ~Op(p, "up", u) /\ ~Op(q, "up", u)
        BY <1>4, <1>6, <2>2
      <4> QED
        BY <1>1, <1>7, <4>1
    <3>2. \A u \in KThread : value'[u] = value[u]
      BY <1>8, <2>2, SemNames
    <3> QED
      BY <1>0, <2>1, <3>1, <3>2, SignalSame
  <2>3. CASE x \in KThread
    <3>1. \A u, v \in KThread : Op(todo'[v], "up", u) <=> Op(todo[v], "up", u) /\ v # t
      BY <1>6, <1>7
    <3>2. /\ todo[x] \in Window(x) /\ value[x] = 0 /\ x \notin OnList(cond_waiters)
          /\ \A v \in KThread : Op(todo[v], "up", x) => v = t
      BY <1>0, <1>1, <2>3 DEF SignalOK
    <3>3. \A u \in KThread : Op(todo[t], "up", u) => u = x
      BY <1>1, <1>4
    <3>4. value'[x] = 1 /\ \A u \in KThread : u # x => value'[u] = value[u]
      BY <1>8, <3>2, SemNames
    <3>5. /\ Once(cond_waiters)
          /\ \A u \in KThread : todo[u] \in Window(u) =>
                \/ u \in OnList(cond_waiters)
                \/ \E v \in KThread : Op(todo[v], "up", u)
                \/ value[u] = 1
          /\ \A u \in KThread : u \in OnList(cond_waiters) =>
                /\ todo[u] \in Window(u) /\ value[u] = 0
                /\ \A v \in KThread : ~Op(todo[v], "up", u)
          /\ \A u, v \in KThread : Op(todo[v], "up", u) => todo[u] \in Window(u) /\ value[u] = 0
          /\ \A u, v, w \in KThread : Op(todo[v], "up", u) /\ Op(todo[w], "up", u) => v = w
          /\ \A u \in KThread : value[u] # 0 => todo[u] \in Window(u) /\ value[u] = 1
      BY <1>0 DEF SignalOK
    <3>6. ASSUME NEW u \in KThread, todo'[u] \in Window(u)
          PROVE  \/ u \in OnList(cond_waiters')
                 \/ \E v \in KThread : Op(todo'[v], "up", u)
                 \/ value'[u] = 1
      <4>1. CASE u = x
        BY <3>4, <4>1
      <4>2. CASE u # x
        BY <2>1, <3>1, <3>3, <3>4, <3>5, <3>6, <4>2
      <4> QED
        BY <4>1, <4>2
    <3>7. ASSUME NEW u \in KThread, u \in OnList(cond_waiters')
          PROVE  /\ todo'[u] \in Window(u) /\ value'[u] = 0
                 /\ \A v \in KThread : ~Op(todo'[v], "up", u)
      BY <2>1, <3>1, <3>2, <3>4, <3>5, <3>7
    <3>8. ASSUME NEW u \in KThread, NEW v \in KThread, Op(todo'[v], "up", u)
          PROVE  todo'[u] \in Window(u) /\ value'[u] = 0
      <4>1. Op(todo[v], "up", u) /\ v # t
        BY <3>1, <3>8
      <4>2. u # x
        BY <3>2, <4>1
      <4> QED
        BY <2>1, <3>4, <3>5, <4>1, <4>2
    <3>9. \A u, v, w \in KThread : Op(todo'[v], "up", u) /\ Op(todo'[w], "up", u) => v = w
      BY <3>1, <3>5
    <3>10. ASSUME NEW u \in KThread, value'[u] # 0
           PROVE  todo'[u] \in Window(u) /\ value'[u] = 1
      <4>1. CASE u = x
        BY <2>1, <3>2, <3>4, <4>1
      <4>2. CASE u # x
        BY <2>1, <3>4, <3>5, <3>10, <4>2
      <4> QED
        BY <4>1, <4>2
    <3> QED
      BY <3>5, <3>6, <3>7, <3>8, <3>9, <3>10 DEF SignalOK
  <2> QED
    BY <2>2, <2>3
<1> QED
  BY <1>8, <1>9, <1>10, <1>11 DEF CallsOK

(* semaphore_up() in an interrupt. *)
LEMMA DeviceUp ==
    ASSUME CoreOK, CallsOK, Up("sema"), UNCHANGED <<todo, holder, cond_waiters>>,
           \A u \in KThread : Off(u)' => Off(u)
    PROVE  CallsOK'
<1>0. CallType /\ WaitersOK /\ LockOK /\ UnitsOK /\ SignalOK
  BY DEF CallsOK
<1>1. /\ WaitersOK' /\ UnitsOK'
      /\ value' \in [SemName -> Nat] /\ waiters' \in [SemName -> Seq(KThread)]
      /\ \A s \in SemName : s # "sema" => value'[s] = value[s]
  BY <1>0, SemNames, UpWakes
<1>2. CallType'
  BY <1>0, <1>1 DEF CallType
<1>3. LockOK'
  <2>1. \A l \in LockName : value'[l] = value[l]
    BY <1>1, SemNames
  <2> QED
    BY <1>0, <2>1, LockSame
<1>4. SignalOK'
  <2>1. \A u \in KThread : value'[u] = value[u]
    BY <1>1, SemNames
  <2> QED
    BY <1>0, <2>1, SignalSame
<1> QED
  BY <1>1, <1>2, <1>3, <1>4 DEF CallsOK

(* What the scheduler is asked to do in a step that leaves it alone. *)
LEMMA CoreSame ==
    ASSUME CoreOK, SameThread, UNCHANGED <<status, ready_list>>, Ticks(0)
    PROVE  CoreOK' /\ \A u \in KThread : (Blocked(u)' <=> Blocked(u)) /\ (Off(u)' <=> Off(u))
<1>1. status' \in [Threads -> Status] /\ thread_ticks' = thread_ticks + 0 /\ thread_ticks' < TIME_SLICE
  BY DEF CoreOK, SameThread
<1>2. CoreOK'
  BY <1>1, CoreStays DEF SameThread
<1> QED
  BY <1>2 DEF Blocked, Off

(* In semaphore_up() it may have to wake the first thread that waits. *)
LEMMA CoreUp ==
    ASSUME CoreOK, CallType, WaitersOK, NEW x \in SemName, Up(x), SameThread, Ticks(0)
    PROVE  CoreOK' /\ \A u \in KThread : Off(u)' => Off(u)
<1>1. CASE waiters[x] = <<>>
  <2>1. UNCHANGED <<status, ready_list>>
    BY <1>1 DEF Up
  <2> QED
    BY <2>1, CoreSame
<1>2. CASE waiters[x] # <<>>
  <2> DEFINE h == Head(waiters[x])
  <2>1. thread_unblock(h)
    BY <1>2 DEF Up
  <2>2. h \in KThread /\ h \in OnList(waiters[x])
    BY <1>2, OnListTail DEF CallType
  <2> HIDE DEF h
  <2>3. Blocked(h)
    BY <2>2 DEF WaitersOK
  <2>4. CoreOK' /\ \A u \in KThread : status'[u] = IF u = h THEN "READY" ELSE status[u]
    BY <2>1, <2>2, <2>3, CoreWakes
  <2> QED
    BY <2>4 DEF Off
<1> QED
  BY <1>1, <1>2

(* The thread that takes a step runs, and its plan is at that step. *)
LEMMA AtStep ==
    ASSUME ThreadInv, NEW t \in KThread, NEW op, Next1(t, op)
    PROVE  /\ CoreOK /\ CallsOK /\ current = t /\ status[t] = "RUNNING" /\ Op(todo[t], op, Arg(t))
           /\ DOMAIN todo = KThread
<1>1. CoreOK /\ CallsOK /\ current = t /\ status[t] = "RUNNING"
  BY DEF ThreadInv, CoreOK, Next1
<1>2. IsPlan(t, todo[t]) /\ DOMAIN todo = KThread
  BY <1>1 DEF CallsOK, CallType
<1> QED
  BY <1>1, <1>2, AtIs

(* Each step of a thread keeps the invariant: semaphore_down(), *)
LEMMA DownKeeps ==
    ASSUME ThreadInv, NEW t \in KThread, semaphore_down(t), Ticks(0)
    PROVE  ThreadInv'
<1>1. PICK op \in {"down", "retry"} : Next1(t, op)
  BY DEF semaphore_down
<1> DEFINE x == Arg(t)
<1>2. CoreOK /\ CallsOK /\ current = t /\ status[t] = "RUNNING" /\ Op(todo[t], op, x)
  BY <1>1, AtStep
<1>3. CASE value[x] = 0
  <2>1. /\ waiters' = [waiters EXCEPT ![x] = Append(@, t)]
        /\ Schedule([status EXCEPT ![t] = "BLOCKED"], ready_list)
        /\ todo' = [todo EXCEPT ![t][1] = <<"retry", x>>]
        /\ UNCHANGED <<value, holder, cond_waiters>>
    BY <1>3 DEF semaphore_down
  <2> HIDE DEF x
  <2>2. /\ CoreOK'
        /\ \A v \in KThread : \/ v = current /\ status'[v] = "BLOCKED"
                              \/ v # current /\ status'[v] = status[v]
                              \/ v # current /\ status[v] = "READY" /\ status'[v] = "RUNNING"
    <3>1. Schedule([status EXCEPT ![current] = "BLOCKED"], ready_list)
      BY <1>2, <2>1
    <3> QED
      BY <1>2, <3>1, CoreLeaves
  <2>3. Blocked(t)' /\ \A v \in KThread : v # t => (Blocked(v)' <=> Blocked(v)) /\ (Off(v)' <=> Off(v))
    BY <1>2, <2>2 DEF Blocked, Off
  <2>4. CallsOK'
    BY <1>2, <1>3, <2>1, <2>3, DownWaits
  <2> QED
    BY <2>2, <2>4 DEF ThreadInv
<1>4. CASE value[x] # 0
  <2>1. /\ value' = [value EXCEPT ![x] = @ - 1] /\ todo' = [todo EXCEPT ![t] = Tail(@)]
        /\ SameThread /\ UNCHANGED <<status, ready_list, waiters, holder, cond_waiters>>
    BY <1>4 DEF semaphore_down, Done
  <2> HIDE DEF x
  <2>2. CallsOK'
    BY <1>2, <1>4, <2>1, DownTakes
  <2>3. CoreOK'
    BY <1>2, <2>1, CoreSame
  <2> QED
    BY <2>2, <2>3 DEF ThreadInv
<1> QED
  BY <1>3, <1>4

(* semaphore_up(), *)
LEMMA UpKeeps ==
    ASSUME ThreadInv, NEW t \in KThread, semaphore_up(t), Ticks(0)
    PROVE  ThreadInv'
<1> DEFINE x == Arg(t)
<1>1. CoreOK /\ CallsOK /\ current = t /\ status[t] = "RUNNING" /\ Op(todo[t], "up", x)
  BY AtStep DEF semaphore_up
<1>2. Up(x) /\ todo' = [todo EXCEPT ![t] = Tail(@)] /\ SameThread /\ UNCHANGED <<holder, cond_waiters>>
  BY DEF semaphore_up, Done
<1> HIDE DEF x
<1>3. x \in SemName /\ CallType /\ WaitersOK
  <2>1. IsPlan(t, todo[t]) /\ CallType /\ WaitersOK
    BY <1>1 DEF CallsOK, CallType
  <2> DEFINE p == todo[t]
  <2>2. IsPlan(t, p) /\ Op(p, "up", x)
    BY <1>1, <2>1
  <2> HIDE DEF p
  <2> QED
    BY <2>1, <2>2, UpPlan
<1>4. CoreOK' /\ \A u \in KThread : Off(u)' => Off(u)
  BY <1>1, <1>2, <1>3, CoreUp
<1>5. CallsOK'
  BY <1>1, <1>2, <1>4, UpStep
<1> QED
  BY <1>4, <1>5 DEF ThreadInv

(* lock_acquire() and lock_release() at the lock's holder, *)
LEMMA HolderKeeps ==
    ASSUME ThreadInv, NEW t \in KThread, SetHolder(t), Ticks(0)
    PROVE  ThreadInv'
<1> DEFINE x == Arg(t)
<1>1. /\ holder' = [holder EXCEPT ![x] = IF Next1(t, "hold") THEN t ELSE Unheld]
      /\ todo' = [todo EXCEPT ![t] = Tail(@)]
      /\ SameThread /\ UNCHANGED <<status, ready_list, value, waiters, cond_waiters>>
  BY DEF SetHolder, Done
<1>2. CASE Next1(t, "hold")
  <2>1. CoreOK /\ CallsOK /\ current = t /\ status[t] = "RUNNING" /\ Op(todo[t], "hold", x)
    BY <1>2, AtStep
  <2>2. holder' = [holder EXCEPT ![x] = t]
    BY <1>1, <1>2
  <2> HIDE DEF x
  <2>3. CoreOK' /\ \A u \in KThread : (Blocked(u)' <=> Blocked(u)) /\ (Off(u)' <=> Off(u))
    BY <1>1, <2>1, CoreSame
  <2>4. CallsOK'
    BY <1>1, <2>1, <2>2, <2>3, HoldStep
  <2> QED
    BY <2>3, <2>4 DEF ThreadInv
<1>3. CASE Next1(t, "drop")
  <2>1. CoreOK /\ CallsOK /\ current = t /\ status[t] = "RUNNING" /\ Op(todo[t], "drop", x)
    BY <1>3, AtStep
  <2>2. holder' = [holder EXCEPT ![x] = Unheld]
    <3>1. ~Next1(t, "hold")
      BY <1>3 DEF Next1
    <3> QED
      BY <1>1, <3>1
  <2> HIDE DEF x
  <2>3. CoreOK' /\ \A u \in KThread : (Blocked(u)' <=> Blocked(u)) /\ (Off(u)' <=> Off(u))
    BY <1>1, <2>1, CoreSame
  <2>4. CallsOK'
    BY <1>1, <2>1, <2>2, <2>3, DropStep
  <2> QED
    BY <2>3, <2>4 DEF ThreadInv
<1> QED
  BY <1>2, <1>3 DEF SetHolder

(* condvar_wait() at the queue, *)
LEMMA QueueKeeps ==
    ASSUME ThreadInv, NEW t \in KThread, QueueWaiter(t), Ticks(0)
    PROVE  ThreadInv'
<1> DEFINE x == Arg(t)
<1>1. CoreOK /\ CallsOK /\ current = t /\ status[t] = "RUNNING" /\ Op(todo[t], "queue", x)
  BY AtStep DEF QueueWaiter
<1>2. /\ cond_waiters' = Append(cond_waiters, t) /\ value' = [value EXCEPT ![t] = 0]
      /\ todo' = [todo EXCEPT ![t] = Tail(@)]
      /\ SameThread /\ UNCHANGED <<status, ready_list, waiters, holder>>
  BY DEF QueueWaiter, Done
<1> HIDE DEF x
<1>3. CoreOK' /\ \A u \in KThread : (Blocked(u)' <=> Blocked(u)) /\ (Off(u)' <=> Off(u))
  BY <1>1, <1>2, CoreSame
<1>4. CallsOK'
  BY <1>1, <1>2, <1>3, QueueStep
<1> QED
  BY <1>3, <1>4 DEF ThreadInv

(* condvar_signal() and condvar_broadcast(), *)
LEMMA SignalKeeps ==
    ASSUME ThreadInv, NEW t \in KThread, condvar_signal(t), Ticks(0)
    PROVE  ThreadInv'
<1> DEFINE x == Arg(t)
<1>1. CoreOK /\ CallsOK /\ current = t /\ status[t] = "RUNNING" /\ Op(todo[t], "signal", x)
  BY AtStep DEF condvar_signal
<1>2. SameThread /\ UNCHANGED <<status, ready_list, value, waiters, holder>>
  BY DEF condvar_signal
<1>3. CoreOK' /\ \A u \in KThread : (Blocked(u)' <=> Blocked(u)) /\ (Off(u)' <=> Off(u))
  BY <1>1, <1>2, CoreSame
<1>4. CASE cond_waiters = <<>>
  <2>1. todo' = [todo EXCEPT ![t] = Tail(@)] /\ UNCHANGED cond_waiters
    BY <1>4 DEF condvar_signal, Done
  <2> HIDE DEF x
  <2>2. CallsOK'
    BY <1>1, <1>2, <1>3, <2>1, LastStep
  <2> QED
    BY <1>3, <2>2 DEF ThreadInv
<1>5. CASE cond_waiters # <<>>
  <2>1. /\ cond_waiters' = Tail(cond_waiters)
        /\ todo' = [todo EXCEPT ![t] = <<<<"up", Head(cond_waiters)>>>> \o
                                          IF x = "all" THEN @ ELSE Tail(@)]
    BY <1>5 DEF condvar_signal
  <2> HIDE DEF x
  <2>2. CallsOK'
    BY <1>1, <1>2, <1>3, <1>5, <2>1, SignalStep
  <2> QED
    BY <1>3, <2>2 DEF ThreadInv
<1> QED
  BY <1>4, <1>5

(* the beginning of thread_create(), *)
LEMMA InitKeeps ==
    ASSUME ThreadInv, NEW t \in KThread, InitThread(t), Ticks(0)
    PROVE  ThreadInv'
<1> DEFINE x == Arg(t)
<1>1. CoreOK /\ CallsOK /\ current = t /\ status[t] = "RUNNING" /\ Op(todo[t], "create", x)
  BY AtStep DEF InitThread
<1>2. SameThread /\ UNCHANGED <<ready_list, value, waiters, holder, cond_waiters>>
  BY DEF InitThread
<1> HIDE DEF x
<1>3. ASSUME NEW u \in KThread, status[u] = "none", status' = [status EXCEPT ![u] = "BLOCKED"],
             todo' = [todo EXCEPT ![t] = thread_create(u) \o Tail(@)]
      PROVE  ThreadInv'
  <2>1. /\ status' \in [Threads -> Status]
        /\ \A v \in KThread : status'[v] = IF v = u THEN "BLOCKED" ELSE status[v]
    BY <1>1, <1>3 DEF CoreOK, Threads, Status
  <2>2. CoreOK'
    <3>1. /\ thread_ticks' = thread_ticks + 0 /\ thread_ticks' < TIME_SLICE
          /\ current' = current /\ ready_list' = ready_list
      BY <1>1, <1>2 DEF CoreOK, SameThread
    <3>2. \A v \in KThread :
             \/ status'[v] = status[v]
             \/ status[v] \notin {"READY", "RUNNING"} /\ status'[v] \notin {"READY", "RUNNING"}
      BY <1>3, <2>1
    <3> QED
      BY <1>1, <2>1, <3>1, <3>2, CoreStays
  <2>3. Blocked(u)' /\ \A v \in KThread : v # u => (Blocked(v)' <=> Blocked(v)) /\ (Off(v)' <=> Off(v))
    BY <2>1 DEF Blocked, Off
  <2>4. CallsOK'
    BY <1>1, <1>2, <1>3, <2>3, CreateStep
  <2> QED
    BY <2>2, <2>4 DEF ThreadInv
<1>4. ASSUME todo' = [todo EXCEPT ![t] = Tail(@)], UNCHANGED status
      PROVE  ThreadInv'
  <2>1. CoreOK' /\ \A u \in KThread : (Blocked(u)' <=> Blocked(u)) /\ (Off(u)' <=> Off(u))
    BY <1>1, <1>2, <1>4, CoreSame
  <2>2. CallsOK'
    BY <1>1, <1>2, <1>4, <2>1, LastStep
  <2> QED
    BY <2>1, <2>2 DEF ThreadInv
<1> QED
  BY <1>3, <1>4 DEF InitThread, Done

(* its end, *)
LEMMA UnblockKeeps ==
    ASSUME ThreadInv, NEW t \in KThread, UnblockThread(t), Ticks(0)
    PROVE  ThreadInv'
<1>0. PICK x : x = Arg(t)
  OBVIOUS
<1>1. CoreOK /\ CallsOK /\ current = t /\ status[t] = "RUNNING" /\ Op(todo[t], "unblock", x)
  BY <1>0, AtStep DEF UnblockThread
<1>2. /\ thread_unblock(x) /\ todo' = [todo EXCEPT ![t] = Tail(@)]
      /\ SameThread /\ UNCHANGED <<value, waiters, holder, cond_waiters>>
  BY <1>0 DEF UnblockThread, Done
<1>3. x \in KThread /\ Blocked(x)
  <2> DEFINE p == todo[t]
  <2>1. IsPlan(t, p) /\ Op(p, "unblock", x) /\ p = todo[t] /\ WaitersOK
    BY <1>1 DEF CallsOK, CallType
  <2> HIDE DEF p
  <2>2. x \in KThread /\ p \in Birth(x)
    BY <2>1, UnblockPlan
  <2> QED
    BY <2>1, <2>2 DEF WaitersOK
<1>4. CoreOK' /\ \A v \in KThread : status'[v] = IF v = x THEN "READY" ELSE status[v]
  BY <1>1, <1>2, <1>3, CoreWakes
<1>5. /\ ~Blocked(x)' /\ ~Off(x)'
      /\ \A v \in KThread : v # x => (Blocked(v)' <=> Blocked(v)) /\ (Off(v)' <=> Off(v))
  BY <1>3, <1>4 DEF Blocked, Off
<1>6. CallsOK'
  <2>1. \A v \in KThread : v # x => (Blocked(v)' <=> Blocked(v)) /\ (Off(v)' <=> Off(v))
    BY <1>5
  <2> QED
    BY <1>1, <1>2, <1>5, UnblockStep
<1> QED
  BY <1>4, <1>6 DEF ThreadInv

(* thread_yield() and timer_sleep(), *)
LEMMA YieldKeeps ==
    ASSUME ThreadInv, NEW t \in KThread, YieldOrSleep(t), Ticks(0)
    PROVE  ThreadInv'
<1>1. PICK op \in {"yield", "sleep"} : Next1(t, op)
  BY DEF YieldOrSleep
<1> DEFINE x == Arg(t)
<1>2. CoreOK /\ CallsOK /\ current = t /\ status[t] = "RUNNING" /\ Op(todo[t], op, x)
  BY <1>1, AtStep
<1>3. /\ thread_yield(status, ready_list, t) \/ (SameThread /\ UNCHANGED <<status, ready_list>>)
      /\ todo' = [todo EXCEPT ![t] = Tail(@)] \/ UNCHANGED todo
      /\ UNCHANGED <<value, waiters, holder, cond_waiters>>
  BY DEF YieldOrSleep, Done
<1> HIDE DEF x
<1>4. CoreOK' /\ \A u \in KThread : (Blocked(u)' <=> Blocked(u)) /\ (Off(u)' <=> Off(u))
  <2>1. CASE thread_yield(status, ready_list, t)
    <3>1. 0 <= TIME_SLICE - thread_ticks
      BY <1>2, RoundRobinAssumption DEF CoreOK
    <3>2. /\ CoreOK'
          /\ \A v \in KThread : \/ status'[v] = status[v]
                                \/ status[v] \in {"READY", "RUNNING"} /\ status'[v] \in {"READY", "RUNNING"}
      BY <1>2, <2>1, <3>1, CoreYields
    <3> QED
      BY <3>2 DEF Blocked, Off
  <2>2. CASE SameThread /\ UNCHANGED <<status, ready_list>>
    BY <1>2, <2>2, CoreSame
  <2> QED
    BY <1>3, <2>1, <2>2
<1>5. CallsOK'
  <2>1. CASE todo' = [todo EXCEPT ![t] = Tail(@)]
    BY <1>2, <1>3, <1>4, <2>1, LastStep
  <2>2. CASE UNCHANGED todo
    BY <1>2, <1>3, <1>4, <2>2, CallsKept
  <2> QED
    BY <1>3, <2>1, <2>2
<1> QED
  BY <1>4, <1>5 DEF ThreadInv

(* and thread_exit(). *)
LEMMA ExitKeeps ==
    ASSUME ThreadInv, NEW t \in KThread, thread_exit(t), Ticks(0)
    PROVE  ThreadInv'
<1> DEFINE x == Arg(t)
           b == IF t = Main THEN "DYING" ELSE "none"
<1>1. CoreOK /\ CallsOK /\ current = t /\ status[t] = "RUNNING" /\ Op(todo[t], "exit", x)
  BY AtStep DEF thread_exit
<1>2. /\ Schedule([status EXCEPT ![current] = b], ready_list)
      /\ todo' = [todo EXCEPT ![t] = Tail(@)]
      /\ UNCHANGED <<value, waiters, holder, cond_waiters>>
  BY <1>1 DEF thread_exit, Done
<1>3. b \in {"BLOCKED", "none", "DYING"} /\ b # "BLOCKED"
  OBVIOUS
<1> HIDE DEF x, b
<1>4. /\ CoreOK'
      /\ \A v \in KThread : \/ v = current /\ status'[v] = b
                            \/ v # current /\ status'[v] = status[v]
                            \/ v # current /\ status[v] = "READY" /\ status'[v] = "RUNNING"
  BY <1>1, <1>2, <1>3, CoreLeaves
<1>5. \A u \in KThread : (Blocked(u)' <=> Blocked(u)) /\ (Off(u)' => Off(u) \/ u = t)
  BY <1>1, <1>3, <1>4 DEF Blocked, Off
<1>6. CallsOK'
  BY <1>1, <1>2, <1>5, LastStep
<1> QED
  BY <1>4, <1>6 DEF ThreadInv

(* A call, *)
LEMMA CallKeeps ==
    ASSUME ThreadInv, NEW t \in KThread, KernelCall(t), Ticks(0)
    PROVE  ThreadInv'
<1>1. CoreOK /\ CallsOK /\ current = t /\ status[t] = "RUNNING" /\ todo[t] = <<>>
  BY DEF ThreadInv, CoreOK, KernelCall
<1>2. PICK c \in Calls(t) : todo' = [todo EXCEPT ![t] = c]
  BY DEF KernelCall
<1>3. SameThread /\ UNCHANGED <<status, ready_list, value, waiters, holder, cond_waiters>>
  BY DEF KernelCall, SameThread
<1>4. CoreOK'
  BY <1>1, <1>3, CoreSame
<1>5. CallsOK'
  BY <1>1, <1>2, <1>3, CallMade
<1> QED
  BY <1>4, <1>5 DEF ThreadInv

(* the idle thread, *)
LEMMA IdleKeeps ==
    ASSUME ThreadInv, IdleStep
    PROVE  ThreadInv'
<1>1. /\ CoreOK /\ CallsOK /\ current = Idle /\ Ticks(0)
      /\ Schedule([status EXCEPT ![current] = "BLOCKED"], ready_list)
      /\ UNCHANGED <<todo, value, waiters, holder, cond_waiters>>
  BY DEF ThreadInv, IdleStep, idle
<1>2. /\ CoreOK'
      /\ \A v \in KThread : \/ v = current /\ status'[v] = "BLOCKED"
                            \/ v # current /\ status'[v] = status[v]
                            \/ v # current /\ status[v] = "READY" /\ status'[v] = "RUNNING"
  BY <1>1, CoreLeaves
<1>3. \A u \in KThread : (Blocked(u)' <=> Blocked(u)) /\ (Off(u)' => Off(u))
  <2>1. \A u \in KThread : u # current
    BY <1>1, RoundRobinAssumption
  <2> QED
    BY <1>2, <2>1 DEF Blocked, Off
<1>4. CallsOK'
  BY <1>1, <1>3, CallsKept
<1> QED
  BY <1>2, <1>4 DEF ThreadInv

(* the timer's interrupt, *)
LEMMA TickKeeps ==
    ASSUME ThreadInv, Tick
    PROVE  ThreadInv'
<1>1. /\ CoreOK /\ CallsOK /\ Ticks(1)
      /\ UNCHANGED <<todo, value, waiters, holder, cond_waiters>>
  BY DEF ThreadInv, Tick, timer_interrupt
<1>2. thread_ticks \in Nat /\ TIME_SLICE \in Nat /\ thread_ticks < TIME_SLICE
  BY <1>1, RoundRobinAssumption DEF CoreOK
<1>3. CASE thread_ticks + 1 >= TIME_SLICE
  <2>1. thread_yield(status, ready_list, current)
    BY <1>3 DEF Tick, timer_interrupt
  <2>2. 1 <= TIME_SLICE - thread_ticks
    BY <1>2
  <2>3. /\ CoreOK'
        /\ \A v \in KThread : \/ status'[v] = status[v]
                              \/ status[v] \in {"READY", "RUNNING"} /\ status'[v] \in {"READY", "RUNNING"}
    BY <1>1, <2>1, <2>2, CoreYields
  <2>4. \A u \in KThread : (Blocked(u)' <=> Blocked(u)) /\ (Off(u)' => Off(u))
    BY <2>3 DEF Blocked, Off
  <2>5. CallsOK'
    BY <1>1, <2>4, CallsKept
  <2> QED
    BY <2>3, <2>5 DEF ThreadInv
<1>4. CASE ~(thread_ticks + 1 >= TIME_SLICE)
  <2>1. thread_ticks' = thread_ticks + 1 /\ UNCHANGED <<current, status, ready_list>>
    BY <1>4 DEF Tick, timer_interrupt
  <2>2. thread_ticks' < TIME_SLICE /\ status' \in [Threads -> Status]
    BY <1>1, <1>2, <1>4, <2>1 DEF CoreOK
  <2>3. CoreOK'
    BY <1>1, <2>1, <2>2, CoreStays
  <2>4. \A u \in KThread : (Blocked(u)' <=> Blocked(u)) /\ (Off(u)' => Off(u))
    BY <2>1 DEF Blocked, Off
  <2>5. CallsOK'
    BY <1>1, <2>4, CallsKept
  <2> QED
    BY <2>3, <2>5 DEF ThreadInv
<1> QED
  BY <1>3, <1>4

(* and a device's. *)
LEMMA DeviceKeeps ==
    ASSUME ThreadInv, DeviceInterrupt, Ticks(0)
    PROVE  ThreadInv'
<1>1. /\ CoreOK /\ CallsOK /\ CallType /\ WaitersOK
      /\ Up("sema") /\ SameThread /\ UNCHANGED <<todo, holder, cond_waiters>>
  BY DEF ThreadInv, CallsOK, DeviceInterrupt
<1>2. CoreOK' /\ \A u \in KThread : Off(u)' => Off(u)
  BY <1>1, SemNames, CoreUp
<1>3. CallsOK'
  BY <1>1, <1>2, DeviceUp
<1> QED
  BY <1>2, <1>3 DEF ThreadInv

(* At first there is one thread, and it has nothing to do. *)
LEMMA ThreadInit ==
    ASSUME RoundRobinInit
    PROVE  ThreadInv
<1>1. /\ current = Main /\ ready_list = <<>> /\ thread_ticks = 0
      /\ status = [t \in Threads |->
                     IF t = Main THEN "RUNNING" ELSE IF t = Idle THEN "BLOCKED" ELSE "none"]
      /\ \A t \in KThread : todo[t] = <<>>
      /\ DOMAIN todo = KThread
      /\ value = [s \in SemName |-> IF s \in LockName THEN 1 ELSE 0]
      /\ waiters = [s \in SemName |-> <<>>]
      /\ holder = [l \in LockName |-> Unheld]
      /\ cond_waiters = <<>>
      /\ delay = [t \in KThread |-> 0]
  BY DEF RoundRobinInit, Threads
<1>2. <<>> \in Seq(KThread) /\ Len(<<>>) = 0 /\ Once(<<>>) /\ OnList(<<>>) = {}
  BY DEF Once, OnList
<1>3. CoreOK
  <2>1. Main \in KThread /\ Main \in Threads /\ Idle \notin KThread /\ TIME_SLICE \in Nat /\ 0 < TIME_SLICE
    BY RoundRobinAssumption DEF Threads
  <2>2. /\ status \in [Threads -> Status]
        /\ \A t \in KThread : status[t] = IF t = Main THEN "RUNNING" ELSE "none"
    BY <1>1, <2>1 DEF Threads, Status
  <2>3. delay \in [KThread -> Nat] /\ \A t \in KThread : delay[t] = 0
    BY <1>1
  <2>4. \A t \in KThread : /\ status[t] = "RUNNING" <=> current = t
                           /\ t \in OnList(ready_list) <=> status[t] = "READY"
    BY <1>1, <1>2, <2>2
  <2>5. \A i : i \notin 1 .. Len(ready_list)
    BY <1>1, <1>2
  <2>6. ready_list \in Seq(KThread) /\ Once(ready_list)
    BY <1>1, <1>2
  <2>7. current \in Threads /\ thread_ticks \in Nat /\ thread_ticks < TIME_SLICE
    BY <1>1, <2>1
  <2> QED
    BY <2>2, <2>3, <2>4, <2>5, <2>6, <2>7 DEF CoreOK
<1>4. \A t \in KThread : /\ IsPlan(t, todo[t]) /\ todo[t] \notin Window(t)
                         /\ \A u : todo[t] \notin Birth(u)
                         /\ \A o, y : ~Op(todo[t], o, y)
  BY <1>1, EmptyPlan
<1>5. /\ value \in [SemName -> Nat] /\ waiters \in [SemName -> Seq(KThread)]
      /\ holder \in [LockName -> KThread \cup {Unheld}] /\ cond_waiters \in Seq(KThread)
  BY <1>1, <1>2
<1>6. /\ \A l \in LockName : value[l] = 1 /\ holder[l] \notin KThread
      /\ \A t \in KThread : value[t] = 0
  BY <1>1, SemNames
<1>7. \A s \in SemName : waiters[s] = <<>> /\ Once(waiters[s]) /\ OnList(waiters[s]) = {}
  BY <1>1, <1>2
<1>8. CallType
  BY <1>1, <1>4, <1>5 DEF CallType
<1>9. WaitersOK
  <2>1. ASSUME NEW t \in KThread
        PROVE  ~Blocked(t)
    <3>1. t # Idle /\ t \in Threads
      BY RoundRobinAssumption DEF Threads
    <3>2. status[t] = IF t = Main THEN "RUNNING" ELSE "none"
      BY <1>1, <3>1
    <3> QED
      BY <3>2 DEF Blocked
  <2> QED
    BY <1>4, <1>7, <2>1 DEF WaitersOK
<1>10. LockOK
  <2>1. \A t \in KThread, l \in LockName : ~IsInside(t, l)
    BY <1>4, <1>6 DEF IsInside
  <2> QED
    BY <1>4, <1>6, <2>1 DEF LockOK
<1>11. UnitsOK
  BY <1>7 DEF UnitsOK
<1>12. SignalOK
  <2>1. Once(cond_waiters) /\ OnList(cond_waiters) = {}
    BY <1>1, <1>2
  <2> QED
    BY <1>4, <1>6, <2>1 DEF SignalOK
<1> QED
  BY <1>3, <1>8, <1>9, <1>10, <1>11, <1>12 DEF ThreadInv, CallsOK

-----------------------------------------------------------------------------
(* thread_create() of t is what has t's start among its steps. *)
LEMMA BirthIs ==
    ASSUME NEW u \in KThread, NEW p, IsPlan(u, p), NEW t \in KThread
    PROVE  (\E i \in DOMAIN p : p[i] = <<"unblock", t>>) <=> p \in Birth(t)
<1>1. CASE p \in Plain(u)
  <2>1. \A i \in DOMAIN p : p[i][1] # "unblock"
    BY <1>1 DEF Plain
  <2> QED
    BY <1>1, <2>1, Own
<1>2. CASE p \in Locking
  <2>1. \A i \in DOMAIN p : p[i][1] # "unblock"
    BY <1>2 DEF Locking
  <2> QED
    BY <1>2, <2>1, Own
<1>3. CASE p = Queueing(u)
  <2>1. \A i \in DOMAIN p : p[i][1] # "unblock"
    BY <1>3 DEF Queueing
  <2> QED
    BY <1>3, <2>1, Own
<1>4. CASE p \in Window(u)
  <2>1. \A i \in DOMAIN p : p[i][1] # "unblock"
    BY <1>4 DEF Window
  <2> QED
    BY <1>4, <2>1, WindowApart
<1>5. ASSUME NEW v \in KThread, p \in Raising(v)
      PROVE  (\E i \in DOMAIN p : p[i] = <<"unblock", t>>) <=> p \in Birth(t)
  <2>1. \A i \in DOMAIN p : p[i][1] # "unblock"
    BY <1>5 DEF Raising
  <2> QED
    BY <1>5, <2>1, Own
<1>6. ASSUME NEW v \in KThread, p \in Birth(v)
      PROVE  (\E i \in DOMAIN p : p[i] = <<"unblock", t>>) <=> p \in Birth(t)
  <2>1. \A i \in DOMAIN p : p[i] = <<"unblock", t>> => t = v
    BY <1>6 DEF Birth
  <2>2. \E i \in DOMAIN p : p[i] = <<"unblock", v>>
    BY <1>6 DEF Birth
  <2>3. p \in Birth(t) => t = v
    BY <1>6, BirthOne
  <2> QED
    BY <1>6, <2>1, <2>2, <2>3
<1> QED
  BY <1>1, <1>2, <1>3, <1>4, <1>5, <1>6 DEF IsPlan

(* A thread that tries a waiter's semaphore is that waiter, and waits for  *)
(* the signal.                                                             *)
LEMMA RetriesOwn ==
    ASSUME CallType, NEW u \in KThread, NEW t \in KThread, Op(todo[u], "retry", t)
    PROVE  u = t /\ todo[t] \in Window(t)
<1> DEFINE p == todo[u]
<1>1. IsPlan(u, p) /\ Op(p, "retry", t) /\ p = todo[u]
  BY DEF CallType
<1> HIDE DEF p
<1>2. \/ t = "sema" /\ p \notin Window(u) /\ Tail(p) = <<>>
      \/ t \in LockName /\ Op(Tail(p), "hold", t) /\ p \notin Window(u)
      \/ t = u /\ p \in Window(u) /\ Op(Tail(p), "down", "lock")
  BY <1>1, DownPlan
<1> QED
  BY <1>1, <1>2, SemNames

(* The invariant says that the scheduler and its semaphores are sound. *)
LEMMA ThreadsSound ==
    ASSUME ThreadInv
    PROVE  RoundRobinSound
<1>0. CoreOK /\ CallType /\ WaitersOK /\ LockOK /\ UnitsOK /\ SignalOK
  BY DEF ThreadInv, CallsOK
<1>1. ASSUME NEW s \in SemName, NEW t
      PROVE  Occurrences(t, waiters[s]) = IF t \in OnList(waiters[s]) THEN 1 ELSE 0
  BY <1>0, OccurrencesAre DEF WaitersOK, CallType
<1>2. \A t \in KThread, s \in SemName :
         t \in OnList(waiters[s]) <=> Blocked(t) /\ Op(todo[t], "retry", s)
  BY <1>0 DEF WaitersOK
<1>3. \A t \in KThread : Waiting(t) = {s \in SemName : Blocked(t) /\ Op(todo[t], "retry", s)}
  BY <1>1, <1>2 DEF Waiting
<1>4. OnItsList
  <2>1. ASSUME NEW t \in KThread
        PROVE  /\ (status[t] = "RUNNING") <=> (current = t)
               /\ Occurrences(t, ready_list) = IF status[t] = "READY" THEN 1 ELSE 0
               /\ \A s \in SemName : Occurrences(t, waiters[s]) <= 1
    <3>1. Occurrences(t, ready_list) = IF t \in OnList(ready_list) THEN 1 ELSE 0
      BY <1>0, OccurrencesAre DEF CoreOK
    <3>2. t \in OnList(ready_list) <=> status[t] = "READY"
      BY <1>0 DEF CoreOK
    <3>3. (status[t] = "RUNNING") <=> (current = t)
      BY <1>0 DEF CoreOK
    <3>4. ASSUME NEW s \in SemName
          PROVE  Occurrences(t, waiters[s]) <= 1
      <4>1. Occurrences(t, waiters[s]) = 1 \/ Occurrences(t, waiters[s]) = 0
        BY <1>1
      <4> QED
        BY <4>1
    <3> QED
      BY <3>1, <3>2, <3>3, <3>4
  <2>2. ASSUME NEW t \in KThread, Waiting(t) # {}
        PROVE  status[t] = "BLOCKED" /\ Cardinality(Waiting(t)) = 1
    <3>1. PICK s \in SemName : Blocked(t) /\ Op(todo[t], "retry", s)
      BY <1>3, <2>2
    <3>2. Waiting(t) = {s}
      <4>1. \A r : Op(todo[t], "retry", r) => r = s
        BY <3>1, AtThis
      <4> QED
        BY <1>3, <3>1, <4>1
    <3>3. Cardinality({s}) = 1
      BY FS_Singleton
    <3> QED
      BY <3>1, <3>2, <3>3 DEF Blocked
  <2>3. ASSUME NEW t \in KThread, status[t] = "BLOCKED"
        PROVE  (Waiting(t) # {}) # (\E u \in KThread : status[u] # "none" /\ Creates(u, t))
    <3>1. \A u \in KThread : Creates(u, t) <=> todo[u] \in Birth(t)
      BY <1>0, BirthIs DEF CallType, Creates
    <3>2. \A u \in KThread : todo[u] \in Birth(t) => status[u] # "none"
      BY <1>0, EmptyPlan DEF CallType, Off
    <3>3. (\E u \in KThread : status[u] # "none" /\ Creates(u, t)) <=> \E u \in KThread : todo[u] \in Birth(t)
      BY <3>1, <3>2
    <3>4. Waiting(t) # {} <=> \E s \in SemName : Op(todo[t], "retry", s)
      BY <1>3, <2>3 DEF Blocked
    <3>5. \/ \E s \in SemName : Op(todo[t], "retry", s)
          \/ todo[t] = <<>> /\ \E u \in KThread : todo[u] \in Birth(t)
      BY <1>0, <2>3 DEF WaitersOK, Blocked
    <3>6. (\E u \in KThread : todo[u] \in Birth(t)) => todo[t] = <<>>
      BY <1>0 DEF WaitersOK
    <3>7. todo[t] = <<>> => \A s : ~Op(todo[t], "retry", s)
      BY DEF Op
    <3> QED
      BY <3>3, <3>4, <3>5, <3>6, <3>7
  <2> QED
    BY <2>1, <2>2, <2>3 DEF OnItsList
<1>5. LockedOnce
  <2>1. ASSUME NEW l \in LockName
        PROVE  value[l] + Cardinality(Inside(l)) = 1
    <3>1. \A t \in KThread : t \in Inside(l) <=> IsInside(t, l)
      BY DEF Inside, IsInside, Op
    <3>2. Inside(l) \subseteq KThread
      BY DEF Inside
    <3>3. CASE value[l] = 0
      <4>1. PICK t \in KThread : IsInside(t, l)
        BY <1>0, <3>3 DEF LockOK
      <4>2. Inside(l) = {t}
        BY <1>0, <3>1, <3>2, <4>1 DEF LockOK
      <4>3. Cardinality({t}) = 1
        BY FS_Singleton
      <4>4. Cardinality(Inside(l)) = 1
        BY <4>2, <4>3
      <4> QED
        BY <3>3, <4>4
    <3>4. CASE value[l] = 1
      <4>1. Inside(l) = {}
        BY <1>0, <3>1, <3>2, <3>4 DEF LockOK
      <4> QED
        BY <3>4, <4>1, FS_EmptySet
    <3> QED
      BY <1>0, <3>3, <3>4 DEF LockOK
  <2> QED
    BY <2>1 DEF LockedOnce
<1>6. \A t \in KThread, s \in SemName : t \in Woken(s) <=> IsWoken(t, s)
  <2>1. \A t \in KThread : Op(todo[t], "retry", t) \in BOOLEAN
    BY DEF Op
  <2>2. ASSUME NEW t \in KThread, NEW s \in SemName
        PROVE  t \in Woken(s) <=> IsWoken(t, s)
    <3>1. status[t] \in Status /\ (Off(t) => todo[t] = <<>>)
      BY <1>0 DEF CoreOK, CallType, Threads
    <3>2. todo[t] # <<>> => (status[t] \in {"READY", "RUNNING"} <=> ~Blocked(t))
      BY <3>1 DEF Off, Blocked, Status
    <3> QED
      BY <3>2 DEF Woken, IsWoken, Op
  <2> QED
    BY <2>2
<1>7. NoUnitLost
  <2>1. \A s \in SemName : Woken(s) = {t \in KThread : IsWoken(t, s)}
    <3>1. \A s : Woken(s) \subseteq KThread
      BY DEF Woken
    <3> QED
      BY <1>6, <3>1
  <2> QED
    BY <1>0, <2>1 DEF UnitsOK, NoUnitLost
<1>8. SignalKept
  <2>1. ASSUME NEW t \in KThread, waiters[t] # <<>>
        PROVE  \/ Occurrences(t, cond_waiters) = 1
               \/ \E u \in KThread : todo[u] # <<>> /\ Head(todo[u]) = <<"up", t>>
    <3>1. t \in SemName
      BY SemNames
    <3>2. PICK v \in KThread : v \in OnList(waiters[t])
      BY <1>0, <2>1, <3>1, OnListTail DEF CallType
    <3>3. Blocked(t) /\ todo[t] \in Window(t)
      <4>1. Blocked(v) /\ Op(todo[v], "retry", t)
        BY <1>2, <3>1, <3>2
      <4> QED
        BY <1>0, <4>1, RetriesOwn
    <3>4. value[t] # 1
      <4>1. {u \in KThread : IsWoken(u, t)} = {}
        BY <1>0, <3>3, RetriesOwn DEF IsWoken
      <4>2. value[t] <= 0
        BY <1>0, <2>1, <3>1, <4>1, FS_EmptySet DEF UnitsOK
      <4> QED
        BY <4>2
    <3>5. \/ t \in OnList(cond_waiters)
          \/ \E u \in KThread : Op(todo[u], "up", t)
      BY <1>0, <3>3, <3>4 DEF SignalOK
    <3>6. Occurrences(t, cond_waiters) = IF t \in OnList(cond_waiters) THEN 1 ELSE 0
      BY <1>0, OccurrencesAre DEF CallType, SignalOK
    <3> QED
      BY <3>5, <3>6 DEF Op
  <2> QED
    BY <2>1 DEF SignalKept
<1>9. ASSUME NEW t \in KThread
      PROVE  delay[t] <= TIME_SLICE * Cardinality(KThread)
  <2>1. Slices(Cardinality(KThread)) \in Nat
    BY SlicesAre, FS_CardinalityType, RoundRobinAssumption
  <2>2. CASE status[t] = "READY"
    <3>1. t \in OnList(ready_list)
      BY <1>0, <2>2 DEF CoreOK
    <3>2. PICK i \in 1 .. Len(ready_list) : ready_list[i] = t
      BY <3>1 DEF OnList
    <3>3. /\ delay[t] \in Nat /\ TIME_SLICE - thread_ticks \in Nat \ {0} /\ Slices(i - 1) \in Nat
          /\ delay[t] + (TIME_SLICE - thread_ticks) + Slices(i - 1) <= Slices(Cardinality(KThread))
      BY <1>0, <3>2, ReadyNumbers
    <3>4. delay[t] <= Slices(Cardinality(KThread))
      BY <2>1, <3>3
    <3> QED
      BY <3>4 DEF Slices
  <2>3. CASE status[t] # "READY"
    <3>1. delay[t] = 0
      BY <1>0, <2>3 DEF CoreOK
    <3> QED
      BY <2>1, <3>1 DEF Slices
  <2> QED
    BY <2>2, <2>3
<1> QED
  BY <1>4, <1>5, <1>7, <1>8, <1>9 DEF RoundRobinSound

(* Whatever the threads call, whatever devices do and whenever a thread is *)
(* preempted, the round-robin scheduler keeps its threads on their lists,  *)
(* its locks exclusive, its units and signals, and lets nobody wait longer *)
(* than a slice for each thread.                                           *)
THEOREM RoundRobinCorrect == ThreadSpec => []RoundRobinSound
<1>1. RoundRobinInit => ThreadInv
  BY ThreadInit
<1>2. ThreadInv /\ [RoundRobinNext]_threadVars => ThreadInv'
  <2> SUFFICES ASSUME ThreadInv, [RoundRobinNext]_threadVars
               PROVE  ThreadInv'
    OBVIOUS
  <2>1. CASE UNCHANGED threadVars
    <3>1. /\ UNCHANGED <<current, status, ready_list, thread_ticks, delay>>
          /\ UNCHANGED <<todo, value, waiters, holder, cond_waiters>>
      BY <2>1 DEF threadVars
    <3>2. CoreOK'
      BY <3>1 DEF ThreadInv, CoreOK
    <3>3. CallsOK'
      BY <3>1, CallsKept DEF ThreadInv, Blocked, Off
    <3> QED
      BY <3>2, <3>3 DEF ThreadInv
  <2>2. ASSUME NEW t \in KThread, ThreadStep(t)
        PROVE  ThreadInv'
    BY <2>2, DownKeeps, UpKeeps, HolderKeeps, QueueKeeps, SignalKeeps, InitKeeps, UnblockKeeps,
       YieldKeeps, ExitKeeps DEF ThreadStep
  <2>3. ASSUME NEW t \in KThread, KernelCall(t), Ticks(0)
        PROVE  ThreadInv'
    BY <2>3, CallKeeps
  <2>4. CASE Tick
    BY <2>4, TickKeeps
  <2>5. CASE IdleStep
    BY <2>5, IdleKeeps
  <2>6. CASE DeviceInterrupt /\ Ticks(0)
    BY <2>6, DeviceKeeps
  <2> QED
    BY <2>1, <2>2, <2>3, <2>4, <2>5, <2>6 DEF RoundRobinNext
<1>3. ThreadInv => RoundRobinSound
  BY ThreadsSound
<1> QED
  BY <1>1, <1>2, <1>3, PTL DEF ThreadSpec

-----------------------------------------------------------------------------
(***************************************************************************)
(* The disks and their partitions.                                         *)
(***************************************************************************)

DiskSpec == DiskInit /\ [][DiskNext]_diskVars

Requests == [op : {"none", "read", "write", "identify"}, at : 0 .. 7, dev : Dev,
             sec : 0 .. DiskSize - 1, val : Int]

Contents == [Dev -> [0 .. DiskSize - 1 -> Int]]

(* a request stands at one of its steps *)
Proper(r) ==
    /\ r \in Requests
    /\ r.at = 0 <=> r.op = "none"
    /\ r.op = "identify" => r.at <= 6

Is(r, step) == r.at > 0 /\ Steps[r.op][r.at] = step

(* past the lock: the request has the channel *)
Running(r) == r.at > 0 /\ ~Is(r, "acquire")

DiskType ==
    /\ media \in Contents /\ stored \in Contents
    /\ DOMAIN io = IoThread /\ \A t \in IoThread : Proper(io[t])
    /\ command \in Requests
    /\ stage \in {"idle", "busy", "drq", "commit"}
    /\ completion_wait \in Nat /\ spurious \in Nat /\ ios \in Nat
    /\ irq \in BOOLEAN /\ expecting_interrupt \in BOOLEAN /\ late \in BOOLEAN
    /\ io_lock \in IoThread \cup {NoThread} /\ io_queue \in Seq(IoThread)
    /\ probed \in BOOLEAN /\ boot \in Seq(Dev)
    /\ \A b \in all_blocks : /\ b.dev \in Dev /\ b.start \in Nat /\ b.size \in Nat
                             /\ b.start + b.size <= DiskSize

(* while disks are identified there are no other requests *)
BootOK ==
    /\ \A t \in IoThread : io[t].op = "identify" => t = Boot /\ probed /\ boot # <<>>
    /\ Booting => \A t \in IoThread : io[t].op \notin {"read", "write"}

(* the lock is held by the request that has the channel *)
HoldOK ==
    /\ \A t \in IoThread : Running(io[t]) /\ io[t].op # "identify" => io_lock = t
    /\ io_lock # NoThread => Running(io[io_lock]) /\ io[io_lock].op # "identify"
    /\ \A i \in 1 .. Len(io_queue) : Is(io[io_queue[i]], "acquire")
    /\ \A i, j \in 1 .. Len(io_queue) : io_queue[i] = io_queue[j] => i = j
    /\ io_queue # <<>> /\ io_lock = NoThread =>
          \E t \in IoThread :
             Is(io[t], "acquire") /\ \A i \in 1 .. Len(io_queue) : io_queue[i] # t

(* what a request that is over has achieved *)
Kept(r) ==
    Is(r, "release") =>
       /\ r.op = "read" => r.val = stored[r.dev][r.sec]
       /\ r.op = "write" /\ spurious = 0 => media[r.dev][r.sec] = r.val

(* the disk has what was sent to it, but for the sector it is writing *)
MediaOK ==
    stored = IF stage = "commit"
             THEN [media EXCEPT ![command.dev][command.sec] = command.val] ELSE media

(* the device works on the command of the request that has the channel, and *)
(* who waits for its interrupt will get one                                 *)
CommandOK(r) ==
    /\ Is(r, "issue") => late \/ stage = "idle"
    /\ Is(r, "down") \/ Is(r, "check") \/ Is(r, "data") =>
          expecting_interrupt /\ command = [r EXCEPT !.at = command.at]
    /\ Is(r, "data") => stage = "drq"
    /\ Is(r, "down") => \/ irq \/ completion_wait > 0
                        \/ stage = IF r.op = "write" THEN "commit" ELSE "busy"
    /\ r.op = "write" /\ (Is(r, "down") \/ Is(r, "release")) => stored[r.dev][r.sec] = r.val

Calm == ~irq /\ completion_wait = 0
Calmed == Calm /\ stage = "idle"

(* the device is at work, or it is done and has raised one interrupt *)
Owed(work, after) ==
    \/ stage = work /\ Calm
    \/ /\ stage \in after
       /\ completion_wait = IF irq THEN 0 ELSE 1

(* without uncaused interrupts each interrupt is consumed by its request *)
Exact(r) ==
    /\ Is(r, "select") \/ Is(r, "issue") \/ Is(r, "release") \/ Is(r, "register") => Calmed
    /\ Is(r, "data") => Calm
    /\ Is(r, "check") => /\ stage # "commit"
                         /\ stage # "idle" \/ r.op # "write" => Calm
                         /\ r.op # "write" => stage # "busy"
    /\ Is(r, "down") => IF r.op = "write" THEN Owed("commit", {"idle"})
                                          ELSE Owed("busy", {"drq", "idle"})

ChannelOK ==
    /\ MediaOK
    /\ \A t \in IoThread : CommandOK(io[t])
    /\ spurious = 0 => /\ \A t \in IoThread : Exact(io[t])
                       /\ (\A t \in IoThread : ~Running(io[t])) => Calmed

DiskInv ==
    /\ DiskType /\ BootOK /\ HoldOK
    /\ \A t \in IoThread : Kept(io[t])
    /\ disk_end = "overlap" => late
    /\ disk_end = "no" => ChannelOK

-----------------------------------------------------------------------------
(* The place of each step in a request. *)
LEMMA StepIs ==
    ASSUME NEW r, Proper(r)
    PROVE  /\ Is(r, "acquire") <=> r.op \in {"read", "write"} /\ r.at = 1
           /\ Is(r, "select") <=> \/ r.op \in {"read", "write"} /\ r.at = 2
                                  \/ r.op = "identify" /\ r.at = 1
           /\ Is(r, "issue") <=> \/ r.op \in {"read", "write"} /\ r.at = 3
                                 \/ r.op = "identify" /\ r.at = 2
           /\ Is(r, "down") <=> \/ r.op = "read" /\ r.at = 4
                                \/ r.op = "write" /\ r.at = 6
                                \/ r.op = "identify" /\ r.at = 3
           /\ Is(r, "check") <=> \/ r.op = "read" /\ r.at = 5
                                 \/ r.op = "write" /\ r.at = 4
                                 \/ r.op = "identify" /\ r.at = 4
           /\ Is(r, "data") <=> \/ r.op = "read" /\ r.at = 6
                                \/ r.op = "write" /\ r.at = 5
                                \/ r.op = "identify" /\ r.at = 5
           /\ Is(r, "release") <=> r.op \in {"read", "write"} /\ r.at = 7
           /\ Is(r, "register") <=> r.op = "identify" /\ r.at = 6
           /\ r.at \in 0 .. 7 /\ r.op \in {"none", "read", "write", "identify"}
<1>1. r.at \in 0 .. 7 /\ r.op \in {"none", "read", "write", "identify"}
  BY DEF Proper, Requests
<1>2. CASE r.op = "none"
  BY <1>1, <1>2 DEF Proper, Is
<1>3. CASE r.op = "read"
  BY <1>1, <1>3 DEF Proper, Is, Steps
<1>4. CASE r.op = "write"
  BY <1>1, <1>4 DEF Proper, Is, Steps
<1>5. CASE r.op = "identify"
  <2>1. r.at \in 1 .. 6
    BY <1>1, <1>5 DEF Proper
  <2> QED
    BY <2>1, <1>5 DEF Is, Steps
<1> QED
  BY <1>1, <1>2, <1>3, <1>4, <1>5

(* A sum of two numbers below the modulus wraps around at most once. *)
LEMMA Wraps ==
    ASSUME NEW m \in Nat, NEW a \in 0 .. m - 1, NEW b \in 0 .. m - 1
    PROVE  (a + b) % m = IF a + b < m THEN a + b ELSE a + b - m
<1>1. m > 0
  OBVIOUS
<1>2. a + b < m => (a + b) % m = a + b
  BY <1>1
<1>3. a + b >= m => (a + b) % m = a + b - m
  BY <1>1
<1> QED
  BY <1>2, <1>3

(* A partition that is found lies within its disk, also where the numbers  *)
(* wrap around.                                                            *)
LEMMA FoundInside ==
    ASSUME NEW start \in Nat, NEW size \in 0 .. SectorModulus - 1, found_partition(start, size)
    PROVE  start + size <= DiskSize
<1>1. start < DiskSize /\ DiskSize < SectorModulus /\ start \in 0 .. SectorModulus - 1
      /\ SectorModulus \in Nat /\ DiskSize \in Nat
  BY DiskAssumption DEF found_partition
<1>2. (start + size) % SectorModulus
         = IF start + size < SectorModulus THEN start + size ELSE start + size - SectorModulus
  BY <1>1, Wraps
<1> QED
  BY <1>1, <1>2 DEF found_partition

(* Every partition that a table yields lies within its disk. *)
LEMMA TableInside ==
    ASSUME NEW d \in Dev, NEW table \in Tables[d], NEW b \in read_partition_table(d, table)
    PROVE  b.dev = d /\ b.start \in Nat /\ b.size \in Nat /\ b.start + b.size <= DiskSize
<1>1. PICK sector \in {s \in {0} \cup {e.offset : e \in Extended(table)} : s < DiskSize} :
         b \in Primaries(d, table, sector)
  BY DEF read_partition_table
<1>2. \A e \in Entries(table) : /\ e.offset \in 0 .. SectorModulus - 1
                                /\ e.size \in 0 .. SectorModulus - 1
  BY DiskAssumption DEF Dev, Entries
<1>3. sector \in Nat
  BY <1>1, <1>2 DEF Extended
<1>4. PICK e \in Entries(table) :
         b = [dev |-> d, type |-> e.type, size |-> e.size,
              start |-> (e.offset + sector) % SectorModulus]
         /\ found_partition(b.start, b.size)
  BY <1>1 DEF Primaries
<1>5. b.start = (e.offset + sector) % SectorModulus /\ b.size = e.size /\ b.dev = d
  BY <1>4
<1>6. b.start \in Nat
  BY <1>2, <1>3, <1>5, DiskAssumption
<1>7. b.start + b.size <= DiskSize
  BY <1>2, <1>4, <1>5, <1>6, FoundInside
<1> QED
  BY <1>2, <1>5, <1>6, <1>7

-----------------------------------------------------------------------------
(* A request that has not got the channel is at none of its steps. *)
LEMMA NotRunning ==
    ASSUME NEW r, Proper(r), ~Running(r)
    PROVE  /\ ~Is(r, "select") /\ ~Is(r, "issue") /\ ~Is(r, "down") /\ ~Is(r, "check")
           /\ ~Is(r, "data") /\ ~Is(r, "release") /\ ~Is(r, "register")
  BY StepIs DEF Running

(* One request at a time has the channel. *)
LEMMA OneRunning ==
    ASSUME DiskInv, NEW t \in IoThread, NEW u \in IoThread, Running(io[t]), Running(io[u])
    PROVE  t = u
<1>1. /\ Proper(io[t]) /\ Proper(io[u])
      /\ io[t].op \in {"read", "write", "identify"} /\ io[u].op \in {"read", "write", "identify"}
  BY StepIs DEF DiskInv, DiskType, Running, Proper
<1>2. CASE io[t].op = "identify" /\ io[u].op = "identify"
  BY <1>2 DEF DiskInv, BootOK
<1>3. CASE io[t].op # "identify" /\ io[u].op # "identify"
  BY <1>3 DEF DiskInv, HoldOK
<1>4. CASE io[t].op = "identify" /\ io[u].op # "identify"
  BY <1>1, <1>4 DEF DiskInv, BootOK, Booting
<1>5. CASE io[t].op # "identify" /\ io[u].op = "identify"
  BY <1>1, <1>5 DEF DiskInv, BootOK, Booting
<1> QED
  BY <1>2, <1>3, <1>4, <1>5

(* what has no request in it *)
Rest ==
    /\ media \in Contents /\ stored \in Contents
    /\ command \in Requests
    /\ stage \in {"idle", "busy", "drq", "commit"}
    /\ completion_wait \in Nat /\ spurious \in Nat /\ ios \in Nat
    /\ irq \in BOOLEAN /\ expecting_interrupt \in BOOLEAN /\ late \in BOOLEAN

(* The request that has the channel goes on to its step r. *)
LEMMA GoesOn ==
    ASSUME DiskInv, NEW t \in IoThread, NEW r, Proper(r), Running(io[t]), Running(r),
           r.op = io[t].op, io' = [io EXCEPT ![t] = r],
           UNCHANGED <<io_lock, io_queue, probed, boot, all_blocks>>,
           Rest', Kept(r)', disk_end' = "overlap" => late',
           disk_end' = "no" => MediaOK' /\ CommandOK(r)' /\ (spurious' = 0 => Exact(r)')
    PROVE  DiskInv'
<1>1. /\ DOMAIN io' = IoThread /\ io'[t] = r
      /\ \A u \in IoThread : u # t => io'[u] = io[u]
  BY DEF DiskInv, DiskType
<1>2. \A u \in IoThread : Proper(io'[u])
  BY <1>1 DEF DiskInv, DiskType
<1>3. DiskType'
  BY <1>1, <1>2 DEF DiskInv, DiskType, Rest
<1>4. BootOK'
  BY <1>1 DEF DiskInv, BootOK, Booting
<1>5. \A u \in IoThread : /\ Running(io'[u]) <=> Running(io[u])
                          /\ io'[u].op = io[u].op
                          /\ Is(io'[u], "acquire") <=> Is(io[u], "acquire")
  BY <1>1 DEF Running
<1>6. HoldOK'
  <2>1. /\ io_lock \in IoThread \cup {NoThread} /\ io_queue \in Seq(IoThread)
        /\ io_lock' = io_lock /\ io_queue' = io_queue
    BY DEF DiskInv, DiskType
  <2>2. \A i \in 1 .. Len(io_queue) : io_queue[i] \in IoThread
    BY <2>1
  <2> QED
    BY <1>5, <2>1, <2>2 DEF DiskInv, HoldOK
<1>7. \A u \in IoThread \ {t} : ~Running(io[u]) /\ io'[u] = io[u] /\ Proper(io[u])
  BY <1>1, OneRunning DEF DiskInv, DiskType
<1>8. \A u \in IoThread \ {t} : Kept(io[u])' /\ CommandOK(io[u])' /\ Exact(io[u])'
  BY <1>7, NotRunning DEF Kept, CommandOK, Exact
<1>9. Kept(io[t])'
  BY <1>1 DEF Kept
<1>10. ASSUME disk_end' = "no"
       PROVE  ChannelOK'
  <2>1. CommandOK(io[t])'
    BY <1>1, <1>10 DEF CommandOK
  <2>2. spurious' = 0 => Exact(io[t])'
    BY <1>1, <1>10 DEF Exact
  <2> QED
    BY <1>1, <1>8, <1>10, <2>1, <2>2 DEF ChannelOK
<1> QED
  BY <1>3, <1>4, <1>6, <1>8, <1>9, <1>10 DEF DiskInv

-----------------------------------------------------------------------------
(* A request and its next step. *)
LEMMA NextStep ==
    ASSUME NEW q, Proper(q), q.at > 0, ~Is(q, "release"), ~Is(q, "register"),
           NEW r, r = [q EXCEPT !.at = @ + 1]
    PROVE  /\ Proper(r) /\ Running(r)
           /\ r.op = q.op /\ r.dev = q.dev /\ r.sec = q.sec /\ r.val = q.val
           /\ \A n \in 0 .. 7 : [r EXCEPT !.at = n] = [q EXCEPT !.at = n]
           /\ Is(q, "acquire") => Is(r, "select")
           /\ Is(q, "select") => Is(r, "issue")
           /\ Is(q, "issue") => IF q.op = "write" THEN Is(r, "check") ELSE Is(r, "down")
           /\ Is(q, "down") => IF q.op = "write" THEN Is(r, "release") ELSE Is(r, "check")
           /\ Is(q, "check") => Is(r, "data")
           /\ Is(q, "data") => CASE q.op = "write" -> Is(r, "down")
                                 [] q.op = "read" -> Is(r, "release")
                                 [] OTHER -> Is(r, "register")
<1>1. /\ q \in Requests /\ q.at \in 1 .. 7 /\ q.op \in {"read", "write", "identify"}
  BY DEF Proper, Requests
<1>2. CASE q.op = "read"
  <2>1. q.at \in 1 .. 6
    BY <1>1, <1>2 DEF Is, Steps
  <2>2. /\ r \in Requests /\ r.at = q.at + 1
        /\ r.op = q.op /\ r.dev = q.dev /\ r.sec = q.sec /\ r.val = q.val
    BY <1>1, <2>1 DEF Requests
  <2>3. Proper(r)
    BY <1>2, <2>1, <2>2 DEF Proper
  <2>4. \A n \in 0 .. 7 : [r EXCEPT !.at = n] = [q EXCEPT !.at = n]
    BY <1>1 DEF Requests
  <2>5. Running(r)
    BY <1>2, <2>1, <2>2 DEF Running, Is, Steps
  <2>6. /\ Is(q, "acquire") => Is(r, "select")
        /\ Is(q, "select") => Is(r, "issue")
        /\ Is(q, "issue") => Is(r, "down")
        /\ Is(q, "down") => Is(r, "check")
        /\ Is(q, "check") => Is(r, "data")
        /\ Is(q, "data") => Is(r, "release")
    BY <1>2, <2>1, <2>2 DEF Is, Steps
  <2> QED
    BY <1>2, <2>2, <2>3, <2>4, <2>5, <2>6
<1>3. CASE q.op = "write"
  <2>1. q.at \in 1 .. 6
    BY <1>1, <1>3 DEF Is, Steps
  <2>2. /\ r \in Requests /\ r.at = q.at + 1
        /\ r.op = q.op /\ r.dev = q.dev /\ r.sec = q.sec /\ r.val = q.val
    BY <1>1, <2>1 DEF Requests
  <2>3. Proper(r)
    BY <1>3, <2>1, <2>2 DEF Proper
  <2>4. \A n \in 0 .. 7 : [r EXCEPT !.at = n] = [q EXCEPT !.at = n]
    BY <1>1 DEF Requests
  <2>5. Running(r)
    BY <1>3, <2>1, <2>2 DEF Running, Is, Steps
  <2>6. /\ Is(q, "acquire") => Is(r, "select")
        /\ Is(q, "select") => Is(r, "issue")
        /\ Is(q, "issue") => Is(r, "check")
        /\ Is(q, "down") => Is(r, "release")
        /\ Is(q, "check") => Is(r, "data")
        /\ Is(q, "data") => Is(r, "down")
    BY <1>3, <2>1, <2>2 DEF Is, Steps
  <2> QED
    BY <1>3, <2>2, <2>3, <2>4, <2>5, <2>6
<1>4. CASE q.op = "identify"
  <2>1. q.at \in 1 .. 5
    <3>1. q.at \in 1 .. 6
      BY <1>1, <1>4 DEF Proper
    <3> QED
      BY <1>4, <3>1 DEF Is, Steps
  <2>2. /\ r \in Requests /\ r.at = q.at + 1
        /\ r.op = q.op /\ r.dev = q.dev /\ r.sec = q.sec /\ r.val = q.val
    BY <1>1, <2>1 DEF Requests
  <2>3. Proper(r)
    BY <1>4, <2>1, <2>2 DEF Proper
  <2>4. \A n \in 0 .. 7 : [r EXCEPT !.at = n] = [q EXCEPT !.at = n]
    BY <1>1 DEF Requests
  <2>5. Running(r)
    BY <1>4, <2>1, <2>2 DEF Running, Is, Steps
  <2>6. /\ ~Is(q, "acquire")
        /\ Is(q, "select") => Is(r, "issue")
        /\ Is(q, "issue") => Is(r, "down")
        /\ Is(q, "down") => Is(r, "check")
        /\ Is(q, "check") => Is(r, "data")
        /\ Is(q, "data") => Is(r, "register")
    BY <1>4, <2>1, <2>2 DEF Is, Steps
  <2> QED
    BY <1>4, <2>2, <2>3, <2>4, <2>5, <2>6
<1> QED
  BY <1>1, <1>2, <1>3, <1>4

(* A request is at one step. *)
LEMMA OneStep ==
    ASSUME NEW r, NEW x, Is(r, x)
    PROVE  \A y : y # x => ~Is(r, y)
  BY DEF Is

(* What holds of a request that goes on from a step after the lock. *)
LEMMA StepFrom ==
    ASSUME DiskInv, disk_end = "no", NEW t \in IoThread, NEW step, At(t, step),
           step \in {"select", "issue", "down", "check", "data"}
    PROVE  /\ Proper(io[t]) /\ Is(io[t], step) /\ Running(io[t]) /\ io[t].at > 0
           /\ ~Is(io[t], "release") /\ ~Is(io[t], "register")
           /\ ChannelOK /\ CommandOK(io[t]) /\ (spurious = 0 => Exact(io[t])) /\ Rest
<1>1. /\ Proper(io[t]) /\ Is(io[t], step) /\ io[t].at > 0
      /\ ChannelOK /\ CommandOK(io[t]) /\ (spurious = 0 => Exact(io[t])) /\ Rest
  BY DEF DiskInv, DiskType, ChannelOK, At, Is, Rest
<1> QED
  BY <1>1, OneStep DEF Running

(* wait_until_idle() clears a pending interrupt and notes whether it was   *)
(* in vain.                                                                *)
LEMMA SelectKeeps ==
    ASSUME DiskInv, disk_end = "no", NEW t \in IoThread, select_sector(t)
    PROVE  DiskInv'
<1>1. PICK q : q = io[t]
  OBVIOUS
<1>2. PICK r : r = [q EXCEPT !.at = @ + 1]
  OBVIOUS
<1>3. /\ Proper(q) /\ Is(q, "select") /\ Running(q) /\ q.at > 0
      /\ ~Is(q, "release") /\ ~Is(q, "register")
      /\ ChannelOK /\ CommandOK(q) /\ (spurious = 0 => Exact(q)) /\ Rest
  BY <1>1, StepFrom DEF select_sector
<1>4. io' = [io EXCEPT ![t] = r]
  BY <1>1, <1>2 DEF select_sector, Advance
<1>5. Proper(r) /\ Running(r) /\ r.op = q.op /\ Is(r, "issue")
  BY <1>2, <1>3, NextStep
<1>7. ~Is(r, "down") /\ ~Is(r, "check") /\ ~Is(r, "data") /\ ~Is(r, "release")
      /\ ~Is(r, "select") /\ ~Is(r, "register")
  BY <1>5, OneStep
<1>8. Rest'
  BY <1>3 DEF Rest, select_sector
<1>9. Kept(r)' /\ CommandOK(r)'
  <2>1. Kept(r)'
    BY <1>7 DEF Kept
  <2>2. late' \/ stage' = "idle"
    BY DEF select_sector
  <2> QED
    BY <1>7, <2>1, <2>2 DEF CommandOK
<1>10. spurious' = 0 => Exact(r)'
  BY <1>3, <1>7 DEF Exact, Calmed, Calm, select_sector
<1>11. MediaOK' /\ (disk_end' = "overlap" => late')
  BY <1>3 DEF ChannelOK, MediaOK, select_sector
<1> QED
  BY <1>1, <1>3, <1>4, <1>5, <1>8, <1>9, <1>10, <1>11, GoesOn DEF select_sector

(* A command is given to an idle device, or late says why not. *)
LEMMA IssueKeeps ==
    ASSUME DiskInv, disk_end = "no", NEW t \in IoThread, issue_pio_command(t)
    PROVE  DiskInv'
<1>1. PICK q : q = io[t]
  OBVIOUS
<1>2. PICK r : r = [q EXCEPT !.at = @ + 1]
  OBVIOUS
<1>3. /\ Proper(q) /\ Is(q, "issue") /\ Running(q) /\ q.at > 0
      /\ ~Is(q, "release") /\ ~Is(q, "register")
      /\ ChannelOK /\ CommandOK(q) /\ (spurious = 0 => Exact(q)) /\ Rest
  BY <1>1, StepFrom DEF issue_pio_command
<1>4. io' = [io EXCEPT ![t] = r]
  BY <1>1, <1>2 DEF issue_pio_command, Advance
<1>5. /\ Proper(r) /\ Running(r) /\ r.op = q.op
      /\ \A n \in 0 .. 7 : [r EXCEPT !.at = n] = [q EXCEPT !.at = n]
      /\ IF r.op = "write" THEN Is(r, "check") ELSE Is(r, "down")
  BY <1>2, <1>3, NextStep
<1>7. ~Is(r, "issue") /\ ~Is(r, "data") /\ ~Is(r, "release")
      /\ ~Is(r, "select") /\ ~Is(r, "register") /\ (Is(r, "down") => r.op # "write")
      /\ (Is(r, "check") => r.op = "write")
  BY <1>5, OneStep
<1>8. Rest'
  BY <1>1, <1>3 DEF Rest, issue_pio_command, Proper
<1>9. Kept(r)' /\ (disk_end' = "overlap" => late')
  BY <1>3, <1>7 DEF Kept, issue_pio_command, CommandOK
<1>10. ASSUME disk_end' = "no"
       PROVE  MediaOK' /\ CommandOK(r)' /\ (spurious' = 0 => Exact(r)')
  <2>1. stage = "idle" /\ command' = q /\ stage' = "busy" /\ expecting_interrupt'
        /\ irq' = irq /\ completion_wait' = completion_wait /\ spurious' = spurious
        /\ media' = media /\ stored' = stored
    BY <1>1, <1>10 DEF issue_pio_command
  <2>2. q = [r EXCEPT !.at = q.at]
    <3>1. q.at \in 0 .. 7 /\ q = [q EXCEPT !.at = q.at]
      BY <1>3 DEF Proper, Requests
    <3> QED
      BY <1>5, <3>1
  <2>3. CommandOK(r)'
    BY <1>7, <2>1, <2>2 DEF CommandOK
  <2>4. MediaOK'
    BY <1>3, <2>1 DEF ChannelOK, MediaOK
  <2>5. spurious' = 0 => Exact(r)'
    <3>1. ASSUME spurious = 0
          PROVE  ~irq /\ completion_wait = 0
      BY <1>3, <3>1 DEF Exact, Calmed, Calm
    <3> QED
      BY <1>7, <2>1, <3>1 DEF Exact, Calm, Owed
  <2> QED
    BY <2>3, <2>4, <2>5
<1> QED
  BY <1>1, <1>3, <1>4, <1>5, <1>8, <1>9, <1>10, GoesOn DEF issue_pio_command

(* The interrupt that a request waited for. *)
LEMMA WakeKeeps ==
    ASSUME DiskInv, disk_end = "no", NEW t \in IoThread, Down(t)
    PROVE  DiskInv'
<1>1. PICK q : q = io[t]
  OBVIOUS
<1>3. /\ Proper(q) /\ Is(q, "down") /\ Running(q) /\ q.at > 0
      /\ ~Is(q, "release") /\ ~Is(q, "register")
      /\ ChannelOK /\ CommandOK(q) /\ (spurious = 0 => Exact(q)) /\ Rest
  BY <1>1, StepFrom DEF Down
<1>2. PICK r : r = [q EXCEPT !.at = @ + 1]
  OBVIOUS
<1>4. io' = [io EXCEPT ![t] = r]
  BY <1>1, <1>2 DEF Down, Advance
<1>5. /\ Proper(r) /\ Running(r) /\ r.op = q.op /\ r.dev = q.dev /\ r.sec = q.sec /\ r.val = q.val
      /\ \A n \in 0 .. 7 : [r EXCEPT !.at = n] = [q EXCEPT !.at = n]
      /\ IF r.op = "write" THEN Is(r, "release") ELSE Is(r, "check")
  BY <1>2, <1>3, NextStep
<1>6. command.at \in 0 .. 7 /\ completion_wait \in Nat /\ completion_wait > 0
      /\ completion_wait' = completion_wait - 1
  BY <1>3 DEF Rest, Requests, Down
<1>7. ~Is(r, "issue") /\ ~Is(r, "data") /\ ~Is(r, "down")
      /\ ~Is(r, "select") /\ ~Is(r, "register") /\ (Is(r, "release") => r.op = "write")
      /\ (Is(r, "check") => r.op # "write")
  BY <1>5, OneStep
<1>8. Rest'
  BY <1>3, <1>6 DEF Rest, Down, deviceVars
<1>9. ASSUME spurious = 0
      PROVE  ~irq /\ completion_wait = 1 /\ stage \in IF q.op = "write" THEN {"idle"} ELSE {"drq", "idle"}
  BY <1>3, <1>6, <1>9 DEF Exact, Owed, Calm
<1>10. spurious' = 0 => Exact(r)'
  BY <1>5, <1>6, <1>7, <1>9 DEF Exact, Calmed, Calm, Down, deviceVars
<1>11. Kept(r)'
  <2>1. ASSUME r.op = "write", spurious = 0
        PROVE  media[r.dev][r.sec] = r.val
    BY <1>3, <1>5, <1>9, <2>1 DEF CommandOK, ChannelOK, MediaOK
  <2> QED
    BY <1>7, <2>1 DEF Kept, Down, deviceVars
<1>12. CommandOK(r)'
  <2>1. Is(r, "check") => expecting_interrupt /\ command = [r EXCEPT !.at = command.at]
    BY <1>3, <1>5, <1>6 DEF CommandOK
  <2>2. r.op = "write" => stored[r.dev][r.sec] = r.val
    BY <1>3, <1>5 DEF CommandOK
  <2> QED
    BY <1>7, <2>1, <2>2 DEF CommandOK, Down, deviceVars
<1>13. MediaOK' /\ (disk_end' = "overlap" => late')
  BY <1>3 DEF ChannelOK, MediaOK, Down, deviceVars
<1> QED
  BY <1>1, <1>3, <1>4, <1>5, <1>8, <1>9, <1>10, <1>11, <1>12, <1>13, GoesOn DEF Down

(* The device wants the data of a write or has those of a read. *)
LEMMA ReadyKeeps ==
    ASSUME DiskInv, disk_end = "no", NEW t \in IoThread, wait_while_busy(t), stage = "drq"
    PROVE  DiskInv'
<1>1. PICK q : q = io[t]
  OBVIOUS
<1>3. /\ Proper(q) /\ Is(q, "check") /\ Running(q) /\ q.at > 0
      /\ ~Is(q, "release") /\ ~Is(q, "register")
      /\ ChannelOK /\ CommandOK(q) /\ (spurious = 0 => Exact(q)) /\ Rest
  BY <1>1, StepFrom DEF wait_while_busy
<1>2. PICK r : r = [q EXCEPT !.at = @ + 1]
  OBVIOUS
<1>4. io' = [io EXCEPT ![t] = r] /\ UNCHANGED <<is_ata, probed, boot, disk_end>>
  BY <1>1, <1>2 DEF wait_while_busy, Advance
<1>5. /\ Proper(r) /\ Running(r) /\ r.op = q.op /\ Is(r, "data")
      /\ \A n \in 0 .. 7 : [r EXCEPT !.at = n] = [q EXCEPT !.at = n]
  BY <1>2, <1>3, NextStep
<1>6. ~Is(r, "issue") /\ ~Is(r, "check") /\ ~Is(r, "down") /\ ~Is(r, "release")
      /\ ~Is(r, "select") /\ ~Is(r, "register")
  BY <1>5, OneStep
<1>7. Rest'
  BY <1>3 DEF Rest, wait_while_busy, deviceVars
<1>8. Kept(r)'
  BY <1>6 DEF Kept
<1>9. CommandOK(r)'
  <2>1. command.at \in 0 .. 7
    BY <1>3 DEF Rest, Requests
  <2>2. expecting_interrupt /\ command = [r EXCEPT !.at = command.at]
    BY <1>3, <1>5, <2>1 DEF CommandOK
  <2> QED
    BY <1>6, <2>2 DEF CommandOK, wait_while_busy, deviceVars
<1>10. spurious' = 0 => Exact(r)'
  BY <1>3, <1>6 DEF Exact, Calm, wait_while_busy, deviceVars
<1>11. MediaOK' /\ (disk_end' = "overlap" => late')
  BY <1>3, <1>4 DEF ChannelOK, MediaOK, wait_while_busy, deviceVars
<1> QED
  BY <1>1, <1>3, <1>4, <1>5, <1>7, <1>8, <1>9, <1>10, <1>11, GoesOn DEF wait_while_busy

(* The data of a read are those of its sector. *)
LEMMA InputKeeps ==
    ASSUME DiskInv, disk_end = "no", NEW t \in IoThread, input_sector(t)
    PROVE  DiskInv'
<1>1. PICK q : q = io[t]
  OBVIOUS
<1>3. /\ Proper(q) /\ Is(q, "data") /\ Running(q) /\ q.at > 0
      /\ ~Is(q, "release") /\ ~Is(q, "register")
      /\ ChannelOK /\ CommandOK(q) /\ (spurious = 0 => Exact(q)) /\ Rest
  BY <1>1, StepFrom DEF input_sector
<1>2. PICK s : s = [q EXCEPT !.at = @ + 1]
  OBVIOUS
<1>4. /\ Proper(s) /\ Running(s) /\ s.op = q.op /\ s.dev = q.dev /\ s.sec = q.sec /\ s.val = q.val
      /\ q.op \in {"read", "identify"}
      /\ Is(s, IF q.op = "read" THEN "release" ELSE "register")
  <2>1. q.op \in {"read", "identify"}
    BY <1>1 DEF input_sector
  <2> QED
    BY <1>2, <1>3, <2>1, NextStep
<1>5. command = [q EXCEPT !.at = command.at] /\ stage = "drq"
  BY <1>3 DEF CommandOK
<1>6. q \in Requests /\ command \in Requests /\ media \in Contents /\ stored = media
  BY <1>3, <1>5 DEF Proper, Rest, ChannelOK, MediaOK
<1>7. command.dev = q.dev /\ command.sec = q.sec
  BY <1>5, <1>6 DEF Requests
<1>8. PICK n : n = media[q.dev][q.sec]
  OBVIOUS
<1>9. n \in Int
  BY <1>6, <1>8 DEF Contents, Requests
<1>10. PICK r : r = [q EXCEPT !.at = @ + 1, !.val = n]
  OBVIOUS
<1>11. /\ io' = [io EXCEPT ![t] = r] /\ stage' = "idle"
       /\ UNCHANGED <<drive, media, command, irq, spurious, expecting_interrupt,
                   completion_wait, io_lock, io_queue, is_ata, probed, boot, all_blocks, ios,
                   late, stored, disk_end>>
  <2>1. command = [io[t] EXCEPT !.at = command.at]
    BY <1>1, <1>5
  <2>2. io' = [io EXCEPT ![t].at = @ + 1, ![t].val = n]
    BY <1>5, <1>7, <1>8, <2>1 DEF input_sector
  <2> QED
    BY <1>1, <1>5, <1>10, <2>1, <2>2 DEF input_sector
<1>12. /\ r = [s EXCEPT !.val = n] /\ r \in Requests
       /\ r.at = s.at /\ r.op = s.op /\ r.dev = s.dev /\ r.sec = s.sec /\ r.val = n
  <2>1. s \in Requests
    BY <1>4 DEF Proper
  <2> QED
    BY <1>2, <1>6, <1>9, <1>10, <2>1 DEF Requests
<1>13. Proper(r) /\ Running(r) /\ Is(r, IF q.op = "read" THEN "release" ELSE "register")
  BY <1>4, <1>12 DEF Proper, Running, Is
<1>14. ~Is(r, "issue") /\ ~Is(r, "check") /\ ~Is(r, "down") /\ ~Is(r, "data")
       /\ ~Is(r, "select") /\ (Is(r, "release") => r.op # "write")
  BY <1>4, <1>12, <1>13, OneStep
<1>15. Rest'
  BY <1>3, <1>11 DEF Rest
<1>16. Kept(r)'
  <2>1. r.val = stored'[r.dev][r.sec]
    BY <1>4, <1>6, <1>8, <1>11, <1>12
  <2> QED
    BY <1>14, <2>1 DEF Kept
<1>17. CommandOK(r)'
  BY <1>4, <1>12, <1>14 DEF CommandOK
<1>18. spurious' = 0 => Exact(r)'
  BY <1>3, <1>11, <1>14 DEF Exact, Calmed, Calm
<1>19. MediaOK' /\ (disk_end' = "overlap" => late')
  BY <1>6, <1>11 DEF MediaOK
<1> QED
  BY <1>1, <1>3, <1>4, <1>11, <1>12, <1>13, <1>15, <1>16, <1>17, <1>18, <1>19, GoesOn

(* The data of a write are on their way to its sector. *)
LEMMA OutputKeeps ==
    ASSUME DiskInv, disk_end = "no", NEW t \in IoThread, output_sector(t)
    PROVE  DiskInv'
<1>1. PICK q : q = io[t]
  OBVIOUS
<1>3. /\ Proper(q) /\ Is(q, "data") /\ Running(q) /\ q.at > 0
      /\ ~Is(q, "release") /\ ~Is(q, "register")
      /\ ChannelOK /\ CommandOK(q) /\ (spurious = 0 => Exact(q)) /\ Rest
  BY <1>1, StepFrom DEF output_sector
<1>2. PICK r : r = [q EXCEPT !.at = @ + 1]
  OBVIOUS
<1>4. io' = [io EXCEPT ![t] = r]
  BY <1>1, <1>2 DEF output_sector, Advance
<1>5. /\ Proper(r) /\ Running(r) /\ r.op = "write"
      /\ r.op = q.op /\ r.dev = q.dev /\ r.sec = q.sec /\ r.val = q.val
      /\ \A n \in 0 .. 7 : [r EXCEPT !.at = n] = [q EXCEPT !.at = n]
      /\ Is(r, "down")
  <2>1. q.op = "write"
    BY <1>1 DEF output_sector
  <2> QED
    BY <1>2, <1>3, <2>1, NextStep
<1>6. ~Is(r, "issue") /\ ~Is(r, "data") /\ ~Is(r, "check") /\ ~Is(r, "release")
      /\ ~Is(r, "select") /\ ~Is(r, "register")
  BY <1>5, OneStep
<1>7. command = [q EXCEPT !.at = command.at] /\ stage = "drq" /\ expecting_interrupt
      /\ stage' = "commit" /\ stored' = [stored EXCEPT ![q.dev][q.sec] = q.val]
  BY <1>1, <1>3 DEF CommandOK, output_sector
<1>8. /\ q \in Requests /\ command \in Requests /\ stored = media
      /\ command.dev = q.dev /\ command.sec = q.sec /\ command.val = q.val
      /\ stored \in Contents
  <2>1. q \in Requests /\ command \in Requests /\ stored = media /\ stored \in Contents
    BY <1>3, <1>7 DEF Proper, Rest, ChannelOK, MediaOK
  <2> QED
    BY <1>7, <2>1 DEF Requests
<1>9. stored' \in Contents /\ stored'[r.dev][r.sec] = r.val
  BY <1>5, <1>7, <1>8 DEF Contents, Requests
<1>10. Rest'
  BY <1>3, <1>7, <1>9 DEF Rest, output_sector
<1>11. Kept(r)'
  BY <1>6 DEF Kept
<1>12. CommandOK(r)'
  <2>1. command = [r EXCEPT !.at = command.at]
    <3>1. command.at \in 0 .. 7
      BY <1>8 DEF Requests
    <3> QED
      BY <1>5, <1>7, <3>1
  <2> QED
    BY <1>5, <1>6, <1>7, <1>9, <2>1 DEF CommandOK, output_sector
<1>13. spurious' = 0 => Exact(r)'
  BY <1>3, <1>5, <1>6, <1>7 DEF Exact, Owed, Calm, output_sector
<1>14. MediaOK' /\ (disk_end' = "overlap" => late')
  BY <1>7, <1>8 DEF MediaOK, output_sector
<1> QED
  BY <1>1, <1>3, <1>4, <1>5, <1>10, <1>11, <1>12, <1>13, <1>14, GoesOn DEF output_sector

-----------------------------------------------------------------------------
(* A step that leaves the requests where they are. *)
LEMMA StaysPut ==
    ASSUME DiskInv, UNCHANGED <<io, io_lock, io_queue, probed, boot, all_blocks>>, Rest',
           disk_end' = "overlap" => late',
           \A r : Proper(r) /\ (\E u \in IoThread : r = io[u]) => Kept(r)',
           disk_end' = "no" =>
              /\ MediaOK'
              /\ \A r : Proper(r) /\ (\E u \in IoThread : r = io[u]) =>
                    CommandOK(r)' /\ (spurious' = 0 => Exact(r)')
              /\ spurious' = 0 /\ (\A u \in IoThread : ~Running(io[u])) => Calmed'
    PROVE  DiskInv'
<1>1. DiskType'
  BY DEF DiskInv, DiskType, Rest
<1>2. BootOK'
  BY DEF DiskInv, BootOK, Booting
<1>3. HoldOK'
  BY DEF DiskInv, HoldOK
<1>4. ASSUME NEW u \in IoThread
      PROVE  /\ Kept(io[u])'
             /\ disk_end' = "no" => CommandOK(io[u])' /\ (spurious' = 0 => Exact(io[u])')
  <2>1. PICK r : r = io[u]
    OBVIOUS
  <2>2. Proper(r)
    BY <2>1 DEF DiskInv, DiskType
  <2>3. Kept(r)' /\ (disk_end' = "no" => CommandOK(r)' /\ (spurious' = 0 => Exact(r)'))
    BY <2>1, <2>2
  <2>4. io'[u] = r
    BY <2>1
  <2>5. Kept(io[u])'
    BY <2>3, <2>4 DEF Kept
  <2>6. disk_end' = "no" => CommandOK(io[u])'
    BY <2>3, <2>4 DEF CommandOK
  <2>7. disk_end' = "no" /\ spurious' = 0 => Exact(io[u])'
    BY <2>3, <2>4 DEF Exact
  <2> QED
    BY <2>5, <2>6, <2>7
<1>5. disk_end' = "no" => ChannelOK'
  BY <1>4 DEF ChannelOK
<1> QED
  BY <1>1, <1>2, <1>3, <1>4, <1>5 DEF DiskInv

(* The handler turns a pending interrupt into a unit of the semaphore, as  *)
(* every command has been expecting one.                                   *)
LEMMA HandlerKeeps ==
    ASSUME DiskInv, disk_end = "no", interrupt_handler
    PROVE  DiskInv'
<1>1. ChannelOK /\ Rest /\ irq /\ irq' = FALSE /\ completion_wait \in Nat
      /\ completion_wait' = (IF expecting_interrupt THEN completion_wait + 1 ELSE completion_wait)
      /\ UNCHANGED <<drive, media, command, stage, spurious, expecting_interrupt, io_lock,
                   io_queue, is_ata, probed, boot, all_blocks, io, ios, late, stored, disk_end>>
  BY DEF DiskInv, DiskType, Rest, interrupt_handler
<1>2. Rest' /\ MediaOK'
  <2>1. completion_wait' \in Nat
    BY <1>1
  <2>2. Rest'
    BY <1>1, <2>1 DEF Rest
  <2> QED
    BY <1>1, <2>2 DEF ChannelOK, MediaOK
<1>3. ASSUME NEW r, Proper(r), NEW u \in IoThread, r = io[u]
      PROVE  Kept(r)' /\ CommandOK(r)' /\ (spurious' = 0 => Exact(r)')
  <2>1. Kept(r) /\ CommandOK(r) /\ (spurious = 0 => Exact(r))
    BY <1>1, <1>3 DEF DiskInv, ChannelOK
  <2>2. Kept(r)'
    BY <1>1, <2>1 DEF Kept
  <2>3. CommandOK(r)'
    BY <1>1, <2>1 DEF CommandOK
  <2>4. ASSUME spurious = 0
        PROVE  Exact(r)'
    <3>1. /\ ~Is(r, "select") /\ ~Is(r, "issue") /\ ~Is(r, "release") /\ ~Is(r, "register")
          /\ ~Is(r, "data")
      BY <1>1, <2>1, <2>4 DEF Exact, Calmed, Calm
    <3>2. Is(r, "down") => expecting_interrupt
      BY <2>1 DEF CommandOK
    <3> QED
      BY <1>1, <2>1, <2>4, <3>1, <3>2 DEF Exact, Owed, Calm
  <2> QED
    BY <1>1, <2>2, <2>3, <2>4
<1>4. spurious' = 0 /\ (\A u \in IoThread : ~Running(io[u])) => Calmed'
  BY <1>1 DEF ChannelOK, Calmed, Calm
<1> QED
  BY <1>1, <1>2, <1>3, <1>4, StaysPut

(* The device is ready for the data of a command, or it failed. *)
LEMMA AnswerKeeps ==
    ASSUME DiskInv, disk_end = "no", NEW ok \in BOOLEAN, CommandReady(ok), DriverFrame
    PROVE  DiskInv'
<1>1. ChannelOK /\ Rest /\ stage = "busy" /\ stage' = (IF ok THEN "drq" ELSE "idle")
      /\ irq' \in BOOLEAN /\ (~(ok /\ command.op = "write") => irq')
      /\ (ok /\ command.op = "write" => irq' = irq) /\ (irq => irq')
      /\ UNCHANGED <<drive, media, command, spurious, expecting_interrupt, completion_wait,
                     io_lock, io_queue, is_ata, probed, boot, all_blocks, io, ios, late, stored,
                     disk_end>>
  BY DEF DiskInv, DiskType, Rest, CommandReady, DriverFrame
<1>2. Rest' /\ MediaOK'
  BY <1>1 DEF Rest, ChannelOK, MediaOK
<1>3. ASSUME NEW r, Proper(r), NEW u \in IoThread, r = io[u]
      PROVE  Kept(r)' /\ CommandOK(r)' /\ (spurious' = 0 => Exact(r)')
  <2>1. Kept(r) /\ CommandOK(r) /\ (spurious = 0 => Exact(r))
    BY <1>1, <1>3 DEF DiskInv, ChannelOK
  <2>2. Kept(r)'
    BY <1>1, <2>1 DEF Kept
  <2>3. ~Is(r, "data")
    BY <1>1, <2>1 DEF CommandOK
  <2>4. Is(r, "down") \/ Is(r, "check") => command.op = r.op
    <3>1. Is(r, "down") \/ Is(r, "check") => command = [r EXCEPT !.at = command.at]
      BY <2>1 DEF CommandOK
    <3> QED
      BY <1>3, <3>1 DEF Proper, Requests
  <2>5. CommandOK(r)'
    <3>1. Is(r, "issue") => late
      BY <1>1, <2>1 DEF CommandOK
    <3>2. Is(r, "down") => irq' \/ completion_wait > 0
      BY <1>1, <2>1, <2>4 DEF CommandOK
    <3>3. Is(r, "down") \/ Is(r, "check") \/ Is(r, "data") =>
             expecting_interrupt /\ command = [r EXCEPT !.at = command.at]
      BY <2>1 DEF CommandOK
    <3>4. r.op = "write" /\ (Is(r, "down") \/ Is(r, "release")) => stored[r.dev][r.sec] = r.val
      BY <2>1 DEF CommandOK
    <3> QED
      BY <1>1, <2>3, <3>1, <3>2, <3>3, <3>4 DEF CommandOK
  <2>6. ASSUME spurious = 0
        PROVE  Exact(r)'
    <3>1. ~Is(r, "select") /\ ~Is(r, "issue") /\ ~Is(r, "release") /\ ~Is(r, "register")
      BY <1>1, <2>1, <2>6 DEF Exact, Calmed
    <3>2. Is(r, "check") => r.op = "write" /\ Calm
      BY <1>1, <2>1, <2>6 DEF Exact
    <3>3. Is(r, "down") => r.op # "write" /\ Calm
      BY <1>1, <2>1, <2>6 DEF Exact, Owed
    <3> QED
      BY <1>1, <2>3, <2>4, <3>1, <3>2, <3>3 DEF Exact, Owed, Calm
  <2> QED
    BY <1>1, <2>2, <2>5, <2>6
<1>4. spurious' = 0 /\ (\A u \in IoThread : ~Running(io[u])) => Calmed'
  BY <1>1 DEF ChannelOK, Calmed, Calm
<1> QED
  BY <1>1, <1>2, <1>3, <1>4, StaysPut

(* The data of a write reach the disk. *)
LEMMA CommitKeeps ==
    ASSUME DiskInv, disk_end = "no", Commit, DriverFrame
    PROVE  DiskInv'
<1>1. ChannelOK /\ Rest /\ stage = "commit" /\ stage' = "idle" /\ irq' = TRUE
      /\ media' = [media EXCEPT ![command.dev][command.sec] = command.val]
      /\ UNCHANGED <<drive, command, spurious, expecting_interrupt, completion_wait,
                     io_lock, io_queue, is_ata, probed, boot, all_blocks, io, ios, late, stored,
                     disk_end>>
  BY DEF DiskInv, DiskType, Rest, Commit, DriverFrame
<1>2. media' = stored
  BY <1>1 DEF ChannelOK, MediaOK
<1>3. Rest' /\ MediaOK'
  BY <1>1, <1>2 DEF Rest, MediaOK
<1>4. ASSUME NEW r, Proper(r), NEW u \in IoThread, r = io[u]
      PROVE  Kept(r)' /\ CommandOK(r)' /\ (spurious' = 0 => Exact(r)')
  <2>1. Kept(r) /\ CommandOK(r) /\ (spurious = 0 => Exact(r))
    BY <1>1, <1>4 DEF DiskInv, ChannelOK
  <2>2. ASSUME spurious = 0
        PROVE  /\ ~Is(r, "select") /\ ~Is(r, "issue") /\ ~Is(r, "release") /\ ~Is(r, "register")
               /\ ~Is(r, "check") /\ (Is(r, "down") => r.op = "write" /\ Calm)
    BY <1>1, <2>1, <2>2 DEF Exact, Calmed, Owed
  <2>3. Kept(r)'
    BY <1>1, <2>1, <2>2 DEF Kept
  <2>4. CommandOK(r)'
    BY <1>1, <2>1 DEF CommandOK
  <2>5. ASSUME spurious = 0
        PROVE  Exact(r)'
    <3>1. ~Is(r, "data")
      BY <1>1, <2>1 DEF CommandOK
    <3> QED
      BY <1>1, <2>2, <2>5, <3>1 DEF Exact, Owed, Calm
  <2> QED
    BY <1>1, <2>3, <2>4, <2>5
<1>5. spurious' = 0 /\ (\A u \in IoThread : ~Running(io[u])) => Calmed'
  BY <1>1 DEF ChannelOK, Calmed
<1> QED
  BY <1>1, <1>3, <1>4, <1>5, StaysPut

(* After an uncaused interrupt less is promised. *)
LEMMA SpuriousKeeps ==
    ASSUME DiskInv, disk_end = "no", Spurious, DriverFrame
    PROVE  DiskInv'
<1>1. ChannelOK /\ Rest /\ irq' = TRUE /\ spurious' = spurious + 1 /\ spurious' # 0
      /\ UNCHANGED <<drive, media, command, stage, expecting_interrupt, completion_wait,
                     io_lock, io_queue, is_ata, probed, boot, all_blocks, io, ios, late, stored,
                     disk_end>>
  BY DEF DiskInv, DiskType, Rest, Spurious, DriverFrame
<1>2. Rest' /\ MediaOK'
  BY <1>1 DEF Rest, ChannelOK, MediaOK
<1>3. ASSUME NEW r, Proper(r), NEW u \in IoThread, r = io[u]
      PROVE  Kept(r)' /\ CommandOK(r)'
  <2>1. Kept(r) /\ CommandOK(r)
    BY <1>1, <1>3 DEF DiskInv, ChannelOK
  <2>2. Kept(r)'
    BY <1>1, <2>1 DEF Kept
  <2>3. CommandOK(r)'
    BY <1>1, <2>1 DEF CommandOK
  <2> QED
    BY <2>2, <2>3
<1> QED
  BY <1>1, <1>2, <1>3, StaysPut

(* Without a data request a request panics. *)
LEMMA PanicKeeps ==
    ASSUME DiskInv, disk_end' \notin {"no", "overlap"},
           UNCHANGED <<media, command, stage, irq, spurious, expecting_interrupt,
                       completion_wait, io_lock, io_queue, probed, boot, all_blocks, io,
                       late, stored>>,
           ios' \in Nat
    PROVE  DiskInv'
<1>1. Rest'
  BY DEF DiskInv, DiskType, Rest
<1>2. \A r : Proper(r) /\ (\E u \in IoThread : r = io[u]) => Kept(r)'
  BY DEF DiskInv, Kept
<1> QED
  BY <1>1, <1>2, StaysPut

-----------------------------------------------------------------------------
(* A request that is over, or a disk that is identified or given up, leaves *)
(* the channel to others.                                                   *)
LEMMA Leaves ==
    ASSUME DiskInv, NEW t \in IoThread, Running(io[t]), io' = [io EXCEPT ![t] = NoRequest],
           UNCHANGED <<media, stored, command, stage, completion_wait, spurious, ios, irq,
                       expecting_interrupt, late, probed>>,
           io_lock' \in IoThread \cup {NoThread}, io_queue' \in Seq(IoThread),
           boot' \in Seq(Dev), boot' # <<>> => boot # <<>>,
           \A b \in all_blocks' : /\ b.dev \in Dev /\ b.start \in Nat /\ b.size \in Nat
                                 /\ b.start + b.size <= DiskSize,
           HoldOK', disk_end' # "overlap",
           disk_end' = "no" => ChannelOK /\ (spurious = 0 => Calmed)
    PROVE  DiskInv'
<1>1. /\ DOMAIN io' = IoThread /\ io'[t] = NoRequest
      /\ \A u \in IoThread : u # t => io'[u] = io[u]
  BY DEF DiskInv, DiskType
<1>2. Proper(NoRequest) /\ NoRequest.op = "none" /\ ~Running(NoRequest)
      /\ \A x : ~Is(NoRequest, x)
  BY DiskAssumption DEF Proper, Requests, NoRequest, Dev, Running, Is
<1>3. \A u \in IoThread : Proper(io'[u])
  BY <1>1, <1>2 DEF DiskInv, DiskType
<1>4. DiskType'
  BY <1>1, <1>3 DEF DiskInv, DiskType
<1>5. BootOK'
  <2>1. ASSUME NEW u \in IoThread, io'[u].op = "identify"
        PROVE  u = Boot /\ probed' /\ boot' # <<>>
    <3>1. io[u].op = "identify" /\ u # t
      BY <1>1, <1>2, <2>1
    <3>2. Running(io[u])
      BY <3>1, StepIs DEF DiskInv, DiskType, Proper, Running
    <3> QED
      BY <3>1, <3>2, OneRunning
  <2>2. Booting' => Booting
    BY DEF Booting
  <2> QED
    BY <1>1, <1>2, <2>1, <2>2 DEF DiskInv, BootOK
<1>6. \A u \in IoThread \ {t} : ~Running(io[u]) /\ io'[u] = io[u] /\ Proper(io[u])
  BY <1>1, OneRunning DEF DiskInv, DiskType
<1>7. \A u \in IoThread \ {t} : Kept(io[u])' /\ CommandOK(io[u])' /\ Exact(io[u])'
  BY <1>6, NotRunning DEF Kept, CommandOK, Exact
<1>8. Kept(io[t])' /\ CommandOK(io[t])' /\ Exact(io[t])'
  BY <1>1, <1>2 DEF Kept, CommandOK, Exact
<1>9. ASSUME disk_end' = "no"
      PROVE  ChannelOK'
  BY <1>7, <1>8, <1>9 DEF ChannelOK, MediaOK, Calmed, Calm
<1> QED
  BY <1>4, <1>5, <1>7, <1>8, <1>9 DEF DiskInv

(* A request gives up the channel's lock. *)
LEMMA ReleaseKeeps ==
    ASSUME DiskInv, disk_end = "no", NEW t \in IoThread, Release(t)
    PROVE  DiskInv'
<1>1. /\ Proper(io[t]) /\ Is(io[t], "release") /\ io[t].at > 0
      /\ ChannelOK /\ (spurious = 0 => Calmed)
  BY DEF DiskInv, DiskType, ChannelOK, At, Is, Release, Exact
<1>2. Running(io[t]) /\ io[t].op # "identify"
  BY <1>1, OneStep, StepIs DEF Running
<1>3. io_queue \in Seq(IoThread) /\ boot \in Seq(Dev)
      /\ io_lock' = NoThread
      /\ io_queue' = (IF io_queue = <<>> THEN <<>> ELSE Tail(io_queue))
      /\ io' = [io EXCEPT ![t] = NoRequest]
      /\ DOMAIN io = IoThread
  BY DEF DiskInv, DiskType, Release
<1>4. /\ io_queue' \in Seq(IoThread)
      /\ \A i \in 1 .. Len(io_queue') : /\ i + 1 \in 1 .. Len(io_queue)
                                        /\ io_queue'[i] = io_queue[i + 1]
      /\ \A i \in 1 .. Len(io_queue) : io_queue[i] \in IoThread
  BY <1>3
<1>5. \A u \in IoThread : u # t => io'[u] = io[u]
  BY <1>3
<1>6. io'[t] = NoRequest /\ \A x : ~Is(NoRequest, x)
  BY <1>3 DEF Is, NoRequest
<1>7. HoldOK'
  <2>1. \A u \in IoThread : ~(Running(io'[u]) /\ io'[u].op # "identify")
    <3>1. ~Running(NoRequest)
      BY DEF Running, NoRequest
    <3>2. \A u \in IoThread : Running(io[u]) => u = t
      BY <1>2, OneRunning
    <3> QED
      BY <1>5, <1>6, <3>1, <3>2
  <2>2. \A i \in 1 .. Len(io_queue) : Is(io[io_queue[i]], "acquire") /\ io_queue[i] # t
    BY <1>1, OneStep DEF DiskInv, HoldOK
  <2>3. \A i \in 1 .. Len(io_queue') : Is(io'[io_queue'[i]], "acquire")
    BY <1>4, <1>5, <2>2
  <2>4. \A i, j \in 1 .. Len(io_queue') : io_queue'[i] = io_queue'[j] => i = j
    BY <1>3, <1>4 DEF DiskInv, HoldOK
  <2>5. ASSUME io_queue' # <<>>
        PROVE  \E u \in IoThread :
                  Is(io'[u], "acquire") /\ \A i \in 1 .. Len(io_queue') : io_queue'[i] # u
    <3>1. io_queue # <<>> /\ 1 \in 1 .. Len(io_queue)
      BY <1>3, <2>5
    <3>2. io_queue[1] \in IoThread /\ Is(io'[io_queue[1]], "acquire")
      BY <1>4, <1>5, <2>2, <3>1
    <3>3. \A i \in 1 .. Len(io_queue') : io_queue'[i] # io_queue[1]
      BY <1>3, <1>4, <3>1 DEF DiskInv, HoldOK
    <3> QED
      BY <3>2, <3>3
  <2> QED
    BY <1>3, <2>1, <2>3, <2>4, <2>5 DEF HoldOK
<1> QED
  BY <1>1, <1>2, <1>3, <1>4, <1>7, Leaves DEF Release, deviceVars, DiskInv, DiskType

(* A disk is identified, or given up. *)
LEMMA ScanEnds ==
    ASSUME DiskInv, disk_end = "no", NEW t \in IoThread, io[t].op = "identify",
           Running(io[t]), spurious = 0 => Calmed,
           io' = [io EXCEPT ![t] = NoRequest], boot' = Tail(boot),
           UNCHANGED <<media, stored, command, stage, completion_wait, spurious, ios, irq,
                       expecting_interrupt, late, probed, io_lock, io_queue>>,
           \A b \in all_blocks' : /\ b.dev \in Dev /\ b.start \in Nat /\ b.size \in Nat
                                 /\ b.start + b.size <= DiskSize,
           disk_end' # "overlap"
    PROVE  DiskInv'
<1>1. boot # <<>> /\ boot \in Seq(Dev)
  BY DEF DiskInv, DiskType, BootOK
<1>2. boot' \in Seq(Dev)
  BY <1>1
<1>3. /\ DOMAIN io' = IoThread /\ io'[t] = NoRequest
      /\ \A u \in IoThread : u # t => io'[u] = io[u]
      /\ io_lock \in IoThread \cup {NoThread} /\ io_queue \in Seq(IoThread)
  BY DEF DiskInv, DiskType
<1>4. ~Running(NoRequest) /\ NoRequest.op = "none" /\ \A x : ~Is(NoRequest, x)
  BY DEF Running, NoRequest, Is
<1>5. \A u \in IoThread : Running(io[u]) => u = t
  BY OneRunning
<1>6. ~Is(io[t], "acquire")
  BY DEF Running
<1>7. HoldOK'
  <2>1. io_lock = NoThread
    BY <1>3, <1>5 DEF DiskInv, HoldOK
  <2>2. \A i \in 1 .. Len(io_queue) : io_queue[i] \in IoThread
    BY <1>3
  <2>3. \A u \in IoThread : ~Running(io'[u])
    BY <1>3, <1>4, <1>5
  <2>4. \A u \in IoThread : Is(io[u], "acquire") <=> Is(io'[u], "acquire")
    BY <1>3, <1>4, <1>6
  <2> QED
    BY <2>1, <2>2, <2>3, <2>4 DEF DiskInv, HoldOK
<1> QED
  BY <1>1, <1>2, <1>3, <1>7, Leaves DEF DiskInv

(* A request takes the free lock. *)
LEMMA TakeKeeps ==
    ASSUME DiskInv, disk_end = "no", NEW t \in IoThread, Acquire(t), io_lock = NoThread
    PROVE  DiskInv'
<1>1. PICK q : q = io[t]
  OBVIOUS
<1>2. PICK r : r = [q EXCEPT !.at = @ + 1]
  OBVIOUS
<1>3. /\ Proper(q) /\ Is(q, "acquire") /\ q.at > 0 /\ ~Running(q)
      /\ ~Is(q, "release") /\ ~Is(q, "register")
  <2>1. Proper(q) /\ Is(q, "acquire") /\ q.at > 0
    BY <1>1 DEF DiskInv, DiskType, Acquire, At, Is
  <2> QED
    BY <2>1, OneStep DEF Running
<1>4. /\ io' = [io EXCEPT ![t] = r] /\ io_lock' = t /\ io_queue' = io_queue
      /\ \A i \in DOMAIN io_queue : io_queue[i] # t
      /\ UNCHANGED <<deviceVars, expecting_interrupt, completion_wait, is_ata, probed, boot,
                     all_blocks, ios, late, stored, disk_end>>
  <2>1. io_lock # NoThread => FALSE
    OBVIOUS
  <2> QED
    BY <1>1, <1>2, <2>1 DEF Acquire, Advance
<1>5. Proper(r) /\ Running(r) /\ r.op = q.op /\ Is(r, "select")
  BY <1>2, <1>3, NextStep
<1>6. ~Is(r, "issue") /\ ~Is(r, "check") /\ ~Is(r, "down") /\ ~Is(r, "release")
      /\ ~Is(r, "data") /\ ~Is(r, "register") /\ ~Is(r, "acquire")
  BY <1>5, OneStep
<1>7. q.op \in {"read", "write"}
  BY <1>3, StepIs
<1>8. /\ DOMAIN io' = IoThread /\ io'[t] = r
      /\ \A u \in IoThread : u # t => io'[u] = io[u]
  BY <1>4 DEF DiskInv, DiskType
<1>9. \A u \in IoThread : ~Running(io[u])
  <2>1. \A u \in IoThread : io[u].op # "identify"
    BY <1>1, <1>7 DEF DiskInv, BootOK, Booting
  <2> QED
    BY <2>1, DiskAssumption DEF DiskInv, HoldOK
<1>10. DiskType'
  <2>1. \A u \in IoThread : Proper(io'[u])
    BY <1>5, <1>8 DEF DiskInv, DiskType
  <2> QED
    BY <1>4, <1>8, <2>1 DEF DiskInv, DiskType, deviceVars
<1>11. BootOK'
  BY <1>1, <1>4, <1>5, <1>7, <1>8 DEF DiskInv, BootOK, Booting
<1>12. HoldOK'
  <2>1. /\ io_queue \in Seq(IoThread)
        /\ \A i \in 1 .. Len(io_queue) : io_queue[i] \in IoThread /\ io_queue[i] # t
    <3>1. io_queue \in Seq(IoThread)
      BY DEF DiskInv, DiskType
    <3> QED
      BY <1>4, <3>1
  <2>2. \A u \in IoThread : Running(io'[u]) => u = t
    BY <1>8, <1>9
  <2>3. \A i \in 1 .. Len(io_queue) : Is(io'[io_queue[i]], "acquire")
    BY <1>8, <2>1 DEF DiskInv, HoldOK
  <2>4. io_lock' # NoThread /\ Running(io'[io_lock']) /\ io'[io_lock'].op # "identify"
    BY <1>4, <1>5, <1>7, <1>8, DiskAssumption
  <2> QED
    BY <1>4, <2>2, <2>3, <2>4 DEF DiskInv, HoldOK
<1>13. \A u \in IoThread \ {t} : ~Running(io[u]) /\ io'[u] = io[u] /\ Proper(io[u])
  BY <1>8, <1>9 DEF DiskInv, DiskType
<1>14. \A u \in IoThread \ {t} : Kept(io[u])' /\ CommandOK(io[u])' /\ Exact(io[u])'
  BY <1>13, NotRunning DEF Kept, CommandOK, Exact
<1>15. Kept(io[t])' /\ CommandOK(io[t])'
  BY <1>6, <1>8 DEF Kept, CommandOK
<1>16. spurious' = 0 => Calmed /\ Calmed'
  BY <1>4, <1>9 DEF DiskInv, ChannelOK, Calmed, Calm, deviceVars
<1>17. spurious' = 0 => Exact(io[t])'
  BY <1>6, <1>8, <1>16 DEF Exact
<1>18. MediaOK' /\ disk_end' = "no"
  BY <1>4 DEF DiskInv, ChannelOK, MediaOK, deviceVars
<1>19. ChannelOK'
  BY <1>14, <1>15, <1>16, <1>17, <1>18 DEF ChannelOK
<1> QED
  BY <1>10, <1>11, <1>12, <1>14, <1>15, <1>18, <1>19 DEF DiskInv

(* A request waits for the lock. *)
LEMMA LineKeeps ==
    ASSUME DiskInv, disk_end = "no", NEW t \in IoThread, Acquire(t), io_lock # NoThread
    PROVE  DiskInv'
<1>1. /\ io_queue' = Append(io_queue, t) /\ io_lock' = io_lock /\ io' = io
      /\ \A i \in DOMAIN io_queue : io_queue[i] # t
      /\ Is(io[t], "acquire")
      /\ UNCHANGED <<deviceVars, expecting_interrupt, completion_wait, is_ata, probed, boot,
                     all_blocks, ios, late, stored, disk_end>>
  <2>1. io_lock = NoThread => FALSE
    OBVIOUS
  <2> QED
    BY <2>1 DEF Acquire, At, Is
<1>2. /\ io_queue \in Seq(IoThread) /\ io_queue' \in Seq(IoThread)
      /\ Len(io_queue') = Len(io_queue) + 1 /\ Len(io_queue) \in Nat
      /\ \A i \in 1 .. Len(io_queue) : io_queue'[i] = io_queue[i] /\ io_queue[i] # t
      /\ io_queue'[Len(io_queue) + 1] = t
  <2>1. io_queue \in Seq(IoThread)
    BY DEF DiskInv, DiskType
  <2> QED
    BY <1>1, <2>1
<1>3. DiskType'
  BY <1>1, <1>2 DEF DiskInv, DiskType, deviceVars
<1>4. BootOK'
  BY <1>1 DEF DiskInv, BootOK, Booting
<1>5. HoldOK'
  <2>1. \A i \in 1 .. Len(io_queue') : Is(io[io_queue'[i]], "acquire")
    BY <1>1, <1>2 DEF DiskInv, HoldOK
  <2>2. \A i, j \in 1 .. Len(io_queue) : io_queue[i] = io_queue[j] => i = j
    BY DEF DiskInv, HoldOK
  <2>3. \A i, j \in 1 .. Len(io_queue') : io_queue'[i] = io_queue'[j] => i = j
    BY <1>2, <2>2
  <2> QED
    BY <1>1, <2>1, <2>3 DEF DiskInv, HoldOK
<1>6. \A u \in IoThread : Kept(io[u])'
  BY <1>1 DEF DiskInv, Kept, deviceVars
<1>7. ChannelOK'
  BY <1>1 DEF DiskInv, ChannelOK, MediaOK, CommandOK, Exact, Owed, Calmed, Calm, Running, Is,
              deviceVars
<1> QED
  BY <1>1, <1>3, <1>4, <1>5, <1>6, <1>7 DEF DiskInv

(* A disk is registered with its partitions, or ignored. *)
LEMMA RegisterKeeps ==
    ASSUME DiskInv, disk_end = "no", NEW t \in IoThread, Register(t)
    PROVE  DiskInv'
<1>1. /\ Proper(io[t]) /\ Is(io[t], "register") /\ io[t].at > 0
      /\ (spurious = 0 => Calmed)
  BY DEF DiskInv, DiskType, ChannelOK, At, Is, Register, Exact
<1>2. Running(io[t]) /\ io[t].op = "identify"
  BY <1>1, OneStep, StepIs DEF Running
<1>3. PICK d : d = io[t].dev
  OBVIOUS
<1>4. d \in Dev
  BY <1>1, <1>3 DEF Proper, Requests
<1>5. disk_end' # "overlap"
  BY DEF Register
<1>6. ASSUME NEW b \in all_blocks'
      PROVE  b.dev \in Dev /\ b.start \in Nat /\ b.size \in Nat /\ b.start + b.size <= DiskSize
  <2>1. \/ b \in all_blocks
        \/ b = [dev |-> d, type |-> "raw", size |-> DiskSize, start |-> 0]
        \/ \E table \in Tables[d] : b \in read_partition_table(d, table)
    BY <1>3, <1>6 DEF Register
  <2>2. CASE b \in all_blocks
    BY <2>2 DEF DiskInv, DiskType
  <2>3. CASE b = [dev |-> d, type |-> "raw", size |-> DiskSize, start |-> 0]
    BY <1>4, <2>3, DiskAssumption
  <2>4. CASE \E table \in Tables[d] : b \in read_partition_table(d, table)
    BY <1>4, <2>4, TableInside
  <2> QED
    BY <2>1, <2>2, <2>3, <2>4
<1> QED
  BY <1>1, <1>2, <1>5, <1>6, ScanEnds DEF Register, deviceVars

(* A disk that does not answer is given up. *)
LEMMA GiveUpKeeps ==
    ASSUME DiskInv, disk_end = "no", NEW t \in IoThread, wait_while_busy(t), stage # "drq",
           io[t].op = "identify"
    PROVE  DiskInv'
<1>1. /\ Proper(io[t]) /\ Is(io[t], "check") /\ io[t].at > 0
      /\ (spurious = 0 => Exact(io[t])) /\ Rest
  BY DEF DiskInv, DiskType, ChannelOK, At, Is, wait_while_busy, Rest
<1>2. Running(io[t])
  BY <1>1, OneStep DEF Running
<1>3. spurious = 0 => Calmed
  BY <1>1 DEF Exact, Calmed, Rest
<1>4. \A b \in all_blocks : /\ b.dev \in Dev /\ b.start \in Nat /\ b.size \in Nat
                            /\ b.start + b.size <= DiskSize
  BY DEF DiskInv, DiskType
<1> QED
  BY <1>2, <1>3, <1>4, ScanEnds DEF wait_while_busy, deviceVars

(* The device is there, or the request panics, or the disk is given up. *)
LEMMA CheckKeeps ==
    ASSUME DiskInv, disk_end = "no", NEW t \in IoThread, wait_while_busy(t)
    PROVE  DiskInv'
<1>1. CASE stage = "drq"
  BY <1>1, ReadyKeeps
<1>2. CASE stage # "drq" /\ io[t].op # "identify"
  <2>1. ios \in Nat
    BY DEF DiskInv, DiskType
  <2> QED
    BY <1>2, <2>1, PanicKeeps DEF wait_while_busy, deviceVars
<1>3. CASE stage # "drq" /\ io[t].op = "identify"
  BY <1>3, GiveUpKeeps
<1> QED
  BY <1>1, <1>2, <1>3

-----------------------------------------------------------------------------
(* The devices are looked for once, before any request. *)
LEMMA ProbeKeeps ==
    ASSUME DiskInv, disk_end = "no", check_device_type
    PROVE  DiskInv'
<1>1. /\ ~probed /\ probed' = TRUE /\ boot' \in Seq(Dev)
      /\ UNCHANGED <<deviceVars, expecting_interrupt, completion_wait, io_lock, io_queue,
                     all_blocks, io, ios, late, stored, disk_end>>
  <2>1. <<>> \in Seq(Dev) /\ <<0>> \in Seq(Dev) /\ <<1>> \in Seq(Dev)
    BY DEF Dev
  <2>2. PICK p \in {<<>>, <<0>>}, s \in {<<>>, <<1>>} : boot' = p \o s
    BY DEF check_device_type
  <2>3. p \in Seq(Dev) /\ s \in Seq(Dev)
    BY <2>1
  <2>4. p \o s \in Seq(Dev)
    BY <2>3
  <2> QED
    BY <2>2, <2>4 DEF check_device_type
<1>2. \A u \in IoThread : io[u].op \notin {"read", "write", "identify"}
  BY <1>1 DEF DiskInv, BootOK, Booting
<1>3. DiskType'
  BY <1>1 DEF DiskInv, DiskType, deviceVars
<1>4. BootOK'
  BY <1>1, <1>2 DEF BootOK
<1>5. HoldOK'
  BY <1>1 DEF DiskInv, HoldOK, Running, Is
<1>6. \A u \in IoThread : Kept(io[u])'
  BY <1>1 DEF DiskInv, Kept, deviceVars
<1>7. ChannelOK'
  BY <1>1 DEF DiskInv, ChannelOK, MediaOK, CommandOK, Exact, Owed, Calmed, Calm, Running, Is,
              deviceVars
<1> QED
  BY <1>1, <1>3, <1>4, <1>5, <1>6, <1>7 DEF DiskInv, deviceVars

(* A request begins: the first step is neither after the lock nor, for a   *)
(* disk to be identified, while another request runs.                      *)
LEMMA BeginKeeps ==
    ASSUME DiskInv, disk_end = "no", disk_end' = "no", NEW t \in IoThread, io[t].at = 0,
           NEW r, Proper(r), r.at = 1, io' = [io EXCEPT ![t] = r],
           UNCHANGED <<deviceVars, expecting_interrupt, completion_wait, io_lock, io_queue,
                       is_ata, probed, boot, all_blocks, late, stored>>,
           ios' \in Nat,
           IF Booting THEN r.op = "identify" /\ t = Boot /\ probed
                      ELSE r.op \in {"read", "write"}
    PROVE  DiskInv'
<1>1. /\ DOMAIN io' = IoThread /\ io'[t] = r
      /\ \A u \in IoThread : u # t => io'[u] = io[u]
  BY DEF DiskInv, DiskType
<1>2. ~Is(io[t], "acquire") /\ ~Running(io[t]) /\ io[t].op \notin {"read", "write", "identify"}
  BY DEF DiskInv, DiskType, Proper, Is, Running
<1>3. DiskType'
  <2>1. \A u \in IoThread : Proper(io'[u])
    BY <1>1 DEF DiskInv, DiskType
  <2> QED
    BY <1>1, <2>1 DEF DiskInv, DiskType, deviceVars
<1>4. BootOK'
  BY <1>1 DEF DiskInv, BootOK, Booting
<1>5. IF r.op = "identify" THEN Is(r, "select") ELSE Is(r, "acquire")
  BY StepIs
<1>6. /\ ~Is(r, "issue") /\ ~Is(r, "check") /\ ~Is(r, "down") /\ ~Is(r, "release")
      /\ ~Is(r, "data") /\ ~Is(r, "register")
      /\ (r.op # "identify" => ~Running(r) /\ ~Is(r, "select"))
      /\ (r.op = "identify" => ~Is(r, "acquire"))
  BY <1>5, OneStep DEF Running
<1>7. HoldOK'
  <2>1. /\ io_queue \in Seq(IoThread)
        /\ \A i \in 1 .. Len(io_queue) : /\ io_queue[i] \in IoThread /\ io_queue[i] # t
                                         /\ Is(io'[io_queue[i]], "acquire")
    <3>1. io_queue \in Seq(IoThread) /\ io_lock \in IoThread \cup {NoThread}
      BY DEF DiskInv, DiskType
    <3>2. \A i \in 1 .. Len(io_queue) : Is(io[io_queue[i]], "acquire")
      BY DEF DiskInv, HoldOK
    <3> QED
      BY <1>1, <1>2, <3>1, <3>2
  <2>2. \A u \in IoThread : Running(io'[u]) /\ io'[u].op # "identify" => io_lock' = u
    BY <1>1, <1>6 DEF DiskInv, HoldOK
  <2>3. io_lock' # NoThread => Running(io'[io_lock']) /\ io'[io_lock'].op # "identify"
    BY <1>1, <1>2 DEF DiskInv, HoldOK, DiskType
  <2>4. \A u \in IoThread : Is(io[u], "acquire") => Is(io'[u], "acquire")
    BY <1>1, <1>2
  <2> QED
    BY <2>1, <2>2, <2>3, <2>4 DEF DiskInv, HoldOK
<1>8. \A u \in IoThread \ {t} : /\ io'[u] = io[u]
                                /\ Kept(io[u])' /\ CommandOK(io[u])'
                                /\ (spurious = 0 => Exact(io[u])')
  BY <1>1 DEF DiskInv, ChannelOK, Kept, CommandOK, Exact, Owed, Calmed, Calm, Is, deviceVars
<1>9. Kept(io[t])' /\ CommandOK(io[t])'
  BY <1>1, <1>6 DEF Kept, CommandOK
<1>10. ASSUME spurious = 0, r.op = "identify"
       PROVE  Calmed
  <2>1. \A u \in IoThread : io[u].op \notin {"read", "write"}
    BY <1>10 DEF DiskInv, BootOK
  <2>2. \A u \in IoThread : io[u].op # "identify"
    BY <1>2, <1>10 DEF DiskInv, BootOK
  <2>3. \A u \in IoThread : ~Running(io[u])
    BY <2>1, <2>2, StepIs DEF DiskInv, DiskType, Running, Proper
  <2> QED
    BY <1>10, <2>3 DEF DiskInv, ChannelOK
<1>11. spurious = 0 => Exact(io[t])'
  BY <1>1, <1>6, <1>10 DEF Exact, Calmed, Calm, deviceVars
<1>12. (\A u \in IoThread : ~Running(io'[u])) => \A u \in IoThread : ~Running(io[u])
  BY <1>1, <1>2
<1>13. ChannelOK'
  <2>1. MediaOK'
    BY DEF DiskInv, ChannelOK, MediaOK, deviceVars
  <2>2. spurious = 0 /\ (\A u \in IoThread : ~Running(io[u])) => Calmed'
    BY DEF DiskInv, ChannelOK, Calmed, Calm, deviceVars
  <2> QED
    BY <1>8, <1>9, <1>11, <1>12, <2>1, <2>2 DEF ChannelOK, deviceVars
<1> QED
  BY <1>3, <1>4, <1>7, <1>8, <1>9, <1>13 DEF DiskInv

(* The next disk is identified. *)
LEMMA IdentifyKeeps ==
    ASSUME DiskInv, disk_end = "no", identify_ata_device
    PROVE  DiskInv'
<1>1. PICK r : r = [NoRequest EXCEPT !.op = "identify", !.at = 1, !.dev = Head(boot)]
  OBVIOUS
<1>2. Boot \in IoThread
  BY DiskAssumption DEF Boot
<1>3. Head(boot) \in Dev
  BY DEF DiskInv, DiskType, identify_ata_device, Booting
<1>4. Proper(r) /\ r.at = 1 /\ r.op = "identify"
  <2>1. r = [op |-> "identify", at |-> 1, dev |-> Head(boot), sec |-> 0, val |-> 0]
    BY <1>1 DEF NoRequest
  <2>2. 0 \in 0 .. DiskSize - 1
    BY DiskAssumption
  <2>3. r \in Requests
    BY <1>3, <2>1, <2>2 DEF Requests
  <2> QED
    BY <2>1, <2>3 DEF Proper
<1>5. ios' \in Nat
  BY DEF DiskInv, DiskType, identify_ata_device
<1> QED
  BY <1>1, <1>2, <1>4, <1>5, BeginKeeps DEF identify_ata_device

(* A thread asks for a sector of a block device. *)
LEMMA RequestKeeps ==
    ASSUME DiskInv, disk_end = "no", NEW t \in IoThread, NEW b \in all_blocks,
           NEW s \in IoSectors, NEW op \in {"read", "write"}, block_request(t, b, s, op)
    PROVE  DiskInv'
<1>1. ios \in Nat /\ ios' = ios + 1
  BY DEF DiskInv, DiskType, block_request
<1>2. CASE check_sector(b, s, op)
  <2>1. PICK r : r = [op |-> op, at |-> 1, dev |-> b.dev, val |-> ios + 1,
                      sec |-> (b.start + s) % SectorModulus]
    OBVIOUS
  <2>2. b.dev \in Dev /\ b.start \in Nat /\ s \in Nat
    BY DiskAssumption DEF DiskInv, DiskType
  <2>3. (b.start + s) % SectorModulus \in 0 .. DiskSize - 1
    BY <1>2, <2>2, DiskAssumption DEF check_sector
  <2>4. r \in Requests
    BY <1>1, <2>1, <2>2, <2>3 DEF Requests
  <2>5. Proper(r) /\ r.at = 1 /\ r.op \in {"read", "write"}
    BY <2>1, <2>4 DEF Proper
  <2>6. /\ io' = [io EXCEPT ![t] = r] /\ disk_end' = "no"
        /\ ~Booting /\ io[t].at = 0
        /\ UNCHANGED <<deviceVars, expecting_interrupt, completion_wait, io_lock, io_queue,
                       is_ata, probed, boot, all_blocks, late, stored>>
    BY <1>2, <2>1 DEF block_request
  <2>7. ios' \in Nat
    BY <1>1
  <2> QED
    BY <2>5, <2>6, <2>7, BeginKeeps
<1>3. CASE ~check_sector(b, s, op)
  BY <1>1, <1>3, PanicKeeps DEF block_request, deviceVars
<1> QED
  BY <1>2, <1>3

-----------------------------------------------------------------------------
(* The disks are idle and nobody asks for anything. *)
LEMMA DiskStarts ==
    ASSUME DiskInit
    PROVE  DiskInv
<1>1. Proper(NoRequest) /\ NoRequest.op = "none" /\ ~Running(NoRequest)
      /\ NoRequest \in Requests /\ \A x : ~Is(NoRequest, x)
  <2>1. 0 \in 0 .. DiskSize - 1
    BY DiskAssumption
  <2>2. NoRequest \in Requests
    BY <2>1 DEF Requests, NoRequest, Dev
  <2> QED
    BY <2>2 DEF Proper, NoRequest, Running, Is
<1>2. /\ DOMAIN io = IoThread /\ \A t \in IoThread : io[t] = NoRequest
      /\ command = NoRequest /\ stage = "idle" /\ irq = FALSE /\ spurious = 0
      /\ expecting_interrupt = FALSE /\ completion_wait = 0
      /\ io_lock = NoThread /\ io_queue = <<>>
      /\ probed = FALSE /\ boot = <<>> /\ all_blocks = {}
      /\ ios = 0 /\ late = FALSE /\ stored = media /\ disk_end = "no"
  BY DEF DiskInit
<1>3. media \in Contents
  BY DEF DiskInit, Contents
<1>4. DiskType
  <2>1. io_queue \in Seq(IoThread) /\ boot \in Seq(Dev)
    BY <1>2
  <2>2. \A t \in IoThread : Proper(io[t])
    BY <1>1, <1>2
  <2>3. /\ command \in Requests /\ stored \in Contents
        /\ \A b \in all_blocks : /\ b.dev \in Dev /\ b.start \in Nat /\ b.size \in Nat
                                 /\ b.start + b.size <= DiskSize
    BY <1>1, <1>2, <1>3
  <2>4. /\ stage \in {"idle", "busy", "drq", "commit"}
        /\ completion_wait \in Nat /\ spurious \in Nat /\ ios \in Nat
        /\ irq \in BOOLEAN /\ expecting_interrupt \in BOOLEAN /\ late \in BOOLEAN
        /\ io_lock \in IoThread \cup {NoThread} /\ probed \in BOOLEAN
    BY <1>2
  <2> QED
    BY <1>2, <1>3, <2>1, <2>2, <2>3, <2>4 DEF DiskType
<1>5. BootOK /\ HoldOK
  BY <1>1, <1>2 DEF BootOK, HoldOK
<1>6. (\A t \in IoThread : Kept(io[t])) /\ ChannelOK
  <2>1. \A t \in IoThread : Kept(io[t]) /\ CommandOK(io[t]) /\ Exact(io[t])
    BY <1>1, <1>2 DEF Kept, CommandOK, Exact
  <2>2. MediaOK /\ Calmed
    BY <1>2 DEF MediaOK, Calmed, Calm
  <2> QED
    BY <2>1, <2>2 DEF ChannelOK
<1> QED
  BY <1>2, <1>4, <1>5, <1>6 DEF DiskInv

(* A thread takes a step of its request. *)
LEMMA IoStepKeeps ==
    ASSUME DiskInv, disk_end = "no", NEW t \in IoThread, IoStep(t)
    PROVE  DiskInv'
<1>1. CASE Register(t)
  BY <1>1, RegisterKeeps
<1>2. CASE Acquire(t)
  BY <1>2, TakeKeeps, LineKeeps
<1>3. CASE select_sector(t)
  BY <1>3, SelectKeeps
<1>4. CASE issue_pio_command(t)
  BY <1>4, IssueKeeps
<1>5. CASE Down(t)
  BY <1>5, WakeKeeps
<1>6. CASE wait_while_busy(t)
  BY <1>6, CheckKeeps
<1>7. CASE input_sector(t)
  BY <1>7, InputKeeps
<1>8. CASE output_sector(t)
  BY <1>8, OutputKeeps
<1>9. CASE Release(t)
  BY <1>9, ReleaseKeeps
<1> QED
  BY <1>1, <1>2, <1>3, <1>4, <1>5, <1>6, <1>7, <1>8, <1>9 DEF IoStep

(* Every step keeps the invariant. *)
LEMMA DiskKeeps ==
    ASSUME DiskInv, [DiskNext]_diskVars
    PROVE  DiskInv'
<1>1. CASE DiskNext
  <2>1. disk_end = "no"
    BY <1>1 DEF DiskNext
  <2>2. CASE check_device_type
    BY <2>1, <2>2, ProbeKeeps
  <2>3. CASE identify_ata_device
    BY <2>1, <2>3, IdentifyKeeps
  <2>4. ASSUME NEW t \in IoThread, IoStep(t)
        PROVE  DiskInv'
    BY <2>1, <2>4, IoStepKeeps
  <2>5. ASSUME NEW t \in IoThread, NEW b \in all_blocks, NEW s \in IoSectors,
               NEW op \in {"read", "write"}, block_request(t, b, s, op)
        PROVE  DiskInv'
    BY <2>1, <2>5, RequestKeeps
  <2>6. CASE interrupt_handler
    BY <2>1, <2>6, HandlerKeeps
  <2>7. CASE Commit /\ DriverFrame
    BY <2>1, <2>7, CommitKeeps
  <2>8. ASSUME NEW ok \in BOOLEAN, CommandReady(ok), DriverFrame
        PROVE  DiskInv'
    BY <2>1, <2>8, AnswerKeeps
  <2>9. CASE Spurious /\ DriverFrame
    BY <2>1, <2>9, SpuriousKeeps
  <2> QED
    BY <1>1, <2>2, <2>3, <2>4, <2>5, <2>6, <2>7, <2>8, <2>9 DEF DiskNext, DeviceAnswers
<1>2. CASE UNCHANGED diskVars
  <2>1. Rest'
    BY <1>2 DEF DiskInv, DiskType, Rest, diskVars
  <2>2. \A r : Proper(r) /\ (\E u \in IoThread : r = io[u]) => Kept(r)'
    BY <1>2 DEF DiskInv, Kept, diskVars
  <2>3. ASSUME disk_end = "no"
        PROVE  /\ MediaOK'
               /\ \A r : Proper(r) /\ (\E u \in IoThread : r = io[u]) =>
                     CommandOK(r)' /\ (spurious' = 0 => Exact(r)')
               /\ spurious' = 0 /\ (\A u \in IoThread : ~Running(io[u])) => Calmed'
    BY <1>2, <2>3 DEF DiskInv, ChannelOK, MediaOK, CommandOK, Exact, Owed, Calmed, Calm, diskVars
  <2>4. disk_end' = "overlap" => late'
    BY <1>2 DEF DiskInv, diskVars
  <2> QED
    BY <1>2, <2>1, <2>2, <2>3, <2>4, StaysPut DEF diskVars
<1> QED
  BY <1>1, <1>2

(* The invariant is strong enough. *)
LEMMA DiskInvExact ==
    ASSUME DiskInv
    PROVE  DiskExact
<1>1. \A t \in IoThread : \A step : At(t, step) <=> Is(io[t], step)
  BY DEF At, Is
<1>2. \A t \in IoThread : At(t, "release") =>
         /\ io[t].op = "read" => io[t].val = stored[io[t].dev][io[t].sec]
         /\ io[t].op = "write" /\ spurious = 0 => media[io[t].dev][io[t].sec] = io[t].val
  BY <1>1 DEF DiskInv, Kept
<1>3. NobodyHangs
  <2>1. ASSUME disk_end = "no", NEW t \in IoThread, At(t, "down"), completion_wait = 0
        PROVE  expecting_interrupt /\ (irq \/ stage \in {"busy", "commit"})
    <3>1. CommandOK(io[t]) /\ Is(io[t], "down")
      BY <1>1, <2>1 DEF DiskInv, ChannelOK
    <3> QED
      BY <2>1, <3>1 DEF CommandOK
  <2>2. ASSUME io_queue # <<>>, io_lock = NoThread
        PROVE  \E t \in IoThread : At(t, "acquire") /\ \A i \in DOMAIN io_queue : io_queue[i] # t
    <3>1. PICK t \in IoThread :
             Is(io[t], "acquire") /\ \A i \in 1 .. Len(io_queue) : io_queue[i] # t
      BY <2>2 DEF DiskInv, HoldOK
    <3>2. DOMAIN io_queue = 1 .. Len(io_queue)
      BY DEF DiskInv, DiskType
    <3> QED
      BY <1>1, <3>1, <3>2
  <2> QED
    BY <2>1, <2>2 DEF NobodyHangs
<1>4. (disk_end = "overlap" => late) /\ \A b \in all_blocks : b.start + b.size <= DiskSize
  BY DEF DiskInv, DiskType
<1> QED
  BY <1>2, <1>3, <1>4 DEF DiskExact

(* On any number of threads, disks and partition tables, with interrupts   *)
(* that no command caused, the requests of ide_read() and ide_write() are  *)
(* atomic, no command reaches a device at work unless the driver waited in *)
(* vain for it, no partition reaches past its disk, and whoever waits for  *)
(* an interrupt or for the channel will get it.                            *)
THEOREM DiskCorrect == DiskSpec => []DiskExact
<1>1. DiskInit => DiskInv
  BY DiskStarts
<1>2. DiskInv /\ [DiskNext]_diskVars => DiskInv'
  BY DiskKeeps
<1>3. DiskInv => DiskExact
  BY DiskInvExact
<1> QED
  BY <1>1, <1>2, <1>3, PTL DEF DiskSpec
=============================================================================
