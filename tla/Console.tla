------------------------------- MODULE Console -------------------------------
(***************************************************************************)
(* The console devices of Pintos (Lab 3, the same in Labs 1 and 2): the    *)
(* interrupt queues of intq.c, the input buffer of input.c, the serial     *)
(* port of serial.c and the keyboard of kbd.c.                             *)
(*                                                                         *)
(* Reader threads take bytes from the input buffer, which the serial       *)
(* interrupt and the keyboard interrupt fill; a thread writes bytes to the *)
(* transmit queue, which the serial interrupt empties.  The code runs with *)
(* interrupts off, so a step lasts until a thread blocks.  The UART is     *)
(* external: one byte received that waits to be read, and a transmitter.   *)
(***************************************************************************)
EXTENDS Integers, Sequences, FiniteSets

CONSTANTS
    Reader,            \* the threads that call input_getc()
    INTQ_BUFSIZE,      \* the slots of a queue, one of which stays empty (64)
    MaxKeys,           \* bound: keys pressed or released
    MaxReceived,       \* bound: bytes that arrive at the serial port
    MaxWritten,        \* bound: bytes that are written
    Nobody             \* NULL

ASSUME ConsoleAssumption ==
    INTQ_BUFSIZE \in Nat /\ INTQ_BUFSIZE >= 2 /\ Nobody \notin Reader

Shifts == {"left_shift", "right_shift"}

VARIABLES
    in_buf, not_empty,       \* the input buffer: its bytes and waiting thread
    in_lock, lock_queue,     \* its lock: 1 if free, and who waits for it
    reader,                  \* each reader: "out", "waiting", "woken" (by
                             \* signal), "queued" and "granted" (by the lock)
    txq, not_full,           \* the transmit queue: its bytes, waiting writer
    tx_byte,                 \* the byte the writer waits to put (0: none)
    ier,                     \* the UART's interrupt enable register
    rbr, arrived,            \* its receive buffer; how many bytes arrived
    mode,                    \* "POLL" until serial_init_queue(), then "QUEUE"
    shift_keys, caps_lock,   \* kbd.c: the shift keys held, caps lock
    keys,                    \* how many key events there were
    taken, got, sent, written,  \* observation: bytes accepted and read,
                                \* bytes sent and written
    console_panic            \* an assertion has failed

consoleVars == <<in_buf, not_empty, in_lock, lock_queue, reader, txq, not_full,
                 tx_byte, ier, rbr, arrived, mode, shift_keys, caps_lock, keys,
                 taken, got, sent, written, console_panic>>

(* init_poll() and input_init(): interrupts of the UART are off *)
ConsoleInit ==
    /\ in_buf = <<>> /\ not_empty = Nobody
    /\ in_lock = 1 /\ lock_queue = <<>>
    /\ reader = [r \in Reader |-> "out"]
    /\ txq = <<>> /\ not_full = FALSE /\ tx_byte = 0
    /\ ier = {} /\ rbr = 0 /\ arrived = 0 /\ mode = "POLL"
    /\ shift_keys = {} /\ caps_lock = FALSE /\ keys = 0
    /\ taken = <<>> /\ got = <<>> /\ sent = <<>> /\ written = <<>>
    /\ console_panic = FALSE

-----------------------------------------------------------------------------
intq_full(q) == Len(q) = INTQ_BUFSIZE - 1

(* variant: reception is never enabled again *)
IerNoReceive(tx, in) == IF tx = <<>> THEN {} ELSE {"XMIT"}

(* write_ier(), for the queues as the step leaves them *)
write_ier(tx, in) ==
    (IF tx = <<>> THEN {} ELSE {"XMIT"}) \cup (IF intq_full(in) THEN {} ELSE {"RECV"})

(* serial_notify() *)
Notify(tx, in) == ier' = IF mode = "QUEUE" THEN write_ier(tx, in) ELSE ier

(* signal(&not_empty): the waiting thread, if any, is unblocked *)
SignalReader(st) ==
    /\ reader' = IF not_empty = Nobody THEN st ELSE [st EXCEPT ![not_empty] = "woken"]
    /\ not_empty' = Nobody

(* intq_getc() with a byte there: it leaves the buffer; nobody waits for   *)
(* room in the input buffer, whose callers put only when it is not full    *)
TakeByte(r, st) ==
    /\ in_buf' = Tail(in_buf)
    /\ got' = Append(got, Head(in_buf))
    /\ reader' = [st EXCEPT ![r] = "out"]
    /\ UNCHANGED not_empty
    /\ Notify(txq, Tail(in_buf))

(* intq_getc() with the buffer empty and the lock free: wait(&not_empty) *)
WaitByte(r, st) ==
    /\ in_lock' = 0
    /\ not_empty' = r
    /\ reader' = [st EXCEPT ![r] = "waiting"]
    /\ UNCHANGED <<in_buf, got, ier>>

(* lock_acquire() of a lock that is taken *)
QueueForLock(r) ==
    /\ lock_queue' = Append(lock_queue, r)
    /\ reader' = [reader EXCEPT ![r] = "queued"]
    /\ UNCHANGED <<in_buf, not_empty, in_lock, got, ier>>

ReaderFrame == UNCHANGED <<txq, not_full, tx_byte, rbr, arrived, mode,
                           shift_keys, caps_lock, keys, taken, sent, written>>

(* input_getc() *)
input_getc(r) ==
    /\ reader[r] = "out"
    /\ \/ in_buf # <<>> /\ TakeByte(r, reader) /\ UNCHANGED <<in_lock, lock_queue>>
       \/ in_buf = <<>> /\ in_lock = 1 /\ WaitByte(r, reader) /\ UNCHANGED lock_queue
       \/ in_buf = <<>> /\ in_lock = 0 /\ QueueForLock(r)
    /\ UNCHANGED console_panic
    /\ ReaderFrame

(* back from wait(): lock_release(), which lets the next thread of the     *)
(* lock's queue try again, and the loop                                    *)
Resume(r) ==
    /\ reader[r] = "woken"
    /\ LET st == IF lock_queue = <<>> THEN reader
                 ELSE [reader EXCEPT ![Head(lock_queue)] = "granted"]
       IN IF in_buf # <<>> THEN TakeByte(r, st) /\ in_lock' = 1
                           ELSE WaitByte(r, st)
    /\ lock_queue' = IF lock_queue = <<>> THEN <<>> ELSE Tail(lock_queue)
    /\ UNCHANGED console_panic
    /\ ReaderFrame

(* back in lock_acquire(): with the lock the thread calls wait(), which    *)
(* asserts that the buffer is (still) empty                                *)
Granted(r) ==
    /\ reader[r] = "granted"
    /\ \/ in_lock = 0 /\ QueueForLock(r) /\ UNCHANGED console_panic
       \/ in_lock = 1 /\ in_buf = <<>> /\ WaitByte(r, reader)
          /\ UNCHANGED <<lock_queue, console_panic>>
       \/ in_lock = 1 /\ in_buf # <<>> /\ console_panic' = TRUE
          /\ UNCHANGED <<in_buf, not_empty, in_lock, lock_queue, reader, got, ier>>
    /\ ReaderFrame

-----------------------------------------------------------------------------
(* the number of the next byte to write; one may be waiting for room *)
NextByte == Len(written) + IF tx_byte = 0 THEN 1 ELSE 2

(* intq_putc() with room, and write_ier() *)
Enqueue(b) ==
    /\ txq' = Append(txq, b)
    /\ written' = Append(written, b)
    /\ ier' = write_ier(txq', in_buf)

WriterFrame == UNCHANGED <<in_buf, not_empty, in_lock, lock_queue, reader, rbr, arrived, mode,
                           shift_keys, caps_lock, keys, taken, got, console_panic>>

(* serial_putc() in queue mode by the thread that has the console lock:    *)
(* with the queue full it waits for room (its interrupts are on)           *)
serial_putc ==
    /\ mode = "QUEUE" /\ tx_byte = 0 /\ NextByte <= MaxWritten
    /\ \/ ~intq_full(txq) /\ Enqueue(NextByte) /\ UNCHANGED <<not_full, tx_byte>>
       \/ /\ intq_full(txq)
          /\ not_full' = TRUE /\ tx_byte' = NextByte
          /\ UNCHANGED <<txq, written, ier>>
    /\ UNCHANGED sent
    /\ WriterFrame

(* the writer goes on after signal(&not_full); an interrupt handler may    *)
(* have taken the room                                                     *)
PutWaiting ==
    /\ tx_byte # 0 /\ ~not_full
    /\ \/ ~intq_full(txq) /\ Enqueue(tx_byte) /\ tx_byte' = 0 /\ UNCHANGED not_full
       \/ intq_full(txq) /\ not_full' = TRUE /\ UNCHANGED <<txq, written, tx_byte, ier>>
    /\ UNCHANGED sent
    /\ WriterFrame

(* serial_putc() with interrupts off: before queue mode the byte is polled *)
(* out; in queue mode the oldest one is if there is no room                *)
PutPolled ==
    /\ NextByte <= MaxWritten
    /\ \/ /\ mode = "POLL"
          /\ sent' = Append(sent, NextByte) /\ written' = Append(written, NextByte)
          /\ UNCHANGED <<txq, not_full, ier>>
       \/ /\ mode = "QUEUE" /\ intq_full(txq)
          /\ sent' = Append(sent, Head(txq))
          /\ txq' = Append(Tail(txq), NextByte)
          /\ written' = Append(written, NextByte)
          /\ not_full' = FALSE
          /\ ier' = write_ier(txq', in_buf)
       \/ /\ mode = "QUEUE" /\ ~intq_full(txq)
          /\ Enqueue(NextByte)
          /\ UNCHANGED <<sent, not_full>>
    /\ UNCHANGED tx_byte
    /\ WriterFrame

(* serial_flush(): everything queued is polled out *)
serial_flush ==
    /\ txq # <<>>
    /\ sent' = sent \o txq
    /\ txq' = <<>>
    /\ not_full' = FALSE
    /\ UNCHANGED <<in_buf, not_empty, in_lock, lock_queue, reader, tx_byte, ier, rbr, arrived,
                   mode, shift_keys, caps_lock, keys, taken, got, written, console_panic>>

(* serial_init_queue() *)
serial_init_queue ==
    /\ mode = "POLL"
    /\ mode' = "QUEUE"
    /\ ier' = write_ier(txq, in_buf)
    /\ UNCHANGED <<in_buf, not_empty, in_lock, lock_queue, reader, txq, not_full, tx_byte, rbr,
                   arrived, shift_keys, caps_lock, keys, taken, got, sent, written, console_panic>>

(* external: a byte arrives at the UART (a byte not yet read is overrun) *)
ByteArrives ==
    /\ arrived < MaxReceived
    /\ arrived' = arrived + 1
    /\ rbr' = arrived + 1
    /\ UNCHANGED <<in_buf, not_empty, in_lock, lock_queue, reader, txq, not_full, tx_byte, ier,
                   mode, shift_keys, caps_lock, keys, taken, got, sent, written, console_panic>>

(* serial_interrupt(), when the UART has an enabled cause: a received byte *)
(* is taken if there is room, a byte is sent if the transmitter is free    *)
(* (ready, the hardware's choice), and the interrupts are armed again      *)
serial_interrupt(ready) ==
    /\ (rbr # 0 /\ "RECV" \in ier) \/ (ready /\ "XMIT" \in ier)
    /\ LET receive == rbr # 0 /\ ~intq_full(in_buf)
           send == ready /\ txq # <<>>
           in == IF receive THEN Append(in_buf, rbr) ELSE in_buf
           tx == IF send THEN Tail(txq) ELSE txq
       IN /\ in_buf' = in /\ txq' = tx
          /\ taken' = IF receive THEN Append(taken, rbr) ELSE taken
          /\ rbr' = IF receive THEN 0 ELSE rbr
          /\ IF receive THEN SignalReader(reader) ELSE UNCHANGED <<reader, not_empty>>
          /\ sent' = IF send THEN Append(sent, Head(txq)) ELSE sent
          /\ not_full' = (not_full /\ ~send)
          /\ ier' = write_ier(tx, in)
    /\ UNCHANGED <<in_lock, lock_queue, tx_byte, arrived, mode, shift_keys, caps_lock, keys,
                   got, written, console_panic>>

(* keyboard_interrupt() for a character key: the letter, in the case that  *)
(* the shift keys and caps lock give it, is dropped if there is no room    *)
KeyPressed ==
    /\ keys < MaxKeys
    /\ keys' = keys + 1
    /\ LET c == IF (shift_keys # {}) = caps_lock THEN 97 ELSE 65 IN   \* "a", "A"
       IF intq_full(in_buf)
       THEN UNCHANGED <<in_buf, taken, reader, not_empty, ier>>
       ELSE /\ in_buf' = Append(in_buf, c)
            /\ taken' = Append(taken, c)
            /\ SignalReader(reader)
            /\ Notify(txq, in_buf')
    /\ UNCHANGED <<in_lock, lock_queue, txq, not_full, tx_byte, rbr, arrived, mode, shift_keys,
                   caps_lock, got, sent, written, console_panic>>

(* keyboard_interrupt() for a shift key (pressed or released) or caps lock *)
ModifierKey ==
    /\ keys < MaxKeys
    /\ keys' = keys + 1
    /\ \/ \E k \in Shifts : /\ shift_keys' \in {shift_keys \cup {k}, shift_keys \ {k}}
                            /\ UNCHANGED caps_lock
       \/ caps_lock' = ~caps_lock /\ UNCHANGED shift_keys
    /\ UNCHANGED <<in_buf, not_empty, in_lock, lock_queue, reader, txq, not_full, tx_byte, ier, rbr,
                   arrived, mode, taken, got, sent, written, console_panic>>

ConsoleNext ==
    /\ ~console_panic
    /\ \/ \E r \in Reader : input_getc(r) \/ Resume(r) \/ Granted(r)
       \/ serial_putc \/ PutWaiting \/ PutPolled \/ serial_flush \/ serial_init_queue
       \/ ByteArrives \/ \E b \in BOOLEAN : serial_interrupt(b)
       \/ KeyPressed \/ ModifierKey

-----------------------------------------------------------------------------
(***************************************************************************)
(* The queues neither lose, repeat nor reorder bytes, whoever waits on     *)
(* them: what was accepted is what the readers got and then what is in the *)
(* buffer; what was put is what was sent and then what is queued, and a    *)
(* byte whose writer waits for room is put once, also when an interrupt    *)
(* handler writes before it.                                               *)
(*                                                                         *)
(* Nothing sleeps through its event.  In queue mode reception is enabled   *)
(* whenever there is room for a byte and transmission whenever there is    *)
(* one to send, also after the keyboard filled the buffer or a reader      *)
(* emptied it; a reader is recorded as waiting only while the buffer is    *)
(* empty and it is blocked, and the writer only while the queue is full;   *)
(* and the lock that a waiting reader holds is free when nobody waits.     *)
(* (A second reader may end in an assertion instead: ReadersSleep.)        *)
(***************************************************************************)
ConsoleExact ==
    /\ taken = got \o in_buf
    /\ written = sent \o txq
    /\ \A b \in 1 .. NextByte - 1 :
          Cardinality({i \in DOMAIN written : written[i] = b}) = IF b = tx_byte THEN 0 ELSE 1
    /\ mode = "QUEUE" => /\ "RECV" \in ier <=> ~intq_full(in_buf)
                         /\ txq # <<>> => "XMIT" \in ier
    /\ not_empty # Nobody => in_buf = <<>> /\ reader[not_empty] = "waiting"
    /\ \A r \in Reader : reader[r] = "waiting" => not_empty = r
    /\ not_full => intq_full(txq)
    /\ in_lock = 1 => \A r \in Reader : reader[r] \notin {"waiting", "woken"}

(***************************************************************************)
(* "Removes a byte from Q and returns it. If Q is empty, sleeps until a    *)
(* byte is added.": a reader is not stopped by an assertion.  Violated     *)
(* with two readers: the second one tests the queue before it asks for the *)
(* lock, and wait() asserts that the queue is still empty after.           *)
(***************************************************************************)
ReadersSleep == ~console_panic
=============================================================================
