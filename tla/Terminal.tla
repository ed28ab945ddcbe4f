------------------------------ MODULE Terminal ------------------------------
(***************************************************************************)
(* The kernel's character devices: the interrupt queues of devices/intq.c, *)
(* the input buffer and the serial port built on them, the keyboard and    *)
(* the console lock of lib/kernel/console.c.                               *)
(*                                                                         *)
(* Threads call putbuf() or input_getc(); the serial port and the keyboard *)
(* interrupt them.  One CPU: code that runs with interrupts off is one     *)
(* step, and a step ends where the code blocks or turns interrupts on.     *)
(* A thread's pc says what it does when it next runs: "start" the loop of  *)
(* intq_getc or intq_putc, "woken" inside wait(), "lock woken" inside      *)
(* lock_acquire(); "wait", "lock" and "console" are blocked threads.       *)
(***************************************************************************)
EXTENDS Integers, Sequences, SequencesExt, FiniteSets

CONSTANTS Readers,   \* threads that call input_getc()
          Writers,   \* threads that call putbuf()
          None,      \* the null thread pointer
          BufSize,   \* INTQ_BUFSIZE, at least 2
          Loads      \* the workloads, records of
                     \*   readers the threads that read: one, or several at once
                     \*   line    characters a writer passes to putbuf()
                     \*   rx      bytes the other end of the serial line sends
                     \*   prints  characters printed by interrupt handlers
                     \*   events  key events, of the keys in the set keys
                     \* Readers call input_getc() for ever.

VARIABLES buffer,    \* the input buffer of input.c
          txq,       \* the transmit queue of serial.c
          ier,       \* the UART's interrupt enable register
          console,   \* console_lock: its holder and the threads waiting
          th,        \* per thread: pc and how many characters it has done
          kbd,       \* shift_keys' variables that are true, and caps_lock
          keys,      \* the keyboard itself: keys held down, caps lock lamp
          sent,      \* what has gone out of the serial port
          rx,        \* bytes that have come in on the serial line
          put, got,  \* characters put into txq, taken out of buffer
          typed,     \* characters that were to reach the input buffer
          count,     \* key events and handler prints so far
          power,     \* "on", "flushed" or "off"
          panic,     \* an ASSERT has failed
          load       \* the workload

vars == <<buffer, txq, ier, console, th, kbd, keys, sent, rx, put, got, typed,
          count, power, panic, load>>

-----------------------------------------------------------------------------
(* intq.c.  A queue is a record; the thread pointers and the lock are its  *)
(* own.  An operation works on s = [q, th] and returns the new pair.       *)

intq_init == [buf |-> [i \in 0..BufSize - 1 |-> [line |-> 0]], head |-> 0, tail |-> 0,
              lock |-> None, lock_q |-> <<>>, not_full |-> None, not_empty |-> None]

next_pos(pos) == (pos + 1) % BufSize

intq_empty(q) == q.head = q.tail

intq_full(q) == next_pos(q.head) = q.tail

SetPc(T, t, pc) == IF t = None THEN T ELSE [T EXCEPT ![t].pc = pc]

\* The loop's exit in intq_getc: take a byte and signal not_full.
TakeByte(s) ==
  [q  |-> [s.q EXCEPT !.tail = next_pos(@), !.not_full = None],
   th |-> SetPc(s.th, s.q.not_full, "woken")]

NextByte(q) == q.buf[q.tail]

\* The loop's exit in intq_putc: store the byte and signal not_empty.
StoreByte(s, b) ==
  [q  |-> [s.q EXCEPT !.buf[s.q.head] = b, !.head = next_pos(@), !.not_empty = None],
   th |-> SetPc(s.th, s.q.not_empty, "woken")]

\* lock_acquire: take the lock, or join its waiters and block.
AcquireAndWait(s, t, waiter) ==
  IF s.q.lock = None
  THEN [q  |-> [s.q EXCEPT !.lock = t, ![waiter] = t], th |-> SetPc(s.th, t, "wait")]
  ELSE [q  |-> [s.q EXCEPT !.lock_q = Append(@, t)], th |-> SetPc(s.th, t, "lock")]

\* lock_release by the thread that comes back from wait().
ReleaseLock(s) ==
  IF s.q.lock_q = <<>>
  THEN [s EXCEPT !.q.lock = None]
  ELSE [q  |-> [s.q EXCEPT !.lock = None, !.lock_q = Tail(@)],
        th |-> SetPc(s.th, Head(s.q.lock_q), "lock woken")]

\* Mutant of LoopEntry: intq_putc and intq_getc test their condition only
\* once, so a thread that wait() returns to goes on without looking again.
LoopEntryOnce(s, t, blocked) ==
  CASE s.th[t].pc = "start"      -> [s |-> s, go |-> ~blocked, assert |-> FALSE]
    [] s.th[t].pc = "woken"      -> [s |-> ReleaseLock(s), go |-> TRUE, assert |-> FALSE]
    [] s.th[t].pc = "lock woken" -> [s |-> s, go |-> FALSE,
                                     assert |-> s.q.lock = None /\ ~blocked]

\* What the while loop of intq_getc and intq_putc finds when thread t runs, its
\* condition being blocked: whether it leaves the loop, and whether the ASSERT in
\* wait() fails because the condition changed while t was waiting for the lock.
LoopEntry(s, t, blocked) ==
  CASE s.th[t].pc = "start"      -> [s |-> s, go |-> ~blocked, assert |-> FALSE]
    [] s.th[t].pc = "woken"      -> [s |-> ReleaseLock(s), go |-> ~blocked,
                                     assert |-> FALSE]
    [] s.th[t].pc = "lock woken" -> [s |-> s, go |-> FALSE,
                                     assert |-> s.q.lock = None /\ ~blocked]

Running(t) == th[t].pc \in {"start", "woken", "lock woken"}

-----------------------------------------------------------------------------
(* serial.c                                                                *)

write_ier(in, tx) == [xmit |-> ~intq_empty(tx), recv |-> ~intq_full(in)]

\* putc_poll waits for the holding register; the byte then goes out.
putc_poll(b) == Append(sent, b)

\* Mutant of serial_putc: the register is not rewritten after the byte is queued.
serial_putc_quiet(t, b) ==
  LET e == LoopEntry([q |-> txq, th |-> th], t, intq_full(txq))
      s == IF e.go THEN StoreByte(e.s, b) ELSE AcquireAndWait(e.s, t, "not_full")
  IN  /\ panic' = e.assert
      /\ txq' = s.q
      /\ th' = IF e.go THEN [s.th EXCEPT ![t].pc = "start", ![t].done = @ + 1] ELSE s.th
      /\ put' = IF e.go THEN Append(put, b) ELSE put
      /\ ier' = ier

\* serial_putc called by a thread with interrupts on.
serial_putc(t, b) ==
  LET e == LoopEntry([q |-> txq, th |-> th], t, intq_full(txq))
      s == IF e.go THEN StoreByte(e.s, b) ELSE AcquireAndWait(e.s, t, "not_full")
  IN  /\ panic' = e.assert
      /\ txq' = s.q
      /\ th' = IF e.go THEN [s.th EXCEPT ![t].pc = "start", ![t].done = @ + 1] ELSE s.th
      /\ put' = IF e.go THEN Append(put, b) ELSE put
      /\ ier' = IF e.go THEN write_ier(buffer, txq') ELSE ier

\* serial_putc with interrupts off, as printf in an interrupt handler calls it:
\* it never blocks, and polls one byte out when the queue is full.
serial_putc_off(b) ==
  LET full == intq_full(txq)
      room == IF full THEN TakeByte([q |-> txq, th |-> th]) ELSE [q |-> txq, th |-> th]
      s == StoreByte(room, b)
  IN  /\ sent' = IF full THEN putc_poll(NextByte(txq)) ELSE sent
      /\ txq' = s.q /\ th' = s.th
      /\ put' = Append(put, b)
      /\ ier' = write_ier(buffer, txq')

\* The bytes of a queue, oldest first.
Contents(q) == [i \in 1..(q.head - q.tail) % BufSize |-> q.buf[(q.tail + i - 1) % BufSize]]

\* serial_flush, the last thing shutdown_power_off does before the machine
\* goes off.  Interrupts are on again between the two.
serial_flush ==
  /\ power = "on" /\ \E t \in Writers : th[t].pc = "exit"
  /\ sent' = sent \o Contents(txq)
  /\ txq' = [txq EXCEPT !.tail = txq.head, !.not_full = None]
  /\ th' = IF intq_empty(txq) THEN th ELSE SetPc(th, txq.not_full, "woken")
  /\ power' = "flushed"
  /\ UNCHANGED <<buffer, ier, console, kbd, keys, rx, put, got, typed, count, panic>>

shutdown_power_off ==
  /\ power = "flushed" /\ power' = "off"
  /\ UNCHANGED <<buffer, txq, ier, console, th, kbd, keys, sent, rx, put, got, typed,
                 count, panic>>

\* The receiving half of serial_interrupt.  The handler takes as many bytes as
\* the UART has ready and there is room for; without its FIFO the UART holds
\* one, and a handler that finds another is the same as one interrupted again.
serial_receive ==
  /\ power # "off" /\ ier.recv /\ rx < load.rx
  /\ ~intq_full(buffer)
  /\ rx' = rx + 1
  /\ LET s == StoreByte([q |-> buffer, th |-> th], [line |-> rx + 1])
     IN  buffer' = s.q /\ th' = s.th
  /\ typed' = Append(typed, [line |-> rx + 1])
  /\ ier' = write_ier(buffer', txq)
  /\ UNCHANGED <<txq, console, kbd, keys, sent, put, got, count, power, panic>>

\* The transmitting half: an interrupt whose cause serial_flush has removed
\* finds the queue empty and only rewrites the register.
serial_transmit ==
  /\ power # "off" /\ ier.xmit
  /\ IF intq_empty(txq)
     THEN UNCHANGED <<txq, th, sent>>
     ELSE LET s == TakeByte([q |-> txq, th |-> th])
          IN  txq' = s.q /\ th' = s.th /\ sent' = putc_poll(NextByte(txq))
  /\ ier' = write_ier(buffer, txq')
  /\ UNCHANGED <<buffer, console, kbd, keys, rx, put, got, typed, count, power, panic>>

-----------------------------------------------------------------------------
(* input.c                                                                 *)

input_getc(t) ==
  /\ power # "off" /\ Running(t)
  /\ LET e == LoopEntry([q |-> buffer, th |-> th], t, intq_empty(buffer))
         s == IF e.go THEN TakeByte(e.s) ELSE AcquireAndWait(e.s, t, "not_empty")
     IN  /\ panic' = e.assert
         /\ buffer' = s.q
         /\ th' = IF e.go THEN [s.th EXCEPT ![t].pc = "start"] ELSE s.th
         /\ got' = IF e.go THEN Append(got, NextByte(buffer)) ELSE got
         /\ ier' = IF e.go THEN write_ier(buffer', txq) ELSE ier
  /\ UNCHANGED <<txq, console, kbd, keys, sent, rx, put, typed, count, power>>

-----------------------------------------------------------------------------
(* console.c.  A writer calls putbuf() once and then exits.                *)

acquire_console(t) ==
  /\ power # "off" /\ th[t].pc \in {"begin", "console woken"}
  /\ IF console.holder = None
     THEN console' = [console EXCEPT !.holder = t] /\ th' = SetPc(th, t, "start")
     ELSE console' = [console EXCEPT !.waiters = Append(@, t)] /\ th' = SetPc(th, t, "console")
  /\ UNCHANGED <<buffer, txq, ier, kbd, keys, sent, rx, put, got, typed, count, power, panic>>

\* putchar_have_lock for the next character of the buffer.
putchar_have_lock(t) ==
  /\ power # "off" /\ Running(t) /\ th[t].done < load.line
  /\ serial_putc(t, [by |-> t, n |-> th[t].done + 1])
  /\ UNCHANGED <<buffer, console, kbd, keys, sent, rx, got, typed, count, power>>

release_console(t) ==
  /\ power # "off" /\ th[t].pc = "start" /\ th[t].done = load.line
  /\ console' = [holder |-> None,
                 waiters |-> IF console.waiters = <<>> THEN <<>> ELSE Tail(console.waiters)]
  /\ th' = LET w == IF console.waiters = <<>> THEN None ELSE Head(console.waiters)
           IN  SetPc(SetPc(th, t, "exit"), w, "console woken")
  /\ UNCHANGED <<buffer, txq, ier, kbd, keys, sent, rx, put, got, typed, count, power, panic>>

\* putchar in an interrupt handler: acquire_console does nothing there.
putchar_intr ==
  /\ power # "off" /\ count.prints < load.prints
  /\ count' = [count EXCEPT !.prints = @ + 1]
  /\ serial_putc_off([intr |-> count.prints + 1])
  /\ UNCHANGED <<buffer, console, kbd, keys, rx, got, typed, power, panic>>

-----------------------------------------------------------------------------
(* kbd.c, with one row of each keymap.  A scancode is the number the code  *)
(* has in `code' once the release bit is cleared.                          *)

Row(first, chars) == [first |-> first, chars |-> chars]
invariant_keymap == {Row(30, <<65, 83>>), Row(83, <<127>>)}     \* "AS", Delete
unshifted_keymap == {Row(2, <<49, 50>>)}                        \* "12"
shifted_keymap == {Row(2, <<33, 64>>)}                          \* "!@"

\* The characters the keymap has for the scancode: one or none.
map_key(k, scancode) ==
  {r.chars[scancode - r.first + 1] :
     r \in {x \in k : scancode >= x.first /\ scancode < x.first + Len(x.chars)}}

CapsLock == 58
LeftShift == 42
RightShift == 54
Alt == {56, 57400}                 \* 0x38, 0xe038
Ctrl == {29, 57373}                \* 0x1d, 0xe01d
shift_keys == {LeftShift, RightShift} \cup Alt \cup Ctrl

tolower(c) == IF c \in 65..90 THEN c + 32 ELSE c

\* The character a key stands for, given the code's view of the shift keys.
KeyChar(c, shift, alt, ctrl, caps) ==
  LET d == IF ctrl /\ c >= 64 /\ c < 96 THEN c - 64
           ELSE IF shift = caps THEN tolower(c) ELSE c
  IN  IF alt THEN d + 128 ELSE d

\* A shift key's variable becomes false when that key is released.
ShiftUp(down, code) == down \ {code}

\* What the typist means by pressing the key, from the keys they hold down:
\* Ctrl makes a control character of a letter, else Shift and Caps Lock, one
\* of the two, make a capital, and Alt sets the high bit.
Meant(code) ==
  LET held(S) == keys.held \cap S # {}
      shifted == held({LeftShift, RightShift})
      letter == code \in {30, 31}
      base == CASE code = 30 -> 97 [] code = 31 -> 115 [] code = 83 -> 127
                [] code = 2 -> (IF shifted THEN 33 ELSE 49)
                [] code = 3 -> (IF shifted THEN (IF held(Ctrl) THEN 0 ELSE 64) ELSE 50)
      cased == IF letter /\ held(Ctrl) THEN base - 96
               ELSE IF letter /\ shifted # keys.lamp THEN base - 32 ELSE base
  IN  [key |-> IF held(Alt) THEN cased + 128 ELSE cased]

\* The typist presses a key that is up or lets go of one that is down.
keyboard_interrupt(code, release) ==
  /\ power # "off" /\ count.keys < load.events
  /\ release = (code \in keys.held)
  /\ count' = [count EXCEPT !.keys = @ + 1]
  /\ keys' = [held |-> IF release THEN keys.held \ {code} ELSE keys.held \cup {code},
              lamp |-> IF code = CapsLock /\ ~release THEN ~keys.lamp ELSE keys.lamp]
  /\ LET shift == kbd.down \cap {LeftShift, RightShift} # {}
         alt == kbd.down \cap Alt # {}
         ctrl == kbd.down \cap Ctrl # {}
         chars == map_key(invariant_keymap, code)
                    \cup map_key(IF shift THEN shifted_keymap ELSE unshifted_keymap, code)
         char == CHOOSE c \in chars : TRUE
         stored == ~release /\ chars # {} /\ ~intq_full(buffer)
         s == StoreByte([q |-> buffer, th |-> th],
                        [key |-> KeyChar(char, shift, alt, ctrl, kbd.caps)])
         reboot == ~release /\ chars = {127} /\ ctrl /\ alt
     IN  /\ kbd' = IF code = CapsLock THEN [kbd EXCEPT !.caps = IF release THEN @ ELSE ~@]
                   ELSE IF chars # {} \/ code \notin shift_keys THEN kbd
                   ELSE [kbd EXCEPT !.down = IF release THEN ShiftUp(@, code) ELSE @ \cup {code}]
         /\ power' = IF reboot THEN "off" ELSE power
         /\ IF stored /\ ~reboot
            THEN /\ buffer' = s.q /\ th' = s.th
                 /\ typed' = Append(typed, Meant(code))
                 /\ ier' = write_ier(buffer', txq)
            ELSE UNCHANGED <<buffer, th, typed, ier>>
  /\ UNCHANGED <<txq, console, sent, rx, put, got, panic>>

-----------------------------------------------------------------------------
\* input_init, serial_init_queue, console_init.
Init ==
  /\ buffer = intq_init /\ txq = intq_init
  /\ ier = [xmit |-> FALSE, recv |-> TRUE]
  /\ console = [holder |-> None, waiters |-> <<>>]
  /\ load \in Loads
  /\ th = [t \in Readers \cup Writers |->
             [pc |-> CASE t \in load.readers -> "start"
                       [] t \in Writers /\ load.line > 0 -> "begin"
                       [] OTHER -> "exit",
              done |-> 0]]
  /\ kbd = [down |-> {}, caps |-> FALSE] /\ keys = [held |-> {}, lamp |-> FALSE]
  /\ sent = <<>> /\ rx = 0 /\ put = <<>> /\ got = <<>> /\ typed = <<>>
  /\ count = [keys |-> 0, prints |-> 0] /\ power = "on" /\ panic = FALSE

ThreadStep ==
  \/ \E t \in Readers : input_getc(t)
  \/ \E t \in Writers : acquire_console(t) \/ putchar_have_lock(t) \/ release_console(t)

DeviceStep ==
  \/ serial_receive \/ serial_transmit
  \/ \E code \in load.keys, release \in BOOLEAN : keyboard_interrupt(code, release)

Next ==
  /\ ~panic /\ UNCHANGED load
  /\ ThreadStep \/ DeviceStep \/ putchar_intr \/ serial_flush \/ shutdown_power_off

\* Every ready thread runs again (round robin), the UART keeps transmitting and
\* keeps interrupting while its interrupt is enabled.  Keys and power-off are free.
Fairness ==
  /\ \A t \in Readers : WF_vars(~panic /\ UNCHANGED load /\ input_getc(t))
  /\ \A t \in Writers : /\ WF_vars(~panic /\ UNCHANGED load /\ acquire_console(t))
                        /\ WF_vars(~panic /\ UNCHANGED load /\ putchar_have_lock(t))
                        /\ WF_vars(~panic /\ UNCHANGED load /\ release_console(t))
  /\ WF_vars(~panic /\ UNCHANGED load /\ serial_receive) /\ WF_vars(~panic /\ UNCHANGED load /\ serial_transmit)

TermSpec == Init /\ [][Next]_vars /\ Fairness

-----------------------------------------------------------------------------
\* Characters come out of the queues as they went in: what the readers of
\* input_getc() got and the buffer still holds is what the typist meant and the
\* line delivered, in order, each once; what left the serial port and txq still
\* holds is what was put, in order, each once; between the characters of one
\* putbuf() no other thread's character is put; and the ASSERT in wait()
\* (intq.c:91) fails only if several threads read at once (the second is handed
\* the lock by the first after a byte has come in), never for the writers, whom
\* the console lock keeps apart although interrupt handlers print without it.
CharactersInOrder ==
  /\ typed = got \o Contents(buffer)
  /\ put = sent \o Contents(txq)
  /\ LET text == SelectSeq(put, LAMBDA c : "by" \in DOMAIN c)
     IN  \A i \in 1..Len(text) - 1 :
           text[i].n < load.line => text[i + 1] = [text[i] EXCEPT !.n = @ + 1]
  /\ panic => Cardinality(load.readers) > 1

\* All output is sent and all input read, or the machine has stopped.
TerminalDone ==
  \/ power = "off" \/ panic
  \/ /\ \A t \in Writers : th[t].pc = "exit"
     /\ intq_empty(txq)
     /\ rx = load.rx /\ intq_empty(buffer)

\* Unless the machine goes off or panics every putbuf() returns and all it put is
\* sent, and every byte on the serial line is received and read: no wakeup of a
\* queue is lost and the interrupt enable register never stays off while there is
\* something to send or room to receive.
TerminalProgress == <>TerminalDone
=============================================================================
