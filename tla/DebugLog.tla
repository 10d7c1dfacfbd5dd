--------------------------------- MODULE DebugLog ---------------------------------
(***************************************************************************)
(* The debug log of the Pico firmware (hal_pico.cpp): core 0 puts events    *)
(* into log_queue, core 1 formats them and writes them to the UART.         *)
(*                                                                         *)
(* Core 0 never waits for the UART.  An event that finds the queue full is  *)
(* dropped and counted; hal_debug_printf_critical tries again for 50 us.    *)
(* Core 1 reads the counter of the drops, which core 0 may increment at any *)
(* time, three times in one report.  An event is a number, in the order of  *)
(* the calls; its arguments and their formatting are left out, as are the   *)
(* bytes of a line, which only core 1 writes.  queue_t is a queue with a    *)
(* lock of its own.                                                        *)
(***************************************************************************)
EXTENDS Integers, Sequences

CONSTANTS
  LogQueueSize,
  CriticalWait,         \* 50 us, in ticks
  Wrap,                 \* ticks after which time_us_32 starts again
  Jump,                 \* most ticks between two looks at the clock
  MaxEvents             \* bound: calls of the log

ASSUME LogAssumption ==
  /\ LogQueueSize \in Nat \ {0}
  /\ Wrap \in Nat \ {0}
  /\ CriticalWait \in Nat
  /\ Jump \in Nat \ {0}
  /\ MaxEvents \in Nat

VARIABLES
  now,                  \* time_us_32
  g_debug_uart_hw_inited,
  log_queue, log_drop_count,
  retry,                \* hal_debug_printf_critical under way: its event (0 for none), deadline
  logger,               \* where core 1 is, what it counted, the event in its hand (0 for none)
  last_reported_drops,
  issued, printed, reported   \* history: calls; events written out; drops reported
vars == <<now, g_debug_uart_hw_inited, log_queue, log_drop_count, retry, logger,
          last_reported_drops, issued, printed, reported>>

Event == 1 .. MaxEvents

Init ==
  /\ now = 0
  /\ g_debug_uart_hw_inited = FALSE
  /\ log_queue = <<>> /\ log_drop_count = 0
  /\ retry = [event |-> 0, deadline |-> 0]
  /\ logger = [at |-> "off", dropped |-> 0, event |-> 0]
  /\ last_reported_drops = 0
  /\ issued = 0 /\ printed = <<>> /\ reported = 0

--------------------------------------------------------------------------------
\* Core 0.

Full == Len(log_queue) >= LogQueueSize

\* The newest event overtakes what waits.
queue_try_add_First(e) == log_queue' = IF Full THEN log_queue ELSE <<e>> \o log_queue

queue_try_add(e) == log_queue' = IF Full THEN log_queue ELSE Append(log_queue, e)

\* A drop that is not counted.
CountIf_Never(dropped) == log_drop_count' = log_drop_count

CountIf(dropped) == log_drop_count' = log_drop_count + IF dropped THEN 1 ELSE 0

\* The queue in front of a UART nobody has set up.
ensure_debug_uart_hw_init_Late == g_debug_uart_hw_inited' = (log_queue # <<>>)

ensure_debug_uart_hw_init == g_debug_uart_hw_inited' = TRUE

\* A call of the log, while no other is under way.
Call ==
  /\ retry.event = 0 /\ issued < MaxEvents
  /\ issued' = issued + 1
  /\ ensure_debug_uart_hw_init

\* hal_debug_printf_async, hal_debug_printf_v, hal_debug_puts, hal_debug_hex
hal_debug_printf_async ==
  /\ Call
  /\ queue_try_add(issued')
  /\ CountIf(Full)
  /\ UNCHANGED <<now, retry, logger, last_reported_drops, printed, reported>>

\* hal_debug_printf_critical computes its deadline before it tries for the first time.  The
\* servers call it, after core 1 has been launched.
hal_debug_printf_critical ==
  /\ Call /\ logger.at # "off"
  /\ retry' = [event |-> issued', deadline |-> (now + CriticalWait) % Wrap]
  /\ UNCHANGED <<now, log_queue, log_drop_count, logger, last_reported_drops, printed, reported>>

\* One round of its loop.  The clock is compared as a plain number.
Retry ==
  /\ retry.event # 0
  /\ queue_try_add(retry.event)
  /\ retry' = IF Full /\ now < retry.deadline THEN retry ELSE [retry EXCEPT !.event = 0]
  /\ CountIf(Full /\ now >= retry.deadline)
  /\ UNCHANGED <<now, g_debug_uart_hw_inited, logger, last_reported_drops, issued, printed,
                 reported>>

\* multicore_launch_core1, after the first lines of main.
LaunchCore1 ==
  /\ logger.at = "off"
  /\ logger' = [logger EXCEPT !.at = "look"]
  /\ UNCHANGED <<now, g_debug_uart_hw_inited, log_queue, log_drop_count, retry,
                 last_reported_drops, issued, printed, reported>>

--------------------------------------------------------------------------------
\* Core 1: logger_core1_task over and over.

\* Is there a drop to report?  The counter is read.
Look ==
  /\ logger.at = "look"
  /\ logger' = [logger EXCEPT !.at = IF log_drop_count # last_reported_drops
                                     THEN "count" ELSE "drain"]
  /\ UNCHANGED <<now, g_debug_uart_hw_inited, log_queue, log_drop_count, retry,
                 last_reported_drops, issued, printed, reported>>

\* It is read again for the number in the report.
Count ==
  /\ logger.at = "count"
  /\ logger' = [logger EXCEPT !.at = "store", !.dropped = log_drop_count - last_reported_drops]
  /\ UNCHANGED <<now, g_debug_uart_hw_inited, log_queue, log_drop_count, retry,
                 last_reported_drops, issued, printed, reported>>

\* The counter is not stored, so that the next report has the same drops.
Store_Forgets == UNCHANGED last_reported_drops

\* And again for the next report.
Store == last_reported_drops' = log_drop_count

Report ==
  /\ logger.at = "store"
  /\ Store
  /\ reported' = reported + logger.dropped
  /\ logger' = [logger EXCEPT !.at = "drain"]
  /\ UNCHANGED <<now, g_debug_uart_hw_inited, log_queue, log_drop_count, retry, issued, printed>>

\* Core 1 waits for a lock that the retrying core 0 holds.
Remove_Locked ==
  /\ logger.at = "drain" /\ retry.event = 0
  /\ IF log_queue = <<>>
     THEN logger' = [logger EXCEPT !.at = "look"] /\ UNCHANGED log_queue
     ELSE /\ logger' = [logger EXCEPT !.at = "write", !.event = Head(log_queue)]
          /\ log_queue' = Tail(log_queue)
  /\ UNCHANGED <<now, g_debug_uart_hw_inited, log_drop_count, retry, last_reported_drops,
                 issued, printed, reported>>

\* queue_try_remove; an empty queue ends the call.
Remove ==
  /\ logger.at = "drain"
  /\ IF log_queue = <<>>
     THEN logger' = [logger EXCEPT !.at = "look"] /\ UNCHANGED log_queue
     ELSE /\ logger' = [logger EXCEPT !.at = "write", !.event = Head(log_queue)]
          /\ log_queue' = Tail(log_queue)
  /\ UNCHANGED <<now, g_debug_uart_hw_inited, log_drop_count, retry, last_reported_drops,
                 issued, printed, reported>>

\* The line is written, for as long as the UART takes, if the UART has been set up.
WriteLine ==
  /\ logger.at = "write"
  /\ printed' = IF g_debug_uart_hw_inited THEN Append(printed, logger.event) ELSE printed
  /\ logger' = [logger EXCEPT !.at = "drain", !.event = 0]
  /\ UNCHANGED <<now, g_debug_uart_hw_inited, log_queue, log_drop_count, retry,
                 last_reported_drops, issued, reported>>

logger_core1_task == Look \/ Count \/ Report \/ Remove \/ WriteLine

Clock ==
  /\ \E ticks \in 1 .. Jump : now' = (now + ticks) % Wrap
  /\ UNCHANGED <<g_debug_uart_hw_inited, log_queue, log_drop_count, retry, logger,
                 last_reported_drops, issued, printed, reported>>

Next ==
  \/ hal_debug_printf_async \/ hal_debug_printf_critical \/ Retry \/ LaunchCore1
  \/ logger_core1_task
  \/ Clock

\* Both cores run, and time passes.
Fairness == WF_vars(Clock) /\ WF_vars(Retry) /\ WF_vars(LaunchCore1) /\ WF_vars(logger_core1_task)

Spec == Init /\ [][Next]_vars /\ Fairness

--------------------------------------------------------------------------------
\* Properties.

InHand == IF logger.event = 0 THEN <<>> ELSE <<logger.event>>
Trying == IF retry.event = 0 THEN <<>> ELSE <<retry.event>>

\* The events that have not been dropped, in the order they came in.
Kept == printed \o InHand \o log_queue \o Trying

\* hal_debug_printf_*, logger_core1_task: every call of the log is printed, on its way, or
\* counted as dropped, once, whatever the cores do at the same time.
NothingVanishes == Len(Kept) + log_drop_count = issued

\* The lines come out in the order of the calls; an event that is tried again is not
\* overtaken by a later one, since core 0 waits for it.
PrintedInOrder == \A m, n \in 1 .. Len(Kept) : m < n => Kept[m] < Kept[n]

\* "[WARN: %u log events dropped!]": the reports never claim more drops than there were.
ReportsAreTrue == reported <= log_drop_count

\* An event in the queue is printed in the end.
EventsArePrinted ==
  \A e \in Event : (\E n \in 1 .. Len(log_queue) : log_queue[n] = e)
                   ~> (\E n \in 1 .. Len(printed) : printed[n] = e)

\* "critical (bounded retry)": the call comes back, also when the clock starts again before
\* it has reached the deadline.
CriticalComesBack == retry.event # 0 ~> retry.event = 0
================================================================================
