------------------------------ MODULE DebugLogProofs ------------------------------
(***************************************************************************)
(* What the debug log keeps for a queue and a number of calls of any size,  *)
(* and whatever the clock does: every call is accounted for, in order, and  *)
(* the reports of core 1 never claim more drops than core 0 counted.        *)
(***************************************************************************)
EXTENDS DebugLog, SequenceTheorems, TLAPS

Place == {"off", "look", "count", "store", "drain", "write"}
Id    == Nat \ {0}

\* The numbers.
Registers ==
  /\ now \in Int
  /\ log_queue \in Seq(Id) /\ printed \in Seq(Id)
  /\ log_drop_count \in Nat /\ issued \in Nat
  /\ retry \in [event: Nat, deadline: Int]
  /\ logger \in [at: Place, dropped: Int, event: Nat]
  /\ last_reported_drops \in Int /\ reported \in Int

\* Core 1 holds an event exactly while it writes its line, and an event that has gone past
\* the call finds the UART set up.
Places ==
  /\ logger.event # 0 <=> logger.at = "write"
  /\ log_queue # <<>> \/ logger.event # 0 \/ retry.event # 0 => g_debug_uart_hw_inited = TRUE

Increasing(s) == \A m, n \in 1 .. Len(s) : m < n => s[m] < s[n]
Below(s, k)   == \A m \in 1 .. Len(s) : s[m] <= k

\* The events in their order, each counted.
Account ==
  /\ Len(Kept) + log_drop_count = issued
  /\ Increasing(Kept)
  /\ Below(Kept, issued)

\* What core 1 makes of a counter that goes on while it looks.
Drops ==
  /\ last_reported_drops <= log_drop_count
  /\ reported <= last_reported_drops
  /\ logger.at = "store" => logger.dropped <= log_drop_count - last_reported_drops

Inv == Registers /\ Places /\ Account /\ Drops

--------------------------------------------------------------------------------
\* Sequences.

\* A sequence is its head and then its tail.
LEMMA HeadThenTail ==
  ASSUME NEW q \in Seq(Id), q # <<>>
  PROVE  q = <<Head(q)>> \o Tail(q)
<1>1. Len(q) \in Nat \ {0}  BY EmptySeq
<1>2. SubSeq(q, 1, Len(q)) = <<q[1]>> \o SubSeq(q, 2, Len(q))
  BY <1>1, SubSeqRecursiveFirst
<1>3. SubSeq(q, 1, Len(q)) = q  BY SubSeqFull
<1>4. Tail(q) = SubSeq(q, 2, Len(q))  BY TailIsSubSeq
<1>5. Head(q) = q[1]  BY <1>1
<1> QED  BY <1>2, <1>3, <1>4, <1>5

\* To append to the last part is to append to the whole.
LEMMA AppendToLast ==
  ASSUME NEW s \in Seq(Id), NEW q \in Seq(Id), NEW e \in Id
  PROVE  s \o Append(q, e) = Append(s \o q, e)
<1>1. Append(q, e) = q \o <<e>>  BY AppendIsConcat
<1>2. s \o q \in Seq(Id)  BY ConcatProperties
<1>3. Append(s \o q, e) = (s \o q) \o <<e>>  BY <1>2, AppendIsConcat
<1>4. <<e>> \in Seq(Id)  OBVIOUS
<1>5. (s \o q) \o <<e>> = s \o (q \o <<e>>)  BY <1>4, ConcatAssociative
<1> QED  BY <1>1, <1>3, <1>5

\* The next number keeps a sequence increasing.
LEMMA NextIsAbove ==
  ASSUME NEW s \in Seq(Id), NEW k \in Nat, Increasing(s), Below(s, k)
  PROVE  /\ Increasing(Append(s, k + 1)) /\ Below(Append(s, k + 1), k + 1)
         /\ Len(Append(s, k + 1)) = Len(s) + 1
<1> DEFINE t == Append(s, k + 1)
<1>1. k + 1 \in Id  BY DEF Id
<1>2. Len(t) = Len(s) + 1 /\ t[Len(s) + 1] = k + 1 /\ \A m \in 1 .. Len(s) : t[m] = s[m]
  BY <1>1, AppendProperties
<1>3. Len(s) \in Nat /\ \A m \in 1 .. Len(s) : s[m] \in Id
  BY LenProperties, ElementOfSeq
<1>4. Increasing(t)
  <2> SUFFICES ASSUME NEW m \in 1 .. Len(t), NEW n \in 1 .. Len(t), m < n
               PROVE  t[m] < t[n]
    BY DEF Increasing
  <2>1. m \in 1 .. Len(s)  BY <1>2, <1>3
  <2>2. CASE n = Len(s) + 1
    <3>1. t[n] = k + 1 /\ t[m] = s[m] /\ s[m] <= k  BY <1>2, <2>1, <2>2 DEF Below
    <3> HIDE DEF t
    <3> QED  BY <3>1, <1>3, <2>1 DEF Id
  <2>3. CASE n # Len(s) + 1
    <3>1. n \in 1 .. Len(s)  BY <1>2, <1>3, <2>3
    <3> QED  BY <3>1, <2>1, <1>2 DEF Increasing
  <2> QED  BY <2>2, <2>3
<1>5. Below(t, k + 1)
  <2> SUFFICES ASSUME NEW m \in 1 .. Len(t) PROVE t[m] <= k + 1
    BY DEF Below
  <2>1. CASE m = Len(s) + 1  BY <2>1, <1>2
  <2>2. CASE m # Len(s) + 1
    <3>1. m \in 1 .. Len(s)  BY <1>2, <1>3, <2>2
    <3>2. t[m] = s[m] /\ s[m] <= k /\ s[m] \in Id  BY <3>1, <1>2, <1>3 DEF Below
    <3> HIDE DEF t
    <3> QED  BY <3>2 DEF Id
  <2> QED  BY <2>1, <2>2
<1> QED  BY <1>2, <1>4, <1>5

\* Without its last element it stays increasing.
LEMMA WithoutLast ==
  ASSUME NEW s \in Seq(Id), NEW e \in Id, NEW k \in Nat,
         Increasing(Append(s, e)), Below(Append(s, e), k)
  PROVE  Increasing(s) /\ Below(s, k) /\ Len(Append(s, e)) = Len(s) + 1
<1>1. Len(Append(s, e)) = Len(s) + 1 /\ \A m \in 1 .. Len(s) : Append(s, e)[m] = s[m]
  BY AppendProperties
<1>2. Len(s) \in Nat  BY LenProperties
<1> QED  BY <1>1, <1>2 DEF Increasing, Below

--------------------------------------------------------------------------------
\* The account.

LEMMA Parts ==
  ASSUME Registers
  PROVE  /\ InHand \in Seq(Id) /\ Trying \in Seq(Id)
         /\ printed \o InHand \in Seq(Id)
         /\ (printed \o InHand) \o log_queue \in Seq(Id)
         /\ Kept \in Seq(Id)
<1>1. InHand \in Seq(Id)
  <2>1. logger.event \in Nat  BY DEF Registers
  <2>2. CASE logger.event = 0  BY <2>2, EmptySeq DEF InHand
  <2>3. CASE logger.event # 0
    <3>1. logger.event \in Id  BY <2>1, <2>3 DEF Id
    <3> QED  BY <3>1, <2>3 DEF InHand
  <2> QED  BY <2>2, <2>3
<1>2. Trying \in Seq(Id)
  <2>1. retry.event \in Nat  BY DEF Registers
  <2>2. CASE retry.event = 0  BY <2>2, EmptySeq DEF Trying
  <2>3. CASE retry.event # 0
    <3>1. retry.event \in Id  BY <2>1, <2>3 DEF Id
    <3> QED  BY <3>1, <2>3 DEF Trying
  <2> QED  BY <2>2, <2>3
<1>3. printed \in Seq(Id) /\ log_queue \in Seq(Id)  BY DEF Registers
<1>4. printed \o InHand \in Seq(Id)  BY <1>1, <1>3, ConcatProperties
<1>5. (printed \o InHand) \o log_queue \in Seq(Id)  BY <1>3, <1>4, ConcatProperties
<1>6. Kept \in Seq(Id)  BY <1>2, <1>5, ConcatProperties DEF Kept
<1> QED  BY <1>1, <1>2, <1>4, <1>5, <1>6

\* A step that moves events on without dropping or issuing one.
LEMMA AccountMove ==
  ASSUME Account, Kept' = Kept, UNCHANGED <<log_drop_count, issued>>
  PROVE  Account'
<1>1. Len(Kept') = Len(Kept)  OBVIOUS
<1>2. Increasing(Kept') /\ Below(Kept', issued')  BY DEF Account
<1> QED  BY <1>1, <1>2 DEF Account

\* A call whose event is kept.
LEMMA AccountIssue ==
  ASSUME Registers, Account, Kept' = Append(Kept, issued + 1),
         issued' = issued + 1, UNCHANGED log_drop_count
  PROVE  Account'
<1>1. Kept \in Seq(Id) /\ Len(Kept) \in Nat  BY Parts, LenProperties
<1>2. issued \in Nat /\ log_drop_count \in Nat  BY DEF Registers
<1>3. Increasing(Kept) /\ Below(Kept, issued) /\ Len(Kept) + log_drop_count = issued
  BY DEF Account
<1>4. /\ Increasing(Append(Kept, issued + 1)) /\ Below(Append(Kept, issued + 1), issued + 1)
      /\ Len(Append(Kept, issued + 1)) = Len(Kept) + 1
  BY <1>1, <1>2, <1>3, NextIsAbove
<1>5. Len(Kept') + log_drop_count' = issued'  BY <1>1, <1>2, <1>3, <1>4
<1>6. Increasing(Kept') /\ Below(Kept', issued')  BY <1>4
<1> QED  BY <1>5, <1>6 DEF Account

\* A call whose event is dropped at once.
LEMMA AccountRefuse ==
  ASSUME Registers, Account, Kept' = Kept,
         issued' = issued + 1, log_drop_count' = log_drop_count + 1
  PROVE  Account'
<1>1. Kept \in Seq(Id) /\ Len(Kept) \in Nat /\ \A m \in 1 .. Len(Kept) : Kept[m] \in Id
  BY Parts, LenProperties, ElementOfSeq
<1>2. issued \in Nat /\ log_drop_count \in Nat  BY DEF Registers
<1>3. Len(Kept') + log_drop_count' = issued'  BY <1>1, <1>2 DEF Account
<1>4. Increasing(Kept')  BY DEF Account
<1>5. \A m \in 1 .. Len(Kept) : Kept[m] <= issued + 1
  BY <1>1, <1>2 DEF Account, Below, Id
<1>6. Below(Kept', issued')  BY <1>5 DEF Below
<1> QED  BY <1>3, <1>4, <1>6 DEF Account

\* A retry that is given up.
LEMMA AccountGiveUp ==
  ASSUME Registers, Account,
         NEW s \in Seq(Id), NEW e \in Id, Kept = Append(s, e), Kept' = s,
         log_drop_count' = log_drop_count + 1, UNCHANGED issued
  PROVE  Account'
<1>1. Len(s) \in Nat  BY LenProperties
<1>2. issued \in Nat /\ log_drop_count \in Nat  BY DEF Registers
<1>3. Increasing(Append(s, e)) /\ Below(Append(s, e), issued)  BY DEF Account
<1>4. Increasing(s) /\ Below(s, issued) /\ Len(Append(s, e)) = Len(s) + 1
  BY <1>2, <1>3, WithoutLast
<1>5. Len(Kept') + log_drop_count' = issued'  BY <1>1, <1>2, <1>4 DEF Account
<1>6. Increasing(Kept') /\ Below(Kept', issued')  BY <1>4
<1> QED  BY <1>5, <1>6 DEF Account

\* Without a retry the account ends with the queue.
LEMMA NoneTrying ==
  ASSUME Registers, retry.event = 0
  PROVE  Kept = (printed \o InHand) \o log_queue
<1>1. (printed \o InHand) \o log_queue \in Seq(Id)  BY Parts
<1> QED  BY <1>1, ConcatEmptySeq DEF Kept, Trying

--------------------------------------------------------------------------------
\* The actions keep the account.

LEMMA AsyncAccounts ==
  ASSUME Inv, hal_debug_printf_async
  PROVE  Account'
<1> DEFINE front == printed \o InHand
<1>1. /\ issued' = issued + 1 /\ retry.event = 0
      /\ UNCHANGED <<retry, logger, printed>>
  BY DEF hal_debug_printf_async, Call
<1>2. InHand' = InHand /\ Trying = <<>> /\ Trying' = <<>>  BY <1>1 DEF InHand, Trying
<1>3. front \in Seq(Id) /\ front \o log_queue \in Seq(Id) /\ Kept = front \o log_queue
  BY <1>1, Parts, NoneTrying DEF Inv
<1>4. log_queue \in Seq(Id) /\ issued + 1 \in Id  BY DEF Inv, Registers, Id
<1>5. CASE Full
  <2>1. log_queue' = log_queue /\ log_drop_count' = log_drop_count + 1
    BY <1>5 DEF hal_debug_printf_async, queue_try_add, CountIf
  <2>2. Kept' = Kept  BY <1>1, <1>2, <2>1 DEF Kept
  <2> QED  BY <1>1, <2>1, <2>2, AccountRefuse DEF Inv
<1>6. CASE ~Full
  <2>1. log_queue' = Append(log_queue, issued + 1)
    BY <1>1, <1>6 DEF hal_debug_printf_async, queue_try_add
  <2>2. log_drop_count' = log_drop_count
    BY <1>6 DEF hal_debug_printf_async, CountIf, Inv, Registers
  <2>3. front \o Append(log_queue, issued + 1) = Append(Kept, issued + 1)
    BY <1>3, <1>4, AppendToLast
  <2>4. Append(log_queue, issued + 1) \in Seq(Id)  BY <1>4, AppendProperties
  <2>5. front \o Append(log_queue, issued + 1) \in Seq(Id)  BY <1>3, <2>4, ConcatProperties
  <2>6. Kept' = (front \o Append(log_queue, issued + 1)) \o <<>>
    BY <1>1, <1>2, <2>1 DEF Kept
  <2>7. Kept' = Append(Kept, issued + 1)  BY <2>3, <2>5, <2>6, ConcatEmptySeq
  <2> QED  BY <1>1, <2>2, <2>7, AccountIssue DEF Inv
<1> QED  BY <1>5, <1>6

LEMMA CriticalAccounts ==
  ASSUME Inv, hal_debug_printf_critical
  PROVE  Account'
<1>1. /\ issued' = issued + 1 /\ retry.event = 0 /\ retry'.event = issued + 1
      /\ UNCHANGED <<log_queue, log_drop_count, logger, printed>>
  BY DEF hal_debug_printf_critical, Call
<1>2. issued + 1 \in Id  BY DEF Inv, Registers, Id
<1>3. InHand' = InHand /\ Trying' = <<issued + 1>>  BY <1>1, <1>2 DEF InHand, Trying, Id
<1>4. Kept \in Seq(Id) /\ Kept = (printed \o InHand) \o log_queue
  BY <1>1, Parts, NoneTrying DEF Inv
<1>5. Kept' = Kept \o <<issued + 1>>  BY <1>1, <1>3, <1>4 DEF Kept
<1>6. Kept' = Append(Kept, issued + 1)  BY <1>2, <1>4, <1>5, AppendIsConcat
<1> QED  BY <1>1, <1>6, AccountIssue DEF Inv

LEMMA RetryAccounts ==
  ASSUME Inv, Retry
  PROVE  Account'
<1> DEFINE front == printed \o InHand
           e == retry.event
<1>1. e # 0 /\ UNCHANGED <<issued, logger, printed>>  BY DEF Retry
<1>2. e \in Id /\ log_queue \in Seq(Id) /\ log_drop_count \in Nat
  BY <1>1 DEF Inv, Registers, Id
<1>3. InHand' = InHand /\ Trying = <<e>>  BY <1>1 DEF InHand, Trying
<1>4. front \in Seq(Id) /\ front \o log_queue \in Seq(Id)  BY Parts DEF Inv
<1>5. Kept = Append(front \o log_queue, e)  BY <1>2, <1>3, <1>4, AppendIsConcat DEF Kept
<1>6. CASE ~Full
  <2>1. /\ log_queue' = Append(log_queue, e) /\ log_drop_count' = log_drop_count
        /\ retry' = [retry EXCEPT !.event = 0]
    BY <1>2, <1>6 DEF Retry, queue_try_add, CountIf
  <2>2. Trying' = <<>>  BY <2>1 DEF Trying, Inv, Registers
  <2>3. front \o Append(log_queue, e) = Kept  BY <1>2, <1>4, <1>5, AppendToLast
  <2>4. Kept' = (front \o Append(log_queue, e)) \o <<>>  BY <1>1, <1>3, <2>1, <2>2 DEF Kept
  <2>5. Kept \in Seq(Id)  BY Parts DEF Inv
  <2>6. Kept' = Kept  BY <2>3, <2>4, <2>5, ConcatEmptySeq
  <2> QED  BY <1>1, <2>1, <2>6, AccountMove DEF Inv
<1>7. CASE Full /\ now < retry.deadline
  <2>1. log_queue' = log_queue /\ retry' = retry  BY <1>7 DEF Retry, queue_try_add
  <2>2. log_drop_count' = log_drop_count
    BY <1>7, <1>2 DEF Retry, CountIf, Inv, Registers
  <2>3. Kept' = Kept  BY <1>1, <1>3, <2>1 DEF Kept, Trying
  <2> QED  BY <1>1, <2>2, <2>3, AccountMove DEF Inv
<1>8. CASE Full /\ ~(now < retry.deadline)
  <2>1. log_queue' = log_queue /\ retry' = [retry EXCEPT !.event = 0]
    BY <1>8 DEF Retry, queue_try_add
  <2>2. log_drop_count' = log_drop_count + 1
    BY <1>8 DEF Retry, CountIf, Inv, Registers
  <2>3. Trying' = <<>>  BY <2>1 DEF Trying, Inv, Registers
  <2>4. Kept' = (front \o log_queue) \o <<>>  BY <1>1, <1>3, <2>1, <2>3 DEF Kept
  <2>5. Kept' = front \o log_queue  BY <1>4, <2>4, ConcatEmptySeq
  <2> HIDE DEF front, e
  <2> QED  BY <1>1, <1>2, <1>4, <1>5, <2>2, <2>5, AccountGiveUp DEF Inv
<1> QED  BY <1>6, <1>7, <1>8

LEMMA RemoveAccounts ==
  ASSUME Inv, Remove
  PROVE  Account'
<1>1. logger.at = "drain" /\ UNCHANGED <<log_drop_count, retry, issued, printed>>
  BY DEF Remove
<1>2. Trying' = Trying  BY <1>1 DEF Trying
<1>3. InHand = <<>>  BY <1>1 DEF InHand, Inv, Places
<1>4. printed \in Seq(Id) /\ log_queue \in Seq(Id)  BY DEF Inv, Registers
<1>5. CASE log_queue = <<>>
  <2>1. log_queue' = log_queue /\ logger'.event = logger.event
    BY <1>5 DEF Remove, Inv, Registers
  <2>2. Kept' = Kept  BY <1>1, <1>2, <2>1 DEF Kept, InHand
  <2> QED  BY <1>1, <2>2, AccountMove DEF Inv
<1>6. CASE log_queue # <<>>
  <2> DEFINE e == Head(log_queue)
             rest == Tail(log_queue)
  <2>1. log_queue' = rest /\ logger'.event = e  BY <1>6 DEF Remove, Inv, Registers
  <2>2. e \in Id /\ rest \in Seq(Id)  BY <1>4, <1>6, HeadTailProperties
  <2>3. InHand' = <<e>>  BY <2>1, <2>2 DEF InHand, Id
  <2>4. log_queue = <<e>> \o rest  BY <1>4, <1>6, HeadThenTail
  <2>5. <<e>> \in Seq(Id)  BY <2>2
  <2>6. (printed \o <<e>>) \o rest = printed \o log_queue
    BY <1>4, <2>2, <2>4, <2>5, ConcatAssociative
  <2>7. (printed \o InHand) \o log_queue = printed \o log_queue
    BY <1>3, <1>4, ConcatEmptySeq
  <2>8. Kept' = Kept  BY <1>1, <1>2, <2>1, <2>3, <2>6, <2>7 DEF Kept
  <2> QED  BY <1>1, <2>8, AccountMove DEF Inv
<1> QED  BY <1>5, <1>6

LEMMA WriteLineAccounts ==
  ASSUME Inv, WriteLine
  PROVE  Account'
<1> DEFINE e == logger.event
<1>1. logger.at = "write" /\ UNCHANGED <<log_queue, log_drop_count, retry, issued>>
  BY DEF WriteLine
<1>2. e \in Id /\ printed \in Seq(Id)  BY <1>1 DEF Inv, Places, Registers, Id
<1>3. g_debug_uart_hw_inited = TRUE  BY <1>1 DEF Inv, Places
<1>4. printed' = Append(printed, e) /\ logger'.event = 0
  BY <1>3 DEF WriteLine, Inv, Registers
<1>5. InHand = <<e>> /\ InHand' = <<>> /\ Trying' = Trying
  BY <1>1, <1>2, <1>4 DEF InHand, Trying, Id
<1>6. Append(printed, e) \in Seq(Id) /\ Append(printed, e) = printed \o <<e>>
  BY <1>2, AppendProperties, AppendIsConcat
<1>7. printed' \o InHand' = printed \o InHand  BY <1>4, <1>5, <1>6, ConcatEmptySeq
<1>8. Kept' = Kept  BY <1>1, <1>5, <1>7 DEF Kept
<1> QED  BY <1>1, <1>8, AccountMove DEF Inv

--------------------------------------------------------------------------------
\* The rest of the invariant, action by action.

LEMMA InitInv == Init => Inv
<1> SUFFICES ASSUME Init PROVE Inv  OBVIOUS
<1>1. Registers  BY EmptySeq DEF Init, Registers, Place
<1>2. Places  BY DEF Init, Places
<1>3. Kept = <<>>
  BY EmptySeq, ConcatEmptySeq DEF Init, Kept, InHand, Trying
<1>4. Account  BY <1>3 DEF Init, Account, Increasing, Below
<1>5. Drops  BY DEF Init, Drops
<1> QED  BY <1>1, <1>2, <1>4, <1>5 DEF Inv

LEMMA StepRegisters ==
  ASSUME Inv, Next
  PROVE  Registers'
<1> USE DEF Inv
<1>1. CASE hal_debug_printf_async
  <2>1. issued + 1 \in Id /\ issued' = issued + 1
    BY <1>1 DEF hal_debug_printf_async, Call, Registers, Id
  <2>2. Append(log_queue, issued + 1) \in Seq(Id)  BY <2>1, AppendProperties DEF Registers
  <2>3. log_queue' \in Seq(Id)
    BY <1>1, <2>1, <2>2 DEF hal_debug_printf_async, queue_try_add, Registers
  <2>4. log_drop_count' \in Nat  BY <1>1 DEF hal_debug_printf_async, CountIf, Registers
  <2> QED  BY <1>1, <2>1, <2>3, <2>4 DEF hal_debug_printf_async, Registers, Id
<1>2. CASE hal_debug_printf_critical
  <2>1. (now + CriticalWait) % Wrap \in Int  BY LogAssumption DEF Registers
  <2> QED  BY <1>2, <2>1 DEF hal_debug_printf_critical, Call, Registers
<1>3. CASE Retry
  <2>1. retry.event \in Id  BY <1>3 DEF Retry, Registers, Id
  <2>2. Append(log_queue, retry.event) \in Seq(Id)  BY <2>1, AppendProperties DEF Registers
  <2>3. log_queue' \in Seq(Id)  BY <1>3, <2>2 DEF Retry, queue_try_add, Registers
  <2>4. log_drop_count' \in Nat  BY <1>3 DEF Retry, CountIf, Registers
  <2>5. retry' \in [event: Nat, deadline: Int]  BY <1>3 DEF Retry, Registers
  <2> QED  BY <1>3, <2>3, <2>4, <2>5 DEF Retry, Registers
<1>4. CASE LaunchCore1  BY <1>4 DEF LaunchCore1, Registers, Place
<1>5. CASE Look  BY <1>5 DEF Look, Registers, Place
<1>6. CASE Count
  <2>1. log_drop_count - last_reported_drops \in Int  BY DEF Registers
  <2>2. logger' \in [at: Place, dropped: Int, event: Nat]
    BY <1>6, <2>1 DEF Count, Registers, Place
  <2> QED  BY <1>6, <2>2 DEF Count, Registers
<1>7. CASE Report  BY <1>7 DEF Report, Store, Registers, Place
<1>8. CASE Remove
  <2>1. log_queue # <<>> => Head(log_queue) \in Id /\ Tail(log_queue) \in Seq(Id)
    BY HeadTailProperties DEF Registers
  <2> QED  BY <1>8, <2>1 DEF Remove, Registers, Place, Id
<1>9. CASE WriteLine
  <2>1. logger.event \in Id  BY <1>9 DEF WriteLine, Places, Registers, Id
  <2>2. Append(printed, logger.event) \in Seq(Id)  BY <2>1, AppendProperties DEF Registers
  <2>3. printed' \in Seq(Id)  BY <1>9, <2>2 DEF WriteLine, Registers
  <2> QED  BY <1>9, <2>3 DEF WriteLine, Registers, Place
<1>10. CASE Clock
  <2>1. now' \in Int
    <3>1. PICK ticks \in 1 .. Jump : now' = (now + ticks) % Wrap  BY <1>10 DEF Clock
    <3> QED  BY <3>1, LogAssumption DEF Registers
  <2> QED  BY <1>10, <2>1 DEF Clock, Registers
<1> QED
  BY <1>1, <1>2, <1>3, <1>4, <1>5, <1>6, <1>7, <1>8, <1>9, <1>10
  DEF Next, logger_core1_task

LEMMA StepPlaces ==
  ASSUME Inv, Next
  PROVE  Places'
<1> USE DEF Inv
<1>1. CASE hal_debug_printf_async
  BY <1>1 DEF hal_debug_printf_async, Call, ensure_debug_uart_hw_init, Places
<1>2. CASE hal_debug_printf_critical
  BY <1>2 DEF hal_debug_printf_critical, Call, ensure_debug_uart_hw_init, Places
<1>3. CASE Retry
  <2>1. g_debug_uart_hw_inited' = TRUE  BY <1>3 DEF Retry, Places
  <2> QED  BY <1>3, <2>1 DEF Retry, Places
<1>4. CASE LaunchCore1  BY <1>4 DEF LaunchCore1, Places, Registers
<1>5. CASE Look  BY <1>5 DEF Look, Places, Registers
<1>6. CASE Count  BY <1>6 DEF Count, Places, Registers
<1>7. CASE Report  BY <1>7 DEF Report, Places, Registers
<1>8. CASE Remove
  <2>1. CASE log_queue = <<>>  BY <1>8, <2>1 DEF Remove, Places, Registers
  <2>2. CASE log_queue # <<>>
    <3>1. Head(log_queue) \in Id  BY <2>2, HeadTailProperties DEF Registers
    <3>2. logger'.event = Head(log_queue) /\ logger'.at = "write"
      BY <1>8, <2>2 DEF Remove, Registers
    <3>3. g_debug_uart_hw_inited' = TRUE  BY <1>8, <2>2 DEF Remove, Places
    <3> QED  BY <3>1, <3>2, <3>3 DEF Places, Id
  <2> QED  BY <2>1, <2>2
<1>9. CASE WriteLine
  <2>1. logger'.event = 0 /\ logger'.at = "drain"  BY <1>9 DEF WriteLine, Registers
  <2> QED  BY <1>9, <2>1 DEF WriteLine, Places
<1>10. CASE Clock  BY <1>10 DEF Clock, Places
<1> QED
  BY <1>1, <1>2, <1>3, <1>4, <1>5, <1>6, <1>7, <1>8, <1>9, <1>10
  DEF Next, logger_core1_task

\* Only core 1 reads the counter, and what it does not report it skips.
LEMMA StepDrops ==
  ASSUME Inv, Next
  PROVE  Drops'
<1> USE DEF Inv
<1>1. CASE hal_debug_printf_async \/ Retry
  <2>1. log_drop_count' \in {log_drop_count, log_drop_count + 1}
    BY <1>1 DEF hal_debug_printf_async, Retry, CountIf, Registers
  <2>2. UNCHANGED <<logger, last_reported_drops, reported>>
    BY <1>1 DEF hal_debug_printf_async, Retry
  <2> QED  BY <2>1, <2>2 DEF Drops, Registers
<1>2. CASE hal_debug_printf_critical  BY <1>2 DEF hal_debug_printf_critical, Drops
<1>4. CASE LaunchCore1  BY <1>4 DEF LaunchCore1, Drops, Registers
<1>5. CASE Look  BY <1>5 DEF Look, Drops, Registers
<1>6. CASE Count
  <2>1. logger'.dropped = log_drop_count - last_reported_drops  BY <1>6 DEF Count, Registers
  <2>2. UNCHANGED <<log_drop_count, last_reported_drops, reported>>  BY <1>6 DEF Count
  <2> QED  BY <2>1, <2>2 DEF Drops, Registers
<1>7. CASE Report
  <2>1. /\ last_reported_drops' = log_drop_count /\ log_drop_count' = log_drop_count
        /\ reported' = reported + logger.dropped
        /\ logger.dropped <= log_drop_count - last_reported_drops
    BY <1>7 DEF Report, Store, Drops
  <2>2. reported' <= log_drop_count  BY <2>1 DEF Drops, Registers
  <2>3. logger'.at = "drain"  BY <1>7 DEF Report, Registers
  <2> QED  BY <2>1, <2>2, <2>3 DEF Drops, Registers
<1>8. CASE Remove
  <2>1. logger'.at \in {"look", "write"}  BY <1>8 DEF Remove, Registers
  <2> QED  BY <1>8, <2>1 DEF Remove, Drops
<1>9. CASE WriteLine
  <2>1. logger'.at = "drain"  BY <1>9 DEF WriteLine, Registers
  <2> QED  BY <1>9, <2>1 DEF WriteLine, Drops
<1>10. CASE Clock  BY <1>10 DEF Clock, Drops
<1> QED
  BY <1>1, <1>2, <1>4, <1>5, <1>6, <1>7, <1>8, <1>9, <1>10
  DEF Next, logger_core1_task

LEMMA StepAccount ==
  ASSUME Inv, Next
  PROVE  Account'
<1>1. CASE hal_debug_printf_async  BY <1>1, AsyncAccounts
<1>2. CASE hal_debug_printf_critical  BY <1>2, CriticalAccounts
<1>3. CASE Retry  BY <1>3, RetryAccounts
<1>4. CASE Remove  BY <1>4, RemoveAccounts
<1>5. CASE WriteLine  BY <1>5, WriteLineAccounts
<1>6. CASE LaunchCore1 \/ Look \/ Count \/ Report \/ Clock
  <2>1. logger'.event = logger.event
    BY <1>6 DEF LaunchCore1, Look, Count, Report, Clock, Inv, Registers
  <2>2. UNCHANGED <<log_queue, log_drop_count, retry, issued, printed>>
    BY <1>6 DEF LaunchCore1, Look, Count, Report, Clock
  <2>3. Kept' = Kept  BY <2>1, <2>2 DEF Kept, InHand, Trying
  <2> QED  BY <2>2, <2>3, AccountMove DEF Inv
<1> QED  BY <1>1, <1>2, <1>3, <1>4, <1>5, <1>6 DEF Next, logger_core1_task

\* hal_pico.cpp: the strengthened invariant holds in every state.
THEOREM LogInvariant == Spec => []Inv
<1>1. Inv /\ [Next]_vars => Inv'
  <2> SUFFICES ASSUME Inv, [Next]_vars PROVE Inv'  OBVIOUS
  <2>1. CASE Next
    BY <2>1, StepRegisters, StepPlaces, StepDrops, StepAccount DEF Inv
  <2>2. CASE UNCHANGED vars
    BY <2>2 DEF vars, Inv, Registers, Places, Account, Drops, Kept, InHand, Trying
  <2> QED  BY <2>1, <2>2
<1> QED  BY <1>1, InitInv, PTL DEF Spec

\* hal_debug_printf_*, logger_core1_task: every call is printed, on its way or counted as
\* dropped, for every size of the queue and every behaviour of the clock.
THEOREM EveryCallAccounted == Spec => []NothingVanishes
<1>1. Inv => NothingVanishes  BY DEF Inv, Account, NothingVanishes
<1> QED  BY <1>1, LogInvariant, PTL

\* hal_debug_printf_critical, log_queue: lines come out in the order of the calls, none twice.
THEOREM LinesInOrder == Spec => []PrintedInOrder
<1>1. Inv => PrintedInOrder  BY DEF Inv, Account, Increasing, PrintedInOrder
<1> QED  BY <1>1, LogInvariant, PTL

\* logger_core1_task: the drops it reports have happened, though the counter may go on
\* between its three reads.
THEOREM ReportsNeverExceed == Spec => []ReportsAreTrue
<1>1. Inv => ReportsAreTrue  BY DEF Inv, Drops, Registers, ReportsAreTrue
<1> QED  BY <1>1, LogInvariant, PTL
================================================================================
