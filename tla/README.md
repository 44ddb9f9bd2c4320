# Verification of the CIM cash-in machine

The repository is the firmware of CIM, a deposit safe: bill validators feed
cassettes behind doors; users log in, drop cash, and authorised users open a
door to take the cash out (an "extraction"). It is Objective-C and C, about 400
thousand lines with its user interface, telesupervision protocols, device
drivers and a small embedded database. This project keeps TLA+ models of the
parts where ordering, concurrency and failure decide whether money or access
control is right, checks them with TLC and proves the central invariants with
TLAPS.

Paths below are relative to `src/src/`.

## 1. Inventory

The program is one process with these threads: the operator's screen
(`framework/ui`), the console and the other remote controllers
(`framework/telesup`), the dispatcher of device events (`CimEventDispatcher`),
the timer thread (`ctimers.c`), the pollers of the safe box and of each bill
validator (`framework/cim/device`), the printer spooler and the scheduler of
telesupervision. They share plain Objective-C objects; a few of these have a
mutex, most have none.

| Component | State | Operations | Interacts with |
|---|---|---|---|
| Door workflow: `framework/cim/ExtractionWorkflow.m`, `system/util/state_machine.c` | the current state, the two logged users, the forced override, hasUnlocked / hasOpened / generateExtraction, one timer, its inner door's workflow | onLoginUser, cancelTimeDelay, onDoorOpen, onDoorClose, onLocked, onUnLocked, timerExpired, onOuterDoorOpen, startOuterDoorOpen, cancelOuterDoor | screen and console (logins), dispatcher (sensors), timer thread, SafeBoxHAL (unlock), ExtractionManager, Buzzer, CimManager (alarms) |
| Door: `framework/cim/Door.m` | stored door state and lock state, key count, sensor kind | onDoorOpen / Close / Locked / UnLocked, canOpenDoor | dispatcher, CimManager |
| Device events: `framework/cim/CimEventDispatcher.m`, `SafeBoxHAL.m`, `device/safeBoxMgr.m`, `system/util/StaticSyncQueue.m`, `queue.c` | a bounded queue of events, last sensor values | pollers push, the dispatcher pops and calls the handlers | every device |
| Safe box driver: `framework/cim/SafeBoxHAL.m`, `device/safeBoxMgr.m`, `device/safeBoxComm.m` | one mutex for the calls, a queue of commands filled through one global element, a bounded queue of answers per device, the error of the line, the configuration of the validators that is pending | sb* (users and passwords), fs* (files), unLock, setAlarm and the times of the locks; the board's thread sends commands, reads answers and polls | door workflow, users, backup, the board over a serial line |
| Timers: `system/os/OTimer.m`, `ctimers.c` | a table of slots shared under one mutex, one thread | start, stop, expiry | every component with a timeout |
| Deposit session: `framework/cim/CimManager.m`, `CimStateDeposit.m`, `CimStateIdle.m`, `BillAcceptor.m` | the current state object, the deposit in progress, the inactivity and close timers, each validator's status | startDeposit, endDeposit, onBillAccepted, onBillRejected, needMoreTime, inactivity expiry, validation mode | screen, dispatcher, timer thread, DepositManager |
| Deposit store: `framework/cim/DepositManager.m`, `framework/dao/TempDepositDAO.m`, `DepositDAO.m` | last deposit number, the temporary deposit on disk, the stored deposits | getNewDeposit, add detail, endDeposit, recoverDeposits at start-up | ExtractionManager, ZCloseManager, printer, telesupervision |
| Extractions: `framework/cim/ExtractionManager.m`, `Extraction.m` | the current extraction of each door, its totals, isGeneratingExtraction | processDeposit, generateExtraction | door workflow, DepositManager |
| Z closes: `ZClose.m`, `ZCloseManager.m` | the current Z close and cash closes, their totals | processDeposit, generateZClose, cash reference closes | DepositManager, scheduler |
| Buzzer: `system/dev/Buzzer.m` | a nesting level | buzzerStart, buzzerStop | door workflow |
| Users: `framework/settings/user/UserManager.m` | users, profiles, duress and expiry data | logIn, validate | everything with a login |
| Commercial state: `framework/settings/commercial/CommercialStateMgr.m` | the machine's commercial state and its pending change | change, authorise | screen, telesupervision |
| Telesupervision: `framework/telesup` | connections, the schedule, pending files | scheduled and alarm-driven connections, G2 / IMAS / POS / FTP protocols, console requests | deposits, extractions, audits, settings |
| Modem link: `framework/telesup/dmodem/dmodem.c`, `ptsm.c` | a writer and a reader per handle: sequence numbers, retries, timers' flags, a data buffer | dmodem_write, dmodem_read, connect, accept, disconnect | the telesupervision protocols above it, the modem below, timer thread |
| Point of sale: `framework/telesup/POSAcceptor.m` | the drop it has started (myDrop) | open and close a validated drop, report of drops | deposit session, timer thread |
| Storage: `system/db/rop`, `system/db/sql` | record files, a transaction log | append, update, transactions, recovery | every DAO |
| Backup: `CimBackup.m` | progress of a backup or a restore | backup, restore tables | safe box flash |
| Printing: `system/printer/PrinterSpooler.m` | a queue of documents | add, print, reprint | deposits, extractions, closes |

### What is hard in this code

- **Threads without locks.** A door's workflow is driven by four threads and has
  no mutex. The screens read its state, block in a dialog for as long as the
  operator likes, and then act on it.
- **A time-out that cannot be revoked.** The timer thread releases its mutex
  before it calls the owner back; stopping or restarting the timer in between
  does not stop the call.
- **Power cuts.** A drop passes through a temporary header, temporary details, a
  deposit record, its details and two deletions; the power may fail between any
  two of them, and again during the recovery.
- **Orders nobody chose.** Sensors report in the order people move doors and
  locks; bills are stacked before their event arrives; two doors, one behind the
  other, share one operation.
- **A line that lies.** The modem link numbers its frames and not its
  acknowledgements, counts its retries per message, and turns round: the reader
  of a message is the writer of the next.
- **A drop with many ends.** Screen, console, point of sale and timer may end the
  drop in progress at once, while the validator still stacks its last bill and the
  thread that would report it is needed by those who wait.
- **Limits.** The table of timers and the queues between threads are bounded and
  react differently to being full: one drops silently, the other throws with its
  mutex locked.

`PROJECT.json` lists the hazards at their lines with the properties that cover them.
Beyond that list, and without a property: mod_ctimer returns with the timer mutex
locked when its timer is not in the table (ctimers.c:291); an exception in a callback
ends the timer thread (ctimers.c:142) and one in generateExtraction leaves
isGeneratingExtraction set (ExtractionManager.m:383); two threads may start one timer
at once (OTimer.m:221); setCurrentState has no lock of its own, and a start and an end
at the same moment may leave the idle state with a deposit set (CimManager.m:206);
the buffer of the modem's reader drops what does not fit after the frame was
acknowledged (dmodem.c:952); the queue of commands of the safe box drops what does not
fit into its 150 places without a word, and is filled and emptied without a lock
(safeBoxMgr.m:522); a recovery adds one stacked bill where two may have been
(DepositManager.m:354); a drop has at most twenty details (Deposit.m:176); an
inactivity expiry taken before the drop ended starts the close timer of the next
(CimStateDeposit.m:267); the inner workflow may be detached in mid operation
(JMainMenuForm.m:4106), and an outer door closed before its inner one may leave the
buzzer on (ExtractionWorkflow.m:912).

### What makes each component correct

- *Door workflow*: no unlock without the users and the delay the door asks for;
  no opening passes for a normal one without an unlock or an alarm; no state
  waits for ever; the buzzer is balanced.
- *Pair of doors*: the inner workflow waits only while the outer operation is in
  progress and holds only its users; a forced outer door unlocks no inner one.
- *Timers*: a timer started fires or is stopped, never early, never twice for
  one start, and always has a slot.
- *Queues*: first in, first out, once each, and nothing stays in.
- *Deposit store*: each bill that entered the safe is stored once; numbers are
  consecutive; the current extraction holds what the deposits hold.
- *Deposit session*: a bill stacked belongs to the drop in progress or to a stored
  one; a drop is stored once; a drop nobody ends ends; nobody waits for ever.
- *Modem link*: what is read is what was written, in order and once; a write that
  ends well has been received; every call returns.
- *Safe box driver*: an answer is taken by the command it answers; every call ends; the
  answers nobody takes do not fill their queue; after a loss of the line commands are
  sent again and the board knows its validators.

## 2. Modules

```
DoorStateMachine ── ExtractionWorkflow ── MCExtractionWorkflow
   │                      └── ExtractionWorkflowProofs
   └── InnerOuterDoors ── MCInnerOuterDoors
          └── InnerOuterDoorsProofs
OneShotTimers ◁ Timers ── MCTimers          (◁: implemented by)
                  └── TimersProofs
Fifo ◁ StaticSyncQueue ── MCStaticSyncQueue
          └── StaticSyncQueueProofs
DepositLedger ◁ DepositRecovery ── MCDepositRecovery
                   └── DepositRecoveryProofs
DepositSession ── MCDepositSession
   └── DepositSessionProofs
DModem ── MCDModem
   └── DModemProofs
SafeBoxHAL ── MCSafeBoxHAL
   └── SafeBoxHALProofs
```

**DoorStateMachine.** `ExtractionWorkflow.m`'s fourteen states. The workflow
object is a record: `st`, `user1`, `user2` (myUser1, myUser2), `hasUnlocked`,
`generate`, `hasOpened`, `force` (myForceTimeDelayOverride) and `timer` (myTimer
is in the table). Each transition table is a set of rows; entry and exit actions
are given by what they have in common (`TimedStates`, `BuzzStates`,
`LogoutStates`, `UnlockStates`). `executeStateMachine` runs one event to
completion, with the nested UNLOCK_ERROR of a command the safe box refuses.
Everything is an operator on records: both door modules use it.

**ExtractionWorkflow.** One door and the four threads that drive it. Actions:
`Ui*` are the stretches of `openDoor` between two dialogs, `ConsoleOpenDoor` and
`CancelTimeDelay` the requests of the console, `PlungerEvent` / `LockerEvent`
put the calls of one device event in `todo`, `DoorOpen`, `DoorEvent` and
`SetLockState` make them one by one, `TimerPick`, `TimerExpire`, `timerExpired`
are the three steps of an expiry. `alarm`, `keys`, `served`, `hurried`, `turned`,
`forced` and `stale` are history variables that only the properties read: an expiry
that the timer thread had taken before a time delay began is `stale`, a delay that ran
its whole time is `served`, one that a stale expiry cut short is `hurried`, and `turned`
is a lock turned in Idle with no command given.

**InnerOuterDoors.** Two workflows, the inner one attached with
`setInnerDoorWorkflow`. `Follow` is what the outer workflow's entries and exits
do to the inner one: idleExit starts it (startOuterDoorOpen), four entries cancel it
(`CancelStates`: idleEntry 1012-1047, waitLockDoorErrorEntry 1338-1340,
openDoorViolationEntry 1487-1489, waitCloseDoorErrorEntry 1511-1513), and
removeLoggedUsers clears its users. `OuterDoorOpen` makes both calls of onDoorOpen
(867-871): first the outer event, with what follows from it, then onOuterDoorOpen.
The doors have a plunger each and no lock sensor.

**OneShotTimers / Timers.** `Timers` is the table of `ctimers.c` with the
unprotected fields of each `OTimer`. What the mutex protects is one step; each
access outside it is a step of its own: `start` is up to seven of them, an expiry
five. `expires` is abstracted to zero, future or past. `handle_ctimers` reads the
clock once per scan; the model looks at it again at each slot, which only lets a
timer fire in this scan instead of the next. `OneShotTimers` is the timer that
the two door modules use (`w.timer`, `TimerPick`, `TimerExpire`,
`timerExpired`), so that the refinement justifies their three-step expiry.

**Fifo / StaticSyncQueue.** The circular buffer of `queue.c` under
`StaticSyncQueue.m`'s mutex and semaphore, one step for each access to either;
an exception leaves the method where it stands.

**DepositLedger / DepositRecovery.** Automatic drops, `endDeposit` and
`recoverDeposits`, one step per record written or file emptied, with a power cut
possible between any two. `header` and `details` are the temporary deposit of each
cash on disk, `deposits` the stored ones, `stacked` the count that survives in
the validator. `job` is the call of endDeposit or of the recovery in progress.
The ledger says that a drop is booked once and whole. Amounts are sums over all
deposits (`SumOver`): each is the number of its units, a cardinality, and not a
recursion, so that the provers can reason about it.

**DepositSession.** The validated drop in memory, where DepositRecovery is the
same drop on disk. `cur` is CimManager's current state, `dep` CimStateDeposit's
myDeposit, `mutex` its mutex, `drop` whether POSAcceptor's myDrop is set. Each
operator and the timer thread is at a `pc` inside `setCurrentState`: the actions
from `deactivateState` to `return` are the stretches of that call between two
places where another thread may change what it reads next. `want`, `hw` and
`events` are the validator and the queue of its reports; `statusChange`,
`onBillRejected`, `onBillAccepted`, `addDepositDetail` and `saveDepositDetail` are
the dispatcher. Nothing keeps an operator from starting or ending a drop at any moment:
POSAcceptor looks at its own myDrop (`openCash`, `closeCash`: POSAcceptor.m:1258, 1412),
the screen and the console at nothing. `bag` is the sensor of the bag. The callers look
at it before they start a drop (POSAcceptor.m:1313, JMainMenuForm.m:2900,
SystemOpRequest.m:586); by the time the validator is opened it may be out, and
BillAcceptor open throws (BillAcceptor.m:177, `openThrows`): the mutex is released, no
timer is started and the deposit stays. The point of sale has not set myDrop then and may
start again over that deposit. Three history variables tell apart what the properties
say: `early`, an open or a close returned on an error of the validator; `crossed`, a drop
was started although another drop or call was in progress, or a call that sets Idle
began between the two steps of a start (`StartAcross`, `EndAcross`); `unwatched`, the
drop in progress was opened without the bag, and without timers.

**DModem.** Both ends of the modem link, each with the writer and the reader of
`dmodem.c` (`wr`, `rd`) run by the engine of `ptsm.c`. A frame travels as one item
(its bytes are read one by one, but nothing else can be done with them than
accept or discard the frame), the two bytes of an acknowledgement as two. One
action is one event and the chain of handlers it sets off. `wr_transitions` is
given by its rows (`wr_none`, `wr_retrans`, `wr_uplayerto`); of `rd_transitions`
the states inside a frame are collapsed. `Lose` and `Garble` are the line; `late`
says whether an answer may take longer than the frame timer, which the code
cannot exclude (its `expires` is a duration, dmodem.c:654). `wr.cuts`
(where its frames so far began, the next one included), `rd.no` (the position of the
frame the reader expects) and the `no`, `again` of a frame are history fields: no guard
reads them.

**SafeBoxHAL.** The threads that call `SafeBoxHAL.m` and the one thread of
`safeBoxMgr.m` that talks to the board. A caller is at a `pc`: it takes `myMutex`
(or not: unLock, setAlarm) and fills the global `qElem` (`Fill`), copies it to
`queuedActions` (`Add`), sees an answer (`CountSeen`) and takes it (`Pop`), or gives
up (`Timeout`). `call` and `left` say which command of which operation it has given;
one operation stands for its kind: `sbCommand` one command of 60 seconds, `fsBlank`
one of minutes, `fsWrite` several under one lock, `sbChangePassword` several in one
lock each. `thread` is where safeBoxMgrRun is: it polls (`SendConfig`,
`safeBoxGr1GetStatus`), waits for the answer to the configuration
(`valConfigApplied`), and unless `commError` sends one command
(`safeBoxProcessQueuedElem`) and waits for its answer (`safeBoxWriteRead`).
`billAcceptorSetParams` is the start-up, in its two assignments; callers begin when
it is over (`CimManager start` comes before the console and the screens in
`CtSystem.m`). Time is only what lets a call give up: the thread is held up by an
error or by a command of minutes, or no answer will come (`HeldUp`, `Gone`).
`timedOut`, `shared`, `mixed` and `glitch` are history variables: the calls on a device
that gave up, the locks two threads have opened at once, a command queued in the place
of another, a loss of the line that the program has not seen as one. A lock is opened by
the workflow of its door, without the mutex and without a lock of the workflow's own
(state_machine.c:18), so two threads may open one lock at once.

## 3. Runs

Passing runs (each finishes within three minutes):

| Run | What it shows |
|---|---|
| `dual_key_door` | one door, two keys, plunger and lock: the six properties of a door, whatever the order of screen, console, sensors and timer (266 000 states) |
| `locker_door` | one key, only a lock sensor, a user without access; every timed state is left and an unturned lock raises the alarm (the safety properties of this door are covered by the theorems, which hold for every sensor type) |
| `inner_door` | the pair: waiting, credentials and timers of both workflows, and a forced outer door that unlocks no inner one waiting for it (20 000 states) |
| `timer_table` | a one-shot and a periodic timer on three slots: one slot each, never refused, never early, fires or is stopped; implements `OneShotTimers` |
| `event_queue` | two producers, two consumers, a queue that fills up: implements `Fifo`, is never found empty, and while it is not full everything is taken |
| `power_cuts` | two drops, of one cash or of two, and two power cuts anywhere, in the recovery too; implements `DepositLedger` (108 000 states) |
| `deposit_session` | two drops, a bill, a point of sale, a screen that looks at nothing and the timers, which start and end drops at any moment, an error of the validator or a bag taken out: no drop stored twice and every call returns, always; no bill outside a drop, nothing left at rest and every drop ended, until a drop is started across another (282 000 states) |
| `link` | two messages of one to three frames over a line that loses, alters or refuses any item once, answers in time or not: order, acknowledgements, retries, and the end of every call (361 000 states) |
| `safe_box` | a screen, a console, which may both open the lock, and the board's thread, two losses of the line with or without a reset of the board: an answer goes to its command, the program aborts only after calls gave up, the configuration reaches the board, calls end, commands are sent once the line stays up (547 000 states) |

Each property of a passing run has a mutant in `PROJECT.json`: the same model with
a plausible bug (a dropped guard, a missing reset, a swapped order), in which the
run finds the property violated.

Runs that find a disagreement between the code and what the repository says of it:

| Run | Finding |
|---|---|
| `inner_dual_key` | the outer door opens between two logins, in a state of the outer workflow that ignores it (DoorLockAndOpen): the inner workflow, in Idle with the first user, is not guarded against an opening, and the dual key inner door is sent the command with that one user |
| `temp_leftovers` | a power cut between the two deletions of clearDeposit, and another in the next drop, store the earlier bills again |
| `pos_drop` | the report of the last drops clears POSAcceptor's record of the drop in progress; the next opening passes its test and replaces the deposit, whose bills are then in none |

Deviations met while modelling that no run repeats; each can be seen by checking the
property named in the run named:

- `ErrorMeansOpen` in `dual_key_door`: a door closed while its second unlock is awaited
  is forgotten (`WaitUnlockDoorWithOpenDoor`, ExtractionWorkflow.m:467, has no
  CLOSE_DOOR row), and two timers later it is an alarm, "el usuario no cerro la puerta".
- `DelayFullyServed` in `dual_key_door`: an expiry already picked (ctimers.c:83) when its
  time delay is cancelled ends the next time delay at once. `DelayRespected` says that
  this (`hurried`) is the one way around the delay.
- `AccountedOpening` in `dual_key_door` without `turned`: a lock turned in Idle with no
  command given leads to WaitLockDoor and an opening from there to WaitCloseDoorWarning
  (ExtractionWorkflow.m:202, 395), without an unlock command and without the violation
  alarm. `AccountedOpening` says that this is the one way, and that none leads to
  WaitCloseDoor, the normal opening.
- `MergedIntoOwnCash` in `power_cuts` with `SameSecond = TRUE`: a temporary deposit opened
  in the same second as the last deposit of another cash is merged into it
  (DepositManager.m:380 compares a cash with itself).
- `Delivered` in `event_queue`: a push into a full queue throws with the mutex locked
  (StaticSyncQueue.m:43); nothing is ever taken again.
- `WriteIsDelivered` in `link`: rd_seqno believes the sequence byte before its complement
  and the checksum have been read (dmodem.c:1102); a new frame whose byte is altered to
  that of the last one is taken for a repetition, acknowledged and thrown away, and the
  write ends without an error. dmodem.h:164 has dmodem_write look after the reception of
  its frames.
- `WriteIsDelivered` in `link` without damages (`MaxFaults = 0`), with `Sizes = {5}`,
  `BufSize = 4` and answers in time: the reader's buffer (`BufSize`, 1024 bytes) drops what does not fit, after the frame was acknowledged
  (dmodem.c:952), although dmodem.h:84 lets a blocking read wait for as many bytes as asked.
- `OwnAnswer` in `safe_box` without `timedOut`: the answer to a call that has given up is
  taken by the next call on the device as its own; fsBlank gives up after five minutes
  (SafeBoxHAL.m:1037), its answer is awaited for eight (safeBoxMgr.m:43).
- `OwnAnswer` in `safe_box` without `mixed`: two threads fill the global element before
  either copies it (safeBoxMgr.m:499); one command is sent twice, the other never.
- `OwnAnswer`, `NeverAborted` and `CallsEnd` in `safe_box` without `shared`: of two threads
  that open one lock at once (executeStateMachine has no lock, state_machine.c:18) both may
  see the one answer that is there (SafeBoxHAL.m counts it before it takes it); one takes it
  and the other waits in the queue, without a limit.
- `BillAccounted`, and `AtRest` and `DropEnds` without `crossed`, in `deposit_session`: a drop
  started across another one (startDeposit looks at nothing, CimManager.m:375) replaces its
  deposit, and the state set last is not always that of the deposit (CimManager.m:206).
- `DropEnds` in `deposit_session` without `unwatched`: BillAcceptor.m:177 throws inside
  activateState; the deposit stays with no timer, and nobody ends it but an operator.
- `RetriesSuffice` counts retries per write, as dmodem.c does; dmodem.h:62 speaks of the
  retries of a frame.
- `ConfigReaches` in `safe_box` without `glitch`: a line lost again between the answer to
  the configuration and the status that ends the error is the same error to
  safeBoxGr1GetStatus, which marks the configuration only when one begins
  (safeBoxMgr.m:330); so is a reset that falls between two polls. The board then keeps
  the configuration of its reset.

`power_cuts` lets no cut follow one that fell between the two deletions
(`CutAgain` is FALSE), because together with another drop that is
`temp_leftovers`; and two cashes do not open in the same second (`SameSecond`).
`DeliveredUnlessFull` stops at the first refused push. In `deposit_session` no start and
no end is forbidden; `StoredOnce` and `CallsReturn` hold of all of them.
`BillAccountedApart`, `AtRest` and `DropEnds` stop where a drop is started across another
drop or call (`crossed`), from where on the code loses bills and drops; they say that
ends alone, however many at once, whenever the next start comes after them, do not.
`BillAccountedApart` and `AtRest` stop, too, at a wait that an error of the
validator ended (`early`): the code then goes on with a validator that may still
take bills. `AckedIsReceived`, `RetransAcked` and `RetriesSuffice` say where they do
not hold: late answers, altered sequence numbers, number 0, a reader that has turned
round.

**Bounds.** Doors: two users are enough for a pair that may open a door, a pair
that may not (the same two in the other order), or a user without
access; nothing else is bounded. Pair: two users. Timers: two timers on three
slots; the thread handles one timer at a time, so two are the one it handles and
another that competes for slots. Queue: capacity 2 (wrap-around, full, empty),
three pushes of each producer. Deposits: two denominations (a deposit of which
some details are stored and some are not needs two), two bills per drop, two
drops (the one the power cut and a later one, or one for each cash), two cuts
(one to leave a drop half done, one to interrupt its recovery). Session: two
drops (one and the next, which must not meet what the first left), a point of sale and
a screen beside the timer thread (one that looks at its myDrop, one that looks at nothing,
and the three that can end a drop at once), one bill (its moment is what matters), and
one (`MaxOthers`) of what else may come: a request to end the drop or to go on with it, a
report, an error of the validator, its bag taken out, a rejected bill. So the end by an
operator is met with the end by the timers and with a second start, and the error with
both. The safety properties were checked with two of these as well (3.6 million states),
which adds the bag that comes back and the end after an error; the proofs cover all bounds. Link:
numbers modulo 4 (the two messages of a session wrap them, so that 0 comes up and is told
from its neighbours; the code counts modulo 256), messages of 2 and 5 bytes in frames of 2
(one frame that is exactly full, whose message ends only by the time-out of the read or by
the bytes asked for; three frames of which the last is short), a reader's buffer that takes
either, one damage with two tries (fewer damages than tries is what `RetriesSuffice` needs). Safe box:
one place in a queue of answers (`AnswerCount` is 10: what matters is that calls that
gave up can fill it), one call of each of two threads, of up to two commands (the
second takes what the first left behind), two losses of the line (the second finds the
recovery from the first half done), one lock that both may open.

The type invariants of InnerOuterDoors, DepositRecovery, StaticSyncQueue, Timers, DModem
and SafeBoxHAL are not among the properties of the runs: `TypeOK` holds in each of those
runs when added to its configuration, and those of Timers, StaticSyncQueue and DModem are
theorems.

**Deadlock** is checked in the door and timer runs. The others may stop: the bounds
on drops, pushes and messages are used up. That nobody waits for ever there is said by
`CallsReturn`, `CallsEnd` (of the link and of the safe box) and `DeliveredUnlessFull`.

**Fairness.** `WF(Timer)` and `WF(handle_ctimers)`: `thread_handle` is an endless loop
that sleeps and scans; it stops only at shutdown or if a callback throws, which
is listed as a hazard. `WF(Elapse)`: time passes. `WF(Producer)`, `WF(Consumer)`: a
thread that is inside pushElement or popBuffer and not blocked goes on; no
fairness is assumed of beginning a push. `WF(setCurrentState(t))` for an operator: a thread inside that
call goes on when it is not waiting; `WF(setCurrentState("timer") \/ TimerThread)` and
`WF(Dispatcher)`: those two threads are endless loops; `WF(Obey)`: the validator obeys, or the machine reports an error.
`WF(proto_engine(e))`: the engine polls in a loop; `WF(txuplayer_timer_handler)`,
`WF(rxuplayer_timer_handler)`: a timer of the table fires, which is `Fires` of
`Timers`. `WF(Caller(c))`: a thread inside a call goes on unless it waits for the mutex,
or for an answer that may still come; `WF(safeBoxMgrRun)`: the board's thread is an
endless loop; `WF(billAcceptorSetParams)`: the start-up ends. Nobody has to call, and the
line need not come back: `Served` is about lines that stay up. Screens, console, point of sale, sensors and the line have none: no
bill, damage or request ever has to happen.

## 4. Proofs

TLAPS checks these for every value of the constants (users, profile, key count, sensor,
timers and slots, operators, threads and locks, all bounds):

- `ExtractionWorkflowProofs`: `TypeCorrect`, `NeverStuckAlways`, `BuzzerAlways`,
  `DualControlAlways`, `DelayAlways`, `AccountedAlways`. The
  assumptions are `UserAssumption` and `DoorAssumption`. Every step is of one of
  three kinds: it leaves the workflow's state alone or only clears users and
  flags (`Quiet`), it is `TimerExpire`, or it runs one event of the machine
  (`Ran`); the invariant is shown once per kind. None of the properties is
  inductive alone: DualControl needs that the users now logged in were checked when
  they logged in (`UsersOK`), DelayRespected that a forced override is only set
  with its history flag (`ForceOK`) and that AccessTime means a delay served or hurried
  (`Served`), AccountedOpening which states imply hasUnlocked, an alarm or, for the late
  ones, a turned lock (`Accounted`).
  The module begins with the lemmas on the tables: where each row leads, what an event
  does to each field; those that the pair needs are repeated in `InnerOuterDoorsProofs`.
- `InnerOuterDoorsProofs`: `NeverStuckPairAlways`, `ViolationKeepsLockedAlways`,
  `InnerWaitsForOuterAlways`, `SameCredentialsAlways`, from `UserAssumption` and
  `PairAssumption`. The first two hold whichever doors the operator asks for; the first's invariant is that both workflows are well
  formed and armed (`Pair`), and each step is shown to keep each workflow armed (`Keeps`)
  or to be one of the three steps of an expiry. ViolationKeepsLocked needs that an inner
  workflow that waits has not sent a command (`Quiet`) and that the violation's entry has
  taken the wait and the users from it before the opening is passed on. The other two assume
  `Targets = {"inner"}`, as the run does: who asks for the outer door detaches the inner
  workflow in mid operation, which then nobody tells of the end (listed above; TLC finds
  both properties violated with both targets). They need that an inner workflow not
  linked yet has no users and does not wait (`Detached`); the lemmas `FollowFields` and
  `EventPair` say what one event of the outer workflow does to both.
- `TimersProofs`: `OneSlotAlways`, `NeverEarlyAlways`, `TypeCorrect`,
  `NeverRefusedAlways`, `OneShotRefinement`, from `TimersAssumption`. The invariant
  says, for each timer, how many slots it may occupy given where the thread that starts
  it and the timer thread are (`Count`), that a timer in the table has a date (`Dated`),
  and that the thread works on a timer exactly while it is between Pick and Return
  (`CurrentOK`). NeverRefused follows by counting: a table without a free slot has two slots
  of one timer, which only the timer that is expiring may have, and with one slot more
  than timers that pays for only one of the two that would be too many (`FreeSlot`). With the refinement the timer of the door modules is no assumption:
  what they say of `TimerPick`, `TimerExpire` and `timerExpired` is what the table does.
- `StaticSyncQueueProofs`: `NeverEmptyAlways`, `TypeCorrect`, `FifoRefinement`, from
  `QueueAssumption`, for any number of producers and consumers and any size. NeverEmpty
  is not inductive: it needs that each element is counted by the semaphore, or by a
  consumer the semaphore let through, or by a push that has not announced it yet
  (`Announced`), that whoever is in the buffer holds the mutex (`Exclusive`), and where
  the elements stand in the ring (`Ring`, `Halfway`). The refinement maps the ring to
  the sequence of its elements and a step to push or pop where the count changes.
- `DepositRecoveryProofs`: `NumbersConsecutiveAlways`, `TotalsMatchAlways`,
  `NothingInventedAlways`, `NothingLostAlways`, `MergedIntoOwnCashAlways` and
  `LedgerRefinement`, for any cashes, denominations, times, bills and number of power
  cuts. The two hypotheses are the two flaws named above: `~CutAgain` (no cut after one
  between the two deletions, else `temp_leftovers`) and `~SameSecond`. The invariant
  relates what a drop is known by in five places: the bills in the safe (`dropped`), the
  validator's count (`Counted`), the deposit in memory, which may lack the one bill whose
  event is pending (`Sessions`), the temporary deposit, which is whole or lacks the last
  bill (`Temps`), and the deposit being written, whose missing details are the last
  ones (`JobOK`, `Stores`). `Clock` is why comparing opening times tells drops apart,
  `Totals` what the extraction lacks while a deposit is being written, `Accounted` that
  a drop that has ended is stored, in a temporary deposit, or was one audited bill.
- `DepositSessionProofs`: `DepositStoredOnce` and `SessionTypes`, from
  `SessionAssumption`, for any number of operators, whatever they look at, and all
  bounds. StoredOnce is not inductive: that a deposit is stored while it is the
  current one is harmless only because the thread that stored it holds the mutex
  until it has made myDeposit NULL (`Forgetting`), which needs that the mutex is
  held exactly between lock and unlock (`Exclusive`) and that a new deposit has
  not been stored (`Started`). Every step takes the mutex (`Lock`), moves with it
  (`Inside`), moves without it (`Away`, `Outside`) or leaves it alone (`Frame`). The
  theorem holds for operators that overwrite each other's drops too: `pos_drop`
  loses a deposit and never stores one twice.
  `BillAccountedApartAlways` and `AtRestAlways` need no hypothesis either: their
  properties stop at `crossed`, and `pos_drop` shows `BillAccounted`, which does not,
  violated. The invariant (`JInv`) is that, until a start is crossed, a thread that
  starts a drop is alone (`Starting`), that whoever holds the mutex has told the validator
  what it waits for (`Commanded`), that the validator's obedience is behind its bills
  in the queue of reports (`Ordered`, `Settled`: so whoever has seen it stop has seen its
  last bill), and which sets the bills of the drop pass through (`Kept`, `Accounted`);
  the last three hold until a wait ends on an error (`Valve`).
- `SafeBoxHALProofs`: `OwnAnswerAlways`, `ConfigReachesAlways`, `NeverAbortedAlways`,
  from `SafeBoxAssumption`, for any number of threads, locks, places, calls and losses
  of the line. That an answer is there and is one's own is not inductive: of the commands
  whose answer somebody waits for, at most one per device may be anywhere between the
  queue, the thread and the answers (`Flight`), and it is the last one of the thread that
  waits. A second one cannot be given, because whoever gives one is alone on the device
  (`Alone`): on the board by the mutex (`Holds`), on a lock as long as no two threads have
  opened it at once (`OneUnLock`). The guards of the property are where the argument
  ends: a call that gives up leaves its command behind, two threads that fill the
  global element queue one command twice, and two that open one lock share its answers. NeverAborted counts (`Owed`): the answers of a
  device, the commands in the queue and the one sent are no more than the calls that gave
  up, and one if somebody waits; hence an answer for which there is no place means that
  as many calls gave up as there are places. ConfigReaches rests on the configuration
  being sent whole once (`Whole`) and pending while an error of a lost line lasts
  (`Pending`).
- `DModemProofs`: `LinkTypes`, `InOrderAlways`, `RetransAckedAlways`,
  `AckedIsReceivedAlways`, `RetriesSufficeAlways`, for any messages, damages, tries and
  sequence numbers, from `LinkAssumption` and two hypotheses. `Distinguishes`: the numbers do not come round
  within the tries of one frame, which with 256 numbers and a few tries they do not.
  `MessagesFit`: the reader's buffer takes a message. The code does not ensure it: a read
  may ask for up to 32767 bytes (`TELESUP_MSG_SIZE`), the buffer takes 1024, and the rest is
  acknowledged and dropped (listed above); the theorems are about the messages that
  fit. The link is half duplex, and the invariant follows
  from who owns the turn: at any moment one end, the owner, writes or may write
  (`Modes`), its frames travel one way and their answers the other (`LinkAt`). For the owner the
  line holds a few repetitions of the frame before, then some of the present one (`Ordered`,
  `FramesOK`), and the reader is at most one frame ahead of the writer (`Ahead`). A number
  can thus mean only one frame (`LessThanATurn`, `ExpectedFrame`), unless it was altered: an altered one makes the
  reader refuse or repeat, never accept out of order, which is `InOrder`. An answer carries
  no number, so `AckedIsReceived` needs more: while answers are in time (`Punctual`)
  there is one token for the present frame, on the line as a frame, in the reader, or on
  the line back as one answer (`Alone`, `Acked`), and only a time-out, which then comes after
  the answer was lost, makes the next. `RetransAcked` follows from the numbers: a good
  frame that the reader refuses is none that it has taken, but for the one before number 0.
  `RetriesSuffice` is a sum of retries against damages (`Spent` in `RetryAt`, invariant
  `RetryInv`): while the owner writes and the other end reads or is about to (`Hears`), the
  retries are at most the damages, and fewer when neither a sound frame (`GoodFrames`) nor an
  acknowledgement (`Coming`) is under way, unless the reader has the frame and expects
  number 0 (`Stuck`), when it refuses every repetition. A frame is only sent again when
  nothing is coming (`NothingComing`), so the damage that lost it pays for the retry; and
  since the error closes the session (`ErrAt`), no later step sets it a second time.
  Each step is one of seven kinds (`EngineMove` of
  either end, `ReaderMove`, `LineMove`, `WriteMove`, a timer, a change of owner), and the
  invariant is shown once per kind.

Only model-checked, and why: the liveness properties (`Progress`, `Fires`,
`DeliveredUnlessFull`, `CallsReturn`, `DropEnds`, `CallsEnd`, `Served`) need fairness and
ENABLED, which are out of the prover's reach. `InnerDualControl`,
and `NothingInvented` and `BillAccounted` in the two other violation runs, are false there.

## 5. Not modelled

- Door workflow: the direct extraction of PLUNGER_EXT doors, the manual door of the
  FLEX model, bag tracking, exceptions of generateExtraction, the two users
  remembered for the cancellation of a delay, two threads inside one
  executeStateMachine; for the pair, the console, the commercial state form and
  a change of `setInnerDoorWorkflow` in mid operation.
- Deposits: envelopes, two deposits ended at once, rejected bills, a deposit
  number set by configuration, the copy in the backup memory, validators that do
  not answer at start-up, the extraction that empties the totals.
- Timers: `mod_ctimer`, two threads starting the same timer.
- Session: manual and extended drops (and with them two deposits that take the same
  number at DepositManager.m:105), several validators of one cash, full stackers,
  validation mode, the limit of 20 details (a bill beyond it is lost when the
  dispatcher swallows the exception), a full stacker found when the validator is opened
  (Cim.m:375), the end of the drop in progress at shutdown (CimManager.m:1280), the forms
  of the screen. The form closes at
  onCloseDeposit, before the deposit is stored; a drop started in between is ended
  in its place. The console always answers the warning of inactivity with
  needMoreTime (SystemOpRequest.m:757), so with a warning time its drops do not end
  by inactivity: the model's `MaxOthers` bounds such requests.
- Link: connect, accept and disconnect. `dmodem_accept` answers with ACK where
  `dmodem_connect` waits for NACK, `dmodem_disconnect` starts the engine in a state
  its table does not have; the carrier, non blocking reads, `dmodem_init` in
  mid session, and data bytes that look like an acknowledgement.
- Safe box driver: the firmware updates (which stop the polling and mark the
  configuration again, safeBoxMgr.m:1092), the version request before the first poll, the
  events of sensors, the polling of the validators between two commands, the 150 places
  of the queue of commands and its counters without a lock, the bytes of a frame, and an
  answer that arrives when its read has ended and is read for the next command. A lock
  that was not answered is not reported to its caller (safeBoxUnLockRta), who gives up
  after a minute; that is modelled.
- Whole components: see `PROJECT.json`. Drivers, protocols, reports, screens and
  storage are input and output; the database's single writes are taken as
  atomic.
- **How much of the repository this is.** Counted in lines it is little: most of the C
  in the tree is third-party (expat, OpenSSL's headers, the 1-Wire kit under
  `system/dev/dallas`, the SQL and FTP libraries), and the program itself is Objective-C,
  most of which is forms, reports, message formats and settings. Its concurrent and
  fault-handling core is the components above.

## 6. Plan

Done: the core (door workflow and its proofs), the pair of doors, the deposit
store and its recovery, the timers, the queue, the deposit session and the driver of
the safe box and the modem link, each with its proofs. Next, in order:

1. Proofs: OneShotTimers composed with the door modules.
2. SafeBoxHAL composed with the unlock of the workflow.
3. **Extraction** (`ExtractionManager.generateExtraction`): its steps, power cuts
   between them, the totals it empties; composed with DepositRecovery's `total`.
4. Extended drops in DepositSession; the pair of doors with the inner workflow changed
   in mid operation; executeStateMachine split into its exit, action and entry.
5. Connection and disconnection of the modem link; timers with two threads on one
   timer.
