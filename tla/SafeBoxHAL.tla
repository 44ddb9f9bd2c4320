------------------------------ MODULE SafeBoxHAL ------------------------------
(***************************************************************************)
(* SafeBoxHAL.m over device/safeBoxMgr.m: the commands the threads of the   *)
(* program give to the board of the safe, which one thread sends over a     *)
(* serial line, and their answers. A command is put in a queue through one  *)
(* global element, without a lock; its answer comes back in the queue of    *)
(* the device (the board itself, or a lock), which holds AnswerCount and    *)
(* does not say to which command it belongs. Between commands the thread    *)
(* asks for the status of the board and tells it how the bill validators    *)
(* are connected. Time is left out but for what it may bring: a call gives  *)
(* up while the thread is held up or when no answer will come.              *)
(***************************************************************************)
EXTENDS Naturals, Sequences

CONSTANTS
    Callers,     \* threads that call SafeBoxHAL
    Does,        \* the operations each of them calls
    Locks,       \* locks of the doors
    SAFEBOX,     \* the board, as a device
    AnswerCount, \* answers the queue of a device is created for
    MaxCommands, \* bound: no call begins after this many commands of a thread
    MaxOutages,  \* bound: times the line is lost
    NoThread,    \* the mutex is free
    NoCommand    \* nothing has been sent

Operations == {"sbCommand", "sbChangePassword", "fsWrite", "fsBlank", "unLock",
               "setAlarm", "setUnlockEnableTime"}
Devices == Locks \cup {SAFEBOX}
Validators == 2

ASSUME SafeBoxAssumption ==
    /\ Does \in [Callers -> SUBSET Operations]
    /\ SAFEBOX \notin Locks /\ NoThread \notin Callers
    /\ AnswerCount \in Nat \ {0} /\ MaxCommands \in Nat /\ MaxOutages \in Nat

(* A command: the operation it is for, the device that answers it, and which *)
(* of its caller's commands it is. sbCommand stands for the methods that     *)
(* send one command to the board and wait 60 seconds for its answer: users,  *)
(* passwords, devices and files. fsBlank stands for those of minutes.        *)
Command == [op: Operations, dev: Devices, caller: Callers, n: 1 .. MaxCommands + 1]

VARIABLES
    pc,               \* where each caller is
    call,             \* the last command of each caller
    left,             \* commands of its call that are still to be given
    myMutex,          \* of SafeBoxHAL
    qElem,            \* the global element of safeBoxMgr
    queuedActions,    \* commands to be sent
    answers,          \* of each device: to which command, and whether one was read
    thread,           \* where the thread of the board is
    current,          \* the command it has sent, until its answer
    commError,        \* safeBoxCommErrorStatus
    valConfig,        \* validators whose connection has been set
    setting,          \* billAcceptorSetParams has yet to set valConfigPending
    valConfigPending,
    allConfigured,
    sentConfig,       \* valConfig as it was sent, until the answer
    boardConfig,      \* validators the board has the connection of
    line,             \* the serial line is "up" or "down"
    outages,          \* times it was lost
    timedOut,         \* history: calls on each device that gave up
    shared,           \* history: the locks two threads have opened at once
    mixed,            \* history: a thread queued the command of another
    glitch            \* history: the line came back unnoticed, or was lost
                      \* again before the program had recovered

callers == <<pc, call, left, myMutex, qElem, timedOut, shared, mixed>>
config == <<valConfig, setting, valConfigPending, allConfigured, sentConfig, boardConfig>>
wire == <<line, outages, glitch>>
vars == <<callers, queuedActions, answers, thread, current, commError, config, wire>>

Init ==
    /\ pc = [c \in Callers |-> "idle"]
    /\ call = [c \in Callers |-> [op |-> "sbCommand", dev |-> SAFEBOX, caller |-> c, n |-> 0]]
    /\ left = [c \in Callers |-> 0]
    /\ myMutex = NoThread /\ qElem = NoCommand /\ queuedActions = <<>>
    /\ answers = [d \in Devices |-> <<>>]
    /\ thread = "poll" /\ current = NoCommand /\ commError = FALSE
    /\ valConfig = 0 /\ setting = FALSE /\ valConfigPending = FALSE
    /\ allConfigured = FALSE /\ sentConfig = 0 /\ boardConfig = 0
    /\ line = "up" /\ outages = 0
    /\ timedOut = [d \in Devices |-> 0] /\ shared = {} /\ mixed = FALSE /\ glitch = FALSE

Running == thread # "aborted"

-----------------------------------------------------------------------------
(* Mutation: the operations on the board are not serialised. *)
UsesMutexNever(op) == FALSE

UsesMutex(op) == op \notin {"unLock", "setAlarm"}
Waits(op) == op \notin {"setAlarm", "setUnlockEnableTime"}

(* sbChangePassword gives two commands in two calls, fsWrite (and fsRead) as *)
(* many as the data needs in one.                                            *)
Commands(op) == IF op \in {"sbChangePassword", "fsWrite"} THEN 2 ELSE 1

Goto(c, to) == pc' = [pc EXCEPT ![c] = to]

(* The start-up sets the validators before it starts the threads that call.  *)
Started == valConfig = Validators /\ ~setting

(* A thread calls SafeBoxHAL. A lock is opened by the workflow of its door   *)
(* alone, which two threads may run at once.                                 *)
Begin(c, op, dev) ==
    /\ Running /\ Started /\ pc[c] = "idle" /\ call[c].n < MaxCommands
    /\ LET other == \E o \in Callers : pc[o] # "idle" /\ call[o].dev = dev
       IN  shared' = IF op = "unLock" /\ other THEN shared \cup {dev} ELSE shared
    /\ call' = [call EXCEPT ![c] = [op |-> op, dev |-> dev, caller |-> c, n |-> @.n + 1]]
    /\ left' = [left EXCEPT ![c] = Commands(op) - 1]
    /\ Goto(c, "begun")
    /\ UNCHANGED <<myMutex, qElem, timedOut, mixed, queuedActions, answers, thread, current,
                   commError, config, wire>>

(* With the mutex, unless the operation takes none, the global element is    *)
(* filled ...                                                                *)
Fill(c) ==
    /\ Running /\ pc[c] = "begun"
    /\ IF UsesMutex(call[c].op)
       THEN myMutex \in {NoThread, c} /\ myMutex' = c
       ELSE UNCHANGED myMutex
    /\ qElem' = call[c] /\ Goto(c, "add")
    /\ UNCHANGED <<call, left, timedOut, shared, mixed, queuedActions, answers, thread, current,
                   commError, config, wire>>

UnLock(c) == myMutex' = IF myMutex = c THEN NoThread ELSE myMutex

(* ... and copied to the queue, whoever filled it last. *)
Add(c) ==
    /\ Running /\ pc[c] = "add"
    /\ queuedActions' = Append(queuedActions, qElem)
    /\ mixed' = (mixed \/ qElem # call[c])
    /\ IF Waits(call[c].op)
       THEN Goto(c, "wait") /\ UNCHANGED myMutex
       ELSE Goto(c, "idle") /\ UnLock(c)
    /\ UNCHANGED <<call, left, qElem, timedOut, shared, answers, thread, current, commError, config,
                   wire>>

(* waitForEvent: the queue of the device has an answer. *)
CountSeen(c) ==
    /\ Running /\ pc[c] = "wait" /\ answers[call[c].dev] # <<>>
    /\ Goto(c, "pop")
    /\ UNCHANGED <<call, left, myMutex, qElem, timedOut, shared, mixed, queuedActions, answers,
                   thread, current, commError, config, wire>>

(* The next command of the call. *)
Another(c) ==
    /\ left' = [left EXCEPT ![c] = @ - 1]
    /\ call' = [call EXCEPT ![c].n = @ + 1]

(* The answer decides how the call goes on: a failure, of the board or for   *)
(* want of an answer of it, is thrown and the mutex released; the data of    *)
(* fsWrite are sent under one lock.                                          *)
Pop(c) ==
    LET dev == call[c].dev
    IN  /\ Running /\ pc[c] = "pop" /\ answers[dev] # <<>>
        /\ answers' = [answers EXCEPT ![dev] = Tail(@)]
        /\ \E more \in {FALSE, Head(answers[dev]).read /\ left[c] > 0} :
             /\ Goto(c, IF more THEN "begun" ELSE "idle")
             /\ IF more /\ call[c].op = "fsWrite" THEN UNCHANGED myMutex ELSE UnLock(c)
             /\ IF more THEN Another(c) ELSE UNCHANGED <<left, call>>
        /\ UNCHANGED <<qElem, timedOut, shared, mixed, queuedActions, thread, current, commError,
                       config, wire>>

(* The thread does not send commands, or waits for one that takes minutes.   *)
HeldUp == commError \/ (thread = "answer" /\ current.op = "fsBlank")

(* The caller's command has been dealt with, or was never queued.            *)
Gone(c) ==
    /\ \A i \in 1 .. Len(queuedActions) : queuedActions[i] # call[c]
    /\ thread = "answer" => current # call[c]

(* Mutation: the time-out leaves without releasing the mutex. *)
TimeoutStillLocked(c) ==
    /\ Running /\ pc[c] = "wait" /\ answers[call[c].dev] = <<>>
    /\ HeldUp \/ Gone(c)
    /\ timedOut' = [timedOut EXCEPT ![call[c].dev] = @ + 1]
    /\ Goto(c, "idle") /\ UNCHANGED myMutex
    /\ UNCHANGED <<call, left, qElem, shared, mixed, queuedActions, answers, thread, current,
                   commError, config, wire>>

(* waitForEvent: CIM_COMMAND_TIMEOUT_EX. The command stays where it is. *)
Timeout(c) ==
    /\ Running /\ pc[c] = "wait" /\ answers[call[c].dev] = <<>>
    /\ HeldUp \/ Gone(c)
    /\ timedOut' = [timedOut EXCEPT ![call[c].dev] = @ + 1]
    /\ Goto(c, "idle") /\ UnLock(c)
    /\ UNCHANGED <<call, left, qElem, shared, mixed, queuedActions, answers, thread, current,
                   commError, config, wire>>

Caller(c) ==
    Fill(c) \/ Add(c) \/ CountSeen(c) \/ Pop(c) \/ Timeout(c)

-----------------------------------------------------------------------------
(* At start-up the connection of one validator after the other is copied to  *)
(* valConfig; then it is pending.                                            *)
billAcceptorSetParams ==
    /\ Running
    /\ \/ /\ ~setting /\ valConfig < Validators
          /\ setting' = TRUE /\ valConfig' = valConfig + 1
          /\ UNCHANGED valConfigPending
       \/ /\ setting /\ setting' = FALSE
          /\ valConfigPending' = TRUE
          /\ UNCHANGED valConfig
    /\ UNCHANGED <<allConfigured, sentConfig, boardConfig, callers, queuedActions, answers,
                   thread, current, commError, wire>>

(* Mutation: the configuration is not sent once more. *)
OnceMoreNever == FALSE

(* safeBoxMgrGr1ReqStatus sends VALCONFIG_CMD while one is pending, and once *)
(* when both validators are set ...                                          *)
OnceMore == valConfig = Validators /\ ~allConfigured

SendConfig ==
    /\ thread = "poll" /\ (valConfigPending \/ OnceMore)
    /\ thread' = "config" /\ sentConfig' = valConfig
    /\ allConfigured' = (allConfigured \/ ~valConfigPending)
    /\ UNCHANGED <<valConfig, setting, valConfigPending, boardConfig, callers,
                   queuedActions, answers, current, commError, wire>>

(* The queue waits while the board does not answer. *)
Polled == IF commError THEN "poll" ELSE "queue"

valConfigApplied ==
    /\ thread = "config" /\ thread' = Polled /\ sentConfig' = 0
    /\ IF line = "up"
       THEN boardConfig' = sentConfig /\ valConfigPending' = FALSE
       ELSE UNCHANGED <<boardConfig, valConfigPending>>
    /\ UNCHANGED <<valConfig, setting, allConfigured, callers, queuedActions, answers,
                   current, commError, wire>>

(* Mutation: the end of an error is not noticed. *)
safeBoxGr1GetStatusForgets ==
    /\ thread = "poll" /\ ~valConfigPending /\ ~OnceMore
    /\ commError' = (commError \/ line = "down")
    /\ valConfigPending' = (line = "down" /\ ~commError)
    /\ thread' = IF commError' THEN "poll" ELSE "queue"
    /\ UNCHANGED <<valConfig, setting, allConfigured, sentConfig, boardConfig, callers,
                   queuedActions, answers, current, wire>>

(* ... and GR1_CMD, for the status, otherwise. An answer ends the error, the *)
(* lack of one begins it and leaves the configuration pending.               *)
safeBoxGr1GetStatus ==
    /\ thread = "poll" /\ ~valConfigPending /\ ~OnceMore
    /\ commError' = (line = "down")
    /\ valConfigPending' = (line = "down" /\ ~commError)
    /\ thread' = IF commError' THEN "poll" ELSE "queue"
    /\ UNCHANGED <<valConfig, setting, allConfigured, sentConfig, boardConfig, callers,
                   queuedActions, answers, current, wire>>

(* safeBoxProcessQueuedElem: the oldest command is sent ... *)
safeBoxProcessQueuedElem ==
    /\ thread = "queue"
    /\ IF queuedActions = <<>>
       THEN thread' = "poll" /\ UNCHANGED <<queuedActions, current>>
       ELSE /\ thread' = "answer" /\ current' = Head(queuedActions)
            /\ queuedActions' = Tail(queuedActions)
    /\ UNCHANGED <<callers, answers, commError, config, wire>>

(* Mutation: every command has a function for its answer. *)
AnswersAll(op, read) == op # "unLock" \/ read

(* commandsRtaFcn: the function of a command queues an answer, a failure if  *)
(* none was read. That of UNLOCK_CMD does so only if one was read; the       *)
(* commands nobody waits for have none.                                      *)
Answers(op, read) == Waits(op) /\ (op = "unLock" => read)

(* safeBoxWriteRead: ... and answered, or not. A full queue is an exception  *)
(* in a thread that catches none, which ends the program.                    *)
safeBoxWriteRead ==
    LET read == line = "up"
        answer == [of |-> current, read |-> read]
    IN  /\ thread = "answer"
        /\ \/ /\ ~Answers(current.op, read)
              /\ thread' = "poll" /\ current' = NoCommand /\ UNCHANGED answers
           \/ /\ Answers(current.op, read) /\ Len(answers[current.dev]) < AnswerCount
              /\ answers' = [answers EXCEPT ![current.dev] = Append(@, answer)]
              /\ thread' = "poll" /\ current' = NoCommand
           \/ /\ Answers(current.op, read) /\ Len(answers[current.dev]) = AnswerCount
              /\ thread' = "aborted" /\ UNCHANGED <<current, answers>>
    /\ UNCHANGED <<callers, queuedActions, commError, config, wire>>

safeBoxMgrRun ==
    \/ SendConfig \/ valConfigApplied \/ safeBoxGr1GetStatus
    \/ safeBoxProcessQueuedElem \/ safeBoxWriteRead

(* The line is lost, and the board may have been reset. *)
LineLost ==
    /\ Running /\ line = "up" /\ outages < MaxOutages
    /\ line' = "down" /\ outages' = outages + 1
    /\ boardConfig' \in {boardConfig, 0}
    /\ glitch' = (glitch \/ commError)
    /\ UNCHANGED <<valConfig, setting, valConfigPending, allConfigured, sentConfig, callers,
                   queuedActions, answers, thread, current, commError>>

LineBack ==
    /\ Running /\ line = "down" /\ line' = "up"
    /\ glitch' = (glitch \/ ~(commError \/ valConfigPending))
    /\ UNCHANGED <<outages, config, callers, queuedActions, answers, thread, current,
                   commError>>

Next ==
    \/ \E c \in Callers, op \in Operations, d \in Devices :
         op \in Does[c] /\ (op = "unLock" <=> d \in Locks) /\ Begin(c, op, d)
    \/ \E c \in Callers : Caller(c)
    \/ billAcceptorSetParams \/ safeBoxMgrRun
    \/ LineLost \/ LineBack

Spec == Init /\ [][Next]_vars

(* The threads run. Nobody has to call, and the line need not come back.     *)
Fairness ==
    /\ \A c \in Callers : WF_vars(Caller(c))
    /\ WF_vars(billAcceptorSetParams) /\ WF_vars(safeBoxMgrRun)
FairSpec == Spec /\ Fairness

-----------------------------------------------------------------------------
(* Every variable has its type. *)
TypeOK ==
    /\ pc \in [Callers -> {"idle", "begun", "add", "wait", "pop"}]
    /\ \A c \in Callers : call[c].caller = c /\ call[c].n \in 0 .. MaxCommands + 1
    /\ left \in [Callers -> 0 .. 1] /\ myMutex \in Callers \cup {NoThread}
    /\ qElem \in Command \cup {NoCommand} /\ queuedActions \in Seq(Command)
    /\ answers \in [Devices -> Seq([of: Command, read: BOOLEAN])]
    /\ thread \in {"poll", "config", "queue", "answer", "aborted"}
    /\ current \in Command \cup {NoCommand} /\ commError \in BOOLEAN
    /\ valConfig \in 0 .. Validators /\ setting \in BOOLEAN
    /\ valConfigPending \in BOOLEAN /\ allConfigured \in BOOLEAN
    /\ sentConfig \in 0 .. Validators /\ boardConfig \in 0 .. Validators
    /\ line \in {"up", "down"} /\ outages \in 0 .. MaxOutages
    /\ timedOut \in [Devices -> Nat] /\ shared \subseteq Locks
    /\ mixed \in BOOLEAN /\ glitch \in BOOLEAN

(* The answer a call is about to take is that of its own command, although   *)
(* nothing in it says so and the locks are not under the mutex: unless a     *)
(* call on the device has given up before, whose answer is then taken for    *)
(* that of the next, or two threads have opened the lock, or filled the      *)
(* global element, at once.                                                  *)
OwnAnswer == \A c \in Callers :
    pc[c] = "pop" /\ timedOut[call[c].dev] = 0 /\ call[c].dev \notin shared /\ ~mixed
      => answers[call[c].dev] # <<>> /\ Head(answers[call[c].dev]).of = call[c]

(* The queue of answers overflows, which ends the program, only after as     *)
(* many calls on the device have given up as it has places; the two races    *)
(* of OwnAnswer aside.                                                       *)
NeverAborted ==
    thread = "aborted" /\ current.dev \notin shared /\ ~mixed
        => timedOut[current.dev] >= AnswerCount

(* A call ends, with its answer or by giving up: nobody keeps the mutex, and *)
(* a caller that has seen an answer finds it, unless another one that opened *)
(* the same lock took it.                                                    *)
CallsEnd == \A c \in Callers :
    pc[c] # "idle" ~> pc[c] = "idle" \/ call[c].dev \in shared \/ ~Running

(* When the line stays up, the queue is emptied: the error that holds it     *)
(* ends, although it can end only after the configuration has been sent.     *)
Served == <>[](line = "up") => []<>(queuedActions = <<>> \/ ~Running)

(* "Anoto como pendiente la configuracion de validadores por si se resetea   *)
(* la placa, asi vuelve a configurarlos": once both validators are set and   *)
(* nothing is left to be sent, the board has the connection of both, whether *)
(* it was reset, or a validator was set while an older configuration was on  *)
(* its way (its pending mark is lost; OnceMore makes up for it). A line that *)
(* comes back unnoticed, or is lost again before the end of the error, is    *)
(* excluded.                                                                 *)
ConfigReaches ==
    /\ ~glitch /\ (line = "up" \/ commError) /\ Running
    /\ Started
    /\ ~valConfigPending /\ ~OnceMore /\ thread # "config"
    => boardConfig = Validators
=============================================================================
