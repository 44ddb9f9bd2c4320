------------------------------- MODULE DModem -------------------------------
(***************************************************************************)
(* The modem link of the telesupervision (dmodem.c, driven by the engine   *)
(* of ptsm.c): a stop-and-wait protocol in which dmodem_write cuts a       *)
(* message into numbered frames and waits for the acknowledgement of each, *)
(* and dmodem_read collects frames and acknowledges them.  An              *)
(* acknowledgement is a pair of bytes and carries no number.               *)
(*                                                                         *)
(* Two ends run the same code and take turns: the one that has read a      *)
(* whole message answers with another (G2RemoteProxy, G2TelesupD); an      *)
(* error of the link ends the session of the end that sees it.  The bytes  *)
(* an end has written are numbered 1, 2, 3 ...; a frame names the first    *)
(* byte it carries and their number.  A frame travels as one item of the   *)
(* line, the bytes of an acknowledgement as one item each.  The handlers   *)
(* of the engine's table run in one step up to the next wait for an event; *)
(* the timer thread, which only sets flags, runs between those steps.      *)
(*                                                                         *)
(* Four fields record history and are never read by an action: the cuts of *)
(* a writer (where its frames so far began, the next one included), the    *)
(* no of a reader (the position of the frame it expects) and of a frame    *)
(* (its position among the cuts), and whether a frame was sent again.  The *)
(* proofs count with them where the protocol only has numbers modulo       *)
(* SeqMod.                                                                 *)
(***************************************************************************)
EXTENDS Integers, Sequences, FiniteSets

CONSTANTS
    SeqMod,       \* values of a sequence number (an unsigned char: 256)
    MaxRetries,   \* dmconf.max_retries
    MaxData,      \* dmconf.max_data_size
    BufSize,      \* DM_MAX_DATA_READ, the room of databuf
    ReadSize,     \* bytes the application asks dmodem_read for
    Sizes,        \* lengths of the messages the application writes
    MaxMessages,  \* bound: messages in a session
    MaxFaults,    \* bound: damages of the line in a session
    Damages       \* what the line does: subset of {"lose", "body", "seqno", "send"}

ASSUME LinkAssumption ==
    /\ SeqMod \in Nat \ {0, 1} /\ MaxRetries \in Nat \ {0} /\ MaxData \in Nat \ {0}
    /\ BufSize \in Nat \ {0} /\ ReadSize \in Nat \ {0} /\ Sizes \subseteq Nat \ {0}
    /\ MaxMessages \in Nat /\ MaxFaults \in Nat

VARIABLES
    wr,       \* wr_curr_state of each end
    rd,       \* rd_curr_state of each end
    line,     \* the items on their way to each end
    turn,     \* what the application of each end does: "write", "read", "closed"
    err,      \* dm_global_error of each end
    ends,     \* the last byte of each message an end has written, so far
    got,      \* the bytes dmodem_read has returned to the application
    faults,   \* damages so far
    garbled,  \* whether a sequence number has been damaged
    late      \* whether an answer may be slower than the time-outs

vars == <<wr, rd, line, turn, err, ends, got, faults, garbled, late>>

Ends == {"a", "b"}
Peer(e) == IF e = "a" THEN "b" ELSE "a"
AckBytes == {"ACK", "ACKCOMP", "NACK", "NACKCOMP", "junk"}
Byte(b) == [b |-> b]
Frame(seqno, first, len, no, again) ==
    [b |-> "SOH", seqno |-> seqno, first |-> first, len |-> len, good |-> TRUE,
     no |-> no, again |-> again]
send_ack == <<Byte("ACK"), Byte("ACKCOMP")>>
send_nack == <<Byte("NACK"), Byte("NACKCOMP")>>
Lesser(x, y) == IF x < y THEN x ELSE y
LastByte(e) == IF ends[e] = <<>> THEN 0 ELSE ends[e][Len(ends[e])]
Received(e) == Len(got[e]) + Len(rd[e].buf)

Init ==
    /\ wr = [e \in Ends |-> [st |-> "EXIT", seqno |-> 1, retrans |-> 0, pdata |-> 1,
                             remain |-> 0, timer |-> FALSE, frameTO |-> FALSE,
                             uplayerTO |-> FALSE, cuts |-> <<1>>]]
    /\ rd = [e \in Ends |-> [st |-> "EXIT", next |-> 1, retrans |-> 0, readed |-> 0,
                             buf |-> <<>>, uplayerTO |-> FALSE, no |-> 1]]
    /\ line = [e \in Ends |-> <<>>]
    /\ turn = [e \in Ends |-> IF e = "a" THEN "write" ELSE "read"]
    /\ err = [e \in Ends |-> "NOERROR"]
    /\ ends = [e \in Ends |-> <<>>]
    /\ got = [e \in Ends |-> <<>>]
    /\ faults = 0 /\ garbled = FALSE /\ late \in BOOLEAN

-----------------------------------------------------------------------------
(* The writer. *)

make_dmframe(w, again) ==
    Frame(w.seqno, w.pdata, Lesser(w.remain, MaxData), Len(w.cuts), again)

\* What a handler leaves: the writer's state, the items it sends, the error it
\* sets and the faults it met.
Outcome(w, out, error, fault) == [w |-> w, out |-> out, error |-> error, fault |-> fault]

\* wr_exit_* and wr_clean_curr_state: both timers are deleted.
ExitWrite(w, error, fault) ==
    Outcome([w EXCEPT !.st = "EXIT", !.timer = FALSE], <<>>, error, fault)

\* wr_send_frame: the frame timer is started and the frame handed to send_buf.
\* If send_buf fails the write ends (wr_exit_frame_error), but for the first
\* frame of a write, whose failure wr_init does not report: the writer waits and
\* an acknowledgement clears the error.
wr_send_frame(w, which) ==
    LET waiting == [w EXCEPT !.st = "FRAMESENDED", !.timer = TRUE]
        failed == IF which = "first" THEN Outcome(waiting, <<>>, "FATAL", 1)
                  ELSE ExitWrite(w, "FATAL", 1)
    IN {Outcome(waiting, <<make_dmframe(w, which = "again")>>, "NOERROR", 0)}
       \cup (IF "send" \in Damages THEN {failed} ELSE {})

\* Mutant: the last retry is not used.
wr_prepare_retransEarly(w) ==
    LET v == [w EXCEPT !.retrans = @ + 1]
    IN IF v.retrans + 1 < MaxRetries THEN wr_send_frame(v, "again")
       ELSE {ExitWrite(v, "MAXRETRIES", 0)}

\* wr_prepare_retrans and what the event it returns leads to.
wr_prepare_retrans(w) ==
    LET v == [w EXCEPT !.retrans = @ + 1]
    IN IF v.retrans < MaxRetries THEN wr_send_frame(v, "again")
       ELSE {ExitWrite(v, "MAXRETRIES", 0)}

\* wr_prepare_next_frame and what the event it returns leads to.
wr_prepare_next_frame(w) ==
    LET n == Lesser(w.remain, MaxData)
        v == [w EXCEPT !.pdata = @ + n, !.remain = @ - n, !.seqno = (@ + 1) % SeqMod,
                       !.cuts = Append(@, w.pdata + n)]
    IN IF v.remain > 0 THEN wr_send_frame(v, "next") ELSE {ExitWrite(v, "NOERROR", 0)}

\* The rows of wr_transitions that only change the state, and those that lead
\* to a retransmission.
wr_none == { <<"FRAMESENDED", "ACK", "ACKRCV">>, <<"FRAMESENDED", "NACK", "NACKRCV">>,
             <<"NACKRCV", "UNBYTE", "FRAMESENDED">> }
wr_retrans == { <<"FRAMESENDED", "TXFRAMETO">>, <<"ACKRCV", "UNBYTE">>, <<"ACKRCV", "TXFRAMETO">>,
                <<"NACKRCV", "NACKCOMP">>, <<"NACKRCV", "TXFRAMETO">> }
\* Mutant: the time-out of the write is not heard between the two bytes of an ACK.
wr_uplayertoNotInAck == { <<st, "TXUPLAYERTO">> : st \in {"FRAMESENDED", "NACKRCV"} }
wr_uplayerto == { <<st, "TXUPLAYERTO">> : st \in {"FRAMESENDED", "ACKRCV", "NACKRCV"} }

\* One event of the writer in proto_engine; an event without a row is dropped.
wr_engine(w, event) ==
    LET moved == { row \in wr_none : row[1] = w.st /\ row[2] = event }
    IN CASE <<w.st, event>> \in wr_retrans -> wr_prepare_retrans(w)
         [] <<w.st, event>> = <<"ACKRCV", "ACKCOMP">> -> wr_prepare_next_frame(w)
         [] <<w.st, event>> \in wr_uplayerto -> {ExitWrite(w, "TXUPLAYER_TO", 0)}
         [] moved # {} -> { Outcome([w EXCEPT !.st = row[3]], <<>>, "NOERROR", 0) : row \in moved }
         [] OTHER -> {Outcome(w, <<>>, "NOERROR", 0)}

\* The engine's step at end e, after which its own line is rest.
WriterStep(e, outcomes, rest) ==
    /\ \E o \in outcomes :
        /\ faults + o.fault <= MaxFaults
        /\ faults' = faults + o.fault
        /\ wr' = [wr EXCEPT ![e] = o.w]
        /\ line' = [line EXCEPT ![e] = rest, ![Peer(e)] = @ \o o.out]
        /\ err' = [err EXCEPT ![e] = IF o.w.st = "EXIT" \/ o.error # "NOERROR" THEN o.error ELSE @]
        /\ turn' = [turn EXCEPT ![e] = IF o.w.st # "EXIT" THEN "write"
                                       ELSE IF o.error # "NOERROR" THEN "closed" ELSE "read"]
    /\ UNCHANGED <<rd, got, garbled, late>>

dmodem_write(e) ==
    /\ turn[e] = "write" /\ wr[e].st = "EXIT"
    /\ Len(ends["a"]) + Len(ends["b"]) < MaxMessages
    /\ \E n \in Sizes :
        /\ ends' = [ends EXCEPT ![e] = Append(@, LastByte(e) + n)]
        /\ WriterStep(e, wr_send_frame([wr[e] EXCEPT !.retrans = 0, !.remain = n,
                           !.frameTO = FALSE, !.uplayerTO = FALSE], "first"), line[e])

\* wr_wait_event: a byte comes before the flags of the timers, and the whole
\* write's timer before the frame's.  The bytes of a frame are none of the four.
wr_wait_byte(e) ==
    /\ wr[e].st # "EXIT" /\ line[e] # <<>>
    /\ WriterStep(e, wr_engine(wr[e], IF Head(line[e]).b \in AckBytes \ {"junk"}
                                      THEN Head(line[e]).b ELSE "UNBYTE"), Tail(line[e]))
    /\ UNCHANGED ends

wr_wait_flag(e) ==
    /\ wr[e].st # "EXIT" /\ (late \/ line[e] = <<>>)
    /\ \/ /\ wr[e].uplayerTO
          /\ WriterStep(e, wr_engine([wr[e] EXCEPT !.uplayerTO = FALSE], "TXUPLAYERTO"), line[e])
       \/ /\ wr[e].frameTO /\ ~wr[e].uplayerTO
          /\ WriterStep(e, wr_engine([wr[e] EXCEPT !.frameTO = FALSE], "TXFRAMETO"), line[e])
    /\ UNCHANGED ends

-----------------------------------------------------------------------------
(* The reader. *)

\* The step of the reader at end e, which takes what it has read and sends out.
ReaderStep(e, r, rest, out) ==
    /\ rd' = [rd EXCEPT ![e] = r]
    /\ line' = [line EXCEPT ![e] = rest, ![Peer(e)] = @ \o out]
    /\ UNCHANGED <<wr, ends, faults, garbled, late>>

StillReading == UNCHANGED <<turn, err, got>>

\* dmodem_read with the data buffer drained: what an earlier read left is less
\* than the application asks for.
dmodem_read(e) ==
    /\ turn[e] = "read" /\ rd[e].st = "EXIT" /\ Len(rd[e].buf) < ReadSize
    /\ err' = [err EXCEPT ![e] = "NOERROR"]
    /\ ReaderStep(e, [rd[e] EXCEPT !.st = "WAITSOH", !.retrans = 0, !.readed = 0,
                                   !.uplayerTO = FALSE], line[e], <<>>)
    /\ UNCHANGED <<turn, got>>

\* The end of dmodem_read: as many bytes as were read leave the buffer.  The
\* application answers when the message is whole and reads on when it is not;
\* an error ends its session.
ReturnData(e, r, error) ==
    LET n == Lesser(r.readed, Len(r.buf))
        data == got[e] \o SubSeq(r.buf, 1, n)
        whole == data # <<>> /\ data[Len(data)] = LastByte(Peer(e))
    IN /\ got' = [got EXCEPT ![e] = data]
       /\ err' = [err EXCEPT ![e] = error]
       /\ turn' = [turn EXCEPT ![e] = IF error # "NOERROR" THEN "closed"
                                      ELSE IF whole THEN "write" ELSE "read"]

Returned(r) ==
    [r EXCEPT !.st = "EXIT", !.buf = SubSeq(@, Lesser(r.readed, Len(@)) + 1, Len(@))]

\* Mutant: a damaged frame is acknowledged once the line is quiet.
rd_bad_frameAcked(e, r) ==
    StillReading /\ ReaderStep(e, [r EXCEPT !.st = "DISCARDRETRANS"], Tail(line[e]), <<>>)

\* rd_prepare_retrans: the frame is refused once the line is quiet, or the read
\* is given up.
rd_bad_frame(e, r) ==
    LET v == [r EXCEPT !.retrans = @ + 1]
    IN IF v.retrans < MaxRetries
       THEN StillReading /\ ReaderStep(e, [v EXCEPT !.st = "DISCARDBYTES"], Tail(line[e]), <<>>)
       ELSE ReturnData(e, v, "MAXRETRIES") /\ ReaderStep(e, Returned(v), Tail(line[e]), <<>>)

\* Mutant: the last frame of a read does not advance next_seqno.
rd_good_frameSameNext(e, r, f) ==
    LET room == Lesser(f.len, BufSize - Len(r.buf))
        v == [r EXCEPT !.buf = @ \o [i \in 1..room |-> f.first + i - 1], !.readed = @ + f.len,
                       !.no = @ + 1]
    IN IF f.len < MaxData \/ v.readed >= ReadSize
       THEN ReturnData(e, v, "NOERROR") /\ ReaderStep(e, Returned(v), Tail(line[e]), send_ack)
       ELSE StillReading /\ ReaderStep(e, v, Tail(line[e]), send_ack)

\* rd_rcv_checksum_byte of a good frame: its bytes go to the buffer while there
\* is room; a short frame, or enough bytes, ends the read.
rd_good_frame(e, r, f) ==
    LET room == Lesser(f.len, BufSize - Len(r.buf))
        v == [r EXCEPT !.buf = @ \o [i \in 1..room |-> f.first + i - 1],
                       !.readed = @ + f.len, !.next = (@ + 1) % SeqMod, !.no = @ + 1]
    IN IF f.len < MaxData \/ v.readed >= ReadSize
       THEN ReturnData(e, v, "NOERROR") /\ ReaderStep(e, Returned(v), Tail(line[e]), send_ack)
       ELSE StillReading /\ ReaderStep(e, v, Tail(line[e]), send_ack)

\* Mutant: the wrong neighbour of the expected number counts as a retransmission.
IsRetransAfter(r, f) == r.next # 0 /\ f.seqno = r.next + 1

\* rd_seqno looks at the sequence number before its complement has arrived.
IsRetrans(r, f) == r.next # 0 /\ f.seqno = r.next - 1

rd_soh(e) ==
    LET r == [rd[e] EXCEPT !.retrans = 0]
        f == Head(line[e])
    IN /\ rd[e].st = "WAITSOH" /\ line[e] # <<>> /\ f.b = "SOH"
       /\ \/ /\ IsRetrans(r, f) /\ StillReading
             /\ ReaderStep(e, [r EXCEPT !.st = "DISCARDRETRANS"], Tail(line[e]), <<>>)
          \/ ~IsRetrans(r, f) /\ (f.seqno # r.next \/ ~f.good) /\ rd_bad_frame(e, r)
          \/ f.seqno = r.next /\ f.good /\ rd_good_frame(e, r, f)

\* A byte that begins no frame, or that is discarded.
rd_discard_byte(e) ==
    /\ rd[e].st # "EXIT" /\ line[e] # <<>>
    /\ rd[e].st = "WAITSOH" => Head(line[e]).b # "SOH"
    /\ ReaderStep(e, IF rd[e].st = "WAITSOH" THEN [rd[e] EXCEPT !.retrans = 0] ELSE rd[e],
                  Tail(line[e]), <<>>)
    /\ StillReading

\* RXBYTETO: the line is quiet.  The flag of the read's timer comes first.
rd_quiet(e) ==
    /\ rd[e].st \in {"DISCARDBYTES", "DISCARDRETRANS"} /\ (late \/ line[e] = <<>>)
    /\ ~rd[e].uplayerTO
    /\ ReaderStep(e, [rd[e] EXCEPT !.st = "WAITSOH"], line[e],
                  IF rd[e].st = "DISCARDBYTES" THEN send_nack ELSE send_ack)
    /\ StillReading

rd_exit_rxuplayerto(e) ==
    /\ rd[e].st # "EXIT" /\ rd[e].uplayerTO /\ (late \/ line[e] = <<>>)
    /\ ReturnData(e, rd[e], "RXUPLAYER_TO")
    /\ ReaderStep(e, [Returned(rd[e]) EXCEPT !.uplayerTO = FALSE], line[e], <<>>)

-----------------------------------------------------------------------------
(* The timer thread: its handlers only set a flag, and a timer that is not  *)
(* deleted expires again.                                                   *)

OnlyFlags == UNCHANGED <<line, turn, err, ends, got, faults, garbled, late>>

\* Nothing is on its way between the ends and no answer is due.
Overdue(e) ==
    \/ late \/ turn[Peer(e)] = "closed"
    \/ /\ line[e] = <<>> /\ line[Peer(e)] = <<>>
       /\ rd[Peer(e)].st \notin {"DISCARDBYTES", "DISCARDRETRANS"}

txframe_timer_handler(e) ==
    /\ wr[e].timer /\ ~wr[e].frameTO /\ Overdue(e)
    /\ wr' = [wr EXCEPT ![e].frameTO = TRUE]
    /\ UNCHANGED rd /\ OnlyFlags

txuplayer_timer_handler(e) ==
    /\ wr[e].st # "EXIT" /\ ~wr[e].uplayerTO
    /\ wr' = [wr EXCEPT ![e].uplayerTO = TRUE]
    /\ UNCHANGED rd /\ OnlyFlags

rxuplayer_timer_handler(e) ==
    /\ rd[e].st # "EXIT" /\ ~rd[e].uplayerTO
    /\ rd' = [rd EXCEPT ![e].uplayerTO = TRUE]
    /\ UNCHANGED wr /\ OnlyFlags

-----------------------------------------------------------------------------
(* The line. *)

Lose(e) ==
    /\ "lose" \in Damages /\ faults < MaxFaults /\ line[e] # <<>>
    /\ line' = [line EXCEPT ![e] = Tail(@)]
    /\ faults' = faults + 1
    /\ UNCHANGED <<wr, rd, turn, err, ends, got, garbled, late>>

\* A byte is altered: in an acknowledgement, in a frame's sequence number or
\* elsewhere in a frame.
Garble(e) ==
    /\ faults < MaxFaults /\ line[e] # <<>>
    /\ faults' = faults + 1
    /\ LET i == Head(line[e])
           put(x, seqno) == line' = [line EXCEPT ![e] = <<x>> \o Tail(@)] /\ garbled' = seqno
       IN \/ "body" \in Damages /\ i.b \in AckBytes \ {"junk"} /\ put(Byte("junk"), garbled)
          \/ "body" \in Damages /\ i.b = "SOH" /\ i.good /\ put([i EXCEPT !.good = FALSE], garbled)
          \/ /\ "seqno" \in Damages /\ i.b = "SOH" /\ i.good
             /\ \E s \in 0..SeqMod - 1 \ {i.seqno} :
                    put([i EXCEPT !.good = FALSE, !.seqno = s], TRUE)
    /\ UNCHANGED <<wr, rd, turn, err, ends, got, late>>

Application(e) == dmodem_write(e) \/ dmodem_read(e)
proto_engine(e) == wr_wait_byte(e) \/ wr_wait_flag(e) \/ rd_soh(e) \/ rd_discard_byte(e)
                      \/ rd_quiet(e) \/ rd_exit_rxuplayerto(e)
TimerThread(e) == txframe_timer_handler(e) \/ txuplayer_timer_handler(e)
                      \/ rxuplayer_timer_handler(e)

Next == \E e \in Ends : Application(e) \/ proto_engine(e) \/ TimerThread(e) \/ Lose(e) \/ Garble(e)

Spec == Init /\ [][Next]_vars

\* The engine of each end polls in a loop and the timer thread keeps running.
FairSpec == Spec /\ \A e \in Ends : /\ WF_vars(proto_engine(e))
                                    /\ WF_vars(txuplayer_timer_handler(e))
                                    /\ WF_vars(rxuplayer_timer_handler(e))

-----------------------------------------------------------------------------
(* Properties. *)

Busy(e) == wr[e].st # "EXIT" \/ rd[e].st # "EXIT"
Frames == [b : {"SOH"}, seqno : 0..SeqMod - 1, first : Nat \ {0}, len : 1..MaxData,
           good : BOOLEAN, no : Nat \ {0}, again : BOOLEAN]
Items == [b : AckBytes] \cup Frames

Writers == [st : {"EXIT", "FRAMESENDED", "ACKRCV", "NACKRCV"}, seqno : 0..SeqMod - 1,
            retrans : 0..MaxRetries, pdata : Nat \ {0}, remain : Nat, timer : BOOLEAN,
            frameTO : BOOLEAN, uplayerTO : BOOLEAN, cuts : Seq(Nat \ {0})]
Readers == [st : {"EXIT", "WAITSOH", "DISCARDBYTES", "DISCARDRETRANS"}, next : 0..SeqMod - 1,
            retrans : 0..MaxRetries, readed : Nat, buf : Seq(Nat \ {0}), uplayerTO : BOOLEAN,
            no : Nat \ {0}]

\* Type of the state: in particular the flags, the numbers (unsigned char) and
\* the data buffer stay within their ranges.
TypeOK ==
    /\ wr \in [Ends -> Writers] /\ rd \in [Ends -> Readers]
    /\ \A e \in Ends : Len(rd[e].buf) <= BufSize
    /\ line \in [Ends -> Seq(Items)]
    /\ turn \in [Ends -> {"write", "read", "closed"}]
    /\ err \in [Ends -> {"NOERROR", "MAXRETRIES", "TXUPLAYER_TO", "RXUPLAYER_TO", "FATAL"}]
    /\ ends \in [Ends -> Seq(Nat \ {0})] /\ got \in [Ends -> Seq(Nat \ {0})]
    /\ faults \in 0..MaxFaults /\ garbled \in BOOLEAN /\ late \in BOOLEAN

\* dmodem_read returns the bytes the other end wrote, in order, none twice and
\* none left out, whatever the line damages and however early the frame timer
\* expires (duplicates are recognised by rd_seqno).
InOrder == \A e \in Ends : \A i \in 1..Len(got[e]) : got[e][i] = i

\* What wr_prepare_next_frame takes for delivered has been received: no
\* acknowledgement is taken for that of another frame.  It holds while the
\* answers are faster than the frame timer and no sequence number is damaged.
AckedIsReceived ==
    (~late /\ ~garbled) => \A e \in Ends : Received(Peer(e)) >= wr[e].pdata - 1

\* A frame that was received before is acknowledged again, never refused (which
\* would use up the retries of the write), but for the one before number 0.
RetransAcked ==
    [][\A e \in Ends :
        (rd[e].st = "WAITSOH" /\ rd'[e].st = "DISCARDBYTES" /\ Head(line[e]).good /\ ~late)
            => rd[e].next = 0 \/ Head(line[e]).first > Received(e)]_vars

\* With fewer damages than retries a write is given up only when the other end
\* is not reading (it stopped after the message, its last acknowledgement was
\* lost and both ends now wait for an answer), or has come to number 0.
RetriesSuffice ==
    [][\A e \in Ends :
        (wr[e].st # "EXIT" /\ err'[e] = "MAXRETRIES" /\ ~late /\ ~garbled /\ faults < MaxRetries)
            => turn[Peer(e)] # "read" \/ rd[Peer(e)].next = 0]_vars

\* Every dmodem_write and dmodem_read returns: the timer of the whole operation
\* is heard in every state that waits.
CallsEnd == \A e \in Ends : Busy(e) ~> ~Busy(e)

\* What dmodem.h says of dmodem_write: it looks after the reception of the
\* frames, and its result tells whether the data reached the other end.
WriteIsDelivered ==
    \A e \in Ends :
        (wr[e].st = "EXIT" /\ err[e] = "NOERROR") => Received(Peer(e)) >= wr[e].pdata - 1
=============================================================================
