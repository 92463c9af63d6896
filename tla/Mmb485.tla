-------------------------------- MODULE Mmb485 --------------------------------
(***************************************************************************)
(* The RS485 multi-master bus: drivers/MMB485/mmb485.c on every node of    *)
(* one bus.                                                                *)
(*                                                                         *)
(* A node that wants to transmit waits until it has heard nothing for a    *)
(* while, announces its priority, listens for the announcements of others  *)
(* and sends its data when none of them has a higher priority (a smaller   *)
(* number).  A timeout ends the attempt.                                   *)
(*                                                                         *)
(* The timer handlers of a node run one at a time and before its tasks; a  *)
(* call that a task has made may be held up between any two of its steps   *)
(* for as long as it takes, one made in a callback runs in the handler.    *)
(* The receive interrupt may come between any two steps of either.  Time   *)
(* passes in ticks of one priority level.  A handler takes less than a     *)
(* tick, but for the sending of data, which takes a tick per byte.         *)
(***************************************************************************)
EXTENDS Integers, Sequences, FiniteSets

CONSTANTS
    Nodes,
    Prios,                   \* MsgPrio_t, 1 is the highest
    Asks,                    \* which priorities the users of each node ask for
    Listeners,               \* the nodes whose users listen
    Sizes,                   \* numbers of bytes to transmit or listen for
    Timeouts,                \* in ticks, 0 is refused
    ListenTimeout,
    ARBITRATION_DELAY_BASE,  \* in ticks of ARBITRATION_DELAY_PRIO_LEVEL_US
    RX_BUFFER_SIZE,
    MaxCalls                 \* bound: the tasks that are in the midst of a call

ASSUME MmbAssumption ==
    /\ Prios \subseteq Nat \ {0}
    /\ Asks \subseteq Nodes \X Prios
    /\ Listeners \subseteq Nodes
    /\ Sizes \subseteq Nat \ {0}
    /\ Timeouts \subseteq Nat
    /\ ListenTimeout \in Nat \ {0}
    /\ ARBITRATION_DELAY_BASE \in Nat \ {0}
    /\ RX_BUFFER_SIZE \in Nat \ {0}
    /\ MaxCalls \in Nat

VARIABLES
    desc,      \* the descriptor and the enabled half of the transceiver
    pc,        \* where the timer handler of a node is
    tx,        \* the bytes the HAL still has to send
    sent,      \* has the node sent a byte of data in this tick?
    call,      \* the call that a task of the node has made, and where it is
    pending,   \* does the user wait for a result?
    outbid,    \* history: has the node heard a higher priority in this round?
    again,     \* history: did the user ask in the callback of what was sent?
    overtaken  \* history: did a timeout come before the receiver was on?

vars == <<desc, pc, tx, sent, call, pending, outbid, again, overtaken>>

MsgPrioId == <<77, 80>>  \* stands for the eight bytes of the identifier
Frame == Len(MsgPrioId) + 1
DATA_RECEIVED_FLAG == <<1>>
DataByte == <<0>>
NoiseByte == 255

NoCall == [at |-> "none", prio |-> 0, timeout |-> 0, bytes |-> 0]

-----------------------------------------------------------------------------
(* Timers.  0 is a stopped timer, 1 one that is due.  The timers are        *)
(* periodic and most are never stopped: one that runs on where its handler  *)
(* does nothing, or while a task is about to restart it, is loose, and may  *)
(* be due at any moment.                                                    *)

Loose == -1

TimerStart(ticks) == ticks + 1

TimerTick(timer) == IF timer > 1 THEN timer - 1 ELSE timer

Loosen(timer) == IF timer = 0 THEN 0 ELSE Loose

Due(timer) == timer \in {1, Loose}

IdleDelay(prio) == ARBITRATION_DELAY_BASE + prio

ITimeoutStart(d, ticks) ==
    [d EXCEPT !.timeout = IF d.state = "LISTEN" THEN ticks ELSE 0,
              !.timeout_tmr = IF d.state = "HIGH_Z" THEN Loose ELSE TimerStart(ticks)]

(* TimerReset; only the interval of a listening node matters.               *)
TimeoutReset(d) ==
    [d EXCEPT !.timeout_tmr = IF @ = Loose THEN Loose ELSE TimerStart(d.timeout)]

IArbitrationTimerStart(d, ticks) ==
    [d EXCEPT !.arb_tmr =
        IF d.state \in {"WAIT_IDLE", "ARBITRATION"} THEN TimerStart(ticks) ELSE Loose]

BusStateTrySet(d, state) ==
    [d EXCEPT !.state = state,
              !.arb_tmr = IF state \in {"WAIT_IDLE", "ARBITRATION"} THEN @ ELSE Loosen(@),
              !.timeout = IF state = "LISTEN" THEN @ ELSE 0,
              !.timeout_tmr = IF state = "HIGH_Z" THEN Loosen(@) ELSE @]

(* The state a task sets before it restarts the timers.                     *)
HeldUp(d, state) ==
    [BusStateTrySet(d, state) EXCEPT !.arb_tmr = Loosen(@), !.timeout_tmr = Loosen(@)]

BusModeSet(d, mode) == [d EXCEPT !.mode = mode]

\* Faulty: leaves the transceiver as it is.
HighZStateOnly(d) == BusStateTrySet(d, "HIGH_Z")

HighZ(d) == BusModeSet(BusStateTrySet(d, "HIGH_Z"), "HIGH_Z")

-----------------------------------------------------------------------------
(* Receiving.                                                               *)

RingbufWrite(buf, data) ==
    IF Len(buf) + Len(data) <= RX_BUFFER_SIZE
    THEN buf \o data
    ELSE SubSeq(buf \o data, 1, RX_BUFFER_SIZE)

DataReceived(d, data) ==
    CASE d.state = "LISTEN" /\ d.bytes_left >= Len(data) ->
            TimeoutReset([d EXCEPT !.bytes_left = @ - Len(data)])
      [] d.state = "LISTEN" /\ d.bytes_left < Len(data) -> [d EXCEPT !.bytes_left = 0]
      [] d.state \in {"WAIT_IDLE", "TRANSMIT"} -> [d EXCEPT !.rx = DATA_RECEIVED_FLAG]
      [] d.state = "ARBITRATION" -> [d EXCEPT !.rx = RingbufWrite(@, data)]
      [] d.state = "HIGH_Z" -> d

Driving(n) == desc[n].mode = "TRANSMIT"

(* What is sent while another transmitter is on is not what arrives.        *)
OnWire(n, data) ==
    IF \E m \in Nodes \ {n} : Driving(m)
    THEN [i \in 1 .. Len(data) |-> NoiseByte]
    ELSE data

(* The frames the arbitration handler reads from its buffer.                *)
FrameAt(rx, k) == SubSeq(rx, (k - 1) * Frame + 1, k * Frame)
Frames(rx) == 1 .. (Len(rx) \div Frame)
HasId(frame) == SubSeq(frame, 1, Frame - 1) = MsgPrioId
Outbids(frame, prio) == HasId(frame) /\ frame[Frame] < prio

Outbid(d) ==
    /\ d.state = "ARBITRATION"
    /\ Len(d.rx) % Frame = 0
    /\ \A k \in Frames(d.rx) : HasId(FrameAt(d.rx, k))
    /\ \E k \in Frames(d.rx) : Outbids(FrameAt(d.rx, k), d.prio)

(* Every node with its receiver on gets what n sends.                       *)
Transmit(n, data, self) ==
    /\ desc' = [m \in Nodes |->
                   CASE m = n -> self
                     [] m # n /\ desc[m].mode = "RECEIVE" ->
                            DataReceived(desc[m], OnWire(n, data))
                     [] OTHER -> desc[m]]
    /\ outbid' = [m \in Nodes |-> outbid[m] \/ (m # n /\ Outbid(desc'[m]))]

-----------------------------------------------------------------------------
Init ==
    /\ desc = [n \in Nodes |->
                 [state |-> "HIGH_Z", mode |-> "HIGH_Z", prio |-> 0, bytes_left |-> 0,
                  rx |-> <<>>, timeout |-> 0, arb_tmr |-> 0, timeout_tmr |-> 0]]
    /\ pc = [n \in Nodes |-> "none"]
    /\ tx = [n \in Nodes |-> 0]
    /\ sent = [n \in Nodes |-> FALSE]
    /\ call = [n \in Nodes |-> NoCall]
    /\ pending = [n \in Nodes |-> FALSE]
    /\ outbid = [n \in Nodes |-> FALSE]
    /\ again = [n \in Nodes |-> FALSE]
    /\ overtaken = [n \in Nodes |-> FALSE]

(* The calls of a task: no handler of its node is under way at a step.      *)
InTask(n, at) == pc[n] = "none" /\ call[n].at = at

CanCall(n) ==
    /\ InTask(n, "none")
    /\ Cardinality({m \in Nodes : call[m].at # "none"}) < MaxCalls

(* Mmb485Transmit; the user waits for a result before it asks again.        *)
TransmitCall(n, prio, size, timeout) ==
    /\ CanCall(n)
    /\ ~pending[n]
    /\ desc' = [desc EXCEPT ![n].bytes_left = size]
    /\ call' = [call EXCEPT ![n] =
                  IF timeout = 0
                  THEN NoCall
                  ELSE [at |-> "start", prio |-> prio, timeout |-> timeout, bytes |-> 0]]
    /\ UNCHANGED <<pc, tx, sent, pending, outbid, again, overtaken>>

(* IArbitrationStart up to its first statement.                             *)
ArbitrationStart(n) ==
    /\ InTask(n, "start")
    /\ desc' = [desc EXCEPT ![n] = HeldUp(@, "WAIT_IDLE")]
    /\ call' = [call EXCEPT ![n].at = "prio"]
    /\ pending' = [pending EXCEPT ![n] = TRUE]
    /\ overtaken' = [overtaken EXCEPT ![n] = FALSE]
    /\ UNCHANGED <<pc, tx, sent, outbid, again>>

(* What an announcement has outbid is the priority the node has now.        *)
SetPrio(n) ==
    /\ InTask(n, "prio")
    /\ desc' = [desc EXCEPT ![n].prio = call[n].prio]
    /\ outbid' = [outbid EXCEPT ![n] = Outbid(desc'[n])]
    /\ call' = [call EXCEPT ![n].at = "timers"]
    /\ UNCHANGED <<pc, tx, sent, pending, again, overtaken>>

\* Faulty: does not start the timeout timer.
StartTimersUntimed(n) ==
    /\ InTask(n, "timers")
    /\ desc' = [desc EXCEPT ![n] = IArbitrationTimerStart(@, IdleDelay(call[n].prio))]
    /\ call' = [call EXCEPT ![n] = NoCall]
    /\ UNCHANGED <<pc, tx, sent, pending, outbid, again, overtaken>>

StartTimers(n) ==
    /\ InTask(n, "timers")
    /\ desc' = [desc EXCEPT ![n] =
                  IArbitrationTimerStart(ITimeoutStart(@, call[n].timeout),
                                         IdleDelay(call[n].prio))]
    /\ call' = [call EXCEPT ![n] = NoCall]
    /\ UNCHANGED <<pc, tx, sent, pending, outbid, again, overtaken>>

(* Mmb485Listen (bytes = 0) and Mmb485ListenNBytes; a request is abandoned. *)
ListenCall(n, bytes) ==
    /\ CanCall(n)
    /\ desc' = [desc EXCEPT ![n] = HeldUp(@, "LISTEN")]
    /\ call' = [call EXCEPT ![n] = [at |-> "receiver", prio |-> 0, timeout |-> 0,
                                   bytes |-> bytes]]
    /\ pending' = [pending EXCEPT ![n] = FALSE]
    /\ outbid' = [outbid EXCEPT ![n] = FALSE]
    /\ again' = [again EXCEPT ![n] = FALSE]
    /\ overtaken' = [overtaken EXCEPT ![n] = FALSE]
    /\ UNCHANGED <<pc, tx, sent>>

Receiver(d, bytes) ==
    BusModeSet([d EXCEPT !.bytes_left = bytes, !.rx = <<>>], "RECEIVE")

SetReceiver(n) ==
    /\ InTask(n, "receiver")
    /\ desc' = [desc EXCEPT ![n] = Receiver(@, call[n].bytes)]
    /\ overtaken' = [overtaken EXCEPT ![n] = desc[n].state = "HIGH_Z"]
    /\ call' = [call EXCEPT ![n].at = "listen"]
    /\ UNCHANGED <<pc, tx, sent, pending, outbid, again>>

StartListening(n) ==
    /\ InTask(n, "listen")
    /\ desc' = [desc EXCEPT ![n] = ITimeoutStart(@, ListenTimeout)]
    /\ call' = [call EXCEPT ![n] = NoCall]
    /\ UNCHANGED <<pc, tx, sent, pending, outbid, again, overtaken>>

(* The callback with the result makes at most one call.                     *)
Arbitration(d, prio, size, timeout) ==
    IArbitrationTimerStart(
        ITimeoutStart([BusStateTrySet(d, "WAIT_IDLE") EXCEPT !.bytes_left = size, !.prio = prio],
                      timeout),
        IdleDelay(prio))

TransmitInCallback(n, prio, size, timeout) ==
    /\ pc[n] = "result"
    /\ pc' = [pc EXCEPT ![n] = "return"]
    /\ \/ /\ timeout = 0
          /\ desc' = [desc EXCEPT ![n].bytes_left = size]
          /\ UNCHANGED <<pending, again>>
       \/ /\ timeout # 0
          /\ desc' = [desc EXCEPT ![n] = Arbitration(@, prio, size, timeout)]
          /\ pending' = [pending EXCEPT ![n] = TRUE]
          /\ again' = [again EXCEPT ![n] = desc[n].state = "TRANSMIT"]
    /\ UNCHANGED <<tx, sent, call, outbid, overtaken>>

ListenInCallback(n, bytes) ==
    /\ pc[n] = "result"
    /\ pc' = [pc EXCEPT ![n] = "return"]
    /\ desc' = [desc EXCEPT ![n] =
                  ITimeoutStart(Receiver(BusStateTrySet(@, "LISTEN"), bytes), ListenTimeout)]
    /\ UNCHANGED <<tx, sent, call, pending, outbid, again, overtaken>>

-----------------------------------------------------------------------------
(* IArbitrationTimerHandler.                                                *)

ArbitrationDue(n) == pc[n] = "none" /\ Due(desc[n].arb_tmr)

RestartIdleWait(d) == IArbitrationTimerStart(d, IdleDelay(d.prio))

BusIsNotIdle(n) ==
    /\ ArbitrationDue(n)
    /\ desc[n].state = "WAIT_IDLE"
    /\ desc[n].rx # <<>>
    /\ desc' = [desc EXCEPT ![n] = RestartIdleWait([@ EXCEPT !.rx = <<>>])]
    /\ UNCHANGED <<pc, tx, sent, call, pending, outbid, again, overtaken>>

BusIsIdle(n) ==
    /\ ArbitrationDue(n)
    /\ desc[n].state = "WAIT_IDLE"
    /\ desc[n].rx = <<>>
    /\ desc' = [desc EXCEPT ![n] = BusModeSet(@, "TRANSMIT")]
    /\ pc' = [pc EXCEPT ![n] = "id"]
    /\ again' = [again EXCEPT ![n] = FALSE]
    /\ UNCHANGED <<tx, sent, call, pending, outbid, overtaken>>

SendId(n) ==
    /\ pc[n] = "id"
    /\ Transmit(n, MsgPrioId, desc[n])
    /\ pc' = [pc EXCEPT ![n] = "prio"]
    /\ UNCHANGED <<tx, sent, call, pending, again, overtaken>>

(* From the receiver on to the arbitration state is less than a byte takes. *)
SendPrio(n) ==
    /\ pc[n] = "prio"
    /\ Transmit(n, <<desc[n].prio>>,
                IArbitrationTimerStart(
                    BusModeSet(BusStateTrySet(desc[n], "ARBITRATION"), "RECEIVE"),
                    ARBITRATION_DELAY_BASE))
    /\ pc' = [pc EXCEPT ![n] = "none"]
    /\ UNCHANGED <<tx, sent, call, pending, again, overtaken>>

(* The loop over the buffer ends at the first frame that is not an          *)
(* announcement or is one with a higher priority, and else at what is left  *)
(* when fewer bytes than a frame are.                                       *)
Stops(d) == {k \in Frames(d.rx) : \/ ~HasId(FrameAt(d.rx, k))
                                  \/ Outbids(FrameAt(d.rx, k), d.prio)}
FirstStop(d) == CHOOSE k \in Stops(d) : \A j \in Stops(d) : k <= j
LastRead(d) == IF Stops(d) = {} THEN Len(d.rx) ELSE Frame * FirstStop(d)

Lost(d) == Stops(d) # {} /\ Outbids(FrameAt(d.rx, FirstStop(d)), d.prio)

(* h_prio and arb_complete: the buffer was read to its end, or holds less   *)
(* than a frame.  Less than a frame after others makes it wait once more.   *)
Won(d) == Stops(d) = {} /\ (Len(d.rx) % Frame = 0 \/ Frames(d.rx) = {})

Consume(d) == [d EXCEPT !.rx = SubSeq(@, LastRead(d) + 1, Len(@))]

ReadArbitration(n) ==
    /\ ArbitrationDue(n)
    /\ desc[n].state = "ARBITRATION"
    /\ LET d == Consume(desc[n])
       IN  \/ /\ Won(desc[n])
              /\ desc' = [desc EXCEPT ![n] = [d EXCEPT !.timeout_tmr = 0]]
              /\ pc' = [pc EXCEPT ![n] = "won"]
              /\ UNCHANGED outbid
           \/ /\ Lost(desc[n])
              /\ desc' = [desc EXCEPT ![n] =
                            RestartIdleWait(BusStateTrySet(BusModeSet(d, "HIGH_Z"), "WAIT_IDLE"))]
              /\ outbid' = [outbid EXCEPT ![n] = FALSE]
              /\ UNCHANGED pc
           \/ /\ ~Won(desc[n]) /\ ~Lost(desc[n])
              /\ desc' = [desc EXCEPT ![n] =
                            IArbitrationTimerStart(d, ARBITRATION_DELAY_BASE)]
              /\ UNCHANGED <<pc, outbid>>
    /\ UNCHANGED <<tx, sent, call, pending, again, overtaken>>

\* Faulty: does not look at the buffer again.
ClaimUnchecked(n) ==
    /\ pc[n] = "won"
    /\ desc' = [desc EXCEPT ![n] = BusModeSet(BusStateTrySet(@, "TRANSMIT"), "TRANSMIT")]
    /\ tx' = [tx EXCEPT ![n] = desc[n].bytes_left]
    /\ pc' = [pc EXCEPT ![n] = "data"]
    /\ UNCHANGED <<sent, call, pending, outbid, again, overtaken>>

(* ITransmitData up to the call of the HAL.                                 *)
Claim(n) ==
    /\ pc[n] = "won"
    /\ desc' = [desc EXCEPT ![n] = BusModeSet(BusStateTrySet(@, "TRANSMIT"), "TRANSMIT")]
    /\ tx' = [tx EXCEPT ![n] = IF desc[n].rx = <<>> THEN desc[n].bytes_left ELSE 0]
    /\ pc' = [pc EXCEPT ![n] = "data"]
    /\ UNCHANGED <<sent, call, pending, outbid, again, overtaken>>

SendData(n) ==
    /\ pc[n] = "data"
    /\ tx[n] > 0
    /\ ~sent[n]
    /\ Transmit(n, DataByte, desc[n])
    /\ tx' = [tx EXCEPT ![n] = @ - 1]
    /\ sent' = [sent EXCEPT ![n] = TRUE]
    /\ UNCHANGED <<pc, call, pending, again, overtaken>>

(* The callback with MMB485_RESULT_OK.                                      *)
ReportSent(n) ==
    /\ pc[n] = "data"
    /\ tx[n] = 0
    /\ pc' = [pc EXCEPT ![n] = "result"]
    /\ pending' = [pending EXCEPT ![n] = FALSE]
    /\ outbid' = [outbid EXCEPT ![n] = FALSE]
    /\ UNCHANGED <<desc, tx, sent, call, again, overtaken>>

\* Faulty: leaves the bus only when the callback made a call.
CallbackReturnAfterResult(n) ==
    /\ pc[n] \in {"result", "return"}
    /\ desc' = [desc EXCEPT ![n] =
                  IF @.state = "TRANSMIT" /\ pc[n] = "return" THEN HighZ(@) ELSE @]
    /\ pc' = [pc EXCEPT ![n] = "none"]
    /\ UNCHANGED <<tx, sent, call, pending, outbid, again, overtaken>>

(* After the callback the bus is left, unless the callback went elsewhere.  *)
CallbackReturn(n) ==
    /\ pc[n] \in {"result", "return"}
    /\ desc' = [desc EXCEPT ![n] = IF @.state = "TRANSMIT" THEN HighZ(@) ELSE @]
    /\ pc' = [pc EXCEPT ![n] = "none"]
    /\ UNCHANGED <<tx, sent, call, pending, outbid, again, overtaken>>

-----------------------------------------------------------------------------
\* Faulty: gives no result after an announcement.
TimeoutSilent(n) ==
    /\ pc[n] = "none"
    /\ Due(desc[n].timeout_tmr)
    /\ desc' = [desc EXCEPT ![n] = HighZ(@)]
    /\ \/ /\ desc[n].state \in {"LISTEN", "ARBITRATION"}
          /\ UNCHANGED <<pc, pending>>
       \/ /\ desc[n].state = "WAIT_IDLE"
          /\ pc' = [pc EXCEPT ![n] = "result"]
          /\ pending' = [pending EXCEPT ![n] = FALSE]
    /\ outbid' = [outbid EXCEPT ![n] = FALSE]
    /\ again' = [again EXCEPT ![n] = FALSE]
    /\ UNCHANGED <<tx, sent, call, overtaken>>

(* ITimeoutTimerHandler; the timer is stopped before the TRANSMIT state.    *)
Timeout(n) ==
    /\ pc[n] = "none"
    /\ Due(desc[n].timeout_tmr)
    /\ desc' = [desc EXCEPT ![n] = HighZ(@)]
    /\ \/ /\ desc[n].state = "LISTEN"
          /\ UNCHANGED <<pc, pending>>
       \/ /\ desc[n].state \in {"WAIT_IDLE", "ARBITRATION"}  \* MMB485_RESULT_FAIL
          /\ pc' = [pc EXCEPT ![n] = "result"]
          /\ pending' = [pending EXCEPT ![n] = FALSE]
    /\ outbid' = [outbid EXCEPT ![n] = FALSE]
    /\ again' = [again EXCEPT ![n] = FALSE]
    /\ UNCHANGED <<tx, sent, call, overtaken>>

(* Time passes when every handler that is due has run.                      *)
Tick ==
    /\ \A n \in Nodes :
          /\ pc[n] = "none" \/ (pc[n] = "data" /\ sent[n] /\ tx[n] > 0)
          /\ pc[n] = "none" => desc[n].arb_tmr # 1 /\ desc[n].timeout_tmr # 1
    /\ desc' = [n \in Nodes |-> [desc[n] EXCEPT !.arb_tmr = TimerTick(@),
                                               !.timeout_tmr = TimerTick(@)]]
    /\ sent' = [n \in Nodes |-> FALSE]
    /\ UNCHANGED <<pc, tx, call, pending, outbid, again, overtaken>>

-----------------------------------------------------------------------------
Handler(n) ==
    \/ BusIsNotIdle(n) \/ BusIsIdle(n) \/ ReadArbitration(n) \/ Timeout(n)
    \/ SendId(n) \/ SendPrio(n)
    \/ Claim(n) \/ SendData(n) \/ ReportSent(n) \/ CallbackReturn(n)

PriosOf(n) == {prio \in Prios : <<n, prio>> \in Asks}

User(n) ==
    \/ \E prio \in PriosOf(n), size \in Sizes, timeout \in Timeouts :
          TransmitCall(n, prio, size, timeout)
    \/ n \in Listeners /\ \E bytes \in Sizes \cup {0} : ListenCall(n, bytes)

Callback(n) ==
    \/ \E prio \in PriosOf(n), size \in Sizes, timeout \in Timeouts :
          TransmitInCallback(n, prio, size, timeout)
    \/ n \in Listeners /\ \E bytes \in Sizes \cup {0} : ListenInCallback(n, bytes)

Call(n) ==
    \/ ArbitrationStart(n) \/ SetPrio(n) \/ StartTimers(n)
    \/ SetReceiver(n) \/ StartListening(n)

Next == Tick \/ \E n \in Nodes : Handler(n) \/ User(n) \/ Call(n) \/ Callback(n)

Spec == Init /\ [][Next]_vars

(* The kernel runs what is due, the HAL sends, time passes, and a call that *)
(* was made goes on between the handlers.  The user owes no call.           *)
Fairness ==
    /\ SF_vars(Tick)
    /\ SF_vars(\E n \in Nodes : Call(n))
    /\ \A n \in Nodes : WF_vars(Handler(n))

FairSpec == Spec /\ Fairness

-----------------------------------------------------------------------------
Descriptors ==
    [state : {"HIGH_Z", "LISTEN", "WAIT_IDLE", "ARBITRATION", "TRANSMIT"},
     mode : {"HIGH_Z", "RECEIVE", "TRANSMIT"},
     prio : Prios \cup {0}, bytes_left : Nat, rx : Seq(Nat), timeout : Nat,
     arb_tmr : Nat \cup {Loose}, timeout_tmr : Nat \cup {Loose}]

Places == {"none", "id", "prio", "won", "data", "result", "return"}
Calls ==
    [at : {"none", "start", "prio", "timers", "receiver", "listen"},
     prio : Prios \cup {0}, timeout : Timeouts \cup {0}, bytes : Sizes \cup {0}]

(* The buffer of a descriptor never holds more than it has room for         *)
(* (mmb485.c:75).                                                           *)
TypeOK ==
    /\ desc \in [Nodes -> Descriptors]
    /\ \A n \in Nodes : Len(desc[n].rx) <= RX_BUFFER_SIZE
    /\ pc \in [Nodes -> Places]
    /\ tx \in [Nodes -> Nat]
    /\ sent \in [Nodes -> BOOLEAN]
    /\ call \in [Nodes -> Calls]
    /\ pending \in [Nodes -> BOOLEAN]
    /\ outbid \in [Nodes -> BOOLEAN]
    /\ again \in [Nodes -> BOOLEAN]
    /\ overtaken \in [Nodes -> BOOLEAN]

(* A node that heard the announcement of a higher priority in its round     *)
(* sends no data, though the announcement may come after it has decided     *)
(* that it won (mmb485.c:282-325 and the check of the buffer at :342).      *)
YieldsToHigher == \A n \in Nodes : outbid[n] => tx[n] = 0

(* Between handlers the transceiver is as the state says, whatever they do  *)
(* in the midst of a call (IBusStateTrySet and IBusModeSet are called in    *)
(* pairs all over mmb485.c).  A receiver is on in the high impedance state  *)
(* only where a timeout came between the two in Mmb485Listen, and a         *)
(* transmitter is on while the node waits only where the user asked again   *)
(* in the callback of what was sent.                                        *)
TransceiverFollowsState ==
    \A n \in Nodes : LET d == desc[n] IN
        pc[n] = "none" =>
            CASE d.state = "HIGH_Z" -> d.mode = (IF overtaken[n] THEN "RECEIVE" ELSE "HIGH_Z")
              [] d.state = "LISTEN" -> d.mode = "RECEIVE" \/ call[n].at = "receiver"
              [] d.state = "ARBITRATION" -> d.mode = "RECEIVE"
              [] d.state = "WAIT_IDLE" -> d.mode = "TRANSMIT" => again[n]
              [] d.state = "TRANSMIT" -> FALSE

(* A node that waits for a result has the timer running that will give it   *)
(* one, or its task is about to start it, whatever the arbitration, the     *)
(* interrupts and the callbacks did (mmb485.c:212, :322 and :366).          *)
WaitIsLimited ==
    \A n \in Nodes :
        pending[n] => \/ desc[n].timeout_tmr > 0
                      \/ pc[n] \in {"won", "data"}
                      \/ call[n].at \in {"prio", "timers"}

(* Requests are granted, fail or are abandoned as BusRequest says, and each *)
(* comes to its end.                                                        *)
PhaseOf(waits, place) ==
    CASE ~waits -> "none"
      [] waits /\ place \in {"won", "data"} -> "granted"
      [] waits /\ place \notin {"won", "data"} -> "waiting"
phase == [n \in Nodes |-> PhaseOf(pending[n], pc[n])]
Requests == INSTANCE BusRequest
ImplementsRequests == Requests!RequestSpec

(* A transmitter does not stay on (mmb485.c:257, :328 and :366).            *)
BusIsReleased == \A n \in Nodes : []<>~Driving(n)
=============================================================================
