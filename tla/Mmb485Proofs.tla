----------------------------- MODULE Mmb485Proofs -----------------------------
(***************************************************************************)
(* Proofs about the bus of module Mmb485, for every set of nodes, every    *)
(* number of priorities and every length of the buffer and the timeouts.   *)
(***************************************************************************)
EXTENDS Mmb485, WellFoundedInduction, TLAPS

(* A frame that outbids is reached by the loop over the buffer.             *)
WillLose(d) ==
    \E k \in Frames(d.rx) :
        /\ Outbids(FrameAt(d.rx, k), d.prio)
        /\ \A j \in 1 .. k - 1 : HasId(FrameAt(d.rx, j))

(* State and place of the handler of one node: d is its descriptor, p its   *)
(* place, w tells whether its user waits.                                   *)
PlaceOK(d, p, w) ==
    /\ d.state \in {"WAIT_IDLE", "ARBITRATION"} => w
    /\ d.state = "TRANSMIT" => p \in {"data", "result", "return"}
    /\ d.state = "ARBITRATION" => p \in {"none", "won"}
    /\ p \in {"id", "prio"} => d.state = "WAIT_IDLE"
    /\ p = "won" => d.state = "ARBITRATION"
    /\ p = "data" => d.state = "TRANSMIT" /\ w
    /\ p = "result" => ~w
    /\ w => d.state \in {"WAIT_IDLE", "ARBITRATION"} \/ p = "data"

(* The call of its task, c, leaves no request untimed; one that is about to *)
(* ask, or that listens, meets nothing but the timeout.                     *)
CallOK(d, p, w, c) ==
    /\ w => d.timeout_tmr > 0 \/ p \in {"won", "data"} \/ c.at \in {"prio", "timers"}
    /\ c.at \in {"start", "receiver", "listen"} =>
          d.state \in {"LISTEN", "HIGH_Z"} /\ p = "none" /\ ~w

(* The transceiver; a tells whether the user asked again, v whether a       *)
(* timeout overtook the call.                                               *)
ModeOK(d, p, c, a, v) ==
    /\ d.state = "HIGH_Z" => d.mode = (IF v THEN "RECEIVE" ELSE "HIGH_Z")
    /\ v => d.state = "HIGH_Z" /\ p = "none"
    /\ d.state = "LISTEN" => d.mode = "RECEIVE" \/ c.at = "receiver"
    /\ d.state = "ARBITRATION" => d.mode = "RECEIVE"
    /\ d.state = "WAIT_IDLE" /\ d.mode = "TRANSMIT" => a \/ p \in {"id", "prio"}

(* What it has heard, o, binds it: t is what it has still to send.          *)
BidOK(d, p, t, o) ==
    /\ t > 0 => p = "data"
    /\ o => d.state \in {"ARBITRATION", "TRANSMIT"} /\ p \in {"none", "won", "data"}
    /\ o /\ p = "won" => d.rx # <<>>
    /\ o /\ p # "won" /\ d.state = "ARBITRATION" => WillLose(d)
    /\ o => t = 0

NodeOK(d, p, w, t, o, c, a, v) ==
    /\ PlaceOK(d, p, w) /\ CallOK(d, p, w, c)
    /\ ModeOK(d, p, c, a, v) /\ BidOK(d, p, t, o)

IInv ==
    /\ TypeOK
    /\ \A n \in Nodes : NodeOK(desc[n], pc[n], pending[n], tx[n], outbid[n],
                               call[n], again[n], overtaken[n])

-----------------------------------------------------------------------------
(* The buffer.                                                              *)

LEMMA FrameIsThree == Frame = 3 /\ Len(MsgPrioId) = 2 /\ MsgPrioId \in Seq(Nat)
    BY DEF Frame, MsgPrioId

(* Writing leaves what is in the buffer where it is.                        *)
LEMMA WriteExtends ==
    ASSUME NEW buf \in Seq(Nat), NEW data \in Seq(Nat), Len(buf) <= RX_BUFFER_SIZE
    PROVE  /\ RingbufWrite(buf, data) \in Seq(Nat)
           /\ Len(RingbufWrite(buf, data)) <= RX_BUFFER_SIZE
           /\ Len(buf) <= Len(RingbufWrite(buf, data))
           /\ \A i \in 1 .. Len(buf) : RingbufWrite(buf, data)[i] = buf[i]
    <1> DEFINE w == RingbufWrite(buf, data)
               all == buf \o data
    <1>1. all \in Seq(Nat) /\ Len(all) = Len(buf) + Len(data)
        OBVIOUS
    <1>2. \A i \in 1 .. Len(buf) : all[i] = buf[i]
        OBVIOUS
    <1>3. CASE Len(buf) + Len(data) <= RX_BUFFER_SIZE
        BY <1>1, <1>2, <1>3 DEF RingbufWrite
    <1>4. CASE ~(Len(buf) + Len(data) <= RX_BUFFER_SIZE)
        <2>1. w = SubSeq(all, 1, RX_BUFFER_SIZE)
            BY <1>4 DEF RingbufWrite
        <2>2. RX_BUFFER_SIZE \in Nat /\ RX_BUFFER_SIZE <= Len(all)
            BY <1>1, <1>4, MmbAssumption
        <2>3. /\ w \in Seq(Nat) /\ Len(w) = RX_BUFFER_SIZE
              /\ \A i \in 1 .. RX_BUFFER_SIZE : w[i] = all[i]
            BY <1>1, <2>1, <2>2
        <2> QED
            BY <1>2, <2>2, <2>3
    <1> QED
        BY <1>3, <1>4

LEMMA FramesAreWhole ==
    ASSUME NEW rx \in Seq(Nat), NEW k \in Frames(rx)
    PROVE  /\ k \in Nat /\ 1 <= k /\ 3 * k <= Len(rx)
           /\ \A j \in 1 .. k : j \in Frames(rx)
    <1> DEFINE q == Len(rx) \div 3
    <1>1. q \in Nat /\ Frames(rx) = 1 .. q /\ 3 * q <= Len(rx)
        BY FrameIsThree DEF Frames
    <1> HIDE DEF q
    <1> QED
        BY <1>1

(* The frames that are there stay the same when more is written.            *)
LEMMA FramesStay ==
    ASSUME NEW old \in Seq(Nat), NEW new \in Seq(Nat), Len(old) <= Len(new),
           \A i \in 1 .. Len(old) : new[i] = old[i],
           NEW k \in Frames(old)
    PROVE  k \in Frames(new) /\ FrameAt(new, k) = FrameAt(old, k)
    <1>1. k \in Nat /\ k >= 1 /\ 3 * k <= Len(old)
        BY FramesAreWhole
    <1>2. k \in Frames(new)
        BY <1>1, FrameIsThree DEF Frames
    <1>3. /\ FrameAt(new, k) = SubSeq(new, 3 * (k - 1) + 1, 3 * k)
          /\ FrameAt(old, k) = SubSeq(old, 3 * (k - 1) + 1, 3 * k)
        BY <1>1, FrameIsThree DEF FrameAt
    <1>4. SubSeq(new, 3 * (k - 1) + 1, 3 * k) = SubSeq(old, 3 * (k - 1) + 1, 3 * k)
        BY <1>1
    <1> QED
        BY <1>2, <1>3, <1>4

(* The loop has a first frame to stop at, if it has one at all.             *)
LEMMA FirstStopIsFirst ==
    ASSUME NEW d \in Descriptors, Stops(d) # {}
    PROVE  /\ FirstStop(d) \in Stops(d)
           /\ \A j \in Stops(d) : FirstStop(d) <= j
    <1>1. Stops(d) \in SUBSET Nat
        BY DEF Stops, Frames
    <1>2. \E m \in Stops(d) : \A j \in Stops(d) : m <= j
        <2> DEFINE Less == OpToRel(<, Nat)
        <2>1. IsWellFoundedOn(Less, Nat)
            BY NatLessThanWellFounded
        <2>2. \A i, j \in Nat : i < j => <<i, j>> \in Less
            BY DEF OpToRel
        <2> HIDE DEF Less
        <2>3. PICK m \in Stops(d) : \A j \in Stops(d) : ~(<<j, m>> \in Less)
            BY <1>1, <2>1, WFMin
        <2>4. \A j \in Stops(d) : ~(j < m)
            BY <1>1, <2>2, <2>3
        <2>5. \A j \in Stops(d) : m <= j
            BY <1>1, <2>4
        <2> QED
            BY <2>5
    <1> QED
        BY <1>2 DEF FirstStop

(* A node that will lose does so when it reads its buffer.                  *)
LEMMA WillLoseLoses ==
    ASSUME NEW d \in Descriptors, WillLose(d)
    PROVE  Stops(d) # {} /\ Lost(d)
    <1>1. PICK k \in Frames(d.rx) :
              /\ Outbids(FrameAt(d.rx, k), d.prio)
              /\ \A j \in 1 .. k - 1 : HasId(FrameAt(d.rx, j))
        BY DEF WillLose
    <1>2. k \in Stops(d) /\ Stops(d) \in SUBSET Nat
        BY <1>1 DEF Stops, Frames
    <1>4. FirstStop(d) \in Stops(d) /\ \A j \in Stops(d) : FirstStop(d) <= j
        BY <1>2, FirstStopIsFirst
    <1> DEFINE c == FirstStop(d)
    <1>5. c \in Frames(d.rx) /\ c \in Nat /\ c <= k /\ k \in Nat
        BY <1>2, <1>4 DEF Stops
    <1>6. Outbids(FrameAt(d.rx, c), d.prio)
        <2>1. CASE c = k
            BY <1>1, <2>1
        <2>2. CASE c # k
            <3>1. c \in 1 .. k - 1
                BY <1>5, <2>2 DEF Frames
            <3> QED
                BY <1>1, <1>4, <3>1 DEF Stops
        <2> QED
            BY <2>1, <2>2
    <1> QED
        BY <1>2, <1>6 DEF Lost

-----------------------------------------------------------------------------
(* What a node receives.                                                    *)

LEMMA WireType ==
    ASSUME NEW n \in Nodes, NEW data \in Seq(Nat), data # <<>>
    PROVE  OnWire(n, data) \in Seq(Nat) /\ OnWire(n, data) # <<>>
    BY DEF OnWire, NoiseByte

LEMMA ReceiveKeeps ==
    ASSUME NEW d \in Descriptors, Len(d.rx) <= RX_BUFFER_SIZE,
           NEW data \in Seq(Nat), data # <<>>,
           NEW r, r = DataReceived(d, data)
    PROVE  /\ r \in Descriptors /\ Len(r.rx) <= RX_BUFFER_SIZE
           /\ r.state = d.state /\ r.mode = d.mode /\ r.prio = d.prio
           /\ d.timeout_tmr > 0 => r.timeout_tmr > 0
           /\ d.state = "ARBITRATION" => r.rx = RingbufWrite(d.rx, data)
    <1>1. Len(data) \in Nat \ {0} /\ d.rx \in Seq(Nat) /\ d.bytes_left \in Nat
        BY DEF Descriptors
    <1>2. CASE d.state = "LISTEN" /\ d.bytes_left >= Len(data)
        <2> DEFINE left == d.bytes_left - Len(data)
                   e == [d EXCEPT !.bytes_left = left]
                   t == IF e.timeout_tmr = Loose THEN Loose ELSE TimerStart(e.timeout)
        <2>1. r = [e EXCEPT !.timeout_tmr = t]
            BY <1>1, <1>2 DEF DataReceived, TimeoutReset
        <2>2. left \in Nat
            BY <1>1, <1>2
        <2> HIDE DEF left
        <2>3. /\ e \in Descriptors /\ e.rx = d.rx /\ e.timeout_tmr = d.timeout_tmr
              /\ e.state = d.state /\ e.mode = d.mode /\ e.prio = d.prio
            BY <2>2 DEF Descriptors
        <2>4. t \in Nat \cup {Loose} /\ (d.timeout_tmr > 0 => t > 0)
            <3>1. e.timeout \in Nat
                BY <2>3 DEF Descriptors
            <3> QED
                BY <2>3, <3>1 DEF TimerStart, Loose
        <2> HIDE DEF e, t
        <2> QED
            BY <1>2, <2>1, <2>3, <2>4 DEF Descriptors
    <1>3. CASE d.state = "LISTEN" /\ d.bytes_left < Len(data)
        <2>1. r = [d EXCEPT !.bytes_left = 0]
            BY <1>1, <1>3 DEF DataReceived
        <2>2. 0 \in Nat
            OBVIOUS
        <2>3. PICK none \in Nat : r = [d EXCEPT !.bytes_left = none]
            BY <2>1, <2>2, Zenon
        <2>4. /\ r \in Descriptors /\ r.rx = d.rx /\ r.timeout_tmr = d.timeout_tmr
              /\ r.state = d.state /\ r.mode = d.mode /\ r.prio = d.prio
            BY <2>3 DEF Descriptors
        <2> QED
            BY <1>3, <2>4
    <1>4. CASE d.state \in {"WAIT_IDLE", "TRANSMIT"}
        <2>1. r = [d EXCEPT !.rx = DATA_RECEIVED_FLAG]
            BY <1>4 DEF DataReceived
        <2>2. DATA_RECEIVED_FLAG \in Seq(Nat) /\ Len(DATA_RECEIVED_FLAG) <= RX_BUFFER_SIZE
            BY MmbAssumption DEF DATA_RECEIVED_FLAG
        <2> QED
            BY <1>1, <1>4, <2>1, <2>2 DEF Descriptors
    <1>5. CASE d.state = "ARBITRATION"
        <2>1. r = [d EXCEPT !.rx = RingbufWrite(d.rx, data)]
            BY <1>5 DEF DataReceived
        <2>2. /\ RingbufWrite(d.rx, data) \in Seq(Nat)
              /\ Len(RingbufWrite(d.rx, data)) <= RX_BUFFER_SIZE
            BY <1>1, WriteExtends
        <2> QED
            BY <1>5, <2>1, <2>2 DEF Descriptors
    <1>6. CASE d.state = "HIGH_Z"
        <2>1. r = d
            BY <1>6 DEF DataReceived
        <2> QED
            BY <1>6, <2>1
    <1>7. d.state \in {"HIGH_Z", "LISTEN", "WAIT_IDLE", "ARBITRATION", "TRANSMIT"}
        BY DEF Descriptors
    <1> QED
        BY <1>1, <1>2, <1>3, <1>4, <1>5, <1>6, <1>7

(* A node that will lose does not lose sight of it by hearing more.         *)
LEMMA WillLoseStays ==
    ASSUME NEW d \in Descriptors, Len(d.rx) <= RX_BUFFER_SIZE,
           NEW data \in Seq(Nat), data # <<>>,
           d.state = "ARBITRATION", WillLose(d),
           NEW r, r = DataReceived(d, data)
    PROVE  WillLose(r)
    <1>1. r \in Descriptors /\ r.prio = d.prio /\ r.rx = RingbufWrite(d.rx, data)
        BY ReceiveKeeps
    <1>2. d.rx \in Seq(Nat) /\ r.rx \in Seq(Nat)
        BY <1>1 DEF Descriptors
    <1>3. Len(d.rx) <= Len(r.rx) /\ \A i \in 1 .. Len(d.rx) : r.rx[i] = d.rx[i]
        <2>1. /\ Len(d.rx) <= Len(RingbufWrite(d.rx, data))
              /\ \A i \in 1 .. Len(d.rx) : RingbufWrite(d.rx, data)[i] = d.rx[i]
            BY <1>2, WriteExtends
        <2> QED
            BY <1>1, <2>1
    <1>4. PICK k \in Frames(d.rx) :
              /\ Outbids(FrameAt(d.rx, k), d.prio)
              /\ \A j \in 1 .. k - 1 : HasId(FrameAt(d.rx, j))
        BY DEF WillLose
    <1>5. \A j \in Frames(d.rx) :
              j \in Frames(r.rx) /\ FrameAt(r.rx, j) = FrameAt(d.rx, j)
        BY <1>2, <1>3, FramesStay
    <1>6. \A j \in 1 .. k - 1 : j \in Frames(d.rx)
        BY <1>2, <1>4, FramesAreWhole
    <1> QED
        BY <1>1, <1>4, <1>5, <1>6 DEF WillLose

(* A node that hears the announcement that outbids it will lose.            *)
LEMMA OutbidWillLose ==
    ASSUME NEW d \in Descriptors, Outbid(d)
    PROVE  d.state = "ARBITRATION" /\ d.rx # <<>> /\ WillLose(d)
    <1>1. PICK k \in Frames(d.rx) : Outbids(FrameAt(d.rx, k), d.prio)
        BY DEF Outbid
    <1>2. d.rx \in Seq(Nat)
        BY DEF Descriptors
    <1>3. k \in Nat /\ 1 <= k /\ 3 * k <= Len(d.rx) /\ \A j \in 1 .. k : j \in Frames(d.rx)
        BY <1>2, FramesAreWhole
    <1>4. d.rx # <<>>
        BY <1>2, <1>3
    <1>5. \A j \in 1 .. k - 1 : HasId(FrameAt(d.rx, j))
        BY <1>3 DEF Outbid
    <1> QED
        BY <1>1, <1>4, <1>5 DEF Outbid, WillLose

LEMMA HearKeeps ==
    ASSUME NEW d \in Descriptors, Len(d.rx) <= RX_BUFFER_SIZE,
           NEW data \in Seq(Nat), data # <<>>,
           NEW p, NEW w \in BOOLEAN, NEW t \in Nat, NEW o \in BOOLEAN,
           NEW c, NEW a, NEW v, NodeOK(d, p, w, t, o, c, a, v),
           NEW r, r = DataReceived(d, data),
           NEW heard \in BOOLEAN, heard <=> o \/ Outbid(r)
    PROVE  NodeOK(r, p, w, t, heard, c, a, v)
    <1>1. /\ r \in Descriptors /\ r.state = d.state /\ r.mode = d.mode
          /\ d.timeout_tmr > 0 => r.timeout_tmr > 0
          /\ d.state = "ARBITRATION" => r.rx = RingbufWrite(d.rx, data)
        BY ReceiveKeeps
    <1>0. PlaceOK(d, p, w) /\ CallOK(d, p, w, c) /\ ModeOK(d, p, c, a, v) /\ BidOK(d, p, t, o)
        BY DEF NodeOK
    <1>2. PlaceOK(r, p, w) /\ CallOK(r, p, w, c) /\ ModeOK(r, p, c, a, v)
        BY <1>0, <1>1 DEF PlaceOK, CallOK, ModeOK
    <1> SUFFICES BidOK(r, p, t, heard)
        BY <1>2 DEF NodeOK
    <1>3. CASE Outbid(r)
        <2>1. r.state = "ARBITRATION" /\ r.rx # <<>> /\ WillLose(r)
            BY <1>1, <1>3, OutbidWillLose
        <2>2. t = 0 /\ p \in {"none", "won"}
            BY <1>0, <1>1, <2>1 DEF BidOK, PlaceOK
        <2> QED
            BY <1>2, <2>1, <2>2 DEF BidOK
    <1>4. CASE ~Outbid(r)
        <2>1. o /\ p # "won" /\ d.state = "ARBITRATION" => WillLose(r)
            BY <1>0, WillLoseStays DEF BidOK
        <2>2. o /\ p = "won" => r.rx # <<>>
            <3>1. SUFFICES ASSUME o, p = "won" PROVE r.rx # <<>>
                OBVIOUS
            <3>2. d.rx \in Seq(Nat) /\ d.rx # <<>> /\ d.state = "ARBITRATION"
                BY <1>0, <3>1 DEF BidOK, PlaceOK, Descriptors
            <3>3. /\ RingbufWrite(d.rx, data) \in Seq(Nat)
                  /\ Len(d.rx) <= Len(RingbufWrite(d.rx, data))
                BY <3>2, WriteExtends
            <3> QED
                BY <1>1, <3>2, <3>3
        <2>3. heard <=> o
            BY <1>4
        <2>4. CASE o
            BY <1>0, <1>1, <2>1, <2>2, <2>3, <2>4 DEF BidOK
        <2>5. CASE ~o
            BY <1>0, <1>1, <2>3, <2>5 DEF BidOK
        <2> QED
            BY <2>4, <2>5
    <1> QED
        BY <1>2, <1>3, <1>4

-----------------------------------------------------------------------------
(* What the operations on a descriptor do.                                  *)

States == {"HIGH_Z", "LISTEN", "WAIT_IDLE", "ARBITRATION", "TRANSMIT"}

LEMMA LooseTimer ==
    ASSUME NEW timer \in Nat \cup {Loose}
    PROVE  Loosen(timer) \in Nat \cup {Loose}
    <1>1. 0 \in Nat
        OBVIOUS
    <1> QED
        BY <1>1 DEF Loosen

LEMMA StateSet ==
    ASSUME NEW d \in Descriptors, NEW state \in States
    PROVE  /\ BusStateTrySet(d, state) \in Descriptors
           /\ BusStateTrySet(d, state).state = state
           /\ BusStateTrySet(d, state).mode = d.mode
           /\ BusStateTrySet(d, state).rx = d.rx
           /\ BusStateTrySet(d, state).prio = d.prio
           /\ BusStateTrySet(d, state).bytes_left = d.bytes_left
           /\ state # "HIGH_Z" => BusStateTrySet(d, state).timeout_tmr = d.timeout_tmr
    <1> DEFINE arb == IF state \in {"WAIT_IDLE", "ARBITRATION"} THEN d.arb_tmr
                      ELSE Loosen(d.arb_tmr)
               ticks == IF state = "LISTEN" THEN d.timeout ELSE 0
               tmr == IF state = "HIGH_Z" THEN Loosen(d.timeout_tmr) ELSE d.timeout_tmr
    <1>1. d.arb_tmr \in Nat \cup {Loose} /\ d.timeout_tmr \in Nat \cup {Loose}
        BY DEF Descriptors
    <1>2. arb \in Nat \cup {Loose} /\ tmr \in Nat \cup {Loose}
        BY <1>1, LooseTimer
    <1>3. ticks \in Nat
        BY DEF Descriptors
    <1>4. BusStateTrySet(d, state) = [d EXCEPT !.state = state, !.arb_tmr = arb,
                                               !.timeout = ticks, !.timeout_tmr = tmr]
        BY DEF BusStateTrySet
    <1>5. state # "HIGH_Z" => tmr = d.timeout_tmr
        OBVIOUS
    <1> HIDE DEF arb, ticks, tmr
    <1> QED
        BY <1>2, <1>3, <1>4, <1>5 DEF Descriptors, States

LEMMA HeldUpSet ==
    ASSUME NEW d \in Descriptors, NEW state \in States
    PROVE  /\ HeldUp(d, state) \in Descriptors
           /\ HeldUp(d, state).state = state /\ HeldUp(d, state).mode = d.mode
           /\ HeldUp(d, state).rx = d.rx
    <1> DEFINE e == BusStateTrySet(d, state)
               arb == Loosen(e.arb_tmr)
               tmr == Loosen(e.timeout_tmr)
    <1>1. e \in Descriptors /\ e.state = state /\ e.mode = d.mode /\ e.rx = d.rx
        BY StateSet
    <1>2. HeldUp(d, state) = [e EXCEPT !.arb_tmr = arb, !.timeout_tmr = tmr]
        BY DEF HeldUp
    <1> HIDE DEF e
    <1>3. arb \in Nat \cup {Loose} /\ tmr \in Nat \cup {Loose}
        BY <1>1, LooseTimer DEF Descriptors
    <1> HIDE DEF arb, tmr
    <1> QED
        BY <1>1, <1>2, <1>3 DEF Descriptors

LEMMA ModeSet ==
    ASSUME NEW d \in Descriptors, NEW mode \in {"HIGH_Z", "RECEIVE", "TRANSMIT"}
    PROVE  /\ BusModeSet(d, mode) \in Descriptors
           /\ BusModeSet(d, mode).mode = mode
           /\ BusModeSet(d, mode).state = d.state
           /\ BusModeSet(d, mode).rx = d.rx
           /\ BusModeSet(d, mode).prio = d.prio
           /\ BusModeSet(d, mode).timeout_tmr = d.timeout_tmr
    BY DEF BusModeSet, Descriptors

LEMMA TimeoutSet ==
    ASSUME NEW d \in Descriptors, NEW ticks \in Nat,
           NEW e, e = [d EXCEPT !.timeout_tmr = ticks]
    PROVE  /\ e \in Descriptors /\ e.state = d.state /\ e.mode = d.mode
           /\ e.rx = d.rx /\ e.timeout_tmr = ticks
    BY DEF Descriptors

LEMMA HighZSet ==
    ASSUME NEW d \in Descriptors
    PROVE  /\ HighZ(d) \in Descriptors /\ HighZ(d).rx = d.rx
           /\ HighZ(d).state = "HIGH_Z" /\ HighZ(d).mode = "HIGH_Z"
    <1> DEFINE e == BusStateTrySet(d, "HIGH_Z")
    <1>1. e \in Descriptors /\ e.state = "HIGH_Z" /\ e.rx = d.rx
        BY StateSet DEF States
    <1>2. HighZ(d) = BusModeSet(e, "HIGH_Z")
        BY DEF HighZ
    <1> HIDE DEF e
    <1> QED
        BY <1>1, <1>2, ModeSet

(* The two timers: what a handler or a call starts.                         *)
LEMMA TimeoutStarts ==
    ASSUME NEW d \in Descriptors, NEW ticks \in Nat
    PROVE  LET e == ITimeoutStart(d, ticks)
           IN  /\ e \in Descriptors /\ e.state = d.state /\ e.mode = d.mode
               /\ e.rx = d.rx /\ e.prio = d.prio
               /\ d.state # "HIGH_Z" => e.timeout_tmr > 0
    <1> DEFINE timeout == IF d.state = "LISTEN" THEN ticks ELSE 0
               tmr == IF d.state = "HIGH_Z" THEN Loose ELSE TimerStart(ticks)
    <1>1. timeout \in Nat /\ tmr \in Nat \cup {Loose}
        BY DEF TimerStart
    <1>2. d.state # "HIGH_Z" => tmr > 0
        BY DEF TimerStart
    <1>3. ITimeoutStart(d, ticks) = [d EXCEPT !.timeout = timeout, !.timeout_tmr = tmr]
        BY DEF ITimeoutStart
    <1> HIDE DEF timeout, tmr
    <1> QED
        BY <1>1, <1>2, <1>3 DEF Descriptors

LEMMA ArbitrationTimerStarts ==
    ASSUME NEW d \in Descriptors, NEW ticks \in Nat
    PROVE  LET e == IArbitrationTimerStart(d, ticks)
           IN  /\ e \in Descriptors /\ e.state = d.state /\ e.mode = d.mode
               /\ e.rx = d.rx /\ e.prio = d.prio /\ e.timeout_tmr = d.timeout_tmr
    <1> DEFINE tmr == IF d.state \in {"WAIT_IDLE", "ARBITRATION"} THEN TimerStart(ticks)
                      ELSE Loose
    <1>1. tmr \in Nat \cup {Loose}
        BY DEF TimerStart
    <1>2. IArbitrationTimerStart(d, ticks) = [d EXCEPT !.arb_tmr = tmr]
        BY DEF IArbitrationTimerStart
    <1> HIDE DEF tmr
    <1> QED
        BY <1>1, <1>2 DEF Descriptors

LEMMA ReceiverSet ==
    ASSUME NEW d \in Descriptors, NEW bytes \in Nat
    PROVE  /\ Receiver(d, bytes) \in Descriptors /\ Receiver(d, bytes).state = d.state
           /\ Receiver(d, bytes).mode = "RECEIVE" /\ Receiver(d, bytes).rx = <<>>
           /\ Len(Receiver(d, bytes).rx) <= RX_BUFFER_SIZE
    <1>1. <<>> \in Seq(Nat) /\ Len(<<>>) <= RX_BUFFER_SIZE
        BY MmbAssumption
    <1>2. PICK empty \in Seq(Nat) : empty = <<>>
        BY <1>1
    <1> DEFINE e == [d EXCEPT !.bytes_left = bytes, !.rx = empty]
    <1>3. Receiver(d, bytes) = BusModeSet(e, "RECEIVE")
        BY <1>2 DEF Receiver
    <1>4. e \in Descriptors /\ e.state = d.state /\ e.rx = empty
        BY DEF Descriptors
    <1> HIDE DEF e
    <1> QED
        BY <1>1, <1>2, <1>3, <1>4, ModeSet

LEMMA PrioIsNat ==
    ASSUME NEW d \in Descriptors
    PROVE  d.prio \in Nat
    <1>1. d.prio \in Prios \cup {0}
        BY DEF Descriptors
    <1>2. \A q \in Prios : q \in Nat
        BY MmbAssumption
    <1>3. 0 \in Nat
        OBVIOUS
    <1> QED
        BY <1>1, <1>2, <1>3

LEMMA DelayIsNat ==
    ASSUME NEW prio \in Nat
    PROVE  IdleDelay(prio) \in Nat
    BY MmbAssumption DEF IdleDelay

LEMMA IdleWait ==
    ASSUME NEW d \in Descriptors
    PROVE  /\ RestartIdleWait(d) \in Descriptors
           /\ RestartIdleWait(d).state = d.state /\ RestartIdleWait(d).mode = d.mode
           /\ RestartIdleWait(d).rx = d.rx /\ RestartIdleWait(d).timeout_tmr = d.timeout_tmr
    <1>1. IdleDelay(d.prio) \in Nat
        BY PrioIsNat, DelayIsNat
    <1> QED
        BY <1>1, ArbitrationTimerStarts DEF RestartIdleWait

LEMMA BufferSet ==
    ASSUME NEW d \in Descriptors, NEW rx \in Seq(Nat),
           NEW e, e = [d EXCEPT !.rx = rx]
    PROVE  /\ e \in Descriptors /\ e.state = d.state /\ e.mode = d.mode
           /\ e.rx = rx /\ e.timeout_tmr = d.timeout_tmr /\ e.prio = d.prio
    BY DEF Descriptors

LEMMA Consumed ==
    ASSUME NEW d \in Descriptors, Len(d.rx) <= RX_BUFFER_SIZE
    PROVE  /\ Consume(d) \in Descriptors /\ Len(Consume(d).rx) <= RX_BUFFER_SIZE
           /\ Consume(d).state = d.state /\ Consume(d).mode = d.mode
           /\ Consume(d).timeout_tmr = d.timeout_tmr
    <1> DEFINE last == LastRead(d)
               rest == SubSeq(d.rx, last + 1, Len(d.rx))
    <1>1. d.rx \in Seq(Nat) /\ Len(d.rx) \in Nat
        BY DEF Descriptors
    <1>2. last \in Nat /\ last <= Len(d.rx)
        <2>1. CASE Stops(d) = {}
            BY <1>1, <2>1 DEF LastRead
        <2>2. CASE Stops(d) # {}
            <3>1. FirstStop(d) \in Frames(d.rx)
                BY <2>2, FirstStopIsFirst DEF Stops
            <3>2. FirstStop(d) \in Nat /\ 3 * FirstStop(d) <= Len(d.rx)
                BY <1>1, <3>1, FramesAreWhole
            <3>3. last = 3 * FirstStop(d)
                BY <2>2, FrameIsThree DEF LastRead
            <3> QED
                BY <1>1, <3>2, <3>3
        <2> QED
            BY <2>1, <2>2
    <1> HIDE DEF last
    <1>3. rest \in Seq(Nat) /\ Len(rest) = Len(d.rx) - last
        BY <1>1, <1>2
    <1>4. Consume(d) = [d EXCEPT !.rx = rest]
        BY DEF Consume, last
    <1>5. Len(rest) <= RX_BUFFER_SIZE
        BY <1>1, <1>2, <1>3, MmbAssumption
    <1> HIDE DEF rest
    <1> QED
        BY <1>3, <1>4, <1>5, BufferSet

-----------------------------------------------------------------------------
(* What a node may be in, and a step to it that nobody hears.               *)
Fits(d, p, w, t, o, c, a, v) ==
    /\ d \in Descriptors /\ Len(d.rx) <= RX_BUFFER_SIZE
    /\ p \in Places /\ w \in BOOLEAN /\ t \in Nat /\ o \in BOOLEAN
    /\ c \in Calls /\ a \in BOOLEAN /\ v \in BOOLEAN
    /\ NodeOK(d, p, w, t, o, c, a, v)

Local(n, d, p, w, t, o, c, a, v) ==
    /\ desc' = [desc EXCEPT ![n] = d]
    /\ pc' = [pc EXCEPT ![n] = p]
    /\ pending' = [pending EXCEPT ![n] = w]
    /\ tx' = [tx EXCEPT ![n] = t]
    /\ outbid' = [outbid EXCEPT ![n] = o]
    /\ call' = [call EXCEPT ![n] = c]
    /\ again' = [again EXCEPT ![n] = a]
    /\ overtaken' = [overtaken EXCEPT ![n] = v]
    /\ sent' \in [Nodes -> BOOLEAN]

LEMMA OneNode ==
    ASSUME IInv, NEW n \in Nodes, NEW d, NEW p, NEW w, NEW t, NEW o, NEW c, NEW a, NEW v,
           Fits(d, p, w, t, o, c, a, v), Local(n, d, p, w, t, o, c, a, v)
    PROVE  IInv'
    <1> USE DEF Fits, Local
    <1>1. TypeOK'
        BY DEF IInv, TypeOK
    <1>2. ASSUME NEW m \in Nodes
          PROVE  NodeOK(desc'[m], pc'[m], pending'[m], tx'[m], outbid'[m],
                        call'[m], again'[m], overtaken'[m])
        <2>1. CASE m = n
            <3>1. /\ desc'[m] = d /\ pc'[m] = p /\ pending'[m] = w /\ tx'[m] = t
                  /\ outbid'[m] = o /\ call'[m] = c /\ again'[m] = a /\ overtaken'[m] = v
                BY <2>1 DEF IInv, TypeOK
            <3> QED
                BY <3>1
        <2>2. CASE m # n
            <3>1. /\ desc'[m] = desc[m] /\ pc'[m] = pc[m] /\ pending'[m] = pending[m]
                  /\ tx'[m] = tx[m] /\ outbid'[m] = outbid[m] /\ call'[m] = call[m]
                  /\ again'[m] = again[m] /\ overtaken'[m] = overtaken[m]
                BY <2>2 DEF IInv, TypeOK
            <3> QED
                BY <3>1 DEF IInv
        <2> QED
            BY <2>1, <2>2
    <1> QED
        BY <1>1, <1>2 DEF IInv

(* A step of one node that the others hear.                                 *)
Heard(n, p, t) ==
    /\ pc' = [pc EXCEPT ![n] = p]
    /\ tx' = [tx EXCEPT ![n] = t]
    /\ sent' \in [Nodes -> BOOLEAN]
    /\ UNCHANGED <<call, pending, again, overtaken>>

LEMMA Broadcast ==
    ASSUME IInv, NEW n \in Nodes, NEW data \in Seq(Nat), data # <<>>,
           NEW self, NEW p, NEW t,
           Fits(self, p, pending[n], t, outbid[n], call[n], again[n], overtaken[n]),
           Transmit(n, data, self), Heard(n, p, t)
    PROVE  IInv'
    <1> USE DEF Fits, Heard
    <1>1. ASSUME NEW m \in Nodes
          PROVE  /\ desc'[m] \in Descriptors /\ Len(desc'[m].rx) <= RX_BUFFER_SIZE
                 /\ NodeOK(desc'[m], pc'[m], pending'[m], tx'[m], outbid'[m],
                           call'[m], again'[m], overtaken'[m])
        <2>1. /\ desc[m] \in Descriptors /\ Len(desc[m].rx) <= RX_BUFFER_SIZE
              /\ pending'[m] = pending[m] /\ call'[m] = call[m]
              /\ again'[m] = again[m] /\ overtaken'[m] = overtaken[m]
              /\ pending[m] \in BOOLEAN /\ outbid[m] \in BOOLEAN /\ tx[m] \in Nat
              /\ NodeOK(desc[m], pc[m], pending[m], tx[m], outbid[m],
                        call[m], again[m], overtaken[m])
            BY DEF IInv, TypeOK
        <2>2. CASE m = n
            <3>1. desc'[m] = self /\ pc'[m] = p /\ tx'[m] = t
                BY <2>2 DEF Transmit, IInv, TypeOK
            <3>2. outbid'[m] <=> outbid[m]
                BY <2>2 DEF Transmit
            <3>3. outbid'[m] = outbid[m]
                BY <2>1, <3>2 DEF Transmit
            <3> QED
                BY <2>1, <2>2, <3>1, <3>3
        <2>3. CASE m # n
            <3> DEFINE heard == OnWire(n, data)
            <3>1. pc'[m] = pc[m] /\ tx'[m] = tx[m]
                BY <2>3 DEF IInv, TypeOK
            <3>2. outbid'[m] \in BOOLEAN /\ (outbid'[m] <=> outbid[m] \/ Outbid(desc'[m]))
                BY <2>3 DEF Transmit
            <3>3. CASE desc[m].mode = "RECEIVE"
                <4>1. desc'[m] = DataReceived(desc[m], heard)
                    BY <2>3, <3>3 DEF Transmit
                <4>2. heard \in Seq(Nat) /\ heard # <<>>
                    BY WireType
                <4> HIDE DEF heard
                <4>3. NodeOK(desc'[m], pc[m], pending[m], tx[m], outbid'[m],
                             call[m], again[m], overtaken[m])
                    BY <2>1, <3>2, <4>1, <4>2, HearKeeps
                <4>4. desc'[m] \in Descriptors /\ Len(desc'[m].rx) <= RX_BUFFER_SIZE
                    BY <2>1, <4>1, <4>2, ReceiveKeeps
                <4> QED
                    BY <2>1, <3>1, <4>3, <4>4
            <3>4. CASE desc[m].mode # "RECEIVE"
                <4>1. desc'[m] = desc[m]
                    BY <2>3, <3>4 DEF Transmit
                <4>2. ~Outbid(desc[m])
                    BY <2>1, <3>4 DEF Outbid, NodeOK, ModeOK
                <4>3. outbid'[m] = outbid[m]
                    BY <2>1, <3>2, <4>1, <4>2
                <4> QED
                    BY <2>1, <3>1, <4>1, <4>3
            <3> QED
                BY <3>3, <3>4
        <2> QED
            BY <2>2, <2>3
    <1>2. desc' \in [Nodes -> Descriptors] /\ outbid' \in [Nodes -> BOOLEAN]
        <2>1. desc' = [m \in Nodes |-> desc'[m]]
            BY DEF Transmit
        <2>2. outbid' \in [Nodes -> BOOLEAN]
            BY DEF Transmit
        <2> QED
            BY <1>1, <2>1, <2>2
    <1>3. TypeOK'
        BY <1>1, <1>2 DEF IInv, TypeOK
    <1> QED
        BY <1>1, <1>3 DEF IInv

-----------------------------------------------------------------------------
(* The steps.                                                               *)

LEMMA AtNode ==
    ASSUME IInv, NEW n \in Nodes
    PROVE  /\ desc[n] \in Descriptors /\ Len(desc[n].rx) <= RX_BUFFER_SIZE
           /\ desc[n].rx \in Seq(Nat)
           /\ pc[n] \in Places /\ pending[n] \in BOOLEAN
           /\ tx[n] \in Nat /\ outbid[n] \in BOOLEAN
           /\ call[n] \in Calls /\ again[n] \in BOOLEAN /\ overtaken[n] \in BOOLEAN
           /\ PlaceOK(desc[n], pc[n], pending[n])
           /\ CallOK(desc[n], pc[n], pending[n], call[n])
           /\ ModeOK(desc[n], pc[n], call[n], again[n], overtaken[n])
           /\ BidOK(desc[n], pc[n], tx[n], outbid[n])
    BY DEF IInv, TypeOK, Descriptors, NodeOK

LEMMA Same ==
    ASSUME IInv, NEW n \in Nodes
    PROVE  /\ Fits(desc[n], pc[n], pending[n], tx[n], outbid[n],
                   call[n], again[n], overtaken[n])
           /\ desc = [desc EXCEPT ![n] = desc[n]] /\ pc = [pc EXCEPT ![n] = pc[n]]
           /\ pending = [pending EXCEPT ![n] = pending[n]]
           /\ tx = [tx EXCEPT ![n] = tx[n]]
           /\ outbid = [outbid EXCEPT ![n] = outbid[n]]
           /\ call = [call EXCEPT ![n] = call[n]]
           /\ again = [again EXCEPT ![n] = again[n]]
           /\ overtaken = [overtaken EXCEPT ![n] = overtaken[n]]
           /\ sent \in [Nodes -> BOOLEAN] /\ call \in [Nodes -> Calls]
    BY AtNode DEF IInv, TypeOK, Fits, NodeOK

LEMMA NoCallTyped == NoCall \in Calls /\ NoCall.at = "none"
    BY DEF NoCall, Calls

LEMMA InitInv == Init => IInv
    <1> SUFFICES ASSUME Init PROVE IInv
        OBVIOUS
    <1> DEFINE d == [state |-> "HIGH_Z", mode |-> "HIGH_Z", prio |-> 0, bytes_left |-> 0,
                     rx |-> <<>>, timeout |-> 0, arb_tmr |-> 0, timeout_tmr |-> 0]
    <1>1. 0 \in Nat /\ <<>> \in Seq(Nat) /\ Len(<<>>) = 0 /\ Len(<<>>) <= RX_BUFFER_SIZE
        BY MmbAssumption
    <1>2. d \in Descriptors /\ d.rx = <<>> /\ d.state = "HIGH_Z" /\ d.mode = "HIGH_Z"
        BY <1>1 DEF Descriptors
    <1>3. desc = [n \in Nodes |-> d]
        BY DEF Init
    <1>4. NoCall \in Calls /\ NoCall.at = "none"
        BY NoCallTyped
    <1> HIDE DEF d
    <1>5. TypeOK
        BY <1>1, <1>2, <1>3, <1>4 DEF Init, TypeOK, Places
    <1>6. ASSUME NEW n \in Nodes
          PROVE  NodeOK(desc[n], pc[n], pending[n], tx[n], outbid[n],
                        call[n], again[n], overtaken[n])
        <2>1. /\ desc[n] = d /\ pc[n] = "none" /\ ~pending[n] /\ tx[n] = 0 /\ ~outbid[n]
              /\ call[n].at = "none" /\ ~overtaken[n]
            BY <1>3, <1>4 DEF Init
        <2> QED
            BY <1>2, <2>1 DEF NodeOK, PlaceOK, CallOK, ModeOK, BidOK
    <1> QED
        BY <1>5, <1>6 DEF IInv

LEMMA BytesLeft ==
    ASSUME IInv, NEW n \in Nodes, NEW size \in Sizes,
           NEW d, d = [desc[n] EXCEPT !.bytes_left = size]
    PROVE  /\ d \in Descriptors /\ d.state = desc[n].state /\ d.mode = desc[n].mode
           /\ d.rx = desc[n].rx /\ d.timeout_tmr = desc[n].timeout_tmr
           /\ WillLose(desc[n]) => WillLose(d)
    <1>1. size \in Nat
        BY MmbAssumption
    <1>2. /\ d \in Descriptors /\ d.state = desc[n].state /\ d.mode = desc[n].mode
          /\ d.prio = desc[n].prio /\ d.rx = desc[n].rx
          /\ d.timeout_tmr = desc[n].timeout_tmr
        BY <1>1, AtNode DEF Descriptors
    <1> QED
        BY <1>2 DEF WillLose

LEMMA TransmitCallKeeps ==
    ASSUME IInv, NEW n \in Nodes, NEW prio \in Prios, NEW size \in Sizes,
           NEW timeout \in Timeouts, TransmitCall(n, prio, size, timeout)
    PROVE  IInv'
    <1> DEFINE d == [desc[n] EXCEPT !.bytes_left = size]
               c == IF timeout = 0
                    THEN NoCall
                    ELSE [at |-> "start", prio |-> prio, timeout |-> timeout, bytes |-> 0]
    <1>1. /\ d \in Descriptors /\ d.state = desc[n].state /\ d.mode = desc[n].mode
          /\ d.rx = desc[n].rx /\ d.timeout_tmr = desc[n].timeout_tmr
          /\ WillLose(desc[n]) => WillLose(d)
        BY BytesLeft
    <1>2. c \in Calls /\ c.at \in {"none", "start"}
        BY NoCallTyped DEF Calls
    <1>3. /\ call[n].at = "none" /\ pending[n] = FALSE /\ pc[n] = "none"
          /\ desc[n].state \in {"LISTEN", "HIGH_Z"}
        BY AtNode DEF TransmitCall, CanCall, InTask, PlaceOK, Descriptors
    <1>4. Local(n, d, pc[n], pending[n], tx[n], outbid[n], c, again[n], overtaken[n])
        BY Same DEF TransmitCall, Local
    <1> HIDE DEF d, c
    <1>5. Fits(d, pc[n], pending[n], tx[n], outbid[n], c, again[n], overtaken[n])
        BY <1>1, <1>2, <1>3, AtNode DEF Fits, NodeOK, PlaceOK, CallOK, ModeOK, BidOK
    <1> QED
        BY <1>4, <1>5, OneNode

LEMMA CallMoves ==
    ASSUME IInv, NEW n \in Nodes,
           NEW at \in {"none", "start", "prio", "timers", "receiver", "listen"},
           NEW c, c = [call[n] EXCEPT !.at = at]
    PROVE  c \in Calls /\ c.at = at
    BY AtNode DEF Calls

LEMMA ArbitrationStartKeeps ==
    ASSUME IInv, NEW n \in Nodes, ArbitrationStart(n)
    PROVE  IInv'
    <1> DEFINE d == HeldUp(desc[n], "WAIT_IDLE")
               c == [call[n] EXCEPT !.at = "prio"]
    <1>1. pc[n] = "none" /\ call[n].at = "start" /\ ~pending[n]
        BY AtNode DEF ArbitrationStart, InTask, CallOK
    <1>2. /\ d \in Descriptors /\ d.state = "WAIT_IDLE" /\ d.mode = desc[n].mode
          /\ d.rx = desc[n].rx
        BY AtNode, HeldUpSet DEF States
    <1>3. c \in Calls /\ c.at = "prio"
        BY CallMoves
    <1>4. ~outbid[n] /\ tx[n] = 0
        BY <1>1, AtNode DEF PlaceOK, BidOK
    <1>5. desc[n].mode # "TRANSMIT"
        BY <1>1, AtNode DEF ModeOK, PlaceOK, CallOK, Descriptors
    <1>6. Local(n, d, pc[n], TRUE, tx[n], outbid[n], c, again[n], FALSE)
        BY Same DEF ArbitrationStart, Local
    <1> HIDE DEF d, c
    <1>7. Fits(d, pc[n], TRUE, tx[n], outbid[n], c, again[n], FALSE)
        BY <1>1, <1>2, <1>3, <1>4, <1>5, AtNode DEF Fits, NodeOK, PlaceOK, CallOK, ModeOK, BidOK
    <1> QED
        BY <1>6, <1>7, OneNode

(* The priority and the timeout of a call.                                  *)
LEMMA CallIsNat ==
    ASSUME IInv, NEW n \in Nodes
    PROVE  /\ call[n].prio \in Prios \cup {0} /\ call[n].prio \in Nat
           /\ call[n].timeout \in Nat /\ call[n].bytes \in Nat
    <1>1. /\ call[n].prio \in Prios \cup {0} /\ call[n].timeout \in Timeouts \cup {0}
          /\ call[n].bytes \in Sizes \cup {0}
        BY AtNode DEF Calls
    <1>2. \A i \in Prios \cup Timeouts \cup Sizes : i \in Nat
        BY MmbAssumption
    <1>3. 0 \in Nat
        OBVIOUS
    <1> QED
        BY <1>1, <1>2, <1>3

LEMMA SetPrioKeeps ==
    ASSUME IInv, NEW n \in Nodes, SetPrio(n)
    PROVE  IInv'
    <1> DEFINE d == [desc[n] EXCEPT !.prio = call[n].prio]
               c == [call[n] EXCEPT !.at = "timers"]
               o == Outbid(d)
    <1>1. pc[n] = "none" /\ call[n].at = "prio"
        BY DEF SetPrio, InTask
    <1>2. /\ d \in Descriptors /\ d.state = desc[n].state /\ d.mode = desc[n].mode
          /\ d.rx = desc[n].rx /\ d.timeout_tmr = desc[n].timeout_tmr
        BY AtNode, CallIsNat DEF Descriptors
    <1>3. c \in Calls /\ c.at = "timers"
        BY CallMoves
    <1>4. desc' = [desc EXCEPT ![n] = d] /\ desc'[n] = d
        BY DEF SetPrio, IInv, TypeOK
    <1>5. Local(n, d, pc[n], pending[n], tx[n], o, c, again[n], overtaken[n])
        BY <1>4, Same DEF SetPrio, Local
    <1>6. o \in BOOLEAN
        BY DEF Outbid
    <1>7. o => d.state = "ARBITRATION" /\ d.rx # <<>> /\ WillLose(d)
        BY <1>2, OutbidWillLose
    <1>8. tx[n] = 0
        BY <1>1, AtNode DEF BidOK
    <1> HIDE DEF d, c, o
    <1>9. Fits(d, pc[n], pending[n], tx[n], o, c, again[n], overtaken[n])
        BY <1>1, <1>2, <1>3, <1>6, <1>7, <1>8, AtNode
           DEF Fits, NodeOK, PlaceOK, CallOK, ModeOK, BidOK
    <1> QED
        BY <1>5, <1>9, OneNode

LEMMA StartTimersKeeps ==
    ASSUME IInv, NEW n \in Nodes, StartTimers(n)
    PROVE  IInv'
    <1> DEFINE e == ITimeoutStart(desc[n], call[n].timeout)
               d == IArbitrationTimerStart(e, IdleDelay(call[n].prio))
    <1>1. pc[n] = "none" /\ call[n].at = "timers"
        BY DEF StartTimers, InTask
    <1>2. /\ e \in Descriptors /\ e.state = desc[n].state /\ e.mode = desc[n].mode
          /\ e.rx = desc[n].rx /\ e.prio = desc[n].prio
          /\ desc[n].state # "HIGH_Z" => e.timeout_tmr > 0
        BY AtNode, CallIsNat, TimeoutStarts
    <1>3. IdleDelay(call[n].prio) \in Nat
        BY CallIsNat, DelayIsNat
    <1>4. Local(n, d, pc[n], pending[n], tx[n], outbid[n], NoCall, again[n], overtaken[n])
        BY Same DEF StartTimers, Local
    <1> HIDE DEF e
    <1>5. /\ d \in Descriptors /\ d.state = desc[n].state /\ d.mode = desc[n].mode
          /\ d.rx = desc[n].rx /\ d.prio = desc[n].prio
          /\ desc[n].state # "HIGH_Z" => d.timeout_tmr > 0
        BY <1>2, <1>3, ArbitrationTimerStarts
    <1> HIDE DEF d
    <1>6. WillLose(desc[n]) => WillLose(d)
        BY <1>5 DEF WillLose
    <1>7. Fits(d, pc[n], pending[n], tx[n], outbid[n], NoCall, again[n], overtaken[n])
        BY <1>1, <1>5, <1>6, NoCallTyped, AtNode
           DEF Fits, NodeOK, PlaceOK, CallOK, ModeOK, BidOK
    <1> QED
        BY <1>4, <1>7, OneNode

LEMMA ListenCallKeeps ==
    ASSUME IInv, NEW n \in Nodes, NEW bytes \in Sizes \cup {0}, ListenCall(n, bytes)
    PROVE  IInv'
    <1> DEFINE d == HeldUp(desc[n], "LISTEN")
               c == [at |-> "receiver", prio |-> 0, timeout |-> 0, bytes |-> bytes]
    <1>1. pc[n] = "none" /\ tx[n] = 0
        BY AtNode DEF ListenCall, CanCall, InTask, BidOK
    <1>2. /\ d \in Descriptors /\ d.state = "LISTEN" /\ d.mode = desc[n].mode
          /\ d.rx = desc[n].rx
        BY AtNode, HeldUpSet DEF States
    <1>3. c \in Calls /\ c.at = "receiver"
        BY DEF Calls
    <1>4. Local(n, d, pc[n], FALSE, tx[n], FALSE, c, FALSE, FALSE)
        BY Same DEF ListenCall, Local
    <1> HIDE DEF d, c
    <1>5. Fits(d, pc[n], FALSE, tx[n], FALSE, c, FALSE, FALSE)
        BY <1>1, <1>2, <1>3, AtNode DEF Fits, NodeOK, PlaceOK, CallOK, ModeOK, BidOK
    <1> QED
        BY <1>4, <1>5, OneNode

LEMMA SetReceiverKeeps ==
    ASSUME IInv, NEW n \in Nodes, SetReceiver(n)
    PROVE  IInv'
    <1> DEFINE d == Receiver(desc[n], call[n].bytes)
               c == [call[n] EXCEPT !.at = "listen"]
               v == desc[n].state = "HIGH_Z"
    <1>1. /\ pc[n] = "none" /\ desc[n].state \in {"LISTEN", "HIGH_Z"} /\ ~pending[n]
          /\ ~outbid[n] /\ tx[n] = 0
        BY AtNode DEF SetReceiver, InTask, CallOK, PlaceOK, BidOK
    <1>2. /\ d \in Descriptors /\ d.state = desc[n].state /\ d.mode = "RECEIVE"
          /\ Len(d.rx) <= RX_BUFFER_SIZE
        BY AtNode, CallIsNat, ReceiverSet
    <1>3. c \in Calls /\ c.at = "listen"
        BY CallMoves
    <1>4. Local(n, d, pc[n], pending[n], tx[n], outbid[n], c, again[n], v)
        BY Same DEF SetReceiver, Local
    <1>5. v \in BOOLEAN /\ (v <=> desc[n].state = "HIGH_Z")
        OBVIOUS
    <1> HIDE DEF d, c, v
    <1>6. Fits(d, pc[n], pending[n], tx[n], outbid[n], c, again[n], v)
        BY <1>1, <1>2, <1>3, <1>5, AtNode DEF Fits, NodeOK, PlaceOK, CallOK, ModeOK, BidOK
    <1> QED
        BY <1>4, <1>6, OneNode

LEMMA StartListeningKeeps ==
    ASSUME IInv, NEW n \in Nodes, StartListening(n)
    PROVE  IInv'
    <1> DEFINE d == ITimeoutStart(desc[n], ListenTimeout)
    <1>1. /\ pc[n] = "none" /\ desc[n].state \in {"LISTEN", "HIGH_Z"} /\ ~pending[n]
          /\ ~outbid[n] /\ call[n].at = "listen" /\ tx[n] = 0
        BY AtNode DEF StartListening, InTask, CallOK, PlaceOK, BidOK
    <1>2. /\ d \in Descriptors /\ d.state = desc[n].state /\ d.mode = desc[n].mode
          /\ d.rx = desc[n].rx
        BY AtNode, TimeoutStarts, MmbAssumption
    <1>3. Local(n, d, pc[n], pending[n], tx[n], outbid[n], NoCall, again[n], overtaken[n])
        BY Same DEF StartListening, Local
    <1> HIDE DEF d
    <1>4. Fits(d, pc[n], pending[n], tx[n], outbid[n], NoCall, again[n], overtaken[n])
        BY <1>1, <1>2, NoCallTyped, AtNode
           DEF Fits, NodeOK, PlaceOK, CallOK, ModeOK, BidOK
    <1> QED
        BY <1>3, <1>4, OneNode

LEMMA ArbitrationSet ==
    ASSUME NEW d \in Descriptors, NEW prio \in Prios, NEW size \in Nat, NEW timeout \in Nat
    PROVE  LET e == Arbitration(d, prio, size, timeout)
           IN  /\ e \in Descriptors /\ e.state = "WAIT_IDLE" /\ e.mode = d.mode
               /\ e.rx = d.rx /\ e.timeout_tmr > 0
    <1> DEFINE b == BusStateTrySet(d, "WAIT_IDLE")
               f == [b EXCEPT !.bytes_left = size, !.prio = prio]
               g == ITimeoutStart(f, timeout)
               e == IArbitrationTimerStart(g, IdleDelay(prio))
    <1>1. b \in Descriptors /\ b.state = "WAIT_IDLE" /\ b.mode = d.mode /\ b.rx = d.rx
        BY StateSet DEF States
    <1>2. Arbitration(d, prio, size, timeout) = e
        BY DEF Arbitration
    <1> HIDE DEF b
    <1>3. f \in Descriptors /\ f.state = "WAIT_IDLE" /\ f.mode = d.mode /\ f.rx = d.rx
        BY <1>1 DEF Descriptors
    <1> HIDE DEF f
    <1>4. /\ g \in Descriptors /\ g.state = "WAIT_IDLE" /\ g.mode = d.mode /\ g.rx = d.rx
          /\ g.timeout_tmr > 0
        BY <1>3, TimeoutStarts
    <1> HIDE DEF g
    <1>5. prio \in Nat
        BY MmbAssumption
    <1>6. /\ e \in Descriptors /\ e.state = "WAIT_IDLE" /\ e.mode = d.mode /\ e.rx = d.rx
          /\ e.timeout_tmr > 0
        BY <1>4, <1>5, DelayIsNat, ArbitrationTimerStarts
    <1> HIDE DEF e
    <1> QED
        BY <1>2, <1>6

LEMMA TransmitInCallbackKeeps ==
    ASSUME IInv, NEW n \in Nodes, NEW prio \in Prios, NEW size \in Sizes,
           NEW timeout \in Timeouts, TransmitInCallback(n, prio, size, timeout)
    PROVE  IInv'
    <1>1. /\ pc[n] = "result" /\ ~pending[n] /\ ~outbid[n] /\ tx[n] = 0 /\ ~overtaken[n]
          /\ call[n].at \notin {"start", "receiver", "listen"}
        BY AtNode DEF TransmitInCallback, PlaceOK, BidOK, ModeOK, CallOK
    <1>2. CASE timeout = 0
        <2> DEFINE d == [desc[n] EXCEPT !.bytes_left = size]
        <2>1. /\ d \in Descriptors /\ d.state = desc[n].state /\ d.mode = desc[n].mode
              /\ d.rx = desc[n].rx /\ d.timeout_tmr = desc[n].timeout_tmr
            BY BytesLeft
        <2>2. Local(n, d, "return", pending[n], tx[n], outbid[n],
                    call[n], again[n], overtaken[n])
            BY <1>2, Same DEF TransmitInCallback, Local
        <2> HIDE DEF d
        <2>3. Fits(d, "return", pending[n], tx[n], outbid[n], call[n], again[n], overtaken[n])
            BY <1>1, <2>1, AtNode DEF Fits, NodeOK, PlaceOK, CallOK, ModeOK, BidOK, Places
        <2> QED
            BY <2>2, <2>3, OneNode
    <1>3. CASE timeout # 0
        <2> DEFINE d == Arbitration(desc[n], prio, size, timeout)
                   a == desc[n].state = "TRANSMIT"
        <2>1. size \in Nat /\ timeout \in Nat
            BY MmbAssumption
        <2>2. /\ d \in Descriptors /\ d.state = "WAIT_IDLE" /\ d.mode = desc[n].mode
              /\ d.rx = desc[n].rx /\ d.timeout_tmr > 0
            BY <2>1, AtNode, ArbitrationSet
        <2>3. Local(n, d, "return", TRUE, tx[n], outbid[n], call[n], a, overtaken[n])
            BY <1>3, Same DEF TransmitInCallback, Local
        <2>4. a \in BOOLEAN /\ (desc[n].mode = "TRANSMIT" => a)
            <3>1. desc[n].state \in {"HIGH_Z", "TRANSMIT", "LISTEN"}
                BY <1>1, AtNode DEF PlaceOK, Descriptors
            <3>2. desc[n].state = "LISTEN" => desc[n].mode = "RECEIVE"
                BY <1>1, AtNode DEF ModeOK
            <3>3. desc[n].state = "HIGH_Z" => desc[n].mode = "HIGH_Z"
                BY <1>1, AtNode DEF ModeOK
            <3> QED
                BY <3>1, <3>2, <3>3
        <2> HIDE DEF d, a
        <2>6. Fits(d, "return", TRUE, tx[n], outbid[n], call[n], a, overtaken[n])
            BY <1>1, <2>2, <2>4, AtNode DEF Fits, NodeOK, PlaceOK, CallOK, ModeOK, BidOK, Places
        <2> QED
            BY <2>3, <2>6, OneNode
    <1> QED
        BY <1>2, <1>3 DEF TransmitInCallback

LEMMA ListenInCallbackKeeps ==
    ASSUME IInv, NEW n \in Nodes, NEW bytes \in Sizes \cup {0}, ListenInCallback(n, bytes)
    PROVE  IInv'
    <1> DEFINE e == BusStateTrySet(desc[n], "LISTEN")
               f == Receiver(e, bytes)
               d == ITimeoutStart(f, ListenTimeout)
    <1>1. /\ pc[n] = "result" /\ ~pending[n] /\ ~outbid[n] /\ tx[n] = 0 /\ ~overtaken[n]
          /\ call[n].at \notin {"start", "receiver", "listen"}
        BY AtNode DEF ListenInCallback, PlaceOK, BidOK, ModeOK, CallOK
    <1>2. bytes \in Nat
        <2>1. \A i \in Sizes : i \in Nat
            BY MmbAssumption
        <2>2. 0 \in Nat
            OBVIOUS
        <2> QED
            BY <2>1, <2>2
    <1>3. e \in Descriptors /\ e.state = "LISTEN"
        BY AtNode, StateSet DEF States
    <1>4. Local(n, d, "return", pending[n], tx[n], outbid[n], call[n], again[n], overtaken[n])
        BY Same DEF ListenInCallback, Local
    <1> HIDE DEF e
    <1>5. /\ f \in Descriptors /\ f.state = "LISTEN" /\ f.mode = "RECEIVE"
          /\ Len(f.rx) <= RX_BUFFER_SIZE
        BY <1>2, <1>3, ReceiverSet
    <1> HIDE DEF f
    <1>6. /\ d \in Descriptors /\ d.state = "LISTEN" /\ d.mode = "RECEIVE"
          /\ Len(d.rx) <= RX_BUFFER_SIZE
        BY <1>5, TimeoutStarts, MmbAssumption
    <1> HIDE DEF d
    <1>7. Fits(d, "return", pending[n], tx[n], outbid[n], call[n], again[n], overtaken[n])
        BY <1>1, <1>6, AtNode DEF Fits, NodeOK, PlaceOK, CallOK, ModeOK, BidOK, Places
    <1> QED
        BY <1>4, <1>7, OneNode

LEMMA BusIsNotIdleKeeps ==
    ASSUME IInv, NEW n \in Nodes, BusIsNotIdle(n)
    PROVE  IInv'
    <1> DEFINE e == [desc[n] EXCEPT !.rx = <<>>]
               d == RestartIdleWait(e)
    <1>1. <<>> \in Seq(Nat) /\ Len(<<>>) <= RX_BUFFER_SIZE
        BY MmbAssumption
    <1>2. /\ e \in Descriptors /\ e.state = desc[n].state /\ e.mode = desc[n].mode
          /\ e.rx = <<>> /\ e.timeout_tmr = desc[n].timeout_tmr
        <2>1. PICK empty \in Seq(Nat) : empty = <<>>
            BY <1>1
        <2>2. e = [desc[n] EXCEPT !.rx = empty]
            BY <2>1
        <2> HIDE DEF e
        <2>3. /\ e \in Descriptors /\ e.state = desc[n].state /\ e.mode = desc[n].mode
              /\ e.rx = empty /\ e.timeout_tmr = desc[n].timeout_tmr
            BY <2>2, AtNode, BufferSet
        <2> QED
            BY <2>1, <2>3
    <1>3. pc[n] = "none" /\ desc[n].state = "WAIT_IDLE"
        BY DEF BusIsNotIdle, ArbitrationDue
    <1>4. Local(n, d, pc[n], pending[n], tx[n], outbid[n],
                call[n], again[n], overtaken[n])
        BY Same DEF BusIsNotIdle, Local
    <1> HIDE DEF e
    <1>5. /\ d \in Descriptors /\ d.state = desc[n].state /\ d.mode = desc[n].mode
          /\ d.rx = <<>> /\ d.timeout_tmr = desc[n].timeout_tmr
        BY <1>2, IdleWait
    <1> HIDE DEF d
    <1>6. Fits(d, pc[n], pending[n], tx[n], outbid[n], call[n], again[n], overtaken[n])
        <2>1. Len(d.rx) <= RX_BUFFER_SIZE
            BY <1>1, <1>5
        <2>2. PlaceOK(d, pc[n], pending[n])
            BY <1>3, <1>5, AtNode DEF PlaceOK
        <2>3. BidOK(d, pc[n], tx[n], outbid[n])
            BY <1>3, <1>5, AtNode DEF BidOK
        <2>4. CallOK(d, pc[n], pending[n], call[n])
            BY <1>5, AtNode DEF CallOK
        <2>5. ModeOK(d, pc[n], call[n], again[n], overtaken[n])
            BY <1>5, AtNode DEF ModeOK
        <2> QED
            BY <1>5, <2>1, <2>2, <2>3, <2>4, <2>5, AtNode DEF Fits, NodeOK
    <1> QED
        BY <1>4, <1>6, OneNode

LEMMA BusIsIdleKeeps ==
    ASSUME IInv, NEW n \in Nodes, BusIsIdle(n)
    PROVE  IInv'
    <1> DEFINE d == BusModeSet(desc[n], "TRANSMIT")
    <1>1. /\ d \in Descriptors /\ d.state = desc[n].state /\ d.rx = desc[n].rx
          /\ d.timeout_tmr = desc[n].timeout_tmr
        BY AtNode, ModeSet
    <1>2. pc[n] = "none" /\ desc[n].state = "WAIT_IDLE"
        BY DEF BusIsIdle, ArbitrationDue
    <1>3. Local(n, d, "id", pending[n], tx[n], outbid[n], call[n], FALSE, overtaken[n])
        BY Same DEF BusIsIdle, Local
    <1> HIDE DEF d
    <1>4. Fits(d, "id", pending[n], tx[n], outbid[n], call[n], FALSE, overtaken[n])
        BY <1>1, <1>2, AtNode DEF Fits, NodeOK, PlaceOK, CallOK, ModeOK, BidOK, Places
    <1> QED
        BY <1>3, <1>4, OneNode

LEMMA SendIdKeeps ==
    ASSUME IInv, NEW n \in Nodes, SendId(n)
    PROVE  IInv'
    <1>1. MsgPrioId \in Seq(Nat) /\ MsgPrioId # <<>>
        BY FrameIsThree
    <1>2. Heard(n, "prio", tx[n]) /\ Transmit(n, MsgPrioId, desc[n])
        BY Same DEF SendId, Heard
    <1>3. Fits(desc[n], "prio", pending[n], tx[n], outbid[n],
               call[n], again[n], overtaken[n])
        BY AtNode DEF SendId, Fits, NodeOK, PlaceOK, CallOK, ModeOK, BidOK, Places
    <1> QED
        BY <1>1, <1>2, <1>3, Broadcast

LEMMA SendPrioKeeps ==
    ASSUME IInv, NEW n \in Nodes, SendPrio(n)
    PROVE  IInv'
    <1> DEFINE e == BusStateTrySet(desc[n], "ARBITRATION")
               f == BusModeSet(e, "RECEIVE")
               d == IArbitrationTimerStart(f, ARBITRATION_DELAY_BASE)
               data == <<desc[n].prio>>
    <1>1. data \in Seq(Nat) /\ data # <<>>
        <2>1. desc[n].prio \in Nat
            BY AtNode, PrioIsNat
        <2> QED
            BY <2>1
    <1>2. /\ e \in Descriptors /\ e.state = "ARBITRATION" /\ e.rx = desc[n].rx
          /\ e.timeout_tmr = desc[n].timeout_tmr
        BY AtNode, StateSet DEF States
    <1>3. Heard(n, "none", tx[n]) /\ Transmit(n, data, d)
        BY Same DEF SendPrio, Heard
    <1> HIDE DEF e, data
    <1>4. /\ f \in Descriptors /\ f.state = "ARBITRATION" /\ f.rx = desc[n].rx
          /\ f.mode = "RECEIVE" /\ f.timeout_tmr = desc[n].timeout_tmr
        BY <1>2, ModeSet
    <1> HIDE DEF f
    <1>5. ARBITRATION_DELAY_BASE \in Nat
        BY MmbAssumption
    <1>6. /\ d \in Descriptors /\ d.state = "ARBITRATION" /\ d.rx = desc[n].rx
          /\ d.mode = "RECEIVE" /\ d.timeout_tmr = desc[n].timeout_tmr
        BY <1>4, <1>5, ArbitrationTimerStarts
    <1> HIDE DEF d
    <1>7. pc[n] = "prio" /\ ~outbid[n] /\ pending[n]
        BY AtNode DEF SendPrio, BidOK, PlaceOK
    <1>8. Fits(d, "none", pending[n], tx[n], outbid[n], call[n], again[n], overtaken[n])
        BY <1>6, <1>7, AtNode DEF Fits, NodeOK, PlaceOK, CallOK, ModeOK, BidOK, Places
    <1> QED
        BY <1>1, <1>3, <1>8, Broadcast

LEMMA ReadArbitrationKeeps ==
    ASSUME IInv, NEW n \in Nodes, ReadArbitration(n)
    PROVE  IInv'
    <1> DEFINE c == Consume(desc[n])
    <1>1. /\ pc[n] = "none" /\ desc[n].state = "ARBITRATION" /\ pending[n]
          /\ desc[n].mode = "RECEIVE" /\ tx[n] = 0 /\ ~overtaken[n]
        BY AtNode DEF ReadArbitration, ArbitrationDue, PlaceOK, ModeOK, BidOK
    <1>2. outbid[n] => Lost(desc[n]) /\ ~Won(desc[n])
        BY <1>1, AtNode, WillLoseLoses DEF BidOK, Won
    <1>3. /\ c \in Descriptors /\ Len(c.rx) <= RX_BUFFER_SIZE
          /\ c.state = "ARBITRATION" /\ c.mode = "RECEIVE"
          /\ c.timeout_tmr = desc[n].timeout_tmr
        BY <1>1, AtNode, Consumed
    <1>4. CASE /\ Won(desc[n])
               /\ desc' = [desc EXCEPT ![n] = [c EXCEPT !.timeout_tmr = 0]]
               /\ pc' = [pc EXCEPT ![n] = "won"]
               /\ UNCHANGED outbid
        <2> DEFINE d == [c EXCEPT !.timeout_tmr = 0]
        <2>1. Local(n, d, "won", pending[n], tx[n], outbid[n],
                    call[n], again[n], overtaken[n])
            BY <1>4, Same DEF ReadArbitration, Local
        <2> HIDE DEF c
        <2>2. 0 \in Nat
            OBVIOUS
        <2>3. PICK none \in Nat : d = [c EXCEPT !.timeout_tmr = none]
            BY <2>2, Zenon
        <2>4. /\ d \in Descriptors /\ d.state = "ARBITRATION" /\ d.mode = "RECEIVE"
              /\ d.rx = c.rx
            BY <1>3, <2>3, TimeoutSet
        <2> HIDE DEF d
        <2>5. ~outbid[n]
            BY <1>2, <1>4
        <2>6. Fits(d, "won", pending[n], tx[n], outbid[n],
                   call[n], again[n], overtaken[n])
            BY <1>1, <1>3, <2>4, <2>5, AtNode DEF Fits, NodeOK, PlaceOK, CallOK, ModeOK, BidOK, Places
        <2> QED
            BY <2>1, <2>6, OneNode
    <1>5. CASE /\ Lost(desc[n])
               /\ desc' = [desc EXCEPT ![n] =
                             RestartIdleWait(BusStateTrySet(BusModeSet(c, "HIGH_Z"), "WAIT_IDLE"))]
               /\ outbid' = [outbid EXCEPT ![n] = FALSE]
               /\ UNCHANGED pc
        <2> DEFINE e == BusModeSet(c, "HIGH_Z")
                   f == BusStateTrySet(e, "WAIT_IDLE")
                   d == RestartIdleWait(f)
        <2>1. Local(n, d, pc[n], pending[n], tx[n], FALSE,
                    call[n], again[n], overtaken[n])
            BY <1>5, Same DEF ReadArbitration, Local
        <2> HIDE DEF c
        <2>2. /\ e \in Descriptors /\ e.rx = c.rx /\ e.timeout_tmr = c.timeout_tmr
              /\ e.mode = "HIGH_Z"
            BY <1>3, ModeSet
        <2> HIDE DEF e
        <2>3. /\ f \in Descriptors /\ f.rx = c.rx /\ f.timeout_tmr = c.timeout_tmr
              /\ f.state = "WAIT_IDLE" /\ f.mode = "HIGH_Z"
            BY <2>2, StateSet DEF States
        <2> HIDE DEF f
        <2>4. /\ d \in Descriptors /\ d.rx = c.rx /\ d.timeout_tmr = c.timeout_tmr
              /\ d.state = "WAIT_IDLE" /\ d.mode = "HIGH_Z"
            BY <2>3, IdleWait
        <2> HIDE DEF d
        <2>5. Fits(d, pc[n], pending[n], tx[n], FALSE, call[n], again[n], overtaken[n])
            BY <1>1, <1>3, <2>4, AtNode DEF Fits, NodeOK, PlaceOK, CallOK, ModeOK, BidOK, Places
        <2> QED
            BY <2>1, <2>5, OneNode
    <1>6. CASE /\ ~Won(desc[n]) /\ ~Lost(desc[n])
               /\ desc' = [desc EXCEPT ![n] =
                             IArbitrationTimerStart(c, ARBITRATION_DELAY_BASE)]
               /\ UNCHANGED <<pc, outbid>>
        <2> DEFINE d == IArbitrationTimerStart(c, ARBITRATION_DELAY_BASE)
        <2>1. Local(n, d, pc[n], pending[n], tx[n], outbid[n],
                    call[n], again[n], overtaken[n])
            BY <1>6, Same DEF ReadArbitration, Local
        <2> HIDE DEF c
        <2>2. ARBITRATION_DELAY_BASE \in Nat
            BY MmbAssumption
        <2>3. /\ d \in Descriptors /\ d.state = "ARBITRATION" /\ d.mode = "RECEIVE"
              /\ d.rx = c.rx /\ d.timeout_tmr = c.timeout_tmr
            BY <1>3, <2>2, ArbitrationTimerStarts
        <2> HIDE DEF d
        <2>4. ~outbid[n]
            BY <1>2, <1>6
        <2>5. Fits(d, pc[n], pending[n], tx[n], outbid[n],
                   call[n], again[n], overtaken[n])
            BY <1>1, <1>3, <2>3, <2>4, AtNode DEF Fits, NodeOK, PlaceOK, CallOK, ModeOK, BidOK, Places
        <2> QED
            BY <2>1, <2>5, OneNode
    <1> QED
        BY <1>4, <1>5, <1>6 DEF ReadArbitration

LEMMA ClaimKeeps ==
    ASSUME IInv, NEW n \in Nodes, Claim(n)
    PROVE  IInv'
    <1> DEFINE e == BusStateTrySet(desc[n], "TRANSMIT")
               d == BusModeSet(e, "TRANSMIT")
               t == IF desc[n].rx = <<>> THEN desc[n].bytes_left ELSE 0
    <1>1. pc[n] = "won" /\ desc[n].state = "ARBITRATION" /\ pending[n]
        BY AtNode DEF Claim, PlaceOK
    <1>2. t \in Nat /\ (outbid[n] => t = 0)
        BY <1>1, AtNode DEF BidOK, Descriptors
    <1>3. Local(n, d, "data", pending[n], t, outbid[n], call[n], again[n], overtaken[n])
        BY Same DEF Claim, Local
    <1>4. e \in Descriptors /\ e.state = "TRANSMIT" /\ e.rx = desc[n].rx
        BY AtNode, StateSet DEF States
    <1> HIDE DEF e, t
    <1>5. d \in Descriptors /\ d.state = "TRANSMIT" /\ d.rx = desc[n].rx
        BY <1>4, ModeSet
    <1> HIDE DEF d
    <1>6. Fits(d, "data", pending[n], t, outbid[n], call[n], again[n], overtaken[n])
        BY <1>1, <1>2, <1>5, AtNode DEF Fits, NodeOK, PlaceOK, CallOK, ModeOK, BidOK, Places
    <1> QED
        BY <1>3, <1>6, OneNode

LEMMA SendDataKeeps ==
    ASSUME IInv, NEW n \in Nodes, SendData(n)
    PROVE  IInv'
    <1>1. DataByte \in Seq(Nat) /\ DataByte # <<>>
        BY DEF DataByte
    <1>2. pc[n] = "data" /\ tx[n] > 0 /\ tx[n] - 1 \in Nat /\ ~outbid[n]
        BY AtNode DEF SendData, BidOK
    <1>3. sent' \in [Nodes -> BOOLEAN]
        BY Same DEF SendData
    <1>4. Heard(n, "data", tx[n] - 1) /\ Transmit(n, DataByte, desc[n])
        BY <1>2, <1>3, Same DEF SendData, Heard
    <1>5. Fits(desc[n], "data", pending[n], tx[n] - 1, outbid[n],
               call[n], again[n], overtaken[n])
        BY <1>2, AtNode DEF Fits, NodeOK, PlaceOK, CallOK, ModeOK, BidOK, Places
    <1> QED
        BY <1>1, <1>4, <1>5, Broadcast

LEMMA ReportSentKeeps ==
    ASSUME IInv, NEW n \in Nodes, ReportSent(n)
    PROVE  IInv'
    <1>1. pc[n] = "data" /\ tx[n] = 0 /\ desc[n].state = "TRANSMIT"
        BY AtNode DEF ReportSent, PlaceOK
    <1>2. Local(n, desc[n], "result", FALSE, tx[n], FALSE,
                call[n], again[n], overtaken[n])
        BY Same DEF ReportSent, Local
    <1>3. Fits(desc[n], "result", FALSE, tx[n], FALSE, call[n], again[n], overtaken[n])
        BY <1>1, AtNode DEF Fits, NodeOK, PlaceOK, CallOK, ModeOK, BidOK, Places
    <1> QED
        BY <1>2, <1>3, OneNode

LEMMA CallbackReturnKeeps ==
    ASSUME IInv, NEW n \in Nodes, CallbackReturn(n)
    PROVE  IInv'
    <1> DEFINE d == IF desc[n].state = "TRANSMIT" THEN HighZ(desc[n]) ELSE desc[n]
    <1>1. pc[n] \in {"result", "return"} /\ tx[n] = 0
        BY AtNode DEF CallbackReturn, BidOK
    <1>2. Local(n, d, "none", pending[n], tx[n], outbid[n],
                call[n], again[n], overtaken[n])
        BY Same DEF CallbackReturn, Local
    <1>3. Fits(d, "none", pending[n], tx[n], outbid[n], call[n], again[n], overtaken[n])
        <2>1. CASE desc[n].state = "TRANSMIT"
            <3>1. /\ d \in Descriptors /\ d.rx = desc[n].rx
                  /\ d.state = "HIGH_Z" /\ d.mode = "HIGH_Z"
                BY <2>1, AtNode, HighZSet
            <3> HIDE DEF d
            <3> QED
                BY <1>1, <2>1, <3>1, AtNode DEF Fits, NodeOK, PlaceOK, CallOK, ModeOK, BidOK, Places
        <2>2. CASE desc[n].state # "TRANSMIT"
            <3>1. d = desc[n]
                BY <2>2
            <3> HIDE DEF d
            <3> QED
                BY <1>1, <2>2, <3>1, AtNode DEF Fits, NodeOK, PlaceOK, CallOK, ModeOK, BidOK, Places
        <2> QED
            BY <2>1, <2>2
    <1> QED
        BY <1>2, <1>3, OneNode

LEMMA TimeoutKeeps ==
    ASSUME IInv, NEW n \in Nodes, Timeout(n)
    PROVE  IInv'
    <1> DEFINE d == HighZ(desc[n])
    <1>1. pc[n] = "none" /\ tx[n] = 0
        BY AtNode DEF Timeout, BidOK
    <1>2. /\ d \in Descriptors /\ d.rx = desc[n].rx
          /\ d.state = "HIGH_Z" /\ d.mode = "HIGH_Z"
        BY AtNode, HighZSet
    <1>3. desc' = [desc EXCEPT ![n] = d]
        BY DEF Timeout
    <1> HIDE DEF d
    <1>4. CASE desc[n].state = "LISTEN" /\ UNCHANGED <<pc, pending>>
        <2>1. Local(n, d, pc[n], pending[n], tx[n], FALSE, call[n], FALSE, overtaken[n])
            BY <1>3, <1>4, Same DEF Timeout, Local
        <2>2. Fits(d, pc[n], pending[n], tx[n], FALSE, call[n], FALSE, overtaken[n])
            BY <1>1, <1>2, <1>4, AtNode DEF Fits, NodeOK, PlaceOK, CallOK, ModeOK, BidOK
        <2> QED
            BY <2>1, <2>2, OneNode
    <1>5. CASE /\ desc[n].state \in {"WAIT_IDLE", "ARBITRATION"}
               /\ pc' = [pc EXCEPT ![n] = "result"]
               /\ pending' = [pending EXCEPT ![n] = FALSE]
        <2>1. Local(n, d, "result", FALSE, tx[n], FALSE, call[n], FALSE, overtaken[n])
            BY <1>3, <1>5, Same DEF Timeout, Local
        <2>2. Fits(d, "result", FALSE, tx[n], FALSE, call[n], FALSE, overtaken[n])
            BY <1>1, <1>2, <1>5, AtNode DEF Fits, NodeOK, PlaceOK, CallOK, ModeOK, BidOK, Places
        <2> QED
            BY <2>1, <2>2, OneNode
    <1> QED
        BY <1>4, <1>5 DEF Timeout

LEMMA TickKeeps ==
    ASSUME IInv, Tick
    PROVE  IInv'
    <1>1. ASSUME NEW n \in Nodes
          PROVE  /\ desc'[n] \in Descriptors /\ Len(desc'[n].rx) <= RX_BUFFER_SIZE
                 /\ NodeOK(desc'[n], pc[n], pending[n], tx[n], outbid[n],
                           call[n], again[n], overtaken[n])
        <2> DEFINE d == desc[n]
                   a == TimerTick(d.arb_tmr)
                   t == TimerTick(d.timeout_tmr)
                   e == [d EXCEPT !.arb_tmr = a]
        <2>1. /\ d \in Descriptors /\ d.arb_tmr \in Nat \cup {Loose}
              /\ d.timeout_tmr \in Nat \cup {Loose}
            BY AtNode DEF Descriptors
        <2>2. /\ a \in Nat \cup {Loose} /\ t \in Nat \cup {Loose}
              /\ d.timeout_tmr > 0 => t > 0
            BY <2>1 DEF TimerTick, Loose
        <2>3. desc'[n] = [d EXCEPT !.arb_tmr = a, !.timeout_tmr = t]
            BY DEF Tick
        <2> HIDE DEF a, t
        <2>4. /\ desc'[n] \in Descriptors /\ desc'[n].state = d.state
              /\ desc'[n].mode = d.mode /\ desc'[n].rx = d.rx /\ desc'[n].prio = d.prio
              /\ desc'[n].timeout_tmr = t
            BY <2>1, <2>2, <2>3 DEF Descriptors
        <2>5. /\ PlaceOK(desc'[n], pc[n], pending[n])
              /\ CallOK(desc'[n], pc[n], pending[n], call[n])
              /\ ModeOK(desc'[n], pc[n], call[n], again[n], overtaken[n])
            BY <2>2, <2>4, AtNode DEF PlaceOK, CallOK, ModeOK
        <2>6. WillLose(d) => WillLose(desc'[n])
            BY <2>4 DEF WillLose
        <2>7. BidOK(desc'[n], pc[n], tx[n], outbid[n])
            BY <2>4, <2>6, AtNode DEF BidOK
        <2> QED
            BY <2>4, <2>5, <2>7, AtNode DEF NodeOK
    <1>2. UNCHANGED <<pc, tx, call, pending, outbid, again, overtaken>> /\ sent' \in [Nodes -> BOOLEAN]
        BY DEF Tick
    <1>3. desc' \in [Nodes -> Descriptors]
        <2>1. desc' = [n \in Nodes |-> desc'[n]]
            BY DEF Tick
        <2> QED
            BY <1>1, <2>1
    <1>4. TypeOK'
        BY <1>1, <1>2, <1>3 DEF IInv, TypeOK
    <1> QED
        BY <1>1, <1>2, <1>4 DEF IInv

-----------------------------------------------------------------------------
LEMMA NextInv == IInv /\ [Next]_vars => IInv'
    <1> SUFFICES ASSUME IInv, [Next]_vars PROVE IInv'
        OBVIOUS
    <1>1. CASE Tick
        BY <1>1, TickKeeps
    <1>2. ASSUME NEW n \in Nodes, Handler(n)
          PROVE  IInv'
        BY <1>2, BusIsNotIdleKeeps, BusIsIdleKeeps, ReadArbitrationKeeps, TimeoutKeeps,
           SendIdKeeps, SendPrioKeeps, ClaimKeeps, SendDataKeeps, ReportSentKeeps,
           CallbackReturnKeeps DEF Handler
    <1>3. ASSUME NEW n \in Nodes, User(n)
          PROVE  IInv'
        BY <1>3, TransmitCallKeeps, ListenCallKeeps DEF User, PriosOf
    <1>4. ASSUME NEW n \in Nodes, Call(n)
          PROVE  IInv'
        BY <1>4, ArbitrationStartKeeps, SetPrioKeeps, StartTimersKeeps, SetReceiverKeeps,
           StartListeningKeeps DEF Call
    <1>5. ASSUME NEW n \in Nodes, Callback(n)
          PROVE  IInv'
        BY <1>5, TransmitInCallbackKeeps, ListenInCallbackKeeps DEF Callback, PriosOf
    <1>6. CASE UNCHANGED vars
        BY <1>6 DEF vars, IInv, TypeOK
    <1> QED
        BY <1>1, <1>2, <1>3, <1>4, <1>5, <1>6 DEF Next

LEMMA Inductive == Spec => []IInv
    BY InitInv, NextInv, PTL DEF Spec

(* The descriptors keep their types and no buffer holds more than it has    *)
(* room for, whatever arrives (mmb485.c:75 and :188).                       *)
THEOREM TypeCorrect == Spec => []TypeOK
    <1>1. IInv => TypeOK
        BY DEF IInv
    <1> QED
        BY <1>1, Inductive, PTL

(* No node sends data after it heard a higher priority in its round, also   *)
(* when that comes between the decision and the claim of the bus            *)
(* (mmb485.c:282-347).                                                      *)
THEOREM HigherWins == Spec => []YieldsToHigher
    <1>1. IInv => YieldsToHigher
        BY AtNode DEF BidOK, YieldsToHigher
    <1> QED
        BY <1>1, Inductive, PTL

(* Between the handlers the transceiver is as the state says, but for the   *)
(* receiver that a timeout in the midst of a call leaves on and the         *)
(* transmitter that a call in the callback does.                            *)
THEOREM StateSetsTransceiver == Spec => []TransceiverFollowsState
    <1>1. IInv => TransceiverFollowsState
        <2> SUFFICES ASSUME IInv, NEW n \in Nodes, pc[n] = "none"
                     PROVE  LET d == desc[n] IN
                            CASE d.state = "HIGH_Z" ->
                                   d.mode = (IF overtaken[n] THEN "RECEIVE" ELSE "HIGH_Z")
                              [] d.state = "LISTEN" ->
                                   d.mode = "RECEIVE" \/ call[n].at = "receiver"
                              [] d.state = "ARBITRATION" -> d.mode = "RECEIVE"
                              [] d.state = "WAIT_IDLE" -> d.mode = "TRANSMIT" => again[n]
                              [] d.state = "TRANSMIT" -> FALSE
            BY DEF TransceiverFollowsState
        <2>1. desc[n].state \in States
            BY AtNode DEF Descriptors, States
        <2>2. /\ PlaceOK(desc[n], pc[n], pending[n])
              /\ ModeOK(desc[n], pc[n], call[n], again[n], overtaken[n])
            BY AtNode
        <2> QED
            BY <2>1, <2>2 DEF PlaceOK, ModeOK, States
    <1> QED
        BY <1>1, Inductive, PTL

(* A user that waits for its result is never left without the timer that    *)
(* gives it one, or the call that starts it.                                *)
THEOREM EveryWaitIsTimed == Spec => []WaitIsLimited
    <1>1. IInv => WaitIsLimited
        BY AtNode DEF CallOK, WaitIsLimited
    <1> QED
        BY <1>1, Inductive, PTL

-----------------------------------------------------------------------------
(* The bus implements the requests: each step is a step of one request or   *)
(* none.                                                                    *)

LEMMA PhaseMoves ==
    ASSUME IInv, NEW n \in Nodes, NEW p, NEW w,
           pc' = [pc EXCEPT ![n] = p], pending' = [pending EXCEPT ![n] = w]
    PROVE  /\ phase[n] = PhaseOf(pending[n], pc[n])
           /\ phase' = [phase EXCEPT ![n] = PhaseOf(w, p)]
           /\ PhaseOf(w, p) = phase[n] => phase' = phase
    <1>1. phase = [m \in Nodes |-> PhaseOf(pending[m], pc[m])]
        BY DEF phase
    <1>2. phase' = [m \in Nodes |-> PhaseOf(pending'[m], pc'[m])]
        BY DEF phase
    <1>3. \A m \in Nodes : /\ pc'[m] = IF m = n THEN p ELSE pc[m]
                           /\ pending'[m] = IF m = n THEN w ELSE pending[m]
        BY DEF IInv, TypeOK
    <1>4. phase' = [m \in Nodes |-> IF m = n THEN PhaseOf(w, p) ELSE phase[m]]
        BY <1>1, <1>2, <1>3
    <1> QED
        BY <1>1, <1>4

LEMMA PhaseStays ==
    ASSUME IInv, UNCHANGED <<pc, pending>>
    PROVE  phase' = phase
    BY DEF phase

LEMMA PlaceOnly ==
    ASSUME IInv, NEW n \in Nodes, NEW p,
           pc' = [pc EXCEPT ![n] = p], UNCHANGED pending,
           p \in {"won", "data"} <=> pc[n] \in {"won", "data"}
    PROVE  phase' = phase
    <1>1. phase' = [m \in Nodes |-> PhaseOf(pending[m], pc'[m])]
        BY DEF phase
    <1>2. ASSUME NEW m \in Nodes
          PROVE  PhaseOf(pending[m], pc'[m]) = PhaseOf(pending[m], pc[m])
        <2>1. pc'[m] \in {"won", "data"} <=> pc[m] \in {"won", "data"}
            BY DEF IInv, TypeOK
        <2> QED
            BY <2>1 DEF PhaseOf
    <1> QED
        BY <1>1, <1>2 DEF phase

LEMMA HandlerMoves ==
    ASSUME IInv, NEW n \in Nodes, Handler(n)
    PROVE  \/ phase' = phase
           \/ Requests!Grant(n) \/ Requests!Fail(n) \/ Requests!Succeed(n)
    <1>1. CASE BusIsNotIdle(n)
        BY <1>1, PhaseStays DEF BusIsNotIdle
    <1>2. CASE BusIsIdle(n)
        <2>1. pc[n] = "none" /\ pc' = [pc EXCEPT ![n] = "id"]
            BY <1>2 DEF BusIsIdle, ArbitrationDue
        <2> QED
            BY <1>2, <2>1, PlaceOnly DEF BusIsIdle
    <1>3. CASE SendId(n)
        BY <1>3, PlaceOnly DEF SendId
    <1>4. CASE SendPrio(n)
        BY <1>4, PlaceOnly DEF SendPrio
    <1>5. CASE ReadArbitration(n)
        <2>1. pc[n] = "none" /\ pending[n] = TRUE
            BY <1>5, AtNode DEF ReadArbitration, ArbitrationDue, PlaceOK
        <2>2. CASE UNCHANGED pc
            BY <1>5, <2>2, PhaseStays DEF ReadArbitration
        <2>3. CASE pc' = [pc EXCEPT ![n] = "won"]
            <3>1. pending' = [pending EXCEPT ![n] = TRUE]
                BY <1>5, <2>1, Same DEF ReadArbitration
            <3>2. /\ phase[n] = PhaseOf(TRUE, "none")
                  /\ phase' = [phase EXCEPT ![n] = PhaseOf(TRUE, "won")]
                BY <2>1, <2>3, <3>1, PhaseMoves
            <3>3. phase[n] = "waiting" /\ phase' = [phase EXCEPT ![n] = "granted"]
                BY <3>2 DEF PhaseOf
            <3> QED
                BY <3>3 DEF Requests!Grant, Requests!Move
        <2> QED
            BY <1>5, <2>2, <2>3 DEF ReadArbitration
    <1>6. CASE Claim(n)
        BY <1>6, PlaceOnly DEF Claim
    <1>7. CASE SendData(n)
        BY <1>7, PhaseStays DEF SendData
    <1>8. CASE ReportSent(n)
        <2>1. pc[n] = "data" /\ pending[n] = TRUE
            BY <1>8, AtNode DEF ReportSent, PlaceOK
        <2>2. /\ phase[n] = PhaseOf(TRUE, "data")
              /\ phase' = [phase EXCEPT ![n] = PhaseOf(FALSE, "result")]
            BY <1>8, <2>1, PhaseMoves DEF ReportSent
        <2>3. phase[n] = "granted" /\ phase' = [phase EXCEPT ![n] = "none"]
            BY <2>2 DEF PhaseOf
        <2> QED
            BY <2>3 DEF Requests!Succeed, Requests!Move
    <1>9. CASE CallbackReturn(n)
        BY <1>9, PlaceOnly DEF CallbackReturn
    <1>10. CASE Timeout(n)
        <2>1. pc[n] = "none"
            BY <1>10 DEF Timeout
        <2>2. CASE UNCHANGED <<pc, pending>>
            BY <2>2, PhaseStays
        <2>3. CASE /\ desc[n].state \in {"WAIT_IDLE", "ARBITRATION"}
                   /\ pc' = [pc EXCEPT ![n] = "result"]
                   /\ pending' = [pending EXCEPT ![n] = FALSE]
            <3>1. pending[n] = TRUE
                BY <2>3, AtNode DEF PlaceOK
            <3>2. /\ phase[n] = PhaseOf(TRUE, "none")
                  /\ phase' = [phase EXCEPT ![n] = PhaseOf(FALSE, "result")]
                BY <2>1, <2>3, <3>1, PhaseMoves
            <3>3. phase[n] = "waiting" /\ phase' = [phase EXCEPT ![n] = "none"]
                BY <3>2 DEF PhaseOf
            <3> QED
                BY <3>3 DEF Requests!Fail, Requests!Move
        <2> QED
            BY <1>10, <2>2, <2>3 DEF Timeout
    <1> QED
        BY <1>1, <1>2, <1>3, <1>4, <1>5, <1>6, <1>7, <1>8, <1>9, <1>10 DEF Handler

(* A user that asks, in a task or in the callback.                          *)
LEMMA Asked ==
    ASSUME IInv, NEW n \in Nodes, ~pending[n], NEW p, p \in {"none", "return"},
           pc' = [pc EXCEPT ![n] = p], pending' = [pending EXCEPT ![n] = TRUE]
    PROVE  Requests!Request(n)
    <1>1. /\ phase[n] = PhaseOf(pending[n], pc[n])
          /\ phase' = [phase EXCEPT ![n] = PhaseOf(TRUE, p)]
        BY PhaseMoves
    <1>2. phase[n] = "none" /\ phase' = [phase EXCEPT ![n] = "waiting"]
        BY <1>1 DEF PhaseOf
    <1> QED
        BY <1>2 DEF Requests!Request, Requests!Move

LEMMA CallMovesPhase ==
    ASSUME IInv, NEW n \in Nodes, Call(n)
    PROVE  phase' = phase \/ Requests!Request(n)
    <1>1. CASE ArbitrationStart(n)
        <2>1. ~pending[n] /\ pc[n] = "none" /\ UNCHANGED pc
            BY <1>1, AtNode DEF ArbitrationStart, InTask, CallOK
        <2>2. pc' = [pc EXCEPT ![n] = "none"]
            BY <2>1, Same
        <2> QED
            BY <1>1, <2>1, <2>2, Asked DEF ArbitrationStart
    <1>2. CASE SetPrio(n) \/ StartTimers(n) \/ SetReceiver(n) \/ StartListening(n)
        BY <1>2, PhaseStays DEF SetPrio, StartTimers, SetReceiver, StartListening
    <1> QED
        BY <1>1, <1>2 DEF Call

LEMMA UserMoves ==
    ASSUME IInv, NEW n \in Nodes, User(n)
    PROVE  phase' = phase \/ Requests!Abandon(n)
    <1>1. CASE \E prio \in PriosOf(n), size \in Sizes, timeout \in Timeouts :
                   TransmitCall(n, prio, size, timeout)
        BY <1>1, PhaseStays DEF TransmitCall
    <1>2. CASE \E bytes \in Sizes \cup {0} : ListenCall(n, bytes)
        <2>1. /\ pc[n] = "none" /\ pc' = [pc EXCEPT ![n] = "none"]
              /\ pending' = [pending EXCEPT ![n] = FALSE]
            BY <1>2, Same DEF ListenCall, CanCall, InTask
        <2>2. /\ phase[n] = PhaseOf(pending[n], pc[n])
              /\ phase' = [phase EXCEPT ![n] = PhaseOf(FALSE, "none")]
              /\ PhaseOf(FALSE, "none") = phase[n] => phase' = phase
            BY <2>1, PhaseMoves
        <2>3. PhaseOf(FALSE, "none") = "none" /\ phase[n] \in {"none", "waiting"}
            BY <2>1, <2>2, AtNode DEF PhaseOf
        <2> QED
            BY <2>2, <2>3 DEF Requests!Abandon, Requests!Move
    <1> QED
        BY <1>1, <1>2 DEF User

LEMMA CallbackMoves ==
    ASSUME IInv, NEW n \in Nodes, Callback(n)
    PROVE  phase' = phase \/ Requests!Request(n)
    <1>1. ASSUME NEW prio \in PriosOf(n), NEW size \in Sizes, NEW timeout \in Timeouts,
                 TransmitInCallback(n, prio, size, timeout)
          PROVE  phase' = phase \/ Requests!Request(n)
        <2>1. pc[n] = "result" /\ ~pending[n] /\ pc' = [pc EXCEPT ![n] = "return"]
            BY <1>1, AtNode DEF TransmitInCallback, PlaceOK
        <2>2. CASE UNCHANGED pending
            BY <2>1, <2>2, PlaceOnly
        <2>3. CASE pending' = [pending EXCEPT ![n] = TRUE]
            BY <2>1, <2>3, Asked
        <2> QED
            BY <1>1, <2>2, <2>3 DEF TransmitInCallback
    <1>2. CASE \E bytes \in Sizes \cup {0} : ListenInCallback(n, bytes)
        <2>1. /\ pc[n] = "result" /\ pc' = [pc EXCEPT ![n] = "return"]
              /\ UNCHANGED pending
            BY <1>2 DEF ListenInCallback
        <2> QED
            BY <2>1, PlaceOnly
    <1> QED
        BY <1>1, <1>2 DEF Callback

(* What the user of a node may rely on: its request is granted, fails or is *)
(* abandoned, only a granted one succeeds, and none fails once it is        *)
(* granted (mmb485.c:212-215, :320-346 and :366-387).                       *)
THEOREM RequestsAreKept ==
    Spec => Requests!RequestInit /\ [][Requests!RequestNext]_phase
    <1>1. Init => Requests!RequestInit
        BY DEF Init, Requests!RequestInit, phase, PhaseOf
    <1>2. IInv /\ [Next]_vars => [Requests!RequestNext]_phase
        <2> SUFFICES ASSUME IInv, [Next]_vars PROVE [Requests!RequestNext]_phase
            OBVIOUS
        <2>1. CASE Tick
            BY <2>1, PhaseStays DEF Tick
        <2>2. ASSUME NEW n \in Nodes, Handler(n)
              PROVE  [Requests!RequestNext]_phase
            BY <2>2, HandlerMoves DEF Requests!RequestNext, Requests!Settle
        <2>3. ASSUME NEW n \in Nodes, User(n)
              PROVE  [Requests!RequestNext]_phase
            BY <2>3, UserMoves DEF Requests!RequestNext, Requests!Settle
        <2>4. ASSUME NEW n \in Nodes, Call(n)
              PROVE  [Requests!RequestNext]_phase
            BY <2>4, CallMovesPhase DEF Requests!RequestNext
        <2>5. ASSUME NEW n \in Nodes, Callback(n)
              PROVE  [Requests!RequestNext]_phase
            BY <2>5, CallbackMoves DEF Requests!RequestNext
        <2>6. CASE UNCHANGED vars
            BY <2>6, PhaseStays DEF vars
        <2> QED
            BY <2>1, <2>2, <2>3, <2>4, <2>5, <2>6 DEF Next
    <1> QED
        BY <1>1, <1>2, Inductive, PTL DEF Spec
=============================================================================
