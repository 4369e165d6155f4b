------------------------------- MODULE MtkTcp -------------------------------
(***************************************************************************)
(* The TCP stack under the web failsafe, the telnet server and wget        *)
(* (net/mtk_tcp.c): one connection at a time between the stack, the upper  *)
(* layer it calls back, and a peer over a network that loses, repeats and  *)
(* reorders segments.                                                      *)
(*                                                                         *)
(* A unit stands for a run of payload bytes; the n-th unit of a stream is  *)
(* the number n, so that a wrong order shows.  Sequence numbers are taken  *)
(* modulo SeqMod, and the instances start them just below the wrap.        *)
(*                                                                         *)
(* A handler of the code is an operator on the machine m: the connection   *)
(* m.c, what was sent m.wire, and what the upper layer saw m.app.  A       *)
(* connection on dead_head is out of every list and is reachable only from *)
(* the call chain that parked it, so the model drops it where that ends.   *)
(***************************************************************************)
EXTENDS Integers, Sequences

CONSTANTS
  Mss,         \* units in a full segment
  SeqMod,      \* 2^32
  LocalIsn, PeerIsn,
  Roles,       \* who opens: "listen" the peer does, "connect" the stack does
  PeerData,    \* units the peer has to send
  PeerMss,     \* units in its longest segment
  AppData,     \* units the upper layer sends at most
  ChunkSizes,  \* sizes it passes to mtk_tcp_send_data
  Windows,     \* windows the peer advertises
  LoneFin,     \* the peer closes only once all its data is acknowledged
  MaxConns     \* connections the peer opens at most

ASSUME TcpAssumption ==
  /\ Mss \in Nat \ {0} /\ SeqMod \in Nat \ {0}
  /\ {LocalIsn, PeerIsn} \subseteq 0 .. SeqMod - 1
  /\ Roles \subseteq {"listen", "connect"}
  /\ {PeerData, PeerMss, AppData, MaxConns} \subseteq Nat
  /\ ChunkSizes \subseteq Nat \ {0}
  /\ Windows \subseteq Nat /\ \E w \in Windows : \A v \in Windows : v <= w
  /\ LoneFin \in BOOLEAN

VARIABLES
  c,       \* the connection on conn_head
  wire,    \* segments the stack sent; any may arrive, at any time, repeatedly
  app,     \* the upper layer
  peer,    \* the peer and, as what it may have sent, the way back
  listen,  \* a listener is registered and mtk_tcp_stop is clear
  conns    \* connections opened

vars == <<c, wire, app, peer, listen, conns>>

States == {"CONNECT", "SYN_SENT", "SYN_RCVD", "ESTABLISHED", "FIN_WAIT_1",
           "FIN_WAIT_2", "CLOSE_WAIT", "CLOSING", "LAST_ACK", "TIME_WAIT"}
Handshake == {"CONNECT", "SYN_SENT", "SYN_RCVD"}

Least(a, b) == IF a < b THEN a ELSE b
Stream(n) == [i \in 1 .. n |-> i]
Run(first, n) == [i \in 1 .. n |-> first + i - 1]

----------------------------------------------------------------------------
(* The connection                                                          *)

\* mtk_tcp_seq_sub: the signed distance, across the wrap
SeqSub(a, b) == LET d == (a - b) % SeqMod IN IF 2 * d < SeqMod THEN d ELSE d - SeqMod

\* Mutant: a sequence number does not wrap
SeqAddUnwrapped(a, n) == a + n
SeqAdd(a, n) == (a + n) % SeqMod

\* tx is the number of the unit at the start of the chunk, 0 the null pointer
NewConn(status, pseq, wnd, pdata) ==
  [status |-> status, pseq |-> pseq, seq |-> LocalIsn, last |-> 0, acked |-> 0,
   tx |-> 0, txlen |-> 0, close |-> FALSE, ackFlag |-> FALSE, rexmit |-> FALSE,
   wait |-> FALSE, zw |-> FALSE, wnd |-> wnd, pdata |-> pdata, cb |-> TRUE,
   dying |-> FALSE]

NoConn == [NewConn("CONNECT", 0, 0, FALSE) EXCEPT !.dying = TRUE]
Conn == c # NoConn

NewApp == [delivered |-> <<>>, sent |-> 0, done |-> 0, born |-> FALSE,
           final |-> 0, late |-> FALSE, lost |-> FALSE]

Machine == [c |-> c, wire |-> wire, app |-> app]

\* mtk_tcp_send_packet: also mtk_tcp_send_packet_ctrl, whose ack is one more
Send(m, kind, seq, ack, off, n) ==
  [m EXCEPT !.wire = @ \cup {[kind |-> kind, seq |-> seq, ack |-> ack, off |-> off, len |-> n]}]
SendCtl(m, kind, ack) == Send(m, kind, m.c.seq, ack, 0, 0)

\* mtk_tcp_conn_zombify; lost: the upper layer keeps private data it is never told to free
Zombify(m) ==
  [m EXCEPT !.c.dying = TRUE,
            !.app.lost = @ \/ (m.app.born /\ m.app.final = 0)]

\* The upper layer notes a callback; it has seen the last one after final
Noted(m) == [m EXCEPT !.app.late = @ \/ m.app.final > 0]
Ended(m) == [m EXCEPT !.app.final = @ + 1]

\* mtk_tcp_conn_finish: out of service first, then the last callback
Finish(m) ==
  LET told == IF m.c.cb /\ m.c.pdata THEN Ended(Noted(m)) ELSE m
  IN  Zombify([told EXCEPT !.c.cb = FALSE, !.c.pdata = FALSE])

Teardown(m) == Finish(SendCtl(m, "RST", m.c.pseq))

SendData(m, n) ==
  IF \/ m.c.close
     \/ m.c.tx # 0 /\ m.c.txlen > SeqSub(m.c.acked, m.c.last)
     \/ m.app.sent + n > AppData
  THEN m
  ELSE [m EXCEPT !.c = [@ EXCEPT !.tx = m.app.sent + 1, !.txlen = n,
                                 !.last = m.c.seq, !.acked = m.c.seq],
                 !.app.sent = @ + n]

\* What the upper layer does in a callback: n > 0 sends a chunk of n units
Nothing == 0
CloseConn == -1
ResetConn == -2
Reactions == ChunkSizes \cup {Nothing, CloseConn, ResetConn}

React(m, r) ==
  CASE r = CloseConn -> [m EXCEPT !.c.close = TRUE]
    [] r = ResetConn -> Teardown(m)
    [] r = Nothing   -> m
    [] OTHER         -> SendData(m, r)

----------------------------------------------------------------------------
(* mtk_receive_tcp                                                         *)

\* mtk_tcp_conn_create; the segments of an earlier connection are gone.  Out of
\* memory it answers RST: for the peer as if the SYN were lost and it gave up.
Create(m, s) ==
  LET new == NewConn("SYN_RCVD", s.seq, s.wnd, FALSE)
  IN  [c |-> new, app |-> [NewApp EXCEPT !.lost = m.app.lost],
       wire |-> {[kind |-> "SYNACK", seq |-> new.seq, ack |-> SeqAdd(s.seq, 1),
                  off |-> 0, len |-> 0]}]

\* The upper layer allocates its private data, or resets when it cannot
NewConnection(m, r) ==
  LET had  == m.c.pdata \/ r # ResetConn
      born == [m EXCEPT !.c.pdata = had, !.app.born = had]
  IN  React(Noted(born), r)

HandshakeDone(m, s, r) ==
  LET sent == m.c.status = "SYN_SENT"
      seq  == SeqAdd(m.c.seq, 1)
      pseq == SeqAdd(IF sent THEN s.seq ELSE m.c.pseq, 1)
      wnd  == IF sent THEN s.wnd ELSE m.c.wnd
      up   == [m EXCEPT !.c = [@ EXCEPT !.pseq = pseq, !.wnd = wnd, !.seq = seq,
                 !.last = seq, !.acked = seq, !.status = "ESTABLISHED"]]
  IN  NewConnection(IF sent THEN SendCtl(up, "ACK", pseq) ELSE up, r)

\* Mutant: a segment beyond the expected one is taken as it comes
NewDataUnordered(k, s) ==
  LET end == SeqSub(SeqAdd(s.seq, s.len), k.pseq) IN IF end > 0 THEN Least(end, s.len) ELSE 0

\* What is left of the payload once what was received, or is out of order, is cut off
NewData(k, s) ==
  LET ahead == SeqSub(s.seq, k.pseq)
      end   == SeqSub(SeqAdd(s.seq, s.len), k.pseq)
  IN  IF ahead = 0 THEN s.len ELSE IF ahead < 0 /\ end > 0 THEN end ELSE 0

WantsAck(k, s) ==
  LET ahead == SeqSub(s.seq, k.pseq)
  IN  ahead > 0 \/ (ahead < 0 /\ SeqSub(SeqAdd(s.seq, s.len), k.pseq) <= 0)

Window(k, s) ==
  [k EXCEPT !.zw = @ /\ ~(s.wnd > Mss /\ s.wnd > k.wnd), !.wnd = s.wnd,
            !.ackFlag = @ \/ WantsAck(k, s)]

\* Mutant: every acknowledgement that is new reports the chunk as sent
ChunkDoneEarly(k, ack) == SeqSub(ack, k.last) > 0
ChunkDone(k, ack) == SeqSub(ack, k.last) = k.txlen

Acked(m, s, r) ==
  LET k    == m.c
      more == [m EXCEPT !.c = [@ EXCEPT !.rexmit = FALSE, !.wait = FALSE, !.acked = s.ack]]
      sent == [more EXCEPT !.c.tx = 0, !.c.txlen = 0, !.app.done = @ + k.txlen]
  IN  IF SeqSub(s.ack, k.acked) > 0
      THEN IF ChunkDone(k, s.ack) THEN React(Noted(sent), r) ELSE more
      ELSE IF k.seq = k.acked THEN m
      ELSE [m EXCEPT !.c.acked = s.ack, !.c.rexmit = TRUE]

\* An acknowledgement of an earlier chunk: the segment is ignored
Stale(k, s) == SeqSub(s.ack, k.acked) <= 0 /\ SeqSub(s.ack, k.last) < 0

Received(m, s, n, r) ==
  IF n = 0 THEN m
  ELSE LET got == [m EXCEPT !.c.pseq = SeqAdd(@, n), !.c.ackFlag = TRUE,
                            !.app.delivered = @ \o Run(s.off + s.len - n, n)]
       IN  React(Noted(got), r)

\* Mutant: the connection is used after a callback closed it
EstablishedDying(m, s, r1, r2) ==
  LET now  == [m EXCEPT !.c = Window(@, s)]
      data == Received(Acked(now, s, r1), s, NewData(m.c, s), r2)
  IN  IF Stale(m.c, s) THEN now
      ELSE IF s.fin THEN [Noted(data) EXCEPT !.c.status = "CLOSE_WAIT"]
      ELSE data

Established(m, s, r1, r2) ==
  LET now  == [m EXCEPT !.c = Window(@, s)]
      ackd == Acked(now, s, r1)
      data == Received(ackd, s, NewData(m.c, s), r2)
  IN  IF Stale(m.c, s) THEN now
      ELSE IF ackd.c.dying THEN ackd
      ELSE IF data.c.dying \/ ~s.fin THEN data
      ELSE [Noted(data) EXCEPT !.c.status = "CLOSE_WAIT"]

FinWait1(k, s) ==
  CASE s.ackbit /\ s.fin -> [k EXCEPT !.status = "TIME_WAIT", !.seq = SeqAdd(@, 1)]
    [] s.ackbit /\ ~s.fin -> [k EXCEPT !.status = "FIN_WAIT_2", !.seq = SeqAdd(@, 1)]
    [] ~s.ackbit /\ s.fin -> [k EXCEPT !.status = "CLOSING"]
    [] OTHER -> k

\* A segment of a connection on conn_head, without SYN alone and without RST
Segment(m, s, r1, r2) ==
  LET k == m.c
      finAcked == s.ack = SeqAdd(k.seq, 1)
  IN  IF ~s.ackbit /\ k.status \notin {"FIN_WAIT_1", "FIN_WAIT_2"} THEN m
      ELSE
      CASE k.status = "SYN_SENT" /\ ~s.syn ->
           Zombify(Ended(Noted(SendCtl(m, "RST", k.pseq))))
      [] k.status \in {"SYN_SENT", "SYN_RCVD"} /\ (s.syn \/ k.status = "SYN_RCVD") ->
           LET up == HandshakeDone(m, s, r1)
           IN  IF up.c.dying \/ s.len = 0 THEN up ELSE Established(up, s, Nothing, r2)
      [] k.status = "ESTABLISHED" -> Established(m, s, r1, r2)
      [] k.status = "LAST_ACK" /\ finAcked -> Finish(m)
      [] k.status = "FIN_WAIT_1" /\ (s.ackbit => finAcked) -> [m EXCEPT !.c = FinWait1(k, s)]
      [] k.status = "FIN_WAIT_2" /\ s.fin -> [m EXCEPT !.c.status = "TIME_WAIT"]
      [] k.status = "CLOSING" /\ finAcked ->
           [m EXCEPT !.c.status = "TIME_WAIT", !.c.seq = SeqAdd(@, 1)]
      [] OTHER -> m

\* A SYN on a synchronized connection resets it without a word to the upper layer
Receive(m, s, r1, r2) ==
  LET syn == s.syn /\ ~s.ackbit
      old == syn /\ Conn /\ m.c.status \notin {"SYN_SENT", "SYN_RCVD"}
      m1  == IF old THEN Zombify(SendCtl(m, "RST", m.c.pseq)) ELSE m
  IN  CASE m1.c.dying -> IF syn /\ listen THEN Create(m1, s) ELSE m1
        [] ~m1.c.dying /\ s.rst -> IF m.c.status = "SYN_RCVD" THEN Zombify(m) ELSE Finish(m)
        [] OTHER -> Segment(m, s, r1, r2)

----------------------------------------------------------------------------
(* mtk_tcp_conn_check                                                      *)

\* How much time has passed at this check (mtk_tcp_rexmit_check): less than the
\* retransmission timeout since ts, more, or 300 s since ts_rexmit.  Each check
\* may find any of the three, so resetting the two times leaves no trace.
Elapsed == {"little", "rto", "limit"}

\* Past the limit the peer is reset, and the upper layer told of a connection
\* in one of these states
Tells == {"ESTABLISHED", "FIN_WAIT_1", "FIN_WAIT_2", "CLOSING", "CLOSE_WAIT", "SYN_SENT"}

GiveUp(m) ==
  LET rst == SendCtl(m, "RST", m.c.pseq)
  IN  Zombify(IF m.c.status \in Tells THEN Ended(Noted(rst)) ELSE rst)

\* Mutant: FIN_WAIT_2 waits for the peer without a limit
TimedHalfClosed(m, late, again) ==
  CASE late = "limit" /\ m.c.status # "FIN_WAIT_2" -> GiveUp(m)
    [] late = "rto" -> again
    [] OTHER -> m

\* A state that waits for the peer: give up, send again, or neither
Timed(m, late, again) ==
  CASE late = "limit"  -> GiveUp(m)
    [] late = "rto"    -> again
    [] late = "little" -> m

\* The work on an established connection: the state, and the segment to send
Work(k) == [c |-> k, seq |-> k.seq, off |-> 0, len |-> 0, quit |-> FALSE]
SentLen(k)  == SeqSub(k.seq, k.last)
AckedLen(k) == SeqSub(k.acked, k.last)

\* The unit at offset n of the chunk; from a null pointer, whatever lies there
Payload(k, n) == IF k.tx = 0 THEN 0 ELSE k.tx + n

\* As u32, what is left when more was acknowledged than the chunk has is huge
Rest(k, n) == IF n > k.txlen THEN Mss ELSE Least(k.txlen - n, Mss)

SendNew(w) ==
  LET k == w.c  n == Rest(k, SentLen(k))
  IN  IF n >= k.wnd THEN [w EXCEPT !.c.zw = TRUE]
      ELSE [w EXCEPT !.c = [k EXCEPT !.seq = SeqAdd(@, n), !.wnd = @ - n, !.ackFlag = TRUE],
                     !.off = Payload(k, SentLen(k)), !.len = n]

\* Mutant: what is sent again is taken from the start of the chunk
ResendFirst(w) ==
  LET k == w.c
  IN  IF k.zw THEN [w EXCEPT !.seq = k.acked]
      ELSE [w EXCEPT !.seq = k.acked, !.off = Payload(k, 0), !.len = Rest(k, AckedLen(k)),
                     !.c.ackFlag = TRUE, !.c.wait = TRUE]

Resend(w) ==
  LET k == w.c
  IN  IF k.zw THEN [w EXCEPT !.seq = k.acked]
      ELSE [w EXCEPT !.seq = k.acked, !.off = Payload(k, AckedLen(k)), !.len = Rest(k, AckedLen(k)),
                     !.c.ackFlag = TRUE, !.c.wait = TRUE]

Transmit(w, late) ==
  LET k == w.c
      unsent  == k.txlen > SentLen(k)
      unacked == ~unsent /\ k.txlen > AckedLen(k)
  IN  CASE ~k.rexmit /\ unsent -> SendNew(w)
        [] ~k.rexmit /\ unacked /\ late = "limit" -> [w EXCEPT !.quit = TRUE]
        [] ~k.rexmit /\ unacked /\ late = "rto" -> [w EXCEPT !.c.rexmit = TRUE, !.c.wait = FALSE]
        [] OTHER -> w

Retransmit(w, late) ==
  LET waits == w.c.wait /\ late # "rto"
  IN  CASE w.quit \/ ~w.c.rexmit -> w
        [] ~w.quit /\ w.c.rexmit /\ ~waits -> Resend(w)
        [] ~w.quit /\ w.c.rexmit /\ waits -> [w EXCEPT !.quit = (late = "limit")]

\* Zero-window mode; on entry the times start again.  old: before this check
Probe(w, old, late) ==
  LET k == w.c
      now == IF old.zw THEN late ELSE "little"
      sent == SentLen(old)
  IN  CASE w.quit \/ (k.wnd # 0 /\ ~k.zw) -> w
        [] ~w.quit /\ (k.wnd = 0 \/ k.zw) /\ k.txlen > sent /\ now = "limit" -> [w EXCEPT !.quit = TRUE]
        [] ~w.quit /\ (k.wnd = 0 \/ k.zw) /\ k.txlen > sent /\ now = "rto" ->
             [w EXCEPT !.seq = k.acked, !.off = Payload(k, AckedLen(k)), !.len = 1, !.c.ackFlag = TRUE,
                       !.c.seq = IF @ = k.acked THEN SeqAdd(@, 1) ELSE @]
        [] OTHER -> [w EXCEPT !.c.zw = TRUE]

\* Mutant: the FIN carries the acknowledgement of mtk_tcp_send_packet_ctrl
ClosingCtl(m) ==
  IF m.c.close /\ (m.c.tx = 0 \/ m.c.txlen = 0)
  THEN Noted([SendCtl(m, "FIN", SeqAdd(m.c.pseq, 1)) EXCEPT !.c.status = "FIN_WAIT_1"])
  ELSE m

\* With close_flag, FIN once the upper layer has nothing left to send
Closing(m) ==
  IF m.c.close /\ (m.c.tx = 0 \/ m.c.txlen = 0)
  THEN Noted([SendCtl(m, "FIN", m.c.pseq) EXCEPT !.c.status = "FIN_WAIT_1"])
  ELSE m

CheckEstablished(m, late) ==
  LET w  == Probe(Retransmit(Transmit(Work(m.c), late), late), m.c, late)
      at == [m EXCEPT !.c = [w.c EXCEPT !.ackFlag = FALSE]]
  IN  IF w.quit THEN GiveUp([m EXCEPT !.c = w.c])
      ELSE Closing(IF w.c.ackFlag THEN Send(at, "ACK", w.seq, w.c.pseq, w.off, w.len) ELSE at)

ConnCheck(m, late) ==
  LET k   == m.c
      syn == SendCtl(m, "SYN", k.pseq)
      end == SeqAdd(k.pseq, 1)
  IN  CASE k.status = "CONNECT" -> [syn EXCEPT !.c.status = "SYN_SENT"]
        [] k.status = "SYN_SENT" -> Timed(m, late, syn)
        [] k.status = "SYN_RCVD" -> Timed(m, late, SendCtl(m, "SYNACK", end))
        [] k.status = "ESTABLISHED" -> CheckEstablished(m, late)
        [] k.status = "CLOSE_WAIT" -> [SendCtl(m, "FIN", end) EXCEPT !.c.status = "LAST_ACK"]
        [] k.status = "LAST_ACK" -> Timed(m, late, SendCtl(m, "FIN", end))
        [] k.status = "FIN_WAIT_1" -> Timed(m, late, SendCtl(m, "FIN", k.pseq))
        [] k.status \in {"FIN_WAIT_2", "CLOSING"} -> Timed(m, late, m)
        [] k.status = "TIME_WAIT" -> Finish(SendCtl(m, "ACK", end))

\* mtk_tcp_conn_poll, when the connection could take a chunk
ConnPoll(m, r) ==
  LET k == m.c
  IN  IF k.close \/ k.status # "ESTABLISHED" \/ (k.tx # 0 /\ k.txlen > AckedLen(k))
      THEN m ELSE React(Noted(m), r)

----------------------------------------------------------------------------
(* The peer: a TCP of its own, whose segments may be late, lost, repeated  *)

\* acks: the acknowledgements it may have sent; ackOf[n]: the one it first sent unit n with
NewPeer(st) == [st |-> st, sent |-> 0, acks |-> {0}, ackOf |-> [n \in 1 .. PeerData + 1 |-> 0],
                rcvd |-> <<>>, fin |-> FALSE]

Got == Len(peer.rcvd) + (IF peer.fin THEN 1 ELSE 0)
LSeq(n) == SeqAdd(LocalIsn + 1, n)
PSeq(n) == SeqAdd(PeerIsn + 1, n)

Seg(n, len, fin, ack, wnd) ==
  [syn |-> FALSE, rst |-> FALSE, fin |-> fin, ackbit |-> TRUE, seq |-> PSeq(n),
   len |-> len, off |-> n + 1, ack |-> LSeq(ack), wnd |-> wnd]
Bare(s) == [s EXCEPT !.ackbit = FALSE]

----------------------------------------------------------------------------
(* Steps of the stack and of the upper layer                               *)

Become(m) ==
  /\ c' = IF m.c.dying THEN NoConn ELSE m.c
  /\ wire' = m.wire
  /\ app' = m.app

\* The check comes after the poll, unless the upper layer reset the connection there
Polled(m, r, late) ==
  LET p == ConnPoll(m, r) IN IF p.c.dying THEN p ELSE ConnCheck(p, late)

\* net_loop or the failsafe loop: mtk_tcp_periodic_check
Check(late) ==
  /\ Conn
  /\ \E r \in Reactions : Become(Polled(Machine, r, late))
  /\ UNCHANGED <<peer, listen, conns>>

PeriodicCheck == \E late \in Elapsed : Check(late)

\* mtk_tcp_connect
Connect ==
  /\ "connect" \in Roles /\ ~Conn /\ conns < MaxConns
  /\ c' = NewConn("CONNECT", 0, 0, TRUE)
  /\ wire' = {} /\ app' = [NewApp EXCEPT !.born = TRUE, !.lost = app.lost]
  /\ peer' = NewPeer("idle") /\ conns' = conns + 1
  /\ UNCHANGED listen

\* mtk_tcp_close_all_conn: reset the connection, remove the listeners, stop
CloseAll ==
  /\ listen
  /\ Become(IF Conn THEN Teardown(Machine) ELSE Machine)
  /\ listen' = FALSE
  /\ UNCHANGED <<peer, conns>>

\* mtk_tcp_start and mtk_tcp_listen: the next session
Start ==
  /\ ~listen /\ "listen" \in Roles
  /\ listen' = TRUE
  /\ UNCHANGED <<c, wire, app, peer, conns>>

----------------------------------------------------------------------------
(* Steps of the network and of the peer                                    *)

\* A segment whose last unit is n can have been sent with acknowledgement a
CanSend(n, len, fin, a) ==
  LET u == IF fin THEN n + 1 ELSE n
  IN  /\ len <= n /\ u <= peer.sent /\ (fin => n = PeerData)
      /\ u > 0 => a >= peer.ackOf[u]
      /\ (len = 0 /\ ~fin /\ n < peer.sent) => a <= peer.ackOf[n + 1]

Segments ==
  {Seg(t[1] - t[2], t[2], t[3], t[4], t[5]) : t \in
     {t \in (0 .. PeerData) \X (0 .. PeerMss) \X BOOLEAN \X peer.acks \X Windows :
        CanSend(t[1], t[2], t[3], t[4])}}

FirstSeg == Seg(0, 0, FALSE, 0, CHOOSE w \in Windows : \A v \in Windows : v <= w)
Syn == [FirstSeg EXCEPT !.syn = TRUE, !.seq = PeerIsn]

InFlight ==
  CASE peer.st = "idle"    -> {}
    [] peer.st = "synsent" -> {Bare(Syn)}
    [] peer.st = "synrcvd" -> {Syn}
    [] peer.st = "open"    -> Segments \cup {Bare(s) : s \in {s \in Segments : s.fin}}
    [] peer.st = "gone"    -> Segments \cup {[FirstSeg EXCEPT !.rst = TRUE]}

\* Whether MTK_TCP_CB_NEW_CONN or MTK_TCP_CB_DATA_SENT may come of it
Reports(s) == Conn /\ (c.status \in Handshake \/ SeqSub(s.ack, c.acked) > 0)

\* Any segment in flight may arrive now: mtk_receive_tcp, and what the upper
\* layer does in the callbacks; in the one that ends a connection, nothing
Arrive ==
  /\ \E s \in InFlight :
       \E r1 \in IF Reports(s) THEN Reactions ELSE {Nothing},
          r2 \in IF s.len > 0 THEN Reactions ELSE {Nothing} :
         Become(Receive(Machine, s, r1, r2))
  /\ UNCHANGED <<peer, listen, conns>>

\* A client connects, perhaps again from the port it used before
PeerOpen ==
  /\ "listen" \in Roles /\ conns < MaxConns
  /\ peer.st # "synsent" /\ (Conn => c.status \notin Handshake)
  /\ peer' = NewPeer("synsent") /\ wire' = {} /\ conns' = conns + 1
  /\ UNCHANGED <<c, app, listen>>

PeerHandshake ==
  /\ \E s \in wire :
       \/ s.kind = "SYN" /\ peer.st = "idle" /\ peer' = NewPeer("synrcvd")
       \/ s.kind = "SYNACK" /\ peer.st = "synsent" /\ peer' = [peer EXCEPT !.st = "open"]
       \/ s.kind = "ACK" /\ peer.st = "synrcvd" /\ peer' = [peer EXCEPT !.st = "open"]
  /\ UNCHANGED <<c, wire, app, listen, conns>>

SendUnit == peer' = [peer EXCEPT !.sent = @ + 1, !.ackOf[peer.sent + 1] = Got]

PeerSend ==
  /\ peer.st = "open" /\ peer.sent < PeerData /\ SendUnit
  /\ UNCHANGED <<c, wire, app, listen, conns>>

AllAcked == \E s \in wire : s.kind \in {"ACK", "FIN"} /\ SeqSub(s.ack, PSeq(PeerData)) >= 0

PeerClose ==
  /\ peer.st = "open" /\ peer.sent = PeerData /\ (LoneFin => AllAcked) /\ SendUnit
  /\ UNCHANGED <<c, wire, app, listen, conns>>

\* The peer takes what continues its stream
PeerReceive ==
  /\ peer.st = "open" /\ ~peer.fin
  /\ \E s \in wire :
       LET skip == SeqSub(LSeq(Got), s.seq)
           more == s.len - skip
       IN  \/ /\ s.kind = "ACK" /\ skip >= 0 /\ more > 0
              /\ peer' = [peer EXCEPT !.rcvd = @ \o Run(s.off + skip, more), !.acks = @ \cup {Got + more}]
           \/ /\ s.kind = "FIN" /\ skip = 0
              /\ peer' = [peer EXCEPT !.fin = TRUE, !.acks = @ \cup {Got + 1}]
  /\ UNCHANGED <<c, wire, app, listen, conns>>

\* The peer gives the connection up, of itself or because it was reset
PeerReset ==
  /\ peer.st \notin {"idle", "gone"}
  /\ peer' = [peer EXCEPT !.st = "gone"]
  /\ UNCHANGED <<c, wire, app, listen, conns>>

Init ==
  /\ c = NoConn /\ wire = {} /\ app = NewApp /\ peer = NewPeer("idle")
  /\ listen = ("listen" \in Roles) /\ conns = 0

Next ==
  \/ PeriodicCheck \/ Connect \/ CloseAll \/ Start
  \/ Arrive \/ PeerOpen \/ PeerHandshake \/ PeerSend \/ PeerClose
  \/ PeerReceive \/ PeerReset

\* States that only wait for the peer, without ever starting ts_rexmit again
Waiting == {"FIN_WAIT_1", "FIN_WAIT_2", "CLOSING", "LAST_ACK"}

Settle ==
  \/ c.status \in Waiting /\ Check("limit")
  \/ c.status \in {"CLOSE_WAIT", "TIME_WAIT"} /\ Check("little")

\* The loop keeps calling mtk_tcp_periodic_check, and time passes
Fairness == WF_vars(Settle)
Spec == Init /\ [][Next]_vars
FairSpec == Spec /\ Fairness

----------------------------------------------------------------------------
(* Properties                                                              *)

\* Every variable stays in its domain.
TypeOK ==
  /\ c.status \in States /\ {c.pseq, c.seq, c.last, c.acked} \subseteq 0 .. SeqMod - 1
  /\ c.tx \in 0 .. AppData /\ c.txlen \in ChunkSizes \cup {0}
  /\ app.sent \in 0 .. AppData /\ app.final \in Nat
  /\ peer.sent \in 0 .. PeerData + 1 /\ listen \in BOOLEAN /\ conns \in 0 .. MaxConns

\* The upper layer is handed the units of the peer in order, none twice and
\* none left out, whatever the network repeats, reorders or splits differently
\* (the trimming of mtk_receive_tcp).
InOrderDelivery == app.delivered = Stream(Len(app.delivered))

\* The peer takes the units the upper layer sent in order, none twice and none
\* left out: the position arithmetic of mtk_tcp_conn_check, over retransmission,
\* acknowledgements that come back late, and one chunk after another.
PeerGetsStream == peer.rcvd = Stream(Len(peer.rcvd))

\* MTK_TCP_CB_DATA_SENT, on which the upper layer frees or reuses its buffer,
\* comes only once the peer has all of the chunk.
SentMeansReceived == [][app'.done > app.done => app'.done <= Len(peer.rcvd)]_vars

\* The stack acknowledges only what it handed to the upper layer, and the end
\* of the stream only after all of it, if the peer closes with LoneFin: a FIN that
\* overtakes data is taken for the end of the stream (mtk_receive_tcp).
AcksOnlyDelivered ==
  \A s \in wire : s.kind \in {"ACK", "FIN"} =>
    LET n == Len(app.delivered)
    IN  SeqSub(s.ack, PSeq(0)) <= IF n = PeerData THEN n + 1 ELSE n

\* The upper layer, which frees its data then, is told of the end of a
\* connection once, and hears nothing of it afterwards.
NothingAfterFinal == app.final <= 1 /\ ~app.late

\* A connection of which the upper layer knows does not go away without
\* telling it (mtk_tcp_rexmit_check: "Callback if the connection has
\* established").
EveryConnIsFinished == ~app.lost

\* A connection that one side closed does not stay for ever when the peer stops
\* answering, in whatever half-closed state it was.
HalfClosedEnds ==
  (Conn /\ c.status \notin Handshake \cup {"ESTABLISHED"}) ~> (~Conn \/ c.status \in Handshake)
=============================================================================
