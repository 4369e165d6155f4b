--------------------------- MODULE MtkTcp_proofs ---------------------------
(***************************************************************************)
(* Proofs about MtkTcp.  A handler is an operator on the machine m, so     *)
(* each gets lemmas about the machine it returns: its type (Typed), what   *)
(* the upper layer was told (Told), the side of the connection that        *)
(* receives (Quiet, Rx), and the side that sends (Tx).                     *)
(***************************************************************************)
EXTENDS MtkTcp, SequenceTheorems, TLAPS

Seqs == 0 .. SeqMod - 1

ConnType ==
  [status : States, pseq : Seqs, seq : Seqs, last : Seqs, acked : Seqs,
   tx : 0 .. AppData, txlen : ChunkSizes \cup {0}, close : BOOLEAN,
   ackFlag : BOOLEAN, rexmit : BOOLEAN, wait : BOOLEAN, zw : BOOLEAN,
   wnd : Int, pdata : BOOLEAN, cb : BOOLEAN, dying : BOOLEAN]

SentType ==
  [kind : {"RST", "SYN", "SYNACK", "ACK", "FIN"}, seq : Seqs, ack : Seqs, off : Int, len : Nat]

AppType ==
  [delivered : Seq(Int), sent : 0 .. AppData, done : Nat, born : BOOLEAN,
   final : Nat, late : BOOLEAN, lost : BOOLEAN]

Machines == [c : ConnType, wire : SUBSET SentType, app : AppType]

SegType ==
  [syn : BOOLEAN, rst : BOOLEAN, fin : BOOLEAN, ackbit : BOOLEAN, seq : Seqs,
   len : Nat, off : Nat, ack : Seqs, wnd : Nat]

LEMMA Constants ==
  /\ SeqMod \in Nat \ {0} /\ Mss \in Nat \ {0} /\ Seqs \subseteq Int /\ 0 \in Seqs
  /\ LocalIsn \in Seqs /\ PeerIsn \in Seqs
  /\ PeerData \in Nat /\ PeerMss \in Nat /\ AppData \in Nat
  /\ ChunkSizes \cup {0} \subseteq Nat
BY TcpAssumption DEF Seqs

----------------------------------------------------------------------------
(* Sequence numbers                                                        *)

LEMMA Rest0 ==
  ASSUME NEW x \in Int
  PROVE  x % SeqMod \in Seqs /\ x \div SeqMod \in Int /\ x = (x \div SeqMod) * SeqMod + (x % SeqMod)
BY TcpAssumption DEF Seqs

(* The remainder is the only number of the range that is right.             *)
LEMMA RestIs ==
  ASSUME NEW q \in Int, NEW r \in Seqs
  PROVE  (q * SeqMod + r) % SeqMod = r
BY TcpAssumption DEF Seqs

(* A whole turn makes no difference.                                        *)
LEMMA Turns ==
  ASSUME NEW x \in Int, NEW q \in Int
  PROVE  (q * SeqMod + x) % SeqMod = x % SeqMod
<1>1. PICK p \in Int, r \in Seqs : x = p * SeqMod + r /\ r = x % SeqMod
  BY Rest0
<1>2. q * SeqMod + x = (q + p) * SeqMod + r
  BY <1>1, TcpAssumption DEF Seqs
<1>3. q + p \in Int
  OBVIOUS
<1> QED
  BY <1>1, <1>2, <1>3, RestIs

LEMMA SeqAddTyped == ASSUME NEW a \in Int, NEW n \in Int PROVE SeqAdd(a, n) \in Seqs
BY Rest0 DEF SeqAdd

LEMMA SeqSubTyped == ASSUME NEW a \in Int, NEW b \in Int PROVE SeqSub(a, b) \in Int
BY Rest0, TcpAssumption DEF SeqSub, Seqs

LEMMA SeqAddZero == ASSUME NEW a \in Seqs PROVE SeqAdd(a, 0) = a
<1>1. a + 0 = 0 * SeqMod + a
  BY TcpAssumption DEF Seqs
<1> QED
  BY <1>1, RestIs DEF SeqAdd

LEMMA SeqAddTwice ==
  ASSUME NEW a \in Int, NEW n \in Int, NEW k \in Int
  PROVE  SeqAdd(SeqAdd(a, n), k) = SeqAdd(a, n + k)
<1> DEFINE x == a + n  q == x \div SeqMod  r == x % SeqMod
<1>1. x \in Int /\ q \in Int /\ r \in Seqs /\ x = q * SeqMod + r
  BY Rest0
<1>2. SeqAdd(a, n) = r /\ x = a + n
  BY DEF SeqAdd
<1> HIDE DEF x, q, r
<1>3. a + (n + k) = q * SeqMod + (r + k) /\ r + k \in Int
  BY <1>1, <1>2, TcpAssumption DEF Seqs
<1> QED
  BY <1>1, <1>2, <1>3, Turns DEF SeqAdd

(* The distance of two positions of one stream, as long as it is less than  *)
(* half the numbers there are.                                              *)
LEMMA Distance ==
  ASSUME NEW a \in Int, NEW i \in Int, NEW j \in Int,
         2 * (i - j) < SeqMod, 2 * (j - i) < SeqMod
  PROVE  SeqSub(SeqAdd(a, i), SeqAdd(a, j)) = i - j
<1> DEFINE x == a + i  y == a + j
           qx == x \div SeqMod  rx == x % SeqMod  qy == y \div SeqMod  ry == y % SeqMod
           d == (rx - ry) % SeqMod
<1>1. x \in Int /\ qx \in Int /\ rx \in Seqs /\ x = qx * SeqMod + rx
  BY Rest0
<1>2. y \in Int /\ qy \in Int /\ ry \in Seqs /\ y = qy * SeqMod + ry
  BY Rest0
<1>3. SeqSub(SeqAdd(a, i), SeqAdd(a, j)) = IF 2 * d < SeqMod THEN d ELSE d - SeqMod
  BY DEF SeqSub, SeqAdd
<1>4. x - y = i - j /\ d = (rx - ry) % SeqMod
  OBVIOUS
<1> HIDE DEF x, y, qx, rx, qy, ry, d
<1>5. rx - ry = (qy - qx) * SeqMod + (i - j) /\ qy - qx \in Int /\ i - j \in Int
  BY <1>1, <1>2, <1>4, TcpAssumption DEF Seqs
<1>6. d = (i - j) % SeqMod
  BY <1>4, <1>5, Turns
<1>7. CASE i - j >= 0
  <2>1. i - j = 0 * SeqMod + (i - j) /\ i - j \in Seqs
    BY <1>7, TcpAssumption DEF Seqs
  <2>2. d = i - j
    BY <1>6, <2>1, RestIs
  <2> QED
    BY <1>3, <2>2
<1>8. CASE i - j < 0
  <2>1. i - j = (-1) * SeqMod + (i - j + SeqMod) /\ i - j + SeqMod \in Seqs
    BY <1>8, TcpAssumption DEF Seqs
  <2>2. d = i - j + SeqMod
    BY <1>6, <2>1, RestIs
  <2>3. ~(2 * d < SeqMod)
    BY <2>2, TcpAssumption
  <2> QED
    BY <1>3, <2>2, <2>3, TcpAssumption
<1> QED
  BY <1>7, <1>8, TcpAssumption

----------------------------------------------------------------------------
(* What the operators of the connection return                             *)

\* The upper layer was told of the end at most once, and of nothing since
Told(m) == ~m.app.late /\ IF m.c.dying THEN m.app.final <= 1 ELSE m.app.final = 0

\* From m to n nothing was received, and nothing acknowledged
Quiet(m, n) ==
  /\ n.c.status = m.c.status /\ n.c.pseq = m.c.pseq
  /\ n.app.delivered = m.app.delivered
  /\ \A s \in n.wire : s \in m.wire \/ s.kind \notin {"ACK", "FIN"}

LEMMA QuietTwice ==
  ASSUME NEW m, NEW n, NEW k, Quiet(m, n), Quiet(n, k)
  PROVE  Quiet(m, k)
BY DEF Quiet

LEMMA QuietSame == ASSUME NEW m PROVE Quiet(m, m)
BY DEF Quiet

LEMMA SendCtlFields ==
  ASSUME NEW m \in Machines, NEW kind \in {"RST", "SYN", "SYNACK", "ACK", "FIN"},
         NEW ack \in Seqs
  PROVE  LET s == [kind |-> kind, seq |-> m.c.seq, ack |-> ack, off |-> 0, len |-> 0]
             new == SendCtl(m, kind, ack)
         IN  /\ new \in Machines /\ new.c = m.c /\ new.app = m.app
             /\ new.wire = m.wire \cup {s}
<1> DEFINE s == [kind |-> kind, seq |-> m.c.seq, ack |-> ack, off |-> 0, len |-> 0]
           new == SendCtl(m, kind, ack)
<1>1. new.c = m.c /\ new.app = m.app /\ new.wire = m.wire \cup {s}
  BY DEF SendCtl, Send, Machines
<1>2. s \in SentType
  BY DEF Machines, ConnType, SentType
<1>3. new \in Machines
  BY <1>2 DEF SendCtl, Send, Machines
<1> QED
  BY <1>1, <1>3

LEMMA RstQuiet ==
  ASSUME NEW m \in Machines, NEW ack \in Seqs
  PROVE  /\ SendCtl(m, "RST", ack) \in Machines /\ Quiet(m, SendCtl(m, "RST", ack))
         /\ SendCtl(m, "RST", ack).c = m.c /\ SendCtl(m, "RST", ack).app = m.app
<1> DEFINE s == [kind |-> "RST", seq |-> m.c.seq, ack |-> ack, off |-> 0, len |-> 0]
           new == SendCtl(m, "RST", ack)
<1>1. new \in Machines /\ new.c = m.c /\ new.app = m.app /\ new.wire = m.wire \cup {s}
  BY SendCtlFields
<1>2. s.kind = "RST"
  OBVIOUS
<1> HIDE DEF s, new
<1>3. Quiet(m, new)
  BY <1>1, <1>2 DEF Quiet
<1> QED
  BY <1>1, <1>3 DEF new

LEMMA ZombifyFields ==
  ASSUME NEW m \in Machines
  PROVE  /\ Zombify(m) \in Machines /\ Quiet(m, Zombify(m))
         /\ Zombify(m).c.dying
         /\ Zombify(m).app.late = m.app.late /\ Zombify(m).app.final = m.app.final
BY DEF Zombify, Quiet, Machines, ConnType, AppType

LEMMA NotedFields ==
  ASSUME NEW m \in Machines
  PROVE  /\ Noted(m) \in Machines /\ Quiet(m, Noted(m)) /\ Noted(m).c = m.c
         /\ (Noted(m).app.late <=> (m.app.late \/ m.app.final > 0))
         /\ Noted(m).app.final = m.app.final
BY DEF Noted, Quiet, Machines, AppType

LEMMA EndedFields ==
  ASSUME NEW m \in Machines
  PROVE  /\ Ended(m) \in Machines /\ Quiet(m, Ended(m)) /\ Ended(m).c = m.c
         /\ Ended(m).app.late = m.app.late /\ Ended(m).app.final = m.app.final + 1
<1>1. Ended(m).c = m.c /\ Ended(m).wire = m.wire
      /\ Ended(m).app = [m.app EXCEPT !.final = @ + 1]
  BY DEF Ended, Machines, AppType
<1>2. m.app.final + 1 \in Nat
  BY DEF Machines, AppType
<1>3. Ended(m) \in Machines
  BY <1>2 DEF Ended, Machines, AppType
<1> QED
  BY <1>1, <1>3 DEF Quiet, Machines, AppType

LEMMA AliveNoted ==
  ASSUME NEW m \in Machines, Told(m), ~m.c.dying
  PROVE  Noted(m) \in Machines /\ Told(Noted(m)) /\ Quiet(m, Noted(m)) /\ Noted(m).c = m.c
BY NotedFields DEF Told

LEMMA AliveTold ==
  ASSUME NEW m \in Machines, Told(m), ~m.c.dying
  PROVE  LET new == Zombify(Ended(Noted(m)))
         IN  new \in Machines /\ Told(new) /\ Quiet(m, new) /\ new.c.dying
<1> DEFINE a == Noted(m)  b == Ended(a)  d == Zombify(b)
<1>1. a \in Machines /\ Quiet(m, a) /\ ~a.app.late /\ a.app.final = 0
  BY NotedFields DEF Told
<1>2. b \in Machines /\ Quiet(a, b) /\ ~b.app.late /\ b.app.final = 1
  BY <1>1, EndedFields
<1>3. d \in Machines /\ Quiet(b, d) /\ ~d.app.late /\ d.app.final = 1 /\ d.c.dying
  BY <1>2, ZombifyFields
<1>4. Zombify(Ended(Noted(m))) = d
  OBVIOUS
<1> HIDE DEF a, b, d
<1> QED
  BY <1>1, <1>2, <1>3, <1>4, QuietTwice DEF Told

LEMMA AliveZombify ==
  ASSUME NEW m \in Machines, Told(m), ~m.c.dying
  PROVE  Zombify(m) \in Machines /\ Told(Zombify(m)) /\ Quiet(m, Zombify(m)) /\ Zombify(m).c.dying
BY ZombifyFields DEF Told

LEMMA OutOfService ==
  ASSUME NEW m \in Machines
  PROVE  LET new == [m EXCEPT !.c.cb = FALSE, !.c.pdata = FALSE]
         IN  new \in Machines /\ Quiet(m, new) /\ new.app = m.app
BY DEF Quiet, Machines, ConnType

LEMMA AliveFinish ==
  ASSUME NEW m \in Machines, Told(m), ~m.c.dying
  PROVE  Finish(m) \in Machines /\ Told(Finish(m)) /\ Quiet(m, Finish(m)) /\ Finish(m).c.dying
<1> DEFINE told == IF m.c.cb /\ m.c.pdata THEN Ended(Noted(m)) ELSE m
           out  == [told EXCEPT !.c.cb = FALSE, !.c.pdata = FALSE]
<1>1. told \in Machines /\ Quiet(m, told) /\ ~told.app.late /\ told.app.final <= 1
  <2>1. Noted(m) \in Machines /\ Quiet(m, Noted(m)) /\ ~Noted(m).app.late /\ Noted(m).app.final = 0
    BY NotedFields DEF Told
  <2> QED
    BY <2>1, EndedFields, QuietTwice, QuietSame DEF Told
<1>2. Finish(m) = Zombify(out)
  BY DEF Finish
<1> HIDE DEF told
<1>3. out \in Machines /\ Quiet(told, out) /\ out.app = told.app
  BY <1>1, OutOfService
<1> HIDE DEF out
<1> QED
  BY <1>1, <1>2, <1>3, ZombifyFields, QuietTwice DEF Told

LEMMA AliveTeardown ==
  ASSUME NEW m \in Machines, Told(m), ~m.c.dying
  PROVE  /\ Teardown(m) \in Machines /\ Told(Teardown(m))
         /\ Quiet(m, Teardown(m)) /\ Teardown(m).c.dying
<1>1. m.c.pseq \in Seqs
  BY DEF Machines, ConnType
<1> QED
  BY <1>1, RstQuiet, AliveFinish, QuietTwice DEF Teardown, Told

LEMMA SendDataFields ==
  ASSUME NEW m \in Machines, NEW n \in ChunkSizes
  PROVE  /\ SendData(m, n) \in Machines /\ Quiet(m, SendData(m, n))
         /\ SendData(m, n).c.dying = m.c.dying
         /\ SendData(m, n).app.late = m.app.late /\ SendData(m, n).app.final = m.app.final
<1>1. CASE m.app.sent + n > AppData
  BY <1>1, QuietSame DEF SendData
<1>2. CASE m.app.sent + n <= AppData
  <2> DEFINE new == [m EXCEPT !.c = [@ EXCEPT !.tx = m.app.sent + 1, !.txlen = n,
                                               !.last = m.c.seq, !.acked = m.c.seq],
                              !.app.sent = @ + n]
  <2>1. SendData(m, n) \in {m, new}
    BY DEF SendData
  <2>2. m.app.sent + n \in 0 .. AppData /\ m.app.sent + 1 \in 0 .. AppData
    <3>1. n \in Nat \ {0} /\ m.app.sent \in 0 .. AppData /\ AppData \in Nat
      BY Constants, TcpAssumption DEF Machines, AppType
    <3> QED
      BY <1>2, <3>1
  <2>3. new \in Machines
    BY <2>2, TcpAssumption DEF Machines, ConnType, AppType
  <2>4. new.c.status = m.c.status /\ new.c.pseq = m.c.pseq /\ new.c.dying = m.c.dying
    BY DEF Machines, ConnType
  <2>5. new.app.late = m.app.late /\ new.app.final = m.app.final
        /\ new.app.delivered = m.app.delivered /\ new.wire = m.wire
    BY DEF Machines, AppType
  <2> HIDE DEF new
  <2> QED
    BY <2>1, <2>3, <2>4, <2>5, QuietSame DEF Quiet
<1> QED
  BY <1>1, <1>2, TcpAssumption DEF Machines, AppType

LEMMA AliveReact ==
  ASSUME NEW m \in Machines, Told(m), ~m.c.dying, NEW r \in Reactions
  PROVE  /\ React(m, r) \in Machines /\ Told(React(m, r)) /\ Quiet(m, React(m, r))
         /\ r # ResetConn => ~React(m, r).c.dying
<1>1. CASE r = CloseConn
  <2> DEFINE new == [m EXCEPT !.c.close = TRUE]
  <2>1. React(m, r) = new
    BY <1>1 DEF React, CloseConn, ResetConn, Nothing
  <2>2. new \in Machines /\ Quiet(m, new) /\ new.c.dying = m.c.dying /\ new.app = m.app
    BY DEF Machines, ConnType, Quiet
  <2> QED
    BY <2>1, <2>2 DEF Told
<1>2. CASE r = ResetConn
  BY <1>2, AliveTeardown DEF React, ResetConn, CloseConn, Nothing
<1>3. CASE r = Nothing
  BY <1>3, QuietSame DEF React, ResetConn, CloseConn, Nothing
<1>4. CASE r \in ChunkSizes
  <2>1. React(m, r) = SendData(m, r)
    BY <1>4, TcpAssumption DEF React, ResetConn, CloseConn, Nothing
  <2> QED
    BY <1>4, <2>1, SendDataFields DEF Told
<1> QED
  BY <1>1, <1>2, <1>3, <1>4 DEF Reactions

----------------------------------------------------------------------------
(* mtk_receive_tcp on an established connection                             *)

LEMMA WindowFields ==
  ASSUME NEW m \in Machines, NEW s \in SegType
  PROVE  LET now == [m EXCEPT !.c = Window(@, s)]
         IN  /\ now \in Machines /\ Quiet(m, now)
             /\ now.c.dying = m.c.dying /\ now.app = m.app
<1> DEFINE k == Window(m.c, s)  now == [m EXCEPT !.c = k]
           z == m.c.zw /\ ~(s.wnd > Mss /\ s.wnd > m.c.wnd)
           f == m.c.ackFlag \/ WantsAck(m.c, s)
<1>1. k \in ConnType /\ k.status = m.c.status /\ k.pseq = m.c.pseq /\ k.dying = m.c.dying
  <2>1. z \in BOOLEAN /\ f \in BOOLEAN /\ s.wnd \in Int /\ m.c \in ConnType
    BY DEF Machines, SegType
  <2>2. k = [m.c EXCEPT !.zw = z, !.wnd = s.wnd, !.ackFlag = f]
    BY DEF Window
  <2> HIDE DEF z, f, k
  <2> QED
    BY <2>1, <2>2 DEF ConnType
<1>2. [m EXCEPT !.c = Window(@, s)] = now
  OBVIOUS
<1> HIDE DEF k
<1>3. now \in Machines /\ now.c = k /\ now.app = m.app /\ now.wire = m.wire
  BY <1>1 DEF Machines
<1> QED
  BY <1>1, <1>2, <1>3 DEF Quiet

LEMMA AliveAcked ==
  ASSUME NEW m \in Machines, Told(m), ~m.c.dying, NEW s \in SegType, NEW r \in Reactions
  PROVE  Acked(m, s, r) \in Machines /\ Told(Acked(m, s, r)) /\ Quiet(m, Acked(m, s, r))
<1> DEFINE k == m.c
           more == [m EXCEPT !.c = [@ EXCEPT !.rexmit = FALSE, !.wait = FALSE, !.acked = s.ack]]
           sent == [more EXCEPT !.c.tx = 0, !.c.txlen = 0, !.app.done = @ + k.txlen]
           back == [m EXCEPT !.c.acked = s.ack, !.c.rexmit = TRUE]
<1>1. s.ack \in Seqs /\ k.txlen \in Nat /\ 0 \in 0 .. AppData
  BY Constants DEF Machines, ConnType, SegType
<1>2. more \in Machines /\ Quiet(m, more) /\ more.app = m.app /\ more.c.dying = m.c.dying
  BY <1>1 DEF Machines, ConnType, Quiet
<1>3. back \in Machines /\ Quiet(m, back) /\ back.app = m.app /\ back.c.dying = m.c.dying
  BY <1>1 DEF Machines, ConnType, Quiet
<1>4. Acked(m, s, r) \in {React(Noted(sent), r), more, m, back}
  BY DEF Acked
<1> HIDE DEF more, back
<1>5. sent \in Machines /\ Quiet(more, sent) /\ sent.c.dying = more.c.dying
      /\ sent.app.late = more.app.late /\ sent.app.final = more.app.final
  <2>1. more.app.done + k.txlen \in Nat
    BY <1>1, <1>2 DEF Machines, AppType
  <2>2. sent \in Machines
    BY <1>1, <1>2, <2>1 DEF Machines, ConnType, AppType
  <2>3. Quiet(more, sent)
    BY <1>2 DEF Machines, ConnType, AppType, Quiet
  <2> QED
    BY <1>2, <2>2, <2>3 DEF Machines, ConnType, AppType
<1> HIDE DEF sent
<1>6. Told(more) /\ Told(back) /\ Told(sent) /\ ~sent.c.dying
  BY <1>2, <1>3, <1>5 DEF Told
<1>7. /\ React(Noted(sent), r) \in Machines /\ Told(React(Noted(sent), r))
      /\ Quiet(m, React(Noted(sent), r))
  <2>1. /\ Noted(sent) \in Machines /\ Told(Noted(sent)) /\ Quiet(sent, Noted(sent))
        /\ ~Noted(sent).c.dying
    BY <1>5, <1>6, AliveNoted
  <2>2. /\ React(Noted(sent), r) \in Machines /\ Told(React(Noted(sent), r))
        /\ Quiet(Noted(sent), React(Noted(sent), r))
    BY <2>1, AliveReact
  <2> QED
    BY <1>2, <1>5, <2>1, <2>2, QuietTwice
<1> QED
  BY <1>2, <1>3, <1>4, <1>6, <1>7, QuietSame

LEMMA RunTyped == ASSUME NEW a \in Int, NEW n \in Nat PROVE Run(a, n) \in Seq(Int) /\ Len(Run(a, n)) = n
BY DEF Run

LEMMA AppendRun ==
  ASSUME NEW q \in Seq(Int), NEW a \in Int, NEW n \in Nat
  PROVE  q \o Run(a, n) \in Seq(Int)
BY RunTyped

\* The machine after n units were taken from s, and before the callback
Got1(m, s, n) ==
  [m EXCEPT !.c.pseq = SeqAdd(@, n), !.c.ackFlag = TRUE,
            !.app.delivered = @ \o Run(s.off + s.len - n, n)]

LEMMA GotFields ==
  ASSUME NEW m \in Machines, NEW s \in SegType, NEW n \in Nat
  PROVE  LET got == Got1(m, s, n)
         IN  /\ got \in Machines
             /\ got.c.pseq = SeqAdd(m.c.pseq, n) /\ got.c.status = m.c.status
             /\ got.c.dying = m.c.dying /\ got.wire = m.wire
             /\ got.app.delivered = m.app.delivered \o Run(s.off + s.len - n, n)
             /\ got.app.late = m.app.late /\ got.app.final = m.app.final
<1> DEFINE q == m.app.delivered \o Run(s.off + s.len - n, n)  p == SeqAdd(m.c.pseq, n)
           got == [m EXCEPT !.c.pseq = p, !.c.ackFlag = TRUE, !.app.delivered = q]
<1>1. q \in Seq(Int)
  <2>1. m.app.delivered \in Seq(Int) /\ s.off + s.len - n \in Int
    BY DEF Machines, AppType, SegType
  <2> QED
    BY <2>1, AppendRun
<1>2. p \in Seqs
  <2>1. m.c.pseq \in Int /\ n \in Int
    BY DEF Machines, ConnType, Seqs
  <2> QED
    BY <2>1, SeqAddTyped
<1>3. Got1(m, s, n) = got
  BY DEF Got1
<1> HIDE DEF p, q
<1>4. got \in Machines
  BY <1>1, <1>2 DEF Machines, ConnType, AppType
<1>5. /\ got.c.pseq = p /\ got.c.status = m.c.status /\ got.c.dying = m.c.dying
      /\ got.wire = m.wire /\ got.app.delivered = q
      /\ got.app.late = m.app.late /\ got.app.final = m.app.final
  BY DEF Machines, ConnType, AppType
<1> HIDE DEF got
<1> QED
  BY <1>3, <1>4, <1>5 DEF p, q

LEMMA NewDataTyped ==
  ASSUME NEW k \in ConnType, NEW s \in SegType
  PROVE  NewData(k, s) \in Nat
<1>1. SeqSub(SeqAdd(s.seq, s.len), k.pseq) \in Int
  <2>1. s.seq \in Int /\ s.len \in Int /\ k.pseq \in Int
    BY DEF ConnType, SegType, Seqs
  <2>2. SeqAdd(s.seq, s.len) \in Int
    BY <2>1, SeqAddTyped, Constants
  <2> QED
    BY <2>1, <2>2, SeqSubTyped
<1> QED
  BY <1>1 DEF NewData, SegType

\* The receiving side after n units of s were taken
Took(m, n, s, new) ==
  /\ new.c.status = m.c.status
  /\ \A x \in new.wire : x \in m.wire \/ x.kind \notin {"ACK", "FIN"}
  /\ IF n = 0 THEN new.c.pseq = m.c.pseq /\ new.app.delivered = m.app.delivered
     ELSE /\ new.c.pseq = SeqAdd(m.c.pseq, n)
          /\ new.app.delivered = m.app.delivered \o Run(s.off + s.len - n, n)

LEMMA AliveReceived ==
  ASSUME NEW m \in Machines, Told(m), ~m.c.dying, NEW s \in SegType, NEW n \in Nat,
         NEW r \in Reactions
  PROVE  LET new == Received(m, s, n, r)
         IN  new \in Machines /\ Told(new) /\ Took(m, n, s, new)
<1> DEFINE got == Got1(m, s, n)  new == React(Noted(got), r)
<1>1. CASE n = 0
  BY <1>1 DEF Received, Took
<1>2. CASE n # 0
  <2>1. Received(m, s, n, r) = new
    BY <1>2 DEF Received, Got1
  <2>a. /\ got \in Machines /\ got.c.dying = m.c.dying
        /\ got.c.pseq = SeqAdd(m.c.pseq, n) /\ got.c.status = m.c.status /\ got.wire = m.wire
        /\ got.app.delivered = m.app.delivered \o Run(s.off + s.len - n, n)
        /\ got.app.late = m.app.late /\ got.app.final = m.app.final
    BY GotFields
  <2> HIDE DEF got
  <2>2. Told(got) /\ ~got.c.dying
    BY <2>a DEF Told
  <2>3. /\ Noted(got) \in Machines /\ Told(Noted(got)) /\ Quiet(got, Noted(got))
        /\ ~Noted(got).c.dying
    BY <2>a, <2>2, AliveNoted
  <2>4. new \in Machines /\ Told(new) /\ Quiet(Noted(got), new)
    BY <2>3, AliveReact
  <2>5. Quiet(got, new)
    BY <2>3, <2>4, QuietTwice
  <2> HIDE DEF new
  <2> QED
    BY <1>2, <2>a, <2>1, <2>4, <2>5 DEF Took, Quiet
<1> QED
  BY <1>1, <1>2

\* What Established leaves: the data of s may have been taken, and its FIN
Entered(m, s, new) ==
  \/ Quiet(m, new)
  \/ Took(m, NewData(m.c, s), s, new)
  \/ /\ s.fin /\ new.c.status = "CLOSE_WAIT"
     /\ \E old \in Machines : /\ Took(m, NewData(m.c, s), s, old) /\ old.wire = new.wire
                              /\ old.c.pseq = new.c.pseq
                              /\ old.app.delivered = new.app.delivered

LEMMA TookAfter ==
  ASSUME NEW m, NEW k, NEW new, NEW s, NEW n \in Nat, Quiet(m, k), Took(k, n, s, new)
  PROVE  Took(m, n, s, new)
BY DEF Quiet, Took

LEMMA AliveEstablished ==
  ASSUME NEW m \in Machines, Told(m), ~m.c.dying, NEW s \in SegType,
         NEW r1 \in Reactions, NEW r2 \in Reactions
  PROVE  LET new == Established(m, s, r1, r2)
         IN  new \in Machines /\ Told(new) /\ Entered(m, s, new)
<1> DEFINE n == NewData(m.c, s)
           now  == [m EXCEPT !.c = Window(@, s)]
           ackd == Acked(now, s, r1)
           data == Received(ackd, s, n, r2)
           last == [Noted(data) EXCEPT !.c.status = "CLOSE_WAIT"]
           new  == Established(m, s, r1, r2)
<1>1. now \in Machines /\ Told(now) /\ Quiet(m, now) /\ ~now.c.dying
  BY WindowFields DEF Told
<1>2. n \in Nat
  BY NewDataTyped DEF Machines
<1>3. \/ new = now
      \/ ackd.c.dying /\ new = ackd
      \/ ~ackd.c.dying /\ (data.c.dying \/ ~s.fin) /\ new = data
      \/ ~ackd.c.dying /\ ~data.c.dying /\ s.fin /\ new = last
  BY DEF Established
<1> HIDE DEF n, now
<1>4. ackd \in Machines /\ Told(ackd) /\ Quiet(m, ackd)
  BY <1>1, AliveAcked, QuietTwice
<1> HIDE DEF ackd
<1>5. ~ackd.c.dying => data \in Machines /\ Told(data) /\ Took(m, n, s, data)
  <2> SUFFICES ASSUME ~ackd.c.dying PROVE data \in Machines /\ Told(data) /\ Took(m, n, s, data)
    OBVIOUS
  <2>1. data \in Machines /\ Told(data) /\ Took(ackd, n, s, data)
    BY <1>2, <1>4, AliveReceived
  <2> HIDE DEF data
  <2> QED
    BY <1>2, <1>4, <2>1, TookAfter
<1> HIDE DEF data
<1>6. ASSUME ~ackd.c.dying, ~data.c.dying, s.fin
      PROVE  last \in Machines /\ Told(last) /\ last.c.status = "CLOSE_WAIT"
             /\ data \in Machines /\ Took(m, n, s, data) /\ data.wire = last.wire
             /\ data.c.pseq = last.c.pseq /\ data.app.delivered = last.app.delivered
  <2> DEFINE noted == Noted(data)
  <2>1. /\ noted \in Machines /\ Told(noted) /\ noted.c = data.c
        /\ noted.app.delivered = data.app.delivered /\ noted.wire = data.wire
    BY <1>5, <1>6, AliveNoted DEF Quiet, Noted, Machines
  <2> HIDE DEF noted
  <2>2. last = [noted EXCEPT !.c.status = "CLOSE_WAIT"]
    BY DEF noted
  <2>3. last \in Machines /\ last.c.status = "CLOSE_WAIT" /\ last.wire = noted.wire
        /\ last.c.pseq = noted.c.pseq /\ last.app = noted.app /\ last.c.dying = noted.c.dying
    BY <2>1, <2>2 DEF Machines, ConnType, States
  <2> QED
    BY <1>5, <1>6, <2>1, <2>3 DEF Told
<1> HIDE DEF last, new
<1>7. new \in Machines /\ Told(new)
  BY <1>1, <1>3, <1>4, <1>5, <1>6
<1>8. Entered(m, s, new)
  BY <1>1, <1>3, <1>4, <1>5, <1>6 DEF Entered, n
<1> QED
  BY <1>7, <1>8 DEF new

----------------------------------------------------------------------------
(* mtk_receive_tcp                                                          *)

\* The connection is up: the next number expected, and what acknowledges it
Opened(m, s, new) ==
  /\ new.c.status = "ESTABLISHED" /\ new.app.delivered = m.app.delivered
  /\ \/ m.c.status = "SYN_RCVD" /\ new.c.pseq = SeqAdd(m.c.pseq, 1)
     \/ m.c.status = "SYN_SENT" /\ s.syn /\ new.c.pseq = SeqAdd(s.seq, 1)
  /\ \A x \in new.wire : x \in m.wire \/ x.kind \notin {"ACK", "FIN"} \/ x.ack = new.c.pseq

\* A state that waits for the peer's FIN got it, or only the acknowledgement
Shut(m, s, new) ==
  /\ m.c.status \in {"FIN_WAIT_1", "FIN_WAIT_2", "CLOSING"}
  /\ \/ new.c.status \in {"TIME_WAIT", "CLOSING"} /\ (s.fin \/ m.c.status = "CLOSING")
     \/ new.c.status = "FIN_WAIT_2"
  /\ new.c.pseq = m.c.pseq /\ new.app.delivered = m.app.delivered /\ new.wire = m.wire

\* A connection that a SYN created
Created(s, new) ==
  /\ s.syn /\ ~s.ackbit
  /\ new.c.status = "SYN_RCVD" /\ new.c.pseq = s.seq /\ new.app.delivered = <<>>
  /\ \A x \in new.wire : x.kind = "SYNACK"

Heard(m, s, new) ==
  \/ Quiet(m, new)
  \/ m.c.status = "ESTABLISHED" /\ Entered(m, s, new)
  \/ Opened(m, s, new)
  \/ \E up \in Machines : Opened(m, s, up) /\ s.len > 0 /\ Entered(up, s, new)
  \/ Shut(m, s, new)

LEMMA AliveNewConnection ==
  ASSUME NEW m \in Machines, Told(m), ~m.c.dying, NEW r \in Reactions
  PROVE  LET new == NewConnection(m, r)
         IN  new \in Machines /\ Told(new) /\ Quiet(m, new)
<1> DEFINE had  == m.c.pdata \/ r # ResetConn
           born == [m EXCEPT !.c.pdata = had, !.app.born = had]
           new  == React(Noted(born), r)
<1>1. had \in BOOLEAN
  OBVIOUS
<1>2. NewConnection(m, r) = new
  BY DEF NewConnection
<1> HIDE DEF had
<1>3. /\ born \in Machines /\ Quiet(m, born) /\ born.c.dying = m.c.dying
      /\ born.app.late = m.app.late /\ born.app.final = m.app.final
  BY <1>1 DEF Machines, ConnType, AppType, Quiet
<1> HIDE DEF born
<1>4. Told(born) /\ ~born.c.dying
  BY <1>3 DEF Told
<1>5. /\ Noted(born) \in Machines /\ Told(Noted(born)) /\ Quiet(born, Noted(born))
      /\ ~Noted(born).c.dying
  BY <1>3, <1>4, AliveNoted
<1>6. new \in Machines /\ Told(new) /\ Quiet(Noted(born), new)
  BY <1>5, AliveReact
<1> QED
  BY <1>2, <1>3, <1>5, <1>6, QuietTwice

LEMMA OpenedQuiet ==
  ASSUME NEW m, NEW s, NEW up, NEW new, Opened(m, s, up), Quiet(up, new)
  PROVE  Opened(m, s, new)
BY DEF Opened, Quiet

LEMMA AliveHandshakeDone ==
  ASSUME NEW m \in Machines, Told(m), ~m.c.dying, NEW s \in SegType, NEW r \in Reactions,
         m.c.status = "SYN_RCVD" \/ (m.c.status = "SYN_SENT" /\ s.syn)
  PROVE  LET new == HandshakeDone(m, s, r)
         IN  new \in Machines /\ Told(new) /\ Opened(m, s, new)
<1> DEFINE sent == m.c.status = "SYN_SENT"
           seq  == SeqAdd(m.c.seq, 1)
           pseq == SeqAdd(IF sent THEN s.seq ELSE m.c.pseq, 1)
           wnd  == IF sent THEN s.wnd ELSE m.c.wnd
           up   == [m EXCEPT !.c = [@ EXCEPT !.pseq = pseq, !.wnd = wnd, !.seq = seq,
                      !.last = seq, !.acked = seq, !.status = "ESTABLISHED"]]
           put  == IF sent THEN SendCtl(up, "ACK", pseq) ELSE up
<1>1. seq \in Seqs /\ pseq \in Seqs /\ wnd \in Int
  <2>1. m.c.seq \in Int /\ m.c.pseq \in Int /\ s.seq \in Int
    BY DEF Machines, ConnType, SegType, Seqs
  <2>2. wnd \in Int
    BY DEF Machines, ConnType, SegType
  <2> QED
    BY <2>1, <2>2, SeqAddTyped
<1>2. HandshakeDone(m, s, r) = NewConnection(put, r)
  BY DEF HandshakeDone
<1>3. pseq = SeqAdd(IF sent THEN s.seq ELSE m.c.pseq, 1)
  OBVIOUS
<1>a. sent <=> m.c.status = "SYN_SENT"
  OBVIOUS
<1> HIDE DEF sent, seq, pseq, wnd
<1>4. /\ up \in Machines /\ up.c.status = "ESTABLISHED" /\ up.c.pseq = pseq
      /\ up.c.dying = m.c.dying /\ up.app = m.app /\ up.wire = m.wire
  BY <1>1 DEF Machines, ConnType, States
<1> HIDE DEF up
<1>5. /\ put \in Machines /\ put.c = up.c /\ put.app = up.app
      /\ \A x \in put.wire : x \in m.wire \/ x.ack = pseq
  <2>1. CASE sent
    <3> DEFINE x == [kind |-> "ACK", seq |-> up.c.seq, ack |-> pseq, off |-> 0, len |-> 0]
               p == SendCtl(up, "ACK", pseq)
    <3>1. p \in Machines /\ p.c = up.c /\ p.app = up.app /\ p.wire = up.wire \cup {x}
      BY <1>1, <1>4, SendCtlFields
    <3>2. put = p
      BY <2>1, <1>4
    <3>3. x.ack = pseq
      OBVIOUS
    <3> HIDE DEF x, p
    <3> QED
      BY <1>4, <3>1, <3>2, <3>3
  <2> QED
    BY <1>4, <2>1
<1> HIDE DEF put
<1>6. Told(put) /\ ~put.c.dying
  BY <1>4, <1>5 DEF Told
<1>7. Opened(m, s, put)
  <2>1. /\ put.c.status = "ESTABLISHED" /\ put.app.delivered = m.app.delivered
        /\ put.c.pseq = pseq
    BY <1>4, <1>5
  <2>2. \A x \in put.wire : x \in m.wire \/ x.ack = put.c.pseq
    BY <1>5, <2>1
  <2>3. \/ m.c.status = "SYN_RCVD" /\ pseq = SeqAdd(m.c.pseq, 1)
        \/ m.c.status = "SYN_SENT" /\ s.syn /\ pseq = SeqAdd(s.seq, 1)
    BY <1>3, <1>a
  <2> QED
    BY <2>1, <2>2, <2>3 DEF Opened
<1> QED
  BY <1>2, <1>5, <1>6, <1>7, AliveNewConnection, OpenedQuiet

LEMMA AliveStatus ==
  ASSUME NEW m \in Machines, Told(m), NEW k \in ConnType, k.dying = m.c.dying
  PROVE  LET new == [m EXCEPT !.c = k]
         IN  new \in Machines /\ Told(new) /\ new.c = k /\ new.app = m.app /\ new.wire = m.wire
BY DEF Machines, Told

LEMMA FinWait1Fields ==
  ASSUME NEW k \in ConnType, NEW s \in SegType, k.status = "FIN_WAIT_1"
  PROVE  LET new == FinWait1(k, s)
         IN  /\ new \in ConnType /\ new.pseq = k.pseq /\ new.dying = k.dying
             /\ \/ new.status \in {"TIME_WAIT", "CLOSING"} /\ s.fin
                \/ new.status \in {"FIN_WAIT_1", "FIN_WAIT_2"}
                     /\ (new.status = "FIN_WAIT_1" => new = k)
<1>1. SeqAdd(k.seq, 1) \in Seqs
  <2>1. k.seq \in Int
    BY DEF ConnType, Seqs
  <2> QED
    BY <2>1, SeqAddTyped
<1> DEFINE q == SeqAdd(k.seq, 1)
           half == [k EXCEPT !.status = "FIN_WAIT_2", !.seq = q]
           done == [k EXCEPT !.status = "TIME_WAIT", !.seq = q]
           both == [k EXCEPT !.status = "CLOSING"]
<1>2. /\ ~s.fin => FinWait1(k, s) \in {half, k}
      /\ s.fin => FinWait1(k, s) \in {done, both}
  BY DEF FinWait1
<1> HIDE DEF q
<1>3. half \in ConnType /\ half.pseq = k.pseq /\ half.dying = k.dying /\ half.status = "FIN_WAIT_2"
  BY <1>1 DEF ConnType, States, q
<1>4. done \in ConnType /\ done.pseq = k.pseq /\ done.dying = k.dying /\ done.status = "TIME_WAIT"
  BY <1>1 DEF ConnType, States, q
<1>5. both \in ConnType /\ both.pseq = k.pseq /\ both.dying = k.dying /\ both.status = "CLOSING"
  BY DEF ConnType, States
<1> HIDE DEF half, done, both
<1> QED
  BY <1>2, <1>3, <1>4, <1>5

LEMMA NextStatus ==
  ASSUME NEW k \in ConnType, NEW status \in States
  PROVE  /\ [k EXCEPT !.status = status] \in ConnType
         /\ [k EXCEPT !.status = status].status = status
         /\ [k EXCEPT !.status = status].pseq = k.pseq
         /\ [k EXCEPT !.status = status].dying = k.dying
BY DEF ConnType

LEMMA AliveSegment ==
  ASSUME NEW m \in Machines, Told(m), ~m.c.dying, NEW s \in SegType,
         NEW r1 \in Reactions, NEW r2 \in Reactions
  PROVE  LET new == Segment(m, s, r1, r2)
         IN  new \in Machines /\ Told(new) /\ Heard(m, s, new)
<1> DEFINE k == m.c
           finAcked == s.ack = SeqAdd(k.seq, 1)
           new == Segment(m, s, r1, r2)
           Goal == new \in Machines /\ Told(new) /\ Heard(m, s, new)
<1> SUFFICES Goal
  OBVIOUS
<1>0. k \in ConnType /\ k.status \in States /\ k.pseq \in Seqs /\ SeqAdd(k.seq, 1) \in Seqs
  <2>1. k.seq \in Int
    BY DEF Machines, ConnType, Seqs
  <2> QED
    BY <2>1, SeqAddTyped DEF Machines, ConnType
<1>1. CASE ~s.ackbit /\ k.status \notin {"FIN_WAIT_1", "FIN_WAIT_2"}
  <2>1. new = m
    BY <1>1 DEF Segment
  <2> QED
    BY <2>1, QuietSame DEF Heard
<1> DEFINE open == s.ackbit \/ k.status \in {"FIN_WAIT_1", "FIN_WAIT_2"}
<1>2. CASE open /\ k.status = "SYN_SENT" /\ ~s.syn
  <2>1. new = Zombify(Ended(Noted(SendCtl(m, "RST", k.pseq))))
    BY <1>2 DEF Segment
  <2> DEFINE rst == SendCtl(m, "RST", k.pseq)
  <2>2. rst \in Machines /\ Quiet(m, rst) /\ rst.c = m.c /\ rst.app = m.app
    BY <1>0, RstQuiet
  <2> HIDE DEF rst
  <2>3. Told(rst) /\ ~rst.c.dying
    BY <2>2 DEF Told
  <2>4. LET n == Zombify(Ended(Noted(rst))) IN n \in Machines /\ Told(n) /\ Quiet(rst, n)
    BY <2>2, <2>3, AliveTold
  <2> QED
    BY <2>1, <2>2, <2>4, QuietTwice DEF rst, Heard
<1>3. CASE open /\ k.status \in {"SYN_SENT", "SYN_RCVD"} /\ (s.syn \/ k.status = "SYN_RCVD")
  <2> DEFINE up == HandshakeDone(m, s, r1)
  <2>1. up \in Machines /\ Told(up) /\ Opened(m, s, up)
    BY <1>3, AliveHandshakeDone
  <2>2. new = IF up.c.dying \/ s.len = 0 THEN up ELSE Established(up, s, Nothing, r2)
    BY <1>3 DEF Segment
  <2> HIDE DEF up, new
  <2>3. CASE up.c.dying \/ s.len = 0
    BY <2>1, <2>2, <2>3 DEF Heard
  <2>4. CASE ~up.c.dying /\ s.len # 0
    <3>1. Nothing \in Reactions /\ s.len > 0
      BY <2>4 DEF Reactions, SegType
    <3> DEFINE e == Established(up, s, Nothing, r2)
    <3>2. e \in Machines /\ Told(e) /\ Entered(up, s, e)
      BY <2>1, <2>4, <3>1, AliveEstablished
    <3>3. new = e
      BY <2>2, <2>4
    <3> HIDE DEF e
    <3> QED
      BY <2>1, <3>1, <3>2, <3>3 DEF Heard
  <2> QED
    BY <2>3, <2>4
<1>4. CASE open /\ k.status = "ESTABLISHED"
  <2>1. new = Established(m, s, r1, r2)
    BY <1>4 DEF Segment
  <2> HIDE DEF new
  <2> QED
    BY <1>4, <2>1, AliveEstablished DEF Heard
<1>5. CASE open /\ k.status = "LAST_ACK"
  <2>1. new \in {Finish(m), m}
    BY <1>5 DEF Segment
  <2> HIDE DEF new
  <2> QED
    BY <2>1, AliveFinish, QuietSame DEF Heard
<1>6. CASE open /\ k.status = "FIN_WAIT_1"
  <2> DEFINE w == FinWait1(k, s)
  <2>1. new \in {[m EXCEPT !.c = w], m}
    BY <1>6 DEF Segment
  <2>2. /\ w \in ConnType /\ w.pseq = k.pseq /\ w.dying = k.dying
        /\ \/ w.status \in {"TIME_WAIT", "CLOSING"} /\ s.fin
           \/ w.status \in {"FIN_WAIT_1", "FIN_WAIT_2"} /\ (w.status = "FIN_WAIT_1" => w = k)
    BY <1>0, <1>6, FinWait1Fields
  <2> HIDE DEF w, new
  <2>3. LET n == [m EXCEPT !.c = w]
        IN  n \in Machines /\ Told(n) /\ n.c = w /\ n.app = m.app /\ n.wire = m.wire
    BY <2>2, AliveStatus
  <2>4. LET n == [m EXCEPT !.c = w] IN Quiet(m, n) \/ Shut(m, s, n)
    BY <1>6, <2>2, <2>3 DEF Quiet, Shut
  <2> QED
    BY <2>1, <2>3, <2>4, QuietSame DEF Heard
<1>7. CASE open /\ k.status = "FIN_WAIT_2"
  <2> DEFINE w == [k EXCEPT !.status = "TIME_WAIT"]  n == [m EXCEPT !.c = w]
  <2>1. new = m \/ (s.fin /\ new = [m EXCEPT !.c.status = "TIME_WAIT"])
    BY <1>7 DEF Segment
  <2>2. [m EXCEPT !.c.status = "TIME_WAIT"] = n
    OBVIOUS
  <2>3. w \in ConnType /\ w.status = "TIME_WAIT" /\ w.pseq = k.pseq /\ w.dying = k.dying
    BY <1>0, NextStatus DEF States
  <2> HIDE DEF w, new
  <2>4. n \in Machines /\ Told(n) /\ n.c = w /\ n.app = m.app /\ n.wire = m.wire
    BY <2>3, AliveStatus
  <2> HIDE DEF n
  <2>5. s.fin => Shut(m, s, n)
    BY <1>7, <2>3, <2>4 DEF Shut
  <2> QED
    BY <2>1, <2>2, <2>4, <2>5, QuietSame DEF Heard
<1>8. CASE open /\ k.status = "CLOSING"
  <2> DEFINE w == [k EXCEPT !.status = "TIME_WAIT", !.seq = SeqAdd(k.seq, 1)]
             n == [m EXCEPT !.c = w]
  <2>1. new \in {m, [m EXCEPT !.c.status = "TIME_WAIT", !.c.seq = SeqAdd(@, 1)]}
    BY <1>8 DEF Segment
  <2>2. [m EXCEPT !.c.status = "TIME_WAIT", !.c.seq = SeqAdd(@, 1)] = n
    BY DEF Machines, ConnType
  <2>3. w \in ConnType /\ w.status = "TIME_WAIT" /\ w.pseq = k.pseq /\ w.dying = k.dying
    BY <1>0 DEF ConnType, States
  <2> HIDE DEF w, new
  <2>4. n \in Machines /\ Told(n) /\ n.c = w /\ n.app = m.app /\ n.wire = m.wire
    BY <2>3, AliveStatus
  <2> HIDE DEF n
  <2>5. Shut(m, s, n)
    BY <1>8, <2>3, <2>4 DEF Shut
  <2> QED
    BY <2>1, <2>2, <2>4, <2>5, QuietSame DEF Heard
<1>9. CASE open /\ k.status \in {"CONNECT", "CLOSE_WAIT", "TIME_WAIT"}
  <2>1. new = m
    BY <1>9 DEF Segment
  <2> QED
    BY <2>1, QuietSame DEF Heard
<1> QED
  BY <1>0, <1>1, <1>2, <1>3, <1>4, <1>5, <1>6, <1>7, <1>8, <1>9 DEF States

LEMMA CreateFields ==
  ASSUME NEW m \in Machines, NEW s \in SegType, s.syn, ~s.ackbit
  PROVE  LET new == Create(m, s)
         IN  new \in Machines /\ Told(new) /\ ~new.c.dying /\ Created(s, new)
<1> DEFINE k == NewConn("SYN_RCVD", s.seq, s.wnd, FALSE)
           a == [NewApp EXCEPT !.lost = m.app.lost]
           x == [kind |-> "SYNACK", seq |-> k.seq, ack |-> SeqAdd(s.seq, 1), off |-> 0, len |-> 0]
<1>1. Create(m, s) = [c |-> k, app |-> a, wire |-> {x}]
  BY DEF Create
<1>2. k \in ConnType /\ k.status = "SYN_RCVD" /\ k.pseq = s.seq /\ ~k.dying
  <2>1. s.seq \in Seqs /\ s.wnd \in Int /\ 0 \in Seqs /\ LocalIsn \in Seqs
        /\ 0 \in 0 .. AppData /\ 0 \in ChunkSizes \cup {0}
    BY Constants DEF SegType
  <2> QED
    BY <2>1 DEF NewConn, ConnType, States
<1>3. a \in AppType /\ ~a.late /\ a.final = 0 /\ a.delivered = <<>>
  <2>1. 0 \in 0 .. AppData /\ <<>> \in Seq(Int) /\ m.app.lost \in BOOLEAN
    BY Constants DEF Machines, AppType
  <2> QED
    BY <2>1 DEF NewApp, AppType
<1>4. x \in SentType /\ x.kind = "SYNACK"
  <2> HIDE DEF k
  <2>1. s.seq \in Int /\ k.seq \in Seqs
    BY <1>2 DEF SegType, Seqs, ConnType
  <2>2. SeqAdd(s.seq, 1) \in Seqs
    BY <2>1, SeqAddTyped
  <2> QED
    BY <2>1, <2>2 DEF SentType
<1> HIDE DEF k, a, x
<1> QED
  BY <1>1, <1>2, <1>3, <1>4 DEF Machines, Told, Created

\* What mtk_receive_tcp leaves of the machine m
Answered(m, s, new) ==
  \/ Quiet(m, new) /\ (new = m \/ new.c.dying)
  \/ Created(s, new)
  \/ ~m.c.dying /\ Heard(m, s, new)

LEMMA ReceiveTold ==
  ASSUME NEW m \in Machines, Told(m), NEW s \in SegType,
         NEW r1 \in Reactions, NEW r2 \in Reactions
  PROVE  LET new == Receive(m, s, r1, r2)
         IN  new \in Machines /\ Told(new) /\ Answered(m, s, new)
<1> DEFINE syn == s.syn /\ ~s.ackbit
           old == syn /\ Conn /\ m.c.status \notin {"SYN_SENT", "SYN_RCVD"}
           m1  == IF old THEN Zombify(SendCtl(m, "RST", m.c.pseq)) ELSE m
           new == Receive(m, s, r1, r2)
           Goal == new \in Machines /\ Told(new) /\ Answered(m, s, new)
<1> SUFFICES Goal
  OBVIOUS
<1>1. m1 \in Machines /\ Told(m1) /\ Quiet(m, m1) /\ IF old THEN m1.c.dying ELSE m1 = m
  <2>1. CASE old
    <3> DEFINE rst == SendCtl(m, "RST", m.c.pseq)
    <3>1. rst \in Machines /\ Quiet(m, rst) /\ rst.app = m.app
      BY RstQuiet DEF Machines, ConnType
    <3> HIDE DEF rst
    <3>2. LET z == Zombify(rst)
          IN  /\ z \in Machines /\ Quiet(rst, z) /\ z.c.dying
              /\ z.app.late = rst.app.late /\ z.app.final = rst.app.final
      BY <3>1, ZombifyFields
    <3>3. m1 = Zombify(rst)
      BY <2>1 DEF rst
    <3>4. Told(Zombify(rst))
      BY <3>1, <3>2 DEF Told, Machines, AppType
    <3> QED
      BY <3>1, <3>2, <3>3, <3>4, QuietTwice
  <2> QED
    BY <2>1, QuietSame
<1>2. ~m1.c.dying => ~old /\ m1 = m
  BY <1>1
<1>3. /\ m1.c.dying => new = IF syn /\ listen THEN Create(m1, s) ELSE m1
      /\ ~m1.c.dying /\ s.rst => new = IF m.c.status = "SYN_RCVD" THEN Zombify(m) ELSE Finish(m)
      /\ ~m1.c.dying /\ ~s.rst => new = Segment(m, s, r1, r2)
  BY <1>2 DEF Receive
<1> HIDE DEF m1, new
<1>4. CASE m1.c.dying
  BY <1>1, <1>3, <1>4, CreateFields DEF Answered
<1>5. CASE ~m1.c.dying /\ s.rst
  BY <1>2, <1>3, <1>5, AliveZombify, AliveFinish DEF Answered
<1>6. CASE ~m1.c.dying /\ ~s.rst
  BY <1>2, <1>3, <1>6, AliveSegment DEF Answered
<1> QED
  BY <1>4, <1>5, <1>6

----------------------------------------------------------------------------
(* mtk_tcp_conn_check                                                       *)

WorkType == [c : ConnType, seq : Seqs, off : Int, len : Nat, quit : BOOLEAN]

\* The work so far is on the sending side alone
Kept(w, new) ==
  /\ new \in WorkType
  /\ new.c.status = w.c.status /\ new.c.pseq = w.c.pseq /\ new.c.dying = w.c.dying

LEMMA KeptTwice ==
  ASSUME NEW w, NEW v, NEW u, Kept(w, v), Kept(v, u)
  PROVE  Kept(w, u)
BY DEF Kept

LEMMA RestTyped ==
  ASSUME NEW k \in ConnType, NEW n \in Int
  PROVE  Rest(k, n) \in Nat
<1>1. k.txlen \in Nat /\ Mss \in Nat
  BY Constants DEF ConnType
<1> QED
  BY <1>1 DEF Rest, Least

LEMMA PayloadTyped ==
  ASSUME NEW k \in ConnType, NEW n \in Int
  PROVE  Payload(k, n) \in Int
BY DEF Payload, ConnType

LEMMA LensTyped ==
  ASSUME NEW k \in ConnType
  PROVE  SentLen(k) \in Int /\ AckedLen(k) \in Int
<1>1. k.seq \in Int /\ k.last \in Int /\ k.acked \in Int
  BY DEF ConnType, Seqs
<1> QED
  BY <1>1, SeqSubTyped DEF SentLen, AckedLen

LEMMA SendNewKept ==
  ASSUME NEW w \in WorkType
  PROVE  Kept(w, SendNew(w))
<1> DEFINE k == w.c  n == Rest(k, SentLen(k))  q == SeqAdd(k.seq, n)  o == Payload(k, SentLen(k))
           v == k.wnd - n  j == [k EXCEPT !.seq = q, !.wnd = v, !.ackFlag = TRUE]
<1>1. k \in ConnType /\ n \in Nat /\ q \in Seqs /\ o \in Int /\ v \in Int
  <2>1. k \in ConnType /\ SentLen(k) \in Int /\ k.seq \in Int
    BY LensTyped DEF WorkType, ConnType, Seqs
  <2>2. n \in Nat /\ o \in Int
    BY <2>1, RestTyped, PayloadTyped
  <2>3. v \in Int
    BY <2>1, <2>2 DEF ConnType
  <2> QED
    BY <2>1, <2>2, <2>3, SeqAddTyped
<1>2. SendNew(w) \in {[w EXCEPT !.c.zw = TRUE], [w EXCEPT !.c = j, !.off = o, !.len = n]}
  BY DEF SendNew
<1> HIDE DEF n, q, o, v
<1>3. j \in ConnType /\ j.status = k.status /\ j.pseq = k.pseq /\ j.dying = k.dying
  BY <1>1 DEF ConnType
<1> HIDE DEF j
<1>4. Kept(w, [w EXCEPT !.c = j, !.off = o, !.len = n])
  BY <1>1, <1>3 DEF Kept, WorkType
<1>5. Kept(w, [w EXCEPT !.c.zw = TRUE])
  BY DEF Kept, WorkType, ConnType
<1> QED
  BY <1>2, <1>4, <1>5

LEMMA ResendKept ==
  ASSUME NEW w \in WorkType
  PROVE  Kept(w, Resend(w))
<1> DEFINE k == w.c  n == Rest(k, AckedLen(k))  o == Payload(k, AckedLen(k))
           r == [w EXCEPT !.seq = k.acked, !.off = o, !.len = n,
                          !.c.ackFlag = TRUE, !.c.wait = TRUE]
<1>1. k \in ConnType /\ n \in Nat /\ o \in Int /\ k.acked \in Seqs
  <2>1. k \in ConnType /\ AckedLen(k) \in Int /\ k.acked \in Seqs
    BY LensTyped DEF WorkType, ConnType
  <2> QED
    BY <2>1, RestTyped, PayloadTyped
<1>2. Resend(w) \in {[w EXCEPT !.seq = k.acked], r}
  BY DEF Resend
<1> HIDE DEF n, o
<1>3. Kept(w, r)
  BY <1>1 DEF Kept, WorkType, ConnType
<1>4. Kept(w, [w EXCEPT !.seq = k.acked])
  BY <1>1 DEF Kept, WorkType
<1> QED
  BY <1>2, <1>3, <1>4

LEMMA TransmitKept ==
  ASSUME NEW w \in WorkType, NEW late \in Elapsed
  PROVE  Kept(w, Transmit(w, late))
<1>1. Transmit(w, late) \in {SendNew(w), [w EXCEPT !.quit = TRUE],
                             [w EXCEPT !.c.rexmit = TRUE, !.c.wait = FALSE], w}
  BY DEF Transmit
<1>2. Kept(w, [w EXCEPT !.quit = TRUE]) /\ Kept(w, w)
      /\ Kept(w, [w EXCEPT !.c.rexmit = TRUE, !.c.wait = FALSE])
  BY DEF Kept, WorkType, ConnType
<1> QED
  BY <1>1, <1>2, SendNewKept

LEMMA RetransmitKept ==
  ASSUME NEW w \in WorkType, NEW late \in Elapsed
  PROVE  Kept(w, Retransmit(w, late))
<1>1. Retransmit(w, late) \in {w, Resend(w), [w EXCEPT !.quit = TRUE], [w EXCEPT !.quit = FALSE]}
  BY DEF Retransmit
<1>2. Kept(w, [w EXCEPT !.quit = TRUE]) /\ Kept(w, w) /\ Kept(w, [w EXCEPT !.quit = FALSE])
  BY DEF Kept, WorkType, ConnType
<1> QED
  BY <1>1, <1>2, ResendKept

LEMMA ProbeKept ==
  ASSUME NEW w \in WorkType, NEW old \in ConnType, NEW late \in Elapsed
  PROVE  Kept(w, Probe(w, old, late))
<1> DEFINE k == w.c  o == Payload(k, AckedLen(k))
           q == IF k.seq = k.acked THEN SeqAdd(k.seq, 1) ELSE k.seq
           r == [w EXCEPT !.seq = k.acked, !.off = o, !.len = 1, !.c.ackFlag = TRUE, !.c.seq = q]
<1>1. o \in Int /\ k.acked \in Seqs /\ q \in Seqs
  <2>1. k \in ConnType /\ AckedLen(k) \in Int /\ k.acked \in Seqs /\ k.seq \in Int /\ k.seq \in Seqs
    BY LensTyped DEF WorkType, ConnType, Seqs
  <2> QED
    BY <2>1, PayloadTyped, SeqAddTyped
<1>2. Probe(w, old, late) \in {w, [w EXCEPT !.quit = TRUE], r, [w EXCEPT !.c.zw = TRUE]}
  <2>1. r = [w EXCEPT !.seq = k.acked, !.off = o, !.len = 1, !.c.ackFlag = TRUE,
                      !.c.seq = IF @ = k.acked THEN SeqAdd(@, 1) ELSE @]
    BY DEF WorkType, ConnType
  <2> HIDE DEF r
  <2> QED
    BY <2>1 DEF Probe
<1> HIDE DEF o, q
<1>3. Kept(w, r)
  BY <1>1 DEF Kept, WorkType, ConnType
<1>4. Kept(w, [w EXCEPT !.quit = TRUE]) /\ Kept(w, w) /\ Kept(w, [w EXCEPT !.c.zw = TRUE])
  BY DEF Kept, WorkType, ConnType
<1> QED
  BY <1>2, <1>3, <1>4

\* Nothing was received, and what was acknowledged is what was expected or, once
\* the peer closed, one more
Replied(m, new) ==
  /\ new.c.pseq = m.c.pseq /\ new.app.delivered = m.app.delivered
  /\ \/ new.c.status = m.c.status
     \/ m.c.status = "CONNECT" /\ new.c.status = "SYN_SENT"
     \/ m.c.status = "ESTABLISHED" /\ new.c.status = "FIN_WAIT_1"
     \/ m.c.status = "CLOSE_WAIT" /\ new.c.status = "LAST_ACK"
  /\ \A x \in new.wire :
       \/ x \in m.wire
       \/ x.kind \notin {"ACK", "FIN"}
       \/ m.c.status \notin Handshake /\ x.ack = m.c.pseq
       \/ m.c.status \in {"CLOSE_WAIT", "LAST_ACK", "TIME_WAIT"} /\ x.ack = SeqAdd(m.c.pseq, 1)

LEMMA QuietReplied ==
  ASSUME NEW m, NEW new, Quiet(m, new)
  PROVE  Replied(m, new)
BY DEF Quiet, Replied

LEMMA RepliedQuiet ==
  ASSUME NEW m, NEW k, NEW new, Replied(m, k), Quiet(k, new)
  PROVE  Replied(m, new)
BY DEF Quiet, Replied

LEMMA QuietThenReplied ==
  ASSUME NEW m, NEW k, NEW new, Quiet(m, k), Replied(k, new)
  PROVE  Replied(m, new)
BY DEF Quiet, Replied

LEMMA AliveGiveUp ==
  ASSUME NEW m \in Machines, Told(m), ~m.c.dying
  PROVE  GiveUp(m) \in Machines /\ Told(GiveUp(m)) /\ Quiet(m, GiveUp(m))
<1> DEFINE rst == SendCtl(m, "RST", m.c.pseq)
<1>1. rst \in Machines /\ Quiet(m, rst) /\ rst.c = m.c /\ rst.app = m.app
  BY RstQuiet DEF Machines, ConnType
<1>2. GiveUp(m) \in {Zombify(Ended(Noted(rst))), Zombify(rst)}
  BY DEF GiveUp
<1> HIDE DEF rst
<1>3. Told(rst) /\ ~rst.c.dying
  BY <1>1 DEF Told
<1>4. LET n == Zombify(Ended(Noted(rst))) IN n \in Machines /\ Told(n) /\ Quiet(rst, n)
  BY <1>1, <1>3, AliveTold
<1>5. LET n == Zombify(rst) IN n \in Machines /\ Told(n) /\ Quiet(rst, n)
  BY <1>1, <1>3, AliveZombify
<1> QED
  BY <1>1, <1>2, <1>4, <1>5, QuietTwice

\* Sending a segment, alive
LEMMA AliveSendCtl ==
  ASSUME NEW m \in Machines, Told(m), NEW kind \in {"RST", "SYN", "SYNACK", "ACK", "FIN"},
         NEW ack \in Seqs,
         \/ kind \notin {"ACK", "FIN"}
         \/ m.c.status \notin Handshake /\ ack = m.c.pseq
         \/ m.c.status \in {"CLOSE_WAIT", "LAST_ACK", "TIME_WAIT"} /\ ack = SeqAdd(m.c.pseq, 1)
  PROVE  LET new == SendCtl(m, kind, ack)
         IN  /\ new \in Machines /\ Told(new) /\ Replied(m, new)
             /\ new.c = m.c /\ new.app = m.app
<1> DEFINE s == [kind |-> kind, seq |-> m.c.seq, ack |-> ack, off |-> 0, len |-> 0]
           new == SendCtl(m, kind, ack)
<1>1. new \in Machines /\ new.c = m.c /\ new.app = m.app /\ new.wire = m.wire \cup {s}
  <2>1. s \in SentType
    BY DEF Machines, ConnType, SentType
  <2> QED
    BY <2>1 DEF SendCtl, Send, Machines
<1>2. s.kind = kind /\ s.ack = ack
  OBVIOUS
<1> HIDE DEF s, new
<1>3. Told(new) /\ Replied(m, new)
  BY <1>1, <1>2 DEF Told, Replied
<1> QED
  BY <1>1, <1>3 DEF new

LEMMA StatusReplied ==
  ASSUME NEW m \in Machines, Told(m), NEW status \in States,
         \/ m.c.status = "CONNECT" /\ status = "SYN_SENT"
         \/ m.c.status = "ESTABLISHED" /\ status = "FIN_WAIT_1"
         \/ m.c.status = "CLOSE_WAIT" /\ status = "LAST_ACK",
         NEW old, Replied(old, m), old.c.status = m.c.status
  PROVE  LET new == [m EXCEPT !.c.status = status]
         IN  new \in Machines /\ Told(new) /\ Replied(old, new) /\ new.c.dying = m.c.dying
<1> DEFINE k == [m.c EXCEPT !.status = status]  new == [m EXCEPT !.c = k]
<1>1. [m EXCEPT !.c.status = status] = new
  OBVIOUS
<1>2. k \in ConnType /\ k.status = status /\ k.pseq = m.c.pseq /\ k.dying = m.c.dying
  BY NextStatus DEF Machines
<1> HIDE DEF k
<1>3. new \in Machines /\ Told(new) /\ new.c = k /\ new.app = m.app /\ new.wire = m.wire
  BY <1>2, AliveStatus
<1> HIDE DEF new
<1>4. Replied(old, new)
  BY <1>2, <1>3 DEF Replied
<1> QED
  BY <1>1, <1>2, <1>3, <1>4

LEMMA AliveClosing ==
  ASSUME NEW m \in Machines, Told(m), ~m.c.dying, m.c.status = "ESTABLISHED",
         NEW old, Replied(old, m), old.c.status = m.c.status
  PROVE  Closing(m) \in Machines /\ Told(Closing(m)) /\ Replied(old, Closing(m))
<1> DEFINE fin == SendCtl(m, "FIN", m.c.pseq)
           w   == [fin EXCEPT !.c.status = "FIN_WAIT_1"]
<1>1. Closing(m) \in {m, Noted(w)}
  BY DEF Closing
<1>2. /\ fin \in Machines /\ Told(fin) /\ Replied(m, fin) /\ fin.c = m.c /\ fin.app = m.app
  <2>1. m.c.pseq \in Seqs /\ m.c.status \notin Handshake
    BY DEF Machines, ConnType, Handshake
  <2> QED
    BY <2>1, AliveSendCtl
<1> HIDE DEF fin
<1>3. Replied(old, fin)
  BY <1>2 DEF Replied
<1>4. w \in Machines /\ Told(w) /\ Replied(old, w) /\ w.c.dying = fin.c.dying
  <2>1. "FIN_WAIT_1" \in States
    BY DEF States
  <2> QED
    BY <1>2, <1>3, <2>1, StatusReplied
<1> HIDE DEF w
<1>5. Noted(w) \in Machines /\ Told(Noted(w)) /\ Quiet(w, Noted(w))
  BY <1>2, <1>4, AliveNoted
<1> QED
  BY <1>1, <1>4, <1>5, RepliedQuiet

LEMMA AliveCheckEstablished ==
  ASSUME NEW m \in Machines, Told(m), ~m.c.dying, m.c.status = "ESTABLISHED",
         NEW late \in Elapsed
  PROVE  LET new == CheckEstablished(m, late)
         IN  new \in Machines /\ Told(new) /\ Replied(m, new)
<1> DEFINE w0 == Work(m.c)  w1 == Transmit(w0, late)  w2 == Retransmit(w1, late)
           w  == Probe(w2, m.c, late)
           j  == [w.c EXCEPT !.ackFlag = FALSE]
           at == [m EXCEPT !.c = j]
           on == [m EXCEPT !.c = w.c]
           put == Send(at, "ACK", w.seq, w.c.pseq, w.off, w.len)
           x  == [kind |-> "ACK", seq |-> w.seq, ack |-> w.c.pseq, off |-> w.off, len |-> w.len]
           new == CheckEstablished(m, late)
<1>1. new = IF w.quit THEN GiveUp(on) ELSE Closing(IF w.c.ackFlag THEN put ELSE at)
  BY DEF CheckEstablished
<1>2. m.c \in ConnType /\ w0 \in WorkType /\ w0.c = m.c
  BY DEF Work, WorkType, Machines, ConnType
<1>3. Kept(w0, w)
  <2> HIDE DEF w0
  <2>1. Kept(w0, w1)
    BY <1>2, TransmitKept
  <2> HIDE DEF w1
  <2>2. w1 \in WorkType /\ Kept(w1, w2)
    BY <2>1, RetransmitKept DEF Kept
  <2> HIDE DEF w2
  <2>3. w2 \in WorkType /\ Kept(w2, w)
    BY <1>2, <2>2, ProbeKept DEF Kept
  <2> QED
    BY <2>1, <2>2, <2>3, KeptTwice
<1>4. w \in WorkType /\ w.c \in ConnType /\ w.c.status = "ESTABLISHED"
      /\ w.c.pseq = m.c.pseq /\ w.c.dying = m.c.dying
  BY <1>2, <1>3 DEF Kept, WorkType
<1> HIDE DEF w0, w1, w2, w, new
<1>5. j \in ConnType /\ j.status = "ESTABLISHED" /\ j.pseq = m.c.pseq /\ j.dying = m.c.dying
  BY <1>4 DEF ConnType
<1> HIDE DEF j
<1>6. at \in Machines /\ Told(at) /\ at.c = j /\ at.app = m.app /\ at.wire = m.wire
  BY <1>5, AliveStatus
<1>7. on \in Machines /\ Told(on) /\ on.c = w.c /\ on.app = m.app /\ on.wire = m.wire
  BY <1>4, AliveStatus
<1> HIDE DEF at, on
<1>8. put \in Machines /\ put.c = j /\ put.app = m.app /\ put.wire = m.wire \cup {x}
  <2>1. w.seq \in Seqs /\ w.c.pseq \in Seqs /\ w.off \in Int /\ w.len \in Nat
    BY <1>4 DEF WorkType, ConnType
  <2>2. x \in SentType
    BY <2>1 DEF SentType
  <2> QED
    BY <1>6, <2>2 DEF Send, Machines
<1>9. x.ack = m.c.pseq
  BY <1>4
<1> HIDE DEF put, x
<1>10. m.c.status \notin Handshake
  BY DEF Handshake
<1>11. Told(put) /\ Replied(m, put)
  BY <1>5, <1>8, <1>9, <1>10 DEF Told, Replied
<1>12. Replied(m, at) /\ Replied(m, on)
  BY <1>4, <1>5, <1>6, <1>7 DEF Replied
<1>13. CASE w.quit
  <2>1. GiveUp(on) \in Machines /\ Told(GiveUp(on)) /\ Quiet(on, GiveUp(on))
    BY <1>4, <1>7, AliveGiveUp
  <2> QED
    BY <1>1, <1>12, <1>13, <2>1, RepliedQuiet DEF new
<1>14. CASE ~w.quit
  <2> DEFINE a == IF w.c.ackFlag THEN put ELSE at
  <2>1. /\ a \in Machines /\ Told(a) /\ Replied(m, a)
        /\ ~a.c.dying /\ a.c.status = "ESTABLISHED"
    BY <1>5, <1>6, <1>8, <1>11, <1>12
  <2>2. new = Closing(a)
    BY <1>1, <1>14
  <2> HIDE DEF a
  <2>3. Closing(a) \in Machines /\ Told(Closing(a)) /\ Replied(m, Closing(a))
    BY <2>1, AliveClosing
  <2> QED
    BY <2>2, <2>3 DEF new
<1> QED
  BY <1>13, <1>14

LEMMA AliveTimed ==
  ASSUME NEW m \in Machines, Told(m), ~m.c.dying, NEW late \in Elapsed,
         NEW again \in Machines, Told(again), Replied(m, again)
  PROVE  LET new == Timed(m, late, again)
         IN  new \in Machines /\ Told(new) /\ Replied(m, new)
<1>1. Timed(m, late, again) \in {GiveUp(m), again, m}
  BY DEF Timed, Elapsed
<1> QED
  BY <1>1, AliveGiveUp, QuietReplied, QuietSame

LEMMA AliveConnCheck ==
  ASSUME NEW m \in Machines, Told(m), ~m.c.dying, NEW late \in Elapsed
  PROVE  LET new == ConnCheck(m, late)
         IN  new \in Machines /\ Told(new) /\ Replied(m, new)
<1> DEFINE k   == m.c
           end == SeqAdd(k.pseq, 1)
           syn == SendCtl(m, "SYN", k.pseq)
           new == ConnCheck(m, late)
           Goal == new \in Machines /\ Told(new) /\ Replied(m, new)
<1> SUFFICES Goal
  OBVIOUS
<1>0. k.status \in States /\ k.pseq \in Seqs /\ end \in Seqs
  <2>1. k.pseq \in Int
    BY DEF Machines, ConnType, Seqs
  <2> QED
    BY <2>1, SeqAddTyped DEF Machines, ConnType
<1> HIDE DEF end
<1>1. syn \in Machines /\ Told(syn) /\ Replied(m, syn) /\ syn.c = m.c
  BY <1>0, AliveSendCtl
<1> HIDE DEF syn
<1>2. CASE k.status = "CONNECT"
  <2>1. new = [syn EXCEPT !.c.status = "SYN_SENT"]
    BY <1>2 DEF ConnCheck, syn
  <2>2. "SYN_SENT" \in States
    BY DEF States
  <2> QED
    BY <1>1, <1>2, <2>1, <2>2, StatusReplied
<1>3. CASE k.status = "SYN_SENT"
  <2>1. new = Timed(m, late, syn)
    BY <1>3 DEF ConnCheck, syn
  <2> QED
    BY <1>1, <2>1, AliveTimed
<1>4. CASE k.status = "SYN_RCVD"
  <2> DEFINE again == SendCtl(m, "SYNACK", end)
  <2>1. new = Timed(m, late, again)
    BY <1>4 DEF ConnCheck, end
  <2>2. again \in Machines /\ Told(again) /\ Replied(m, again)
    BY <1>0, AliveSendCtl
  <2> HIDE DEF again
  <2> QED
    BY <2>1, <2>2, AliveTimed
<1>5. CASE k.status = "ESTABLISHED"
  <2>1. new = CheckEstablished(m, late)
    BY <1>5 DEF ConnCheck
  <2> QED
    BY <1>5, <2>1, AliveCheckEstablished
<1>6. CASE k.status = "CLOSE_WAIT"
  <2> DEFINE fin == SendCtl(m, "FIN", end)
  <2>1. new = [fin EXCEPT !.c.status = "LAST_ACK"]
    BY <1>6 DEF ConnCheck, end
  <2>2. fin \in Machines /\ Told(fin) /\ Replied(m, fin) /\ fin.c = m.c
    BY <1>0, <1>6, AliveSendCtl DEF end
  <2>3. "LAST_ACK" \in States
    BY DEF States
  <2> HIDE DEF fin
  <2> QED
    BY <1>6, <2>1, <2>2, <2>3, StatusReplied
<1>7. CASE k.status = "LAST_ACK"
  <2> DEFINE fin == SendCtl(m, "FIN", end)
  <2>1. new = Timed(m, late, fin)
    BY <1>7 DEF ConnCheck, end
  <2>2. fin \in Machines /\ Told(fin) /\ Replied(m, fin)
    BY <1>0, <1>7, AliveSendCtl DEF end
  <2> HIDE DEF fin
  <2> QED
    BY <2>1, <2>2, AliveTimed
<1>8. CASE k.status = "FIN_WAIT_1"
  <2> DEFINE fin == SendCtl(m, "FIN", k.pseq)
  <2>1. new = Timed(m, late, fin)
    BY <1>8 DEF ConnCheck
  <2>2. fin \in Machines /\ Told(fin) /\ Replied(m, fin)
    BY <1>0, <1>8, AliveSendCtl DEF Handshake
  <2> HIDE DEF fin
  <2> QED
    BY <2>1, <2>2, AliveTimed
<1>9. CASE k.status \in {"FIN_WAIT_2", "CLOSING"}
  <2>1. new = Timed(m, late, m)
    BY <1>9 DEF ConnCheck
  <2> QED
    BY <2>1, AliveTimed, QuietSame, QuietReplied
<1>10. CASE k.status = "TIME_WAIT"
  <2> DEFINE ack == SendCtl(m, "ACK", end)
  <2>1. new = Finish(ack)
    BY <1>10 DEF ConnCheck, end
  <2>2. ack \in Machines /\ Told(ack) /\ Replied(m, ack) /\ ack.c = m.c
    BY <1>0, <1>10, AliveSendCtl DEF end
  <2> HIDE DEF ack
  <2>3. Finish(ack) \in Machines /\ Told(Finish(ack)) /\ Quiet(ack, Finish(ack))
    BY <2>2, AliveFinish
  <2> QED
    BY <2>1, <2>2, <2>3, RepliedQuiet
<1> QED
  BY <1>0, <1>2, <1>3, <1>4, <1>5, <1>6, <1>7, <1>8, <1>9, <1>10 DEF States

LEMMA AliveConnPoll ==
  ASSUME NEW m \in Machines, Told(m), ~m.c.dying, NEW r \in Reactions
  PROVE  LET new == ConnPoll(m, r)
         IN  new \in Machines /\ Told(new) /\ Quiet(m, new)
<1>2. Noted(m) \in Machines /\ Told(Noted(m)) /\ Quiet(m, Noted(m)) /\ ~Noted(m).c.dying
  BY AliveNoted
<1>3. LET n == React(Noted(m), r) IN n \in Machines /\ Told(n) /\ Quiet(Noted(m), n)
  BY <1>2, AliveReact
<1>4. ConnPoll(m, r) \in {m, React(Noted(m), r)}
  BY DEF ConnPoll
<1> QED
  BY <1>2, <1>3, <1>4, QuietTwice, QuietSame

----------------------------------------------------------------------------
(* The peer, and what it has in flight                                      *)

PeerType ==
  [st : {"idle", "synsent", "synrcvd", "open", "gone"}, sent : 0 .. PeerData + 1,
   acks : SUBSET Nat, ackOf : [1 .. PeerData + 1 -> Nat], rcvd : Seq(Int), fin : BOOLEAN]

\* Where a segment of the peer is in its stream
Placed(s) ==
  /\ s.len > 0 => /\ ~s.syn /\ s.off >= 1 /\ s.off + s.len <= PeerData + 1
                  /\ s.seq = PSeq(s.off - 1)
  /\ s.syn => s.seq = PeerIsn /\ s.len = 0 /\ (~s.ackbit => peer.st = "synsent")
  /\ s.fin => peer.sent = PeerData + 1

LEMMA NewPeerTyped ==
  ASSUME NEW st \in {"idle", "synsent", "synrcvd", "open", "gone"}
  PROVE  NewPeer(st) \in PeerType
<1>1. 0 \in 0 .. PeerData + 1 /\ {0} \in SUBSET Nat /\ <<>> \in Seq(Int)
      /\ [n \in 1 .. PeerData + 1 |-> 0] \in [1 .. PeerData + 1 -> Nat]
  BY Constants
<1> QED
  BY <1>1 DEF NewPeer, PeerType

LEMMA SeqTyped ==
  ASSUME NEW n \in Int
  PROVE  LSeq(n) \in Seqs /\ PSeq(n) \in Seqs
<1>1. LocalIsn + 1 \in Int /\ PeerIsn + 1 \in Int
  BY Constants DEF Seqs
<1> QED
  BY <1>1, SeqAddTyped DEF LSeq, PSeq

LEMMA SegmentPlaced ==
  ASSUME peer \in PeerType, NEW s \in Segments
  PROVE  /\ s \in SegType /\ Placed(s)
         /\ Bare(s) \in SegType /\ Placed(Bare(s))
<1>1. PICK t \in (0 .. PeerData) \X (0 .. PeerMss) \X BOOLEAN \X peer.acks \X Windows :
        CanSend(t[1], t[2], t[3], t[4]) /\ s = Seg(t[1] - t[2], t[2], t[3], t[4], t[5])
  BY DEF Segments
<1> DEFINE n == t[1]  len == t[2]  fin == t[3]  a == t[4]  w == t[5]
<1>2. n \in 0 .. PeerData /\ len \in Nat /\ fin \in BOOLEAN /\ a \in Nat /\ w \in Nat
  <2>1. /\ n \in 0 .. PeerData /\ len \in 0 .. PeerMss /\ fin \in BOOLEAN
        /\ a \in peer.acks /\ w \in Windows
    BY <1>1
  <2>2. peer.acks \subseteq Nat /\ Windows \subseteq Nat
    BY TcpAssumption DEF PeerType
  <2> HIDE DEF n, len, fin, a, w
  <2> QED
    BY <2>1, <2>2, Constants
<1>3. CanSend(n, len, fin, a) /\ s = Seg(n - len, len, fin, a, w)
  BY <1>1
<1> HIDE DEF n, len, fin, a, w
<1>4. len <= n /\ (fin => n = PeerData /\ peer.sent >= n + 1) /\ n - len \in Nat
  BY <1>2, <1>3 DEF CanSend
<1>5. fin => peer.sent = PeerData + 1
  BY <1>2, <1>4, Constants DEF PeerType
<1>6. /\ s \in SegType /\ Bare(s) \in SegType
      /\ \A x \in {s, Bare(s)} : /\ x.len = len /\ x.off = n - len + 1 /\ x.seq = PSeq(n - len)
                                 /\ ~x.syn /\ (x.fin <=> fin)
  <2> DEFINE i == n - len  p == PSeq(i)  l == LSeq(a)
  <2>1. p \in Seqs /\ l \in Seqs /\ i \in Nat
    BY <1>2, <1>4, SeqTyped
  <2>2. s = [syn |-> FALSE, rst |-> FALSE, fin |-> fin, ackbit |-> TRUE, seq |-> p,
             len |-> len, off |-> i + 1, ack |-> l, wnd |-> w]
    BY <1>3 DEF Seg
  <2> HIDE DEF i, p, l
  <2>3. s \in SegType
    BY <1>2, <2>1, <2>2 DEF SegType
  <2>4. Bare(s) \in SegType
    BY <2>3 DEF Bare, SegType
  <2>5. LET x == Bare(s)
        IN  x.len = len /\ x.off = i + 1 /\ x.seq = p /\ ~x.syn /\ (x.fin <=> fin)
    BY <2>2, <2>3 DEF Bare, SegType
  <2>6. s.len = len /\ s.off = i + 1 /\ s.seq = p /\ ~s.syn /\ (s.fin <=> fin)
    BY <2>2
  <2> QED
    BY <2>3, <2>4, <2>5, <2>6 DEF i, p
<1>7. \A x \in {s, Bare(s)} : Placed(x)
  <2> TAKE x \in {s, Bare(s)}
  <2>1. /\ x.len = len /\ x.off = n - len + 1 /\ x.seq = PSeq(n - len)
        /\ ~x.syn /\ (x.fin <=> fin)
    BY <1>6
  <2>2. x.off - 1 = n - len /\ x.off >= 1 /\ x.off + x.len <= PeerData + 1
    BY <1>2, <1>4, <2>1, Constants
  <2> QED
    BY <1>5, <2>1, <2>2 DEF Placed
<1> QED
  BY <1>6, <1>7

LEMMA FirstSegTyped ==
  /\ FirstSeg \in SegType /\ FirstSeg.len = 0 /\ FirstSeg.ackbit
  /\ ~FirstSeg.syn /\ ~FirstSeg.fin
<1> DEFINE w == CHOOSE w \in Windows : \A v \in Windows : v <= w
<1>1. w \in Nat
  BY TcpAssumption
<1>2. PSeq(0) \in Seqs /\ LSeq(0) \in Seqs
  BY SeqTyped
<1>3. FirstSeg
        = [syn |-> FALSE, rst |-> FALSE, fin |-> FALSE, ackbit |-> TRUE, seq |-> PSeq(0),
           len |-> 0, off |-> 1, ack |-> LSeq(0), wnd |-> w]
  BY DEF FirstSeg, Seg
<1> HIDE DEF w
<1> QED
  BY <1>1, <1>2, <1>3 DEF SegType

LEMMA InFlightPlaced ==
  ASSUME peer \in PeerType, NEW s \in InFlight
  PROVE  s \in SegType /\ Placed(s)
<1>0. peer.st \in {"idle", "synsent", "synrcvd", "open", "gone"}
  BY DEF PeerType
<1>1. CASE peer.st \in {"synsent", "synrcvd"}
  <2>1. s = IF peer.st = "synsent" THEN Bare(Syn) ELSE Syn
    BY <1>1 DEF InFlight
  <2>2. Syn \in SegType /\ Syn.len = 0 /\ Syn.ackbit /\ Syn.syn /\ ~Syn.fin /\ Syn.seq = PeerIsn
    BY FirstSegTyped, Constants DEF Syn, SegType
  <2>3. LET b == Bare(Syn)
        IN  b \in SegType /\ b.len = 0 /\ b.syn /\ ~b.fin /\ b.seq = PeerIsn
    BY <2>2 DEF Bare, SegType
  <2> QED
    BY <1>1, <2>1, <2>2, <2>3 DEF Placed
<1>2. CASE peer.st \in {"open", "gone"}
  <2>1. CASE s \in Segments
    BY <2>1, SegmentPlaced
  <2>2. CASE s \in {Bare(x) : x \in Segments}
    BY <2>2, SegmentPlaced
  <2>3. CASE s = [FirstSeg EXCEPT !.rst = TRUE]
    <3>1. s \in SegType /\ s.len = 0 /\ ~s.syn /\ ~s.fin
      BY <2>3, FirstSegTyped DEF SegType
    <3> QED
      BY <3>1 DEF Placed
  <2> QED
    BY <1>2, <2>1, <2>2, <2>3 DEF InFlight
<1> QED
  BY <1>0, <1>1, <1>2 DEF InFlight

----------------------------------------------------------------------------
(* The types, and the last callback                                         *)

Typed ==
  /\ Machine \in Machines /\ peer \in PeerType
  /\ listen \in BOOLEAN /\ conns \in 0 .. MaxConns

\* A connection that is parked is out of the list when its handler returns
Parked == c = NoConn \/ ~c.dying

IInv == Typed /\ Parked /\ Told(Machine)

LEMMA MachineIs == Machine.c = c /\ Machine.wire = wire /\ Machine.app = app
BY DEF Machine

LEMMA NewConnTyped ==
  ASSUME NEW status \in States, NEW pseq \in Seqs, NEW wnd \in Int, NEW pdata \in BOOLEAN
  PROVE  LET k == NewConn(status, pseq, wnd, pdata)
         IN  k \in ConnType /\ k.status = status /\ k.pseq = pseq /\ ~k.dying
<1>1. 0 \in Seqs /\ LocalIsn \in Seqs /\ 0 \in 0 .. AppData /\ 0 \in ChunkSizes \cup {0}
  BY Constants
<1> QED
  BY <1>1 DEF NewConn, ConnType

LEMMA NoConnTyped == NoConn \in ConnType /\ NoConn.status = "CONNECT" /\ NoConn.dying
<1> DEFINE k == NewConn("CONNECT", 0, 0, FALSE)
<1>1. k \in ConnType /\ k.status = "CONNECT"
  <2>1. "CONNECT" \in States /\ 0 \in Seqs /\ 0 \in Int /\ FALSE \in BOOLEAN
    BY Constants DEF States
  <2> QED
    BY <2>1, NewConnTyped
<1>2. NoConn = [k EXCEPT !.dying = TRUE]
  BY DEF NoConn
<1> HIDE DEF k
<1> QED
  BY <1>1, <1>2 DEF ConnType

LEMMA NewAppTyped == NewApp \in AppType /\ ~NewApp.late /\ NewApp.final = 0 /\ NewApp.delivered = <<>>
<1>1. 0 \in 0 .. AppData /\ <<>> \in Seq(Int)
  BY Constants
<1> QED
  BY <1>1 DEF NewApp, AppType

LEMMA ConnIsAlive ==
  ASSUME Parked
  PROVE  Conn <=> ~Machine.c.dying
BY NoConnTyped, MachineIs DEF Parked, Conn

LEMMA BecomeIs ==
  ASSUME NEW m \in Machines, Told(m), Become(m)
  PROVE  /\ Machine' \in Machines /\ Parked' /\ Told(Machine)'
         /\ Machine'.wire = m.wire /\ Machine'.app = m.app
         /\ Machine'.c = IF m.c.dying THEN NoConn ELSE m.c
<1> DEFINE k == IF m.c.dying THEN NoConn ELSE m.c
<1>1. Machine' = [c |-> k, wire |-> m.wire, app |-> m.app] /\ c' = k
  BY DEF Machine, Become
<1>2. k \in ConnType /\ k.dying = m.c.dying /\ (k = NoConn \/ ~k.dying)
  BY NoConnTyped DEF Machines, ConnType
<1> HIDE DEF k
<1>3. /\ Machine'.c = k /\ Machine'.wire = m.wire /\ Machine'.app = m.app
      /\ Machine' \in Machines
  BY <1>1, <1>2 DEF Machines
<1>4. Told(Machine)'
  BY <1>2, <1>3 DEF Told
<1>5. Parked'
  BY <1>1, <1>2 DEF Parked
<1> QED
  BY <1>3, <1>4, <1>5 DEF k

\* A step of the stack takes the machine to new, which was checked or answered
LEMMA CheckIs ==
  ASSUME IInv, NEW late \in Elapsed, Check(late)
  PROVE  \E new \in Machines :
           Told(new) /\ ~Machine.c.dying /\ Replied(Machine, new) /\ Become(new)
<1>1. Machine \in Machines /\ Told(Machine) /\ ~Machine.c.dying
  BY ConnIsAlive DEF IInv, Typed, Check
<1>2. PICK r \in Reactions : Become(Polled(Machine, r, late))
  BY DEF Check
<1> DEFINE p == ConnPoll(Machine, r)  new == Polled(Machine, r, late)
<1>3. p \in Machines /\ Told(p) /\ Quiet(Machine, p)
  BY <1>1, AliveConnPoll
<1>a. new = IF p.c.dying THEN p ELSE ConnCheck(p, late)
  BY DEF Polled
<1>5. Become(new)
  BY <1>2
<1> HIDE DEF p, new
<1>4. new \in Machines /\ Told(new) /\ Replied(p, new)
  <2>1. CASE p.c.dying
    BY <1>3, <1>a, <2>1, QuietSame, QuietReplied
  <2>2. CASE ~p.c.dying
    BY <1>3, <1>a, <2>2, AliveConnCheck
  <2> QED
    BY <2>1, <2>2
<1> QED
  BY <1>1, <1>3, <1>4, <1>5, QuietThenReplied

LEMMA ArriveIs ==
  ASSUME IInv, Arrive
  PROVE  \E s \in InFlight, new \in Machines :
           Told(new) /\ Answered(Machine, s, new) /\ Become(new)
<1>1. Nothing \in Reactions
  BY DEF Reactions
<1>2. PICK s \in InFlight, r1 \in Reactions, r2 \in Reactions : Become(Receive(Machine, s, r1, r2))
  BY <1>1 DEF Arrive
<1>3. Machine \in Machines /\ Told(Machine) /\ s \in SegType
  BY InFlightPlaced DEF IInv, Typed
<1> DEFINE new == Receive(Machine, s, r1, r2)
<1>4. new \in Machines /\ Told(new) /\ Answered(Machine, s, new)
  BY <1>3, ReceiveTold
<1>5. Become(new)
  BY <1>2
<1> HIDE DEF new
<1> QED
  BY <1>4, <1>5

LEMMA CloseAllIs ==
  ASSUME IInv, CloseAll
  PROVE  \E new \in Machines : /\ Told(new) /\ Become(new)
                               /\ new = Machine \/ (Quiet(Machine, new) /\ new.c.dying)
<1>1. Machine \in Machines /\ Told(Machine)
  BY DEF IInv, Typed
<1>2. CASE Conn
  <2>1. Become(Teardown(Machine))
    BY <1>2 DEF CloseAll
  <2>2. LET new == Teardown(Machine)
        IN  new \in Machines /\ Told(new) /\ Quiet(Machine, new) /\ new.c.dying
    BY <1>1, <1>2, ConnIsAlive, AliveTeardown DEF IInv
  <2> QED
    BY <2>1, <2>2
<1>3. CASE ~Conn
  BY <1>1, <1>3 DEF CloseAll
<1> QED
  BY <1>2, <1>3

LEMMA GotTyped == ASSUME peer \in PeerType PROVE Got \in Nat
BY DEF Got, PeerType

LEMMA SendUnitTyped ==
  ASSUME peer \in PeerType, peer.sent <= PeerData, SendUnit
  PROVE  /\ peer' \in PeerType /\ peer'.st = peer.st /\ peer'.sent = peer.sent + 1
<1> DEFINE g == Got  f == [peer.ackOf EXCEPT ![peer.sent + 1] = g]  n == peer.sent + 1
<1>1. g \in Nat /\ n \in 0 .. PeerData + 1 /\ peer.ackOf \in [1 .. PeerData + 1 -> Nat]
  BY GotTyped, Constants DEF PeerType
<1>2. f \in [1 .. PeerData + 1 -> Nat]
  BY <1>1
<1>3. peer' = [peer EXCEPT !.sent = n, !.ackOf = f]
  BY DEF SendUnit, PeerType
<1> HIDE DEF f, n
<1> QED
  BY <1>1, <1>2, <1>3 DEF PeerType, n

LEMMA PeerReceiveTyped ==
  ASSUME peer \in PeerType, Machine \in Machines, PeerReceive
  PROVE  peer' \in PeerType /\ peer'.st = "open" /\ peer'.sent = peer.sent
<1>1. PICK s \in wire :
        LET skip == SeqSub(LSeq(Got), s.seq)
            more == s.len - skip
        IN  \/ /\ s.kind = "ACK" /\ skip >= 0 /\ more > 0
               /\ peer' = [peer EXCEPT !.rcvd = @ \o Run(s.off + skip, more),
                                       !.acks = @ \cup {Got + more}]
            \/ /\ s.kind = "FIN" /\ skip = 0
               /\ peer' = [peer EXCEPT !.fin = TRUE, !.acks = @ \cup {Got + 1}]
  BY DEF PeerReceive
<1> DEFINE g == Got  skip == SeqSub(LSeq(Got), s.seq)  more == s.len - skip
           q == peer.rcvd \o Run(s.off + skip, more)
<1>2. g \in Nat /\ skip \in Int /\ s.off \in Int /\ s.len \in Nat
  <2>1. s \in SentType
    BY MachineIs DEF Machines
  <2>2. g \in Nat /\ s.seq \in Int
    BY <2>1, GotTyped DEF SentType, Seqs
  <2>3. LSeq(g) \in Int
    BY <2>2, SeqTyped DEF Seqs
  <2> QED
    BY <2>1, <2>2, <2>3, SeqSubTyped DEF SentType
<1>3. more > 0 => more \in Nat /\ q \in Seq(Int)
  <2> SUFFICES ASSUME more > 0 PROVE more \in Nat /\ q \in Seq(Int)
    OBVIOUS
  <2>1. more \in Nat
    BY <1>2
  <2>2. peer.rcvd \in Seq(Int) /\ s.off + skip \in Int
    BY <1>2 DEF PeerType
  <2> HIDE DEF more, skip
  <2> QED
    BY <2>1, <2>2, AppendRun
<1>4. \/ more > 0 /\ peer' = [peer EXCEPT !.rcvd = q, !.acks = @ \cup {g + more}]
      \/ peer' = [peer EXCEPT !.fin = TRUE, !.acks = @ \cup {g + 1}]
  BY <1>1
<1>5. peer.st = "open"
  BY DEF PeerReceive
<1> HIDE DEF g, q, more
<1>6. g + 1 \in Nat /\ (more > 0 => g + more \in Nat)
  BY <1>2, <1>3
<1>7. CASE more > 0 /\ peer' = [peer EXCEPT !.rcvd = q, !.acks = @ \cup {g + more}]
  <2>1. peer.acks \cup {g + more} \in SUBSET Nat
    BY <1>6, <1>7 DEF PeerType
  <2> QED
    BY <1>3, <1>5, <1>7, <2>1 DEF PeerType
<1>8. CASE peer' = [peer EXCEPT !.fin = TRUE, !.acks = @ \cup {g + 1}]
  <2>1. peer.acks \cup {g + 1} \in SUBSET Nat
    BY <1>6 DEF PeerType
  <2> QED
    BY <1>5, <1>8, <2>1 DEF PeerType
<1> QED
  BY <1>4, <1>7, <1>8

LEMMA ResetTyped ==
  ASSUME peer \in PeerType, NEW st \in {"idle", "synsent", "synrcvd", "open", "gone"},
         peer' = [peer EXCEPT !.st = st]
  PROVE  peer' \in PeerType /\ peer'.st = st /\ peer'.sent = peer.sent
BY DEF PeerType

\* mtk_tcp_connect leaves a connection of its own
LEMMA ConnectIs ==
  ASSUME IInv, Connect
  PROVE  /\ Machine' \in Machines /\ ~c'.dying /\ c'.status = "CONNECT"
         /\ wire' = {} /\ app'.delivered = <<>> /\ ~app'.late /\ app'.final = 0
         /\ peer' = NewPeer("idle") /\ peer' \in PeerType
<1>1. c' \in ConnType /\ ~c'.dying /\ c'.status = "CONNECT"
  <2>1. "CONNECT" \in States /\ 0 \in Seqs /\ 0 \in Int /\ TRUE \in BOOLEAN
    BY Constants DEF States
  <2>2. c' = NewConn("CONNECT", 0, 0, TRUE)
    BY DEF Connect
  <2> QED
    BY <2>1, <2>2, NewConnTyped
<1>2. app' \in AppType /\ app'.delivered = <<>> /\ ~app'.late /\ app'.final = 0
  <2>1. app.lost \in BOOLEAN
    BY MachineIs DEF IInv, Typed, Machines, AppType
  <2>2. app' = [NewApp EXCEPT !.born = TRUE, !.lost = app.lost]
    BY DEF Connect
  <2> QED
    BY <2>1, <2>2, NewAppTyped DEF AppType
<1>3. wire' = {} /\ peer' = NewPeer("idle") /\ peer' \in PeerType
  BY NewPeerTyped DEF Connect
<1>4. Machine' \in Machines
  BY <1>1, <1>2, <1>3 DEF Machine, Machines
<1> QED
  BY <1>1, <1>2, <1>3, <1>4

\* A step of the peer: the machine is as it was, and perhaps the wire is cleared
LEMMA PeerStep ==
  ASSUME IInv, PeerOpen \/ PeerHandshake \/ PeerSend \/ PeerClose \/ PeerReceive \/ PeerReset
  PROVE  /\ c' = c /\ app' = app /\ (wire' = wire \/ wire' = {})
         /\ Machine' \in Machines /\ Parked' /\ Told(Machine)' /\ peer' \in PeerType
<1>1. c' = c /\ app' = app /\ (wire' = wire \/ wire' = {})
  BY DEF PeerOpen, PeerHandshake, PeerSend, PeerClose, PeerReceive, PeerReset
<1>2. Machine' \in Machines
  BY <1>1 DEF IInv, Typed, Machine, Machines
<1>3. Parked'
  BY <1>1 DEF IInv, Parked
<1>4. Told(Machine)'
  BY <1>1 DEF IInv, Told, Machine
<1>5. CASE PeerOpen
  BY <1>1, <1>2, <1>3, <1>4, <1>5, NewPeerTyped DEF PeerOpen
<1>6. CASE PeerHandshake
  <2>1. peer' = NewPeer("synrcvd") \/ peer' = [peer EXCEPT !.st = "open"]
    BY <1>6 DEF PeerHandshake
  <2>2. peer' \in PeerType
    BY <2>1, NewPeerTyped, ResetTyped DEF IInv, Typed
  <2> QED
    BY <1>1, <1>2, <1>3, <1>4, <2>2
<1>7. CASE PeerSend \/ PeerClose
  <2>1. SendUnit /\ peer.sent <= PeerData
    BY <1>7, Constants DEF PeerSend, PeerClose, IInv, Typed, PeerType
  <2> QED
    BY <1>1, <1>2, <1>3, <1>4, <2>1, SendUnitTyped DEF IInv, Typed
<1>8. CASE PeerReceive
  BY <1>1, <1>2, <1>3, <1>4, <1>8, PeerReceiveTyped DEF IInv, Typed
<1>9. CASE PeerReset
  BY <1>1, <1>2, <1>3, <1>4, <1>9, ResetTyped DEF IInv, Typed, PeerReset
<1> QED
  BY <1>5, <1>6, <1>7, <1>8, <1>9

LEMMA InitIInv == Init => IInv
<1> SUFFICES ASSUME Init PROVE IInv
  OBVIOUS
<1>1. Machine \in Machines
  BY NoConnTyped, NewAppTyped DEF Init, Machine, Machines
<1>2. peer \in PeerType
  BY NewPeerTyped DEF Init
<1>3. listen \in BOOLEAN /\ conns \in 0 .. MaxConns
  BY TcpAssumption DEF Init
<1>4. Told(Machine)
  BY NoConnTyped, NewAppTyped, MachineIs DEF Init, Told
<1> QED
  BY <1>1, <1>2, <1>3, <1>4 DEF Init, IInv, Typed, Parked

LEMMA NextIInv == IInv /\ [Next]_vars => IInv'
<1> SUFFICES ASSUME IInv, [Next]_vars PROVE IInv'
  OBVIOUS
<1>1. Typed
  BY DEF IInv
<1>2. CASE PeriodicCheck
  <2>1. PICK late \in Elapsed : Check(late)
    BY <1>2 DEF PeriodicCheck
  <2>2. UNCHANGED <<peer, listen, conns>>
    BY <2>1 DEF Check
  <2> QED
    BY <1>1, <2>1, <2>2, CheckIs, BecomeIs DEF IInv, Typed
<1>3. CASE Connect
  <2>1. Told(Machine)' /\ Parked'
    BY <1>3, ConnectIs DEF Told, Parked, Machine
  <2>2. listen' \in BOOLEAN /\ conns' \in 0 .. MaxConns
    BY <1>1, <1>3, TcpAssumption DEF Connect, Typed
  <2> QED
    BY <1>3, <2>1, <2>2, ConnectIs DEF IInv, Typed
<1>4. CASE CloseAll
  <2>1. UNCHANGED <<peer, conns>> /\ listen' = FALSE
    BY <1>4 DEF CloseAll
  <2> QED
    BY <1>1, <1>4, <2>1, CloseAllIs, BecomeIs DEF IInv, Typed
<1>5. CASE Start
  BY <1>5 DEF Start, IInv, Typed, Parked, Told, Machine
<1>6. CASE Arrive
  <2>1. UNCHANGED <<peer, listen, conns>>
    BY <1>6 DEF Arrive
  <2> QED
    BY <1>1, <1>6, <2>1, ArriveIs, BecomeIs DEF IInv, Typed
<1>7. CASE PeerOpen \/ PeerHandshake \/ PeerSend \/ PeerClose \/ PeerReceive \/ PeerReset
  <2>1. listen' \in BOOLEAN /\ conns' \in 0 .. MaxConns
    <3>1. listen' = listen /\ (conns' = conns \/ (conns < MaxConns /\ conns' = conns + 1))
      BY <1>7 DEF PeerOpen, PeerHandshake, PeerSend, PeerClose, PeerReceive, PeerReset
    <3> QED
      BY <1>1, <3>1, TcpAssumption DEF Typed
  <2> QED
    BY <1>7, <2>1, PeerStep DEF IInv, Typed
<1>8. CASE UNCHANGED vars
  BY <1>8 DEF vars, IInv, Typed, Parked, Told, Machine
<1> QED
  BY <1>2, <1>3, <1>4, <1>5, <1>6, <1>7, <1>8 DEF Next

(* Every field of the connection and of the peer stays in its domain: the  *)
(* sequence numbers within 32 bits, the chunk one that the upper layer      *)
(* may send.                                                                *)
THEOREM TypeCorrect == Spec => []TypeOK
<1>1. IInv => TypeOK
  <2> SUFFICES ASSUME IInv PROVE TypeOK
    OBVIOUS
  <2>1. c \in ConnType /\ app \in AppType /\ peer \in PeerType
    BY MachineIs DEF IInv, Typed, Machines
  <2>2. c.status \in States /\ {c.pseq, c.seq, c.last, c.acked} \subseteq Seqs
        /\ c.tx \in 0 .. AppData /\ c.txlen \in ChunkSizes \cup {0}
    BY <2>1 DEF ConnType
  <2>3. app.sent \in 0 .. AppData /\ app.final \in Nat /\ peer.sent \in 0 .. PeerData + 1
    BY <2>1 DEF AppType, PeerType
  <2> QED
    BY <2>2, <2>3 DEF TypeOK, IInv, Typed, Seqs
<1> QED
  BY <1>1, InitIInv, NextIInv, PTL DEF Spec

(* Whatever closes or resets a connection (mtk_tcp_conn_finish, the limits  *)
(* of mtk_tcp_conn_check, an RST, mtk_tcp_close_all_conn), the upper layer  *)
(* is told of it at most once, and called for nothing afterwards.           *)
THEOREM ToldOnce == Spec => []NothingAfterFinal
<1>1. IInv => NothingAfterFinal
  BY MachineIs DEF IInv, Typed, Machines, AppType, Told, NothingAfterFinal
<1> QED
  BY <1>1, InitIInv, NextIInv, PTL DEF Spec

----------------------------------------------------------------------------
(* What is handed to the upper layer                                        *)

\* A connection carries less than half the sequence numbers: 2 GiB, more than
\* the memory an upload or a download is kept in
Fits == 2 * (PeerData + 1) < SeqMod

Count(m) == Len(m.app.delivered)

\* The upper layer has the first n units, and the next one is expected
At(m, n) ==
  n \in 0 .. PeerData /\ m.app.delivered = Stream(n) /\ m.c.pseq = PSeq(n)

\* The first units, and what the connection says of how many
Rx(m) ==
  /\ m.app.delivered = Stream(Count(m)) /\ Count(m) \in 0 .. PeerData
  /\ ~m.c.dying =>
       IF m.c.status \in Handshake
       THEN Count(m) = 0 /\ (m.c.status = "SYN_RCVD" => m.c.pseq = PeerIsn)
       ELSE m.c.pseq = PSeq(Count(m))

LEMMA StreamLen == ASSUME NEW n \in Nat PROVE Len(Stream(n)) = n /\ Stream(n) \in Seq(Int)
BY DEF Stream

LEMMA StreamNone == Stream(0) = <<>>
BY DEF Stream

LEMMA StreamMore ==
  ASSUME NEW n \in Nat, NEW k \in Nat
  PROVE  Stream(n) \o Run(n + 1, k) = Stream(n + k)
<1> DEFINE a == Stream(n)  b == Run(n + 1, k)
<1>1. /\ a \in Seq(Int) /\ b \in Seq(Int) /\ Len(a) = n /\ Len(b) = k
      /\ \A i \in 1 .. n : a[i] = i
      /\ \A i \in 1 .. k : b[i] = n + i
  BY DEF Stream, Run
<1> DEFINE f == [i \in 1 .. n + k |-> i]
<1>2. f \in Seq(Int) /\ Len(f) = n + k /\ \A i \in 1 .. n + k : f[i] = i
  OBVIOUS
<1>3. Stream(n + k) = f
  BY DEF Stream
<1> HIDE DEF a, b, f
<1>4. a \in Seq(Int) /\ b \in Seq(Int) /\ Len(a) = n /\ Len(b) = k
  BY <1>1
<1>5. /\ a \o b \in Seq(Int) /\ Len(a \o b) = n + k
      /\ \A i \in 1 .. n + k : (a \o b)[i] = IF i <= n THEN a[i] ELSE b[i - n]
  BY <1>4, ConcatProperties
<1>6. \A i \in 1 .. n + k : (a \o b)[i] = f[i]
  <2> TAKE i \in 1 .. n + k
  <2>1. CASE i <= n
    BY <1>1, <1>2, <1>5, <2>1
  <2>2. CASE i > n
    <3>1. i - n \in 1 .. k
      BY <2>2
    <3>2. b[i - n] = n + (i - n)
      BY <1>1, <3>1
    <3>3. (a \o b)[i] = b[i - n]
      BY <1>5, <2>2
    <3> QED
      BY <1>2, <3>2, <3>3
  <2>3. i <= n \/ i > n
    OBVIOUS
  <2> QED
    BY <2>1, <2>2, <2>3
<1> QED
  BY <1>2, <1>3, <1>5, <1>6, SeqEqual DEF a, b

LEMMA PSeqMore ==
  ASSUME NEW n \in Int, NEW k \in Int
  PROVE  SeqAdd(PSeq(n), k) = PSeq(n + k)
<1>1. PeerIsn + 1 \in Int
  BY Constants DEF Seqs
<1> QED
  BY <1>1, SeqAddTwice DEF PSeq

LEMMA PSeqDistance ==
  ASSUME Fits, NEW i \in 0 .. PeerData + 1, NEW j \in 0 .. PeerData + 1
  PROVE  SeqSub(PSeq(i), PSeq(j)) = i - j
<1>1. PeerIsn + 1 \in Int /\ i \in Int /\ j \in Int
  BY Constants DEF Seqs
<1>2. 2 * (i - j) < SeqMod /\ 2 * (j - i) < SeqMod
  BY Constants DEF Fits
<1> QED
  BY <1>1, <1>2, Distance DEF PSeq

LEMMA PSeqFirst == PSeq(0) = SeqAdd(PeerIsn, 1)
BY Constants DEF PSeq, SeqAdd, Seqs

(* What is left of a segment once what was received is cut off continues    *)
(* the stream.                                                              *)
LEMMA NewDataContinues ==
  ASSUME Fits, NEW k \in ConnType, NEW d \in 0 .. PeerData, k.pseq = PSeq(d),
         NEW s \in SegType, Placed(s)
  PROVE  LET n == NewData(k, s)
         IN  n = 0 \/ (n > 0 /\ s.off + s.len - n = d + 1 /\ d + n <= PeerData)
<1> DEFINE n == NewData(k, s)
           ahead == SeqSub(s.seq, k.pseq)
           end   == SeqSub(SeqAdd(s.seq, s.len), k.pseq)
<1>1. n = IF ahead = 0 THEN s.len ELSE IF ahead < 0 /\ end > 0 THEN end ELSE 0
  BY DEF NewData
<1>2. ahead \in Int /\ end \in Int /\ s.len \in Nat /\ s.off \in Nat
  <2>1. s.seq \in Int /\ s.len \in Nat /\ k.pseq \in Int /\ s.off \in Nat
    BY DEF SegType, ConnType, Seqs
  <2>2. SeqAdd(s.seq, s.len) \in Int
    <3>1. s.len \in Int
      BY <2>1
    <3>2. SeqAdd(s.seq, s.len) \in Seqs
      BY <2>1, <3>1, SeqAddTyped
    <3> QED
      BY <3>2 DEF Seqs
  <2> QED
    BY <2>1, <2>2, SeqSubTyped
<1>3. CASE s.len = 0
  <2>1. end = ahead
    BY <1>3, SeqAddZero DEF SegType
  <2> HIDE DEF n, ahead, end
  <2> QED
    BY <1>1, <1>2, <1>3, <2>1 DEF n
<1>4. CASE s.len > 0
  <2> DEFINE a == s.off - 1  b == a + s.len
  <2>1. a \in 0 .. PeerData + 1 /\ a + s.len \in 0 .. PeerData + 1 /\ s.seq = PSeq(a)
        /\ a + s.len <= PeerData /\ d \in 0 .. PeerData + 1
    BY <1>2, <1>4, Constants DEF Placed
  <2>2. ahead = a - d
    BY <2>1, PSeqDistance
  <2>3. end = a + s.len - d
    <3>1. a \in Int /\ s.len \in Int
      BY <1>2, <2>1
    <3>2. b = a + s.len /\ b \in 0 .. PeerData + 1
      BY <2>1
    <3> HIDE DEF a, b
    <3>3. SeqAdd(s.seq, s.len) = PSeq(b)
      BY <2>1, <3>1, <3>2, PSeqMore
    <3>4. SeqSub(PSeq(b), PSeq(d)) = b - d
      BY <2>1, <3>2, PSeqDistance
    <3> QED
      BY <1>2, <3>1, <3>2, <3>3, <3>4
  <2> HIDE DEF n, ahead, end
  <2> QED
    BY <1>1, <1>2, <1>4, <2>1, <2>2, <2>3 DEF n
<1> QED
  BY <1>2, <1>3, <1>4

LEMMA TookAt ==
  ASSUME Fits, NEW m \in Machines, NEW d \in 0 .. PeerData, At(m, d),
         NEW s \in SegType, Placed(s), NEW new, Took(m, NewData(m.c, s), s, new)
  PROVE  \E e \in d .. PeerData : At(new, e)
<1> DEFINE n == NewData(m.c, s)  first == s.off + s.len - n
<1>0. d \in 0 .. PeerData /\ m.c \in ConnType /\ m.c.pseq = PSeq(d) /\ m.app.delivered = Stream(d)
  BY DEF At, Machines
<1>1. n \in Nat
  BY <1>0, NewDataTyped
<1>2. n = 0 \/ (n > 0 /\ first = d + 1 /\ d + n <= PeerData)
  BY <1>0, NewDataContinues
<1>3. IF n = 0 THEN new.c.pseq = m.c.pseq /\ new.app.delivered = m.app.delivered
      ELSE /\ new.c.pseq = SeqAdd(m.c.pseq, n)
           /\ new.app.delivered = m.app.delivered \o Run(first, n)
  BY DEF Took
<1> HIDE DEF n, first
<1>4. CASE n = 0
  BY <1>0, <1>3, <1>4 DEF At
<1>5. CASE n > 0
  <2>1. new.c.pseq = PSeq(d + n) /\ new.app.delivered = Stream(d + n)
    <3>1. d \in Nat /\ d \in Int /\ n \in Nat /\ n \in Int
      BY <1>1
    <3>2. SeqAdd(PSeq(d), n) = PSeq(d + n)
      BY <3>1, PSeqMore
    <3>3. Stream(d) \o Run(d + 1, n) = Stream(d + n)
      BY <3>1, StreamMore
    <3>4. n # 0 /\ first = d + 1
      BY <1>2, <1>5, <3>1
    <3>5. /\ new.c.pseq = SeqAdd(m.c.pseq, n)
          /\ new.app.delivered = m.app.delivered \o Run(first, n)
      BY <1>3, <3>4
    <3> QED
      BY <1>0, <3>2, <3>3, <3>4, <3>5
  <2>2. d + n \in d .. PeerData /\ d + n \in 0 .. PeerData
    BY <1>0, <1>1, <1>2, <1>5
  <2> QED
    BY <2>1, <2>2 DEF At
<1> QED
  BY <1>1, <1>4, <1>5

\* What became of the machine m that was at d: it is at e, established or closed
Advanced(m, s, d, new) ==
  /\ \E e \in d .. PeerData : At(new, e)
  /\ new.c.status = m.c.status \/ (s.fin /\ new.c.status = "CLOSE_WAIT")
  /\ \A x \in new.wire : x \in m.wire \/ x.kind \notin {"ACK", "FIN"}

LEMMA EnteredAt ==
  ASSUME Fits, NEW m \in Machines, NEW d \in 0 .. PeerData, At(m, d),
         NEW s \in SegType, Placed(s), NEW new \in Machines, Entered(m, s, new)
  PROVE  Advanced(m, s, d, new)
<1>1. CASE Quiet(m, new)
  <2>1. At(new, d)
    BY <1>1 DEF Quiet, At
  <2> QED
    BY <1>1, <2>1 DEF Advanced, Quiet
<1>2. CASE Took(m, NewData(m.c, s), s, new)
  <2>1. \E e \in d .. PeerData : At(new, e)
    BY <1>2, TookAt
  <2> QED
    BY <1>2, <2>1 DEF Advanced, Took
<1>3. CASE /\ s.fin /\ new.c.status = "CLOSE_WAIT"
           /\ \E old \in Machines : /\ Took(m, NewData(m.c, s), s, old) /\ old.wire = new.wire
                                    /\ old.c.pseq = new.c.pseq
                                    /\ old.app.delivered = new.app.delivered
  <2>1. PICK old \in Machines : /\ Took(m, NewData(m.c, s), s, old) /\ old.wire = new.wire
                                /\ old.c.pseq = new.c.pseq
                                /\ old.app.delivered = new.app.delivered
    BY <1>3
  <2>2. PICK e \in d .. PeerData : At(old, e)
    BY <2>1, TookAt
  <2>3. At(new, e)
    BY <2>1, <2>2 DEF At
  <2> QED
    BY <1>3, <2>1, <2>3 DEF Advanced, Took
<1> QED
  BY <1>1, <1>2, <1>3 DEF Entered

\* States that the peer's FIN led to
Ending == {"CLOSE_WAIT", "LAST_ACK", "CLOSING", "TIME_WAIT"}

\* What a segment does to a connection that is alive: perhaps units were
\* taken, and its FIN
Progress(m, s, new) ==
  /\ \E e \in Count(m) .. PeerData : At(new, e)
  /\ new.c.status \notin Handshake
  /\ new.c.status \in Ending => s.fin \/ m.c.status \in Ending
  /\ \A x \in new.wire : x \in m.wire \/ x.kind \notin {"ACK", "FIN"} \/ x.ack = PSeq(0)

LEMMA AtCount ==
  ASSUME NEW m \in Machines, NEW e, At(m, e)
  PROVE  Count(m) = e
BY StreamLen DEF At, Count

LEMMA OpenedAt ==
  ASSUME NEW m \in Machines, Rx(m), ~m.c.dying, NEW s \in SegType, Placed(s), NEW new,
         Opened(m, s, new)
  PROVE  Count(m) = 0 /\ At(new, 0) /\ new.c.pseq = PSeq(0)
<1>1. Count(m) = 0 /\ m.app.delivered = Stream(0)
  BY DEF Opened, Rx, Handshake
<1>2. new.c.pseq = PSeq(0)
  BY PSeqFirst DEF Opened, Rx, Placed, Handshake
<1> QED
  BY <1>1, <1>2, Constants DEF Opened, At

LEMMA HeardProgress ==
  ASSUME Fits, NEW m \in Machines, Rx(m), ~m.c.dying, NEW s \in SegType, Placed(s),
         NEW new \in Machines, Heard(m, s, new)
  PROVE  Quiet(m, new) \/ Progress(m, s, new)
<1> DEFINE d == Count(m)
<1>0. d \in 0 .. PeerData /\ m.app.delivered = Stream(d)
  BY DEF Rx
<1>1. m.c.status \notin Handshake => At(m, d)
  BY <1>0 DEF At, Rx
<1>2. CASE m.c.status = "ESTABLISHED" /\ Entered(m, s, new)
  <2>1. Advanced(m, s, d, new)
    BY <1>0, <1>1, <1>2, EnteredAt DEF Handshake
  <2> QED
    BY <1>2, <2>1 DEF Advanced, Progress, Handshake, Ending
<1>3. CASE Opened(m, s, new)
  <2>1. d = 0 /\ At(new, 0) /\ new.c.pseq = PSeq(0) /\ 0 \in 0 .. PeerData
    BY <1>3, OpenedAt, Constants
  <2> QED
    BY <1>3, <2>1 DEF Opened, Progress, Handshake, Ending
<1>4. CASE \E up \in Machines : Opened(m, s, up) /\ s.len > 0 /\ Entered(up, s, new)
  <2>1. PICK up \in Machines : Opened(m, s, up) /\ Entered(up, s, new)
    BY <1>4
  <2>2. d = 0 /\ At(up, 0) /\ up.c.pseq = PSeq(0) /\ 0 \in 0 .. PeerData
    BY <2>1, OpenedAt, Constants
  <2>3. Advanced(up, s, 0, new)
    BY <2>1, <2>2, EnteredAt
  <2>4. up.c.status = "ESTABLISHED"
        /\ \A x \in up.wire : x \in m.wire \/ x.kind \notin {"ACK", "FIN"} \/ x.ack = PSeq(0)
    BY <2>1, <2>2 DEF Opened
  <2> QED
    BY <2>2, <2>3, <2>4 DEF Advanced, Progress, Handshake, Ending
<1>5. CASE Shut(m, s, new)
  <2>1. At(new, d) /\ d \in d .. PeerData
    BY <1>0, <1>1, <1>5 DEF Shut, At, Handshake
  <2> QED
    BY <1>5, <2>1 DEF Shut, Progress, Handshake, Ending
<1> QED
  BY <1>2, <1>3, <1>4, <1>5 DEF Heard

LEMMA AnsweredWhat ==
  ASSUME Fits, NEW m \in Machines, Rx(m), NEW s \in SegType, Placed(s),
         NEW new \in Machines, Answered(m, s, new)
  PROVE  \/ Quiet(m, new) /\ (~new.c.dying => ~m.c.dying)
         \/ Created(s, new)
         \/ ~m.c.dying /\ Progress(m, s, new)
BY HeardProgress DEF Answered

LEMMA QuietRx ==
  ASSUME NEW m, NEW new, Rx(m), Quiet(m, new), ~new.c.dying => ~m.c.dying
  PROVE  Rx(new)
BY DEF Rx, Quiet, Count

LEMMA AnsweredRx ==
  ASSUME Fits, NEW m \in Machines, Rx(m), NEW s \in SegType, Placed(s),
         NEW new \in Machines, Answered(m, s, new)
  PROVE  Rx(new)
<1>1. CASE Quiet(m, new) /\ (~new.c.dying => ~m.c.dying)
  BY <1>1, QuietRx
<1>2. CASE Created(s, new)
  <2>1. Count(new) = 0 /\ new.app.delivered = Stream(0) /\ 0 \in 0 .. PeerData
    BY <1>2, StreamNone, Constants DEF Created, Count
  <2> QED
    BY <1>2, <2>1 DEF Created, Placed, Rx, Handshake
<1>3. CASE Progress(m, s, new)
  <2>1. PICK e \in Count(m) .. PeerData : At(new, e)
    BY <1>3 DEF Progress
  <2>2. Count(new) = e
    BY <2>1, AtCount
  <2> QED
    BY <1>3, <2>1, <2>2 DEF Progress, At, Rx
<1> QED
  BY <1>1, <1>2, <1>3, AnsweredWhat

LEMMA RepliedRx ==
  ASSUME NEW m \in Machines, Rx(m), ~m.c.dying, NEW new, Replied(m, new)
  PROVE  Rx(new)
BY DEF Rx, Replied, Count, Handshake

LEMMA BecomeRx ==
  ASSUME NEW m \in Machines, Told(m), Rx(m), Become(m)
  PROVE  Rx(Machine)'
<1>1. /\ Machine'.app = m.app /\ Machine'.c = IF m.c.dying THEN NoConn ELSE m.c
  BY BecomeIs
<1> QED
  BY <1>1, NoConnTyped DEF Rx, Count

LEMMA InitRx == Init => Rx(Machine)
<1> SUFFICES ASSUME Init PROVE Rx(Machine)
  OBVIOUS
<1>1. app.delivered = Stream(0) /\ Len(app.delivered) = 0 /\ c.dying /\ 0 \in 0 .. PeerData
  BY NewAppTyped, NoConnTyped, StreamNone, Constants DEF Init
<1> QED
  BY <1>1, MachineIs DEF Rx, Count

LEMMA NextRx == Fits /\ IInv /\ Rx(Machine) /\ [Next]_vars => Rx(Machine)'
<1> SUFFICES ASSUME Fits, IInv, Rx(Machine), [Next]_vars PROVE Rx(Machine)'
  OBVIOUS
<1>0. Machine \in Machines
  BY DEF IInv, Typed
<1>1. CASE PeriodicCheck
  <2>1. PICK late \in Elapsed : Check(late)
    BY <1>1 DEF PeriodicCheck
  <2>2. PICK new \in Machines :
          Told(new) /\ ~Machine.c.dying /\ Replied(Machine, new) /\ Become(new)
    BY <2>1, CheckIs
  <2> QED
    BY <1>0, <2>2, RepliedRx, BecomeRx
<1>2. CASE Connect
  <2>1. /\ ~c'.dying /\ c'.status = "CONNECT" /\ app'.delivered = <<>>
    BY <1>2, ConnectIs
  <2>2. Machine'.c = c' /\ Machine'.app = app' /\ Len(<<>>) = 0 /\ 0 \in 0 .. PeerData
    BY Constants DEF Machine
  <2> QED
    BY <2>1, <2>2, StreamNone DEF Rx, Count, Handshake
<1>3. CASE CloseAll
  <2>1. PICK new \in Machines : /\ Told(new) /\ Become(new)
                                /\ new = Machine \/ (Quiet(Machine, new) /\ new.c.dying)
    BY <1>3, CloseAllIs
  <2> QED
    BY <2>1, QuietRx, BecomeRx
<1>4. CASE Arrive
  <2>1. PICK s \in InFlight, new \in Machines :
          Told(new) /\ Answered(Machine, s, new) /\ Become(new)
    BY <1>4, ArriveIs
  <2>2. s \in SegType /\ Placed(s)
    BY InFlightPlaced DEF IInv, Typed
  <2> QED
    BY <1>0, <2>1, <2>2, AnsweredRx, BecomeRx
<1>5. CASE PeerOpen \/ PeerHandshake \/ PeerSend \/ PeerClose \/ PeerReceive \/ PeerReset
  BY <1>5, PeerStep DEF Rx, Count, Machine
<1>6. CASE Start \/ UNCHANGED vars
  BY <1>6 DEF Start, vars, Rx, Count, Machine
<1> QED
  BY <1>1, <1>2, <1>3, <1>4, <1>5, <1>6 DEF Next

(* The upper layer gets the units of the peer in order, none twice and none *)
(* left out: what is left of a segment once what was received is cut off    *)
(* (mtk_receive_tcp) continues the stream, at every number and across the   *)
(* wrap, however late, often or differently split it arrives.               *)
THEOREM DeliversInOrder == ASSUME Fits PROVE Spec => []InOrderDelivery
<1>1. Init => IInv /\ Rx(Machine)
  BY InitIInv, InitRx
<1>2. (IInv /\ Rx(Machine)) /\ [Next]_vars => (IInv /\ Rx(Machine))'
  BY NextIInv, NextRx
<1>3. Rx(Machine) => InOrderDelivery
  BY MachineIs DEF Rx, Count, InOrderDelivery
<1> QED
  BY <1>1, <1>2, <1>3, PTL DEF Spec

----------------------------------------------------------------------------
(* What is acknowledged                                                     *)

\* One more than what was delivered, once that is all: the FIN
Limit(m) == IF Count(m) = PeerData THEN PeerData + 1 ELSE Count(m)

Acks(m) == \A x \in m.wire : x.kind \in {"ACK", "FIN"} => \E i \in 0 .. Limit(m) : x.ack = PSeq(i)

Ends(m) == ~m.c.dying /\ m.c.status \in Ending => Count(m) = PeerData

\* The peer's FIN is on its way only after all of its data arrived
AllHeard == peer.sent = PeerData + 1 => Count(Machine) = PeerData

FreshPeer == peer.st \in {"idle", "synsent", "synrcvd"} => peer.sent = 0

Honest == Rx(Machine) /\ Acks(Machine) /\ Ends(Machine) /\ AllHeard /\ FreshPeer

LEMMA LimitGrows ==
  ASSUME NEW m, NEW new, Count(m) \in 0 .. PeerData, Count(new) \in 0 .. PeerData,
         Count(m) <= Count(new)
  PROVE  Limit(m) <= Limit(new) /\ 0 .. Limit(m) \subseteq 0 .. Limit(new) /\ 0 \in 0 .. Limit(new)
<1>1. Limit(m) \in Nat /\ Limit(new) \in Nat /\ Limit(m) <= Limit(new)
  BY Constants DEF Limit
<1> QED
  BY <1>1

\* What the machine m becomes stays honest
Kind(m, new) == Acks(new) /\ Ends(new) /\ (Count(m) = PeerData => Count(new) = PeerData)

LEMMA QuietKind ==
  ASSUME NEW m, NEW new, Acks(m), Ends(m), Quiet(m, new), ~new.c.dying => ~m.c.dying
  PROVE  Kind(m, new)
<1>1. Count(new) = Count(m) /\ Limit(new) = Limit(m)
  BY DEF Quiet, Count, Limit
<1> QED
  BY <1>1 DEF Quiet, Acks, Ends, Kind

LEMMA ProgressKind ==
  ASSUME NEW m \in Machines, Rx(m), Acks(m), Ends(m), ~m.c.dying, NEW s,
         s.fin => Count(m) = PeerData, NEW new \in Machines, Progress(m, s, new)
  PROVE  Kind(m, new)
<1>1. PICK e \in Count(m) .. PeerData : At(new, e)
  BY DEF Progress
<1>2. Count(m) \in 0 .. PeerData /\ Count(new) = e /\ e \in 0 .. PeerData
  BY <1>1, AtCount, Constants DEF Rx
<1>3. 0 .. Limit(m) \subseteq 0 .. Limit(new) /\ 0 \in 0 .. Limit(new)
  BY <1>1, <1>2, LimitGrows
<1>4. Acks(new)
  BY <1>3 DEF Acks, Progress
<1>5. Count(m) = PeerData => Count(new) = PeerData
  BY <1>1, <1>2
<1>6. Ends(new)
  BY <1>5 DEF Ends, Progress
<1> QED
  BY <1>4, <1>5, <1>6 DEF Kind

LEMMA RepliedKind ==
  ASSUME NEW m \in Machines, Rx(m), Acks(m), Ends(m), ~m.c.dying, NEW new, Replied(m, new)
  PROVE  Kind(m, new)
<1>1. Count(new) = Count(m) /\ Limit(new) = Limit(m) /\ Count(m) \in 0 .. PeerData
  BY DEF Replied, Count, Limit, Rx
<1>2. Ends(new)
  BY <1>1 DEF Ends, Replied, Ending
<1>3. Acks(new)
  <2> SUFFICES ASSUME NEW x \in new.wire, x.kind \in {"ACK", "FIN"}
               PROVE  \E i \in 0 .. Limit(m) : x.ack = PSeq(i)
    BY <1>1 DEF Acks
  <2>1. CASE x \in m.wire
    BY <2>1 DEF Acks
  <2>2. CASE m.c.status \notin Handshake /\ x.ack = m.c.pseq
    <3>1. x.ack = PSeq(Count(m))
      BY <2>2 DEF Rx
    <3>2. Count(m) \in 0 .. Limit(m)
      BY <1>1, Constants DEF Limit
    <3> QED
      BY <3>1, <3>2
  <2>3. CASE /\ m.c.status \in {"CLOSE_WAIT", "LAST_ACK", "TIME_WAIT"}
             /\ x.ack = SeqAdd(m.c.pseq, 1)
    <3>1. Count(m) = PeerData /\ m.c.pseq = PSeq(PeerData)
      BY <2>3 DEF Ends, Ending, Rx, Handshake
    <3>2. x.ack = PSeq(PeerData + 1)
      BY <2>3, <3>1, PSeqMore, Constants
    <3>3. PeerData + 1 \in 0 .. Limit(m)
      BY <3>1, Constants DEF Limit
    <3> QED
      BY <3>2, <3>3
  <2> QED
    BY <2>1, <2>2, <2>3 DEF Replied
<1> QED
  BY <1>1, <1>2, <1>3 DEF Kind

LEMMA BecomeKind ==
  ASSUME Honest, NEW m \in Machines, Told(m), Kind(Machine, m), Become(m)
  PROVE  Acks(Machine)' /\ Ends(Machine)' /\ (peer' = peer => AllHeard' /\ FreshPeer')
<1>1. /\ Machine'.app = m.app /\ Machine'.wire = m.wire
      /\ Machine'.c = IF m.c.dying THEN NoConn ELSE m.c
  BY BecomeIs
<1>2. Count(Machine)' = Count(m) /\ Limit(Machine)' = Limit(m)
  BY <1>1 DEF Count, Limit
<1>3. Acks(Machine)' /\ Ends(Machine)'
  BY <1>1, <1>2, NoConnTyped DEF Kind, Acks, Ends
<1>4. peer' = peer => AllHeard' /\ FreshPeer'
  BY <1>2 DEF Kind, Honest, AllHeard, FreshPeer
<1> QED
  BY <1>3, <1>4

LEMMA ArriveHonest ==
  ASSUME Fits, IInv, Honest, Arrive
  PROVE  Acks(Machine)' /\ Ends(Machine)' /\ AllHeard' /\ FreshPeer'
<1>1. PICK s \in InFlight, new \in Machines :
        Told(new) /\ Answered(Machine, s, new) /\ Become(new)
  BY ArriveIs
<1>2. s \in SegType /\ Placed(s) /\ Machine \in Machines /\ peer' = peer
  BY InFlightPlaced DEF IInv, Typed, Arrive
<1>3. CASE Created(s, new)
  <2>1. peer.sent = 0
    BY <1>2, <1>3 DEF Created, Placed, Honest, FreshPeer
  <2>2. Machine'.wire = new.wire /\ Machine'.c = IF new.c.dying THEN NoConn ELSE new.c
    BY <1>1, BecomeIs
  <2>3. Acks(Machine)'
    BY <1>3, <2>2 DEF Created, Acks
  <2>4. Ends(Machine)'
    BY <1>3, <2>2, NoConnTyped DEF Created, Ends, Ending
  <2>5. AllHeard' /\ FreshPeer'
    BY <1>2, <2>1, Constants DEF AllHeard, FreshPeer
  <2> QED
    BY <2>3, <2>4, <2>5
<1>4. CASE \/ Quiet(Machine, new) /\ (~new.c.dying => ~Machine.c.dying)
           \/ ~Machine.c.dying /\ Progress(Machine, s, new)
  <2>1. s.fin => Count(Machine) = PeerData
    BY <1>2 DEF Placed, Honest, AllHeard
  <2>2. Kind(Machine, new)
    BY <1>2, <1>4, <2>1, QuietKind, ProgressKind DEF Honest
  <2> QED
    BY <1>1, <1>2, <2>2, BecomeKind
<1> QED
  BY <1>1, <1>2, <1>3, <1>4, AnsweredWhat DEF Honest

\* The peer closes only once all its data is acknowledged, which it is only
\* after it was delivered
LEMMA PeerCloseHeard ==
  ASSUME Fits, LoneFin, IInv, Honest, PeerClose
  PROVE  Count(Machine) = PeerData
<1>1. PICK x \in wire : x.kind \in {"ACK", "FIN"} /\ SeqSub(x.ack, PSeq(PeerData)) >= 0
  BY DEF PeerClose, AllAcked
<1>2. Count(Machine) \in 0 .. PeerData
  BY DEF Honest, Rx
<1>3. PICK i \in 0 .. Limit(Machine) : x.ack = PSeq(i)
  BY <1>1, MachineIs DEF Honest, Acks
<1>4. i \in 0 .. PeerData + 1 /\ PeerData \in 0 .. PeerData + 1
  BY <1>2, <1>3, Constants DEF Limit
<1>5. i - PeerData >= 0
  BY <1>1, <1>3, <1>4, PSeqDistance
<1> QED
  BY <1>2, <1>3, <1>4, <1>5, Constants DEF Limit

LEMMA PeerHonest ==
  ASSUME Fits, LoneFin, IInv, Honest,
         PeerOpen \/ PeerHandshake \/ PeerSend \/ PeerClose \/ PeerReceive \/ PeerReset
  PROVE  Acks(Machine)' /\ Ends(Machine)' /\ AllHeard' /\ FreshPeer'
<1>1. c' = c /\ app' = app /\ (wire' = wire \/ wire' = {})
  BY PeerStep
<1>2. Count(Machine)' = Count(Machine) /\ Limit(Machine)' = Limit(Machine)
  BY <1>1 DEF Count, Limit, Machine
<1>3. Acks(Machine)' /\ Ends(Machine)'
  BY <1>1, <1>2 DEF Honest, Acks, Ends, Machine
<1>4. peer \in PeerType
  BY DEF IInv, Typed
<1>5. CASE PeerOpen \/ (PeerHandshake /\ peer' = NewPeer("synrcvd"))
  <2>1. peer'.sent = 0
    BY <1>5 DEF PeerOpen, NewPeer
  <2> QED
    BY <1>3, <2>1, Constants DEF AllHeard, FreshPeer
<1>6. CASE PeerHandshake /\ peer' = [peer EXCEPT !.st = "open"]
  <2>1. peer'.sent = peer.sent /\ peer'.st = "open"
    BY <1>4, <1>6, ResetTyped
  <2> QED
    BY <1>2, <1>3, <2>1 DEF Honest, AllHeard, FreshPeer
<1>7. CASE PeerSend
  <2>1. peer'.sent = peer.sent + 1 /\ peer'.st = "open" /\ peer.sent < PeerData
    BY <1>4, <1>7, SendUnitTyped, Constants DEF PeerSend, PeerType
  <2> QED
    BY <1>3, <1>4, <2>1, Constants DEF AllHeard, FreshPeer, PeerType
<1>8. CASE PeerClose
  <2>1. peer'.st = "open"
    BY <1>4, <1>8, SendUnitTyped, Constants DEF PeerClose
  <2> QED
    BY <1>2, <1>3, <1>8, <2>1, PeerCloseHeard DEF AllHeard, FreshPeer
<1>9. CASE PeerReceive \/ PeerReset
  <2>1. peer'.sent = peer.sent /\ peer'.st \in {"open", "gone"}
    BY <1>4, <1>9, PeerReceiveTyped, ResetTyped DEF PeerReset, IInv, Typed
  <2> QED
    BY <1>2, <1>3, <2>1 DEF Honest, AllHeard, FreshPeer
<1> QED
  BY <1>5, <1>6, <1>7, <1>8, <1>9 DEF PeerHandshake

LEMMA InitHonest == Init => Honest
<1> SUFFICES ASSUME Init PROVE Honest
  OBVIOUS
<1>1. wire = {} /\ c.dying /\ peer.sent = 0
  BY NoConnTyped DEF Init, NewPeer
<1> QED
  BY <1>1, InitRx, MachineIs, Constants DEF Honest, Acks, Ends, AllHeard, FreshPeer

LEMMA NextHonest == Fits /\ LoneFin /\ IInv /\ Honest /\ [Next]_vars => Honest'
<1> SUFFICES ASSUME Fits, LoneFin, IInv, Honest, [Next]_vars PROVE Honest'
  OBVIOUS
<1>0. Machine \in Machines /\ Rx(Machine)'
  BY NextRx DEF IInv, Typed, Honest
<1> SUFFICES Acks(Machine)' /\ Ends(Machine)' /\ AllHeard' /\ FreshPeer'
  BY <1>0 DEF Honest
<1>1. CASE PeriodicCheck
  <2>1. PICK late \in Elapsed : Check(late)
    BY <1>1 DEF PeriodicCheck
  <2>2. PICK new \in Machines :
          Told(new) /\ ~Machine.c.dying /\ Replied(Machine, new) /\ Become(new)
    BY <2>1, CheckIs
  <2>3. Kind(Machine, new) /\ peer' = peer
    BY <1>0, <2>1, <2>2, RepliedKind DEF Honest, Check
  <2> QED
    BY <2>2, <2>3, BecomeKind
<1>2. CASE Connect
  <2>1. wire' = {} /\ c'.status = "CONNECT" /\ peer' = NewPeer("idle")
    BY <1>2, ConnectIs
  <2>2. Machine'.c = c' /\ Machine'.wire = wire' /\ peer'.sent = 0
    BY <2>1 DEF Machine, NewPeer
  <2> QED
    BY <2>1, <2>2, Constants DEF Acks, Ends, Ending, AllHeard, FreshPeer
<1>3. CASE CloseAll
  <2>1. PICK new \in Machines : /\ Told(new) /\ Become(new)
                                /\ new = Machine \/ (Quiet(Machine, new) /\ new.c.dying)
    BY <1>3, CloseAllIs
  <2>2. Kind(Machine, new) /\ peer' = peer
    BY <1>3, <2>1, QuietKind, QuietSame DEF Honest, CloseAll
  <2> QED
    BY <2>1, <2>2, BecomeKind
<1>4. CASE Arrive
  BY <1>4, ArriveHonest
<1>5. CASE PeerOpen \/ PeerHandshake \/ PeerSend \/ PeerClose \/ PeerReceive \/ PeerReset
  BY <1>5, PeerHonest
<1>6. CASE Start \/ UNCHANGED vars
  BY <1>6 DEF Start, vars, Honest, Acks, Ends, AllHeard, FreshPeer, Count, Limit, Machine
<1> QED
  BY <1>1, <1>2, <1>3, <1>4, <1>5, <1>6 DEF Next

(* When the peer closes only after its data is acknowledged, no segment     *)
(* acknowledges more than the upper layer has, and the end of the stream    *)
(* only after all of it (mtk_receive_tcp, mtk_tcp_conn_check).              *)
THEOREM AcknowledgesDelivered == ASSUME Fits, LoneFin PROVE Spec => []AcksOnlyDelivered
<1>1. Init => IInv /\ Honest
  BY InitIInv, InitHonest
<1>2. (IInv /\ Honest) /\ [Next]_vars => (IInv /\ Honest)'
  BY NextIInv, NextHonest
<1>3. IInv /\ Honest => AcksOnlyDelivered
  <2> SUFFICES ASSUME Honest, NEW x \in wire, x.kind \in {"ACK", "FIN"}
               PROVE  SeqSub(x.ack, PSeq(0)) <= Limit(Machine)
    BY MachineIs DEF AcksOnlyDelivered, Limit, Count
  <2>1. PICK i \in 0 .. Limit(Machine) : x.ack = PSeq(i)
    BY MachineIs DEF Honest, Acks
  <2>2. i \in 0 .. PeerData + 1 /\ 0 \in 0 .. PeerData + 1 /\ i <= Limit(Machine)
    BY <2>1, Constants DEF Honest, Rx, Limit
  <2>3. SeqSub(PSeq(i), PSeq(0)) = i - 0
    BY <2>2, PSeqDistance
  <2> QED
    BY <2>1, <2>2, <2>3
<1> QED
  BY <1>1, <1>2, <1>3, PTL DEF Spec

----------------------------------------------------------------------------
(* What the peer gets                                                       *)

\* The same bound for the other direction
FitsSent == 2 * (AppData + 1) < SeqMod

\* A window is never shut, and takes the longest chunk
WindowOpen == \A w \in Windows, n \in ChunkSizes \cup {0} : n < w

Positions == 0 .. AppData

\* Position n is a number of full segments after l
OnGrid(l, n) == \E i \in Nat : n = l + i * Mss

\* A segment with data, which carries the units from p on
Loaded(x) == x.kind = "ACK" /\ x.len > 0
Carries(x, p) == x.seq = LSeq(p) /\ x.off = p + 1 /\ p + x.len <= AppData
Faithful(w) == \A x \in w : Loaded(x) => \E p \in Positions : Carries(x, p)

\* A segment may end at n: within what was sent, and in the chunk being sent only
\* at the end of a full segment or of the chunk
Edge(k, l, n) == OnGrid(l, n) \/ n = l + k.txlen
Cut(k, l, s, n) == n <= s /\ (k.tx = 0 \/ n <= l \/ Edge(k, l, n))

\* The window that is left takes every chunk, but for what was sent of this one
Room(k, n) == \A j \in ChunkSizes \cup {0} : j < k.wnd + n

\* The chunk begins at position l, is acknowledged up to a and sent up to s
Chunk(k, u, l, a, s) ==
  /\ k.last = LSeq(l) /\ k.acked = LSeq(a) /\ k.seq = LSeq(s)
  /\ l <= a /\ a <= s /\ s <= u.sent
  /\ IF k.tx = 0
     THEN k.txlen = 0 /\ a = s /\ u.sent = s /\ u.done = s /\ Room(k, 0)
     ELSE /\ k.tx = l + 1 /\ u.done = l /\ u.sent = l + k.txlen
          /\ k.txlen > 0 /\ a < l + k.txlen /\ OnGrid(l, a) /\ Edge(k, l, s) /\ Room(k, s - l)
  /\ k.rexmit => a < s
  /\ ~k.zw

\* On the wire, and in what the peer acknowledged (A), are no other ends
Bounded(m, A, l, s) ==
  /\ \A x \in m.wire : Loaded(x) =>
       \E p \in Positions : Carries(x, p) /\ Cut(m.c, l, s, p + x.len)
  /\ \A n \in A : Cut(m.c, l, s, n)

NoFin(m) == \A x \in m.wire : x.kind # "FIN"

Active(m, A) ==
  /\ m.c.status = "ESTABLISHED" /\ ~m.c.dying /\ NoFin(m)
  /\ \E l, a, s \in Positions : Chunk(m.c, m.app, l, a, s) /\ Bounded(m, A, l, s)

\* Before the connection is up nothing is sent
Opening(m, A) ==
  /\ m.c.status \in Handshake /\ ~m.c.dying
  /\ m.c.seq = LocalIsn /\ m.c.tx = 0 /\ m.c.txlen = 0 /\ ~m.c.rexmit /\ ~m.c.zw
  /\ m.c.status = "SYN_RCVD" => Room(m.c, 0)
  /\ m.app.sent = 0 /\ m.app.done = 0
  /\ \A x \in m.wire : x.kind \notin {"ACK", "FIN"}
  /\ A = {0}

Over(m) == m.c.dying \/ m.c.status \notin Handshake \cup {"ESTABLISHED"}

Tx(m, A) == Opening(m, A) \/ Active(m, A) \/ (Over(m) /\ Faithful(m.wire))

\* What became of m reports no more as sent than what the peer acknowledged
Counted(m, A, new) ==
  \/ new.app.done = m.app.done \/ new.app.done = 0
  \/ ~Over(m) /\ new.app.done \in A

----------------------------------------------------------------------------

LEMMA LSeqMore ==
  ASSUME NEW n \in Int, NEW k \in Int
  PROVE  SeqAdd(LSeq(n), k) = LSeq(n + k)
<1>1. LocalIsn + 1 \in Int
  BY Constants DEF Seqs
<1> QED
  BY <1>1, SeqAddTwice DEF LSeq

LEMMA LSeqDistance ==
  ASSUME FitsSent, NEW i \in 0 .. AppData + 1, NEW j \in 0 .. AppData + 1
  PROVE  SeqSub(LSeq(i), LSeq(j)) = i - j
<1>1. LocalIsn + 1 \in Int /\ i \in Int /\ j \in Int
  BY Constants DEF Seqs
<1>2. 2 * (i - j) < SeqMod /\ 2 * (j - i) < SeqMod
  BY Constants DEF FitsSent
<1> QED
  BY <1>1, <1>2, Distance DEF LSeq

LEMMA LSeqFirst == LSeq(0) = SeqAdd(LocalIsn, 1)
BY Constants DEF LSeq, SeqAdd, Seqs

LEMMA GridFirst == ASSUME NEW l \in Int PROVE OnGrid(l, l)
<1>1. l = l + 0 * Mss
  BY Constants
<1> QED
  BY <1>1 DEF OnGrid

LEMMA GridNext ==
  ASSUME NEW l \in Int, NEW n \in Int, OnGrid(l, n)
  PROVE  OnGrid(l, n + Mss)
<1>1. PICK i \in Nat : n = l + i * Mss
  BY DEF OnGrid
<1>2. n + Mss = l + (i + 1) * Mss /\ i + 1 \in Nat
  BY <1>1, Constants
<1> QED
  BY <1>2 DEF OnGrid

LEMMA GridGap ==
  ASSUME NEW l \in Int, NEW n \in Int, NEW k \in Int, OnGrid(l, n), OnGrid(l, k), n < k
  PROVE  n + Mss <= k
<1>1. PICK i \in Nat : n = l + i * Mss
  BY DEF OnGrid
<1>2. PICK j \in Nat : k = l + j * Mss
  BY DEF OnGrid
<1>3. Mss \in Nat \ {0}
  BY Constants
<1>4. k - n = (j - i) * Mss
  BY <1>1, <1>2, <1>3
<1>5. j - i >= 1
  <2> SUFFICES ASSUME j - i <= 0 PROVE FALSE
    OBVIOUS
  <2>1. i - j \in Nat
    OBVIOUS
  <2>2. (i - j) * Mss >= 0
    BY <1>3, <2>1
  <2>3. n - k = (i - j) * Mss
    BY <1>1, <1>2, <1>3
  <2> QED
    BY <2>2, <2>3
<1>6. PICK d \in Nat : j - i = 1 + d
  <2>1. j - i - 1 \in Nat /\ j - i = 1 + (j - i - 1)
    BY <1>5
  <2> QED
    BY <2>1
<1>7. k - n = Mss + d * Mss /\ d * Mss >= 0
  BY <1>3, <1>4, <1>6
<1> QED
  BY <1>3, <1>7

----------------------------------------------------------------------------
(* Operators that leave the sending side alone                              *)

Same(m, new) ==
  /\ new.c.status = m.c.status /\ new.c.dying = m.c.dying /\ new.wire = m.wire
  /\ new.c.seq = m.c.seq /\ new.c.last = m.c.last /\ new.c.acked = m.c.acked
  /\ new.c.tx = m.c.tx /\ new.c.txlen = m.c.txlen
  /\ new.c.rexmit = m.c.rexmit /\ new.c.zw = m.c.zw /\ new.c.wnd = m.c.wnd
  /\ new.app.sent = m.app.sent /\ new.app.done = m.app.done

LEMMA SameActive ==
  ASSUME NEW m, NEW new, NEW A, Active(m, A), Same(m, new)
  PROVE  Active(new, A)
<1>1. PICK l \in Positions, a \in Positions, s \in Positions :
        Chunk(m.c, m.app, l, a, s) /\ Bounded(m, A, l, s)
  BY DEF Active
<1>2. Chunk(new.c, new.app, l, a, s)
  BY <1>1 DEF Same, Chunk, Room, Edge
<1>3. Bounded(new, A, l, s)
  BY <1>1 DEF Same, Bounded, Cut, Edge
<1>4. new.c.status = "ESTABLISHED" /\ ~new.c.dying /\ NoFin(new)
  BY DEF Active, Same, NoFin
<1> QED
  BY <1>2, <1>3, <1>4 DEF Active

LEMMA ActiveFaithful == ASSUME NEW m, NEW A, Active(m, A) PROVE Faithful(m.wire)
BY DEF Active, Bounded, Faithful

LEMMA QuietFaithful ==
  ASSUME NEW m, NEW new, Faithful(m.wire), Quiet(m, new)
  PROVE  Faithful(new.wire)
BY DEF Faithful, Quiet, Loaded

LEMMA SameTwice ==
  ASSUME NEW m, NEW k, NEW new, Same(m, k), Same(k, new)
  PROVE  Same(m, new)
BY DEF Same

\* The machine ended, or is sending as before; nothing more is reported
Carried(m, A, new) ==
  /\ Active(new, A) \/ (new.c.dying /\ Faithful(new.wire))
  /\ new.app.done = m.app.done

LEMMA NotedSame == ASSUME NEW m \in Machines PROVE Same(m, Noted(m))
BY DEF Noted, Same, Machines, AppType

LEMMA DoneStays ==
  ASSUME NEW m \in Machines
  PROVE  /\ Noted(m).app.done = m.app.done /\ Ended(m).app.done = m.app.done
         /\ Zombify(m).app.done = m.app.done
         /\ \A kind, ack : SendCtl(m, kind, ack).app.done = m.app.done
BY DEF Noted, Ended, Zombify, SendCtl, Send, Machines, AppType

LEMMA FinishDone ==
  ASSUME NEW m \in Machines, Told(m), ~m.c.dying
  PROVE  Finish(m).app.done = m.app.done
<1> DEFINE told == IF m.c.cb /\ m.c.pdata THEN Ended(Noted(m)) ELSE m
           out  == [told EXCEPT !.c.cb = FALSE, !.c.pdata = FALSE]
<1>1. told \in Machines /\ told.app.done = m.app.done
  <2>1. Noted(m) \in Machines /\ Noted(m).app.done = m.app.done
    BY NotedFields, DoneStays
  <2>2. Ended(Noted(m)) \in Machines /\ Ended(Noted(m)).app.done = m.app.done
    BY <2>1, EndedFields, DoneStays
  <2> QED
    BY <2>1, <2>2
<1>2. Finish(m) = Zombify(out)
  BY DEF Finish
<1> HIDE DEF told
<1>3. out \in Machines /\ out.app = told.app
  BY <1>1, OutOfService
<1> HIDE DEF out
<1> QED
  BY <1>1, <1>2, <1>3, DoneStays

LEMMA TeardownDone ==
  ASSUME NEW m \in Machines, Told(m), ~m.c.dying
  PROVE  Teardown(m).app.done = m.app.done
<1> DEFINE rst == SendCtl(m, "RST", m.c.pseq)
<1>1. rst \in Machines /\ rst.c = m.c /\ rst.app = m.app
  BY RstQuiet DEF Machines, ConnType
<1>2. Teardown(m) = Finish(rst)
  BY DEF Teardown
<1> HIDE DEF rst
<1> QED
  BY <1>1, <1>2, FinishDone DEF Told

LEMMA GiveUpDone ==
  ASSUME NEW m \in Machines
  PROVE  GiveUp(m).app.done = m.app.done /\ GiveUp(m).c.dying
<1> DEFINE rst == SendCtl(m, "RST", m.c.pseq)
<1>1. rst \in Machines /\ rst.app = m.app
  BY RstQuiet DEF Machines, ConnType
<1>2. GiveUp(m) \in {Zombify(Ended(Noted(rst))), Zombify(rst)}
  BY DEF GiveUp
<1> HIDE DEF rst
<1>3. Noted(rst) \in Machines /\ Noted(rst).app.done = m.app.done
  BY <1>1, NotedFields, DoneStays
<1>4. Ended(Noted(rst)) \in Machines /\ Ended(Noted(rst)).app.done = m.app.done
  BY <1>3, EndedFields, DoneStays
<1> QED
  BY <1>1, <1>2, <1>4, DoneStays, ZombifyFields

LEMMA SendDataActive ==
  ASSUME FitsSent, NEW m \in Machines, NEW A, Active(m, A), NEW n \in ChunkSizes
  PROVE  Active(SendData(m, n), A) /\ SendData(m, n).app.done = m.app.done
<1> DEFINE new == [m EXCEPT !.c = [@ EXCEPT !.tx = m.app.sent + 1, !.txlen = n,
                                            !.last = m.c.seq, !.acked = m.c.seq],
                            !.app.sent = @ + n]
           blocked == \/ m.c.close
                      \/ m.c.tx # 0 /\ m.c.txlen > SeqSub(m.c.acked, m.c.last)
                      \/ m.app.sent + n > AppData
<1>0. SendData(m, n) = IF blocked THEN m ELSE new
  BY DEF SendData
<1>1. PICK l \in Positions, a \in Positions, s \in Positions :
        Chunk(m.c, m.app, l, a, s) /\ Bounded(m, A, l, s)
  BY DEF Active
<1>2. CASE blocked
  BY <1>0, <1>2
<1>3. CASE ~blocked
  <2>1. m.c.tx = 0
    <3> SUFFICES ASSUME m.c.tx # 0 PROVE FALSE
      OBVIOUS
    <3>1. m.c.acked = LSeq(a) /\ m.c.last = LSeq(l) /\ a < l + m.c.txlen
      BY <1>1 DEF Chunk
    <3>2. a \in 0 .. AppData + 1 /\ l \in 0 .. AppData + 1
      BY Constants DEF Positions
    <3>3. SeqSub(m.c.acked, m.c.last) = a - l
      BY <3>1, <3>2, LSeqDistance
    <3>4. m.c.txlen <= a - l
      BY <1>3, <3>2, <3>3, Constants DEF Machines, ConnType
    <3> QED
      BY <3>1, <3>2, <3>4, Constants DEF Machines, ConnType
  <2>2. m.app.sent = s /\ m.app.done = s /\ m.c.seq = LSeq(s) /\ Room(m.c, 0) /\ ~m.c.zw /\ ~m.c.rexmit
    BY <1>1, <2>1 DEF Chunk, Positions
  <2>3. n \in Nat \ {0} /\ s \in Int /\ AppData \in Nat /\ s + n <= AppData
    BY <1>3, <2>2, TcpAssumption DEF Positions
  <2>4. /\ new.c.tx = s + 1 /\ new.c.txlen = n /\ new.c.last = LSeq(s) /\ new.c.acked = LSeq(s)
        /\ new.c.seq = LSeq(s) /\ new.c.wnd = m.c.wnd /\ ~new.c.zw /\ ~new.c.rexmit
        /\ new.c.status = m.c.status /\ new.c.dying = m.c.dying
        /\ new.app.sent = s + n /\ new.app.done = s /\ new.wire = m.wire
    BY <2>2 DEF Machines, ConnType, AppType
  <2> HIDE DEF new
  <2>5. Chunk(new.c, new.app, s, s, s)
    <3>1. OnGrid(s, s)
      BY <2>3, GridFirst
    <3>2. Room(new.c, s - s)
      <4>1. s - s = 0 /\ new.c.wnd = m.c.wnd
        BY <2>3, <2>4
      <4> QED
        BY <2>2, <4>1 DEF Room
    <3>3. s + 1 # 0 /\ s < s + n /\ s <= s + n
      BY <2>3 DEF Positions
    <3> QED
      BY <2>3, <2>4, <3>1, <3>2, <3>3 DEF Chunk, Edge
  <2>6. Bounded(new, A, s, s)
    <3>1. \A i : Cut(m.c, l, s, i) => Cut(new.c, s, s, i)
      BY <2>1 DEF Cut
    <3> QED
      BY <1>1, <2>4, <3>1 DEF Bounded
  <2>7. Active(new, A)
    BY <2>4, <2>5, <2>6 DEF Active, NoFin
  <2> QED
    BY <1>0, <1>3, <2>2, <2>4, <2>7
<1> QED
  BY <1>2, <1>3

LEMMA ReactCarried ==
  ASSUME FitsSent, NEW m \in Machines, Told(m), NEW A, Active(m, A), NEW r \in Reactions
  PROVE  Carried(m, A, React(m, r)) /\ (r # ResetConn => Active(React(m, r), A))
<1>0. ~m.c.dying
  BY DEF Active
<1>1. CASE r = CloseConn
  <2> DEFINE new == [m EXCEPT !.c.close = TRUE]
  <2>1. React(m, r) = new
    BY <1>1 DEF React, CloseConn, ResetConn, Nothing
  <2>2. Same(m, new)
    BY DEF Machines, ConnType, Same
  <2> HIDE DEF new
  <2> QED
    BY <2>1, <2>2, SameActive DEF Carried, Same
<1>2. CASE r = ResetConn
  <2>1. React(m, r) = Teardown(m)
    BY <1>2 DEF React, ResetConn, CloseConn, Nothing
  <2> QED
    BY <1>0, <1>2, <2>1, AliveTeardown, TeardownDone, ActiveFaithful, QuietFaithful DEF Carried
<1>3. CASE r = Nothing
  BY <1>3 DEF React, ResetConn, CloseConn, Nothing, Carried
<1>4. CASE r \in ChunkSizes
  <2>1. React(m, r) = SendData(m, r)
    BY <1>4, TcpAssumption DEF React, ResetConn, CloseConn, Nothing
  <2> QED
    BY <1>4, <2>1, SendDataActive DEF Carried
<1> QED
  BY <1>1, <1>2, <1>3, <1>4 DEF Reactions

LEMMA NotedReact ==
  ASSUME FitsSent, NEW m \in Machines, Told(m), NEW A, Active(m, A), NEW r \in Reactions
  PROVE  /\ React(Noted(m), r) \in Machines /\ Told(React(Noted(m), r))
         /\ Carried(m, A, React(Noted(m), r))
         /\ r # ResetConn => Active(React(Noted(m), r), A)
<1> DEFINE k == Noted(m)
<1>1. ~m.c.dying
  BY DEF Active
<1>2. k \in Machines /\ Told(k) /\ Active(k, A) /\ k.app.done = m.app.done /\ ~k.c.dying
  BY <1>1, AliveNoted, NotedSame, SameActive, DoneStays
<1> HIDE DEF k
<1>3. React(k, r) \in Machines /\ Told(React(k, r)) /\ Carried(k, A, React(k, r))
      /\ (r # ResetConn => Active(React(k, r), A))
  BY <1>2, ReactCarried, AliveReact
<1> QED
  BY <1>2, <1>3 DEF Carried, k

----------------------------------------------------------------------------
(* An acknowledgement                                                       *)

\* What a segment of the peer says of the stream of the stack
Says(s, A) == s.wnd \in Windows /\ \E n \in A : s.ack = LSeq(n)

LEMMA WindowActive ==
  ASSUME WindowOpen, NEW m \in Machines, NEW A, Active(m, A), NEW s \in SegType, s.wnd \in Windows
  PROVE  LET now == [m EXCEPT !.c = Window(@, s)]
         IN  /\ Active(now, A) /\ now.app = m.app
             /\ now.c.acked = m.c.acked /\ now.c.last = m.c.last
<1> DEFINE k == Window(m.c, s)  now == [m EXCEPT !.c = k]
<1>1. PICK l \in Positions, a \in Positions, t \in Positions :
        Chunk(m.c, m.app, l, a, t) /\ Bounded(m, A, l, t)
  BY DEF Active
<1>2. ~m.c.zw
  BY <1>1 DEF Chunk
<1>3. /\ k.wnd = s.wnd /\ ~k.zw
      /\ k.status = m.c.status /\ k.dying = m.c.dying
      /\ k.seq = m.c.seq /\ k.last = m.c.last /\ k.acked = m.c.acked
      /\ k.tx = m.c.tx /\ k.txlen = m.c.txlen /\ k.rexmit = m.c.rexmit
  BY <1>2 DEF Window, Machines, ConnType
<1>4. [m EXCEPT !.c = Window(@, s)] = now
  OBVIOUS
<1> HIDE DEF k
<1>5. now.c = k /\ now.app = m.app /\ now.wire = m.wire
  BY DEF Machines
<1> HIDE DEF now
<1>6. \A n \in Nat : Room(k, n)
  <2>1. \A j \in ChunkSizes \cup {0} : j < s.wnd /\ j \in Nat /\ s.wnd \in Nat
    BY Constants, TcpAssumption DEF WindowOpen
  <2> QED
    BY <1>3, <2>1 DEF Room
<1>7. Chunk(k, m.app, l, a, t)
  <2>1. 0 \in Nat /\ (l <= t => t - l \in Nat)
    BY Constants DEF Positions
  <2> QED
    BY <1>1, <1>3, <1>6, <2>1 DEF Chunk, Edge, Positions
<1>8. Bounded(now, A, l, t)
  BY <1>1, <1>3, <1>5 DEF Bounded, Cut, Edge
<1> QED
  BY <1>3, <1>4, <1>5, <1>7, <1>8 DEF Active, NoFin

\* The chunk is done, and nothing is left unacknowledged
LEMMA ChunkSent ==
  ASSUME NEW m \in Machines, NEW A, Active(m, A), m.c.tx # 0,
         NEW l \in Positions, NEW a \in Positions, NEW t \in Positions,
         Chunk(m.c, m.app, l, a, t), Bounded(m, A, l, t), t = l + m.c.txlen,
         NEW new, new.wire = m.wire, new.c.status = m.c.status, new.c.dying = m.c.dying,
         new.c.seq = m.c.seq, new.c.last = m.c.last, new.c.acked = m.c.seq,
         new.c.tx = 0, new.c.txlen = 0, ~new.c.rexmit, ~new.c.zw, new.c.wnd = m.c.wnd,
         new.app.sent = m.app.sent, new.app.done = m.app.done + m.c.txlen,
         Room(new.c, 0)
  PROVE  Active(new, A)
<1>1. Chunk(new.c, new.app, l, t, t)
  BY DEF Chunk, Positions
<1>2. \A i : Cut(m.c, l, t, i) => Cut(new.c, l, t, i)
  BY DEF Cut
<1>3. Bounded(new, A, l, t)
  BY <1>2 DEF Bounded
<1> QED
  BY <1>1, <1>3 DEF Active, NoFin

\* Some of the chunk is acknowledged, or the peer repeats itself
LEMMA ChunkAcked ==
  ASSUME NEW m \in Machines, NEW A, Active(m, A), m.c.tx # 0,
         NEW l \in Positions, NEW a \in Positions, NEW t \in Positions,
         Chunk(m.c, m.app, l, a, t), Bounded(m, A, l, t),
         NEW n \in Positions, l <= n, n <= t, n < l + m.c.txlen, OnGrid(l, n),
         NEW new, new.wire = m.wire, new.c.status = m.c.status, new.c.dying = m.c.dying,
         new.c.seq = m.c.seq, new.c.last = m.c.last, new.c.acked = LSeq(n),
         new.c.tx = m.c.tx, new.c.txlen = m.c.txlen, new.c.rexmit => n < t,
         new.c.zw = m.c.zw, new.c.wnd = m.c.wnd,
         new.app.sent = m.app.sent, new.app.done = m.app.done
  PROVE  Active(new, A)
<1>1. Chunk(new.c, new.app, l, n, t)
  BY DEF Chunk, Room, Edge
<1>2. Bounded(new, A, l, t)
  BY DEF Bounded, Cut, Edge
<1> QED
  BY <1>1, <1>2 DEF Active, NoFin

LEMMA AckedCarried ==
  ASSUME FitsSent, WindowOpen, NEW m \in Machines, Told(m), NEW A, Active(m, A),
         NEW s \in SegType, Says(s, A), \A i \in ChunkSizes \cup {0} : i < m.c.wnd, ~Stale(m.c, s),
         NEW r \in Reactions, A \subseteq Nat
  PROVE  LET new == Acked(m, s, r)
         IN  /\ Active(new, A) \/ (new.c.dying /\ Faithful(new.wire))
             /\ new.app.done = m.app.done \/ new.app.done \in A
<1> DEFINE k == m.c
           more == [m EXCEPT !.c = [@ EXCEPT !.rexmit = FALSE, !.wait = FALSE, !.acked = s.ack]]
           sent == [more EXCEPT !.c.tx = 0, !.c.txlen = 0, !.app.done = @ + k.txlen]
           back == [m EXCEPT !.c.acked = s.ack, !.c.rexmit = TRUE]
           new == Acked(m, s, r)
           Goal == /\ Active(new, A) \/ (new.c.dying /\ Faithful(new.wire))
                   /\ new.app.done = m.app.done \/ new.app.done \in A
<1> SUFFICES Goal
  OBVIOUS
<1>1. PICK l \in Positions, a \in Positions, t \in Positions :
        Chunk(k, m.app, l, a, t) /\ Bounded(m, A, l, t)
  BY DEF Active
<1>2. PICK n \in A : s.ack = LSeq(n) /\ Cut(k, l, t, n)
  BY <1>1 DEF Says, Bounded
<1>3. n \in Positions /\ n <= t
  <2>1. n \in Nat /\ n <= t
    BY <1>2 DEF Cut
  <2> QED
    BY <2>1, Constants DEF Positions
<1>4. k.acked = LSeq(a) /\ k.last = LSeq(l) /\ k.seq = LSeq(t) /\ l <= a /\ a <= t
  BY <1>1 DEF Chunk
<1>5. /\ SeqSub(s.ack, k.acked) = n - a /\ SeqSub(s.ack, k.last) = n - l
      /\ SeqSub(k.seq, k.acked) = t - a
  <2>1. \A i \in {n, a, l, t} : i \in 0 .. AppData + 1
    BY <1>3, Constants DEF Positions
  <2> QED
    BY <1>2, <1>4, <2>1, LSeqDistance
<1>6. n \in Int /\ a \in Int /\ l \in Int /\ t \in Int /\ k.txlen \in Nat
  BY <1>3, Constants DEF Positions, Machines, ConnType
<1>7. new = IF SeqSub(s.ack, k.acked) > 0
            THEN IF ChunkDone(k, s.ack) THEN React(Noted(sent), r) ELSE more
            ELSE IF k.seq = k.acked THEN m ELSE back
  BY DEF Acked
<1>8. k.seq = k.acked <=> t = a
  <2>1. k.seq = k.acked => SeqSub(k.seq, k.acked) = SeqSub(k.acked, k.acked)
    OBVIOUS
  <2>2. SeqSub(k.acked, k.acked) = a - a
    <3>1. a \in 0 .. AppData + 1
      BY Constants DEF Positions
    <3> QED
      BY <1>4, <3>1, LSeqDistance
  <2> QED
    BY <1>4, <1>5, <1>6, <2>1, <2>2
<1>a. \A i \in ChunkSizes \cup {0} : i < k.wnd
  OBVIOUS
<1>m. /\ more.wire = m.wire /\ more.app = m.app /\ more.c.status = k.status /\ more.c.dying = k.dying
      /\ more.c.seq = k.seq /\ more.c.last = k.last /\ more.c.acked = s.ack
      /\ more.c.tx = k.tx /\ more.c.txlen = k.txlen /\ ~more.c.rexmit
      /\ more.c.zw = k.zw /\ more.c.wnd = k.wnd /\ more \in Machines
  BY DEF Machines, ConnType, SegType
<1>b. /\ back.wire = m.wire /\ back.app = m.app /\ back.c.status = k.status /\ back.c.dying = k.dying
      /\ back.c.seq = k.seq /\ back.c.last = k.last /\ back.c.acked = s.ack
      /\ back.c.tx = k.tx /\ back.c.txlen = k.txlen /\ back.c.zw = k.zw /\ back.c.wnd = k.wnd
  BY DEF Machines, ConnType
<1> HIDE DEF new, more, back
<1>9. CASE n > a /\ n - l = k.txlen
  <2>1. k.tx # 0 /\ t = l + k.txlen /\ n = t /\ m.app.done = l
    BY <1>1, <1>2, <1>3, <1>6, <1>9 DEF Chunk, Cut, Edge, Positions
  <2>2. new = React(Noted(sent), r)
    BY <1>5, <1>6, <1>7, <1>9 DEF ChunkDone
  <2>3. /\ sent.wire = m.wire /\ sent.c.status = k.status /\ sent.c.dying = k.dying
        /\ sent.c.seq = k.seq /\ sent.c.last = k.last /\ sent.c.acked = s.ack
        /\ sent.c.tx = 0 /\ sent.c.txlen = 0 /\ ~sent.c.rexmit
        /\ sent.c.zw = k.zw /\ sent.c.wnd = k.wnd
        /\ sent.app.sent = m.app.sent /\ sent.app.done = m.app.done + k.txlen
        /\ sent.app.late = m.app.late /\ sent.app.final = m.app.final
    BY <1>m DEF Machines, ConnType, AppType
  <2>4. sent \in Machines
    <3>1. more.app.done + k.txlen \in Nat /\ 0 \in 0 .. AppData
      BY <1>6, <1>m, Constants DEF Machines, AppType
    <3> QED
      BY <1>m, <3>1 DEF Machines, ConnType, AppType
  <2> HIDE DEF sent
  <2>5. Room(sent.c, 0)
    <3>1. sent.c.wnd + 0 = sent.c.wnd
      BY <2>4 DEF Machines, ConnType
    <3> QED
      BY <1>a, <2>3, <3>1 DEF Room
  <2>6. sent.c.acked = m.c.seq /\ ~sent.c.zw
    BY <1>1, <1>2, <1>4, <2>1, <2>3 DEF Chunk
  <2>7. Active(sent, A)
    BY <1>1, <2>1, <2>3, <2>5, <2>6, ChunkSent
  <2>8. Told(sent)
    BY <2>3 DEF Told
  <2>9. Carried(sent, A, new)
    BY <2>2, <2>4, <2>7, <2>8, NotedReact
  <2>10. sent.app.done = n
    BY <2>1, <2>3
  <2> QED
    BY <1>2, <2>9, <2>10 DEF Carried
<1>10. CASE n > a /\ n - l # k.txlen
  <2>1. k.tx # 0 /\ OnGrid(l, n) /\ l <= n /\ n < l + k.txlen
    <3>1. k.tx # 0
      BY <1>1, <1>3, <1>6, <1>10 DEF Chunk
    <3>2. n <= l + k.txlen
      BY <1>1, <1>3, <1>6, <3>1 DEF Chunk
    <3> QED
      BY <1>2, <1>4, <1>6, <1>10, <3>1, <3>2 DEF Cut, Edge
  <2>2. new = more
    BY <1>5, <1>6, <1>7, <1>10 DEF ChunkDone
  <2>3. Active(more, A)
    BY <1>1, <1>2, <1>3, <1>m, <2>1, ChunkAcked
  <2> QED
    BY <1>m, <2>2, <2>3
<1>11. CASE n <= a /\ t = a
  BY <1>5, <1>6, <1>7, <1>8, <1>11
<1>12. CASE n <= a /\ t # a
  <2>1. new = back
    BY <1>5, <1>6, <1>7, <1>8, <1>12
  <2>2. k.tx # 0 /\ a < t /\ a < l + k.txlen
    BY <1>1, <1>4, <1>6, <1>12 DEF Chunk
  <2>3. l <= n
    BY <1>5, <1>6, <1>12 DEF Stale
  <2>4. OnGrid(l, n)
    <3>1. n = l => OnGrid(l, n)
      BY <1>6, GridFirst
    <3>2. n # l + k.txlen
      BY <1>6, <1>12, <2>2
    <3> QED
      BY <1>2, <1>6, <2>2, <2>3, <3>1, <3>2 DEF Cut, Edge
  <2>5. n < l + k.txlen /\ n < t
    BY <1>6, <1>12, <2>2
  <2>6. Active(back, A)
    BY <1>1, <1>2, <1>3, <1>b, <2>2, <2>3, <2>4, <2>5, ChunkAcked
  <2> QED
    BY <1>b, <2>1, <2>6
<1> QED
  BY <1>6, <1>9, <1>10, <1>11, <1>12

\* What a segment leaves of the sending side
Left(m, A, new) ==
  /\ Active(new, A) \/ (Over(new) /\ Faithful(new.wire))
  /\ new.app.done = m.app.done \/ new.app.done \in A

LEMMA ReceivedCarried ==
  ASSUME FitsSent, NEW m \in Machines, Told(m), NEW A, Active(m, A), NEW s \in SegType,
         NEW n \in Nat, NEW r \in Reactions
  PROVE  Carried(m, A, Received(m, s, n, r))
<1> DEFINE got == Got1(m, s, n)  new == React(Noted(got), r)
<1>1. CASE n = 0
  BY <1>1 DEF Received, Carried
<1>2. CASE n # 0
  <2>1. Received(m, s, n, r) = new
    BY <1>2 DEF Received, Got1
  <2>2. got \in Machines /\ got.app.late = m.app.late /\ got.app.final = m.app.final
    BY GotFields
  <2>3. Same(m, got)
    <3> DEFINE q == m.app.delivered \o Run(s.off + s.len - n, n)  p == SeqAdd(m.c.pseq, n)
               g == [m EXCEPT !.c.pseq = p, !.c.ackFlag = TRUE, !.app.delivered = q]
    <3>1. got = g
      BY DEF Got1
    <3> HIDE DEF p, q
    <3>2. Same(m, g)
      BY DEF Same, Machines, ConnType, AppType
    <3> QED
      BY <3>1, <3>2
  <2> HIDE DEF got
  <2>4. Active(got, A) /\ Told(got) /\ got.app.done = m.app.done
    BY <2>2, <2>3, SameActive DEF Told, Same
  <2>5. Carried(got, A, new)
    BY <2>2, <2>4, NotedReact
  <2> HIDE DEF new
  <2> QED
    BY <2>1, <2>4, <2>5 DEF Carried
<1> QED
  BY <1>1, <1>2

LEMMA EstablishedLeft ==
  ASSUME FitsSent, WindowOpen, NEW m \in Machines, Told(m), NEW A, A \subseteq Nat,
         Active(m, A), NEW s \in SegType, Says(s, A), NEW r1 \in Reactions, NEW r2 \in Reactions
  PROVE  Left(m, A, Established(m, s, r1, r2))
<1> DEFINE n == NewData(m.c, s)
           now  == [m EXCEPT !.c = Window(@, s)]
           ackd == Acked(now, s, r1)
           data == Received(ackd, s, n, r2)
           last == [Noted(data) EXCEPT !.c.status = "CLOSE_WAIT"]
           new  == Established(m, s, r1, r2)
<1>0. ~m.c.dying
  BY DEF Active
<1>1. now \in Machines /\ Told(now) /\ ~now.c.dying
  BY <1>0, WindowFields DEF Told
<1>2. n \in Nat
  BY NewDataTyped DEF Machines
<1>3. /\ Active(now, A) /\ now.app = m.app /\ now.c.acked = m.c.acked /\ now.c.last = m.c.last
  BY WindowActive DEF Says
<1>4. \A i \in ChunkSizes \cup {0} : i < now.c.wnd
  <2>1. now.c.wnd = s.wnd
    BY DEF Window, Machines, ConnType
  <2> QED
    BY <2>1 DEF WindowOpen, Says
<1>5. \/ Stale(m.c, s) /\ new = now
      \/ ~Stale(m.c, s) /\ ackd.c.dying /\ new = ackd
      \/ ~Stale(m.c, s) /\ ~ackd.c.dying /\ (data.c.dying \/ ~s.fin) /\ new = data
      \/ ~Stale(m.c, s) /\ ~ackd.c.dying /\ ~data.c.dying /\ s.fin /\ new = last
  BY DEF Established
<1> HIDE DEF n, now
<1>6. CASE Stale(m.c, s)
  BY <1>3, <1>5, <1>6 DEF Left
<1>7. CASE ~Stale(m.c, s)
  <2>1. ~Stale(now.c, s)
    BY <1>3, <1>7 DEF Stale
  <2>2. /\ Active(ackd, A) \/ (ackd.c.dying /\ Faithful(ackd.wire))
        /\ ackd.app.done = m.app.done \/ ackd.app.done \in A
    BY <1>1, <1>3, <1>4, <2>1, AckedCarried
  <2>3. ackd \in Machines /\ Told(ackd)
    BY <1>1, AliveAcked
  <2> HIDE DEF ackd
  <2>4. CASE ackd.c.dying
    BY <1>5, <1>7, <2>2, <2>4 DEF Left, Over, Active
  <2>5. CASE ~ackd.c.dying
    <3>1. Active(ackd, A)
      BY <2>2, <2>5
    <3>2. Carried(ackd, A, data)
      BY <1>2, <2>3, <3>1, ReceivedCarried
    <3>3. data \in Machines /\ Told(data)
      BY <1>2, <2>3, <2>5, AliveReceived
    <3> HIDE DEF data
    <3>4. data.app.done = m.app.done \/ data.app.done \in A
      BY <2>2, <3>2 DEF Carried
    <3>5. CASE data.c.dying \/ ~s.fin
      BY <1>5, <1>7, <2>5, <3>2, <3>4, <3>5 DEF Left, Carried, Over
    <3>6. CASE ~data.c.dying /\ s.fin
      <4> DEFINE k == Noted(data)
      <4>1. k \in Machines /\ Active(k, A) /\ k.app.done = data.app.done
        BY <3>2, <3>3, <3>6, NotedFields, NotedSame, SameActive, DoneStays DEF Carried
      <4>2. Faithful(k.wire)
        BY <4>1, ActiveFaithful
      <4> HIDE DEF k
      <4>3. last = [k EXCEPT !.c.status = "CLOSE_WAIT"]
        BY DEF k
      <4>4. last.c.status = "CLOSE_WAIT" /\ last.wire = k.wire /\ last.app = k.app
        BY <4>1, <4>3 DEF Machines, ConnType
      <4> HIDE DEF last
      <4>5. new = last
        BY <1>5, <1>7, <2>5, <3>6
      <4> QED
        BY <3>4, <4>1, <4>2, <4>4, <4>5 DEF Left, Over, Handshake
    <3> QED
      BY <3>5, <3>6
  <2> QED
    BY <2>4, <2>5
<1> QED
  BY <1>6, <1>7

LEMMA NewConnectionCarried ==
  ASSUME FitsSent, NEW m \in Machines, Told(m), NEW A, Active(m, A), NEW r \in Reactions
  PROVE  Carried(m, A, NewConnection(m, r))
<1> DEFINE had  == m.c.pdata \/ r # ResetConn
           born == [m EXCEPT !.c.pdata = had, !.app.born = had]
           new  == React(Noted(born), r)
<1>1. had \in BOOLEAN
  OBVIOUS
<1>2. NewConnection(m, r) = new
  BY DEF NewConnection
<1> HIDE DEF had
<1>3. /\ born \in Machines /\ Same(m, born)
      /\ born.app.late = m.app.late /\ born.app.final = m.app.final
  BY <1>1 DEF Machines, ConnType, AppType, Same
<1> HIDE DEF born
<1>4. Told(born) /\ Active(born, A) /\ born.app.done = m.app.done
  BY <1>3, SameActive DEF Told, Same
<1>5. Carried(born, A, new)
  BY <1>3, <1>4, NotedReact
<1> HIDE DEF new
<1> QED
  BY <1>2, <1>4, <1>5 DEF Carried

LEMMA HandshakeDoneCarried ==
  ASSUME FitsSent, WindowOpen, NEW m \in Machines, Told(m), NEW A, Opening(m, A),
         NEW s \in SegType, s.wnd \in Windows, NEW r \in Reactions,
         m.c.status = "SYN_RCVD" \/ (m.c.status = "SYN_SENT" /\ s.syn)
  PROVE  Carried(m, A, HandshakeDone(m, s, r))
<1> DEFINE sent == m.c.status = "SYN_SENT"
           seq  == SeqAdd(m.c.seq, 1)
           pseq == SeqAdd(IF sent THEN s.seq ELSE m.c.pseq, 1)
           wnd  == IF sent THEN s.wnd ELSE m.c.wnd
           up   == [m EXCEPT !.c = [@ EXCEPT !.pseq = pseq, !.wnd = wnd, !.seq = seq,
                      !.last = seq, !.acked = seq, !.status = "ESTABLISHED"]]
           put  == IF sent THEN SendCtl(up, "ACK", pseq) ELSE up
<1>1. pseq \in Seqs /\ wnd \in Int /\ seq \in Seqs
  <2>1. m.c.pseq \in Int /\ s.seq \in Int /\ wnd \in Int /\ m.c.seq \in Int
    BY DEF Machines, ConnType, SegType, Seqs
  <2> QED
    BY <2>1, SeqAddTyped
<1>2. HandshakeDone(m, s, r) = NewConnection(put, r)
  BY DEF HandshakeDone
<1>3. seq = LSeq(0)
  BY LSeqFirst DEF Opening
<1>4. \A j \in ChunkSizes \cup {0} : j < wnd
  <2>1. CASE sent
    BY <2>1 DEF WindowOpen
  <2>2. CASE ~sent
    <3>1. Room(m.c, 0) /\ m.c.wnd + 0 = m.c.wnd
      BY <2>2 DEF Opening, Machines, ConnType
    <3> QED
      BY <2>2, <3>1 DEF Room
  <2> QED
    BY <2>1, <2>2
<1> HIDE DEF sent, seq, pseq, wnd
<1>5. /\ up.c.status = "ESTABLISHED" /\ up.c.dying = m.c.dying /\ up.app = m.app /\ up.wire = m.wire
      /\ up.c.seq = seq /\ up.c.last = seq /\ up.c.acked = seq /\ up.c.wnd = wnd
      /\ up.c.tx = m.c.tx /\ up.c.txlen = m.c.txlen /\ up.c.rexmit = m.c.rexmit
      /\ up.c.zw = m.c.zw /\ up \in Machines
  BY <1>1 DEF Machines, ConnType, States
<1> HIDE DEF up
<1>6. Chunk(up.c, up.app, 0, 0, 0) /\ 0 \in Positions
  <2>1. Room(up.c, 0)
    <3>1. up.c.wnd + 0 = wnd
      BY <1>1, <1>5
    <3> QED
      BY <1>4, <3>1 DEF Room
  <2>2. 0 \in Positions /\ 0 <= 0
    BY Constants DEF Positions
  <2> QED
    BY <1>3, <1>5, <2>1, <2>2 DEF Chunk, Opening
<1>7. /\ put \in Machines /\ put.c = up.c /\ put.app = m.app
      /\ \A x \in put.wire : x.kind # "FIN" /\ ~Loaded(x)
  <2>1. \A x \in up.wire : x.kind # "FIN" /\ ~Loaded(x)
    BY <1>5 DEF Opening, Loaded
  <2>2. CASE sent
    <3> DEFINE x == [kind |-> "ACK", seq |-> up.c.seq, ack |-> pseq, off |-> 0, len |-> 0]
               p == SendCtl(up, "ACK", pseq)
    <3>1. p \in Machines /\ p.c = up.c /\ p.app = up.app /\ p.wire = up.wire \cup {x}
      BY <1>1, <1>5, SendCtlFields
    <3>2. put = p
      BY <2>2
    <3>3. x.kind = "ACK" /\ x.len = 0
      OBVIOUS
    <3> HIDE DEF x, p
    <3> QED
      BY <1>5, <2>1, <3>1, <3>2, <3>3 DEF Loaded
  <2> QED
    BY <1>5, <2>1, <2>2
<1> HIDE DEF put
<1>8. Bounded(put, A, 0, 0)
  BY <1>7 DEF Bounded, Opening, Cut
<1>9. Active(put, A)
  BY <1>5, <1>6, <1>7, <1>8 DEF Active, NoFin, Opening
<1>10. Told(put)
  BY <1>5, <1>7 DEF Told, Opening
<1>11. Carried(put, A, NewConnection(put, r))
  BY <1>7, <1>9, <1>10, NewConnectionCarried
<1> QED
  BY <1>2, <1>7, <1>11 DEF Carried

----------------------------------------------------------------------------
(* What mtk_receive_tcp leaves of the sending side                          *)

TxKept(m, A, new) ==
  Tx(new, A) /\ (new.app.done = m.app.done \/ (~Over(m) /\ new.app.done \in A))

TxStays(m, A, new) == Tx(new, A) /\ new.app.done = m.app.done

LEMMA CarriedTx ==
  ASSUME NEW m, NEW A, NEW new, Carried(m, A, new)
  PROVE  TxKept(m, A, new)
BY DEF Carried, TxKept, Tx, Over

LEMMA LeftTx ==
  ASSUME NEW m, NEW A, NEW new, ~Over(m), Left(m, A, new)
  PROVE  TxKept(m, A, new)
BY DEF Left, TxKept, Tx

LEMMA TxFaithful == ASSUME NEW m, NEW A, Tx(m, A) PROVE Faithful(m.wire)
BY ActiveFaithful DEF Tx, Opening, Faithful, Loaded

\* A step that only ends the connection
LEMMA EndedTx ==
  ASSUME NEW m, NEW A, Tx(m, A), NEW new, Quiet(m, new), new.c.dying, new.app.done = m.app.done
  PROVE  TxKept(m, A, new)
<1>1. Faithful(new.wire)
  BY TxFaithful, QuietFaithful
<1> QED
  BY <1>1 DEF TxKept, Tx, Over

Late(m) == m.c.status \notin Handshake \cup {"ESTABLISHED"}

LEMMA LateSegment ==
  ASSUME NEW m \in Machines, Told(m), ~m.c.dying, Late(m), NEW s \in SegType,
         NEW r1 \in Reactions, NEW r2 \in Reactions
  PROVE  LET new == Segment(m, s, r1, r2)
         IN  new.app.done = m.app.done /\ Late(new) /\ \A x \in new.wire : x \in m.wire \/ ~Loaded(x)
<1> DEFINE k == m.c
           new == Segment(m, s, r1, r2)
           Goal == /\ new.app.done = m.app.done /\ Late(new)
                   /\ \A x \in new.wire : x \in m.wire \/ ~Loaded(x)
<1> SUFFICES Goal
  OBVIOUS
<1>0. k \in ConnType /\ k.status \in States \ (Handshake \cup {"ESTABLISHED"})
  BY DEF Machines, ConnType, Late
<1> DEFINE w == FinWait1(k, s)
<1>1. \/ new = m
      \/ new = Finish(m)
      \/ k.status = "FIN_WAIT_1" /\ new = [m EXCEPT !.c = w]
      \/ new = [m EXCEPT !.c.status = "TIME_WAIT"]
      \/ new = [m EXCEPT !.c.status = "TIME_WAIT", !.c.seq = SeqAdd(@, 1)]
  BY <1>0 DEF Segment, States, Handshake
<1> HIDE DEF new
<1>2. CASE new = m
  BY <1>2
<1>3. CASE new = Finish(m)
  <2>1. Finish(m).app.done = m.app.done /\ Quiet(m, Finish(m))
    BY FinishDone, AliveFinish
  <2> QED
    BY <1>3, <2>1 DEF Quiet, Late, Loaded
<1>4. CASE k.status = "FIN_WAIT_1" /\ new = [m EXCEPT !.c = w]
  <2>1. w \in ConnType /\ w.status \in {"TIME_WAIT", "CLOSING", "FIN_WAIT_1", "FIN_WAIT_2"}
    BY <1>0, <1>4, FinWait1Fields
  <2> HIDE DEF w
  <2>2. new.c = w /\ new.app = m.app /\ new.wire = m.wire
    BY <1>4 DEF Machines
  <2> QED
    BY <2>1, <2>2 DEF Late, Handshake
<1>5. CASE new = [m EXCEPT !.c.status = "TIME_WAIT"]
  <2>1. new.c.status = "TIME_WAIT" /\ new.app = m.app /\ new.wire = m.wire
    BY <1>5 DEF Machines, ConnType
  <2> QED
    BY <2>1 DEF Late, Handshake
<1>6. CASE new = [m EXCEPT !.c.status = "TIME_WAIT", !.c.seq = SeqAdd(@, 1)]
  <2>1. new.c.status = "TIME_WAIT" /\ new.app = m.app /\ new.wire = m.wire
    BY <1>6 DEF Machines, ConnType
  <2> QED
    BY <2>1 DEF Late, Handshake
<1> QED
  BY <1>1, <1>2, <1>3, <1>4, <1>5, <1>6

LEMMA SegmentTx ==
  ASSUME FitsSent, WindowOpen, NEW m \in Machines, Told(m), ~m.c.dying, NEW A, A \subseteq Nat,
         Tx(m, A), NEW s \in SegType, Says(s, A), NEW r1 \in Reactions, NEW r2 \in Reactions
  PROVE  TxKept(m, A, Segment(m, s, r1, r2))
<1> DEFINE k == m.c
           new == Segment(m, s, r1, r2)
           open == s.ackbit \/ k.status \in {"FIN_WAIT_1", "FIN_WAIT_2"}
<1>0. k \in ConnType /\ k.status \in States /\ k.pseq \in Seqs
  BY DEF Machines, ConnType
<1>1. CASE new = m
  BY <1>1 DEF TxKept
<1>2. CASE open /\ k.status = "SYN_SENT" /\ ~s.syn
  <2> DEFINE rst == SendCtl(m, "RST", k.pseq)  b == Ended(Noted(rst))
  <2>1. new = Zombify(Ended(Noted(rst)))
    BY <1>2 DEF Segment
  <2>2. rst \in Machines /\ Quiet(m, rst) /\ rst.c = m.c /\ rst.app = m.app
    BY <1>0, RstQuiet
  <2> HIDE DEF rst
  <2>3. Told(rst) /\ ~rst.c.dying
    BY <2>2 DEF Told
  <2>4. LET n == Zombify(Ended(Noted(rst))) IN n \in Machines /\ Told(n) /\ Quiet(rst, n) /\ n.c.dying
    BY <2>2, <2>3, AliveTold
  <2>5. Noted(rst) \in Machines /\ Noted(rst).app.done = m.app.done
    BY <2>2, NotedFields, DoneStays
  <2>6. Ended(Noted(rst)) \in Machines /\ Ended(Noted(rst)).app.done = m.app.done
    BY <2>5, EndedFields, DoneStays
  <2>7. Zombify(Ended(Noted(rst))).app.done = m.app.done
    BY <2>6, DoneStays
  <2> QED
    BY <2>1, <2>2, <2>4, <2>7, QuietTwice, EndedTx
<1>3. CASE open /\ k.status \in {"SYN_SENT", "SYN_RCVD"} /\ (s.syn \/ k.status = "SYN_RCVD")
  <2> DEFINE up == HandshakeDone(m, s, r1)
  <2>1. up \in Machines /\ Told(up)
    BY <1>3, AliveHandshakeDone
  <2>2. new = IF up.c.dying \/ s.len = 0 THEN up ELSE Established(up, s, Nothing, r2)
    BY <1>3 DEF Segment
  <2>3. Carried(m, A, up)
    <3>1. Opening(m, A)
      BY <1>3 DEF Tx, Active, Over, Handshake
    <3> QED
      BY <1>3, <3>1, HandshakeDoneCarried DEF Says
  <2> HIDE DEF up, new
  <2>4. CASE up.c.dying \/ s.len = 0
    BY <2>2, <2>3, <2>4, CarriedTx DEF new
  <2>5. CASE ~up.c.dying /\ s.len # 0
    <3>1. Nothing \in Reactions
      BY DEF Reactions
    <3>2. Active(up, A) /\ up.app.done = m.app.done
      BY <2>3, <2>5 DEF Carried
    <3> DEFINE e == Established(up, s, Nothing, r2)
    <3>3. Left(up, A, e)
      BY <2>1, <3>1, <3>2, EstablishedLeft
    <3>4. new = e
      BY <2>2, <2>5
    <3> HIDE DEF e
    <3>5. Left(m, A, new)
      BY <3>2, <3>3, <3>4 DEF Left
    <3>6. ~Over(m)
      BY <1>3 DEF Over, Handshake
    <3> QED
      BY <3>5, <3>6, LeftTx DEF new
  <2> QED
    BY <2>4, <2>5 DEF new
<1>4. CASE open /\ k.status = "ESTABLISHED"
  <2>1. new = Established(m, s, r1, r2)
    BY <1>4 DEF Segment
  <2>2. Active(m, A) /\ ~Over(m)
    BY <1>4 DEF Tx, Opening, Over, Handshake
  <2>3. Left(m, A, Established(m, s, r1, r2))
    BY <2>2, EstablishedLeft
  <2> QED
    BY <2>1, <2>2, <2>3, LeftTx
<1>5. CASE Late(m)
  <2>1. new.app.done = m.app.done /\ Late(new) /\ \A x \in new.wire : x \in m.wire \/ ~Loaded(x)
    BY <1>5, LateSegment
  <2> HIDE DEF new
  <2>2. Faithful(new.wire)
    BY <2>1, TxFaithful DEF Faithful
  <2> QED
    BY <2>1, <2>2 DEF TxKept, Tx, Over, Late, new
<1>6. new = m \/ open
  BY DEF Segment
<1>7. k.status = "CONNECT" => new = m
  BY DEF Segment
<1> QED
  BY <1>0, <1>1, <1>2, <1>3, <1>4, <1>5, <1>6, <1>7 DEF States, Late, Handshake

LEMMA CreateOpening ==
  ASSUME WindowOpen, NEW m \in Machines, NEW s \in SegType, s.wnd \in Windows
  PROVE  LET new == Create(m, s) IN Opening(new, {0}) /\ new.app.done = 0
<1> DEFINE k == NewConn("SYN_RCVD", s.seq, s.wnd, FALSE)
           a == [NewApp EXCEPT !.lost = m.app.lost]
           x == [kind |-> "SYNACK", seq |-> k.seq, ack |-> SeqAdd(s.seq, 1), off |-> 0, len |-> 0]
<1>1. Create(m, s) = [c |-> k, app |-> a, wire |-> {x}]
  BY DEF Create
<1>2. /\ k.status = "SYN_RCVD" /\ ~k.dying /\ k.seq = LocalIsn /\ k.tx = 0 /\ k.txlen = 0
      /\ ~k.rexmit /\ ~k.zw /\ k.wnd = s.wnd
  BY DEF NewConn
<1>3. a.sent = 0 /\ a.done = 0
  BY DEF NewApp
<1>4. x.kind = "SYNACK"
  OBVIOUS
<1> HIDE DEF k, a, x
<1>5. Room(k, 0)
  <2>1. k.wnd + 0 = s.wnd
    BY <1>2 DEF SegType
  <2> QED
    BY <2>1 DEF Room, WindowOpen
<1> QED
  BY <1>1, <1>2, <1>3, <1>4, <1>5 DEF Opening, Handshake

LEMMA ReceiveTx ==
  ASSUME FitsSent, WindowOpen, NEW m \in Machines, Told(m), NEW A, A \subseteq Nat, Tx(m, A),
         NEW s \in SegType, Says(s, A), s.syn /\ ~s.ackbit => A = {0},
         NEW r1 \in Reactions, NEW r2 \in Reactions
  PROVE  LET new == Receive(m, s, r1, r2) IN Tx(new, A) /\ Counted(m, A, new)
<1> DEFINE syn == s.syn /\ ~s.ackbit
           old == syn /\ Conn /\ m.c.status \notin {"SYN_SENT", "SYN_RCVD"}
           rst == SendCtl(m, "RST", m.c.pseq)
           m1  == IF old THEN Zombify(rst) ELSE m
           new == Receive(m, s, r1, r2)
           Goal == Tx(new, A) /\ Counted(m, A, new)
<1> SUFFICES Goal
  OBVIOUS
<1>1. m1 \in Machines /\ TxKept(m, A, m1) /\ IF old THEN m1.c.dying ELSE m1 = m
  <2>1. CASE old
    <3>1. rst \in Machines /\ Quiet(m, rst) /\ rst.app = m.app
      BY RstQuiet DEF Machines, ConnType
    <3> HIDE DEF rst
    <3>2. Zombify(rst) \in Machines /\ Quiet(rst, Zombify(rst)) /\ Zombify(rst).c.dying
      BY <3>1, ZombifyFields
    <3>3. Zombify(rst).app.done = m.app.done
      BY <3>1, DoneStays
    <3>4. m1 = Zombify(rst)
      BY <2>1
    <3> QED
      BY <2>1, <3>1, <3>2, <3>3, <3>4, QuietTwice, EndedTx
  <2> QED
    BY <2>1 DEF TxKept
<1>2. ~m1.c.dying => ~old /\ m1 = m
  BY <1>1
<1>3. /\ m1.c.dying => new = IF syn /\ listen THEN Create(m1, s) ELSE m1
      /\ ~m1.c.dying /\ s.rst => new = IF m.c.status = "SYN_RCVD" THEN Zombify(m) ELSE Finish(m)
      /\ ~m1.c.dying /\ ~s.rst => new = Segment(m, s, r1, r2)
  BY <1>2 DEF Receive
<1> HIDE DEF m1, new
<1>4. CASE m1.c.dying
  <2>1. CASE syn /\ listen
    <3>1. Opening(Create(m1, s), {0}) /\ Create(m1, s).app.done = 0
      BY <1>1, CreateOpening DEF Says
    <3> QED
      BY <1>3, <1>4, <2>1, <3>1 DEF Tx, Counted
  <2>2. CASE ~(syn /\ listen)
    <3>1. new = m1
      BY <1>3, <1>4, <2>2
    <3> QED
      BY <1>1, <3>1 DEF TxKept, Counted
  <2> QED
    BY <2>1, <2>2
<1>5. CASE ~m1.c.dying /\ s.rst
  <2>1. new \in {Zombify(m), Finish(m)} /\ ~m.c.dying
    BY <1>2, <1>3, <1>5
  <2>2. Quiet(m, new) /\ new.c.dying /\ new.app.done = m.app.done
    BY <2>1, AliveZombify, AliveFinish, DoneStays, FinishDone
  <2> QED
    BY <2>2, EndedTx DEF TxKept, Counted
<1>6. CASE ~m1.c.dying /\ ~s.rst
  <2>1. TxKept(m, A, Segment(m, s, r1, r2))
    BY <1>2, <1>6, SegmentTx
  <2> QED
    BY <1>3, <1>6, <2>1 DEF TxKept, Counted
<1> QED
  BY <1>4, <1>5, <1>6

----------------------------------------------------------------------------
(* The peer                                                                 *)

\* What the peer has of the stream, and what it acknowledged
Taken ==
  /\ peer.rcvd = Stream(Len(peer.rcvd)) /\ Len(peer.rcvd) <= AppData
  /\ 0 \in peer.acks /\ peer.acks \subseteq 0 .. Got
  /\ peer.fin => Over(Machine)
  /\ peer.st \in {"idle", "synsent", "synrcvd"} => peer.rcvd = <<>> /\ ~peer.fin

LEMMA FirstSegSays ==
  ASSUME 0 \in peer.acks
  PROVE  FirstSeg.wnd \in Windows /\ FirstSeg.ack = LSeq(0)
<1> DEFINE wnd == CHOOSE w \in Windows : \A v \in Windows : v <= w
<1>1. wnd \in Windows
  BY TcpAssumption
<1> HIDE DEF wnd
<1>2. FirstSeg = Seg(0, 0, FALSE, 0, wnd)
  BY DEF FirstSeg, wnd
<1> QED
  BY <1>1, <1>2 DEF Seg

LEMMA SegmentSays ==
  ASSUME NEW s \in Segments
  PROVE  Says(s, peer.acks) /\ Says(Bare(s), peer.acks)
<1>1. PICK t \in (0 .. PeerData) \X (0 .. PeerMss) \X BOOLEAN \X peer.acks \X Windows :
        s = Seg(t[1] - t[2], t[2], t[3], t[4], t[5])
  BY DEF Segments
<1>2. t[4] \in peer.acks /\ t[5] \in Windows
  OBVIOUS
<1>3. s.ack = LSeq(t[4]) /\ s.wnd = t[5]
  BY <1>1 DEF Seg
<1>4. Bare(s).ack = s.ack /\ Bare(s).wnd = s.wnd
  BY <1>1 DEF Seg, Bare
<1> QED
  BY <1>2, <1>3, <1>4 DEF Says

LEMMA InFlightSays ==
  ASSUME peer \in PeerType, 0 \in peer.acks, NEW s \in InFlight
  PROVE  Says(s, peer.acks)
<1>1. /\ Syn.wnd = FirstSeg.wnd /\ Syn.ack = FirstSeg.ack
      /\ Bare(Syn).wnd = FirstSeg.wnd /\ Bare(Syn).ack = FirstSeg.ack
      /\ [FirstSeg EXCEPT !.rst = TRUE].wnd = FirstSeg.wnd
      /\ [FirstSeg EXCEPT !.rst = TRUE].ack = FirstSeg.ack
  BY DEF Syn, Bare, FirstSeg, Seg
<1>2. \/ s \in Segments \/ (\E x \in Segments : s = Bare(x))
      \/ s \in {Syn, Bare(Syn), [FirstSeg EXCEPT !.rst = TRUE]}
  BY DEF InFlight, PeerType
<1>3. s \in {Syn, Bare(Syn), [FirstSeg EXCEPT !.rst = TRUE]} => Says(s, peer.acks)
  BY <1>1, FirstSegSays DEF Says
<1> QED
  BY <1>2, <1>3, SegmentSays

LEMMA SynFirst ==
  ASSUME peer \in PeerType, Taken, NEW s \in InFlight, s.syn, ~s.ackbit
  PROVE  peer.acks = {0}
<1>1. peer.st = "synsent"
  BY InFlightPlaced DEF Placed
<1>2. Got = 0
  <2>1. Len(peer.rcvd) = 0
    BY <1>1 DEF Taken
  <2> QED
    BY <1>1, <2>1 DEF Got, Taken
<1>3. peer.acks \subseteq {0}
  BY <1>2 DEF Taken
<1> QED
  BY <1>3 DEF Taken

----------------------------------------------------------------------------
(* mtk_tcp_conn_check on an established connection                           *)

LEMMA ChunkWindow ==
  ASSUME NEW k \in ConnType, NEW u, NEW l \in Positions, NEW a \in Positions, NEW s \in Positions,
         Chunk(k, u, l, a, s)
  PROVE  /\ k.wnd > 0
         /\ k.txlen < k.wnd + (s - l)
<1>1. k.txlen \in ChunkSizes \cup {0} /\ k.wnd \in Int /\ k.txlen \in Nat
  BY Constants DEF ConnType
<1>2. l \in Int /\ s \in Int /\ l <= s /\ a \in Int
  BY Constants DEF Positions, Chunk
<1>3. CASE k.tx = 0
  <2>1. 0 < k.wnd + 0 /\ k.txlen = 0
    BY <1>3 DEF Chunk, Room
  <2> QED
    BY <1>1, <1>2, <2>1
<1>4. CASE k.tx # 0
  <2>1. k.txlen < k.wnd + (s - l) /\ s <= l + k.txlen
    BY <1>1, <1>4 DEF Chunk, Room
  <2> QED
    BY <1>1, <1>2, <2>1
<1> QED
  BY <1>3, <1>4

LEMMA ChunkLens ==
  ASSUME FitsSent, NEW k, NEW u, NEW l \in Positions, NEW a \in Positions, NEW s \in Positions,
         Chunk(k, u, l, a, s)
  PROVE  SentLen(k) = s - l /\ AckedLen(k) = a - l
<1>1. \A i \in {a, l, s} : i \in 0 .. AppData + 1
  BY Constants DEF Positions
<1> QED
  BY <1>1, LSeqDistance DEF Chunk, SentLen, AckedLen

\* The segment of the work, if any, has units of the stream and ends where one may
Cutting(w, l, s) ==
  w.len > 0 => \E p \in Positions : w.seq = LSeq(p) /\ w.off = p + 1 /\ p + w.len <= AppData
                                    /\ Cut(w.c, l, s, p + w.len)

\* The work on the chunk of k, of which s was sent before
Worked(k, w, u, l, a, s) ==
  /\ w.c.tx = k.tx /\ w.c.txlen = k.txlen
  /\ \E t \in Positions : s <= t /\ Chunk(w.c, u, l, a, t) /\ Cutting(w, l, t)

\* A segment from position p, in a chunk that continues there
LEMMA NextCut ==
  ASSUME NEW k \in ConnType, NEW l \in Positions, NEW p \in Positions, l <= p,
         OnGrid(l, p), p < l + k.txlen, l + k.txlen <= AppData
  PROVE  LET n == Rest(k, p - l)
         IN  /\ n \in Nat \ {0} /\ n <= Mss /\ p + n \in Positions /\ p + n <= l + k.txlen
             /\ Edge(k, l, p + n)
<1>1. /\ k.txlen \in Nat /\ Mss \in Nat \ {0} /\ l \in Nat /\ p \in Nat /\ AppData \in Nat
  BY Constants DEF ConnType, Positions
<1> DEFINE n == Rest(k, p - l)
<1>2. n = IF k.txlen - (p - l) < Mss THEN k.txlen - (p - l) ELSE Mss
  BY <1>1 DEF Rest, Least
<1> HIDE DEF n
<1>3. n \in Nat \ {0} /\ n <= Mss /\ p + n <= l + k.txlen
  BY <1>1, <1>2
<1>4. p + n \in Positions
  BY <1>1, <1>3 DEF Positions
<1>5. Edge(k, l, p + n)
  <2>1. CASE n = Mss
    BY <1>1, <2>1, GridNext DEF Edge
  <2>2. CASE n # Mss
    BY <1>1, <1>2, <2>2 DEF Edge
  <2> QED
    BY <2>1, <2>2
<1> QED
  BY <1>3, <1>4, <1>5 DEF n

LEMMA SendNewWorked ==
  ASSUME FitsSent, NEW w \in WorkType, NEW u,
         NEW l \in Positions, NEW a \in Positions, NEW s \in Positions,
         Chunk(w.c, u, l, a, s), u.sent <= AppData, ~w.c.rexmit, w.c.txlen > SentLen(w.c), w.seq = w.c.seq
  PROVE  LET v == SendNew(w)
         IN  Worked(w.c, v, u, l, a, s) /\ ~v.c.rexmit /\ v.quit = w.quit
<1> DEFINE k == w.c  v == SendNew(w)  n == Rest(k, SentLen(k))  q == SeqAdd(k.seq, n)
           o == Payload(k, SentLen(k))
           j == [k EXCEPT !.seq = q, !.wnd = k.wnd - n, !.ackFlag = TRUE]
           on == [w EXCEPT !.c = j, !.off = o, !.len = n]
<1>1. k \in ConnType /\ SentLen(k) = s - l /\ k.txlen \in Nat /\ k.wnd \in Int
  BY Constants, ChunkLens DEF WorkType, ConnType
<1>2. l \in Nat /\ s \in Nat /\ a \in Nat /\ l <= a /\ a <= s
  BY Constants DEF Positions, Chunk
<1>3. k.tx # 0 /\ s < l + k.txlen /\ OnGrid(l, s) /\ k.tx = l + 1 /\ l + k.txlen <= AppData
  <2>1. s < l + k.txlen
    BY <1>1, <1>2
  <2>2. k.tx # 0
    BY <1>2, <2>1 DEF Chunk
  <2> QED
    BY <1>1, <1>2, <2>1, <2>2 DEF Chunk, Edge
<1>4. /\ n \in Nat \ {0} /\ s + n \in Positions /\ s + n <= l + k.txlen /\ Edge(k, l, s + n)
  BY <1>1, <1>2, <1>3, NextCut
<1>5. n < k.wnd
  <2>1. k.txlen < k.wnd + (s - l)
    BY <1>1, ChunkWindow
  <2> HIDE DEF n, k
  <2> QED
    BY <1>1, <1>2, <1>4, <2>1
<1>6. v = on
  <2>1. v = IF n >= k.wnd THEN [w EXCEPT !.c.zw = TRUE] ELSE on
    BY DEF SendNew
  <2> HIDE DEF n, k, v, on
  <2> QED
    BY <1>1, <1>4, <1>5, <2>1
<1>7. q = LSeq(s + n)
  <2>1. k.seq = LSeq(s)
    BY DEF Chunk
  <2> HIDE DEF n
  <2> QED
    BY <1>2, <1>4, <2>1, LSeqMore
<1>8. o = s + 1
  BY <1>1, <1>2, <1>3 DEF Payload
<1>k. w.seq = LSeq(s)
  BY DEF Chunk
<1>z. ~k.zw /\ k.last = LSeq(l) /\ k.acked = LSeq(a)
  BY DEF Chunk
<1>r. Room(k, s - l) /\ u.done = l /\ u.sent = l + k.txlen /\ k.txlen > 0 /\ a < l + k.txlen /\ OnGrid(l, a)
  BY <1>3 DEF Chunk
<1> HIDE DEF n, q, o, v
<1>9. /\ j.last = k.last /\ j.acked = k.acked /\ j.seq = LSeq(s + n) /\ j.tx = k.tx /\ j.txlen = k.txlen
      /\ j.wnd = k.wnd - n /\ j.zw = k.zw /\ j.rexmit = k.rexmit
  BY <1>1, <1>7 DEF ConnType
<1> HIDE DEF j
<1>10. on.c = j /\ on.off = o /\ on.len = n /\ on.seq = w.seq /\ on.quit = w.quit
  BY DEF WorkType
<1> HIDE DEF on
<1>11. Room(j, (s + n) - l)
  <2>1. \A i \in ChunkSizes \cup {0} : i \in Nat
    BY Constants
  <2> QED
    BY <1>1, <1>2, <1>4, <1>9, <1>r, <2>1 DEF Room
<1>12. Chunk(j, u, l, a, s + n)
  <2>1. a <= s + n /\ s + n <= u.sent
    BY <1>2, <1>4, <1>r
  <2>2. Edge(j, l, s + n)
    BY <1>4, <1>9 DEF Edge
  <2>3. /\ j.tx # 0 /\ j.tx = l + 1 /\ u.done = l /\ u.sent = l + j.txlen
        /\ j.txlen > 0 /\ a < l + j.txlen /\ ~j.rexmit /\ ~j.zw
    BY <1>3, <1>9, <1>r, <1>z
  <2>4. j.last = LSeq(l) /\ j.acked = LSeq(a) /\ j.seq = LSeq(s + n) /\ OnGrid(l, a)
    BY <1>9, <1>r, <1>z
  <2> HIDE DEF k, j
  <2> DEFINE t == s + n
  <2>5. Room(j, t - l) /\ Edge(j, l, t) /\ j.seq = LSeq(t) /\ a <= t /\ t <= u.sent
    BY <1>11, <2>1, <2>2, <2>4
  <2> HIDE DEF t
  <2>6. j.last = LSeq(l) /\ j.acked = LSeq(a) /\ l <= a
    BY <1>2, <2>4
  <2>7. Chunk(j, u, l, a, t)
    BY <2>3, <2>4, <2>5, <2>6 DEF Chunk
  <2> QED
    BY <2>7 DEF t
<1>13. Cutting(on, l, s + n)
  <2>1. Cut(j, l, s + n, s + n)
    BY <1>2, <1>4, <1>9 DEF Cut, Edge
  <2>2. s + n <= AppData
    BY <1>4, Constants DEF Positions
  <2> QED
    BY <1>8, <1>10, <1>k, <2>1, <2>2 DEF Cutting
<1>14. s <= s + n
  BY <1>2, <1>4
<1>15. Worked(k, on, u, l, a, s)
  BY <1>4, <1>9, <1>10, <1>12, <1>13, <1>14 DEF Worked
<1> QED
  BY <1>6, <1>9, <1>10, <1>15 DEF v

LEMMA ResendWorked ==
  ASSUME FitsSent, NEW w \in WorkType, NEW u,
         NEW l \in Positions, NEW a \in Positions, NEW s \in Positions,
         Chunk(w.c, u, l, a, s), u.sent <= AppData, w.c.rexmit
  PROVE  Worked(w.c, Resend(w), u, l, a, s)
<1> DEFINE k == w.c  n == Rest(k, AckedLen(k))  o == Payload(k, AckedLen(k))
           r == [w EXCEPT !.seq = k.acked, !.off = o, !.len = n,
                          !.c.ackFlag = TRUE, !.c.wait = TRUE]
<1>1. k \in ConnType /\ AckedLen(k) = a - l /\ k.txlen \in Nat
  BY Constants, ChunkLens DEF WorkType, ConnType
<1>2. l \in Nat /\ s \in Nat /\ a \in Nat /\ l <= a /\ a < s
  BY Constants DEF Positions, Chunk
<1>3. /\ k.tx # 0 /\ k.tx = l + 1 /\ a < l + k.txlen /\ OnGrid(l, a) /\ Edge(k, l, s)
      /\ l + k.txlen <= AppData /\ ~k.zw /\ k.acked = LSeq(a)
  BY <1>2 DEF Chunk
<1>4. /\ n \in Nat \ {0} /\ n <= Mss /\ a + n \in Positions /\ a + n <= l + k.txlen
      /\ Edge(k, l, a + n)
  BY <1>1, <1>2, <1>3, NextCut
<1>5. a + n <= s
  <2>1. CASE s = l + k.txlen
    BY <1>4, <2>1
  <2>2. CASE s # l + k.txlen
    <3>1. a + Mss <= s
      BY <1>2, <1>3, <2>2, GridGap DEF Edge
    <3> QED
      BY <1>2, <1>4, <3>1, Constants
  <2> QED
    BY <2>1, <2>2
<1>6. Resend(w) = r
  BY <1>3 DEF Resend
<1>7. o = a + 1
  BY <1>1, <1>2, <1>3 DEF Payload
<1> HIDE DEF n, o
<1>8. /\ r.c.last = k.last /\ r.c.acked = k.acked /\ r.c.seq = k.seq /\ r.c.tx = k.tx
      /\ r.c.txlen = k.txlen /\ r.c.wnd = k.wnd /\ r.c.zw = k.zw /\ r.c.rexmit = k.rexmit
      /\ r.seq = k.acked /\ r.off = o /\ r.len = n
  BY <1>1 DEF WorkType, ConnType
<1> HIDE DEF r
<1>9. Chunk(r.c, u, l, a, s)
  BY <1>8 DEF Chunk, Room, Edge
<1>10. Cutting(r, l, s)
  <2>1. Cut(r.c, l, s, a + n)
    BY <1>4, <1>5, <1>8 DEF Cut, Edge
  <2>2. a + n <= AppData
    BY <1>4, Constants DEF Positions
  <2> QED
    BY <1>3, <1>7, <1>8, <2>1, <2>2 DEF Cutting
<1> QED
  BY <1>2, <1>6, <1>8, <1>9, <1>10 DEF Worked

\* The chunk of the work, but for what sends it again
LEMMA SameWorked ==
  ASSUME NEW w \in WorkType, NEW u,
         NEW l \in Positions, NEW a \in Positions, NEW s \in Positions,
         Chunk(w.c, u, l, a, s), Cutting(w, l, s),
         NEW v, v.c.last = w.c.last, v.c.acked = w.c.acked, v.c.seq = w.c.seq, v.c.tx = w.c.tx,
         v.c.txlen = w.c.txlen, v.c.wnd = w.c.wnd, v.c.zw = w.c.zw, v.c.rexmit => w.c.rexmit \/ a < s,
         v.seq = w.seq, v.off = w.off, v.len = w.len
  PROVE  Worked(w.c, v, u, l, a, s)
<1>1. Chunk(v.c, u, l, a, s)
  BY DEF Chunk, Room, Edge
<1>2. Cutting(v, l, s)
  BY DEF Cutting, Cut, Edge
<1>3. s <= s
  BY Constants DEF Positions
<1> QED
  BY <1>1, <1>2, <1>3 DEF Worked

LEMMA TransmitWorked ==
  ASSUME FitsSent, NEW w \in WorkType, NEW u,
         NEW l \in Positions, NEW a \in Positions, NEW s \in Positions,
         Chunk(w.c, u, l, a, s), u.sent <= AppData, w.seq = w.c.seq, w.len = 0, ~w.quit,
         NEW late \in Elapsed
  PROVE  Worked(w.c, Transmit(w, late), u, l, a, s)
<1> DEFINE k == w.c  v == Transmit(w, late)
           unsent  == k.txlen > SentLen(k)
           unacked == ~unsent /\ k.txlen > AckedLen(k)
           stop == [w EXCEPT !.quit = TRUE]
           again == [w EXCEPT !.c.rexmit = TRUE, !.c.wait = FALSE]
<1>0. Cutting(w, l, s)
  BY DEF Cutting
<1>1. \/ ~k.rexmit /\ unsent /\ v = SendNew(w)
      \/ ~k.rexmit /\ unacked /\ v = stop
      \/ ~k.rexmit /\ unacked /\ v = again
      \/ v = w
  BY DEF Transmit
<1> HIDE DEF v
<1>2. CASE ~k.rexmit /\ unsent /\ v = SendNew(w)
  BY <1>2, SendNewWorked DEF v
<1>3. CASE v = stop
  <2>1. v.c = w.c /\ v.seq = w.seq /\ v.off = w.off /\ v.len = w.len
    BY <1>3 DEF WorkType
  <2> QED
    BY <1>0, <2>1, SameWorked DEF v
<1>4. CASE ~k.rexmit /\ unacked /\ v = again
  <2>1. /\ v.c.last = w.c.last /\ v.c.acked = w.c.acked /\ v.c.seq = w.c.seq /\ v.c.tx = w.c.tx
        /\ v.c.txlen = w.c.txlen /\ v.c.wnd = w.c.wnd /\ v.c.zw = w.c.zw
        /\ v.seq = w.seq /\ v.off = w.off /\ v.len = w.len
    BY <1>4 DEF WorkType, ConnType
  <2>2. a < s
    <3>1. k.txlen <= s - l /\ k.txlen > a - l
      <4>1. SentLen(k) = s - l /\ AckedLen(k) = a - l
        BY ChunkLens
      <4>2. k.txlen \in Nat /\ s \in Int /\ l \in Int
        BY Constants DEF WorkType, ConnType, Positions
      <4> QED
        BY <1>4, <4>1, <4>2
    <3> HIDE DEF k
    <3>2. k.txlen \in Nat /\ s \in Int /\ l \in Int /\ a \in Int
      BY Constants DEF WorkType, ConnType, Positions, k
    <3> QED
      BY <3>1, <3>2
  <2> QED
    BY <1>0, <2>1, <2>2, SameWorked DEF v
<1>5. CASE v = w
  BY <1>0, <1>5, SameWorked DEF v
<1> QED
  BY <1>1, <1>2, <1>3, <1>4, <1>5

LEMMA RetransmitWorked ==
  ASSUME FitsSent, NEW w \in WorkType, NEW u,
         NEW l \in Positions, NEW a \in Positions, NEW s \in Positions,
         Chunk(w.c, u, l, a, s), Cutting(w, l, s), u.sent <= AppData, NEW late \in Elapsed
  PROVE  Worked(w.c, Retransmit(w, late), u, l, a, s)
<1> DEFINE v == Retransmit(w, late)  stop == [w EXCEPT !.quit = (late = "limit")]
<1>1. \/ v = w
      \/ w.c.rexmit /\ v = Resend(w)
      \/ v = stop
  BY DEF Retransmit
<1> HIDE DEF v
<1>2. CASE v = w
  BY <1>2, SameWorked DEF v
<1>3. CASE w.c.rexmit /\ v = Resend(w)
  BY <1>3, ResendWorked DEF v
<1>4. CASE v = stop
  <2>1. v.c = w.c /\ v.seq = w.seq /\ v.off = w.off /\ v.len = w.len
    BY <1>4 DEF WorkType
  <2> QED
    BY <2>1, SameWorked DEF v
<1> QED
  BY <1>1, <1>2, <1>3, <1>4

LEMMA WorkedTwice ==
  ASSUME NEW k, NEW w, NEW v, NEW u, NEW l \in Positions, NEW a \in Positions,
         NEW s \in Positions, NEW t \in Positions, s <= t,
         w.c.tx = k.tx, w.c.txlen = k.txlen, Worked(w.c, v, u, l, a, t)
  PROVE  Worked(k, v, u, l, a, s)
<1>1. PICK e \in Positions : t <= e /\ Chunk(v.c, u, l, a, e) /\ Cutting(v, l, e)
  BY DEF Worked
<1>2. s <= e
  BY <1>1, Constants DEF Positions
<1> QED
  BY <1>1, <1>2 DEF Worked

\* The work of mtk_tcp_conn_check, in all
WorkOf(k, late) == Probe(Retransmit(Transmit(Work(k), late), late), k, late)

LEMMA WorkOfKept ==
  ASSUME NEW k \in ConnType, NEW late \in Elapsed
  PROVE  Kept(Work(k), WorkOf(k, late)) /\ WorkOf(k, late) \in WorkType
<1> DEFINE w0 == Work(k)  w1 == Transmit(w0, late)  w2 == Retransmit(w1, late)  w == Probe(w2, k, late)
<1>1. w0 \in WorkType /\ WorkOf(k, late) = w
  BY DEF Work, WorkType, ConnType, WorkOf
<1> HIDE DEF w0
<1>2. Kept(w0, w1)
  BY <1>1, TransmitKept
<1> HIDE DEF w1
<1>3. w1 \in WorkType /\ Kept(w1, w2)
  BY <1>2, RetransmitKept DEF Kept
<1> HIDE DEF w2
<1>4. w2 \in WorkType /\ Kept(w2, w)
  BY <1>3, ProbeKept DEF Kept
<1> HIDE DEF w
<1>5. Kept(w0, w)
  BY <1>2, <1>3, <1>4, KeptTwice
<1> QED
  BY <1>1, <1>5 DEF w0, Kept

LEMMA WorkOfWorked ==
  ASSUME FitsSent, NEW k \in ConnType, NEW u, u.sent <= AppData,
         NEW l \in Positions, NEW a \in Positions, NEW s \in Positions,
         Chunk(k, u, l, a, s), NEW late \in Elapsed
  PROVE  Worked(k, WorkOf(k, late), u, l, a, s)
<1> DEFINE w0 == Work(k)  w1 == Transmit(w0, late)  w2 == Retransmit(w1, late)  w == Probe(w2, k, late)
<1>1. /\ w0 \in WorkType /\ w0.c = k /\ w0.seq = k.seq /\ w0.len = 0 /\ ~w0.quit
      /\ WorkOf(k, late) = w
  BY DEF Work, WorkType, ConnType, WorkOf
<1> HIDE DEF w0
<1>2. Worked(w0.c, w1, u, l, a, s) /\ w1 \in WorkType
  BY <1>1, TransmitWorked, TransmitKept DEF Kept
<1> HIDE DEF w1
<1>3. PICK t \in Positions : s <= t /\ Chunk(w1.c, u, l, a, t) /\ Cutting(w1, l, t)
  BY <1>2 DEF Worked
<1>4. Worked(w1.c, w2, u, l, a, t) /\ w2 \in WorkType
  BY <1>2, <1>3, RetransmitWorked, RetransmitKept DEF Kept
<1> HIDE DEF w2
<1>5. PICK e \in Positions : Chunk(w2.c, u, l, a, e)
  BY <1>4 DEF Worked
<1>6. w = w2
  <2>1. w2.c.wnd > 0 /\ ~w2.c.zw /\ w2.c.wnd \in Int
    BY <1>4, <1>5, ChunkWindow DEF WorkType, ConnType, Chunk
  <2> QED
    BY <2>1 DEF Probe
<1>7. Worked(k, w2, u, l, a, s)
  BY <1>1, <1>2, <1>3, <1>4, WorkedTwice DEF Worked
<1> QED
  BY <1>1, <1>6, <1>7

LEMMA ClosingCarried ==
  ASSUME NEW m \in Machines, Told(m), NEW A, Active(m, A)
  PROVE  Left(m, A, Closing(m)) /\ Closing(m).app.done = m.app.done
<1> DEFINE fin == SendCtl(m, "FIN", m.c.pseq)
           w   == [fin EXCEPT !.c.status = "FIN_WAIT_1"]
           x == [kind |-> "FIN", seq |-> m.c.seq, ack |-> m.c.pseq, off |-> 0, len |-> 0]
<1>1. Closing(m) \in {m, Noted(w)}
  BY DEF Closing
<1>2. fin \in Machines /\ fin.app = m.app /\ fin.wire = m.wire \cup {x}
  <2>1. m.c.pseq \in Seqs /\ m.c.status \notin Handshake
    BY DEF Machines, ConnType, Active, Handshake
  <2>2. fin \in Machines /\ fin.app = m.app
    BY <2>1, AliveSendCtl
  <2>3. fin.wire = m.wire \cup {x}
    BY DEF SendCtl, Send, Machines
  <2> QED
    BY <2>2, <2>3
<1>3. x.kind = "FIN"
  OBVIOUS
<1> HIDE DEF fin, x
<1>4. w.c.status = "FIN_WAIT_1" /\ w.app = fin.app /\ w.wire = fin.wire /\ w \in Machines
  BY <1>2 DEF Machines, ConnType, States
<1> HIDE DEF w
<1>5. /\ Noted(w).c.status = "FIN_WAIT_1" /\ Noted(w).app.done = m.app.done
      /\ Noted(w).wire = m.wire \cup {x}
  BY <1>2, <1>4, NotedSame, DoneStays DEF Same
<1>6. Faithful(Noted(w).wire)
  BY <1>3, <1>5, ActiveFaithful DEF Faithful, Loaded
<1>7. Over(Noted(w))
  BY <1>5 DEF Over, Handshake
<1> QED
  BY <1>1, <1>5, <1>6, <1>7 DEF Left

LEMMA CheckEstablishedTx ==
  ASSUME FitsSent, NEW m \in Machines, Told(m), NEW A, A \subseteq Nat, Active(m, A),
         NEW late \in Elapsed
  PROVE  TxStays(m, A, CheckEstablished(m, late))
<1> DEFINE w  == WorkOf(m.c, late)
           j  == [w.c EXCEPT !.ackFlag = FALSE]
           at == [m EXCEPT !.c = j]
           on == [m EXCEPT !.c = w.c]
           put == Send(at, "ACK", w.seq, w.c.pseq, w.off, w.len)
           x  == [kind |-> "ACK", seq |-> w.seq, ack |-> w.c.pseq, off |-> w.off, len |-> w.len]
           new == CheckEstablished(m, late)
<1>1. new = IF w.quit THEN GiveUp(on) ELSE Closing(IF w.c.ackFlag THEN put ELSE at)
  BY DEF CheckEstablished, WorkOf
<1>a. m.c \in ConnType /\ m.c.status = "ESTABLISHED" /\ ~m.c.dying
  BY DEF Machines, Active
<1>2. w \in WorkType /\ w.c \in ConnType /\ w.c.status = "ESTABLISHED" /\ w.c.dying = m.c.dying
  <2>1. Work(m.c).c = m.c
    BY DEF Work
  <2> QED
    BY <1>a, <2>1, WorkOfKept DEF Kept, WorkType
<1>3. PICK l \in Positions, a \in Positions, s \in Positions :
        Chunk(m.c, m.app, l, a, s) /\ Bounded(m, A, l, s)
  BY DEF Active
<1>4. Worked(m.c, w, m.app, l, a, s)
  <2>1. m.app.sent <= AppData
    BY Constants DEF Machines, AppType
  <2> QED
    BY <1>a, <1>3, <2>1, WorkOfWorked
<1> HIDE DEF w, new
<1>5. PICK t \in Positions : s <= t /\ Chunk(w.c, m.app, l, a, t) /\ Cutting(w, l, t)
  BY <1>4 DEF Worked
<1>6. /\ j \in ConnType /\ j.status = "ESTABLISHED" /\ j.dying = m.c.dying
      /\ j.last = w.c.last /\ j.acked = w.c.acked /\ j.seq = w.c.seq /\ j.tx = w.c.tx
      /\ j.txlen = w.c.txlen /\ j.wnd = w.c.wnd /\ j.zw = w.c.zw /\ j.rexmit = w.c.rexmit
  BY <1>2 DEF ConnType
<1> HIDE DEF j
<1>7. at \in Machines /\ Told(at) /\ at.c = j /\ at.app = m.app /\ at.wire = m.wire
  BY <1>6, <1>a, AliveStatus
<1>8. on \in Machines /\ Told(on) /\ on.c = w.c /\ on.app = m.app /\ on.wire = m.wire
  BY <1>2, <1>a, AliveStatus
<1> HIDE DEF at, on
<1>9. put \in Machines /\ put.c = j /\ put.app = m.app /\ put.wire = m.wire \cup {x}
  <2>1. w.seq \in Seqs /\ w.c.pseq \in Seqs /\ w.off \in Int /\ w.len \in Nat
    BY <1>2 DEF WorkType, ConnType
  <2>2. x \in SentType
    BY <2>1 DEF SentType
  <2> QED
    BY <1>7, <2>2 DEF Send, Machines
<1> HIDE DEF put
<1>10. CASE w.quit
  <2>1. Quiet(on, GiveUp(on)) /\ GiveUp(on).app.done = m.app.done /\ GiveUp(on).c.dying
    BY <1>2, <1>8, <1>a, AliveGiveUp, GiveUpDone
  <2>2. Faithful(GiveUp(on).wire)
    BY <1>8, <2>1, ActiveFaithful, QuietFaithful
  <2> QED
    BY <1>1, <1>10, <2>1, <2>2 DEF TxStays, Tx, Over, new
<1>11. CASE ~w.quit
  <2> DEFINE q == IF w.c.ackFlag THEN put ELSE at
  <2>1. /\ q \in Machines /\ q.c = j /\ q.app = m.app
        /\ \A y \in q.wire : y \in m.wire \/ y = x
    BY <1>7, <1>9
  <2>2. new = Closing(q)
    BY <1>1, <1>11
  <2> HIDE DEF q
  <2>3. Chunk(q.c, q.app, l, a, t)
    BY <1>5, <1>6, <2>1 DEF Chunk, Room, Edge
  <2>4. \A e \in Int : Cut(m.c, l, s, e) => Cut(q.c, l, t, e)
    <3>1. q.c.tx = m.c.tx /\ q.c.txlen = m.c.txlen
      BY <1>4, <1>6, <2>1 DEF Worked
    <3> QED
      BY <1>5, <3>1, Constants DEF Cut, Edge, Positions
  <2>5. x.kind = "ACK" /\ x.seq = w.seq /\ x.off = w.off /\ x.len = w.len
    OBVIOUS
  <2> HIDE DEF x
  <2>6. Loaded(x) => \E p \in Positions : Carries(x, p) /\ Cut(q.c, l, t, p + x.len)
    <3>1. \A e : Cut(w.c, l, t, e) => Cut(q.c, l, t, e)
      BY <1>6, <2>1 DEF Cut, Edge
    <3> QED
      BY <1>5, <2>5, <3>1 DEF Loaded, Carries, Cutting
  <2>7. \A y \in m.wire : Loaded(y) => \E p \in Positions : Carries(y, p) /\ Cut(q.c, l, t, p + y.len)
    <3> SUFFICES ASSUME NEW y \in m.wire, Loaded(y)
                 PROVE  \E p \in Positions : Carries(y, p) /\ Cut(q.c, l, t, p + y.len)
      OBVIOUS
    <3>1. PICK p \in Positions : Carries(y, p) /\ Cut(m.c, l, s, p + y.len)
      BY <1>3 DEF Bounded
    <3>2. p + y.len \in Int
      BY Constants DEF Positions, Machines, SentType
    <3> QED
      BY <2>4, <3>1, <3>2
  <2>8. Bounded(q, A, l, t)
    <3>0. \A n \in A : Cut(m.c, l, s, n)
      BY <1>3 DEF Bounded
    <3>1. \A n \in A : n \in Int
      OBVIOUS
    <3>2. \A n \in A : Cut(q.c, l, t, n)
      BY <2>4, <3>0, <3>1
    <3> QED
      BY <2>1, <2>6, <2>7, <3>2 DEF Bounded
  <2>9. Active(q, A)
    <3>1. NoFin(q)
      BY <2>1, <2>5 DEF Active, NoFin
    <3> QED
      BY <1>a, <1>6, <2>1, <2>3, <2>8, <3>1 DEF Active
  <2>10. Told(q)
    BY <1>6, <1>a, <2>1 DEF Told
  <2>11. Left(q, A, Closing(q)) /\ Closing(q).app.done = m.app.done
    BY <2>1, <2>9, <2>10, ClosingCarried
  <2>12. Tx(Closing(q), A)
    BY <2>11 DEF Left, Tx
  <2> QED
    BY <2>2, <2>11, <2>12 DEF TxStays, new
<1> QED
  BY <1>10, <1>11

----------------------------------------------------------------------------
(* The other states of mtk_tcp_conn_check                                   *)

Kinds == {"RST", "SYN", "SYNACK", "ACK", "FIN"}

LEMMA CtlSent ==
  ASSUME NEW m \in Machines, NEW kind \in Kinds, NEW ack \in Seqs
  PROVE  /\ SendCtl(m, kind, ack) \in Machines
         /\ SendCtl(m, kind, ack).c = m.c /\ SendCtl(m, kind, ack).app = m.app
         /\ \A x \in SendCtl(m, kind, ack).wire : x \in m.wire \/ (x.kind = kind /\ x.len = 0)
<1> DEFINE s == [kind |-> kind, seq |-> m.c.seq, ack |-> ack, off |-> 0, len |-> 0]
           new == SendCtl(m, kind, ack)
<1>1. s \in SentType /\ s.kind = kind /\ s.len = 0
  BY DEF Machines, ConnType, SentType, Kinds
<1>2. new = [m EXCEPT !.wire = @ \cup {s}]
  BY DEF SendCtl, Send
<1> HIDE DEF s, new
<1>3. new \in Machines /\ new.c = m.c /\ new.app = m.app /\ new.wire = m.wire \cup {s}
  BY <1>1, <1>2 DEF Machines
<1> QED
  BY <1>1, <1>3 DEF new

\* Nothing more is sent than control segments
ControlOnly(m, new) ==
  new.app.done = m.app.done /\ \A x \in new.wire : x \in m.wire \/ ~Loaded(x)

LEMMA BareTx ==
  ASSUME NEW m, NEW A, Tx(m, A), NEW new, ControlOnly(m, new), Over(new)
  PROVE  TxStays(m, A, new)
<1>1. Faithful(new.wire)
  BY TxFaithful DEF Faithful, ControlOnly
<1> QED
  BY <1>1 DEF TxStays, Tx, ControlOnly

LEMMA CtlBare ==
  ASSUME NEW m \in Machines, NEW kind \in Kinds, NEW ack \in Seqs
  PROVE  ControlOnly(m, SendCtl(m, kind, ack))
BY CtlSent DEF ControlOnly, Loaded

LEMMA GiveUpTx ==
  ASSUME NEW m \in Machines, Told(m), ~m.c.dying, NEW A, Tx(m, A)
  PROVE  TxStays(m, A, GiveUp(m))
<1>1. Quiet(m, GiveUp(m)) /\ GiveUp(m).app.done = m.app.done /\ GiveUp(m).c.dying
  BY AliveGiveUp, GiveUpDone
<1> QED
  BY <1>1, EndedTx DEF TxKept, TxStays

LEMMA TimedTx ==
  ASSUME NEW m \in Machines, Told(m), ~m.c.dying, NEW A, Tx(m, A), NEW late \in Elapsed,
         NEW again, TxStays(m, A, again)
  PROVE  TxStays(m, A, Timed(m, late, again))
<1>1. Timed(m, late, again) \in {GiveUp(m), again, m}
  BY DEF Timed, Elapsed
<1> QED
  BY <1>1, GiveUpTx DEF TxStays

LEMMA OpeningCtl ==
  ASSUME NEW m \in Machines, NEW A, Opening(m, A), NEW kind \in {"SYN", "SYNACK"}, NEW ack \in Seqs
  PROVE  TxStays(m, A, SendCtl(m, kind, ack))
<1> DEFINE new == SendCtl(m, kind, ack)
<1>1. /\ new.c = m.c /\ new.app = m.app
      /\ \A x \in new.wire : x \in m.wire \/ (x.kind = kind /\ x.len = 0)
  <2>1. kind \in Kinds
    BY DEF Kinds
  <2> QED
    BY <2>1, CtlSent
<1> HIDE DEF new
<1>2. Opening(new, A)
  BY <1>1 DEF Opening
<1> QED
  BY <1>1, <1>2 DEF TxStays, Tx, new

LEMMA ConnCheckTx ==
  ASSUME FitsSent, NEW m \in Machines, Told(m), ~m.c.dying, NEW A, A \subseteq Nat, Tx(m, A),
         NEW late \in Elapsed
  PROVE  TxStays(m, A, ConnCheck(m, late))
<1> DEFINE k   == m.c
           end == SeqAdd(k.pseq, 1)
           syn == SendCtl(m, "SYN", k.pseq)
           new == ConnCheck(m, late)
<1>0. k.status \in States /\ k.pseq \in Seqs /\ end \in Seqs
  <2>1. k.pseq \in Int
    BY DEF Machines, ConnType, Seqs
  <2> QED
    BY <2>1, SeqAddTyped DEF Machines, ConnType
<1>a. k.status \in Handshake => Opening(m, A)
  BY DEF Tx, Active, Over, Handshake
<1>s. TxStays(m, A, m)
  BY DEF TxStays
<1> HIDE DEF end, new
<1>2. CASE k.status = "CONNECT"
  <2> DEFINE up == [syn EXCEPT !.c.status = "SYN_SENT"]
  <2>1. new = up
    BY <1>2 DEF ConnCheck, new
  <2>2. TxStays(m, A, syn) /\ syn \in Machines /\ syn.c = m.c
    <3>1. "SYN" \in Kinds
      BY DEF Kinds
    <3> QED
      BY <1>0, <1>2, <1>a, <3>1, OpeningCtl, CtlSent DEF Handshake
  <2>3. Opening(syn, A)
    BY <1>2, <2>2 DEF TxStays, Tx, Active, Over, Handshake
  <2> HIDE DEF syn
  <2>4. /\ up.c.status = "SYN_SENT" /\ up.c.dying = syn.c.dying /\ up.c.seq = syn.c.seq
        /\ up.c.tx = syn.c.tx /\ up.c.txlen = syn.c.txlen /\ up.c.rexmit = syn.c.rexmit
        /\ up.c.zw = syn.c.zw /\ up.app = syn.app /\ up.wire = syn.wire
    BY <2>2 DEF Machines, ConnType
  <2> HIDE DEF up
  <2>5. Opening(up, A)
    BY <2>3, <2>4 DEF Opening, Handshake
  <2> QED
    BY <2>1, <2>2, <2>4, <2>5 DEF TxStays, Tx, new
<1>3. CASE k.status = "SYN_SENT"
  <2>1. new = Timed(m, late, syn)
    BY <1>3 DEF ConnCheck, new
  <2>2. TxStays(m, A, syn)
    BY <1>0, <1>3, <1>a, OpeningCtl DEF Handshake
  <2> HIDE DEF syn
  <2> QED
    BY <2>1, <2>2, TimedTx DEF new
<1>4. CASE k.status = "SYN_RCVD"
  <2> DEFINE again == SendCtl(m, "SYNACK", end)
  <2>1. new = Timed(m, late, again)
    BY <1>4 DEF ConnCheck, end, new
  <2>2. TxStays(m, A, again)
    BY <1>0, <1>4, <1>a, OpeningCtl DEF Handshake
  <2> HIDE DEF again
  <2> QED
    BY <2>1, <2>2, TimedTx DEF new
<1>5. CASE k.status = "ESTABLISHED"
  <2>1. new = CheckEstablished(m, late)
    BY <1>5 DEF ConnCheck, new
  <2>2. Active(m, A)
    BY <1>5 DEF Tx, Opening, Over, Handshake
  <2> QED
    BY <2>1, <2>2, CheckEstablishedTx DEF new
<1>l. CASE Late(m)
  <2>1. \A ack \in Seqs : /\ TxStays(m, A, SendCtl(m, "FIN", ack)) /\ SendCtl(m, "FIN", ack) \in Machines
                          /\ SendCtl(m, "FIN", ack).c = m.c /\ SendCtl(m, "FIN", ack).app = m.app
    <3> SUFFICES ASSUME NEW ack \in Seqs
                 PROVE  /\ TxStays(m, A, SendCtl(m, "FIN", ack)) /\ SendCtl(m, "FIN", ack) \in Machines
                        /\ SendCtl(m, "FIN", ack).c = m.c /\ SendCtl(m, "FIN", ack).app = m.app
      OBVIOUS
    <3> DEFINE fin == SendCtl(m, "FIN", ack)
    <3>1. ControlOnly(m, fin) /\ fin.c = m.c /\ fin \in Machines /\ fin.app = m.app
      <4>1. "FIN" \in Kinds
        BY DEF Kinds
      <4> QED
        BY <4>1, CtlBare, CtlSent
    <3> HIDE DEF fin
    <3>2. Over(fin)
      BY <1>l, <3>1 DEF Over, Late
    <3> QED
      BY <3>1, <3>2, BareTx DEF fin
  <2>2. CASE k.status = "CLOSE_WAIT"
    <3> DEFINE fin == SendCtl(m, "FIN", end)  w == [fin EXCEPT !.c.status = "LAST_ACK"]
    <3>1. new = w
      BY <2>2 DEF ConnCheck, end, new
    <3>2. TxStays(m, A, fin) /\ fin \in Machines
      BY <1>0, <2>1
    <3> HIDE DEF fin
    <3>3. w.c.status = "LAST_ACK" /\ w.wire = fin.wire /\ w.app = fin.app
      BY <3>2 DEF Machines, ConnType
    <3> HIDE DEF w
    <3>4. Over(w) /\ Faithful(w.wire)
      BY <3>2, <3>3, TxFaithful DEF Over, Handshake, TxStays
    <3> QED
      BY <3>1, <3>2, <3>3, <3>4 DEF TxStays, Tx, new
  <2>3. CASE k.status \in {"LAST_ACK", "FIN_WAIT_1"}
    <3>1. PICK ack \in Seqs : new = Timed(m, late, SendCtl(m, "FIN", ack))
      BY <1>0, <2>3 DEF ConnCheck, end, new
    <3> QED
      BY <2>1, <3>1, TimedTx DEF new
  <2>4. CASE k.status \in {"FIN_WAIT_2", "CLOSING"}
    <3>1. new = Timed(m, late, m)
      BY <2>4 DEF ConnCheck, new
    <3> QED
      BY <1>s, <3>1, TimedTx DEF new
  <2>5. CASE k.status = "TIME_WAIT"
    <3> DEFINE ack == SendCtl(m, "ACK", end)
    <3>1. new = Finish(ack)
      BY <2>5 DEF ConnCheck, end, new
    <3>2. ack \in Machines /\ ack.c = m.c /\ ack.app = m.app /\ ControlOnly(m, ack)
      <4>1. "ACK" \in Kinds
        BY DEF Kinds
      <4> QED
        BY <1>0, <4>1, CtlSent, CtlBare
    <3> HIDE DEF ack
    <3>3. Told(ack) /\ ~ack.c.dying
      BY <3>2 DEF Told
    <3>4. /\ Finish(ack).app.done = ack.app.done /\ Quiet(ack, Finish(ack)) /\ Finish(ack).c.dying
      BY <3>2, <3>3, FinishDone, AliveFinish
    <3>5. Faithful(ack.wire)
      BY <3>2, TxFaithful DEF ControlOnly, Faithful
    <3>6. Faithful(Finish(ack).wire)
      BY <3>4, <3>5, QuietFaithful
    <3> QED
      BY <3>1, <3>2, <3>4, <3>6 DEF TxStays, Tx, Over, ControlOnly, new
  <2> QED
    BY <1>0, <1>l, <2>2, <2>3, <2>4, <2>5 DEF Late, States, Handshake
<1> QED
  BY <1>0, <1>2, <1>3, <1>4, <1>5, <1>l DEF Late, Handshake, new

LEMMA ConnPollTx ==
  ASSUME FitsSent, NEW m \in Machines, Told(m), ~m.c.dying, NEW A, Tx(m, A),
         NEW r \in Reactions
  PROVE  TxStays(m, A, ConnPoll(m, r))
<1>2. ConnPoll(m, r) = m \/ (m.c.status = "ESTABLISHED" /\ ConnPoll(m, r) = React(Noted(m), r))
  BY DEF ConnPoll
<1>3. CASE ConnPoll(m, r) = m
  BY <1>3 DEF TxStays
<1>4. CASE m.c.status = "ESTABLISHED" /\ ConnPoll(m, r) = React(Noted(m), r)
  <2>1. Active(m, A)
    BY <1>4 DEF Tx, Opening, Over, Handshake
  <2>2. Carried(m, A, React(Noted(m), r))
    BY <2>1, NotedReact
  <2> QED
    BY <1>4, <2>2 DEF TxStays, Tx, Over, Carried
<1> QED
  BY <1>2, <1>3, <1>4

----------------------------------------------------------------------------
(* The steps                                                                *)

\* What was sent, and what the peer took and acknowledged of it
Sound == Tx(Machine, peer.acks) /\ Taken

LEMMA AnsweredOver ==
  ASSUME NEW m \in Machines, Over(m), NEW s, NEW new, Answered(m, s, new), ~(s.syn /\ ~s.ackbit)
  PROVE  Over(new)
<1>1. CASE m.c.dying
  BY <1>1 DEF Answered, Created, Over
<1>2. CASE ~m.c.dying
  <2>1. Late(m)
    BY <1>2 DEF Over, Late
  <2>2. CASE Quiet(m, new)
    BY <2>1, <2>2 DEF Quiet, Over, Late
  <2>3. CASE Heard(m, s, new) /\ ~Quiet(m, new)
    BY <2>1, <2>3 DEF Heard, Opened, Shut, Over, Late, Handshake
  <2> QED
    BY <2>2, <2>3 DEF Answered, Created
<1> QED
  BY <1>1, <1>2

LEMMA RepliedOver ==
  ASSUME NEW m, Over(m), ~m.c.dying, NEW new, Replied(m, new)
  PROVE  Over(new)
BY DEF Over, Replied, Handshake

LEMMA BecomeTx ==
  ASSUME NEW m \in Machines, Told(m), Become(m), NEW A, Tx(m, A)
  PROVE  Tx(Machine', A) /\ app' = m.app /\ (Over(m) => Over(Machine'))
<1>1. /\ Machine'.wire = m.wire /\ Machine'.app = m.app
      /\ Machine'.c = IF m.c.dying THEN NoConn ELSE m.c
  BY BecomeIs
<1>2. app' = m.app
  BY DEF Become
<1>3. CASE m.c.dying
  <2>1. Over(Machine')
    BY <1>1, <1>3, NoConnTyped DEF Over
  <2>2. Faithful(Machine'.wire)
    BY <1>1, TxFaithful
  <2> QED
    BY <1>2, <2>1, <2>2 DEF Tx
<1>4. CASE ~m.c.dying
  <2>1. Machine' = [c |-> m.c, wire |-> m.wire, app |-> m.app]
    BY <1>4 DEF Machine, Become
  <2>2. m = [c |-> m.c, wire |-> m.wire, app |-> m.app]
    BY DEF Machines
  <2>3. Machine' = m
    BY <2>1, <2>2
  <2> QED
    BY <1>2, <2>3
<1> QED
  BY <1>3, <1>4

LEMMA OverMachine == Over(Machine)' <=> Over(Machine')
BY DEF Over

\* A step of the stack that leaves the peer alone
LEMMA StackSound ==
  ASSUME Sound, NEW m \in Machines, Told(m), Become(m), Tx(m, peer.acks), peer' = peer,
         peer.fin => Over(m)
  PROVE  Sound' /\ app' = m.app
<1>1. Tx(Machine', peer.acks) /\ app' = m.app /\ (Over(m) => Over(Machine'))
  BY BecomeTx
<1>2. Taken'
  BY <1>1 DEF Sound, Taken, Got, Over
<1> QED
  BY <1>1, <1>2 DEF Sound

\* No more was reported as sent than the peer has
DoneIsTaken == app'.done = app.done \/ app'.done = 0 \/ app'.done <= Len(peer.rcvd)

LEMMA CheckSound ==
  ASSUME FitsSent, IInv, Sound, NEW late \in Elapsed, Check(late)
  PROVE  Sound' /\ app'.done = app.done
<1>0. Machine \in Machines /\ Told(Machine) /\ ~Machine.c.dying /\ peer.acks \subseteq Nat
      /\ peer' = peer
  BY ConnIsAlive DEF IInv, Typed, Check, PeerType
<1>1. PICK r \in Reactions : Become(Polled(Machine, r, late))
  BY DEF Check
<1> DEFINE p == ConnPoll(Machine, r)  new == Polled(Machine, r, late)
<1>a. new = IF p.c.dying THEN p ELSE ConnCheck(p, late)
  BY DEF Polled
<1>2. p \in Machines /\ Told(p) /\ Quiet(Machine, p) /\ TxStays(Machine, peer.acks, p)
  BY <1>0, AliveConnPoll, ConnPollTx DEF Sound
<1>3. Become(new)
  BY <1>1
<1> HIDE DEF p, new
<1>4. new \in Machines /\ Told(new) /\ Replied(p, new) /\ TxStays(p, peer.acks, new)
  <2>1. CASE p.c.dying
    BY <1>2, <1>a, <2>1, QuietSame, QuietReplied DEF TxStays
  <2>2. CASE ~p.c.dying
    BY <1>0, <1>2, <1>a, <2>2, AliveConnCheck, ConnCheckTx DEF TxStays
  <2> QED
    BY <2>1, <2>2
<1>5. peer.fin => Over(new)
  <2> SUFFICES ASSUME peer.fin PROVE Over(new)
    OBVIOUS
  <2>1. Over(Machine)
    BY DEF Sound, Taken
  <2>2. Over(p)
    BY <1>0, <1>2, <2>1 DEF Over, Quiet
  <2>3. CASE p.c.dying
    BY <1>a, <2>2, <2>3
  <2> QED
    BY <1>4, <2>2, <2>3, RepliedOver
<1>6. Sound' /\ app' = new.app
  BY <1>0, <1>3, <1>4, <1>5, StackSound DEF TxStays
<1> QED
  BY <1>2, <1>4, <1>6, MachineIs DEF TxStays

LEMMA ArriveSound ==
  ASSUME FitsSent, WindowOpen, IInv, Sound, Arrive
  PROVE  Sound' /\ DoneIsTaken
<1>0. Machine \in Machines /\ Told(Machine) /\ peer \in PeerType /\ peer.acks \subseteq Nat
      /\ peer' = peer /\ Taken /\ Tx(Machine, peer.acks)
  BY DEF IInv, Typed, PeerType, Arrive, Sound
<1>1. PICK s \in InFlight, r1 \in Reactions, r2 \in Reactions : Become(Receive(Machine, s, r1, r2))
  <2>1. Nothing \in Reactions
    BY DEF Reactions
  <2> QED
    BY <2>1 DEF Arrive
<1> DEFINE new == Receive(Machine, s, r1, r2)
<1>2. s \in SegType /\ Says(s, peer.acks) /\ (s.syn /\ ~s.ackbit => peer.acks = {0} /\ ~peer.fin)
  <2>1. s.syn /\ ~s.ackbit => peer.st = "synsent"
    BY <1>0, InFlightPlaced DEF Placed
  <2> QED
    BY <1>0, <2>1, InFlightPlaced, InFlightSays, SynFirst DEF Taken
<1>3. new \in Machines /\ Told(new) /\ Answered(Machine, s, new)
  BY <1>0, <1>2, ReceiveTold
<1>4. Tx(new, peer.acks) /\ Counted(Machine, peer.acks, new)
  BY <1>0, <1>2, ReceiveTx
<1>5. Become(new)
  BY <1>1
<1> HIDE DEF new
<1>6. peer.fin => Over(new)
  BY <1>0, <1>2, <1>3, AnsweredOver DEF Taken
<1>7. Sound' /\ app' = new.app
  BY <1>0, <1>3, <1>4, <1>5, <1>6, StackSound
<1>8. DoneIsTaken
  <2>1. CASE new.app.done = Machine.app.done \/ new.app.done = 0
    BY <1>7, <2>1, MachineIs DEF DoneIsTaken
  <2>2. CASE ~Over(Machine) /\ new.app.done \in peer.acks
    <3>1. ~peer.fin
      BY <1>0, <2>2 DEF Taken
    <3>2. Got = Len(peer.rcvd)
      BY <1>0, <3>1 DEF Got, PeerType
    <3>3. new.app.done \in 0 .. Len(peer.rcvd)
      BY <1>0, <2>2, <3>2 DEF Taken
    <3> QED
      BY <1>0, <1>7, <3>3 DEF DoneIsTaken, PeerType
  <2> QED
    BY <1>4, <2>1, <2>2 DEF Counted
<1> QED
  BY <1>7, <1>8

LEMMA CloseAllSound ==
  ASSUME IInv, Sound, CloseAll
  PROVE  Sound' /\ app'.done = app.done
<1>0. Machine \in Machines /\ Told(Machine) /\ peer' = peer /\ Tx(Machine, peer.acks) /\ Taken
  BY DEF IInv, Typed, Sound, CloseAll
<1>1. CASE Conn
  <2> DEFINE new == Teardown(Machine)
  <2>0. Become(new)
    BY <1>1 DEF CloseAll
  <2>1. /\ new \in Machines /\ Told(new) /\ Quiet(Machine, new) /\ new.c.dying
        /\ new.app.done = Machine.app.done
    BY <1>0, <1>1, ConnIsAlive, AliveTeardown, TeardownDone DEF IInv
  <2> HIDE DEF new
  <2>2. Tx(new, peer.acks) /\ Over(new)
    BY <1>0, <2>1, EndedTx DEF TxKept, Over
  <2> QED
    BY <1>0, <2>0, <2>1, <2>2, StackSound, MachineIs
<1>2. CASE ~Conn
  <2>1. Become(Machine)
    BY <1>2 DEF CloseAll
  <2>2. peer.fin => Over(Machine)
    BY <1>0 DEF Taken
  <2> QED
    BY <1>0, <2>1, <2>2, StackSound, MachineIs
<1> QED
  BY <1>1, <1>2

\* A new peer acknowledged nothing yet
LEMMA ClearedTx ==
  ASSUME NEW m, NEW A, Tx(m, A), NEW new, new.c = m.c, new.app = m.app,
         new.wire = m.wire \/ new.wire = {}
  PROVE  Tx(new, {0})
<1>1. CASE Opening(m, A)
  BY <1>1 DEF Opening, Tx
<1>2. CASE Active(m, A)
  <2>1. PICK l \in Positions, a \in Positions, s \in Positions :
          Chunk(m.c, m.app, l, a, s) /\ Bounded(m, A, l, s)
    BY <1>2 DEF Active
  <2>2. Cut(m.c, l, s, 0)
    BY Constants DEF Cut, Positions
  <2>3. Bounded(new, {0}, l, s)
    BY <2>1, <2>2 DEF Bounded
  <2>4. Active(new, {0})
    BY <1>2, <2>1, <2>3 DEF Active, NoFin
  <2> QED
    BY <2>4 DEF Tx
<1>3. CASE Over(m) /\ Faithful(m.wire)
  BY <1>3 DEF Over, Faithful, Tx
<1> QED
  BY <1>1, <1>2, <1>3 DEF Tx

\* The peer acknowledges the end of a segment that it was sent
LEMMA AckTx ==
  ASSUME NEW m, NEW A, Tx(m, A), NEW x \in m.wire, Loaded(x)
  PROVE  \E p \in Positions : Carries(x, p) /\ Tx(m, A \cup {p + x.len})
<1>1. CASE Opening(m, A)
  BY <1>1 DEF Opening, Loaded
<1>2. CASE Active(m, A)
  <2>1. PICK l \in Positions, a \in Positions, s \in Positions :
          Chunk(m.c, m.app, l, a, s) /\ Bounded(m, A, l, s)
    BY <1>2 DEF Active
  <2>2. PICK p \in Positions : Carries(x, p) /\ Cut(m.c, l, s, p + x.len)
    BY <2>1 DEF Bounded
  <2>3. Bounded(m, A \cup {p + x.len}, l, s)
    BY <2>1, <2>2 DEF Bounded
  <2>4. Active(m, A \cup {p + x.len})
    BY <1>2, <2>1, <2>3 DEF Active
  <2> QED
    BY <2>2, <2>4 DEF Tx
<1>3. CASE Over(m) /\ Faithful(m.wire)
  BY <1>3 DEF Faithful, Tx
<1> QED
  BY <1>1, <1>2, <1>3 DEF Tx

LEMMA NewPeerTaken ==
  ASSUME NEW st \in {"idle", "synsent", "synrcvd"}, peer' = NewPeer(st)
  PROVE  Taken' /\ peer'.acks = {0}
<1>1. /\ peer'.rcvd = <<>> /\ ~peer'.fin /\ peer'.acks = {0} /\ Len(peer'.rcvd) = 0
  BY DEF NewPeer
<1>2. Got' = 0
  BY <1>1 DEF Got
<1> QED
  BY <1>1, <1>2, StreamNone, Constants DEF Taken

LEMMA OpenTaken ==
  ASSUME Taken, peer \in PeerType, c' = c, app' = app, wire' = wire,
         NEW new \in PeerType, peer' = new, new.rcvd = peer.rcvd, new.acks = peer.acks,
         new.fin = peer.fin, new.st \in {"idle", "synsent", "synrcvd"} => new.st = peer.st
  PROVE  Taken'
BY DEF Taken, Got, Over, Machine

LEMMA ReceiveSound ==
  ASSUME FitsSent, IInv, Sound, PeerReceive
  PROVE  Sound'
<1>0. /\ Machine \in Machines /\ peer \in PeerType /\ Taken /\ Tx(Machine, peer.acks)
      /\ Machine' = Machine /\ peer.st = "open" /\ ~peer.fin /\ peer' \in PeerType
  BY PeerReceiveTyped DEF IInv, Typed, Sound, PeerReceive, Machine
<1>1. PICK s \in wire :
        LET skip == SeqSub(LSeq(Got), s.seq)
            more == s.len - skip
        IN  \/ /\ s.kind = "ACK" /\ skip >= 0 /\ more > 0
               /\ peer' = [peer EXCEPT !.rcvd = @ \o Run(s.off + skip, more),
                                       !.acks = @ \cup {Got + more}]
            \/ /\ s.kind = "FIN" /\ skip = 0
               /\ peer' = [peer EXCEPT !.fin = TRUE, !.acks = @ \cup {Got + 1}]
  BY DEF PeerReceive
<1> DEFINE g == Len(peer.rcvd)
           skip == SeqSub(LSeq(g), s.seq)
           more == s.len - skip
           q == peer.rcvd \o Run(s.off + skip, more)
<1>2. Got = g /\ g \in 0 .. AppData /\ peer.rcvd = Stream(g) /\ peer.acks \subseteq 0 .. g
      /\ 0 \in peer.acks
  <2>1. Got = g /\ g \in Nat
    BY <1>0 DEF Got, PeerType
  <2> QED
    BY <1>0, <2>1, Constants DEF Taken
<1>3. s \in Machine.wire /\ s.len \in Nat
  BY <1>0, MachineIs DEF Machines, SentType
<1>4. CASE /\ s.kind = "ACK" /\ skip >= 0 /\ more > 0
           /\ peer' = [peer EXCEPT !.rcvd = q, !.acks = @ \cup {g + more}]
  <2>1. skip \in Int
    <3>1. LSeq(g) \in Int /\ s.seq \in Int
      <4>1. s \in SentType /\ g \in Int
        BY <1>0, <1>2, <1>3 DEF Machines
      <4> HIDE DEF g
      <4> QED
        BY <4>1, SeqTyped DEF SentType, Seqs
    <3> QED
      BY <3>1, SeqSubTyped
  <2>2. Loaded(s)
    <3> HIDE DEF skip
    <3> QED
      BY <1>3, <1>4, <2>1 DEF Loaded
  <2>3. PICK p \in Positions : Carries(s, p) /\ Tx(Machine, peer.acks \cup {p + s.len})
    BY <1>0, <1>3, <2>2, AckTx
  <2>4. skip = g - p
    <3>1. p \in 0 .. AppData + 1 /\ g \in 0 .. AppData + 1
      BY <1>2, Constants DEF Positions
    <3> QED
      BY <2>3, <3>1, LSeqDistance DEF Carries
  <2>5. p \in Nat /\ g \in Nat /\ p + s.len <= AppData /\ s.off = p + 1
    BY <1>2, <2>3, Constants DEF Positions, Carries
  <2> HIDE DEF skip, g
  <2>6. more \in Nat /\ g + more = p + s.len /\ s.off + skip = g + 1 /\ g + more <= AppData
    BY <1>3, <1>4, <2>4, <2>5
  <2> HIDE DEF more
  <2>7. q = Stream(g + more)
    BY <1>2, <2>5, <2>6, StreamMore
  <2>8. Len(q) = g + more
    <3>1. g + more \in Nat
      BY <2>5, <2>6
    <3> QED
      BY <2>7, <3>1, StreamLen
  <2> HIDE DEF q
  <2>9. peer'.rcvd = q /\ peer'.acks = peer.acks \cup {g + more} /\ ~peer'.fin /\ peer'.st = "open"
    BY <1>0, <1>4 DEF PeerType
  <2>10. Got' = g + more
    BY <2>5, <2>6, <2>8, <2>9 DEF Got
  <2>11. Taken'
    <3>1. peer'.acks \subseteq 0 .. g + more /\ 0 \in peer'.acks
      BY <1>2, <2>5, <2>6, <2>9
    <3> QED
      BY <2>6, <2>7, <2>8, <2>9, <2>10, <3>1 DEF Taken
  <2>12. Tx(Machine', peer'.acks)
    BY <1>0, <2>3, <2>6, <2>9
  <2> QED
    BY <2>11, <2>12 DEF Sound
<1>5. CASE /\ s.kind = "FIN"
           /\ peer' = [peer EXCEPT !.fin = TRUE, !.acks = @ \cup {g + 1}]
  <2>1. Over(Machine) /\ Faithful(Machine.wire)
    BY <1>0, <1>3, <1>5 DEF Tx, Opening, Active, NoFin
  <2>2. peer'.rcvd = peer.rcvd /\ peer'.acks = peer.acks \cup {g + 1} /\ peer'.fin /\ peer'.st = "open"
    BY <1>0, <1>5 DEF PeerType
  <2>3. Got' = g + 1
    BY <2>2 DEF Got
  <2>4. peer'.acks \subseteq 0 .. g + 1 /\ 0 \in peer'.acks
    BY <1>2, <2>2
  <2>5. Taken'
    <3>1. Over(Machine)'
      BY <1>0, <2>1 DEF Over
    <3> QED
      BY <1>0, <2>2, <2>3, <2>4, <3>1 DEF Taken
  <2>6. Tx(Machine', peer'.acks)
    BY <1>0, <2>1 DEF Tx
  <2> QED
    BY <2>5, <2>6 DEF Sound
<1> QED
  BY <1>1, <1>2, <1>4, <1>5

LEMMA InitSound == Init => Sound
<1> SUFFICES ASSUME Init PROVE Sound
  OBVIOUS
<1>1. Over(Machine) /\ Faithful(Machine.wire)
  BY NoConnTyped, MachineIs DEF Init, Over, Faithful
<1>2. /\ peer.rcvd = <<>> /\ ~peer.fin /\ peer.acks = {0} /\ Len(peer.rcvd) = 0
  BY DEF Init, NewPeer
<1>3. Got = 0
  BY <1>2 DEF Got
<1>4. Taken
  BY <1>2, <1>3, StreamNone, Constants DEF Taken
<1> QED
  BY <1>1, <1>4 DEF Sound, Tx

LEMMA ConnectSound ==
  ASSUME IInv, Connect
  PROVE  Sound' /\ app'.done = 0
<1>1. Taken' /\ peer'.acks = {0}
  BY NewPeerTaken DEF Connect
<1>2. /\ c'.status = "CONNECT" /\ ~c'.dying /\ c'.seq = LocalIsn /\ c'.tx = 0 /\ c'.txlen = 0
      /\ ~c'.rexmit /\ ~c'.zw
  BY DEF Connect, NewConn
<1>3. app'.sent = 0 /\ app'.done = 0 /\ wire' = {}
  BY DEF Connect, NewApp
<1>4. Machine'.c = c' /\ Machine'.app = app' /\ Machine'.wire = wire'
  BY DEF Machine
<1>5. Opening(Machine', {0})
  BY <1>2, <1>3, <1>4 DEF Opening, Handshake
<1> QED
  BY <1>1, <1>3, <1>5 DEF Sound, Tx

LEMMA PeerSound ==
  ASSUME FitsSent, IInv, Sound,
         PeerOpen \/ PeerHandshake \/ PeerSend \/ PeerClose \/ PeerReceive \/ PeerReset
  PROVE  Sound' /\ app' = app
<1>0. c' = c /\ app' = app /\ (wire' = wire \/ wire' = {}) /\ peer' \in PeerType
  BY PeerStep
<1>1. /\ Machine'.c = Machine.c /\ Machine'.app = Machine.app
      /\ (Machine'.wire = Machine.wire \/ Machine'.wire = {})
      /\ (wire' = wire => Machine' = Machine)
  BY <1>0 DEF Machine
<1>2. Tx(Machine, peer.acks) /\ Taken /\ peer \in PeerType
  BY DEF Sound, IInv, Typed
<1>3. ASSUME NEW st \in {"idle", "synsent", "synrcvd"}, peer' = NewPeer(st)
      PROVE  Sound'
  <2>1. Taken' /\ peer'.acks = {0}
    BY <1>3, NewPeerTaken
  <2>2. Tx(Machine', {0})
    BY <1>1, <1>2, ClearedTx
  <2> QED
    BY <2>1, <2>2 DEF Sound
<1>4. ASSUME wire' = wire, peer'.rcvd = peer.rcvd, peer'.acks = peer.acks, peer'.fin = peer.fin,
             peer'.st \in {"idle", "synsent", "synrcvd"} => peer'.st = peer.st
      PROVE  Sound'
  <2>1. Taken'
    BY <1>0, <1>2, <1>4, OpenTaken
  <2>2. Tx(Machine', peer'.acks)
    BY <1>1, <1>2, <1>4
  <2> QED
    BY <2>1, <2>2 DEF Sound
<1>5. CASE PeerOpen
  BY <1>0, <1>3, <1>5 DEF PeerOpen
<1>6. CASE PeerHandshake
  <2>1. wire' = wire /\ (peer' = NewPeer("synrcvd") \/ peer' = [peer EXCEPT !.st = "open"])
    BY <1>6 DEF PeerHandshake
  <2>2. CASE peer' = NewPeer("synrcvd")
    BY <1>0, <1>3, <2>2
  <2>3. CASE peer' = [peer EXCEPT !.st = "open"]
    <3>1. /\ peer'.rcvd = peer.rcvd /\ peer'.acks = peer.acks /\ peer'.fin = peer.fin
          /\ peer'.st = "open"
      BY <1>2, <2>3 DEF PeerType
    <3> QED
      BY <1>0, <1>4, <2>1, <3>1
  <2> QED
    BY <2>1, <2>2, <2>3
<1>7. CASE PeerSend \/ PeerClose
  <2>1. SendUnit /\ wire' = wire
    BY <1>7 DEF PeerSend, PeerClose
  <2>2. /\ peer'.rcvd = peer.rcvd /\ peer'.acks = peer.acks /\ peer'.fin = peer.fin
        /\ peer'.st = peer.st
    BY <1>2, <2>1 DEF SendUnit, PeerType
  <2> QED
    BY <1>0, <1>4, <2>1, <2>2
<1>8. CASE PeerReceive
  BY <1>0, <1>8, ReceiveSound
<1>9. CASE PeerReset
  <2>1. /\ peer'.rcvd = peer.rcvd /\ peer'.acks = peer.acks /\ peer'.fin = peer.fin
        /\ peer'.st = "gone" /\ wire' = wire
    BY <1>2, <1>9 DEF PeerReset, PeerType
  <2> QED
    BY <1>0, <1>4, <2>1
<1> QED
  BY <1>5, <1>6, <1>7, <1>8, <1>9

LEMMA NextSound ==
  FitsSent /\ WindowOpen /\ IInv /\ Sound /\ [Next]_vars => Sound' /\ DoneIsTaken
<1> SUFFICES ASSUME FitsSent, WindowOpen, IInv, Sound, [Next]_vars PROVE Sound' /\ DoneIsTaken
  OBVIOUS
<1>1. CASE PeriodicCheck
  BY <1>1, CheckSound DEF PeriodicCheck, DoneIsTaken
<1>2. CASE Connect
  BY <1>2, ConnectSound DEF DoneIsTaken
<1>3. CASE CloseAll
  BY <1>3, CloseAllSound DEF DoneIsTaken
<1>4. CASE Start \/ UNCHANGED vars
  <2>1. c' = c /\ wire' = wire /\ app' = app /\ peer' = peer
    BY <1>4 DEF Start, vars
  <2>2. Machine' = Machine
    BY <2>1 DEF Machine
  <2>3. Taken'
    BY <2>1, <2>2 DEF Sound, Taken, Got, Over
  <2>4. Tx(Machine', peer'.acks)
    BY <2>1, <2>2 DEF Sound
  <2> QED
    BY <2>1, <2>3, <2>4 DEF Sound, DoneIsTaken
<1>5. CASE Arrive
  BY <1>5, ArriveSound
<1>6. CASE PeerOpen \/ PeerHandshake \/ PeerSend \/ PeerClose \/ PeerReceive \/ PeerReset
  BY <1>6, PeerSound DEF DoneIsTaken
<1> QED
  BY <1>1, <1>2, <1>3, <1>4, <1>5, <1>6 DEF Next

(* PeerGetsStream: the peer takes the units the upper layer sent in order,  *)
(* none twice and none left out, over retransmission, late acknowledgements *)
(* and one chunk after another, as long as every window it advertises is    *)
(* open and takes the longest chunk.                                        *)
THEOREM PeerGetsInOrder == ASSUME FitsSent, WindowOpen PROVE Spec => []PeerGetsStream
<1>1. Init => IInv /\ Sound
  BY InitIInv, InitSound
<1>2. (IInv /\ Sound) /\ [Next]_vars => (IInv /\ Sound)'
  BY NextIInv, NextSound
<1>3. IInv /\ Sound => PeerGetsStream
  BY DEF Sound, Taken, PeerGetsStream
<1> QED
  BY <1>1, <1>2, <1>3, PTL DEF Spec

(* SentMeansReceived: the chunk that mtk_receive_tcp reports with           *)
(* MTK_TCP_CB_DATA_SENT, on which the upper layer frees or reuses its       *)
(* buffer, is with the peer in full, for the same windows.                  *)
THEOREM SentIsReceived == ASSUME FitsSent, WindowOpen PROVE Spec => SentMeansReceived
<1>1. Init => IInv /\ Sound
  BY InitIInv, InitSound
<1>2. (IInv /\ Sound) /\ [Next]_vars => (IInv /\ Sound)'
  BY NextIInv, NextSound
<1>3. IInv /\ Sound /\ [Next]_vars =>
        [app'.done > app.done => app'.done <= Len(peer.rcvd)]_vars
  <2> SUFFICES ASSUME IInv, Sound, [Next]_vars, app'.done > app.done
               PROVE  app'.done <= Len(peer.rcvd)
    OBVIOUS
  <2>1. app.done \in Nat
    BY MachineIs DEF IInv, Typed, Machines, AppType
  <2> QED
    BY <2>1, NextSound DEF DoneIsTaken
<1> QED
  BY <1>1, <1>2, <1>3, PTL DEF Spec, SentMeansReceived
=============================================================================
