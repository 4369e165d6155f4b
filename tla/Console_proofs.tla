----------------------------- MODULE Console_proofs -----------------------------
(***************************************************************************)
(* Proofs about Console.  Whatever clients do, one command at a time is    *)
(* queued or running, and a telnet command that was accepted is started    *)
(* once, in its turn.  As long as no other session is used while the one   *)
(* that left has its command queued or running, and no client leaves its   *)
(* own web command, no freed memory is used, but by a command whose own    *)
(* connection has vanished, and an abort reaches the command it was meant  *)
(* for; as long as there is memory for a command's    *)
(* own buffer, and nobody watches the web console, so does its output      *)
(* reach its own session.                                                  *)
(***************************************************************************)
EXTENDS Console, TLAPS

Session  == [open : BOOLEAN, mem : {"none", "live", "freed", "lost"}, executing : BOOLEAN, dead : BOOLEAN]
Request  == [pdata : Sessions \cup {None}, pending : BOOLEAN, active : BOOLEAN, cmd : 0 .. MaxCmds]
Output   == [cur : SUBSET (Sessions \cup Requests), saved : SUBSET (Sessions \cup Requests),
             private : BOOLEAN]
History  == [queuedBy : Seq(Sessions), started : Seq(Nat), wrong : BOOLEAN, freed : BOOLEAN,
             read : SUBSET ((Sessions \cup Requests) \X (Sessions \cup {"web"}))]
Commands == [by : Sessions \cup Requests, net : BOOLEAN, asked : BOOLEAN]

(* What the flags say when command c runs: nothing is queued, and exactly    *)
(* one of the two consoles is busy.                                          *)
Alone(c) ==
  /\ stack = <<c>> /\ ~req.pending
  /\ busy <=> c.by \in Requests
  /\ req.active <=> c.by \in Sessions
  /\ req.active => req.pdata = c.by

Quiet == stack = <<>> /\ ~busy /\ ~req.active

Shape == Quiet \/ \E c \in Commands : Alone(c)

IInv == TypeOK /\ Shape

----------------------------------------------------------------------------

LEMMA OneElement ==
  ASSUME NEW c
  PROVE  /\ <<c>> # <<>> /\ Len(<<c>>) = 1 /\ DOMAIN <<c>> = {1} /\ <<c>>[1] = c
         /\ Last(<<c>>) = c /\ Front(<<c>>) = <<>> /\ Append(<<>>, c) = <<c>>
BY DEF Last, Front

LEMMA OneReplaced == ASSUME NEW c, NEW d PROVE [<<c>> EXCEPT ![1] = d] = <<d>>
OBVIOUS

(* Marking the one command that runs.                                        *)
LEMMA OneMarked ==
  ASSUME NEW c \in Commands, stack = <<c>>
  PROVE  /\ \A t \in Sessions : Asked(t) = <<[c EXCEPT !.asked = @ \/ c.by = t]>>
         /\ [i \in DOMAIN stack |-> [stack[i] EXCEPT !.asked = @ \/ stack[i].by \in Requests]]
              = <<[c EXCEPT !.asked = @ \/ c.by \in Requests]>>
BY OneElement DEF Asked

LEMMA NoneMarked ==
  ASSUME stack = <<>>
  PROVE  /\ \A t \in Sessions : Asked(t) = <<>>
         /\ [i \in DOMAIN stack |-> [stack[i] EXCEPT !.asked = @ \/ stack[i].by \in Requests]]
              = <<>>
BY DEF Asked

LEMMA MarkedIsCommand ==
  ASSUME NEW c \in Commands, NEW p \in BOOLEAN
  PROVE  /\ [c EXCEPT !.asked = @ \/ p] \in Commands
         /\ [c EXCEPT !.asked = @ \/ p].by = c.by
         /\ [c EXCEPT !.net = FALSE] \in Commands /\ [c EXCEPT !.net = FALSE].by = c.by
BY DEF Commands

LEMMA OneTyped == ASSUME NEW S, NEW c \in S PROVE <<c>> \in Seq(S)
OBVIOUS

LEMMA AppendTyped == ASSUME NEW S, NEW q \in Seq(S), NEW e \in S PROVE Append(q, e) \in Seq(S)
OBVIOUS

LEMMA StackTyped == ASSUME Shape PROVE stack \in Seq(Commands)
<1>1. <<>> \in Seq(Commands)
  OBVIOUS
<1> QED
  BY <1>1, OneTyped DEF Shape, Quiet, Alone

LEMMA SessionFields ==
  ASSUME NEW x \in Session
  PROVE  /\ [x EXCEPT !.open = TRUE, !.mem = "live"] \in Session
         /\ [x EXCEPT !.executing = TRUE] \in Session
         /\ [x EXCEPT !.executing = FALSE] \in Session
         /\ [x EXCEPT !.open = FALSE, !.dead = TRUE] \in Session
         /\ [x EXCEPT !.open = FALSE, !.mem = "freed"] \in Session
         /\ [x EXCEPT !.open = FALSE, !.mem = "lost"] \in Session
         /\ [x EXCEPT !.mem = "freed"] \in Session
BY DEF Session

LEMMA DrainedTyped ==
  ASSUME hist \in History, out \in Output, NEW r \in Sessions \cup {"web"}
  PROVE  Drained(hist, r) \in History
<1>1. {<<by, r>> : by \in out.cur} \subseteq (Sessions \cup Requests) \X (Sessions \cup {"web"})
  BY DEF Output
<1> QED
  BY <1>1 DEF Drained, History

LEMMA FreedTyped == ASSUME hist \in History PROVE [hist EXCEPT !.freed = TRUE] \in History
BY DEF History

LEMMA FreedIsSeen == ASSUME hist \in History PROVE [hist EXCEPT !.freed = TRUE].freed
BY DEF History

LEMMA ReapedTyped == ASSUME TypeOK PROVE Reaped \in [Sessions -> Session]
<1>1. \A t \in Sessions : tn[t] \in Session
  BY DEF TypeOK, Session
<1>2. \A t \in Sessions : [tn[t] EXCEPT !.mem = "freed"] \in Session
  BY <1>1, SessionFields
<1> QED
  BY <1>1, <1>2 DEF Reaped

----------------------------------------------------------------------------
(* The shape, one group of actions at a time. *)

(* What leaves the commands and the flags alone keeps the shape.             *)
LEMMA Untouched ==
  ASSUME Shape, UNCHANGED <<req, stack, busy>>
  PROVE  Shape'
BY DEF Shape, Quiet, Alone

(* The parts of the type that an action must show.                           *)
LEMMA Typed ==
  ASSUME tn' \in [Sessions -> Session], orphan' \in Sessions \cup {None},
         busy' \in BOOLEAN, abort' \in BOOLEAN, req' \in Request, Shape',
         web' \in [Requests -> {"idle", "running", "answered", "gone"}],
         out' \in Output, IF out'.private THEN req'.active ELSE out'.saved = {},
         req'.pending => req'.pdata # None, hist' \in History
  PROVE  IInv'
<1>1. stack' \in Seq(Commands)
  <2>1. CASE Quiet'
    BY <2>1 DEF Quiet
  <2>2. ASSUME NEW c \in Commands, Alone(c)'
        PROVE  stack' \in Seq(Commands)
    BY <2>2, OneTyped DEF Alone
  <2> QED
    BY <2>1, <2>2 DEF Shape
<1> QED
  BY <1>1 DEF IInv, TypeOK, Session, Request, Commands, Output, History

LEMMA TypeParts ==
  ASSUME IInv
  PROVE  /\ tn \in [Sessions -> Session] /\ orphan \in Sessions \cup {None}
         /\ busy \in BOOLEAN /\ abort \in BOOLEAN /\ req \in Request /\ Shape
         /\ web \in [Requests -> {"idle", "running", "answered", "gone"}]
         /\ out \in Output /\ (IF out.private THEN req.active ELSE out.saved = {})
         /\ req.pending => req.pdata # None
         /\ hist \in History /\ Reaped \in [Sessions -> Session]
BY ReapedTyped DEF IInv, TypeOK, Session, Request, Output, History
LEMMA InitIInv == Init => IInv
<1> SUFFICES ASSUME Init PROVE IInv
  OBVIOUS
<1>1. tn \in [Sessions -> Session]
  BY DEF Init, Session
<1>2. req \in Request /\ ~req.pending /\ ~req.active
  BY ConsoleAssumption DEF Init, NoReq, Request
<1>3. stack = <<>> /\ stack \in Seq(Commands)
  BY DEF Init
<1>4. web \in [Requests -> {"idle", "running", "answered", "gone"}]
  BY DEF Init
<1>5. out \in Output /\ out.saved = {} /\ out.private = FALSE /\ hist \in History
  BY DEF Init, Output, History
<1>6. orphan = None /\ busy = FALSE /\ abort = FALSE
  BY DEF Init
<1>7. TypeOK
  BY <1>1, <1>2, <1>3, <1>4, <1>5, <1>6 DEF TypeOK, Session, Request, Commands, Output, History
<1> QED
  BY <1>2, <1>3, <1>5, <1>6, <1>7 DEF IInv, Shape, Quiet


----------------------------------------------------------------------------
LEMMA TelnetCalls ==
  ASSUME IInv, NEW t \in Sessions,
         Connect(t) \/ Enter(t) \/ Poll(t) \/ Closed(t) \/ Vanish(t)
  PROVE  IInv'
<1> USE TypeParts
<1>0. Reaped[t] \in Session
  OBVIOUS
<1>1. CASE Connect(t)
  <2>1. tn' \in [Sessions -> Session]
    BY <1>0, <1>1, SessionFields DEF Connect
  <2> QED
    BY <1>1, <2>1, Typed, Untouched DEF Connect
<1>2. CASE Enter(t)
  <2>0. orphan' = None /\ UNCHANGED <<stack, web, busy, abort, out>>
    BY <1>2 DEF Enter
  <2>1. CASE Refused(t)
    <3>1. tn' = Reaped /\ UNCHANGED <<req, hist>>
      BY <1>2, <2>1 DEF Enter
    <3> QED
      BY <2>0, <3>1, Typed, Untouched
  <2>2. CASE ~Refused(t)
    <3>1. Quiet
      BY <2>2 DEF Refused, Shape, Alone, Commands
    <3>2. tn' \in [Sessions -> Session]
      BY <1>0, <1>2, <2>2, SessionFields DEF Enter
    <3>3. /\ hist' = [hist EXCEPT !.queuedBy = Append(@, t)]
          /\ Len(hist.queuedBy) < MaxCmds
          /\ req' = [req EXCEPT !.pdata = t, !.pending = TRUE, !.cmd = Len(hist.queuedBy) + 1]
      BY <1>2, <2>2 DEF Enter
    <3>4. Len(hist.queuedBy) + 1 \in 0 .. MaxCmds
      BY <3>3, ConsoleAssumption DEF History
    <3>7. hist' \in History
      BY <3>3, AppendTyped DEF History
    <3>5. req' \in Request /\ req'.pdata # None /\ req'.active = req.active
      BY <3>3, <3>4, ConsoleAssumption DEF Request
    <3>6. Shape'
      BY <2>0, <3>1, <3>5 DEF Quiet, Shape
    <3> QED
      BY <2>0, <3>2, <3>5, <3>6, <3>7, Typed DEF Output
  <2> QED
    BY <2>1, <2>2
<1>3. CASE Poll(t)
  <2>1. tn' = Reaped /\ orphan' = None /\ UNCHANGED <<req, stack, web, busy, abort>>
    BY <1>3 DEF Poll
  <2>2. out' \in {out, [out EXCEPT !.cur = {}]} /\ hist' \in {hist, Drained(hist, t)}
    BY <1>3 DEF Poll
  <2>3. out' \in Output /\ out'.private = out.private /\ out'.saved = out.saved
    BY <2>2 DEF Output
  <2>4. hist' \in History
    BY <2>2, DrainedTyped
  <2> QED
    BY <2>1, <2>3, <2>4, Typed, Untouched
<1>4. CASE Closed(t)
  <2>1. UNCHANGED <<req, stack, web, busy, abort, out, hist>>
    BY <1>4 DEF Closed
  <2>2. tn' \in [Sessions -> Session] /\ orphan' \in Sessions \cup {None}
    BY <1>0, <1>4, SessionFields DEF Closed, Parted
  <2> QED
    BY <2>1, <2>2, Typed, Untouched
<1>5. CASE Vanish(t)
  <2>1. UNCHANGED <<orphan, req, stack, web, busy, abort, out, hist>>
    BY <1>5 DEF Vanish
  <2>2. tn' \in [Sessions -> Session]
    BY <1>5, SessionFields DEF Vanish
  <2> QED
    BY <2>1, <2>2, Typed, Untouched
<1> QED
  BY <1>1, <1>2, <1>3, <1>4, <1>5

(* An abort request marks the command that runs, or its end in net_loop.     *)
LEMMA Marked ==
  ASSUME IInv, (\E t \in Sessions : Interrupt(t)) \/ WebAbort \/ NetLoopAbort,
         NEW c \in Commands, Alone(c)
  PROVE  \E d \in Commands : d.by = c.by /\ stack' = <<d>>
<1>1. CASE \E t \in Sessions : Interrupt(t)
  <2>1. PICK t \in Sessions : stack' = Asked(t)
    BY <1>1 DEF Interrupt
  <2>2. stack' = <<[c EXCEPT !.asked = @ \/ c.by = t]>>
    BY <2>1, OneMarked DEF Alone
  <2>3. (c.by = t) \in BOOLEAN
    OBVIOUS
  <2> QED
    BY <2>2, <2>3, MarkedIsCommand
<1>2. CASE WebAbort
  <2>1. stack' = <<[c EXCEPT !.asked = @ \/ c.by \in Requests]>>
    BY <1>2, OneMarked DEF Alone, WebAbort
  <2>2. (c.by \in Requests) \in BOOLEAN
    OBVIOUS
  <2> QED
    BY <2>1, <2>2, MarkedIsCommand
<1>3. CASE NetLoopAbort
  <2>1. stack = <<c>> /\ stack' = [stack EXCEPT ![Len(stack)].net = FALSE]
    BY <1>3 DEF Alone, NetLoopAbort
  <2>2. Len(stack) = 1 /\ stack[1] = c
    BY <2>1, OneElement
  <2>3. stack' = [<<c>> EXCEPT ![1] = [c EXCEPT !.net = FALSE]]
    BY <2>1, <2>2
  <2>4. stack' = <<[c EXCEPT !.net = FALSE]>>
    BY <2>3, OneReplaced
  <2> QED
    BY <2>4, MarkedIsCommand
<1> QED
  BY <1>1, <1>2, <1>3

LEMMA Aborts ==
  ASSUME IInv, (\E t \in Sessions : Interrupt(t)) \/ WebAbort \/ NetLoopAbort
  PROVE  IInv'
<1> USE TypeParts
<1>1. /\ UNCHANGED <<req, busy, out, web>> /\ abort' \in BOOLEAN
      /\ hist' \in History
      /\ tn' \in {tn, Reaped} /\ orphan' \in {orphan, None}
  BY DEF Interrupt, WebAbort, NetLoopAbort, History
<1>2. Shape'
  <2>1. CASE Quiet
    <3>1. stack' = <<>>
      BY <2>1, NoneMarked DEF Quiet, Interrupt, WebAbort, NetLoopAbort
    <3> QED
      BY <1>1, <2>1, <3>1 DEF Quiet, Shape
  <2>2. ASSUME NEW c \in Commands, Alone(c)
        PROVE  Shape'
    <3>1. PICK d \in Commands : d.by = c.by /\ stack' = <<d>>
      BY <2>2, Marked
    <3> QED
      BY <1>1, <2>2, <3>1 DEF Alone, Shape
  <2> QED
    BY <2>1, <2>2 DEF Shape
<1> QED
  BY <1>1, <1>2, Typed

(* A telnet command is started, or dropped because its session has left.     *)
LEMMA Starts == ASSUME IInv, Start PROVE IInv'
<1> USE TypeParts
<1>0. PICK t \in Sessions : t = req.pdata
  BY DEF Start, Request
<1>1. stack = <<>> /\ req.pending /\ UNCHANGED <<tn, orphan, web, busy>>
  BY DEF Start
<1>2. Quiet /\ ~busy /\ ~req.active /\ out.private = FALSE /\ out.saved = {}
  BY <1>1, OneElement DEF Shape, Alone, Quiet, Output
<1>3. CASE tn[t].mem = "freed"
  <2>1. UNCHANGED <<req, stack, abort, out>> /\ hist' \in History
    BY <1>0, <1>3 DEF Start, History
  <2> QED
    BY <1>1, <2>1, Typed, Untouched
<1>4. CASE tn[t].mem # "freed" /\ tn[t].dead
  <2>1. /\ req' = [req EXCEPT !.pending = FALSE, !.pdata = None]
        /\ UNCHANGED <<stack, abort, out, hist>>
    BY <1>0, <1>4 DEF Start
  <2>2. req' \in Request /\ ~req'.active /\ ~req'.pending
    BY <1>2, <2>1 DEF Request
  <2>3. Shape'
    BY <1>1, <1>2, <2>1, <2>2 DEF Quiet, Shape
  <2> QED
    BY <1>1, <1>2, <2>1, <2>2, <2>3, Typed
<1>5. CASE tn[t].mem # "freed" /\ ~tn[t].dead
  <2>1. /\ req' = [req EXCEPT !.pending = FALSE, !.active = TRUE]
        /\ abort' = FALSE
        /\ hist' = [hist EXCEPT !.started = Append(@, req.cmd)]
    BY <1>0, <1>5 DEF Start, AbortCleared
  <2>2. req' \in Request /\ req'.active = TRUE /\ req'.pending = FALSE /\ req'.pdata = t
    BY <1>0, <2>1 DEF Request
  <2>3. hist' \in History
    <3>1. req.cmd \in Nat
      BY ConsoleAssumption DEF Request
    <3> QED
      BY <2>1, <3>1, AppendTyped DEF History
  <2>4. PICK net \in BOOLEAN, private \in BOOLEAN :
          stack' = <<[by |-> t, net |-> net, asked |-> FALSE]>> /\ out' = Isolated(private)
    BY <1>0, <1>5 DEF Start
  <2>5. out' \in Output /\ (out'.private \/ out'.saved = {})
    BY <1>2, <2>4 DEF Isolated, Output
  <2>6. Shape'
    <3> DEFINE c == [by |-> t, net |-> net, asked |-> FALSE]
    <3>1. c \in Commands /\ c.by = t
      BY DEF Commands
    <3>2. t \notin Requests
      BY ConsoleAssumption
    <3> HIDE DEF c
    <3>3. Alone(c)'
      BY <1>1, <1>2, <2>2, <2>4, <3>1, <3>2 DEF Alone, c
    <3> QED
      BY <3>1, <3>3 DEF Shape
  <2> QED
    BY <1>1, <2>1, <2>2, <2>3, <2>5, <2>6, Typed
<1> QED
  BY <1>3, <1>4, <1>5

(* A command returns; none is left.                                          *)
LEMMA Finishes == ASSUME IInv, FinishTelnet \/ FinishWeb PROVE IInv'
<1> USE TypeParts
<1>1. PICK c \in Commands : Alone(c)
  BY DEF Shape, Quiet, FinishTelnet, FinishWeb
<1>2. stack = <<c>> /\ Last(stack) = c /\ Front(stack) = <<>> /\ c.by \in Sessions \cup Requests
  BY <1>1, OneElement DEF Alone, Commands
<1>3. CASE FinishTelnet
  <2> DEFINE t == c.by
  <2>0. Last(stack).by \in Sessions /\ UNCHANGED <<orphan, web, busy>>
    BY <1>3 DEF FinishTelnet
  <2>1. /\ t \in Sessions /\ t \notin Requests /\ UNCHANGED <<orphan, web, busy>>
        /\ ~busy /\ req.pdata = t /\ ~req.pending
    BY <1>1, <1>2, <2>0, ConsoleAssumption DEF Alone
  <2>2. CASE UsesFreed
    <3>0. UNCHANGED <<tn, req, stack, abort, out>> /\ hist' = [hist EXCEPT !.freed = TRUE]
      BY <2>2 DEF UsesFreed
    <3>1. UNCHANGED <<tn, req, stack, abort, out>> /\ hist' \in History
      BY <3>0, FreedTyped
    <3> QED
      BY <2>1, <3>1, Typed, Untouched
  <2>3. CASE Returned(t)
    <3>1. /\ tn' = [tn EXCEPT ![t].executing = FALSE]
          /\ abort' = FALSE /\ stack' = <<>>
          /\ req' = [req EXCEPT !.active = FALSE, !.pdata = None]
      BY <1>2, <2>3 DEF Returned, Resumed
    <3>2. tn' \in [Sessions -> Session]
      BY <2>1, <3>1, SessionFields
    <3>3. req' \in Request /\ req'.active = FALSE /\ req'.pending = FALSE
      BY <1>1, <3>1 DEF Request, Alone
    <3>4. /\ out' \in Output /\ out'.saved = {} /\ out'.private = FALSE
          /\ hist' \in History
      <4>1. CASE tn[t].dead
        <5>1. Discarded
          BY <2>3, <4>1 DEF Returned
        <5> QED
          BY <5>1 DEF Discarded, Output
      <4>2. CASE ~tn[t].dead
        <5>1. Delivered(t)
          BY <2>3, <4>2 DEF Returned
        <5> QED
          BY <2>1, <5>1, DrainedTyped DEF Delivered, Output
      <4> QED
        BY <4>1, <4>2
    <3>5. Shape'
      BY <2>1, <3>1, <3>3 DEF Shape, Quiet
    <3> QED
      BY <2>1, <3>1, <3>2, <3>3, <3>4, <3>5, Typed
  <2> QED
    BY <1>2, <1>3, <2>2, <2>3 DEF FinishTelnet
<1>4. CASE FinishWeb
  <2> DEFINE w == c.by
  <2>0. Last(stack).by \in Requests /\ UNCHANGED <<tn, orphan, req, out>>
    BY <1>4 DEF FinishWeb
  <2>1. /\ w \in Requests /\ w \notin Sessions /\ UNCHANGED <<tn, orphan, req, out>>
        /\ ~req.active /\ ~req.pending
    BY <1>1, <1>2, <2>0, ConsoleAssumption DEF Alone
  <2>2. CASE web[w] = "gone"
    <3>0. UNCHANGED <<web, busy, stack, abort>> /\ hist' = [hist EXCEPT !.freed = TRUE]
      BY <1>2, <1>4, <2>2 DEF FinishWeb
    <3>1. UNCHANGED <<web, busy, stack, abort>> /\ hist' \in History
      BY <3>0, FreedTyped
    <3> QED
      BY <2>1, <3>1, Typed, Untouched
  <2>3. CASE web[w] # "gone"
    <3>1. /\ web' = [web EXCEPT ![w] = "answered"] /\ busy' = FALSE
          /\ stack' = <<>> /\ abort' = FALSE /\ UNCHANGED hist
      BY <1>2, <1>4, <2>3 DEF FinishWeb
    <3>2. Shape'
      BY <2>1, <3>1 DEF Shape, Quiet
    <3> QED
      BY <2>1, <3>1, <3>2, Typed
  <2> QED
    BY <2>2, <2>3
<1> QED
  BY <1>3, <1>4

(* The web console, and what the command prints.                             *)
LEMMA WebCalls ==
  ASSUME IInv,
         (\E w \in Requests : WebExec(w) \/ WebLeave(w)) \/ WebPoll \/ WebClear \/ Prints
  PROVE  IInv'
<1> USE TypeParts
<1>1. ASSUME NEW w \in Requests, WebExec(w)
      PROVE  IInv'
  <2>1. UNCHANGED <<tn, orphan, req, abort, hist>>
    BY <1>1 DEF WebExec
  <2>2. CASE MayExec
    <3>1. PICK net \in BOOLEAN : stack' = Append(stack, [by |-> w, net |-> net, asked |-> FALSE])
      BY <1>1, <2>2 DEF WebExec
    <3>2. /\ web' = [web EXCEPT ![w] = "running"] /\ busy' = TRUE
          /\ out' = [out EXCEPT !.cur = @ \cup {w}]
      BY <1>1, <2>2 DEF WebExec
    <3>3. out' \in Output /\ out'.private = out.private /\ out'.saved = out.saved
      BY <3>2 DEF Output
    <3>4. stack = <<>> /\ ~req.pending /\ ~req.active
      BY <2>2 DEF MayExec, Shape, Quiet, Alone, Commands
    <3>5. Shape'
      <4> DEFINE c == [by |-> w, net |-> net, asked |-> FALSE]
      <4>1. c \in Commands /\ c.by = w /\ w \notin Sessions
        BY ConsoleAssumption DEF Commands
      <4> HIDE DEF c
      <4>2. stack' = <<c>>
        BY <3>1, <3>4, OneElement DEF c
      <4>3. Alone(c)'
        BY <2>1, <3>2, <3>4, <4>1, <4>2 DEF Alone
      <4> QED
        BY <4>1, <4>3 DEF Shape
    <3> QED
      BY <2>1, <3>2, <3>3, <3>5, Typed
  <2>3. CASE ~MayExec
    <3>1. web' = [web EXCEPT ![w] = "answered"] /\ UNCHANGED <<busy, stack, out>>
      BY <1>1, <2>3 DEF WebExec
    <3> QED
      BY <2>1, <3>1, Typed, Untouched
  <2> QED
    BY <2>2, <2>3
<1>2. ASSUME NEW w \in Requests, WebLeave(w)
      PROVE  IInv'
  BY <1>2, Typed, Untouched DEF WebLeave
<1>3. CASE WebPoll
  <2>1. hist' \in History /\ out' = [out EXCEPT !.cur = {}]
    BY <1>3, DrainedTyped DEF WebPoll
  <2>2. out' \in Output /\ out'.private = out.private /\ out'.saved = out.saved
    BY <2>1 DEF Output
  <2> QED
    BY <1>3, <2>1, <2>2, Typed, Untouched DEF WebPoll
<1>4. CASE WebClear
  <2>1. out' \in Output /\ out'.private = out.private /\ out'.saved = out.saved
    BY <1>4 DEF WebClear, Output
  <2> QED
    BY <1>4, <2>1, Typed, Untouched DEF WebClear
<1>5. CASE Prints
  <2>1. PICK c \in Commands : Alone(c)
    BY <1>5 DEF Shape, Quiet, Prints
  <2>2. out' = [out EXCEPT !.cur = @ \cup {c.by}] /\ c.by \in Sessions \cup Requests
    BY <1>5, <2>1, OneElement DEF Prints, Alone, Commands
  <2>3. out' \in Output /\ out'.private = out.private /\ out'.saved = out.saved
    BY <2>2 DEF Output
  <2> QED
    BY <1>5, <2>3, Typed, Untouched DEF Prints
<1> QED
  BY <1>1, <1>2, <1>3, <1>4, <1>5

LEMMA NextIInv == IInv /\ [Next]_vars => IInv'
<1> SUFFICES ASSUME IInv, [Next]_vars PROVE IInv'
  OBVIOUS
<1>1. CASE UNCHANGED vars
  BY <1>1, TypeParts, Typed, Untouched DEF vars
<1>2. CASE Next
  BY <1>2, TelnetCalls, Aborts, Starts, Finishes, WebCalls DEF Next
<1> QED
  BY <1>1, <1>2

(* The state is always of its type: in particular a pending request names a  *)
(* session, and while the console buffer is private a telnet command runs.   *)
THEOREM ConsoleTypeCorrect == Spec => []TypeOK
<1>1. IInv => TypeOK
  BY DEF IInv
<1> QED
  BY InitIInv, NextIInv, <1>1, PTL DEF Spec

(* One command is queued or running at a time, on either console, whatever   *)
(* the clients do: the flags busy, pending and active, which telnet and the  *)
(* web console check before they start one, are always the truth about the   *)
(* stack.                                                                    *)
THEOREM OneCommandAtATime == Spec => []OneCommand
<1>1. IInv => OneCommand
  <2> SUFFICES ASSUME IInv PROVE OneCommand
    OBVIOUS
  <2>1. CASE Quiet
    BY <2>1 DEF Quiet, OneCommand
  <2>2. ASSUME NEW c \in Commands, Alone(c)
        PROVE  OneCommand
    BY <2>2, OneElement DEF Alone, OneCommand
  <2> QED
    BY <2>1, <2>2 DEF IInv, Shape
<1> QED
  BY InitIInv, NextIInv, <1>1, PTL DEF Spec

----------------------------------------------------------------------------
(* What keeps memory from being used after it was freed: the session whose   *)
(* command is owed to it is still there, if only because the stack forgot to *)
(* say that its connection vanished, and, if its client has left, it is the  *)
(* one that is parked; nobody else is suspended.                             *)
Sound(x, owed, parked) ==
  /\ x.open => x.mem = "live" /\ ~x.dead
  /\ x.mem = "none" => ~x.open /\ ~x.dead /\ ~x.executing
  /\ owed => x.executing /\ (x.dead => parked)
  /\ owed => x.mem = "live" \/ (x.mem = "lost" /\ ~x.dead)
  /\ x.executing /\ x.open => owed

Safe ==
  /\ ~hist.freed
  /\ \A t \in Sessions : Sound(tn[t], Owed(t), orphan = t)
  /\ orphan # None => tn[orphan].dead
  /\ \A w \in Requests : Running(w) => web[w] = "running"

(* ... or else it is the exception, and nothing follows.                     *)
Struck == hist.freed /\ NoUseAfterFree

(* An abort that is pending is for the command that runs, whose client asked *)
(* for it, or for the one that is queued, whose session was not told to go.  *)
Meant == \/ stack # <<>> /\ stack[1].asked
         \/ req.pending /\ ~tn[req.pdata].dead
Own == ~hist.wrong /\ (abort => Meant)

(* Who has a command queued or running, by the shape of the state.           *)
LEMMA Owes ==
  ASSUME IInv
  PROVE  /\ Quiet => /\ \A t \in Sessions : Owed(t) <=> req.pending /\ req.pdata = t
                     /\ \A x : ~Running(x)
         /\ \A c \in Commands : Alone(c) => /\ \A t \in Sessions : Owed(t) <=> c.by = t
                                            /\ \A x : Running(x) <=> c.by = x
<1>1. ASSUME Quiet
      PROVE  /\ \A t \in Sessions : Owed(t) <=> req.pending /\ req.pdata = t
             /\ \A x : ~Running(x)
  BY <1>1 DEF Quiet, Owed, Running
<1>2. ASSUME NEW c \in Commands, Alone(c)
      PROVE  /\ \A t \in Sessions : Owed(t) <=> c.by = t
             /\ \A x : Running(x) <=> c.by = x
  <2>1. \A x : Running(x) <=> c.by = x
    BY <1>2, OneElement DEF Alone, Running
  <2> QED
    BY <1>2, <2>1 DEF Alone, Owed
<1> QED
  BY <1>1, <1>2

(* A telnet callback frees the parked session, which nothing is owed to.     *)
LEMMA Called ==
  ASSUME IInv, Safe, orphan = None \/ ~Owed(orphan)
  PROVE  \A u \in Sessions :
           /\ Sound(Reaped[u], Owed(u), FALSE)
           /\ Reaped[u].open = tn[u].open /\ Reaped[u].executing = tn[u].executing
           /\ Reaped[u].dead = tn[u].dead
           /\ tn[u].open => Reaped[u] = tn[u]
           /\ Owed(u) => Reaped[u] = tn[u]
<1> TAKE u \in Sessions
<1>1. tn[u] \in Session /\ Sound(tn[u], Owed(u), orphan = u)
  BY TypeParts DEF Safe
<1>2. CASE u = orphan
  <2>1. Reaped[u] = [tn[u] EXCEPT !.mem = "freed"] /\ tn[u].dead /\ ~Owed(u)
    BY <1>2, ConsoleAssumption DEF Reaped, Safe
  <2> QED
    BY <1>1, <2>1 DEF Session, Sound
<1>3. CASE u # orphan
  BY <1>1, <1>3 DEF Reaped, Sound
<1> QED
  BY <1>2, <1>3

LEMMA NextOwes ==
  /\ \A d : stack' = <<d>> => \A x : Running(x)' <=> d.by = x
  /\ stack' = <<>> => \A x : ~Running(x)'
<1>1. ASSUME NEW d, stack' = <<d>>
      PROVE  \A x : Running(x)' <=> d.by = x
  BY <1>1, OneElement DEF Running
<1>2. ASSUME stack' = <<>>
      PROVE  \A x : ~Running(x)'
  BY <1>2 DEF Running
<1> QED
  BY <1>1, <1>2

(* Whose command it is does not change with an abort request.                *)
LEMMA AbortsOwe ==
  ASSUME IInv, (\E t \in Sessions : Interrupt(t)) \/ WebAbort \/ NetLoopAbort
  PROVE  \A x : (Running(x)' <=> Running(x)) /\ (Owed(x)' <=> Owed(x))
<1>1. UNCHANGED req
  BY DEF Interrupt, WebAbort, NetLoopAbort
<1>2. \A x : Running(x)' <=> Running(x)
  <2>1. CASE Quiet
    <3>1. stack' = <<>>
      BY <2>1, NoneMarked DEF Quiet, Interrupt, WebAbort, NetLoopAbort
    <3> QED
      BY <2>1, <3>1, NextOwes, Owes
  <2>2. ASSUME NEW c \in Commands, Alone(c)
        PROVE  \A x : Running(x)' <=> Running(x)
    <3>1. PICK d \in Commands : d.by = c.by /\ stack' = <<d>>
      BY <2>2, Marked
    <3> QED
      BY <2>2, <3>1, NextOwes, Owes
  <2> QED
    BY <2>1, <2>2 DEF IInv, Shape
<1> QED
  BY <1>1, <1>2 DEF Owed

(* What Safe asks of an action.                                              *)
LEMMA SafeNow ==
  ASSUME hist'.freed = hist.freed, Safe,
         \A u \in Sessions : Sound(tn'[u], Owed(u)', orphan' = u),
         orphan' # None => tn'[orphan'].dead,
         \A w \in Requests : Running(w)' => web'[w] = "running"
  PROVE  Safe'
BY DEF Safe, Sound

LEMMA TelnetSafe ==
  ASSUME IInv, Safe, "return" \notin Env, NEW t \in Sessions,
         Connect(t) \/ Enter(t) \/ Interrupt(t) \/ Poll(t) \/ Closed(t)
  PROVE  Safe'
<1>1. orphan = None \/ ~Owed(orphan)
  BY DEF Connect, Enter, Interrupt, Poll, Closed, MayCall
<1>2. \A u \in Sessions :
           /\ Sound(Reaped[u], Owed(u), FALSE)
           /\ Reaped[u].open = tn[u].open /\ Reaped[u].executing = tn[u].executing
           /\ Reaped[u].dead = tn[u].dead
           /\ tn[u].open => Reaped[u] = tn[u]
           /\ Owed(u) => Reaped[u] = tn[u]
  BY <1>1, Called
<1>3. Reaped \in [Sessions -> Session] /\ \A u \in Sessions : None # u
  BY TypeParts, ConsoleAssumption
<1>4. \A w \in Requests : Running(w) => web[w] = "running"
  BY DEF Safe
<1>5. CASE Connect(t)
  <2>1. /\ tn' = [Reaped EXCEPT ![t] = [@ EXCEPT !.open = TRUE, !.mem = "live"]]
        /\ orphan' = None /\ tn[t].mem = "none" /\ UNCHANGED <<req, stack, web, hist>>
    BY <1>5 DEF Connect
  <2>2. \A u : (Running(u)' <=> Running(u)) /\ (Owed(u)' <=> Owed(u))
    BY <2>1 DEF Running, Owed
  <2>3. ~tn[t].dead /\ ~tn[t].executing /\ ~Owed(t)
    BY <2>1 DEF Safe, Sound
  <2>4. Sound(tn'[t], FALSE, FALSE)
    BY <1>2, <1>3, <2>1, <2>3 DEF Sound, Session
  <2>5. \A u \in Sessions : Sound(tn'[u], Owed(u), FALSE)
    BY <1>2, <1>3, <2>1, <2>3, <2>4 DEF Sound
  <2> QED
    BY <1>3, <1>4, <2>1, <2>2, <2>5, SafeNow DEF Sound
<1>6. CASE Enter(t)
  <2>1. orphan' = None /\ UNCHANGED <<web, stack>> /\ tn[t].open
    BY <1>6 DEF Enter, Live
  <2>2. CASE Refused(t)
    <3>1. tn' = Reaped /\ UNCHANGED <<req, hist>>
      BY <1>6, <2>2 DEF Enter
    <3>2. \A u : (Running(u)' <=> Running(u)) /\ (Owed(u)' <=> Owed(u))
      BY <2>1, <3>1 DEF Running, Owed
    <3> QED
      BY <1>2, <1>3, <1>4, <2>1, <3>1, <3>2, SafeNow DEF Sound
  <2>3. CASE ~Refused(t)
    <3>1. Quiet /\ ~req.pending
      BY <2>3, TypeParts DEF Refused, Shape, Alone, Commands
    <3>2. /\ tn' = [Reaped EXCEPT ![t].executing = TRUE]
          /\ req' = [req EXCEPT !.pdata = t, !.pending = TRUE, !.cmd = Len(hist.queuedBy) + 1]
          /\ hist' = [hist EXCEPT !.queuedBy = Append(@, t)]
      BY <1>6, <2>3 DEF Enter
    <3>3. req'.pending = TRUE /\ req'.pdata = t /\ hist'.freed = hist.freed
      BY <3>2, TypeParts DEF Request, History
    <3>4. \A u : ~Running(u)' /\ (Owed(u)' <=> u = t)
      BY <2>1, <3>1, <3>3, NextOwes DEF Quiet, Owed
    <3>5. \A u \in Sessions : ~Owed(u)
      BY <3>1, Owes
    <3>6. Sound(tn'[t], TRUE, FALSE)
      BY <1>2, <1>3, <2>1, <3>2, <3>5 DEF Sound, Session
    <3>7. \A u \in Sessions : Sound(tn'[u], Owed(u)', FALSE)
      <4> TAKE u \in Sessions
      <4>1. CASE u = t
        BY <3>4, <3>6, <4>1 DEF Sound
      <4>2. CASE u # t
        BY <1>2, <1>3, <3>2, <3>4, <3>5, <4>2 DEF Sound
      <4> QED
        BY <4>1, <4>2
    <3> QED
      BY <1>3, <2>1, <3>3, <3>4, <3>7, SafeNow DEF Sound
  <2> QED
    BY <2>2, <2>3
<1>7. CASE Interrupt(t)
  <2>1. tn' = Reaped /\ orphan' = None /\ UNCHANGED <<hist, web>>
    BY <1>7 DEF Interrupt
  <2> QED
    BY <1>2, <1>3, <1>4, <1>7, <2>1, AbortsOwe, SafeNow DEF Sound
<1>8. CASE Poll(t)
  <2>1. tn' = Reaped /\ orphan' = None /\ UNCHANGED <<req, stack, web>>
    BY <1>8 DEF Poll
  <2>2. hist' \in {hist, Drained(hist, t)}
    BY <1>8 DEF Poll
  <2>3. hist'.freed = hist.freed
    BY <2>2, TypeParts DEF Drained, History
  <2>4. \A u : (Running(u)' <=> Running(u)) /\ (Owed(u)' <=> Owed(u))
    BY <2>1 DEF Running, Owed
  <2> QED
    BY <1>2, <1>3, <1>4, <2>1, <2>3, <2>4, SafeNow DEF Sound
<1>9. CASE Closed(t)
  <2>1. UNCHANGED <<req, stack, web, hist>> /\ tn[t].open /\ Parted(t)
    BY <1>9 DEF Closed, Live
  <2>2. \A u : (Running(u)' <=> Running(u)) /\ (Owed(u)' <=> Owed(u))
    BY <2>1 DEF Running, Owed
  <2>3. CASE tn[t].executing
    <3>1. /\ tn' = [Reaped EXCEPT ![t] = [@ EXCEPT !.open = FALSE, !.dead = TRUE]]
          /\ orphan' = t
      BY <2>1, <2>3 DEF Parted
    <3>2. tn'[t].dead /\ Sound(tn'[t], Owed(t), TRUE)
      BY <1>2, <1>3, <2>1, <3>1 DEF Sound, Session
    <3>3. \A u \in Sessions : Sound(tn'[u], Owed(u), orphan' = u)
      <4> TAKE u \in Sessions
      <4>1. CASE u = t
        BY <3>1, <3>2, <4>1 DEF Sound
      <4>2. CASE u # t
        BY <1>2, <1>3, <3>1, <4>2 DEF Sound
      <4> QED
        BY <4>1, <4>2
    <3> QED
      BY <1>4, <2>1, <2>2, <3>1, <3>2, <3>3, SafeNow DEF Sound
  <2>4. CASE ~tn[t].executing
    <3>1. /\ tn' = [Reaped EXCEPT ![t] = [@ EXCEPT !.open = FALSE, !.mem = "freed"]]
          /\ orphan' = None
      BY <2>1, <2>4 DEF Parted
    <3>2. Sound(tn'[t], Owed(t), FALSE)
      BY <1>2, <1>3, <2>4, <3>1 DEF Sound, Session
    <3>3. \A u \in Sessions : Sound(tn'[u], Owed(u), FALSE)
      BY <1>2, <1>3, <3>1, <3>2
    <3> QED
      BY <1>3, <1>4, <2>1, <2>2, <3>1, <3>3, SafeNow DEF Sound
  <2> QED
    BY <2>3, <2>4
<1> QED
  BY <1>5, <1>6, <1>7, <1>8, <1>9

(* A connection vanishes; the session does not learn of it.                  *)
LEMMA VanishSafe ==
  ASSUME IInv, Safe, NEW t \in Sessions, Vanish(t)
  PROVE  Safe' /\ \A u \in Sessions : tn'[u].dead = tn[u].dead
<1>1. /\ tn' = [tn EXCEPT ![t] = [@ EXCEPT !.open = FALSE, !.mem = "lost"]]
      /\ UNCHANGED <<orphan, req, stack, web, hist>> /\ tn[t].open
  BY DEF Vanish, Live
<1>2. \A u : (Running(u)' <=> Running(u)) /\ (Owed(u)' <=> Owed(u))
  BY <1>1 DEF Running, Owed
<1>3. tn[t] \in Session /\ ~tn[t].dead /\ Sound(tn[t], Owed(t), orphan = t)
  BY <1>1, TypeParts DEF Safe, Sound
<1>4. tn'[t].dead = tn[t].dead /\ Sound(tn'[t], Owed(t), orphan = t)
  BY <1>1, <1>3, TypeParts DEF Sound, Session
<1>5. \A u \in Sessions : tn'[u].dead = tn[u].dead /\ Sound(tn'[u], Owed(u), orphan = u)
  <2> TAKE u \in Sessions
  <2>1. CASE u = t
    BY <1>4, <2>1
  <2>2. CASE u # t
    BY <1>1, <2>2, TypeParts DEF Safe
  <2> QED
    BY <2>1, <2>2
<1>6. orphan \in Sessions \cup {None}
  BY TypeParts
<1> QED
  BY <1>1, <1>2, <1>5, <1>6 DEF Safe, Sound

(* What leaves the sessions, the request and the stack alone.                *)
LEMMA StaysSafe ==
  ASSUME Safe, UNCHANGED <<tn, orphan, req, stack>>, hist'.freed = hist.freed,
         \A w \in Requests : web'[w] = web[w] \/ ~Running(w)
  PROVE  Safe'
<1>1. \A u : (Running(u)' <=> Running(u)) /\ (Owed(u)' <=> Owed(u))
  BY DEF Running, Owed
<1> QED
  BY <1>1 DEF Safe, Sound

LEMMA StartSafe == ASSUME IInv, Safe, Start PROVE Safe'
<1>0. PICK t \in Sessions : t = req.pdata
  BY TypeParts DEF Start, Request
<1>1. stack = <<>> /\ req.pending /\ UNCHANGED <<tn, orphan, web>>
  BY DEF Start
<1>2. Quiet
  BY <1>1, OneElement, TypeParts DEF Shape, Alone
<1>3. /\ \A u \in Sessions : Owed(u) <=> u = t
      /\ \A u \in Sessions : Sound(tn[u], u = t, orphan = u)
  BY <1>0, <1>1, <1>2, Owes DEF Safe, Sound
<1>4. tn[t].mem # "freed"
  <2>1. tn[t].mem = "live" \/ tn[t].mem = "lost"
    BY <1>3 DEF Sound
  <2> QED
    BY <2>1
<1>5. CASE tn[t].dead
  <2>1. req' = [req EXCEPT !.pending = FALSE, !.pdata = None] /\ UNCHANGED <<stack, hist>>
    BY <1>0, <1>4, <1>5 DEF Start
  <2>2. req'.pending = FALSE
    BY <2>1, TypeParts DEF Request
  <2>3. \A u : ~Running(u)' /\ ~Owed(u)'
    BY <1>1, <2>1, <2>2, NextOwes DEF Owed
  <2>4. \A u \in Sessions : Sound(tn[u], FALSE, orphan = u)
    BY <1>3, <1>5 DEF Sound
  <2> QED
    BY <1>1, <2>1, <2>3, <2>4 DEF Safe, Sound
<1>6. CASE ~tn[t].dead
  <2>1. /\ req' = [req EXCEPT !.pending = FALSE, !.active = TRUE]
        /\ hist' = [hist EXCEPT !.started = Append(@, req.cmd)]
    BY <1>0, <1>4, <1>6 DEF Start
  <2>2. PICK net \in BOOLEAN : stack' = <<[by |-> t, net |-> net, asked |-> FALSE]>>
    BY <1>0, <1>4, <1>6 DEF Start
  <2>3. req'.pending = FALSE /\ hist'.freed = hist.freed
    BY <2>1, TypeParts DEF Request, History
  <2>4. \A u : (Running(u)' <=> u = t) /\ (Owed(u)' <=> u = t)
    BY <2>2, <2>3, NextOwes DEF Owed
  <2>5. \A w \in Requests : w # t
    BY ConsoleAssumption
  <2> QED
    BY <1>1, <1>3, <2>3, <2>4, <2>5 DEF Safe, Sound
<1> QED
  BY <1>5, <1>6

(* A command returns, and uses no freed memory unless its own connection     *)
(* vanished.                                                                 *)
LEMMA FinishesSafe ==
  ASSUME IInv, Safe, FinishTelnet \/ FinishWeb
  PROVE  Safe' \/ (Struck' /\ UNCHANGED <<tn, req, stack, abort>> /\ hist'.wrong = hist.wrong)
<1>1. PICK c \in Commands : Alone(c)
  BY TypeParts DEF Shape, Quiet, FinishTelnet, FinishWeb
<1>2. stack = <<c>> /\ Last(stack) = c /\ Front(stack) = <<>> /\ c.by \in Sessions \cup Requests
  BY <1>1, OneElement DEF Alone, Commands
<1>3. /\ \A u \in Sessions : Owed(u) <=> c.by = u
      /\ \A x : Running(x) <=> c.by = x
      /\ ~req.pending
  BY <1>1, Owes DEF Alone
<1>4. CASE FinishTelnet
  <2> DEFINE t == c.by
  <2>1. t \in Sessions /\ UNCHANGED <<orphan, web>>
    BY <1>2, <1>4 DEF FinishTelnet
  <2>2. tn[t] \in Session /\ Sound(tn[t], TRUE, orphan = t) /\ (tn[t].mem = "live" \/ tn[t].mem = "lost")
    BY <1>3, <2>1, TypeParts DEF Safe, Sound
  <2>a. CASE UsesFreed
    <3>1. UNCHANGED <<tn, req, stack, abort>> /\ hist' = [hist EXCEPT !.freed = TRUE]
      BY <2>a DEF UsesFreed
    <3>2. tn[t].mem = "lost"
      <4>1. Returned(t) \/ tn[t].mem \in {"freed", "lost"}
        BY <1>2, <1>4 DEF FinishTelnet
      <4>2. ASSUME Returned(t) PROVE FALSE
        BY <1>2, <3>1, <4>2 DEF Returned
      <4> QED
        BY <2>2, <4>1, <4>2
    <3>3. Running(t)'
      BY <1>3, <3>1 DEF Running
    <3>4. hist'.freed /\ hist'.wrong = hist.wrong
      BY <3>1, TypeParts DEF History
    <3>5. Struck'
      BY <2>1, <3>1, <3>2, <3>3, <3>4 DEF Struck, NoUseAfterFree
    <3> QED
      BY <3>1, <3>4, <3>5
  <2>b. SUFFICES ASSUME Returned(t) PROVE Safe'
    BY <1>2, <1>4, <2>a DEF FinishTelnet
  <2>3. /\ tn' = [tn EXCEPT ![t].executing = FALSE]
        /\ stack' = <<>>
        /\ req' = [req EXCEPT !.active = FALSE, !.pdata = None]
        /\ hist' \in {hist, Drained(hist, t)}
    BY <1>2, <2>b DEF Returned, Resumed, Discarded, Delivered
  <2>4. req'.pending = FALSE /\ hist'.freed = hist.freed
    BY <1>3, <2>3, TypeParts DEF Request, History, Drained
  <2>5. \A x : ~Running(x)' /\ ~Owed(x)'
    BY <2>3, <2>4, NextOwes DEF Owed
  <2>6. Sound(tn'[t], FALSE, orphan = t) /\ tn'[t].dead = tn[t].dead
    BY <2>1, <2>2, <2>3, TypeParts DEF Sound, Session
  <2>7. \A u \in Sessions : Sound(tn'[u], FALSE, orphan = u) /\ tn'[u].dead = tn[u].dead
    <3> TAKE u \in Sessions
    <3>1. CASE u = t
      BY <2>6, <3>1 DEF Sound
    <3>2. CASE u # t
      BY <1>3, <2>3, <3>2, TypeParts DEF Safe, Sound
    <3> QED
      BY <3>1, <3>2
  <2>8. orphan \in Sessions \cup {None}
    BY TypeParts
  <2> QED
    BY <2>1, <2>4, <2>5, <2>7, <2>8 DEF Safe, Sound
<1>5. CASE FinishWeb
  <2> DEFINE w == c.by
  <2>1. w \in Requests /\ UNCHANGED <<tn, orphan, req>> /\ web[w] = "running"
    BY <1>2, <1>3, <1>5 DEF FinishWeb, Safe
  <2>2. stack' = <<>> /\ UNCHANGED hist
    BY <1>2, <1>5, <2>1 DEF FinishWeb
  <2>3. \A x : ~Running(x)' /\ ~Owed(x)'
    BY <1>3, <2>1, <2>2, NextOwes DEF Owed
  <2>4. \A u \in Sessions : ~Owed(u)
    BY <1>3, <2>1, ConsoleAssumption
  <2> QED
    BY <2>1, <2>2, <2>3, <2>4 DEF Safe, Sound
<1> QED
  BY <1>4, <1>5

LEMMA WebSafe ==
  ASSUME IInv, Safe, "webLeaves" \notin Env,
         \/ \E w \in Requests : WebExec(w) \/ WebLeave(w)
         \/ WebPoll \/ WebClear \/ Prints \/ WebAbort \/ NetLoopAbort
  PROVE  Safe'
<1>1. ASSUME NEW w \in Requests, WebExec(w)
      PROVE  Safe'
  <2>1. UNCHANGED <<tn, orphan, req, abort, hist>> /\ web[w] = "idle"
    BY <1>1 DEF WebExec
  <2>2. CASE MayExec
    <3>1. Quiet /\ ~req.pending
      BY <2>2, TypeParts DEF MayExec, Shape, Alone, Commands
    <3>2. PICK net \in BOOLEAN : stack' = Append(stack, [by |-> w, net |-> net, asked |-> FALSE])
      BY <1>1, <2>2 DEF WebExec
    <3>3. stack' = <<[by |-> w, net |-> net, asked |-> FALSE]>>
      BY <3>1, <3>2, OneElement DEF Quiet
    <3>4. web' = [web EXCEPT ![w] = "running"]
      BY <1>1, <2>2 DEF WebExec
    <3>5. \A x : Running(x)' <=> x = w
      BY <3>3, NextOwes
    <3>6. \A u \in Sessions : ~Owed(u) /\ ~Owed(u)'
      BY <2>1, <3>1, <3>5, Owes, ConsoleAssumption DEF Owed
    <3>7. web'[w] = "running"
      BY <3>4, TypeParts
    <3> QED
      BY <2>1, <3>5, <3>6, <3>7 DEF Safe, Sound
  <2>3. CASE ~MayExec
    <3>1. web' = [web EXCEPT ![w] = "answered"] /\ UNCHANGED stack
      BY <1>1, <2>3 DEF WebExec
    <3>2. ~Running(w)
      BY <2>1 DEF Safe
    <3> QED
      BY <2>1, <3>1, <3>2, StaysSafe, TypeParts
  <2> QED
    BY <2>2, <2>3
<1>2. ASSUME NEW w \in Requests, WebLeave(w)
      PROVE  Safe'
  <2>1. /\ web[w] = "answered" /\ web' = [web EXCEPT ![w] = "gone"]
        /\ UNCHANGED <<tn, orphan, req, stack, hist>>
    BY <1>2 DEF WebLeave
  <2>2. ~Running(w)
    BY <2>1 DEF Safe
  <2> QED
    BY <2>1, <2>2, StaysSafe, TypeParts
<1>3. CASE WebPoll \/ WebClear \/ Prints
  <2>1. UNCHANGED <<tn, orphan, req, stack, web>> /\ hist' \in {hist, Drained(hist, "web")}
    BY <1>3 DEF WebPoll, WebClear, Prints
  <2>2. hist'.freed = hist.freed
    BY <2>1, TypeParts DEF Drained, History
  <2> QED
    BY <2>1, <2>2, StaysSafe
<1>4. CASE WebAbort \/ NetLoopAbort
  <2>1. UNCHANGED <<tn, orphan, req, web>> /\ hist'.freed = hist.freed
    BY <1>4, TypeParts DEF WebAbort, NetLoopAbort, History
  <2>2. \A x : (Running(x)' <=> Running(x)) /\ (Owed(x)' <=> Owed(x))
    BY <1>4, AbortsOwe
  <2> QED
    BY <2>1, <2>2 DEF Safe, Sound
<1> QED
  BY <1>1, <1>2, <1>3, <1>4

LEMMA InitSafe == Init => Safe
<1> SUFFICES ASSUME Init PROVE Safe
  OBVIOUS
<1>1. stack = <<>> /\ req.pending = FALSE /\ hist.freed = FALSE /\ orphan = None
  BY DEF Init, NoReq
<1>2. \A x : ~Running(x) /\ ~Owed(x)
  BY <1>1 DEF Running, Owed
<1>3. \A t \in Sessions : tn[t] = [open |-> FALSE, mem |-> "none", executing |-> FALSE, dead |-> FALSE]
  BY DEF Init
<1> QED
  BY <1>1, <1>2, <1>3 DEF Safe, Sound

(* After freed memory was used nothing is said any more.                     *)
LEMMA StruckStays ==
  ASSUME Struck, [Next]_vars
  PROVE  Struck' /\ UNCHANGED vars
<1>1. hist.freed
  BY DEF Struck
<1>2. ~Next
  BY <1>1 DEF Next, Connect, Enter, Interrupt, Poll, Closed, Vanish, MayCall, Served, WebExec,
              WebLeave, Start, FinishTelnet, FinishWeb, WebAbort, WebPoll, WebClear, Prints,
              NetLoopAbort
<1>3. UNCHANGED vars
  BY <1>2
<1> QED
  BY <1>3 DEF Struck, NoUseAfterFree, Running, vars

LEMMA NextSafe ==
  ASSUME "return" \notin Env, "webLeaves" \notin Env
  PROVE  IInv /\ (Safe \/ Struck) /\ [Next]_vars => (Safe \/ Struck)'
<1> SUFFICES ASSUME IInv, Safe \/ Struck, [Next]_vars PROVE Safe' \/ Struck'
  OBVIOUS
<1>1. CASE Struck
  BY <1>1, StruckStays
<1>2. CASE Safe /\ UNCHANGED vars
  BY <1>2, StaysSafe DEF vars
<1>3. CASE Safe /\ Next
  BY <1>3, TelnetSafe, VanishSafe, StartSafe, FinishesSafe, WebSafe DEF Next
<1> QED
  BY <1>1, <1>2, <1>3

(* What is freed is not used again, as long as no telnet callback comes      *)
(* while the command of a session that left is queued or running             *)
(* (telnetd_reap_orphan frees it on entry to any) and no web client leaves   *)
(* while its own command runs (the connection is freed by the periodic check *)
(* of the command's own net_loop).  The first is what the comment on         *)
(* telnetd_orphan asks for; nothing in the code ensures either.  Connections *)
(* vanish at any time, and only the command of a session whose own did may   *)
(* use what was freed: the property names it.                                *)
THEOREM NothingFreedIsUsed ==
  ASSUME "return" \notin Env, "webLeaves" \notin Env
  PROVE  Spec => []NoUseAfterFree
<1>1. IInv /\ (Safe \/ Struck) /\ [Next]_vars => (Safe \/ Struck)'
  BY NextSafe
<1>2. Safe \/ Struck => NoUseAfterFree
  BY DEF Safe, Struck, NoUseAfterFree
<1> QED
  BY InitIInv, NextIInv, InitSafe, <1>1, <1>2, PTL DEF Spec

----------------------------------------------------------------------------
(* A pending abort stays meant for the command it will reach.                *)
LEMMA TelnetOwn ==
  ASSUME IInv, Safe, Own, "return" \notin Env, "hitAndRun" \notin Env, NEW t \in Sessions,
         Connect(t) \/ Enter(t) \/ Interrupt(t) \/ Poll(t) \/ Closed(t)
  PROVE  Own'
<1>1. orphan = None \/ ~Owed(orphan)
  BY DEF Connect, Enter, Interrupt, Poll, Closed, MayCall
<1>2. \A u \in Sessions : Reaped[u].dead = tn[u].dead
  BY <1>1, Called
<1>3. Reaped \in [Sessions -> Session] /\ (req.pending => req.pdata \in Sessions)
  BY TypeParts DEF Request
<1>4. CASE Interrupt(t)
  <2>1. tn' = Reaped /\ stack' = Asked(t) /\ UNCHANGED <<req, hist>> /\ ~tn[t].dead /\ Owed(t)
    BY <1>4 DEF Interrupt, Live, Safe, Sound
  <2>2. CASE Quiet
    <3>1. req.pending /\ req.pdata = t
      BY <2>1, <2>2, Owes
    <3> QED
      BY <1>2, <2>1, <3>1 DEF Own, Meant
  <2>3. ASSUME NEW c \in Commands, Alone(c)
        PROVE  Own'
    <3>1. c.by = t
      BY <2>1, <2>3, Owes
    <3>2. stack' = <<[c EXCEPT !.asked = @ \/ c.by = t]>>
      BY <2>1, <2>3, OneMarked DEF Alone
    <3>3. stack' # <<>> /\ stack'[1].asked
      BY <3>1, <3>2, OneElement DEF Commands
    <3> QED
      BY <2>1, <3>3 DEF Own, Meant
  <2> QED
    BY <2>2, <2>3 DEF IInv, Shape
<1>5. CASE Connect(t) \/ Enter(t) \/ Poll(t)
  <2>1. UNCHANGED <<stack, abort>>
    BY <1>5 DEF Connect, Enter, Poll
  <2>2. hist'.wrong = hist.wrong
    <3>1. hist' \in {hist, Drained(hist, t), [hist EXCEPT !.queuedBy = Append(@, t)]}
      BY <1>5 DEF Connect, Enter, Poll
    <3> QED
      BY <3>1, TypeParts DEF Drained, History
  <2>3. \A u \in Sessions : tn'[u].dead = tn[u].dead
    <3>1. \/ tn' = [Reaped EXCEPT ![t] = [@ EXCEPT !.open = TRUE, !.mem = "live"]]
          \/ tn' = [Reaped EXCEPT ![t].executing = TRUE]
          \/ tn' = Reaped
      BY <1>5 DEF Connect, Enter, Poll
    <3> QED
      BY <1>2, <1>3, <3>1 DEF Session
  <2>4. req' = req \/ (req'.pending /\ req'.pdata = t /\ ~tn[t].dead)
    <3>1. req' = req \/ /\ req' = [req EXCEPT !.pdata = t, !.pending = TRUE,
                                               !.cmd = Len(hist.queuedBy) + 1]
                        /\ ~tn[t].dead
      <4>1. CASE Connect(t) \/ Poll(t)
        <5>1. UNCHANGED req
          BY <4>1 DEF Connect, Poll
        <5> QED
          BY <5>1
      <4>2. CASE Enter(t) /\ Refused(t)
        <5>1. UNCHANGED req
          BY <4>2 DEF Enter
        <5> QED
          BY <5>1
      <4>3. CASE Enter(t) /\ ~Refused(t)
        BY <4>3 DEF Enter, Live, Safe, Sound
      <4> QED
        BY <1>5, <4>1, <4>2, <4>3
    <3> QED
      BY <3>1, TypeParts DEF Request
  <2>5. Meant => Meant'
    BY <1>3, <2>1, <2>3, <2>4 DEF Meant
  <2> QED
    BY <2>1, <2>2, <2>5 DEF Own
<1>6. CASE Closed(t)
  <2>1. UNCHANGED <<stack, abort, req, hist>> /\ ~(abort /\ req.pending /\ req.pdata = t)
    BY <1>6 DEF Closed
  <2>2. \A u \in Sessions : u # t => tn'[u].dead = tn[u].dead
    BY <1>2, <1>3, <1>6 DEF Closed, Parted
  <2> QED
    BY <1>3, <2>1, <2>2 DEF Own, Meant
<1> QED
  BY <1>4, <1>5, <1>6

LEMMA VanishOwn ==
  ASSUME IInv, Safe, Own, NEW t \in Sessions, Vanish(t)
  PROVE  Own'
<1>1. UNCHANGED <<req, stack, abort, hist>> /\ (req.pending => req.pdata \in Sessions)
  BY TypeParts DEF Vanish, Request
<1>2. \A u \in Sessions : tn'[u].dead = tn[u].dead
  BY VanishSafe
<1> QED
  BY <1>1, <1>2 DEF Own, Meant

LEMMA RunOwn ==
  ASSUME IInv, Safe, Own, Start \/ FinishTelnet \/ FinishWeb
  PROVE  Own'
<1>1. CASE Start
  <2>0. PICK t \in Sessions : t = req.pdata
    BY <1>1, TypeParts DEF Start, Request
  <2>1. stack = <<>> /\ req.pending
    BY <1>1 DEF Start
  <2>2. Quiet
    BY <2>1, OneElement, TypeParts DEF Shape, Alone
  <2>3. tn[t].mem # "freed"
    <3>1. tn[t].mem = "live" \/ tn[t].mem = "lost"
      BY <2>0, <2>1, <2>2, Owes DEF Safe, Sound
    <3> QED
      BY <3>1
  <2>4. CASE tn[t].dead
    <3>1. UNCHANGED <<abort, hist>> /\ ~Meant
      BY <1>1, <2>0, <2>1, <2>3, <2>4 DEF Start, Meant
    <3> QED
      BY <3>1 DEF Own
  <2>5. CASE ~tn[t].dead
    <3>1. abort' = FALSE /\ hist' = [hist EXCEPT !.started = Append(@, req.cmd)]
      BY <1>1, <2>0, <2>3, <2>5 DEF Start, AbortCleared
    <3>2. hist'.wrong = hist.wrong
      BY <3>1, TypeParts DEF History
    <3> QED
      BY <3>1, <3>2 DEF Own
  <2> QED
    BY <2>4, <2>5
<1>2. CASE FinishTelnet \/ FinishWeb
  <2>0. CASE UNCHANGED <<tn, req, stack, abort>> /\ hist'.wrong = hist.wrong
    BY <2>0 DEF Own, Meant
  <2>1. SUFFICES ASSUME Safe' /\ IInv' PROVE Own'
    BY <1>2, <2>0, FinishesSafe, Finishes
  <2>2. hist'.freed = FALSE
    BY <2>1, TypeParts DEF Safe, IInv, TypeOK
  <2>3. abort' = FALSE /\ hist' \in {hist, Drained(hist, Last(stack).by)}
    BY <1>2, <2>2, FreedIsSeen, TypeParts
       DEF FinishTelnet, UsesFreed, Returned, FinishWeb, Discarded, Delivered
  <2>4. hist'.wrong = hist.wrong
    BY <2>3, TypeParts DEF Drained, History
  <2> QED
    BY <2>3, <2>4 DEF Own
<1> QED
  BY <1>1, <1>2

LEMMA WebOwn ==
  ASSUME IInv, Own,
         \/ \E w \in Requests : WebExec(w) \/ WebLeave(w)
         \/ WebPoll \/ WebClear \/ Prints \/ WebAbort \/ NetLoopAbort
  PROVE  Own'
<1>1. ASSUME NEW w \in Requests, WebExec(w)
      PROVE  Own'
  <2>1. UNCHANGED <<tn, req, abort, hist>>
    BY <1>1 DEF WebExec
  <2>2. CASE MayExec
    <3>1. stack = <<>> /\ ~req.pending
      BY <2>2, TypeParts DEF MayExec, Shape, Quiet, Alone, Commands
    <3> QED
      BY <2>1, <3>1 DEF Own, Meant
  <2>3. CASE ~MayExec
    BY <1>1, <2>1, <2>3 DEF WebExec, Own, Meant
  <2> QED
    BY <2>2, <2>3
<1>2. CASE (\E w \in Requests : WebLeave(w)) \/ WebPoll \/ WebClear \/ Prints
  <2>1. UNCHANGED <<tn, req, stack, abort>> /\ hist' \in {hist, Drained(hist, "web")}
    BY <1>2 DEF WebLeave, WebPoll, WebClear, Prints
  <2>2. hist'.wrong = hist.wrong
    BY <2>1, TypeParts DEF Drained, History
  <2> QED
    BY <2>1, <2>2 DEF Own, Meant
<1>3. CASE WebAbort
  <2>1. busy /\ UNCHANGED hist
    BY <1>3 DEF WebAbort
  <2>2. PICK c \in Commands : Alone(c)
    BY <2>1, TypeParts DEF Shape, Quiet
  <2>3. /\ stack' = <<[c EXCEPT !.asked = @ \/ c.by \in Requests]>>
        /\ c.by \in Requests
    BY <1>3, <2>1, <2>2, OneMarked DEF Alone, WebAbort
  <2>4. stack' # <<>> /\ stack'[1].asked
    BY <2>3, OneElement DEF Commands
  <2> QED
    BY <2>1, <2>4 DEF Own, Meant
<1>4. CASE NetLoopAbort
  <2>1. PICK c \in Commands : Alone(c)
    BY <1>4, TypeParts DEF Shape, Quiet, NetLoopAbort
  <2>2. Last(stack) = c /\ c.asked
    BY <1>4, <2>1, OneElement DEF Own, Meant, Alone, NetLoopAbort
  <2>3. abort' = FALSE /\ hist' = [hist EXCEPT !.wrong = @ \/ ~Last(stack).asked]
    BY <1>4 DEF NetLoopAbort
  <2>4. ~hist'.wrong
    BY <2>2, <2>3, TypeParts DEF Own, History
  <2> QED
    BY <2>3, <2>4 DEF Own
<1> QED
  BY <1>1, <1>2, <1>3, <1>4

LEMMA NextOwn ==
  ASSUME "return" \notin Env, "hitAndRun" \notin Env
  PROVE  IInv /\ (Safe \/ Struck) /\ Own /\ [Next]_vars => Own'
<1> SUFFICES ASSUME IInv, Safe \/ Struck, Own, [Next]_vars PROVE Own'
  OBVIOUS
<1>1. CASE UNCHANGED vars
  BY <1>1 DEF vars, Own, Meant
<1>2. CASE Safe /\ Next
  BY <1>2, TelnetOwn, VanishOwn, RunOwn, WebOwn DEF Next
<1> QED
  BY <1>1, <1>2, StruckStays

(* An abort that net_loop consumes was asked for by the client whose command *)
(* it ends, under the same assumptions and when nobody interrupts a command  *)
(* that is still queued and then leaves: the queued command is dropped, and  *)
(* the flag would wait for the next one, a web command, which does not clear *)
(* it.                                                                       *)
THEOREM AbortsReachTheirCommand ==
  ASSUME "return" \notin Env, "webLeaves" \notin Env, "hitAndRun" \notin Env
  PROVE  Spec => []AbortIsOwn
<1>1. Init => Own
  BY DEF Init, Own
<1>2. IInv /\ (Safe \/ Struck) /\ [Next]_vars => (Safe \/ Struck)'
  BY NextSafe
<1>3. IInv /\ (Safe \/ Struck) /\ Own /\ [Next]_vars => Own'
  BY NextOwn
<1>4. Own => AbortIsOwn
  BY DEF Own, AbortIsOwn
<1> QED
  BY InitIInv, NextIInv, InitSafe, <1>1, <1>2, <1>3, <1>4, PTL DEF Spec

----------------------------------------------------------------------------
(* Which commands were accepted, and which were started: they carry the      *)
(* numbers of their acceptance, of which the queued one has the last.        *)
Numbered ==
  /\ \A i \in DOMAIN hist.started :
       /\ hist.started[i] \in DOMAIN hist.queuedBy
       /\ req.pending => hist.started[i] < req.cmd
  /\ req.pending =>
       /\ req.cmd = Len(hist.queuedBy) /\ req.cmd \in DOMAIN hist.queuedBy
       /\ hist.queuedBy[req.cmd] = req.pdata
  /\ \A n \in DOMAIN hist.queuedBy : tn[hist.queuedBy[n]].mem # "none"

(* A session that has left, or was never there, is not open.                 *)
Left(x) == (x.mem = "none" => ~x.open /\ ~x.dead) /\ (x.dead => ~x.open)

Runs == EachRunsOnce /\ Numbered /\ \A t \in Sessions : Left(tn[t])

LEMMA QueuedBySessions ==
  ASSUME IInv
  PROVE  /\ \A n \in DOMAIN hist.queuedBy : hist.queuedBy[n] \in Sessions
         /\ hist.queuedBy \in Seq(Sessions) /\ hist.started \in Seq(Nat)
<1>1. hist.queuedBy \in Seq(Sessions) /\ hist.started \in Seq(Nat)
  BY TypeParts DEF History
<1> QED
  BY <1>1

(* What queues and starts nothing keeps the order, whoever leaves.           *)
LEMMA RunsStay ==
  ASSUME IInv, Runs,
         hist'.queuedBy = hist.queuedBy, hist'.started = hist.started,
         req'.pending = req.pending, req'.cmd = req.cmd,
         req.pending => req'.pdata = req.pdata,
         \A t \in Sessions : /\ Left(tn'[t])
                             /\ tn[t].mem # "none" =>
                                  tn'[t].mem # "none" /\ (tn'[t].open => tn[t].open)
  PROVE  Runs'
<1>1. \A n \in DOMAIN hist.queuedBy : hist.queuedBy[n] \in Sessions
  BY QueuedBySessions
<1>2. Numbered'
  BY <1>1 DEF Runs, Numbered
<1>3. EachRunsOnce'
  BY <1>1 DEF Runs, Numbered, EachRunsOnce, Live
<1> QED
  BY <1>2, <1>3 DEF Runs, Left

(* A telnet callback at most frees the session that is parked.               *)
LEMMA ReapedLeft ==
  ASSUME IInv, Runs
  PROVE  \A u \in Sessions :
           /\ Left(Reaped[u]) /\ Reaped[u].open = tn[u].open
           /\ tn[u].mem # "none" => Reaped[u].mem # "none"
           /\ u # orphan => Reaped[u] = tn[u]
<1> TAKE u \in Sessions
<1>1. tn[u] \in Session /\ Left(tn[u]) /\ orphan \in Sessions \cup {None}
  BY TypeParts DEF Runs
<1>2. CASE u = orphan
  BY <1>1, <1>2 DEF Reaped, Left, Session
<1>3. CASE u # orphan
  BY <1>1, <1>3 DEF Reaped
<1> QED
  BY <1>2, <1>3

LEMMA TelnetRuns ==
  ASSUME IInv, Runs, NEW t \in Sessions,
         Connect(t) \/ Enter(t) \/ Interrupt(t) \/ Poll(t) \/ Closed(t) \/ Vanish(t)
  PROVE  Runs'
<1>1. \A u \in Sessions : /\ Left(Reaped[u]) /\ Reaped[u].open = tn[u].open
                          /\ tn[u].mem # "none" => Reaped[u].mem # "none"
  BY ReapedLeft
<1>2. Reaped \in [Sessions -> Session] /\ hist \in History /\ tn[t] \in Session
  BY TypeParts
<1>3. CASE Connect(t)
  <2>1. /\ tn' = [Reaped EXCEPT ![t] = [@ EXCEPT !.open = TRUE, !.mem = "live"]]
        /\ tn[t].mem = "none" /\ UNCHANGED <<req, hist>>
    BY <1>3 DEF Connect
  <2>2. ~Reaped[t].dead
    <3>1. Reaped[t].dead = tn[t].dead /\ Left(tn[t])
      BY TypeParts DEF Reaped, Session, Runs
    <3> QED
      BY <2>1, <3>1 DEF Left
  <2>3. Left(tn'[t])
    BY <1>2, <2>1, <2>2 DEF Left, Session
  <2>4. \A u \in Sessions : /\ Left(tn'[u])
                            /\ tn[u].mem # "none" =>
                                 tn'[u].mem # "none" /\ (tn'[u].open => tn[u].open)
    BY <1>1, <1>2, <2>1, <2>3
  <2> QED
    BY <2>1, <2>4, RunsStay
<1>4. CASE Enter(t) /\ ~Refused(t)
  <2>1. /\ tn' = [Reaped EXCEPT ![t].executing = TRUE] /\ tn[t].open
        /\ req' = [req EXCEPT !.pdata = t, !.pending = TRUE, !.cmd = Len(hist.queuedBy) + 1]
        /\ hist' = [hist EXCEPT !.queuedBy = Append(@, t)]
        /\ ~req.pending
    BY <1>4 DEF Enter, Live, Refused
  <2> DEFINE n == Len(hist.queuedBy) + 1
  <2>2. /\ hist'.queuedBy = Append(hist.queuedBy, t) /\ hist'.started = hist.started
        /\ req'.pending = TRUE /\ req'.pdata = t /\ req'.cmd = n
    BY <2>1, TypeParts DEF Request, History
  <2>3. /\ Len(hist'.queuedBy) = n /\ n \in DOMAIN hist'.queuedBy /\ n \in Nat
        /\ hist'.queuedBy[n] = t
        /\ \A i \in DOMAIN hist.queuedBy :
             i \in DOMAIN hist'.queuedBy /\ i < n /\ hist'.queuedBy[i] = hist.queuedBy[i]
        /\ \A i \in DOMAIN hist'.queuedBy : i = n \/ i \in DOMAIN hist.queuedBy
    BY <2>2, QueuedBySessions
  <2> HIDE DEF n
  <2>4. \A u \in Sessions : /\ Left(tn'[u]) /\ tn'[u].open = tn[u].open
                            /\ tn[u].mem # "none" => tn'[u].mem # "none"
    BY <1>1, <1>2, <2>1 DEF Left, Session
  <2>5. \A i \in DOMAIN hist.queuedBy : hist.queuedBy[i] \in Sessions
    BY QueuedBySessions
  <2>6. tn[t].mem # "none"
    BY <2>1 DEF Runs, Left
  <2>7. Numbered'
    BY <2>2, <2>3, <2>4, <2>5, <2>6 DEF Runs, Numbered
  <2>8. EachRunsOnce'
    BY <2>1, <2>2, <2>3, <2>4, <2>5 DEF Runs, EachRunsOnce, Live
  <2> QED
    BY <2>4, <2>7, <2>8 DEF Runs
<1>5. CASE Interrupt(t) \/ Poll(t) \/ (Enter(t) /\ Refused(t))
  <2>1. tn' = Reaped /\ UNCHANGED req /\ hist' \in {hist, Drained(hist, t)}
    BY <1>5 DEF Interrupt, Poll, Enter
  <2>2. hist'.queuedBy = hist.queuedBy /\ hist'.started = hist.started
    BY <1>2, <2>1 DEF Drained, History
  <2> QED
    BY <1>1, <2>1, <2>2, RunsStay
<1>6. CASE Closed(t)
  <2>1. UNCHANGED <<req, hist>> /\ tn[t].open
    BY <1>6 DEF Closed, Live
  <2>2. \/ tn' = [Reaped EXCEPT ![t] = [@ EXCEPT !.open = FALSE, !.dead = TRUE]]
        \/ tn' = [Reaped EXCEPT ![t] = [@ EXCEPT !.open = FALSE, !.mem = "freed"]]
    BY <1>6 DEF Closed, Parted
  <2>3. Reaped[t].mem # "none"
    BY <1>1, <2>1 DEF Runs, Left
  <2>4. Left(tn'[t]) /\ tn'[t].mem # "none" /\ ~tn'[t].open
    <3>1. Reaped \in [Sessions -> Session] /\ Reaped[t] \in Session
      BY <1>2
    <3>2. \/ tn'[t] = [Reaped[t] EXCEPT !.open = FALSE, !.dead = TRUE]
          \/ tn'[t] = [Reaped[t] EXCEPT !.open = FALSE, !.mem = "freed"]
      BY <2>2, <3>1
    <3>3. tn'[t].mem \in {Reaped[t].mem, "freed"} /\ ~tn'[t].open
      BY <3>1, <3>2 DEF Session
    <3> QED
      BY <2>3, <3>3 DEF Left
  <2>5. \A u \in Sessions : /\ Left(tn'[u])
                            /\ tn[u].mem # "none" =>
                                 tn'[u].mem # "none" /\ (tn'[u].open => tn[u].open)
    BY <1>1, <1>2, <2>2, <2>4
  <2> QED
    BY <2>1, <2>5, RunsStay
<1>7. CASE Vanish(t)
  <2>1. UNCHANGED <<req, hist>> /\ tn' = [tn EXCEPT ![t] = [@ EXCEPT !.open = FALSE, !.mem = "lost"]]
    BY <1>7 DEF Vanish
  <2>2. Left(tn'[t]) /\ tn'[t].mem # "none" /\ ~tn'[t].open
    BY <1>2, <2>1, TypeParts DEF Left, Session
  <2>3. \A u \in Sessions : /\ Left(tn'[u])
                            /\ tn[u].mem # "none" =>
                                 tn'[u].mem # "none" /\ (tn'[u].open => tn[u].open)
    BY <2>1, <2>2, TypeParts DEF Runs
  <2> QED
    BY <2>1, <2>3, RunsStay
<1> QED
  BY <1>3, <1>4, <1>5, <1>6, <1>7

LEMMA StartRuns == ASSUME IInv, Runs, Start PROVE Runs'
<1>0. PICK t \in Sessions : t = req.pdata
  BY TypeParts DEF Start, Request
<1>1. req.pending /\ UNCHANGED tn
  BY DEF Start
<1>2. CASE tn[t].mem = "freed"
  <2>1. UNCHANGED req /\ hist' = [hist EXCEPT !.freed = TRUE]
    BY <1>0, <1>2 DEF Start
  <2>2. hist'.queuedBy = hist.queuedBy /\ hist'.started = hist.started
    BY <2>1, TypeParts DEF History
  <2> QED
    BY <1>1, <2>1, <2>2, RunsStay DEF Runs
<1>3. CASE tn[t].mem # "freed" /\ tn[t].dead
  <2>1. req' = [req EXCEPT !.pending = FALSE, !.pdata = None] /\ UNCHANGED hist
    BY <1>0, <1>3 DEF Start
  <2>2. req'.pending = FALSE
    BY <2>1, TypeParts DEF Request
  <2>3. ~tn[hist.queuedBy[req.cmd]].open
    BY <1>0, <1>1, <1>3 DEF Runs, Numbered, Left
  <2> QED
    BY <1>1, <2>1, <2>2, <2>3 DEF Runs, Numbered, EachRunsOnce, Live
<1>4. CASE tn[t].mem # "freed" /\ ~tn[t].dead
  <2>1. /\ req' = [req EXCEPT !.pending = FALSE, !.active = TRUE]
        /\ hist' = [hist EXCEPT !.started = Append(@, req.cmd)]
    BY <1>0, <1>4 DEF Start
  <2> DEFINE m == Len(hist.started) + 1
  <2>2. /\ req'.pending = FALSE
        /\ hist'.started = Append(hist.started, req.cmd) /\ hist'.queuedBy = hist.queuedBy
    BY <2>1, TypeParts DEF Request, History
  <2>3. /\ m \in DOMAIN hist'.started /\ hist'.started[m] = req.cmd
        /\ \A i \in DOMAIN hist.started :
             i \in DOMAIN hist'.started /\ i < m /\ hist'.started[i] = hist.started[i]
        /\ \A i \in DOMAIN hist'.started : i = m \/ (i \in DOMAIN hist.started /\ i < m)
    BY <2>2, QueuedBySessions
  <2>4. m \in Nat /\ \A i \in DOMAIN hist.started : i \in Nat
    BY QueuedBySessions
  <2> HIDE DEF m
  <2>5. Numbered'
    BY <1>1, <2>2, <2>3 DEF Runs, Numbered
  <2>6. \A i, j \in DOMAIN hist'.started : i < j => hist'.started[i] < hist'.started[j]
    BY <1>1, <2>3, <2>4 DEF Runs, Numbered, EachRunsOnce
  <2>7. \A n \in DOMAIN hist.queuedBy :
           n \in {hist.started[i] : i \in DOMAIN hist.started} \/ req.cmd = n
             => n \in {hist'.started[i] : i \in DOMAIN hist'.started}
    BY <2>3
  <2>8. EachRunsOnce'
    BY <1>1, <2>2, <2>6, <2>7 DEF Runs, EachRunsOnce, Live
  <2> QED
    BY <1>1, <2>5, <2>8 DEF Runs
<1> QED
  BY <1>2, <1>3, <1>4

LEMMA FinishRuns ==
  ASSUME IInv, Runs, FinishTelnet \/ FinishWeb PROVE Runs'
<1>1. PICK c \in Commands : Alone(c)
  BY TypeParts DEF Shape, Quiet, FinishTelnet, FinishWeb
<1>2. stack = <<c>> /\ Last(stack) = c /\ ~req.pending
  BY <1>1, OneElement DEF Alone
<1>3. hist' \in {hist, Drained(hist, c.by), [hist EXCEPT !.freed = TRUE]}
  BY <1>2 DEF FinishTelnet, UsesFreed, Returned, FinishWeb, Discarded, Delivered
<1>4. hist'.queuedBy = hist.queuedBy /\ hist'.started = hist.started
  BY <1>3, TypeParts DEF Drained, History
<1>5. \/ UNCHANGED <<tn, req>>
      \/ /\ c.by \in Sessions /\ tn' = [tn EXCEPT ![c.by].executing = FALSE]
         /\ req' = [req EXCEPT !.active = FALSE, !.pdata = None]
  BY <1>2 DEF FinishTelnet, UsesFreed, Returned, FinishWeb, Resumed
<1>6. req'.pending = req.pending /\ req'.cmd = req.cmd
  BY <1>5, TypeParts DEF Request
<1>7. \A u \in Sessions : /\ tn'[u].mem = tn[u].mem /\ tn'[u].open = tn[u].open
                          /\ tn'[u].dead = tn[u].dead
  BY <1>5, TypeParts DEF Session
<1> QED
  BY <1>2, <1>4, <1>6, <1>7, RunsStay DEF Runs, Left

LEMMA WebRuns ==
  ASSUME IInv, Runs,
         \/ \E w \in Requests : WebExec(w) \/ WebLeave(w)
         \/ WebPoll \/ WebClear \/ Prints \/ WebAbort \/ NetLoopAbort
  PROVE  Runs'
<1>1. UNCHANGED <<tn, req>>
  BY DEF WebExec, WebLeave, WebPoll, WebClear, Prints, WebAbort, NetLoopAbort
<1>2. hist' \in {hist, Drained(hist, "web"), [hist EXCEPT !.wrong = @ \/ ~Last(stack).asked]}
  BY DEF WebExec, WebLeave, WebPoll, WebClear, Prints, WebAbort, NetLoopAbort
<1>3. hist'.queuedBy = hist.queuedBy /\ hist'.started = hist.started
  BY <1>2, TypeParts DEF Drained, History
<1> QED
  BY <1>1, <1>3, RunsStay DEF Runs

(* Every telnet command that was accepted is started once, in the order of   *)
(* acceptance, is still queued, or its session has left: whatever the        *)
(* clients do, since a session is not used again once its client has left.   *)
THEOREM CommandsRunOnce == Spec => []EachRunsOnce
<1>1. Init => Runs
  BY DEF Init, NoReq, Runs, EachRunsOnce, Numbered, Left
<1>2. IInv /\ Runs /\ [Next]_vars => Runs'
  <2> SUFFICES ASSUME IInv, Runs, [Next]_vars PROVE Runs'
    OBVIOUS
  <2>1. CASE UNCHANGED vars
    BY <2>1, RunsStay DEF vars, Runs
  <2>2. CASE Next
    BY <2>2, TelnetRuns, StartRuns, FinishRuns, WebRuns DEF Next
  <2> QED
    BY <2>1, <2>2
<1>3. Runs => EachRunsOnce
  BY DEF Runs
<1> QED
  BY InitIInv, NextIInv, <1>1, <1>2, <1>3, PTL DEF Spec

----------------------------------------------------------------------------
(* A telnet command prints to a buffer of its own while the web console's    *)
(* output is put aside; nobody else's is read in the meantime.               *)
Private ==
  /\ out.saved \subseteq Requests
  /\ ~req.active => out.cur \subseteq Requests
  /\ req.active => out.private /\ out.cur \subseteq {req.pdata}

OwnOutput == Private /\ OutputIsOwn

(* What reads nothing and leaves the buffer and the running command alone.   *)
LEMMA UnreadOwn ==
  ASSUME OwnOutput, hist'.read = hist.read, UNCHANGED out, req'.active = req.active,
         req.active => req'.pdata = req.pdata
  PROVE  OwnOutput'
BY DEF OwnOutput, Private, OutputIsOwn

(* A session reads a buffer that holds only its own output.                  *)
LEMMA DrainsOwn ==
  ASSUME IInv, OutputIsOwn, NEW r \in Sessions, out.cur \subseteq {r},
         hist' = Drained(hist, r)
  PROVE  OutputIsOwn'
<1>1. hist'.read = hist.read \cup {<<by, r>> : by \in out.cur}
  BY TypeParts DEF Drained, History
<1> QED
  BY <1>1 DEF OutputIsOwn

(* The web console reads what no session printed.                            *)
LEMMA DrainsWeb ==
  ASSUME IInv, OutputIsOwn, out.cur \subseteq Requests, hist' = Drained(hist, "web")
  PROVE  OutputIsOwn'
<1>1. hist'.read = hist.read \cup {<<by, "web">> : by \in out.cur}
  BY TypeParts DEF Drained, History
<1> QED
  BY <1>1, ConsoleAssumption DEF OutputIsOwn

LEMMA TelnetOutput ==
  ASSUME IInv, OwnOutput, NEW t \in Sessions,
         Connect(t) \/ Enter(t) \/ Interrupt(t) \/ Poll(t) \/ Closed(t) \/ Vanish(t)
  PROVE  OwnOutput'
<1>1. CASE Connect(t) \/ Interrupt(t) \/ Closed(t) \/ Vanish(t) \/ (Enter(t) /\ Refused(t))
  <2>1. UNCHANGED <<out, req, hist>>
    BY <1>1 DEF Connect, Interrupt, Closed, Vanish, Enter
  <2> QED
    BY <2>1, UnreadOwn
<1>2. CASE Enter(t) /\ ~Refused(t)
  <2>1. /\ req' = [req EXCEPT !.pdata = t, !.pending = TRUE, !.cmd = Len(hist.queuedBy) + 1]
        /\ hist' = [hist EXCEPT !.queuedBy = Append(@, t)]
        /\ UNCHANGED out /\ ~req.active
    BY <1>2 DEF Enter, Refused
  <2>2. req'.active = req.active /\ hist'.read = hist.read
    BY <2>1, TypeParts DEF Request, History
  <2> QED
    BY <2>1, <2>2, UnreadOwn
<1>3. CASE Poll(t) /\ Running(t) /\ out.private
  <2>1. /\ UNCHANGED req /\ out' = [out EXCEPT !.cur = {}] /\ hist' = Drained(hist, t)
    BY <1>3 DEF Poll
  <2>2. PICK c \in Commands : Alone(c) /\ c.by = t
    BY <1>3, Owes, TypeParts DEF Shape
  <2>3. req.active /\ req.pdata = t
    BY <2>2 DEF Alone
  <2>4. OutputIsOwn'
    BY <2>1, <2>3, DrainsOwn DEF OwnOutput, Private
  <2>5. out'.cur = {} /\ out'.saved = out.saved /\ out'.private = out.private
    BY <2>1, TypeParts DEF Output
  <2> QED
    BY <2>1, <2>4, <2>5 DEF OwnOutput, Private
<1>4. CASE Poll(t) /\ ~(Running(t) /\ out.private)
  <2>1. UNCHANGED <<out, req, hist>>
    BY <1>4 DEF Poll
  <2> QED
    BY <2>1, UnreadOwn
<1> QED
  BY <1>1, <1>2, <1>3, <1>4

LEMMA StartOutput ==
  ASSUME IInv, OwnOutput, "noMemory" \notin Env, Start PROVE OwnOutput'
<1>0. PICK t \in Sessions : t = req.pdata
  BY TypeParts DEF Start, Request
<1>1. stack = <<>> /\ req.pending
  BY DEF Start
<1>2. ~req.active
  BY <1>1, OneElement, TypeParts DEF Shape, Alone, Quiet
<1>3. CASE tn[t].mem = "freed" \/ tn[t].dead
  <2>1. /\ req' \in {req, [req EXCEPT !.pending = FALSE, !.pdata = None]}
        /\ hist' \in {hist, [hist EXCEPT !.freed = TRUE]} /\ UNCHANGED out
    BY <1>0, <1>3 DEF Start
  <2>2. req'.active = req.active /\ hist'.read = hist.read
    BY <2>1, TypeParts DEF Request, History
  <2> QED
    BY <1>2, <2>1, <2>2, UnreadOwn
<1>4. CASE tn[t].mem # "freed" /\ ~tn[t].dead
  <2>1. /\ req' = [req EXCEPT !.pending = FALSE, !.active = TRUE]
        /\ hist' = [hist EXCEPT !.started = Append(@, req.cmd)]
        /\ out' = Isolated(TRUE)
    BY <1>0, <1>4 DEF Start
  <2>2. req'.active = TRUE /\ hist'.read = hist.read
    BY <2>1, TypeParts DEF Request, History
  <2>3. out' = [cur |-> {}, saved |-> out.cur, private |-> TRUE]
    BY <2>1 DEF Isolated
  <2> QED
    BY <1>2, <2>2, <2>3 DEF OwnOutput, Private, OutputIsOwn
<1> QED
  BY <1>3, <1>4

LEMMA FinishOutput ==
  ASSUME IInv, OwnOutput, FinishTelnet \/ FinishWeb PROVE OwnOutput'
<1>1. PICK c \in Commands : Alone(c)
  BY TypeParts DEF Shape, Quiet, FinishTelnet, FinishWeb
<1>2. stack = <<c>> /\ Last(stack) = c
  BY <1>1, OneElement DEF Alone
<1>3. CASE FinishTelnet /\ Returned(c.by)
  <2>1. c.by \in Sessions /\ req.active /\ req.pdata = c.by
    BY <1>1, <1>2, <1>3 DEF FinishTelnet, Alone
  <2>2. /\ req' = [req EXCEPT !.active = FALSE, !.pdata = None]
        /\ IF tn[c.by].dead THEN Discarded ELSE Delivered(c.by)
    BY <1>3 DEF Returned
  <2>3. req'.active = FALSE
    BY <2>2, TypeParts DEF Request
  <2>4. out' = [cur |-> out.saved, saved |-> {}, private |-> FALSE]
    BY <2>1, <2>2 DEF Discarded, Delivered, OwnOutput, Private
  <2>5. OutputIsOwn'
    <3>1. CASE tn[c.by].dead
      BY <2>2, <3>1 DEF Discarded, OwnOutput, OutputIsOwn
    <3>2. CASE ~tn[c.by].dead
      BY <2>1, <2>2, <3>2, DrainsOwn DEF Delivered, OwnOutput, Private
    <3> QED
      BY <3>1, <3>2
  <2> QED
    BY <2>3, <2>4, <2>5 DEF OwnOutput, Private
<1>4. CASE FinishWeb \/ (FinishTelnet /\ UsesFreed)
  <2>1. /\ UNCHANGED <<out, req>> /\ hist' \in {hist, [hist EXCEPT !.freed = TRUE]}
    BY <1>2, <1>4 DEF FinishWeb, UsesFreed
  <2>2. hist'.read = hist.read
    BY <2>1, TypeParts DEF History
  <2> QED
    BY <2>1, <2>2, UnreadOwn
<1> QED
  BY <1>2, <1>3, <1>4 DEF FinishTelnet

LEMMA WebOutput ==
  ASSUME IInv, OwnOutput, "webWatches" \notin Env,
         \/ \E w \in Requests : WebExec(w) \/ WebLeave(w)
         \/ WebPoll \/ WebClear \/ Prints \/ WebAbort \/ NetLoopAbort
  PROVE  OwnOutput'
<1>1. ASSUME NEW w \in Requests, WebExec(w), MayExec
      PROVE  OwnOutput'
  <2>1. /\ UNCHANGED <<req, hist>> /\ out' = [out EXCEPT !.cur = @ \cup {w}]
        /\ ~req.active
    BY <1>1 DEF WebExec, MayExec
  <2>2. out'.cur = out.cur \cup {w} /\ out'.saved = out.saved
    BY <2>1, TypeParts DEF Output
  <2> QED
    BY <2>1, <2>2 DEF OwnOutput, Private, OutputIsOwn
<1>2. CASE \/ \E w \in Requests : (WebExec(w) /\ ~MayExec) \/ WebLeave(w)
           \/ WebAbort \/ NetLoopAbort
  <2>1. /\ UNCHANGED <<req, out>>
        /\ hist' \in {hist, [hist EXCEPT !.wrong = @ \/ ~Last(stack).asked]}
    BY <1>2 DEF WebExec, WebLeave, WebAbort, NetLoopAbort
  <2>2. hist'.read = hist.read
    BY <2>1, TypeParts DEF History
  <2> QED
    BY <2>1, <2>2, UnreadOwn
<1>3. CASE WebPoll \/ WebClear
  <2>1. UNCHANGED req /\ ~req.active /\ out' = [out EXCEPT !.cur = {}]
    BY <1>3 DEF WebPoll, WebClear, MayWatch
  <2>2. out'.cur = {} /\ out'.saved = out.saved
    BY <2>1, TypeParts DEF Output
  <2>3. hist' = hist \/ hist' = Drained(hist, "web")
    BY <1>3 DEF WebPoll, WebClear
  <2>4. OutputIsOwn'
    <3>1. CASE hist' = hist
      BY <3>1 DEF OwnOutput, OutputIsOwn
    <3>2. CASE hist' = Drained(hist, "web")
      BY <2>1, <3>2, DrainsWeb DEF OwnOutput, Private
    <3> QED
      BY <2>3, <3>1, <3>2
  <2> QED
    BY <2>1, <2>2, <2>4 DEF OwnOutput, Private
<1>4. CASE Prints
  <2>1. PICK c \in Commands : Alone(c)
    BY <1>4, TypeParts DEF Shape, Quiet, Prints
  <2>2. UNCHANGED <<req, hist>> /\ out' = [out EXCEPT !.cur = @ \cup {c.by}]
    BY <1>4, <2>1, OneElement DEF Alone, Prints
  <2>3. /\ out'.cur = out.cur \cup {c.by} /\ out'.saved = out.saved
        /\ out'.private = out.private
    BY <2>2, TypeParts DEF Output
  <2>4. IF req.active THEN c.by = req.pdata ELSE c.by \in Requests
    BY <2>1 DEF Alone, Commands
  <2> QED
    BY <2>2, <2>3, <2>4 DEF OwnOutput, Private, OutputIsOwn
<1> QED
  BY <1>1, <1>2, <1>3, <1>4

(* The output of a telnet command reaches its own session only, and no       *)
(* session gets another's or the web console's, as long as there is memory   *)
(* for the command's own buffer and the web console is not polled while it   *)
(* runs; the code ensures neither.                                           *)
THEOREM OutputReachesItsOwn ==
  ASSUME "noMemory" \notin Env, "webWatches" \notin Env
  PROVE  Spec => []OutputIsOwn
<1>1. Init => OwnOutput
  BY DEF Init, NoReq, OwnOutput, Private, OutputIsOwn
<1>2. IInv /\ OwnOutput /\ [Next]_vars => OwnOutput'
  <2> SUFFICES ASSUME IInv, OwnOutput, [Next]_vars PROVE OwnOutput'
    OBVIOUS
  <2>1. CASE UNCHANGED vars
    BY <2>1, UnreadOwn DEF vars
  <2>2. CASE Next
    BY <2>2, TelnetOutput, StartOutput, FinishOutput, WebOutput DEF Next
  <2> QED
    BY <2>1, <2>2
<1>3. OwnOutput => OutputIsOwn
  BY DEF OwnOutput
<1> QED
  BY InitIInv, NextIInv, <1>1, <1>2, <1>3, PTL DEF Spec

===============================================================================
