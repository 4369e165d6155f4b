------------------------------- MODULE Console -------------------------------
(***************************************************************************)
(* Commands over the network: the telnet server (net/mtk_telnetd.c), the   *)
(* web console (failsafe/modules/console.c), the abort request they share  *)
(* (net/mtk_tcp.c) and net_loop (net/net.c), which consumes it.            *)
(*                                                                         *)
(* One thread runs everything.  A telnet command is queued by a TCP        *)
(* callback and run by the poll loop; a web command runs inside the        *)
(* callback.  While a command is in net_loop the stack is served from      *)
(* there, so callbacks of every connection run on top of it: stack holds   *)
(* the commands that have not returned, the innermost last.  A command     *)
(* that is not in net_loop admits no callback.                             *)
(***************************************************************************)
EXTENDS Naturals, Sequences, FiniteSets, SequencesExt

CONSTANTS
  Sessions,  \* telnet sessions
  Requests,  \* web requests to run a command, each on a connection of its own
  MaxCmds,   \* commands that telnet clients queue at most
  None,      \* the null pointer
  Env        \* what may happen besides clients minding their own business:
             \*   "return"     use another telnet session while the one that left
             \*                has its command queued or running
             \*   "hitAndRun"  interrupt a queued command and leave before it runs
             \*   "webLeaves"  leave, or connect anew from the same port, while their web
             \*                command runs
             \*   "webWatches" poll or clear the web console during a telnet command
             \*   "noMemory"   there is none for a telnet command's own output buffer

ASSUME ConsoleAssumption ==
  /\ None \notin Sessions \cup Requests /\ Sessions \cap Requests = {} /\ MaxCmds \in Nat
  /\ "web" \notin Sessions
  /\ Env \subseteq {"return", "hitAndRun", "webLeaves", "webWatches", "noMemory"}

VARIABLES
  tn,      \* the telnet sessions: connection, memory of pdata, its flags
  orphan,  \* telnetd_orphan
  req,     \* telnetd_exec_req
  stack,   \* the commands that have not returned
  web,     \* the web requests
  busy,    \* webconsole_exec_busy
  abort,   \* mtk_tcp_abort_flag
  out,     \* gd->console_out, as whose output it holds, and the buffer saved meanwhile
  hist     \* for the properties: who queued what, what was started, who read whose
           \* output, an abort of the wrong command, a use of freed memory

vars == <<tn, orphan, req, stack, web, busy, abort, out, hist>>

NoReq == [pdata |-> None, pending |-> FALSE, active |-> FALSE, cmd |-> 0]
Live(t) == tn[t].open

\* Callbacks run from the poll loop, or from the net_loop of the innermost command
Served == ~hist.freed /\ (stack # <<>> => Last(stack).net)

Running(t) == \E i \in DOMAIN stack : stack[i].by = t
Owed(t) == Running(t) \/ (req.pending /\ req.pdata = t)

Init ==
  /\ tn = [t \in Sessions |-> [open |-> FALSE, mem |-> "none", executing |-> FALSE, dead |-> FALSE]]
  /\ orphan = None /\ req = NoReq /\ stack = <<>>
  /\ web = [w \in Requests |-> "idle"]
  /\ busy = FALSE /\ abort = FALSE
  /\ out = [cur |-> {}, saved |-> {}, private |-> FALSE]
  /\ hist = [queuedBy |-> <<>>, started |-> <<>>, read |-> {}, wrong |-> FALSE, freed |-> FALSE]

----------------------------------------------------------------------------
(* The telnet server: telnetd_callback                                     *)

\* telnetd_reap_orphan, on entry to every telnet callback
Reaped == [t \in Sessions |-> IF t = orphan THEN [tn[t] EXCEPT !.mem = "freed"] ELSE tn[t]]
MayCall(t) == Served /\ ("return" \in Env \/ orphan = None \/ ~Owed(orphan))

Connect(t) ==
  /\ MayCall(t) /\ tn[t].mem = "none"
  /\ tn' = [Reaped EXCEPT ![t] = [@ EXCEPT !.open = TRUE, !.mem = "live"]] /\ orphan' = None
  /\ UNCHANGED <<req, stack, web, busy, abort, out, hist>>

\* Mutant: a command that is queued but not running does not count
OnlyRunningCounts(t) == tn[t].executing \/ req.active \/ busy
Refused(t) == tn[t].executing \/ req.pending \/ req.active \/ busy

\* DATA_RCVD with a line: telnetd_request_execute queues it or answers "busy".  While
\* its own command is queued or running the bytes only wait in the buffer.
Enter(t) ==
  /\ MayCall(t) /\ Live(t) /\ orphan' = None
  /\ IF Refused(t)
     THEN tn' = Reaped /\ UNCHANGED <<req, hist>>
     ELSE /\ Len(hist.queuedBy) < MaxCmds
          /\ tn' = [Reaped EXCEPT ![t].executing = TRUE]
          /\ req' = [req EXCEPT !.pdata = t, !.pending = TRUE, !.cmd = Len(hist.queuedBy) + 1]
          /\ hist' = [hist EXCEPT !.queuedBy = Append(@, t)]
  /\ UNCHANGED <<stack, web, busy, abort, out>>

\* The commands on the stack whose client has now asked to stop them
Asked(by) == [i \in DOMAIN stack |-> [stack[i] EXCEPT !.asked = @ \/ stack[i].by = by]]

\* telnetd_abort_check: Ctrl+C from a session whose command is queued or running
Interrupt(t) ==
  /\ MayCall(t) /\ Live(t) /\ tn[t].executing
  /\ tn' = Reaped /\ orphan' = None /\ abort' = TRUE /\ stack' = Asked(t)
  /\ UNCHANGED <<req, web, busy, out, hist>>

\* What r takes out of the console buffer
Drained(h, r) == [h EXCEPT !.read = @ \cup {<<by, r>> : by \in out.cur}]

\* POLL: telnetd_stream_tick, which streams only from a private buffer
Poll(t) ==
  /\ MayCall(t) /\ Live(t) /\ tn' = Reaped /\ orphan' = None
  /\ IF Running(t) /\ out.private
     THEN out' = [out EXCEPT !.cur = {}] /\ hist' = Drained(hist, t)
     ELSE UNCHANGED <<out, hist>>
  /\ UNCHANGED <<req, stack, web, busy, abort>>

\* Mutant: the session is freed though its command has not returned
FreedAtOnce(t) ==
  /\ tn' = [Reaped EXCEPT ![t] = [@ EXCEPT !.open = FALSE, !.mem = "freed"]] /\ orphan' = None
\* CLOSED: a session whose command is queued or running is parked
Parted(t) ==
  IF tn[t].executing
  THEN tn' = [Reaped EXCEPT ![t] = [@ EXCEPT !.open = FALSE, !.dead = TRUE]] /\ orphan' = t
  ELSE tn' = [Reaped EXCEPT ![t] = [@ EXCEPT !.open = FALSE, !.mem = "freed"]] /\ orphan' = None

Closed(t) ==
  /\ MayCall(t) /\ Live(t)
  /\ "hitAndRun" \in Env \/ ~(abort /\ req.pending /\ req.pdata = t)
  /\ Parted(t)
  /\ UNCHANGED <<req, stack, web, busy, abort, out, hist>>

\* The stack removes the connection without a callback: its client connects anew from the
\* same port (mtk_tcp.c).  The periodic check that follows frees the connection; pdata is
\* never freed, and a command that is queued or running does not learn of it.
Vanish(t) ==
  /\ Served /\ Live(t)
  /\ tn' = [tn EXCEPT ![t] = [@ EXCEPT !.open = FALSE, !.mem = "lost"]]
  /\ UNCHANGED <<orphan, req, stack, web, busy, abort, out, hist>>

----------------------------------------------------------------------------
(* Running a telnet command: mtk_telnetd_poll and telnetd_execute          *)

\* Mutant: a command prints to the common buffer
NotIsolated(private) == [out EXCEPT !.private = private]
\* The buffer a command prints to: its own, or when there is no memory for one the
\* common buffer, emptied
Isolated(private) ==
  IF private THEN [cur |-> {}, saved |-> out.cur, private |-> TRUE] ELSE [out EXCEPT !.cur = {}]

\* Mutant: an interrupt from before the start is kept
AbortKept == abort' = abort
AbortCleared == abort' = FALSE

Start ==
  /\ ~hist.freed /\ stack = <<>> /\ req.pending
  /\ LET t == req.pdata
     IN  IF tn[t].mem = "freed"
         THEN hist' = [hist EXCEPT !.freed = TRUE] /\ UNCHANGED <<req, stack, abort, out>>
         ELSE IF tn[t].dead
         THEN /\ req' = [req EXCEPT !.pending = FALSE, !.pdata = None]
              /\ UNCHANGED <<stack, abort, out, hist>>
         ELSE /\ req' = [req EXCEPT !.pending = FALSE, !.active = TRUE]
              /\ \E net \in BOOLEAN, private \in {TRUE} \cup {"noMemory" \notin Env} :
                   /\ stack' = <<[by |-> t, net |-> net, asked |-> FALSE]>>
                   /\ out' = Isolated(private)
              /\ AbortCleared
              /\ hist' = [hist EXCEPT !.started = Append(@, req.cmd)]
  /\ UNCHANGED <<tn, orphan, web, busy>>

\* The end of telnetd_execute after run_command, for a session still there
Delivered(t) ==
  /\ out' = [cur |-> IF out.private THEN out.saved ELSE {}, saved |-> {}, private |-> FALSE]
  /\ hist' = Drained(hist, t)

\* ... and for one that left: its output goes nowhere
Discarded ==
  /\ out' = IF out.private THEN [cur |-> out.saved, saved |-> {}, private |-> FALSE] ELSE out
  /\ UNCHANGED hist

\* Mutant: the session stays suspended
StaysSuspended(t) == UNCHANGED tn
Resumed(t) == tn' = [tn EXCEPT ![t].executing = FALSE]

UsesFreed == hist' = [hist EXCEPT !.freed = TRUE] /\ UNCHANGED <<tn, req, stack, abort, out>>

Returned(t) ==
  /\ Resumed(t)
  /\ IF tn[t].dead THEN Discarded ELSE Delivered(t)
  /\ abort' = FALSE /\ stack' = Front(stack)
  /\ req' = [req EXCEPT !.active = FALSE, !.pdata = None]

\* The rest of the output is sent on the connection, also when that has vanished, or only
\* queued, when earlier output is still on its way
FinishTelnet ==
  /\ ~hist.freed /\ stack # <<>> /\ Last(stack).by \in Sessions
  /\ LET t == Last(stack).by
     IN  \/ tn[t].mem \in {"freed", "lost"} /\ UsesFreed
         \/ tn[t].mem # "freed" /\ Returned(t)
  /\ UNCHANGED <<orphan, web, busy>>

----------------------------------------------------------------------------
(* The web console, in HTTP callbacks                                      *)

\* Mutant: a telnet command does not keep the web console from starting one
WebAlone == ~busy
MayExec == ~busy /\ ~req.pending /\ ~req.active

\* webconsole_exec_handler up to run_command: the command is echoed to the console
WebExec(w) ==
  /\ Served /\ web[w] = "idle"
  /\ IF MayExec
     THEN /\ web' = [web EXCEPT ![w] = "running"] /\ busy' = TRUE
          /\ \E net \in BOOLEAN : stack' = Append(stack, [by |-> w, net |-> net, asked |-> FALSE])
          /\ out' = [out EXCEPT !.cur = @ \cup {w}]
     ELSE web' = [web EXCEPT ![w] = "answered"] /\ UNCHANGED <<busy, stack, out>>
  /\ UNCHANGED <<tn, orphan, req, abort, hist>>

\* ... and after it; httpd then answers on the connection
FinishWeb ==
  /\ ~hist.freed /\ stack # <<>> /\ Last(stack).by \in Requests
  /\ LET w == Last(stack).by
     IN  IF web[w] = "gone"
         THEN hist' = [hist EXCEPT !.freed = TRUE] /\ UNCHANGED <<web, busy, stack, abort>>
         ELSE /\ web' = [web EXCEPT ![w] = "answered"] /\ busy' = FALSE
              /\ stack' = Front(stack) /\ abort' = FALSE /\ UNCHANGED hist
  /\ UNCHANGED <<tn, orphan, req, out>>

\* webconsole_abort_handler: whoever asks, it is for the web command
WebAbort ==
  /\ Served /\ busy /\ abort' = TRUE
  /\ stack' = [i \in DOMAIN stack |-> [stack[i] EXCEPT !.asked = @ \/ stack[i].by \in Requests]]
  /\ UNCHANGED <<tn, orphan, req, web, busy, out, hist>>

MayWatch == "webWatches" \in Env \/ ~req.active

\* webconsole_poll_handler
WebPoll ==
  /\ Served /\ MayWatch /\ out.cur # {}
  /\ out' = [out EXCEPT !.cur = {}] /\ hist' = Drained(hist, "web")
  /\ UNCHANGED <<tn, orphan, req, stack, web, busy, abort>>

\* webconsole_clear_handler
WebClear ==
  /\ Served /\ MayWatch /\ out.cur # {}
  /\ out' = [out EXCEPT !.cur = {}]
  /\ UNCHANGED <<tn, orphan, req, stack, web, busy, abort, hist>>

\* The connection of a request ends: httpd_cleanup frees its data, and, when its command
\* is running, the periodic check of the command's own net_loop the connection
WebLeave(w) ==
  /\ Served /\ web[w] \in {"answered"} \cup {p \in {"running"} : "webLeaves" \in Env}
  /\ web' = [web EXCEPT ![w] = "gone"]
  /\ UNCHANGED <<tn, orphan, req, stack, busy, abort, out, hist>>

----------------------------------------------------------------------------
(* The command itself                                                      *)

Prints ==
  /\ ~hist.freed /\ stack # <<>> /\ out' = [out EXCEPT !.cur = @ \cup {Last(stack).by}]
  /\ UNCHANGED <<tn, orphan, req, stack, web, busy, abort, hist>>

\* net_loop sees mtk_tcp_abort_pending: the transfer ends
NetLoopAbort ==
  /\ Served /\ stack # <<>> /\ abort /\ abort' = FALSE
  /\ stack' = [stack EXCEPT ![Len(stack)].net = FALSE]
  /\ hist' = [hist EXCEPT !.wrong = @ \/ ~Last(stack).asked]
  /\ UNCHANGED <<tn, orphan, req, web, busy, out>>

Next ==
  \/ \E t \in Sessions : Connect(t) \/ Enter(t) \/ Interrupt(t) \/ Poll(t) \/ Closed(t) \/ Vanish(t)
  \/ \E w \in Requests : WebExec(w) \/ WebLeave(w)
  \/ Start \/ FinishTelnet \/ FinishWeb
  \/ WebAbort \/ WebPoll \/ WebClear \/ Prints \/ NetLoopAbort

\* The poll loop keeps turning, and a command returns sooner or later
Spec == Init /\ [][Next]_vars /\ WF_vars(Start) /\ WF_vars(FinishTelnet) /\ WF_vars(FinishWeb)

----------------------------------------------------------------------------

TypeOK ==
  /\ tn \in [Sessions -> [open : BOOLEAN, mem : {"none", "live", "freed", "lost"},
                          executing : BOOLEAN, dead : BOOLEAN]]
  /\ orphan \in Sessions \cup {None} /\ busy \in BOOLEAN /\ abort \in BOOLEAN
  /\ req \in [pdata : Sessions \cup {None}, pending : BOOLEAN, active : BOOLEAN, cmd : 0 .. MaxCmds]
  /\ stack \in Seq([by : Sessions \cup Requests, net : BOOLEAN, asked : BOOLEAN])
  /\ web \in [Requests -> {"idle", "running", "answered", "gone"}]
  /\ out \in [cur : SUBSET (Sessions \cup Requests), saved : SUBSET (Sessions \cup Requests),
             private : BOOLEAN]
  /\ IF out.private THEN req.active ELSE out.saved = {}
  /\ hist \in [queuedBy : Seq(Sessions), started : Seq(Nat), wrong : BOOLEAN, freed : BOOLEAN,
              read : SUBSET ((Sessions \cup Requests) \X (Sessions \cup {"web"}))]
  /\ req.pending => req.pdata # None

\* "Only one command may be queued or running at a time": no command starts on top of
\* another, whichever console it comes from, and none is queued behind a running one.
OneCommand == Len(stack) + (IF req.pending THEN 1 ELSE 0) <= 1

\* Each accepted telnet command is started once, in the order of acceptance, or is still
\* queued; it is skipped only when its session has gone.
EachRunsOnce ==
  /\ \A i, j \in DOMAIN hist.started : i < j => hist.started[i] < hist.started[j]
  /\ \A n \in DOMAIN hist.queuedBy :
       \/ n \in {hist.started[i] : i \in DOMAIN hist.started}
       \/ req.pending /\ req.cmd = n
       \/ ~Live(hist.queuedBy[n])

\* An abort request is "only ever consumed by the net_loop() of that very command, so it
\* cannot abort unrelated traffic" (mtk_tcp.c): what is aborted was asked to stop.
AbortIsOwn == ~hist.wrong

\* What is freed, a session or a connection, is not used by a command that is still to run
\* or to return, whoever hangs up or vanishes; with one exception in the code: a command
\* whose own connection vanishes sends the rest of its output on it, since its session is
\* not marked dead.
NoUseAfterFree == hist.freed => \E t \in Sessions : tn[t].mem = "lost" /\ Running(t)

\* The output of a telnet command reaches its own session only, and no session reads
\* another's; the web console's output reaches no telnet session.
OutputIsOwn == \A r \in hist.read : r[1] \in Sessions \/ r[2] \in Sessions => r[1] = r[2]

\* Nobody stays busy: a suspended session gets its prompt back or is gone, and the web
\* console accepts commands again.
NobodyStaysBusy ==
  /\ \A t \in Sessions : (tn[t].executing /\ Live(t)) ~> ~(tn[t].executing /\ Live(t))
  /\ busy ~> ~busy

=============================================================================
