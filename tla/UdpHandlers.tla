---------------------------- MODULE UdpHandlers ----------------------------
(***************************************************************************)
(* Who receives UDP datagrams.  net/net.c keeps one handler pointer; the   *)
(* DHCP server, the DNS server and the network-abort listener stack        *)
(* themselves on it, each remembering the handler it found and forwarding  *)
(* to it, while net_loop() gives the pointer to its protocol and clears it *)
(* when it ends.  This module follows the pointer from power-on through    *)
(* autoboot and the command line into a session of the web failsafe, whose *)
(* poll loop brings the servers back after a network command.              *)
(*                                                                         *)
(* Each server's three variables are a component of the record "stack":    *)
(*   head     udp_packet_handler                                           *)
(*   prev[s]  prev_udp_handler / net_abort_prev_udp_handler                *)
(*   on[s]    dhcpd_running / dnsd_running / net_abort_enabled             *)
(* Every protocol of net_loop is the one handler "proto"; the environment  *)
(* gives a usable ipaddr, so mtk_dnsd_start does not fail, and eth_init()  *)
(* succeeds when it is called outside net_loop.                            *)
(***************************************************************************)
CONSTANTS
  SessionCmds,  \* the commands typed on telnet or on the web console
  CliCmds       \* the commands typed at the prompt or run by bootcmd

\* net       a network command whose net_loop() runs to its end
\* unready   one whose net_loop() returns early: net_check_prereq() or eth_init()
\* wget      net_loop(MTK_TCP), which starts both servers before it waits
\* named     no network, but its text contains "ping", "dhcp", "tftp", ...
\* dhcpd_start, dhcpd_stop   the command of net/mtk_dhcpd.c
Commands == {"net", "unready", "wget", "named", "dhcpd_start", "dhcpd_stop"}

ASSUME SessionCmdsAssumption == SessionCmds \subseteq Commands
ASSUME CliCmdsAssumption == CliCmds \subseteq Commands

VARIABLES
  stack,     \* the handler pointer and what each service remembers
  eth,       \* eth_is_active()
  reinit,    \* eth_needs_reinit
  loop,      \* a command's net_loop() is waiting for packets
  armed,     \* net_abort_armed
  pc,        \* where the program is
  caller,    \* where the failsafe session returns to
  unsettled  \* history, for the properties: a session's command changed the handlers, or
             \* left the recovery something to do with the handlers in place, and no
             \* net_loop() has come to its end and cleared them since

handlerVars == <<stack, eth, reinit, loop, armed, pc, caller, unsettled>>

Services == {"dhcpd", "dnsd", "abort"}
Handlers == Services \cup {"dummy", "proto"}
Null     == "null"

Session == {"poll", "service", "rx"}   \* the poll loop of start_web_failsafe
Prompt  == {"autoboot", "cli"}
Callers == {"boot", "finish", "cmdfinish", "cli"}   \* run "httpd"

Unstacked == [head |-> "dummy", prev |-> [s \in Services |-> Null],
              on |-> [s \in Services |-> FALSE]]

----------------------------------------------------------------------------
(* Operations on the pointer                                               *)

\* net_set_udp_handler
Install(c, h) == [c EXCEPT !.head = IF h = Null THEN "dummy" ELSE h]

\* net_clear_handlers, at the end of every net_loop() that waited
Clear(c) == Install(c, Null)

Hook(c, s) ==
  [c EXCEPT !.prev[s] = c.head, !.on[s] = TRUE, !.head = s]

\* Mutant: a running server hooks again even if it is installed
StartAlways(c, s) == Hook(c, s)

\* Mutant: a running server is taken to be installed
StartOnce(c, s) == IF c.on[s] THEN c ELSE Hook(c, s)

\* mtk_dhcpd_start, mtk_dnsd_start: a running server hooks again unless it is
\* the handler installed last
Start(c, s) == IF c.on[s] /\ c.head = s THEN c ELSE Hook(c, s)

\* mtk_dhcpd_stop, mtk_dnsd_stop, net_abort_release
Stop(c, s) ==
  IF ~c.on[s] THEN c
  ELSE [Install(c, IF c.head = s THEN c.prev[s] ELSE c.head)
          EXCEPT !.prev[s] = Null, !.on[s] = FALSE]

\* Mutant: servers stopped in the order they were started
StopInOrder(c) == Stop(Stop(c, "dhcpd"), "dnsd")

\* the end of start_web_failsafe
StopServers(c) == Stop(Stop(c, "dnsd"), "dhcpd")

StartServers(c) == Start(Start(c, "dhcpd"), "dnsd")

\* the recovery branch of the poll loop
RestoreIn(c, s) == IF c.on[s] THEN Start(c, s) ELSE c
Restore(c) == RestoreIn(RestoreIn(c, "dhcpd"), "dnsd")

----------------------------------------------------------------------------
(* A datagram that no service consumes runs down the stack                 *)

Forwards(c, S) == { c.prev[s] : s \in S \cap Services }

\* Every handler called, directly or not, from those of S: three rounds reach
\* them all, for only the three services forward
Called(c, S) ==
  LET S1 == S \cup Forwards(c, S)
      S2 == S1 \cup Forwards(c, S1)
  IN  S2 \cup Forwards(c, S2)

Reached(c) == Called(c, {c.head})

----------------------------------------------------------------------------
(* Commands: net_loop() and "dhcpd"                                        *)

\* What net_loop() installs before it waits
LoopStack(c, cmd) ==
  IF cmd = "wget" THEN StartServers(c) ELSE Install(c, "proto")

\* A command waits in net_loop() only if it is "net" or "wget"; the others end
\* at once
Run(cmd) ==
  \/ /\ cmd \in {"net", "wget"}
     /\ stack' = LoopStack(stack, cmd)
     /\ eth' = TRUE
     /\ loop' = TRUE
  \/ /\ cmd = "unready"
     /\ eth' = FALSE
     /\ UNCHANGED <<stack, loop>>
  \/ /\ cmd = "named"
     /\ UNCHANGED <<stack, eth, loop>>
  \/ /\ cmd = "dhcpd_start"
     /\ stack' = Start(stack, "dhcpd")
     /\ UNCHANGED <<eth, loop>>
  \/ /\ cmd = "dhcpd_stop"
     /\ stack' = Stop(stack, "dhcpd")
     /\ UNCHANGED <<eth, loop>>

\* The wait ends: success, failure, or Ctrl+C
LoopEnd ==
  /\ loop
  /\ stack' = Clear(stack)
  /\ eth' = FALSE
  /\ loop' = FALSE
  /\ unsettled' = FALSE
  /\ UNCHANGED <<reinit, armed, pc, caller>>

----------------------------------------------------------------------------
(* Boot: common/main.c and net/net_abort.c                                 *)

\* net_abort_prepare up to its listen window, in main_loop or in the command
\* "netabort listen"
AbortPrepare ==
  /\ pc \in {"boot", "cli"}
  /\ ~loop
  /\ stack' = Hook(stack, "abort")
  /\ eth' = TRUE
  /\ armed' = TRUE
  /\ pc' = IF pc = "boot" THEN "listen" ELSE "cmdlisten"
  /\ UNCHANGED <<reinit, loop, caller, unsettled>>

\* net_abort_prepare when disable_net_abort is set or eth_init() fails
AbortDisabled ==
  /\ pc = "boot"
  /\ pc' = "autoboot"
  /\ UNCHANGED <<stack, eth, reinit, loop, armed, caller, unsettled>>

\* net_abort_release at the end of the listen window
AbortRelease ==
  /\ pc \in {"listen", "cmdlisten"}
  /\ stack' = Stop(stack, "abort")
  /\ pc' = IF pc = "listen" THEN "autoboot" ELSE "cmdfinish"
  /\ UNCHANGED <<eth, reinit, loop, armed, caller, unsettled>>

\* A command of bootcmd, or one typed at the prompt
PromptCmd(cmd) ==
  /\ pc \in Prompt
  /\ ~loop
  /\ Run(cmd)
  /\ UNCHANGED <<reinit, armed, pc, caller, unsettled>>

\* autoboot_command() returns to main_loop
AutobootReturns ==
  /\ pc = "autoboot"
  /\ ~loop
  /\ pc' = "finish"
  /\ UNCHANGED <<stack, eth, reinit, loop, armed, caller, unsettled>>

\* net_abort_finish without a trigger or after its httpd; main_loop then starts
\* the DHCP server
FinishReturns ==
  /\ pc \in {"finish", "cmdfinish"}
  /\ stack' = IF pc = "finish" THEN Start(stack, "dhcpd") ELSE stack
  /\ armed' = FALSE
  /\ pc' = "cli"
  /\ UNCHANGED <<eth, reinit, loop, caller, unsettled>>

----------------------------------------------------------------------------
(* The web failsafe: failsafe/failsafe_core.c                              *)

\* "httpd", up to its poll loop: from the failsafe variable or the button at
\* boot, from net_abort_finish after a trigger, or from the prompt
SessionBegin ==
  /\ pc \in Callers
  /\ pc \in {"finish", "cmdfinish"} => armed
  /\ ~loop
  /\ LET c == Start(Stop(stack, "dhcpd"), "dhcpd")
     IN  stack' = Start(Stop(c, "dnsd"), "dnsd")
  /\ eth' = TRUE
  /\ reinit' = FALSE
  /\ armed' = FALSE
  /\ pc' = "poll"
  /\ caller' = pc
  /\ UNCHANGED <<loop, unsettled>>

\* For the properties: a network command that waits clears the handlers, and one that
\* leaves the interface and reinit as they were leaves the recovery nothing to do
Settling(cmd) == cmd = "net" \/ (cmd = "named" /\ reinit' = reinit)

\* A telnet command runs at the top of the poll loop, a web console command
\* inside eth_rx(); either notifies the poll loop if its text names a network
\* command (a script that is merely "run" does not) and its client is still there
SessionCmd(cmd) ==
  /\ pc \in {"poll", "rx"}
  /\ ~loop
  /\ Run(cmd)
  /\ \E named \in BOOLEAN : reinit' = (reinit \/ named)
  /\ pc' = IF pc = "poll" THEN "service" ELSE "poll"
  /\ unsettled' = (unsettled \/ ~Settling(cmd))
  /\ UNCHANGED <<armed, caller>>

\* mtk_telnetd_poll without a queued command
NoTelnetCmd ==
  /\ pc = "poll"
  /\ ~loop
  /\ pc' = "service"
  /\ UNCHANGED <<stack, eth, reinit, loop, armed, caller, unsettled>>

\* Mutant: the interface is brought back only when a command asked for it
ServiceOnFlag ==
  /\ pc = "service"
  /\ ~loop
  /\ pc' = "rx"
  /\ reinit' = FALSE
  /\ IF reinit
       THEN eth' = TRUE /\ stack' = Restore(stack)
       ELSE UNCHANGED <<stack, eth>>
  /\ UNCHANGED <<loop, armed, caller, unsettled>>

\* The recovery branch: a command asked for it, or the interface went down
Service ==
  /\ pc = "service"
  /\ ~loop
  /\ pc' = "rx"
  /\ reinit' = FALSE
  /\ IF reinit \/ ~eth
       THEN eth' = TRUE /\ stack' = Restore(stack)
       ELSE UNCHANGED <<stack, eth>>
  /\ UNCHANGED <<loop, armed, caller, unsettled>>

\* eth_rx() and mtk_tcp_periodic_check()
Receive ==
  /\ pc = "rx"
  /\ ~loop
  /\ pc' = "poll"
  /\ UNCHANGED <<stack, eth, reinit, loop, armed, caller, unsettled>>

\* Ctrl+C, or the listeners are gone
SessionEnd ==
  /\ pc = "poll"
  /\ ~loop
  /\ stack' = StopServers(stack)
  /\ eth' = FALSE
  /\ pc' = caller
  /\ UNCHANGED <<reinit, loop, armed, caller, unsettled>>

\* do_reset after an upgrade or /reboot, or at the prompt
Reset ==
  /\ pc \in {"poll", "cli"}
  /\ ~loop
  /\ stack' = Unstacked
  /\ eth' = FALSE
  /\ reinit' = FALSE
  /\ armed' = FALSE
  /\ pc' = "boot"
  /\ caller' = "boot"
  /\ unsettled' = FALSE
  /\ UNCHANGED loop

----------------------------------------------------------------------------
HandlersInit ==
  /\ stack = Unstacked
  /\ eth = FALSE
  /\ reinit = FALSE
  /\ loop = FALSE
  /\ armed = FALSE
  /\ pc = "boot"
  /\ caller = "boot"
  /\ unsettled = FALSE

Boot == AbortPrepare \/ AbortDisabled \/ AbortRelease \/ AutobootReturns \/ FinishReturns

PollLoop == NoTelnetCmd \/ Service \/ Receive

HandlersNext ==
  \/ Boot
  \/ \E cmd \in CliCmds : PromptCmd(cmd)
  \/ SessionBegin
  \/ \E cmd \in SessionCmds : SessionCmd(cmd)
  \/ PollLoop
  \/ LoopEnd
  \/ SessionEnd
  \/ Reset

HandlersSpec == HandlersInit /\ [][HandlersNext]_handlerVars

\* The poll loop keeps turning, and a command's net_loop() ends: ping, tftp and
\* dhcp give up after their retries, and the console's Abort ends any of them
FairSpec == HandlersSpec /\ WF_handlerVars(PollLoop) /\ WF_handlerVars(LoopEnd)

----------------------------------------------------------------------------
(* Properties                                                              *)

HandlersTypeOK ==
  /\ stack \in [head : Handlers, prev : [Services -> Handlers \cup {Null}],
                on : [Services -> BOOLEAN]]
  /\ eth \in BOOLEAN
  /\ reinit \in BOOLEAN
  /\ loop \in BOOLEAN
  /\ armed \in BOOLEAN
  /\ pc \in {"listen", "cmdlisten", "autoboot"} \cup Callers \cup Session
  /\ caller \in Callers
  /\ unsettled \in BOOLEAN

\* A datagram is forwarded finitely often: no handler that can be called is called again
\* from itself (it would recurse until the stack of the program is exhausted), whatever
\* was started, stopped and cleared in which order, at the prompt and in sessions, up to
\* a session's command that the servers do not survive in order, and again once a later
\* net_loop() has cleared the handlers.  Such a command is an unready one, wget, "dhcpd",
\* or one that only looks like a network command: the code does form the cycle then.
NoHandlerCycle ==
  ~unsettled => \A s \in Reached(stack) \cap Services : s \notin Called(stack, {stack.prev[s]})

InSession == pc \in Session

\* Every running server gets its datagrams, on a live interface
Served ==
  /\ eth
  /\ \A s \in {"dhcpd", "dnsd"} : stack.on[s] => s \in Reached(stack)

\* Whenever the poll loop calls eth_rx(), a running server is in the stack and
\* the interface is up, whatever command was run meanwhile: the web UI does not
\* go deaf ("all go deaf without a single error message").
ServedAtRx == pc = "rx" => Served

\* Outside a session neither server is left in the stack unless it is running, and the
\* abort listener is in it only during its window: stopping leaves no dangling handler,
\* with the same exception and as long as it lasts.
NoStoppedHandler ==
  ~unsettled /\ ~InSession => \A s \in Reached(stack) \cap Services : stack.on[s]

\* A session in which a server is deaf or the interface down either serves
\* again or ends.
ServiceRestored == (InSession /\ ~Served) ~> (Served \/ ~InSession)
=============================================================================
