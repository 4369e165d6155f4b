------------------------ MODULE UdpServices_proofs ------------------------
(***************************************************************************)
(* Proofs about what is served over UDP: the handler stack (UdpHandlers)   *)
(* and the DHCP server hooked on it (Dhcpd).                               *)
(*                                                                         *)
(* The handler stack: whatever is run at the prompt and in the sessions of *)
(* the failsafe, both servers are served at each call of eth_rx(); and the *)
(* handlers form no cycle and none that is stopped stays behind, except    *)
(* between a session's command that unsettles them and the end of a later  *)
(* net_loop().  The argument is the shape of the stack at each place of    *)
(* the program.                                                            *)
(*                                                                         *)
(* The DHCP server: type correctness, one lease per hardware address, and  *)
(* an address is shared only after a pool was exhausted.                   *)
(***************************************************************************)
EXTENDS UdpHandlers, Dhcpd, FiniteSetTheorems, TLAPS

(* At the prompt: nothing, or the DHCP server alone.                         *)
Base(c) ==
  \/ c.head = "dummy"
  \/ c.head = "dhcpd" /\ c.on["dhcpd"] /\ c.prev["dhcpd"] = "dummy"

(* Both servers, the DNS server on top.                                      *)
Both(c) ==
  /\ c.head = "dnsd"
  /\ c.on["dhcpd"] /\ c.on["dnsd"]
  /\ c.prev["dnsd"] = "dhcpd"
  /\ c.prev["dhcpd"] = "dummy"

(* The abort listener on top of what was at the prompt.                      *)
Listening(c) ==
  /\ c.head = "abort"
  /\ c.on["abort"]
  /\ \/ c.prev["abort"] = "dummy"
     \/ c.prev["abort"] = "dhcpd" /\ c.on["dhcpd"] /\ c.prev["dhcpd"] = "dummy"

(* The DNS server alone: "dhcpd stop" was run in the session.                 *)
OnlyDns(c) ==
  /\ c.head = "dnsd"
  /\ c.on["dnsd"] /\ ~c.on["dhcpd"]
  /\ c.prev["dnsd"] = "dummy"

InOrder(c) == Both(c) \/ OnlyDns(c)

(* In a session the DNS server runs, and the handlers of the running servers are   *)
(* the first two, in either order, whatever lies below them.                       *)
Hooked(c) ==
  \/ c.head = "dnsd" /\ (c.on["dhcpd"] => c.prev["dnsd"] = "dhcpd")
  \/ c.head = "dhcpd" /\ c.on["dhcpd"] /\ c.prev["dhcpd"] = "dnsd"

(* Whatever was run: a live interface has the running servers on the pointer. *)
Live ==
  /\ loop => pc \in Prompt \cup {"poll", "service"}
  /\ InSession => stack.on["dnsd"] /\ (~loop /\ eth => Hooked(stack))
  /\ pc = "rx" => eth /\ ~loop

(* Unless a command of a session unsettled the stack: in a session, the servers in *)
(* order on a live interface or, after a network command and before the recovery,  *)
(* nothing on a halted one.                                                        *)
Shape ==
  /\ loop => stack.head = "proto" \/ Both(stack)
  /\ pc \in {"listen", "cmdlisten"} => Listening(stack)
  /\ pc \in Callers \cup {"autoboot"} /\ ~loop => Base(stack)
  /\ InSession /\ ~loop => \/ stack.head = "dummy" /\ ~eth
                           \/ InOrder(stack) /\ eth /\ ~reinit

IInv == HandlersTypeOK /\ Live /\ (~unsettled => Shape)

StackType ==
  [head : Handlers, prev : [Services -> Handlers \cup {Null}], on : [Services -> BOOLEAN]]

----------------------------------------------------------------------------
(* What the operations do to a stack of the right type. *)

LEMMA OpTypes ==
  ASSUME NEW c \in StackType, NEW s \in Services
  PROVE  /\ Hook(c, s) \in StackType
         /\ Start(c, s) \in StackType
         /\ Stop(c, s) \in StackType
         /\ RestoreIn(c, s) \in StackType
         /\ Clear(c) \in StackType
         /\ Install(c, "proto") \in StackType
<1>1. Hook(c, s) \in StackType
  BY DEF Hook, StackType, Handlers
<1>2. \A h \in Handlers \cup {Null} : Install(c, h) \in StackType
  BY DEF Install, StackType, Handlers, Services, Null
<1>3. c.prev[s] \in Handlers \cup {Null} /\ c.head \in Handlers
  BY DEF StackType
<1>4. Install(c, IF c.head = s THEN c.prev[s] ELSE c.head) \in StackType
  BY <1>2, <1>3
<1>5. Stop(c, s) \in StackType
  BY <1>4 DEF Stop, StackType
<1> QED
  BY <1>1, <1>2, <1>5 DEF Start, RestoreIn, Clear, Handlers

(* Hooking a service writes its three fields and no other.                   *)
LEMMA HookFields ==
  ASSUME NEW c \in StackType, NEW s \in Services
  PROVE  /\ Hook(c, s).head = s
         /\ Hook(c, s).prev[s] = c.head
         /\ Hook(c, s).on[s]
         /\ \A t \in Services \ {s} :
              Hook(c, s).prev[t] = c.prev[t] /\ Hook(c, s).on[t] = c.on[t]
BY DEF Hook, StackType

(* Stopping a service that runs takes it off the pointer, if it is there.    *)
LEMMA StopFields ==
  ASSUME NEW c \in StackType, NEW s \in Services
  PROVE  /\ Stop(c, s).head =
              (IF ~c.on[s] \/ c.head # s THEN c.head
               ELSE IF c.prev[s] = Null THEN "dummy" ELSE c.prev[s])
         /\ ~Stop(c, s).on[s]
         /\ \A t \in Services \ {s} :
              Stop(c, s).prev[t] = c.prev[t] /\ Stop(c, s).on[t] = c.on[t]
BY DEF Stop, Install, StackType, Handlers, Services, Null

----------------------------------------------------------------------------
(* The shapes under the operations. *)

LEMMA BaseCommands ==
  ASSUME NEW c \in StackType, Base(c)
  PROVE  Base(Start(c, "dhcpd")) /\ Base(Stop(c, "dhcpd"))
<1>1. "dhcpd" \in Services
  BY DEF Services
<1> QED
  BY <1>1, HookFields, StopFields DEF Base, Start, Null

LEMMA StartsBoth ==
  ASSUME NEW c \in StackType, Base(c)
  PROVE  Both(StartServers(c))
<1> DEFINE d == Start(c, "dhcpd")
<1>1. "dhcpd" \in Services /\ "dnsd" \in Services
  BY DEF Services
<1>2. d \in StackType
  BY <1>1, OpTypes
<1>3. d.head = "dhcpd" /\ d.on["dhcpd"] /\ d.prev["dhcpd"] = "dummy"
  BY <1>1, HookFields DEF Base, Start
<1> HIDE DEF d
<1>4. Start(d, "dnsd") = Hook(d, "dnsd")
  BY <1>3 DEF Start
<1>5. Both(Hook(d, "dnsd"))
  BY <1>1, <1>2, <1>3, HookFields DEF Both
<1> QED
  BY <1>4, <1>5 DEF StartServers, d

(* "httpd" brings both servers on the pointer, whatever it finds there.      *)
LEMMA SessionHooks ==
  ASSUME NEW c \in StackType
  PROVE  LET d == Start(Stop(c, "dhcpd"), "dhcpd")
             e == Start(Stop(d, "dnsd"), "dnsd")
         IN  /\ e \in StackType
             /\ e.on["dnsd"] /\ Hooked(e)
             /\ Base(c) => Both(e)
<1> DEFINE b == Stop(c, "dhcpd")
           d == Start(b, "dhcpd")
           e == Stop(d, "dnsd")
<1>1. "dhcpd" \in Services /\ "dnsd" \in Services
  BY DEF Services
<1>2. b \in StackType /\ ~b.on["dhcpd"] /\ (Base(c) => b.head = "dummy")
  BY <1>1, OpTypes, StopFields DEF Base, Null
<1> HIDE DEF b
<1>3. /\ d \in StackType /\ d.head = "dhcpd" /\ d.on["dhcpd"]
      /\ Base(c) => d.prev["dhcpd"] = "dummy"
  BY <1>1, <1>2, OpTypes, HookFields DEF Start
<1> HIDE DEF d
<1>4. /\ e \in StackType /\ e.head = "dhcpd" /\ e.on["dhcpd"] /\ ~e.on["dnsd"]
      /\ Base(c) => e.prev["dhcpd"] = "dummy"
  <2>1. e \in StackType /\ ~e.on["dnsd"]
    BY <1>1, <1>3, OpTypes, StopFields
  <2>2. e.head = "dhcpd"
    <3>1. Stop(d, "dnsd").head = d.head
      BY <1>1, <1>3 DEF Stop, Install, StackType, Handlers, Services, Null
    <3> QED
      BY <1>3, <3>1
  <2>3. \A t \in Services \ {"dnsd"} : e.prev[t] = d.prev[t] /\ e.on[t] = d.on[t]
    BY <1>1, <1>3, StopFields
  <2> QED
    BY <1>1, <1>3, <2>1, <2>2, <2>3
<1> HIDE DEF e
<1>5. Start(e, "dnsd") = Hook(e, "dnsd")
  BY <1>4 DEF Start
<1>6. /\ Hook(e, "dnsd") \in StackType
      /\ Hook(e, "dnsd").on["dnsd"] /\ Hooked(Hook(e, "dnsd"))
      /\ Base(c) => Both(Hook(e, "dnsd"))
  BY <1>1, <1>4, HookFields, OpTypes DEF Both, Hooked
<1> QED
  BY <1>5, <1>6 DEF b, d, e

(* The recovery brings the running servers on the pointer, whatever it finds, *)
(* and in order if it finds nothing.                                          *)
LEMMA Restores ==
  ASSUME NEW c \in StackType, c.on["dnsd"]
  PROVE  /\ Restore(c) \in StackType
         /\ Restore(c).on["dnsd"] /\ Hooked(Restore(c))
         /\ c.head = "dummy" => InOrder(Restore(c))
<1> DEFINE d == RestoreIn(c, "dhcpd")
           e == RestoreIn(d, "dnsd")
<1>1. "dhcpd" \in Services /\ "dnsd" \in Services
  BY DEF Services
<1>2. d \in StackType
  BY <1>1, OpTypes
<1>3. CASE c.on["dhcpd"]
  <2>1. d = IF c.head = "dhcpd" THEN c ELSE Hook(c, "dhcpd")
    BY <1>3 DEF RestoreIn, Start
  <2>2. /\ d.head = "dhcpd" /\ d.on["dhcpd"] /\ d.on["dnsd"]
        /\ c.head = "dummy" => d.prev["dhcpd"] = "dummy"
    BY <1>1, <1>3, <2>1, HookFields
  <2> HIDE DEF d
  <2>3. e = Hook(d, "dnsd")
    BY <2>2 DEF RestoreIn, Start
  <2>4. /\ e \in StackType /\ e.head = "dnsd" /\ e.prev["dnsd"] = "dhcpd"
        /\ e.on["dnsd"] /\ e.on["dhcpd"] /\ e.prev["dhcpd"] = d.prev["dhcpd"]
    BY <1>1, <1>2, <2>2, <2>3, OpTypes, HookFields
  <2>5. Restore(c) = e
    BY DEF Restore, d
  <2> HIDE DEF e
  <2> QED
    BY <2>2, <2>4, <2>5 DEF Hooked, InOrder, Both
<1>4. CASE ~c.on["dhcpd"]
  <2>1. d = c
    BY <1>4 DEF RestoreIn
  <2>2. e = IF c.head = "dnsd" THEN c ELSE Hook(c, "dnsd")
    BY <2>1 DEF RestoreIn, Start
  <2>3. Restore(c) = e
    BY DEF Restore
  <2> HIDE DEF e
  <2>4. CASE c.head = "dnsd"
    BY <1>4, <2>2, <2>3, <2>4 DEF Hooked
  <2>5. CASE c.head # "dnsd"
    <3>1. /\ e \in StackType /\ e.head = "dnsd" /\ e.prev["dnsd"] = c.head
          /\ e.on["dnsd"] /\ ~e.on["dhcpd"]
      BY <1>1, <1>4, <2>2, <2>5, OpTypes, HookFields
    <3> QED
      BY <2>3, <3>1 DEF Hooked, InOrder, OnlyDns
  <2> QED
    BY <2>4, <2>5
<1> QED
  BY <1>3, <1>4

(* The command "dhcpd" leaves the running servers on the pointer.            *)
LEMMA KeepsHooked ==
  ASSUME NEW c \in StackType, c.on["dnsd"]
  PROVE  /\ Start(c, "dhcpd").on["dnsd"] /\ (Hooked(c) => Hooked(Start(c, "dhcpd")))
         /\ Stop(c, "dhcpd").on["dnsd"] /\ (Hooked(c) => Hooked(Stop(c, "dhcpd")))
<1>1. "dhcpd" \in Services /\ "dnsd" \in Services
  BY DEF Services
<1>2. Start(c, "dhcpd").on["dnsd"] /\ (Hooked(c) => Hooked(Start(c, "dhcpd")))
  BY <1>1, HookFields DEF Start, Hooked
<1>3. Stop(c, "dhcpd").on["dnsd"] /\ (Hooked(c) => Hooked(Stop(c, "dhcpd")))
  BY <1>1, StopFields DEF Hooked, Null
<1> QED
  BY <1>2, <1>3

LEMMA StopsToBase ==
  ASSUME NEW c \in StackType, c.head = "dummy" \/ InOrder(c)
  PROVE  Base(StopServers(c))
<1> DEFINE d == Stop(c, "dnsd")
<1>1. "dhcpd" \in Services /\ "dnsd" \in Services
  BY DEF Services
<1>2. d \in StackType /\ \/ d.head = "dummy"
                         \/ d.head = "dhcpd" /\ d.on["dhcpd"] /\ d.prev["dhcpd"] = "dummy"
  BY <1>1, OpTypes, StopFields DEF InOrder, Both, OnlyDns, Null
<1> HIDE DEF d
<1>3. Base(Stop(d, "dhcpd"))
  BY <1>1, <1>2, StopFields DEF Base, Null
<1> QED
  BY <1>3 DEF StopServers, d

LEMMA ListeningEnds ==
  ASSUME NEW c \in StackType, Listening(c)
  PROVE  Base(Stop(c, "abort"))
<1>1. "dhcpd" \in Services /\ "abort" \in Services
  BY DEF Services
<1> QED
  BY <1>1, StopFields DEF Listening, Base, Null

LEMMA BaseListens ==
  ASSUME NEW c \in StackType, Base(c)
  PROVE  Listening(Hook(c, "abort"))
<1>1. "dhcpd" \in Services /\ "abort" \in Services
  BY DEF Services
<1> QED
  BY <1>1, HookFields DEF Listening, Base

----------------------------------------------------------------------------
(* No shape has a cycle, and all that can be called in them is running. *)

LEMMA CalledStops ==
  ASSUME NEW c, NEW S, S \cap Services = {}
  PROVE  Called(c, S) = S
BY DEF Called, Forwards

LEMMA ShapesAreChains ==
  ASSUME NEW c \in StackType,
         \/ Base(c) \/ InOrder(c) \/ Listening(c) \/ c.head = "proto"
  PROVE  \A s \in Reached(c) \cap Services :
            c.on[s] /\ s \notin Called(c, {c.prev[s]})
<1>1. CASE c.head \in {"dummy", "proto"}
  BY <1>1, CalledStops DEF Reached, Services
<1>2. CASE c.head = "dhcpd" /\ c.on["dhcpd"] /\ c.prev["dhcpd"] = "dummy"
  <2>1. Forwards(c, {"dhcpd"}) = {"dummy"}
    BY <1>2 DEF Forwards, Services
  <2>2. Forwards(c, {"dhcpd", "dummy"}) = {"dummy"}
    BY <1>2 DEF Forwards, Services
  <2>3. Reached(c) = {"dhcpd", "dummy"}
    BY <1>2, <2>1, <2>2 DEF Reached, Called
  <2> QED
    BY <1>2, <2>3, CalledStops DEF Services
<1>3. CASE Both(c)
  <2>1. Forwards(c, {"dnsd"}) = {"dhcpd"} /\ Forwards(c, {"dhcpd"}) = {"dummy"}
    BY <1>3 DEF Both, Forwards, Services
  <2>2. Forwards(c, {"dnsd", "dhcpd"}) = {"dhcpd", "dummy"}
    BY <1>3 DEF Both, Forwards, Services
  <2>3. Forwards(c, {"dnsd", "dhcpd", "dummy"}) = {"dhcpd", "dummy"}
        /\ Forwards(c, {"dhcpd", "dummy"}) = {"dummy"}
    BY <1>3 DEF Both, Forwards, Services
  <2>4. Reached(c) = {"dnsd", "dhcpd", "dummy"}
    BY <1>3, <2>1, <2>2, <2>3 DEF Both, Reached, Called
  <2>5. Called(c, {"dhcpd"}) = {"dhcpd", "dummy"}
    BY <2>1, <2>3 DEF Called
  <2>6. Called(c, {"dummy"}) = {"dummy"}
    BY CalledStops DEF Services
  <2> QED
    BY <1>3, <2>4, <2>5, <2>6 DEF Both, Services
<1>4. CASE Listening(c) /\ c.prev["abort"] = "dummy"
  <2>1. Forwards(c, {"abort"}) = {"dummy"} /\ Forwards(c, {"abort", "dummy"}) = {"dummy"}
    BY <1>4 DEF Forwards, Services
  <2>2. Reached(c) = {"abort", "dummy"}
    BY <1>4, <2>1 DEF Listening, Reached, Called
  <2> QED
    BY <1>4, <2>2, CalledStops DEF Listening, Services
<1>5. CASE Listening(c) /\ c.prev["abort"] = "dhcpd" /\ c.on["dhcpd"]
           /\ c.prev["dhcpd"] = "dummy"
  <2>1. Forwards(c, {"abort"}) = {"dhcpd"} /\ Forwards(c, {"dhcpd"}) = {"dummy"}
    BY <1>5 DEF Forwards, Services
  <2>2. Forwards(c, {"abort", "dhcpd"}) = {"dhcpd", "dummy"}
        /\ Forwards(c, {"abort", "dhcpd", "dummy"}) = {"dhcpd", "dummy"}
        /\ Forwards(c, {"dhcpd", "dummy"}) = {"dummy"}
    BY <1>5 DEF Forwards, Services
  <2>3. Reached(c) = {"abort", "dhcpd", "dummy"}
    BY <1>5, <2>1, <2>2 DEF Listening, Reached, Called
  <2>4. Called(c, {"dhcpd"}) = {"dhcpd", "dummy"}
    BY <2>1, <2>2 DEF Called
  <2>5. Called(c, {"dummy"}) = {"dummy"}
    BY CalledStops DEF Services
  <2> QED
    BY <1>5, <2>3, <2>4, <2>5 DEF Listening, Services
<1>6. CASE OnlyDns(c)
  <2>1. Forwards(c, {"dnsd"}) = {"dummy"} /\ Forwards(c, {"dnsd", "dummy"}) = {"dummy"}
    BY <1>6 DEF OnlyDns, Forwards, Services
  <2>2. Reached(c) = {"dnsd", "dummy"}
    BY <1>6, <2>1 DEF OnlyDns, Reached, Called
  <2> QED
    BY <1>6, <2>2, CalledStops DEF OnlyDns, Services
<1> QED
  BY <1>1, <1>2, <1>3, <1>4, <1>5, <1>6 DEF Base, InOrder, Listening

----------------------------------------------------------------------------
(* The invariant. *)

LEMMA InitIInv == HandlersInit => IInv
<1> SUFFICES ASSUME HandlersInit PROVE IInv
  OBVIOUS
<1>1. Unstacked \in StackType /\ Unstacked.head = "dummy"
  BY DEF Unstacked, StackType, Handlers, Null
<1>2. HandlersTypeOK
  BY <1>1 DEF HandlersInit, HandlersTypeOK, StackType, Callers
<1>3. Live /\ Shape
  BY <1>1 DEF HandlersInit, Live, Shape, Base, Callers, InSession, Session
<1> QED
  BY <1>2, <1>3 DEF IInv

(* What a command leaves: the DNS server on, and the running servers on the   *)
(* pointer while the interface is up and nothing waits.                       *)
LEMMA RunLive ==
  ASSUME HandlersTypeOK, ~loop, NEW cmd, Run(cmd)
  PROVE  /\ stack' \in StackType /\ eth' \in BOOLEAN /\ loop' \in BOOLEAN
         /\ stack.on["dnsd"] /\ (eth => Hooked(stack)) =>
              stack'.on["dnsd"] /\ (~loop' /\ eth' => Hooked(stack'))
<1>1. stack \in StackType /\ eth \in BOOLEAN /\ loop \in BOOLEAN
  BY DEF HandlersTypeOK, StackType
<1>2. "dhcpd" \in Services /\ "dnsd" \in Services
  BY DEF Services
<1>3. Install(stack, "proto") \in StackType /\ Install(stack, "proto").on = stack.on
  BY <1>1, <1>2, OpTypes DEF Install, StackType
<1>4. StartServers(stack) \in StackType /\ StartServers(stack).on["dnsd"]
  <2> DEFINE d == Start(stack, "dhcpd")
  <2>1. d \in StackType
    BY <1>1, <1>2, OpTypes
  <2> HIDE DEF d
  <2>2. Start(d, "dnsd") \in StackType /\ Start(d, "dnsd").on["dnsd"]
    BY <1>2, <2>1, OpTypes, HookFields DEF Start
  <2> QED
    BY <2>2 DEF StartServers, d
<1>5. Start(stack, "dhcpd") \in StackType /\ Stop(stack, "dhcpd") \in StackType
  BY <1>1, <1>2, OpTypes
<1>6. CASE cmd \in {"net", "wget"}
  BY <1>3, <1>4, <1>6 DEF Run, LoopStack
<1>7. CASE cmd = "unready"
  <2>1. stack' = stack /\ ~eth' /\ eth' \in BOOLEAN /\ loop' = loop
    BY <1>7 DEF Run
  <2> QED
    BY <1>1, <2>1
<1>10. CASE cmd = "named"
  <2>1. stack' = stack /\ eth' = eth /\ loop' = loop
    BY <1>10 DEF Run
  <2> QED
    BY <1>1, <2>1
<1>8. CASE cmd = "dhcpd_start"
  BY <1>1, <1>5, <1>8, KeepsHooked DEF Run
<1>9. CASE cmd = "dhcpd_stop"
  BY <1>1, <1>5, <1>9, KeepsHooked DEF Run
<1> QED
  BY <1>6, <1>7, <1>8, <1>9, <1>10 DEF Run

(* At the prompt, whatever waits has its protocol or both servers on the      *)
(* pointer, and what returns leaves nothing or the DHCP server.               *)
LEMMA RunShape ==
  ASSUME HandlersTypeOK, ~loop, NEW cmd, Run(cmd), Base(stack)
  PROVE  /\ loop' => stack'.head = "proto" \/ Both(stack')
         /\ ~loop' => Base(stack')
<1>1. stack \in StackType
  BY DEF HandlersTypeOK, StackType
<1>2. Install(stack, "proto").head = "proto"
  BY <1>1 DEF Install, StackType, Null
<1>3. Both(StartServers(stack))
  BY <1>1, StartsBoth
<1>4. Base(Start(stack, "dhcpd")) /\ Base(Stop(stack, "dhcpd"))
  BY <1>1, BaseCommands
<1>5. CASE cmd \in {"net", "wget"}
  BY <1>2, <1>3, <1>5 DEF Run, LoopStack
<1>6. CASE stack' = stack /\ loop' = loop
  BY <1>6
<1>7. CASE stack' \in {Start(stack, "dhcpd"), Stop(stack, "dhcpd")} /\ loop' = loop
  BY <1>4, <1>7
<1> QED
  BY <1>5, <1>6, <1>7 DEF Run

(* A command of a session that does not unsettle the handlers either waits    *)
(* with its protocol on the pointer or changes nothing.                       *)
LEMMA SettlingRuns ==
  ASSUME HandlersTypeOK, ~loop, NEW cmd, Run(cmd), Settling(cmd)
  PROVE  \/ loop' /\ stack'.head = "proto"
         \/ reinit' = reinit /\ UNCHANGED <<stack, eth, loop>>
<1>1. Install(stack, "proto").head = "proto"
  BY DEF HandlersTypeOK, Install, Null
<1>2. CASE cmd = "net"
  BY <1>1, <1>2 DEF Run, LoopStack
<1>3. CASE cmd = "named" /\ reinit' = reinit
  BY <1>3 DEF Run
<1> QED
  BY <1>2, <1>3 DEF Settling

LEMMA NextIInv == IInv /\ [HandlersNext]_handlerVars => IInv'
<1> SUFFICES ASSUME IInv, [HandlersNext]_handlerVars
             PROVE  IInv'
  OBVIOUS
<1>1. /\ HandlersTypeOK /\ Live /\ (~unsettled => Shape)
      /\ stack \in StackType
  BY DEF IInv, HandlersTypeOK, StackType
<1>2. "dhcpd" \in Services /\ "dnsd" \in Services /\ "abort" \in Services
  BY DEF Services
<1>3. CASE AbortPrepare
  <2>1. stack' \in StackType
    BY <1>1, <1>2, <1>3, OpTypes DEF AbortPrepare
  <2>2. ~unsettled => Listening(stack')
    BY <1>1, <1>3, BaseListens DEF AbortPrepare, Shape, Callers
  <2>3. HandlersTypeOK' /\ Live'
    BY <1>1, <1>3, <2>1 DEF AbortPrepare, HandlersTypeOK, StackType, Live, Callers, Session,
                            InSession, Prompt
  <2>4. ~unsettled' => Shape'
    BY <1>1, <1>3, <2>2 DEF AbortPrepare, Shape, Callers, Session, InSession
  <2> QED
    BY <2>3, <2>4 DEF IInv
<1>4. CASE AbortDisabled \/ AutobootReturns
  BY <1>1, <1>4 DEF AbortDisabled, AutobootReturns, IInv, HandlersTypeOK, Live, Shape, Callers,
                    Session, InSession, Prompt
<1>5. CASE AbortRelease
  <2>1. stack' \in StackType
    BY <1>1, <1>2, <1>5, OpTypes DEF AbortRelease
  <2>2. ~unsettled => Base(stack')
    BY <1>1, <1>5, ListeningEnds DEF AbortRelease, Shape
  <2>3. HandlersTypeOK' /\ Live'
    BY <1>1, <1>5, <2>1 DEF AbortRelease, HandlersTypeOK, StackType, Live, Callers, Session,
                            InSession, Prompt
  <2>4. ~unsettled' => Shape'
    BY <1>1, <1>5, <2>2 DEF AbortRelease, Live, Shape, Callers, Session, InSession, Prompt
  <2> QED
    BY <2>3, <2>4 DEF IInv
<1>6. CASE FinishReturns
  <2>1. ~loop
    BY <1>1, <1>6 DEF FinishReturns, Live, Prompt
  <2>2. stack' \in StackType
    BY <1>1, <1>2, <1>6, OpTypes DEF FinishReturns
  <2>3. ~unsettled => Base(stack')
    BY <1>1, <1>6, <2>1, BaseCommands DEF FinishReturns, Shape, Callers
  <2>4. HandlersTypeOK' /\ Live'
    BY <1>1, <1>6, <2>1, <2>2 DEF FinishReturns, HandlersTypeOK, StackType, Live, Callers,
                                  Session, InSession, Prompt
  <2>5. ~unsettled' => Shape'
    BY <1>1, <1>6, <2>1, <2>3 DEF FinishReturns, Shape, Callers, Session, InSession
  <2> QED
    BY <2>4, <2>5 DEF IInv
<1>7. ASSUME NEW cmd \in CliCmds, PromptCmd(cmd) PROVE IInv'
  <2>1. stack' \in StackType /\ eth' \in BOOLEAN /\ loop' \in BOOLEAN
    BY <1>1, <1>7, RunLive DEF PromptCmd
  <2>2. ~unsettled => /\ loop' => stack'.head = "proto" \/ Both(stack')
                      /\ ~loop' => Base(stack')
    BY <1>1, <1>7, RunShape DEF PromptCmd, Shape, Prompt, Callers
  <2>3. HandlersTypeOK' /\ Live'
    BY <1>1, <1>7, <2>1 DEF PromptCmd, HandlersTypeOK, StackType, Live, Callers, Session,
                            InSession, Prompt
  <2>4. ~unsettled' => Shape'
    BY <1>1, <1>7, <2>2 DEF PromptCmd, Shape, Callers, Session, InSession, Prompt
  <2> QED
    BY <2>3, <2>4 DEF IInv
<1>8. CASE SessionBegin
  <2>1. /\ stack' \in StackType /\ stack'.on["dnsd"] /\ Hooked(stack')
        /\ Base(stack) => Both(stack')
    BY <1>1, <1>8, SessionHooks DEF SessionBegin
  <2>2. HandlersTypeOK' /\ Live'
    BY <1>1, <1>8, <2>1 DEF SessionBegin, HandlersTypeOK, StackType, Live, Callers, Session,
                            InSession, Prompt
  <2>3. ~unsettled' => Shape'
    BY <1>1, <1>8, <2>1 DEF SessionBegin, Shape, InOrder, Callers, Session, InSession
  <2> QED
    BY <2>2, <2>3 DEF IInv
<1>9. ASSUME NEW cmd \in SessionCmds, SessionCmd(cmd) PROVE IInv'
  <2>1. /\ stack' \in StackType /\ eth' \in BOOLEAN /\ loop' \in BOOLEAN
        /\ stack'.on["dnsd"] /\ (~loop' /\ eth' => Hooked(stack'))
    BY <1>1, <1>9, RunLive DEF SessionCmd, Live, InSession, Session
  <2>2. pc' \in {"poll", "service"} /\ reinit' \in BOOLEAN /\ unsettled' \in BOOLEAN
    BY <1>1, <1>9 DEF SessionCmd, HandlersTypeOK
  <2>3. HandlersTypeOK' /\ Live'
    BY <1>1, <1>9, <2>1, <2>2 DEF SessionCmd, HandlersTypeOK, StackType, Live, Callers,
                                  Session, InSession, Prompt
  <2>4. ASSUME ~unsettled' PROVE Shape'
    <3>1. Shape /\ Settling(cmd)
      BY <1>1, <1>9, <2>4 DEF SessionCmd
    <3>2. \/ loop' /\ stack'.head = "proto"
          \/ reinit' = reinit /\ UNCHANGED <<stack, eth, loop>>
      BY <1>1, <1>9, <3>1, SettlingRuns DEF SessionCmd
    <3> QED
      BY <1>9, <2>2, <3>1, <3>2 DEF SessionCmd, Shape, Callers, Session, InSession
  <2> QED
    BY <2>3, <2>4 DEF IInv
<1>10. CASE Service
  <2>1. stack.on["dnsd"] /\ (eth => Hooked(stack)) /\ pc = "service" /\ ~loop
    BY <1>1, <1>10 DEF Service, Live, InSession, Session
  <2>2. /\ Restore(stack) \in StackType
        /\ Restore(stack).on["dnsd"] /\ Hooked(Restore(stack))
        /\ stack.head = "dummy" => InOrder(Restore(stack))
    BY <1>1, <2>1, Restores
  <2>3. HandlersTypeOK' /\ Live'
    BY <1>1, <1>10, <2>1, <2>2 DEF Service, HandlersTypeOK, StackType, Live, Callers, Session,
                                   InSession, Prompt
  <2>4. ~unsettled' => Shape'
    BY <1>1, <1>10, <2>1, <2>2 DEF Service, Shape, Callers, Session, InSession
  <2> QED
    BY <2>3, <2>4 DEF IInv
<1>11. CASE NoTelnetCmd \/ Receive
  BY <1>1, <1>11 DEF NoTelnetCmd, Receive, IInv, HandlersTypeOK, Live, Shape, Callers, Session,
                     InSession, Prompt
<1>12. CASE LoopEnd
  <2>1. stack'.head = "dummy" /\ stack'.on = stack.on /\ stack' \in StackType
    BY <1>1, <1>2, <1>12, OpTypes DEF LoopEnd, Clear, Install, StackType
  <2>2. HandlersTypeOK' /\ Live'
    BY <1>1, <1>12, <2>1 DEF LoopEnd, HandlersTypeOK, StackType, Live, InSession, Session, Prompt
  <2>3. Shape'
    BY <1>1, <1>12, <2>1 DEF LoopEnd, Live, Shape, Base, InSession, Session, Prompt
  <2> QED
    BY <2>2, <2>3 DEF IInv
<1>13. CASE SessionEnd
  <2>1. stack' \in StackType
    <3> DEFINE d == Stop(stack, "dnsd")
    <3>1. d \in StackType
      BY <1>1, <1>2, OpTypes
    <3> HIDE DEF d
    <3>2. Stop(d, "dhcpd") \in StackType
      BY <1>2, <3>1, OpTypes
    <3> QED
      BY <1>13, <3>2 DEF SessionEnd, StopServers, d
  <2>2. ~unsettled => Base(stack')
    BY <1>1, <1>13, StopsToBase DEF SessionEnd, Shape, InSession, Session
  <2>3. HandlersTypeOK' /\ Live'
    BY <1>1, <1>13, <2>1 DEF SessionEnd, HandlersTypeOK, StackType, Live, Callers, Session,
                             InSession, Prompt
  <2>4. ~unsettled' => Shape'
    BY <1>1, <1>13, <2>2 DEF SessionEnd, HandlersTypeOK, Shape, Callers, Session, InSession
  <2> QED
    BY <2>3, <2>4 DEF IInv
<1>14. CASE Reset
  BY <1>1, <1>14 DEF Reset, IInv, HandlersTypeOK, Live, Shape, Unstacked, Base, Services, Handlers,
                     Null, Prompt, Callers, InSession, Session
<1>15. CASE UNCHANGED handlerVars
  BY <1>1, <1>15 DEF handlerVars, IInv, HandlersTypeOK, Live, Shape, InSession
<1> QED
  BY <1>3, <1>4, <1>5, <1>6, <1>7, <1>8, <1>9, <1>10, <1>11, <1>12, <1>13, <1>14, <1>15
     DEF HandlersNext, Boot, PollLoop

(* Outside of the exception the stack has one of the shapes. *)
LEMMA ShapeIsChain ==
  ASSUME IInv, ~unsettled
  PROVE  /\ stack \in StackType
         /\ Base(stack) \/ InOrder(stack) \/ Listening(stack) \/ stack.head = "proto"
<1>1. HandlersTypeOK /\ Shape /\ stack \in StackType
  BY DEF IInv, HandlersTypeOK, StackType
<1>2. CASE loop
  BY <1>1, <1>2 DEF Shape, InOrder
<1>3. CASE ~loop
  BY <1>1, <1>3 DEF HandlersTypeOK, Shape, Base, InSession
<1> QED
  BY <1>1, <1>2, <1>3

(* Outside of the exception a datagram is forwarded finitely often, in every *)
(* order of boots, commands, sessions and resets.                            *)
THEOREM NoCycles == HandlersSpec => []NoHandlerCycle
<1>1. IInv => NoHandlerCycle
  BY ShapeIsChain, ShapesAreChains DEF NoHandlerCycle
<1> QED
  BY <1>1, InitIInv, NextIInv, PTL DEF HandlersSpec

(* Nor is a handler of a stopped service left behind then, outside a session. *)
THEOREM NoneLeftBehind == HandlersSpec => []NoStoppedHandler
<1>1. IInv => NoStoppedHandler
  BY ShapeIsChain, ShapesAreChains DEF NoStoppedHandler
<1> QED
  BY <1>1, InitIInv, NextIInv, PTL DEF HandlersSpec

(* Every call of eth_rx() by the poll loop finds the running servers on the  *)
(* pointer and the interface up, whatever commands were run.                 *)
THEOREM NeverDeaf == HandlersSpec => []ServedAtRx
<1>1. IInv => ServedAtRx
  <2> SUFFICES ASSUME IInv, pc = "rx"
               PROVE  Served
    BY DEF ServedAtRx
  <2>1. Hooked(stack) /\ eth
    BY DEF IInv, Live, InSession, Session
  <2>2. CASE stack.head = "dnsd" /\ (stack.on["dhcpd"] => stack.prev["dnsd"] = "dhcpd")
    <3>1. "dnsd" \in Reached(stack)
      BY <2>2 DEF Reached, Called
    <3>2. stack.on["dhcpd"] => "dhcpd" \in Reached(stack)
      BY <2>2 DEF Reached, Called, Forwards, Services
    <3> QED
      BY <2>1, <3>1, <3>2 DEF Served
  <2>3. CASE stack.head = "dhcpd" /\ stack.prev["dhcpd"] = "dnsd"
    <3>1. {"dhcpd", "dnsd"} \subseteq Reached(stack)
      BY <2>3 DEF Reached, Called, Forwards, Services
    <3> QED
      BY <2>1, <3>1 DEF Served
  <2> QED
    BY <2>1, <2>2, <2>3 DEF Hooked
<1> QED
  BY <1>1, InitIInv, NextIInv, PTL DEF HandlersSpec

(* The stack, the flags and the place in the program keep their types.       *)
THEOREM UdpTypeCorrect == HandlersSpec => []HandlersTypeOK
BY InitIInv, NextIInv, PTL DEF HandlersSpec, IInv

----------------------------------------------------------------------------
(* The DHCP server                                                         *)

(* Every non-empty set of naturals has a least element. *)
LEMMA LeastElement ==
  ASSUME NEW S \in SUBSET Nat, S # {}
  PROVE  \E x \in S : \A y \in S : x <= y
<1>1. \E x \in S : \A y \in S : ~(<<y, x>> \in OpToRel(<, Nat))
  BY NatLessThanWellFounded, WFMin, Zenon
<1>2. PICK x \in S : \A y \in S : ~(<<y, x>> \in OpToRel(<, Nat))
  BY <1>1
<1>3. \A y \in S : ~(y < x)
  BY <1>2 DEF OpToRel
<1> QED
  BY <1>3

(* Min of a non-empty set of naturals is a member of it. *)
LEMMA MinMember ==
  ASSUME NEW S \in SUBSET Nat, S # {}
  PROVE  Min(S) \in S
BY LeastElement, Zenon DEF Min

(* Probing an interval of n addresses from any offset visits every one of them. *)
LEMMA ProbeCoversPool ==
  ASSUME NEW n \in Nat \ {0}, NEW o \in 0 .. n - 1, NEW k \in 0 .. n - 1
  PROVE  \E i \in 0 .. n - 1 : (o + i) % n = k
<1>1. CASE k >= o
  <2>1. (o + (k - o)) % n = k
    OBVIOUS
  <2>2. k - o \in 0 .. n - 1
    BY <1>1
  <2> QED BY <2>1, <2>2
<1>2. CASE k < o
  <2>1. (k + n) % n = k
    OBVIOUS
  <2>2. o + (k - o + n) = k + n /\ k - o + n \in 0 .. n - 1
    BY <1>2
  <2> QED BY <2>1, <2>2
<1> QED BY <1>1, <1>2

----------------------------------------------------------------------------
(* The pool                                                                *)

(* Both ends of the pool lie in the server's subnet, for every setting of the *)
(* environment: the first address is never below the network address, and an  *)
(* end outside of the subnet is clamped to its last address.                  *)
LEMMA PoolInSubnet ==
  ASSUME NEW env \in PoolEnvs
  PROVE  /\ PoolStart(env) \in Subnet
         /\ PoolEnd(env) \in Subnet
         /\ Subnet \subseteq Addr
<1>1. env.start \in Addr /\ env.size \in Addr
  BY PoolEnvsAssumption
<1>2. env.start % (HostMask + 1) \in 0 .. HostMask
  BY <1>1, SubnetAssumption DEF Addr
<1>3. PoolStart(env) \in Subnet
  BY <1>2, SubnetAssumption DEF PoolStart, Subnet
<1>4. PoolEnd(env) \in Subnet
  BY SubnetAssumption DEF PoolEnd, Subnet
<1>5. Subnet \subseteq Addr
  BY SubnetAssumption DEF Subnet, Addr
<1> QED
  BY <1>3, <1>4, <1>5

(* A pool is an interval: its size, and how its addresses are numbered. *)
LEMMA PoolSize ==
  ASSUME NEW env \in PoolEnvs
  PROVE  /\ IsFiniteSet(PoolOf(env))
         /\ Cardinality(PoolOf(env)) \in Nat
         /\ PoolOf(env) # {} =>
              /\ Cardinality(PoolOf(env)) = PoolEnd(env) - PoolStart(env) + 1
              /\ PoolStart(env) \in PoolOf(env)
         /\ PoolOf(env) \subseteq Addr
<1>1. PoolStart(env) \in Nat /\ PoolEnd(env) \in Nat
  BY PoolInSubnet DEF Addr
<1>2. /\ IsFiniteSet(PoolOf(env))
      /\ Cardinality(PoolOf(env)) =
           IF PoolStart(env) > PoolEnd(env) THEN 0
           ELSE PoolEnd(env) - PoolStart(env) + 1
  <2> DEFINE s == PoolStart(env)
             e == PoolEnd(env)
  <2>1. s \in Int /\ e \in Int
    BY <1>1
  <2> HIDE DEF s, e
  <2>2. IsFiniteSet(s .. e) /\ Cardinality(s .. e) = IF s > e THEN 0 ELSE e - s + 1
    BY <2>1, FS_Interval, Zenon
  <2> QED
    BY <2>2 DEF PoolOf, s, e
<1>3. PoolOf(env) \subseteq Addr
  <2>1. PoolStart(env) \in Addr /\ PoolEnd(env) \in Addr
    BY PoolInSubnet
  <2> QED
    BY <2>1, SubnetAssumption DEF PoolOf, Addr
<1> QED
  BY <1>1, <1>2, <1>3 DEF PoolOf

(* A pool with more addresses than the table has entries holds a free one. *)
LEMMA RoomyPoolHasFree ==
  ASSUME TypeOK, NEW env \in PoolEnvs,
         Cardinality(PoolOf(env)) > MaxClients
  PROVE  \E x \in PoolOf(env) : ~Allocated(x)
<1> SUFFICES ASSUME \A x \in PoolOf(env) : Allocated(x)
             PROVE  FALSE
  OBVIOUS
<1> DEFINE f == [x \in PoolOf(env) |-> CHOOSE i \in Slots : Used(i) /\ leaseIp[i] = x]
<1>1. \A x \in PoolOf(env) : f[x] \in Slots /\ leaseIp[f[x]] = x
  BY Zenon DEF Allocated
<1>2. f \in [PoolOf(env) -> Slots]
  BY <1>1
<1>3. IsFiniteSet(Slots) /\ Cardinality(Slots) = MaxClients
  BY FS_Interval, MaxClientsAssumption DEF Slots
<1>4. IsFiniteSet(PoolOf(env)) /\ Cardinality(Slots) < Cardinality(PoolOf(env))
  BY <1>3, PoolSize, MaxClientsAssumption
<1> HIDE DEF f
<1>5. \E x, y \in PoolOf(env) : x # y /\ f[x] = f[y]
  BY <1>2, <1>3, <1>4, FS_PigeonHole
<1> QED
  BY <1>1, <1>5

----------------------------------------------------------------------------
(* Address allocation                                                      *)

(* What dhcpd_alloc_ip returns: the client's own address, a free address of *)
(* the pool, or - only when the table can hold the whole pool - its first   *)
(* address.                                                                 *)
OwnAddress(m, a)  == HasLease(m) /\ a = leaseIp[FindLease(m)]
FreeAddress(a)    == a \in Pool /\ ~Allocated(a)
Fallback(m, a)    == /\ a = PoolStart(poolEnv)
                     /\ Cardinality(Pool) <= MaxClients
                     /\ \A x \in Pool : Allocated(x)
                     /\ ~(HasLease(m) /\ leaseIp[FindLease(m)] \in Pool)

LEMMA AllocCases ==
  ASSUME TypeOK, NEW m \in Macs
  PROVE  /\ AllocIp(m) \in Addr
         /\ \/ OwnAddress(m, AllocIp(m)) /\ AllocIp(m) \in Pool
            \/ FreeAddress(AllocIp(m))
            \/ Fallback(m, AllocIp(m))
         /\ Pool # {} => AllocIp(m) \in Pool
<1>0. poolEnv \in PoolEnvs
  BY DEF TypeOK
<1> DEFINE n       == Cardinality(Pool)
           Cand(i) == PoolStart(poolEnv) + (((MacHash[m] % n) + i) % n)
           free    == { i \in 0 .. n - 1 : ~Allocated(Cand(i)) }
<1>1. n \in Nat /\ PoolStart(poolEnv) \in Nat /\ PoolStart(poolEnv) \in Addr
  BY <1>0, PoolSize, PoolInSubnet DEF Pool, Addr
<1>2. /\ Pool \subseteq Addr
      /\ Pool # {} => PoolStart(poolEnv) \in Pool
  BY <1>0, PoolSize DEF Pool
<1>3. CASE HasLease(m) /\ leaseIp[FindLease(m)] \in Pool
  BY <1>3, <1>2, Zenon DEF AllocIp, OwnAddress
<1>4. CASE ~(HasLease(m) /\ leaseIp[FindLease(m)] \in Pool) /\ free # {}
  <2>1. AllocIp(m) = Cand(Min(free))
    BY <1>4, Zenon DEF AllocIp
  <2>2. Min(free) \in free
    <3>1. free \in SUBSET Nat
      BY <1>1
    <3> HIDE DEF free
    <3> QED BY <3>1, <1>4, MinMember
  <2>3. PICK i \in 0 .. n - 1 : Min(free) = i /\ ~Allocated(Cand(i))
    BY <2>2
  <2>4. Cand(i) \in Pool
    <3>1. MacHash[m] \in Nat /\ n > 0
      BY <1>1, MacHashAssumption
    <3>2. MacHash[m] % n \in 0 .. n - 1
      BY <3>1, <1>1
    <3>3. ((MacHash[m] % n) + i) % n \in 0 .. n - 1
      BY <3>1, <3>2, <1>1
    <3>4. Pool # {} /\ n = PoolEnd(poolEnv) - PoolStart(poolEnv) + 1
      BY <3>1, <1>0, PoolSize, FS_EmptySet DEF Pool
    <3>5. PoolEnd(poolEnv) \in Nat
      BY <1>0, PoolInSubnet DEF Addr
    <3> HIDE DEF n
    <3> QED BY <3>3, <3>4, <3>5, <1>1 DEF Pool, PoolOf
  <2> QED
    BY <2>1, <2>3, <2>4, <1>2 DEF FreeAddress
<1>5. CASE ~(HasLease(m) /\ leaseIp[FindLease(m)] \in Pool) /\ free = {}
  <2>1. AllocIp(m) = PoolStart(poolEnv)
    BY <1>5, Zenon DEF AllocIp
  <2>2. \A x \in Pool : Allocated(x)
    <3> SUFFICES ASSUME NEW x \in Pool
                 PROVE  Allocated(x)
      OBVIOUS
    <3>1. /\ PoolEnd(poolEnv) \in Nat
          /\ n = PoolEnd(poolEnv) - PoolStart(poolEnv) + 1
      BY <1>0, PoolSize, PoolInSubnet DEF Pool, Addr
    <3>2. x - PoolStart(poolEnv) \in 0 .. n - 1 /\ n \in Nat \ {0}
      BY <3>1, <1>1 DEF Pool, PoolOf
    <3>3. MacHash[m] % n \in 0 .. n - 1
      BY <3>2, MacHashAssumption
    <3> HIDE DEF n
    <3>4. \E i \in 0 .. n - 1 :
            ((MacHash[m] % n) + i) % n = x - PoolStart(poolEnv)
      BY <3>2, <3>3, ProbeCoversPool
    <3>5. PICK i \in 0 .. n - 1 : Cand(i) = x
      BY <3>4, <3>2, <1>1 DEF Pool, PoolOf
    <3> QED BY <3>5, <1>5
  <2>3. n <= MaxClients
    BY <2>2, <1>0, <1>1, RoomyPoolHasFree, MaxClientsAssumption DEF Pool
  <2> QED
    BY <1>5, <2>1, <2>2, <2>3, <1>1, <1>2 DEF Fallback
<1> QED
  BY <1>3, <1>4, <1>5

----------------------------------------------------------------------------
(* The inductive invariant.  The four parts lean on one another: writing an *)
(* address is harmless because the client has one entry only, and that it   *)
(* was free or the client's own is known from AllocCases or from ~Refused.  *)
Inv ==
  /\ TypeOK
  /\ OneLeasePerMac
  /\ SharedOnlyByExhaustion
  /\ AckRecorded

(* Which addresses may be recorded for a client without creating an *)
(* unexplained duplicate.                                           *)
Safe(m, a) ==
  \/ OwnAddress(m, a)
  \/ ~Allocated(a)
  \/ \E env \in PoolEnvs :
       a = PoolStart(env) /\ Cardinality(PoolOf(env)) <= MaxClients

LEMMA FindLeaseIsLease ==
  ASSUME OneLeasePerMac, TypeOK, NEW m \in Macs, HasLease(m)
  PROVE  /\ FindLease(m) \in Slots
         /\ leaseMac[FindLease(m)] = m
         /\ \A i \in Slots : leaseMac[i] = m => i = FindLease(m)
<1>1. PICK i \in Slots : leaseMac[i] = m
  BY DEF HasLease
<1>2. \A j \in Slots : leaseMac[j] = m => i = j
  BY <1>1, NoMacAssumption DEF OneLeasePerMac, Used
<1>3. \A j \in Slots : leaseMac[j] = m => i <= j
  BY <1>2 DEF Slots
<1>4. \E k \in Slots : leaseMac[k] = m /\ \A j \in Slots : leaseMac[j] = m => k <= j
  BY <1>1, <1>3
<1>5. FindLease(m) \in Slots /\ leaseMac[FindLease(m)] = m
  BY <1>4, Zenon DEF FindLease
<1> QED
  BY <1>2, <1>5

LEMMA LeaseSlotType ==
  ASSUME OneLeasePerMac, TypeOK, NEW m \in Macs
  PROVE  /\ LeaseSlot(m) \in Slots
         /\ \A i \in Slots : leaseMac[i] = m => i = LeaseSlot(m)
<1>1. CASE HasLease(m)
  BY <1>1, FindLeaseIsLease DEF LeaseSlot
<1>2. CASE ~HasLease(m) /\ \E i \in Slots : ~Used(i)
  <2> DEFINE S == { i \in Slots : ~Used(i) }
  <2>1. S \in SUBSET Nat /\ S # {}
    BY <1>2 DEF Slots
  <2>2. PICK x \in S : \A y \in S : x <= y
    BY <2>1, LeastElement
  <2>3. x \in Slots /\ ~Used(x) /\ \A j \in Slots : j < x => Used(j)
    BY <2>2 DEF Slots
  <2>4. LeaseSlot(m) = CHOOSE i \in Slots : ~Used(i) /\ \A j \in Slots : j < i => Used(j)
    BY <1>2, Zenon DEF LeaseSlot
  <2>5. LeaseSlot(m) \in Slots
    BY <2>3, <2>4, Zenon
  <2> QED
    BY <2>5, <1>2 DEF HasLease
<1>3. CASE ~HasLease(m) /\ \A i \in Slots : Used(i)
  <2>1. LeaseSlot(m) = 1
    BY <1>3, Zenon DEF LeaseSlot
  <2>2. 1 \in Slots
    BY MaxClientsAssumption DEF Slots
  <2> QED
    BY <2>1, <2>2, <1>3 DEF HasLease
<1> QED
  BY <1>1, <1>2, <1>3

(* dhcpd_process_lease keeps the table well formed when the address is safe. *)
LEMMA ProcessLeaseKeeps ==
  ASSUME TypeOK, OneLeasePerMac, SharedOnlyByExhaustion,
         NEW m \in Macs, NEW a \in Addr, Safe(m, a), ProcessLease(m, a)
  PROVE  /\ leaseMac' \in [Slots -> Macs \cup {NoMac}]
         /\ leaseIp' \in [Slots -> Addr]
         /\ OneLeasePerMac'
         /\ SharedOnlyByExhaustion'
         /\ \E i \in Slots : leaseMac'[i] = m /\ leaseIp'[i] = a
<1> DEFINE k == LeaseSlot(m)
<1>1. k \in Slots /\ \A i \in Slots : leaseMac[i] = m => i = k
  BY LeaseSlotType
<1>2. /\ leaseMac' = [leaseMac EXCEPT ![k] = m]
      /\ leaseIp'  = [leaseIp EXCEPT ![k] = a]
  BY DEF ProcessLease
<1>3. /\ leaseMac \in [Slots -> Macs \cup {NoMac}]
      /\ leaseIp \in [Slots -> Addr]
  BY DEF TypeOK
<1> HIDE DEF k
<1>4. /\ leaseMac'[k] = m /\ leaseIp'[k] = a
      /\ \A i \in Slots : i # k => leaseMac'[i] = leaseMac[i] /\ leaseIp'[i] = leaseIp[i]
  BY <1>1, <1>2, <1>3
<1>5. /\ leaseMac' \in [Slots -> Macs \cup {NoMac}]
      /\ leaseIp' \in [Slots -> Addr]
  BY <1>1, <1>2, <1>3
<1>6. OneLeasePerMac'
  BY <1>1, <1>4 DEF OneLeasePerMac, Used
<1>7. SharedOnlyByExhaustion'
  <2> DEFINE Exhausted(x) == \E env \in PoolEnvs :
               x = PoolStart(env) /\ Cardinality(PoolOf(env)) <= MaxClients
  <2>1. \A j \in Slots : (j # k /\ Used(j) /\ leaseIp[j] = a) => Exhausted(a)
    <3> SUFFICES ASSUME NEW j \in Slots, j # k, Used(j), leaseIp[j] = a
                 PROVE  Exhausted(a)
      OBVIOUS
    <3>1. Allocated(a)
      BY DEF Allocated
    <3>2. CASE OwnAddress(m, a)
      <4>1. FindLease(m) \in Slots /\ leaseMac[FindLease(m)] = m
        BY <3>2, FindLeaseIsLease DEF OwnAddress
      <4>2. FindLease(m) = k /\ leaseIp[k] = a /\ Used(k)
        BY <4>1, <1>1, <3>2, NoMacAssumption DEF OwnAddress, Used
      <4> QED
        BY <4>2, <1>1 DEF SharedOnlyByExhaustion
    <3> QED
      BY <3>1, <3>2 DEF Safe
  <2>2. \A i, j \in Slots :
          (i # k /\ j # k /\ Used(i) /\ Used(j) /\ i # j /\ leaseIp[i] = leaseIp[j]) =>
            Exhausted(leaseIp[i])
    BY DEF SharedOnlyByExhaustion
  <2> HIDE DEF Exhausted
  <2> SUFFICES ASSUME NEW i \in Slots, NEW j \in Slots,
                      leaseMac'[i] # NoMac, leaseMac'[j] # NoMac, i # j,
                      leaseIp'[i] = leaseIp'[j]
               PROVE  Exhausted(leaseIp'[i])
    BY Zenon DEF SharedOnlyByExhaustion, Used, Exhausted
  <2> QED
    BY <1>4, <2>1, <2>2 DEF Used
<1> QED
  BY <1>1, <1>4, <1>5, <1>6, <1>7

(* The address picked by dhcpd_alloc_ip is safe to record. *)
LEMMA AllocIsSafe ==
  ASSUME TypeOK, NEW m \in Macs
  PROVE  Safe(m, AllocIp(m))
BY AllocCases DEF Safe, FreeAddress, Fallback, TypeOK, Pool

(* So is an address that the REQUEST branch does not refuse. *)
LEMMA AcceptedIsSafe ==
  ASSUME TypeOK, OneLeasePerMac, NEW m \in Macs, NEW a \in ReqAddrs, ~Refused(m, a)
  PROVE  Safe(m, a) /\ a \in Addr /\ a \in Pool
<1>1. a \in Pool /\ a \in Addr /\ (~Allocated(a) \/ AllocatedTo(a, m))
  BY ReqAddrsAssumption DEF Refused
<1>2. ASSUME AllocatedTo(a, m) PROVE OwnAddress(m, a)
  <2>1. PICK i \in Slots : leaseMac[i] = m /\ leaseIp[i] = a
    BY <1>2 DEF AllocatedTo
  <2>2. HasLease(m)
    BY <2>1 DEF HasLease
  <2> QED
    BY <2>1, <2>2, FindLeaseIsLease DEF OwnAddress
<1> QED
  BY <1>1, <1>2 DEF Safe

(* The inductive invariant holds of the zeroed table. *)
LEMMA InitInv == Init => Inv
<1> SUFFICES ASSUME Init PROVE Inv
  OBVIOUS
<1>1. TypeOK
  <2>1. 0 \in Addr
    BY SubnetAssumption DEF Addr
  <2> QED BY <2>1 DEF Init, TypeOK, NoReply
<1> QED
  BY <1>1 DEF Init, Inv, OneLeasePerMac, SharedOnlyByExhaustion, AckRecorded,
              Used, NoReply

(* Every message, command and change of the pool preserves the invariant. *)
LEMMA NextInv == Inv /\ [Next]_vars => Inv'
<1> SUFFICES ASSUME Inv, [Next]_vars PROVE Inv'
  OBVIOUS
<1> USE DEF Inv
<1>1. ASSUME NEW m \in Macs, Discover(m) PROVE Inv'
  <2>1. reply' = Reply("offer", m, AllocIp(m)) /\ AllocIp(m) \in Addr
    BY <1>1, AllocCases DEF Discover
  <2> QED
    BY <1>1, <2>1 DEF Discover, TypeOK, OneLeasePerMac, SharedOnlyByExhaustion,
                      AckRecorded, Used, Reply
<1>2. ASSUME NEW m \in Macs, RequestOther(m) \/ Ignored(m) PROVE Inv'
  BY <1>2 DEF RequestOther, Ignored, TypeOK, OneLeasePerMac, SharedOnlyByExhaustion,
              AckRecorded, Used, NoReply
<1>3. ASSUME NEW m \in Macs, RequestAny(m) PROVE Inv'
  <2>1. /\ ProcessLease(m, AllocIp(m))
        /\ reply' = Reply("ack", m, AllocIp(m))
        /\ UNCHANGED <<running, poolEnv>>
    BY <1>3 DEF RequestAny
  <2>2. /\ AllocIp(m) \in Addr
        /\ Pool # {} => AllocIp(m) \in Pool
        /\ Safe(m, AllocIp(m))
    BY AllocCases, AllocIsSafe
  <2>3. /\ leaseMac' \in [Slots -> Macs \cup {NoMac}]
        /\ leaseIp' \in [Slots -> Addr]
        /\ OneLeasePerMac'
        /\ SharedOnlyByExhaustion'
        /\ \E i \in Slots : leaseMac'[i] = m /\ leaseIp'[i] = AllocIp(m)
    BY <2>1, <2>2, ProcessLeaseKeeps
  <2>4. TypeOK'
    BY <2>1, <2>2, <2>3 DEF TypeOK, Reply
  <2>5. Pool' = Pool
    BY <2>1 DEF Pool
  <2>6. AckRecorded'
    BY <2>1, <2>2, <2>3, <2>5 DEF AckRecorded, Reply
  <2> QED
    BY <2>3, <2>4, <2>6
<1>4. ASSUME NEW m \in Macs, NEW a \in ReqAddrs, RequestAddr(m, a) PROVE Inv'
  <2>1. CASE Refused(m, a)
    BY <1>4, <2>1 DEF RequestAddr, TypeOK, OneLeasePerMac, SharedOnlyByExhaustion,
                      AckRecorded, Used, Reply
  <2>2. CASE ~Refused(m, a)
    <3>1. /\ ProcessLease(m, a)
          /\ reply' = Reply("ack", m, a)
          /\ UNCHANGED <<running, poolEnv>>
      BY <1>4, <2>2 DEF RequestAddr
    <3>2. Safe(m, a) /\ a \in Addr /\ a \in Pool
      BY <2>2, AcceptedIsSafe
    <3>3. /\ leaseMac' \in [Slots -> Macs \cup {NoMac}]
          /\ leaseIp' \in [Slots -> Addr]
          /\ OneLeasePerMac'
          /\ SharedOnlyByExhaustion'
          /\ \E i \in Slots : leaseMac'[i] = m /\ leaseIp'[i] = a
      BY <3>1, <3>2, ProcessLeaseKeeps
    <3>4. TypeOK'
      BY <3>1, <3>2, <3>3 DEF TypeOK, Reply
    <3>5. Pool' = Pool
      BY <3>1 DEF Pool
    <3>6. AckRecorded'
      BY <3>1, <3>2, <3>3, <3>5 DEF AckRecorded, Reply
    <3> QED
      BY <3>3, <3>4, <3>6
  <2> QED
    BY <2>1, <2>2
<1>5. CASE DhcpdStart
  <2>1. 0 \in Addr
    BY SubnetAssumption DEF Addr
  <2>2. CASE running
    BY <1>5, <2>2 DEF DhcpdStart, TypeOK, OneLeasePerMac, SharedOnlyByExhaustion,
                      AckRecorded, Used, NoReply
  <2>3. CASE ~running
    BY <1>5, <2>1, <2>3 DEF DhcpdStart, TypeOK, OneLeasePerMac, SharedOnlyByExhaustion,
                            AckRecorded, Used, NoReply
  <2> QED
    BY <2>2, <2>3
<1>6. CASE DhcpdStop
  BY <1>6 DEF DhcpdStop, TypeOK, OneLeasePerMac, SharedOnlyByExhaustion, AckRecorded,
              Used, NoReply
<1>7. ASSUME NEW env \in PoolEnvs, SetPool(env) PROVE Inv'
  BY <1>7 DEF SetPool, TypeOK, OneLeasePerMac, SharedOnlyByExhaustion, AckRecorded,
              Used, NoReply
<1>8. CASE UNCHANGED vars
  BY <1>8 DEF vars, TypeOK, OneLeasePerMac, SharedOnlyByExhaustion, AckRecorded,
              Used, Pool
<1> QED
  BY <1>1, <1>2, <1>3, <1>4, <1>5, <1>6, <1>7, <1>8 DEF Next, HandlePacket

(* The table, the settings and the replies keep their types: in particular   *)
(* every address recorded or sent is a u32, whatever the pool settings, wrap *)
(* included.                                                                 *)
THEOREM TypeCorrect == Spec => []TypeOK
BY InitInv, NextInv, PTL DEF Spec, Inv

(* dhcpd_process_lease never gives a client a second entry. *)
THEOREM LeasesUnique == Spec => []OneLeasePerMac
BY InitInv, NextInv, PTL DEF Spec, Inv

(* The only way to a shared address is the "no free slot" fallback, so with  *)
(* pools larger than the lease table addresses are never shared in it.       *)
THEOREM SharingExplained == Spec => []SharedOnlyByExhaustion
BY InitInv, NextInv, PTL DEF Spec, Inv

(* Every ACK is backed by an entry and, unless the pool is empty, by the pool. *)
THEOREM AcksRecorded == Spec => []AckRecorded
BY InitInv, NextInv, PTL DEF Spec, Inv

----------------------------------------------------------------------------
(* The pool lies in the subnet, whatever the settings. *)
LEMMA PoolWithin ==
  ASSUME TypeOK, NEW x \in Pool
  PROVE  x \in Subnet
<1> DEFINE s == PoolStart(poolEnv)
           e == PoolEnd(poolEnv)
<1>1. s \in Subnet /\ e \in Subnet
  BY PoolInSubnet DEF TypeOK
<1>2. x \in s .. e
  BY DEF Pool, PoolOf
<1> HIDE DEF s, e
<1> QED
  BY <1>1, <1>2, SubnetAssumption DEF Subnet

(* An offer is acceptable when it is made, and stays so until the next reply: *)
(* the only step that leaves an offer behind is the one that made it.         *)
LEMMA DiscoverAcceptable ==
  ASSUME Inv, NEW m \in Macs, Discover(m)
  PROVE  OfferIsAcceptable'
<1>1. /\ reply' = Reply("offer", m, AllocIp(m))
      /\ UNCHANGED <<leaseMac, leaseIp, running, poolEnv>>
  BY DEF Discover
<1> DEFINE a == AllocIp(m)
<1> SUFFICES ASSUME NoAddressShared,
                    \E x \in Pool : ~Allocated(x) \/ AllocatedTo(x, m)
             PROVE  ~Refused(m, a)
  <2>1. reply'.mac = m /\ reply'.ip = a
    BY <1>1 DEF Reply
  <2> QED
    BY <1>1, <2>1 DEF OfferIsAcceptable, NoAddressShared, Used, Allocated, AllocatedTo,
                      Refused, Pool
<1>1a. TypeOK /\ OneLeasePerMac
  BY DEF Inv
<1>2. CASE OwnAddress(m, a) /\ a \in Pool
  <2> DEFINE f == FindLease(m)
  <2>1. f \in Slots /\ leaseMac[f] = m /\ leaseIp[f] = a
    BY <1>1a, <1>2, FindLeaseIsLease DEF OwnAddress
  <2> HIDE DEF f
  <2>2. \A j \in Slots : Used(j) /\ leaseIp[j] = a => j = f
    BY <2>1, NoMacAssumption DEF NoAddressShared, Used
  <2>3. AllocatedTo(a, m)
    BY <2>1, <2>2 DEF AllocatedTo, Slots
  <2> QED
    BY <2>3, <1>2, <1>1a, PoolWithin DEF Refused
<1>3. CASE FreeAddress(a)
  BY <1>3, <1>1a, PoolWithin DEF FreeAddress, Refused
<1>4. CASE Fallback(m, a)
  <2>1. PICK x \in Pool : AllocatedTo(x, m)
    BY <1>4 DEF Fallback
  <2>2. PICK i \in Slots : leaseMac[i] = m /\ leaseIp[i] = x
    BY <2>1 DEF AllocatedTo
  <2>3. HasLease(m) /\ leaseIp[FindLease(m)] = x
    BY <2>2, <1>1a, FindLeaseIsLease DEF HasLease
  <2> QED
    BY <2>3, <1>4 DEF Fallback
<1> QED
  BY <1>2, <1>3, <1>4, <1>1a, AllocCases

(* The three tests of the REQUEST branch accept what dhcpd_alloc_ip has just  *)
(* offered, whatever pool, hash and table led to it.                          *)
THEOREM OffersAcceptable == Spec => []OfferIsAcceptable
<1>1. Init => OfferIsAcceptable
  BY DEF Init, OfferIsAcceptable, NoReply
<1>2. Inv /\ OfferIsAcceptable /\ [Next]_vars => OfferIsAcceptable'
  <2> SUFFICES ASSUME Inv, OfferIsAcceptable, [Next]_vars
               PROVE  OfferIsAcceptable'
    OBVIOUS
  <2>1. CASE \E m \in Macs : Discover(m)
    BY <2>1, DiscoverAcceptable
  <2>2. CASE UNCHANGED vars
    BY <2>2 DEF vars, OfferIsAcceptable, NoAddressShared, Used, Allocated, AllocatedTo,
                Refused, Pool
  <2>3. ASSUME reply'.type # "offer" PROVE OfferIsAcceptable'
    BY <2>3 DEF OfferIsAcceptable
  <2>4. ASSUME NEW m \in Macs, RequestOther(m) \/ RequestAny(m) \/ Ignored(m)
        PROVE  reply'.type # "offer"
    BY <2>4 DEF RequestOther, RequestAny, Ignored, NoReply, Reply
  <2>5. ASSUME NEW m \in Macs, NEW a \in ReqAddrs, RequestAddr(m, a)
        PROVE  reply'.type # "offer"
    BY <2>5 DEF RequestAddr, Reply
  <2>6. ASSUME DhcpdStart \/ DhcpdStop \/ \E env \in PoolEnvs : SetPool(env)
        PROVE  reply'.type # "offer"
    BY <2>6 DEF DhcpdStart, DhcpdStop, SetPool, NoReply
  <2> QED
    BY <2>1, <2>2, <2>3, <2>4, <2>5, <2>6 DEF Next, HandlePacket
<1> QED
  BY <1>1, <1>2, InitInv, NextInv, PTL DEF Spec

(* Recording a lease displaces another client only from the first entry of a *)
(* full table.                                                               *)
LEMMA ProcessLeaseDisplaces ==
  ASSUME TypeOK, OneLeasePerMac, NEW m \in Macs, NEW a, ProcessLease(m, a),
         NEW i \in Slots, Used(i), leaseMac'[i] # leaseMac[i]
  PROVE  i = 1 /\ \A j \in Slots : Used(j)
<1>1. LeaseSlot(m) \in Slots
  BY LeaseSlotType
<1>2. i = LeaseSlot(m)
  BY <1>1 DEF ProcessLease, TypeOK
<1>3. ~HasLease(m)
  <2> SUFFICES ASSUME HasLease(m) PROVE FALSE
    OBVIOUS
  <2>1. LeaseSlot(m) = FindLease(m) /\ leaseMac[FindLease(m)] = m
    BY FindLeaseIsLease DEF LeaseSlot
  <2> QED
    BY <2>1, <1>1, <1>2 DEF ProcessLease, TypeOK
<1>4. ASSUME NEW j \in Slots, ~Used(j) PROVE FALSE
  <2> DEFINE S == { x \in Slots : ~Used(x) }
  <2>1. S \in SUBSET Nat /\ S # {}
    BY <1>4 DEF Slots
  <2>2. PICK x \in S : \A y \in S : x <= y
    BY <2>1, LeastElement
  <2>3. x \in Slots /\ ~Used(x) /\ \A y \in Slots : y < x => Used(y)
    BY <2>2 DEF Slots
  <2>4. LeaseSlot(m) = CHOOSE y \in Slots : ~Used(y) /\ \A z \in Slots : z < y => Used(z)
    BY <1>3, <1>4, Zenon DEF LeaseSlot
  <2>5. ~Used(LeaseSlot(m))
    BY <2>3, <2>4, Zenon
  <2> QED
    BY <2>5, <1>2
<1>5. LeaseSlot(m) = 1
  BY <1>3, <1>4, Zenon DEF LeaseSlot
<1> QED
  BY <1>2, <1>4, <1>5

(* A client's entry survives whatever the others do, up to the eviction of the *)
(* first entry of a full table and a restart of the server.                    *)
THEOREM LeasesAreKept == Spec => LeasesKept
<1> DEFINE Kept == \A i \in Slots :
             (Used(i) /\ leaseMac'[i] # leaseMac[i]) =>
               \/ ~running /\ running'
               \/ i = 1 /\ \A j \in Slots : Used(j)
<1>1. Inv /\ [Next]_vars => [Kept]_vars
  <2> SUFFICES ASSUME Inv, Next PROVE Kept
    OBVIOUS
  <2>1. ASSUME NEW m \in Macs, NEW a, ProcessLease(m, a) PROVE Kept
    BY <2>1, ProcessLeaseDisplaces DEF Inv
  <2>2. ASSUME UNCHANGED leaseMac PROVE Kept
    BY <2>2
  <2>3. CASE \E m \in Macs : Discover(m) \/ RequestOther(m) \/ Ignored(m)
    BY <2>2, <2>3 DEF Discover, RequestOther, Ignored
  <2>4. CASE \E m \in Macs : RequestAny(m)
    BY <2>1, <2>4 DEF RequestAny
  <2>5. CASE \E m \in Macs : \E a \in ReqAddrs : RequestAddr(m, a)
    BY <2>1, <2>2, <2>5 DEF RequestAddr
  <2>6. CASE DhcpdStart
    BY <2>6 DEF DhcpdStart
  <2>7. CASE DhcpdStop \/ \E env \in PoolEnvs : SetPool(env)
    BY <2>2, <2>7 DEF DhcpdStop, SetPool
  <2> HIDE DEF Kept
  <2> QED
    BY <2>3, <2>4, <2>5, <2>6, <2>7 DEF Next, HandlePacket
<1> QED
  BY <1>1, InitInv, NextInv, PTL DEF Spec, LeasesKept

=============================================================================
