------------------------------- MODULE Dhcpd -------------------------------
(***************************************************************************)
(* The DHCP server of the failsafe environment, net/mtk_dhcpd.c: the lease *)
(* table leases[DHCPD_MAX_CLIENTS], the address pool computed from the     *)
(* server's address, the netmask and the dhcpd_pool_start/dhcpd_pool_size  *)
(* environment variables, and one action per message type handled.         *)
(*                                                                         *)
(* A lease entry is split into leaseMac and leaseIp; leaseMac[i] = NoMac   *)
(* is the code's !leases[i].used (an entry that was used once stays used   *)
(* until the table is zeroed by mtk_dhcpd_start).  The packet parsers are  *)
(* abstracted: a request arrives as the fields the handler looks at.       *)
(***************************************************************************)
EXTENDS Integers, FiniteSets, FiniteSetsExt

CONSTANTS
  Macs,        \* hardware addresses of the clients
  NoMac,       \* an unused lease entry
  MaxClients,  \* DHCPD_MAX_CLIENTS
  MacHash,     \* dhcpd_mac_hash: an arbitrary function of the address
  AddrSpace,   \* 2^32: addresses are u32 and wrap around
  Net,         \* the server's subnet, ip & mask
  HostMask,    \* ~mask: the subnet is Net .. Net + HostMask
  PoolEnvs,    \* values of (dhcpd_pool_start, dhcpd_pool_size) in the environment
  ReqAddrs     \* addresses a client may ask for, inside the subnet or not

Addr   == 0 .. AddrSpace - 1
Subnet == Net .. Net + HostMask
Slots  == 1 .. MaxClients
NoAddr == -1          \* zero_ip: a NAK assigns no address; also "no option 50"

ASSUME NoMacAssumption == NoMac \notin Macs
ASSUME MaxClientsAssumption == MaxClients \in Nat \ {0}
ASSUME MacHashAssumption == MacHash \in [Macs -> Nat]
ASSUME SubnetAssumption ==
  /\ Net \in Nat
  /\ HostMask \in Nat \ {0}
  /\ AddrSpace \in Nat
  /\ Net + HostMask < AddrSpace
ASSUME PoolEnvsAssumption == PoolEnvs \subseteq [start : Addr, size : Addr]
ASSUME ReqAddrsAssumption == ReqAddrs \subseteq Addr

VARIABLES
  leaseMac,  \* leases[].used and leases[].mac
  leaseIp,   \* leases[].ip
  running,   \* dhcpd_running
  poolEnv,   \* the pool variables of the environment, read on every packet
  reply      \* what dhcpd_send_reply sent in the last step, if anything

vars == <<leaseMac, leaseIp, running, poolEnv, reply>>

NoReply == [type |-> "none", mac |-> NoMac, ip |-> NoAddr]
Reply(t, m, a) == [type |-> t, mac |-> m, ip |-> a]

----------------------------------------------------------------------------
(* The pool: dhcpd_get_pool_range                                          *)

PoolStart(env) ==
  LET host == env.start % (HostMask + 1)
  IN  Net + (IF host = 0 THEN 1 ELSE host)

PoolEnd(env) ==
  LET size == IF env.size = 0 THEN 1 ELSE env.size
      e    == (PoolStart(env) + size - 1) % AddrSpace
  IN  IF e \in Subnet THEN e ELSE Net + HostMask

PoolOf(env) == PoolStart(env) .. PoolEnd(env)
Pool == PoolOf(poolEnv)

----------------------------------------------------------------------------
(* The lease table                                                         *)

Used(i) == leaseMac[i] # NoMac
HasLease(m) == \E i \in Slots : leaseMac[i] = m

\* dhcpd_find_lease: the first entry of the client
FindLease(m) ==
  CHOOSE i \in Slots :
    /\ leaseMac[i] = m
    /\ \A j \in Slots : leaseMac[j] = m => i <= j

Allocated(a) == \E i \in Slots : Used(i) /\ leaseIp[i] = a

\* dhcpd_ip_allocated_to_mac looks at the first entry holding the address only
AllocatedTo(a, m) ==
  \E i \in Slots :
    /\ leaseMac[i] = m
    /\ leaseIp[i] = a
    /\ \A j \in Slots : j < i => ~(Used(j) /\ leaseIp[j] = a)

\* Mutant: a client keeps its address after the pool moved away from it
AllocIpKeepsOwn(m) ==
  IF HasLease(m) THEN leaseIp[FindLease(m)] ELSE PoolStart(poolEnv)

\* Mutant: probing runs past the end of the pool instead of wrapping around
AllocIpNoWrap(m) ==
  LET n       == Cardinality(Pool)
      Cand(i) == PoolStart(poolEnv) + (MacHash[m] % n) + i
      free    == { i \in 0 .. n - 1 : ~Allocated(Cand(i)) }
  IN  IF free # {} THEN Cand(Min(free)) ELSE PoolStart(poolEnv)

\* dhcpd_alloc_ip: the client's own lease, else the first free address probing
\* from a hash of its hardware address, else the first address of the pool
AllocIp(m) ==
  LET n       == Cardinality(Pool)
      Cand(i) == PoolStart(poolEnv) + (((MacHash[m] % n) + i) % n)
      free    == { i \in 0 .. n - 1 : ~Allocated(Cand(i)) }
  IN  IF HasLease(m) /\ leaseIp[FindLease(m)] \in Pool
        THEN leaseIp[FindLease(m)]
      ELSE IF free # {} THEN Cand(Min(free))
      ELSE PoolStart(poolEnv)

\* Mutant: a free entry is taken before the client's own is looked for
LeaseSlotFreeFirst(m) ==
  IF \E i \in Slots : ~Used(i) THEN CHOOSE i \in Slots : ~Used(i) ELSE 1

\* dhcpd_process_lease: the entry it writes
LeaseSlot(m) ==
  IF HasLease(m) THEN FindLease(m)
  ELSE IF \E i \in Slots : ~Used(i)
    THEN CHOOSE i \in Slots : ~Used(i) /\ \A j \in Slots : j < i => Used(j)
  ELSE 1

ProcessLease(m, a) ==
  /\ leaseMac' = [leaseMac EXCEPT ![LeaseSlot(m)] = m]
  /\ leaseIp'  = [leaseIp EXCEPT ![LeaseSlot(m)] = a]

----------------------------------------------------------------------------
(* Packet handlers: dhcpd_handle_packet                                    *)

Discover(m) ==
  /\ running
  /\ reply' = Reply("offer", m, AllocIp(m))
  /\ UNCHANGED <<leaseMac, leaseIp, running, poolEnv>>

\* A REQUEST that names another server is dropped
RequestOther(m) ==
  /\ running
  /\ reply' = NoReply
  /\ UNCHANGED <<leaseMac, leaseIp, running, poolEnv>>

\* A REQUEST without option 50, as a renewing client sends it
RequestAny(m) ==
  /\ running
  /\ LET a == AllocIp(m)
     IN  /\ ProcessLease(m, a)
         /\ reply' = Reply("ack", m, a)
  /\ UNCHANGED <<running, poolEnv>>

\* Mutant: the "in use" test is forgotten
RefusedNotInUse(m, a) == a \notin Subnet \/ a \notin Pool

\* "bad subnet", "outside pool", "in use"
Refused(m, a) ==
  \/ a \notin Subnet
  \/ a \notin Pool
  \/ Allocated(a) /\ ~AllocatedTo(a, m)

\* A REQUEST for one address, after an offer or from a rebooted client
RequestAddr(m, a) ==
  /\ running
  /\ IF Refused(m, a)
       THEN /\ reply' = Reply("nak", m, NoAddr)
            /\ UNCHANGED <<leaseMac, leaseIp>>
       ELSE /\ ProcessLease(m, a)
            /\ reply' = Reply("ack", m, a)
  /\ UNCHANGED <<running, poolEnv>>

\* DECLINE, RELEASE and INFORM change nothing and are not answered
Ignored(m) ==
  /\ running
  /\ reply' = NoReply
  /\ UNCHANGED <<leaseMac, leaseIp, running, poolEnv>>

----------------------------------------------------------------------------
(* Commands                                                                *)

\* Mutant: starting a running server zeroes the table
StartZeroes ==
  /\ running' = TRUE
  /\ leaseMac' = [i \in Slots |-> NoMac]
  /\ leaseIp'  = [i \in Slots |-> 0]
  /\ reply' = NoReply
  /\ UNCHANGED poolEnv

\* mtk_dhcpd_start: the table is zeroed unless the server is running already
DhcpdStart ==
  /\ running' = TRUE
  /\ IF running
       THEN UNCHANGED <<leaseMac, leaseIp>>
       ELSE /\ leaseMac' = [i \in Slots |-> NoMac]
            /\ leaseIp'  = [i \in Slots |-> 0]
  /\ reply' = NoReply
  /\ UNCHANGED poolEnv

DhcpdStop ==
  /\ running
  /\ running' = FALSE
  /\ reply' = NoReply
  /\ UNCHANGED <<leaseMac, leaseIp, poolEnv>>

\* setenv dhcpd_pool_start / dhcpd_pool_size, from any console or the web UI
SetPool(env) ==
  /\ poolEnv' = env
  /\ reply' = NoReply
  /\ UNCHANGED <<leaseMac, leaseIp, running>>

----------------------------------------------------------------------------
Init ==
  /\ leaseMac = [i \in Slots |-> NoMac]
  /\ leaseIp  = [i \in Slots |-> 0]
  /\ running  = FALSE
  /\ poolEnv \in PoolEnvs
  /\ reply = NoReply

HandlePacket(m) ==
  \/ Discover(m)
  \/ RequestOther(m)
  \/ RequestAny(m)
  \/ \E a \in ReqAddrs : RequestAddr(m, a)
  \/ Ignored(m)

Next ==
  \/ \E m \in Macs : HandlePacket(m)
  \/ DhcpdStart
  \/ DhcpdStop
  \/ \E env \in PoolEnvs : SetPool(env)

Spec == Init /\ [][Next]_vars

----------------------------------------------------------------------------
(* Properties                                                              *)

TypeOK ==
  /\ leaseMac \in [Slots -> Macs \cup {NoMac}]
  /\ leaseIp \in [Slots -> Addr]
  /\ running \in BOOLEAN
  /\ poolEnv \in PoolEnvs
  /\ reply \in [type : {"none", "offer", "ack", "nak"},
                mac : Macs \cup {NoMac}, ip : Addr \cup {NoAddr}]

\* No client has two entries: an entry left over from an eviction, a restart or
\* an earlier address never competes with the current one (dhcpd_process_lease
\* searches before it inserts).
OneLeasePerMac ==
  \A i, j \in Slots : Used(i) /\ leaseMac[i] = leaseMac[j] => i = j

\* Two clients share an address only if it is the first address of a pool that
\* the table can exhaust: the "no free slot" fallback of dhcpd_alloc_ip is the
\* only way to a duplicate, whatever sequence of offers, refusals, renewals,
\* evictions and changes of the pool led there.
SharedOnlyByExhaustion ==
  \A i, j \in Slots :
    (Used(i) /\ Used(j) /\ i # j /\ leaseIp[i] = leaseIp[j]) =>
      \E env \in PoolEnvs :
        /\ leaseIp[i] = PoolStart(env)
        /\ Cardinality(PoolOf(env)) <= MaxClients

\* What is acknowledged is recorded, under the client's own entry, and lies in
\* the pool as configured when it was sent (unless that pool is empty, which an
\* overflowing dhcpd_pool_size makes it).
AckRecorded ==
  reply.type = "ack" =>
    /\ \E i \in Slots : leaseMac[i] = reply.mac /\ leaseIp[i] = reply.ip
    /\ Pool # {} => reply.ip \in Pool

NoAddressShared ==
  \A i, j \in Slots : Used(i) /\ Used(j) /\ leaseIp[i] = leaseIp[j] => i = j

\* The address just offered is acknowledged if the client asks for it at once,
\* provided the table shares no address and leaves the client one of the pool:
\* dhcpd_alloc_ip never picks what the REQUEST branch refuses.
OfferIsAcceptable ==
  reply.type = "offer" /\ NoAddressShared
    /\ (\E a \in Pool : ~Allocated(a) \/ AllocatedTo(a, reply.mac)) =>
      ~Refused(reply.mac, reply.ip)

\* A client loses its entry only to the zeroing of mtk_dhcpd_start or, when the
\* table is full, as the first entry; nobody else's packets or a change of the
\* pool take it away.
LeasesKept ==
  [][\A i \in Slots :
       (Used(i) /\ leaseMac'[i] # leaseMac[i]) =>
         \/ ~running /\ running'
         \/ i = 1 /\ \A j \in Slots : Used(j)]_vars
=============================================================================
