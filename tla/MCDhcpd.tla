------------------------------ MODULE MCDhcpd ------------------------------
(* Instance of Dhcpd for TLC: a table of two entries and three clients, so  *)
(* that it overflows, and an 8-address subnet in a 32-address space.        *)
EXTENDS Dhcpd

CONSTANTS mac1, mac2, mac3

MCMacs == {mac1, mac2, mac3}

\* mac2 and mac3 probe from the same address
MCMacHash == [m \in MCMacs |-> IF m = mac1 THEN 5 ELSE 1]

\* an ordinary pool, one the table exhausts, one clamped at the end of the
\* subnet, the zero settings, and a size that overflows back into the subnet
MCPoolEnvs ==
  { [start |-> 2, size |-> 3],
    [start |-> 1, size |-> 2],
    [start |-> 5, size |-> 9],
    [start |-> 0, size |-> 0],
    [start |-> 4, size |-> 31] }

MCReqAddrs == 9 .. 16

=============================================================================
