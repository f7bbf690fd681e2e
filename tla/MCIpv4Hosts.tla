---------------------------- MODULE MCIpv4Hosts -----------------------------
(***************************************************************************)
(* The three kinds of node of the ini files in one run: a router, whose    *)
(* output is paced and which drops datagrams and may stop; a host with a   *)
(* paced output; and an RDMA host, without the channel.  The constants of  *)
(* the configuration are the router's.                                     *)
(***************************************************************************)
EXTENDS MCIpv4Output

VARIABLE host

PacedHost ==
  INSTANCE Ipv4Output WITH Forwarding <- FALSE, ArpMayFail <- FALSE, MaxDatagrams <- 3,
    MaxLifecycle <- 0, DontFragment <- {FALSE}, PayloadLengths <- {2, 5}

RdmaHost ==
  INSTANCE Ipv4Output WITH Forwarding <- FALSE, ArpMayFail <- FALSE, MaxDatagrams <- 3,
    MaxLifecycle <- 0, DontFragment <- {FALSE}, PayloadLengths <- {2, 5},
    HasChannel <- FALSE, Protocols <- {"rdma"}

MCInit == Init /\ host \in {"router", "paced", "rdma"}

MCNext ==
  /\ \/ host = "router" /\ Next
     \/ host = "paced" /\ PacedHost!Next
     \/ host = "rdma" /\ RdmaHost!Next
  /\ UNCHANGED host

(* The fairness of Ipv4Output!FairSpec, in the nodes that do not drop.     *)
MCSpec ==
  /\ MCInit
  /\ [][MCNext]_<<vars, host>>
  /\ WF_vars(host = "paced" /\ PacedHost!HandleEndTxPeriod /\ UNCHANGED host)
  /\ \A hop \in NextHops :
       /\ WF_vars(/\ host = "paced" /\ pendingPackets[hop] # <<>>
                  /\ PacedHost!ArpResolutionCompleted(hop) /\ UNCHANGED host)
       /\ WF_vars(/\ host = "rdma" /\ pendingPackets[hop] # <<>>
                  /\ RdmaHost!ArpResolutionCompleted(hop) /\ UNCHANGED host)

(* In a host every routed datagram is sent in the end: after a wait for    *)
(* ARP, whose entries expire, and behind others, one timer event or one    *)
(* answer of ARP at a time.                                                *)
HostsSend == host # "router" => PacedHost!RoutedIsSent
=============================================================================
