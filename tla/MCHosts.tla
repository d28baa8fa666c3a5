------------------------------- MODULE MCHosts -------------------------------
(* Instance of Hosts for TLC.                                                *)
EXTENDS Hosts

\* The vendor is found from the prefix.
MCVendorOf == [m \in Macs |-> "v1"]

\* Nothing usable, a PTR name, an mDNS name, a MAC address alone.
MCAnswers ==
    {[ptr |-> "", arp |-> "?", mac |-> "?", mdns |-> ""],
     [ptr |-> "n1", arp |-> "n2", mac |-> "", mdns |-> ""],
     [ptr |-> "?", arp |-> "", mac |-> "", mdns |-> "n2"],
     [ptr |-> "", arp |-> "", mac |-> "m1", mdns |-> ""]}

\* Two entries for one address, one that is left out and one with no address.
MCClients ==
    {[ip |-> "a1", hostname |-> "n1", mac |-> "", vendor |-> ""],
     [ip |-> "a1", hostname |-> "n2", mac |-> "m1", vendor |-> ""],
     [ip |-> "a1", hostname |-> "?", mac |-> "", vendor |-> "v1"],
     [ip |-> "none", hostname |-> "n2", mac |-> "", vendor |-> ""]}
=============================================================================
