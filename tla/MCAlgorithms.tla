------------------------------ MODULE MCAlgorithms ------------------------------
(* Small databases, packets and tables for Algorithms. *)
EXTENDS Algorithms

MCDisplay(octets) == ToString(octets)

Octets(first, last) == <<first, 0, 12, 0, 0, last>>

(* A MAC with a vendor, a privacy MAC without, and an unknown maker's. *)
MCMacOctets == {<<0, 0, 12, 0, 0, 1>>, <<2, 0, 12, 0, 0, 1>>, <<4, 0, 12, 0, 0, 2>>}
MCIpOctets  == {<<10, 0, 0, 9>>, <<10, 0, 1, 2>>}

(* The second record is a smaller block: its prefix is longer than an OUI. *)
MCMacRecord ==
    <<[prefix |-> [of |-> <<0, 0, 12>>, case |-> "upper"], vendor |-> "Cisco"],
      [prefix |-> [of |-> <<4, 0, 12, 0>>, case |-> "upper"], vendor |-> "Cisco"]>>
Service(name) == [of |-> name, case |-> "mixed", dots |-> 1]
MCServiceRecord == {[service |-> Service("_airplay"), vendor |-> "Apple"]}
MCTypeRecord == [Apple |-> "phone"]

MCChunk ==
    {<<0>>, <<255>>, <<53, 1, 1>>, <<53, 1, 5>>, <<53, 0>>, <<12, 1, 65>>, <<12, 2, 0, 32>>,
     <<12, 1, 200>>, <<50, 4, 10, 0, 0, 1>>, <<50, 1, 53>>, <<61, 2, 53, 1>>}

Row1(suffix, value) == [suffix |-> suffix, value |-> value]
MCRow ==
    {Row1(<<3>> \o ip, mac) : ip \in MCIpOctets, mac \in MCMacOctets \ {<<4, 0, 12, 0, 0, 2>>}}
        \cup {Row1(None, <<0, 0, 12, 0, 0, 1>>), Row1(<<3, 10>>, <<0, 0, 12, 0, 0, 1>>),
              Row1(<<3, 10, 0, 0, 256>>, <<0, 0, 12, 0, 0, 1>>),
              Row1(<<3, 10, 0, 0, 9>>, <<0, 0>>), Row1(<<3, 10, 0, 0, 9>>, None)}

Header(key, value) == [key |-> key, value |-> value]
MCSsdpHeader ==
    {Header("nts", Service("ssdp:alive")), Header("nts", Service("ssdp:byebye")),
     Header("nts", Service("")), Header("server", Service("MiniDLNA")),
     Header("nt", Service("_airplay")), Header("location", None)}

MCMdnsRecord ==
    {[rdata |-> "A", name |-> Service("nas.local")], [rdata |-> "A", name |-> Service("")],
     [rdata |-> "PTR", name |-> Service("_airplay")], [rdata |-> "TXT", name |-> Service("x")]}

Iface(name, up, loopback, ipv4) ==
    [name |-> name, up |-> up, loopback |-> loopback, ipv4 |-> ipv4, mac |-> <<4, 0, 12, 0, 0, 2>>]
MCInterface ==
    {Iface("lo", TRUE, TRUE, <<127, 0, 0, 1>>), Iface("eth0", TRUE, FALSE, <<10, 0, 0, 1>>),
     Iface("eth0", TRUE, FALSE, None)}

MCDeviceRow ==
    [mac_address: {0}, name: {-1}, owner: {0}, ipv4_address: {0}, vendor: {0},
     device_type: {0}, is_registered: {0, 1}, last_seen: Instants]
MCEventRow ==
    [mac_address: {1, 2}, created_on: {0, 1}, scanner: {"snmp"},
     event_type: {"device_seen", "device_back_online"}]

MCLike == {<<0, 0>>}
=============================================================================
