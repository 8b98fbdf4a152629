------------------------------- MODULE Discovery -------------------------------
(***************************************************************************)
(* From what is on the wire to a sighting: what each scanner reads out of  *)
(* a packet, a table walk or the system's ARP cache, how it finds the MAC  *)
(* of an announcement, and how build_device enriches the result.  The      *)
(* module has no state.  A packet is the part of it the code looks at; an  *)
(* address is a sequence of octets; a spelling is a record of what is      *)
(* spelt, its case and, for a service type, its trailing dots.             *)
(***************************************************************************)
EXTENDS Ordering, SequencesExt

CONSTANTS
    MacRecord,      \* data/mac-vendors-export.json, a sequence of records
    ServiceRecord,  \* data/mdns-service-vendor.json, a set of records
    TypeRecord      \* data/vendor-device-type.json, a function of the vendor

CONSTANTS
    None,       \* Option::None
    Display(_)  \* the text of octets: Display of an address, from_utf8

(* Option::or_else on the first, or the last, element that passes a test. *)
FirstIn(s, Test(_)) ==
    LET i == SelectInSeq(s, Test) IN IF i = 0 THEN None ELSE s[i]
LastIn(s, Test(_)) ==
    LET i == SelectLastInSeq(s, Test) IN IF i = 0 THEN None ELSE s[i]

MapSeq(s, F(_)) == [i \in DOMAIN s |-> F(s[i])]
Where(s, Test(_)) == Elements(s, {i \in DOMAIN s : Test(s[i])})
-----------------------------------------------------------------------------
(***************************************************************************)
(* Texts.                                                                  *)
(***************************************************************************)
Lower(text) == [text EXCEPT !.case = "lower"]
Upper(text) == [text EXCEPT !.case = "upper"]

FormatMac(octets) == [of |-> octets, case |-> "lower"]
NormalizeMac(mac) == Lower(mac)

Text(octets) == IF octets = <<>> THEN "" ELSE Display(octets)

ZeroMac == <<0, 0, 0, 0, 0, 0>>
-----------------------------------------------------------------------------
(***************************************************************************)
(* DHCP: the options of a client's DISCOVER or REQUEST.                    *)
(***************************************************************************)
OPTION_PAD == 0
OPTION_END == 255
OPTION_HOSTNAME == 12
OPTION_REQUESTED_IP == 50
OPTION_MESSAGE_TYPE == 53
DHCP_DISCOVER == 1
DHCP_REQUEST == 3
UNSPECIFIED == <<0, 0, 0, 0>>

(* Mutant: an option whose value is cut off is read as far as it goes. *)
NextOptionClipped(buf, w) ==
    LET i == w.i
    IN  IF i > Len(buf) \/ buf[i] = OPTION_END THEN w
        ELSE IF buf[i] = OPTION_PAD THEN [i |-> i + 1, read |-> w.read]
        ELSE IF i + 1 > Len(buf) THEN w
        ELSE LET last == Min({i + 1 + buf[i + 1], Len(buf)})
             IN  [i |-> last + 1,
                  read |-> Append(w.read, [code |-> buf[i], value |-> SubSeq(buf, i + 2, last)])]

(* A turn of the TLV walk at w.i: PAD has no length; END and a length past the end
   break the loop, which leaves w as it is. *)
NextOption(buf, w) ==
    LET i == w.i
    IN  IF i > Len(buf) \/ buf[i] = OPTION_END THEN w
        ELSE IF buf[i] = OPTION_PAD THEN [i |-> i + 1, read |-> w.read]
        ELSE IF i + 1 > Len(buf) \/ i + 1 + buf[i + 1] > Len(buf) THEN w
        ELSE LET last == i + 1 + buf[i + 1]
             IN  [i |-> last + 1,
                  read |-> Append(w.read, [code |-> buf[i], value |-> SubSeq(buf, i + 2, last)])]

(* Every turn but the last takes an octet at least. *)
Options(buf) ==
    LET walk[n \in 0..Len(buf)] ==
            IF n = 0 THEN [i |-> 1, read |-> <<>>] ELSE NextOption(buf, walk[n - 1])
    IN  walk[Len(buf)].read

Trim(s, Dropped(_)) ==
    LET kept == {i \in DOMAIN s : ~Dropped(s[i])}
    IN  IF kept = {} THEN <<>> ELSE SubSeq(s, Min(kept), Max(kept))

(* from_utf8, trim_matches(NUL), trim(); bytes over 127 alone are not UTF-8. *)
HostName(value) ==
    IF \E i \in DOMAIN value : value[i] > 127 THEN <<>>
    ELSE Trim(Trim(value, LAMBDA o : o = 0), LAMBDA o : o \in {9, 10, 13, 32})

ParsePacket(p) ==
    LET options == Options(p.options)
        type == LastIn(options, LAMBDA o : o.code = OPTION_MESSAGE_TYPE /\ o.value # <<>>)
        host == LastIn(options, LAMBDA o : o.code = OPTION_HOSTNAME /\ HostName(o.value) # <<>>)
        asked == LastIn(options, LAMBDA o : o.code = OPTION_REQUESTED_IP /\ Len(o.value) = 4)
    IN  IF \/ p.header \in {"short", "not a request", "not Ethernet", "no cookie"}
           \/ type = None
        THEN None
        ELSE IF type.value[1] \notin {DHCP_DISCOVER, DHCP_REQUEST} THEN None
        ELSE [mac      |-> FormatMac(p.chaddr),
              hostname |-> IF host = None THEN None ELSE Text(HostName(host.value)),
              ip_hint  |-> IF p.ciaddr # UNSPECIFIED THEN p.ciaddr
                           ELSE IF asked = None THEN None ELSE asked.value]
-----------------------------------------------------------------------------
(***************************************************************************)
(* SNMP: the rows of the router's ARP cache, one address for each MAC.     *)
(***************************************************************************)
ParseArpTable(rows) ==
    LET Index(r) == SubSeq(r.suffix, Len(r.suffix) - 3, Len(r.suffix))
        Fits(r)  == /\ r.suffix # None
                    /\ Len(r.suffix) >= 4
                    /\ \A i \in 1..4 : Index(r)[i] <= 255
                    /\ r.value # None
                    /\ Len(r.value) = 6
        read == Where(rows, Fits)
    IN  [i \in DOMAIN read |-> [mac |-> FormatMac(read[i].value), ip |-> Index(read[i])]]

(* Ipv4Addr's order. *)
Below(a, b) ==
    \E i \in DOMAIN a : a[i] < b[i] /\ \A j \in 1..(i - 1) : a[j] = b[j]

Lowest(ips) == CHOOSE ip \in ips : \A other \in ips \ {ip} : Below(ip, other)

(* Mutant: the address on record does not count. *)
ChooseLowest(candidates, stored) == Lowest(candidates)

ChooseIp(candidates, stored) ==
    IF stored \in candidates THEN stored ELSE Lowest(candidates)

(* stored[mac]: the address on record, None for an unknown device. *)
DedupByMac(pairs, stored) ==
    LET found == ToSet(pairs)
    IN  [mac \in {p.mac : p \in found} |->
            ChooseIp({p.ip : p \in {q \in found : q.mac = mac}}, stored[mac])]
-----------------------------------------------------------------------------
(***************************************************************************)
(* SSDP and mDNS announcements.                                            *)
(***************************************************************************)
(* The last NTS and SERVER count, every NT does; lines without a colon (value
   None) or without a value are skipped.  The keys' case does not matter, nor
   does NTS's. *)
ParseSsdp(p) ==
    LET Header(key) ==
          Where(p.headers, LAMBDA h : h.key = key /\ h.value # None /\ h.value.of # "")
        LastText(key) ==
          IF Header(key) = <<>> THEN None ELSE Last(Header(key)).value.of
    IN  IF /\ p.utf8
           /\ p.notify
           /\ LastText("nts") \in {"ssdp:alive", "ssdp:update"}
        THEN [server |-> LastText("server"),
              device_types |-> MapSeq(Header("nt"), LAMBDA h : h.value)]
        ELSE None

MdnsNames(p, rdata) ==
    MapSeq(Where(p.answers \o p.additional, LAMBDA r : r.rdata = rdata /\ r.name.of # ""),
           LAMBDA r : r.name)

(* p is None when the packet cannot be parsed. *)
ParseMdns(p) ==
    IF p = None THEN [hostnames |-> <<>>, service_types |-> <<>>]
    ELSE [hostnames     |-> MapSeq(MdnsNames(p, "A"), LAMBDA n : n.of),
          service_types |-> MdnsNames(p, "PTR")]
-----------------------------------------------------------------------------
(***************************************************************************)
(* The interface, and the MAC behind an announcement's address.            *)
(***************************************************************************)
SelectInterface(interfaces, configured) ==
    IF configured # None
    THEN FirstIn(interfaces, LAMBDA i : i.up /\ i.name = configured)
    ELSE FirstIn(interfaces, LAMBDA i : i.up /\ ~i.loopback /\ i.ipv4 # None)

(* Mutant: an incomplete line tells its MAC as well. *)
ParseProcNetArpIncomplete(lines, ip) ==
    LET line == FirstIn(lines, LAMBDA l : l.ip = ip)
    IN  IF line = None \/ line.mac.of = ZeroMac THEN None ELSE line.mac

(* The first line of the address decides, complete or not. *)
ParseProcNetArp(lines, ip) ==
    LET line == FirstIn(lines, LAMBDA l : l.ip = ip)
    IN  IF line = None THEN None
        ELSE IF line.flags = "0x0" \/ line.mac.of = ZeroMac THEN None
        ELSE line.mac

(* The first reply from the address that comes before the deadline. *)
ProbeMac(ip, world) ==
    LET iface == SelectInterface(world.interfaces, world.configured)
        reply == FirstIn(world.frames, LAMBDA f : f.arp /\ f.reply /\ f.sender_ip = ip)
    IN  IF iface = None \/ reply = None THEN None
        ELSE IF iface.mac = None \/ iface.ipv4 = None THEN None
        ELSE FormatMac(reply.sender_mac)

ResolveMac(ip, world) ==
    LET cached == ParseProcNetArp(world.cache, ip)
    IN  IF cached # None THEN Lower(cached) ELSE ProbeMac(ip, world)
-----------------------------------------------------------------------------
(***************************************************************************)
(* Enrichment.                                                             *)
(***************************************************************************)
MacVendor(prefix) ==
    LET r == LastIn(MacRecord, LAMBDA m : Upper(m.prefix) = Upper(prefix))
    IN  IF r = None THEN "" ELSE r.vendor

Normalize(service) == [service EXCEPT !.case = "lower", !.dots = 0]

ServiceVendor(hints) ==
    LET known == {Normalize(r.service) : r \in ServiceRecord}
        hint  == FirstIn(hints, LAMBDA h : Normalize(h) \in known)
    IN  IF hint = None THEN ""
        ELSE (CHOOSE r \in ServiceRecord : Normalize(r.service) = Normalize(hint)).vendor

VendorDeviceType(vendor) ==
    IF vendor \in DOMAIN TypeRecord THEN TypeRecord[vendor] ELSE ""

IsLocallyAdministered(mac) == (mac.of[1] \div 2) % 2 = 1

Prefix(mac) == [mac EXCEPT !.of = SubSeq(@, 1, 3)]

(* Mutant: any device without a known OUI takes the vendor of its services. *)
VendorByHints(mac, hints) ==
    IF MacVendor(Prefix(mac)) # "" THEN MacVendor(Prefix(mac)) ELSE ServiceVendor(hints)

DeduceVendor(mac, hints) ==
    IF MacVendor(Prefix(mac)) # "" \/ ~IsLocallyAdministered(mac)
    THEN MacVendor(Prefix(mac))
    ELSE ServiceVendor(hints)

EnrichedDevice(report, t) ==
    LET vendor == DeduceVendor(report.mac, report.hints)
    IN  [ipv4_address |-> report.ip, vendor |-> vendor, last_seen |-> t,
         is_registered |-> FALSE, owner |-> "",
         device_type |-> VendorDeviceType(vendor), name |-> report.name]
-----------------------------------------------------------------------------
(***************************************************************************)
(* What each scanner hands to build_device.                                *)
(***************************************************************************)
Report(mac, ip, hints, name) == [mac |-> mac, ip |-> ip, hints |-> hints, name |-> name]

(* Replies to this host, for as long as the scan lasts. *)
ArpReports(frames, local_ip) ==
    {Report(FormatMac(f.sender_mac), Text(f.sender_ip), <<>>, None) :
        f \in {g \in ToSet(frames) : g.arp /\ g.reply /\ g.target_ip = local_ip}}

SnmpReports(rows, stored) ==
    LET chosen == DedupByMac(ParseArpTable(rows), stored)
    IN  {Report(mac, Text(chosen[mac]), <<>>, None) : mac \in DOMAIN chosen}

DhcpReports(p) ==
    LET d == ParsePacket(p)
    IN  IF d = None THEN {}
        ELSE {Report(d.mac, IF d.ip_hint = None THEN "" ELSE Text(d.ip_hint),
                     <<>>, d.hostname)}

(* src is None for an IPv6 sender. *)
Announced(src, world, hints, name) ==
    LET mac == ResolveMac(src, world)
    IN  IF mac = None THEN {} ELSE {Report(mac, Text(src), hints, name)}

SsdpReports(src, p, world) ==
    LET a == ParseSsdp(p)
    IN  IF src = None \/ a = None THEN {}
        ELSE Announced(src, world, a.device_types, a.server)

MdnsReports(src, p, world) ==
    LET a == ParseMdns(p)
    IN  IF src = None \/ a.hostnames = <<>> THEN {}
        ELSE Announced(src, world, a.service_types, Head(a.hostnames))
=============================================================================
