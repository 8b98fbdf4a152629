------------------------------- MODULE Algorithms -------------------------------
(***************************************************************************)
(* The code that computes without waiting for anybody: the parsers, the    *)
(* settings, the status of a scanner, the queries and the texts.  A        *)
(* behaviour takes one input out of those the code can meet, and each      *)
(* invariant compares what the operators make of it with a definition of   *)
(* what it should be.                                                      *)
(***************************************************************************)
EXTENDS Ordering, SequencesExt

CONSTANTS
    None, MacRecord, ServiceRecord, TypeRecord, Display(_), \* see Discovery
    RecentWindow,                                   \* see Status
    Like, Microsecond,                              \* see Queries
    SummaryListLimit,                               \* see Rendering
    MacOctets,          \* MACs on the network, as octets
    IpOctets,           \* addresses on the network, as octets
    Vendor, DeviceType, \* what the databases know
    Chunk,              \* DHCP options, PADs and ENDs, as octets
    Row,                \* rows of an SNMP table walk
    SsdpHeader,         \* header lines
    MdnsRecord,         \* resource records
    Interface,          \* network interfaces
    DeviceRow,          \* rows of the devices table, before they get their key
    EventRow,           \* rows of the events table, without their ids
    MaxLength,          \* bound: chunks, rows, headers, calls
    MaxKnown,           \* bound: cache lines and frames together, rows of the next walk,
                        \* answers of an mDNS packet, devices of a recorded scan
    MaxFew,             \* bound: interfaces, cache lines of an announcement's world,
                        \* additional records
    MaxInstant,         \* bound: instants of calls and rows
    MaxRows,            \* bound: rows of a table
    MaxListed           \* bound: devices of one summary

Wire   == INSTANCE Discovery
Config == INSTANCE Settings
Scan   == INSTANCE Status
Sql    == INSTANCE Queries
Shown  == INSTANCE Rendering

Macs == {Wire!FormatMac(o) : o \in MacOctets}

(* The model of the store takes its databases from the ones the code looks in. *)
Store == INSTANCE Devices WITH
    Mac <- Macs, Ip <- STRING \ {""}, Name <- STRING \ {""}, Owner <- STRING \ {""},
    Oui <- [m \in Macs |-> Wire!MacVendor(Wire!Prefix(m))],
    LocallyAdministered <- {m \in Macs : Wire!IsLocallyAdministered(m)},
    TypeOf <- [v \in Vendor |-> Wire!VendorDeviceType(v)],
    AbsenceThreshold <- 1

ASSUME BoundsAssumption ==
    /\ MaxLength \in Nat /\ MaxKnown \in Nat /\ MaxFew \in Nat
    /\ MaxInstant \in Nat /\ MaxRows \in Nat /\ MaxListed \in Nat
ASSUME StatusAssumption ==
    /\ RecentWindow \in Nat
    /\ None \notin Int /\ None \notin Scan!PassiveStatus(Macs) /\ None \notin Scan!ActiveStatus
ASSUME EventAssumption ==
    /\ None \notin DOMAIN Sql!DisplayType
    /\ None \notin DOMAIN Sql!DisplayScanner
ASSUME TableAssumption ==
    /\ DeviceRow \subseteq [mac_address: Int, name: Int, owner: Int, ipv4_address: Int,
                            vendor: Int, device_type: Int, is_registered: Int,
                            last_seen: Int]
    /\ EventRow \subseteq [mac_address: Int, created_on: Int,
                           scanner: DOMAIN Sql!DisplayScanner,
                           event_type: DOMAIN Sql!DisplayType]
ASSUME SummaryAssumption == SummaryListLimit \in Nat
ASSUME ChunkAssumption ==
    \A c \in Chunk : \/ c = <<Wire!OPTION_PAD>> \/ c = <<Wire!OPTION_END>>
                    \/ /\ c \in Seq(0..255)
                       /\ Len(c) >= 2 /\ Len(c) = 2 + c[2]
                       /\ c[1] \notin {Wire!OPTION_PAD, Wire!OPTION_END}
ASSUME RowAssumption ==
    \A r \in Row : /\ r.suffix # None => r.suffix \in Seq(Nat)
                   /\ r.value # None => r.value \in Seq(0..255)
                   /\ r.value # None /\ Len(r.value) = 6 => r.value \in MacOctets
ASSUME PacketAssumption ==
    /\ IpOctets \subseteq Seq(0..255) \ {<<>>}
    /\ \A h \in SsdpHeader : h.value # None => h.value.of \in STRING
    /\ \A r \in MdnsRecord : r.name.of \in STRING
(* No octets that come in a packet read as the empty text. *)
ASSUME TextAssumption ==
    \A s \in IpOctets \cup Chunk \cup {r.suffix : r \in {q \in Row : q.suffix # None}} :
        \A i, j \in DOMAIN s : i <= j => Display(SubSeq(s, i, j)) \in STRING \ {""}
ASSUME DatabaseAssumption ==
    /\ Len(MacRecord) \in Nat
    /\ \A i \in 1..Len(MacRecord) : MacRecord[i].vendor \in Vendor \cup {""}
    /\ \A r \in ServiceRecord : r.vendor \in Vendor \cup {""}
    /\ "" \notin DOMAIN TypeRecord
(* None is neither a frame nor a section of the settings. *)
ASSUME NoneAssumption ==
    /\ None \notin [arp: BOOLEAN, reply: BOOLEAN, sender_ip: IpOctets, sender_mac: MacOctets,
                    target_ip: IpOctets]
    /\ None \notin [{"relay_url"} -> {"", "given", Config!default_relay_url}]
ASSUME MacAssumption == \A o \in MacOctets : o \in Seq(0..255) /\ Len(o) = 6

VARIABLE sample     \* the input taken: "none", or what it is for

Init == sample = [of |-> "none"]

Fresh == sample.of = "none"
Take(input) == sample' = input
Instants == 0..MaxInstant
-----------------------------------------------------------------------------
(***************************************************************************)
(* The inputs.                                                             *)
(***************************************************************************)
(* A DHCP packet whose options section is cut after some octets. *)
DhcpPacket ==
    /\ Fresh
    /\ \E header \in {"request", "short", "not a request", "not Ethernet", "no cookie"},
          mac \in MacOctets, ciaddr \in IpOctets \cup {Wire!UNSPECIFIED},
          chunks \in BoundedSeq(Chunk, MaxLength) :
           \E cut \in 0..Len(FlattenSeq(chunks)) :
               /\ header = "request" \/ Len(chunks) = 1
               /\ Take([of |-> "dhcp", chunks |-> chunks, cut |-> cut,
                        packet |-> [header |-> header, chaddr |-> mac, ciaddr |-> ciaddr,
                                    options |-> SubSeq(FlattenSeq(chunks), 1, cut)]])

SnmpWalk ==
    /\ Fresh
    /\ \E rows \in BoundedSeq(Row, MaxLength),
          stored \in [Macs -> IpOctets \cup {None}] :
           Take([of |-> "snmp", rows |-> rows, stored |-> stored])

(* What the host knows: every address has one MAC on the network, which frames tell;
   a line of the cache, complete (0x2) or not, says what was learned at some time or
   other, which may be the MAC of a host that had the address before, or nothing. *)
Truth == {t \in [IpOctets -> MacOctets] : IsInjective(t)}
Lines ==
    [ip: IpOctets, flags: {"0x0", "0x2"},
     mac: {Wire!Upper(Wire!FormatMac(o)) : o \in MacOctets \cup {Wire!ZeroMac}}]
Frames(truth) ==
    {[arp |-> arp, reply |-> reply, sender_ip |-> ip, sender_mac |-> truth[ip],
      target_ip |-> target] : arp, reply \in BOOLEAN, ip, target \in IpOctets}

Resolution ==
    /\ Fresh
    /\ \E truth \in Truth, ip \in IpOctets, interfaces \in BoundedSeq(Interface, MaxFew),
          configured \in {None, "eth0"} :
           \E cache \in BoundedSeq(Lines, MaxKnown) :
               \E frames \in BoundedSeq(Frames(truth), MaxKnown - Len(cache)) :
               Take([of |-> "resolve", truth |-> truth, ip |-> ip,
                     world |-> [cache |-> cache, frames |-> frames,
                                interfaces |-> interfaces, configured |-> configured]])

(* The worlds announcements are heard in: the cache knows the sender, or not. *)
World ==
    {[cache |-> cache, frames |-> <<>>, interfaces |-> <<>>, configured |-> None] :
        cache \in BoundedSeq(Lines, MaxFew)}

SsdpAnnouncement ==
    /\ Fresh
    /\ \E src \in IpOctets \cup {None}, utf8, notify \in BOOLEAN,
          headers \in BoundedSeq(SsdpHeader, MaxLength), world \in World :
               Take([of |-> "ssdp", src |-> src, world |-> world,
                     packet |-> [utf8 |-> utf8, notify |-> notify, headers |-> headers]])

MdnsAnnouncement ==
    /\ Fresh
    /\ \E src \in IpOctets \cup {None},
          packet \in [answers: BoundedSeq(MdnsRecord, MaxKnown),
                      additional: BoundedSeq(MdnsRecord, MaxFew)]
                         \cup {None},
          world \in World :
               Take([of |-> "mdns", src |-> src, world |-> world, packet |-> packet])

ArpScan ==
    /\ Fresh
    /\ \E truth \in Truth, local_ip \in IpOctets :
           \E frames \in BoundedSeq(Frames(truth), MaxKnown) :
               Take([of |-> "arp", frames |-> frames, local_ip |-> local_ip])

(* A section left out, or the texts of the keys it spells out, empty ones included;
   and one that may also spell out its switch. *)
Given(keys) == {None} \cup UNION {[K -> {"", "given"}] : K \in SUBSET keys}
Switched(keys) ==
    Given(keys) \cup {given @@ [enabled |-> on] : given \in Given(keys) \ {None}, on \in BOOLEAN}

ConfigFile ==
    /\ Fresh
    /\ \E database \in Given({"path"}), web_server \in Given({"api_key"}),
          pushover \in Given({"token", "user_key"}), push \in Given({"relay_url"}),
          snmp \in Switched({"target", "community"}),
          notifications \in {None, Config!Nothing}
              \cup {[method |-> m] : m \in {"push", "pushover", "Pushover", "none"}} :
           Take([of |-> "file",
                 file |-> [n \in DOMAIN Config!SectionOf |->
                     CASE n = "database"      -> database
                       [] n = "web_server"    -> web_server
                       [] n = "pushover"      -> pushover
                       [] n = "push"          -> push
                       [] n = "snmp_scanner"  -> snmp
                       [] n = "notifications" -> notifications
                       [] OTHER -> None]])

InOrder(calls) == \A i, j \in DOMAIN calls : i < j => calls[i].t <= calls[j].t

PassiveHistory ==
    /\ Fresh
    /\ \E calls \in BoundedSeq([op: {"init", "listen", "discover", "get"}, mac: Macs,
                                t: Instants], MaxLength),
          at \in Instants :
           /\ InOrder(Append(calls, [t |-> at]))
           /\ Take([of |-> "passive", at |-> at,
                    calls |-> <<[op |-> "init", t |-> 0]>> \o calls])

ActiveHistory ==
    /\ Fresh
    /\ \E calls \in BoundedSeq([op: {"run"}, t: Instants]
                                 \cup [op: {"wait"}, t: Instants, next: Instants]
                                 \cup [op: {"record"}, t: Instants,
                                       macs: BoundedSeq(Macs, MaxKnown)], MaxLength),
          at \in Instants :
           /\ InOrder(Append(calls, [t |-> at]))
           /\ Take([of |-> "active", at |-> at,
                    calls |-> <<[op |-> "init", t |-> 0]>> \o calls])

(* Tables of up to MaxRows rows, numbered by their key. *)
Table(row) ==
    {{[f[i] EXCEPT !.mac_address = i] : i \in DOMAIN f} :
        f \in UNION {[S -> row] : S \in SUBSET (1..MaxRows)}}

Query(registered, from, to) ==
    [is_registered |-> registered, last_seen_from |-> from, last_seen_to |-> to,
     owner |-> None, device_type |-> None, vendor |-> None]

Date(instant, zone) == [instant |-> instant, zone |-> zone]

DeviceListing ==
    /\ Fresh
    /\ \E rows \in Table(DeviceRow), registered \in {None, 1, 2},
          from \in {None, Date(1, "Z"), Date(1, "offset")}, to \in {None, Date(1, "none")},
          sort \in [by: {None, "owner", "is_registered"}, order: {None, "asc"}],
          size \in 1..2 :
           Take([of |-> "devices", rows |-> rows, query |-> Query(registered, from, to),
                 sort |-> sort, size |-> size])

EventListing ==
    /\ Fresh
    /\ \E ids \in SUBSET (1..MaxRows) :
           \E f \in [ids -> EventRow], mac \in {None, 1}, from \in {None, 1}, size \in 1..2 :
               Take([of |-> "events", mac |-> mac, from |-> from, size |-> size,
                     rows |-> {[id |-> i, mac_address |-> f[i].mac_address,
                                created_on |-> f[i].created_on, scanner |-> f[i].scanner,
                                event_type |-> f[i].event_type] : i \in ids}])

Public == [name: {None, "", "nas"}, vendor: {"", "acme"}, device_type: {"", "tv"},
           is_registered: BOOLEAN, owner: {"", "ann"}]

Alert ==
    /\ Fresh
    /\ \E d \in Public, vendor \in {"", "acme", "initech"} :
               Take([of |-> "alert", device |-> d, vendor |-> vendor])

Consolidation ==
    /\ Fresh
    /\ \E devices \in BoundedSeq([name: {None, "nas"}, vendor: {""}, device_type: {""}], MaxListed) :
           Take([of |-> "summary text", devices |-> devices])

Next ==
    \/ DhcpPacket \/ SnmpWalk \/ Resolution \/ SsdpAnnouncement \/ MdnsAnnouncement \/ ArpScan
    \/ ConfigFile
    \/ PassiveHistory \/ ActiveHistory
    \/ DeviceListing \/ EventListing
    \/ Alert \/ Consolidation

Spec == Init /\ [][Next]_sample
-----------------------------------------------------------------------------
(***************************************************************************)
(* The wire.                                                               *)
(***************************************************************************)
(* The walk over a DHCP packet's options finds the options that are in the packet
   as a whole, in their order, up to the first END: neither padding nor a packet
   that is cut off anywhere makes it read an option that was not sent, or lose
   one that was (dhcp/finder.rs:101). *)
WholeOptionsOnly ==
    sample.of = "dhcp" =>
        LET chunks == sample.chunks
            Size(n) == Len(FlattenSeq(SubSeq(chunks, 1, n)))
            whole == Max({n \in 0..Len(chunks) : Size(n) <= sample.cut})
            ends  == {n \in 1..whole : chunks[n] = <<Wire!OPTION_END>>}
            sent  == SubSeq(chunks, 1, IF ends = {} THEN whole ELSE Min(ends) - 1)
            real  == Elements(sent, {i \in DOMAIN sent : sent[i] # <<Wire!OPTION_PAD>>})
        IN  Wire!Options(sample.packet.options)
                = [i \in DOMAIN real |-> [code  |-> real[i][1],
                                         value |-> SubSeq(real[i], 3, Len(real[i]))]]

(* A router's cache may list a MAC at several addresses.  A scan settles on one that
   is listed; and once it is on record, the next scan keeps it if it is listed
   still, whatever else the cache has come to list or to leave out meanwhile: an
   address does not flap, which would be announced as a change each time
   (snmp/finder.rs:56). *)
SnmpSettles ==
    sample.of = "snmp" =>
        LET pairs   == Wire!ParseArpTable(sample.rows)
            settled == Wire!DedupByMac(pairs, sample.stored)
            later   == [m \in Macs |-> IF m \in DOMAIN settled THEN settled[m]
                                      ELSE sample.stored[m]]
            At(m)   == [mac |-> m, ip |-> settled[m]]
        IN  \A m \in DOMAIN settled :
                /\ At(m) \in ToSet(pairs)
                /\ \A walk \in BoundedSeq(Row, MaxKnown) :
                       LET again == Wire!ParseArpTable(walk)
                       IN  At(m) \in ToSet(again) =>
                               Wire!DedupByMac(again, later)[m] = settled[m]

(* The MAC found for the sender of an announcement is the one the sender has, or one
   that a complete line of its address tells, which may be out of date: the line of
   another address, a line that is incomplete or without a MAC, and another host's
   reply never lend theirs.  And when no line of the address can be used, a reply of
   the sender's is found (utils/network.rs:34, 58). *)
ResolvedMacIsTheSenders ==
    sample.of = "resolve" =>
        LET ip     == sample.ip
            world  == sample.world
            own    == Wire!FormatMac(sample.truth[ip])
            usable == {l \in ToSet(world.cache) :
                          l.ip = ip /\ l.flags # "0x0" /\ l.mac.of # Wire!ZeroMac}
            iface  == Wire!SelectInterface(world.interfaces, world.configured)
            found  == Wire!ResolveMac(ip, world)
        IN  /\ found \in {None, own} \cup {Wire!Lower(l.mac) : l \in usable}
            /\ /\ usable = {}
               /\ iface # None /\ iface.mac # None /\ iface.ipv4 # None
               /\ \E f \in ToSet(world.frames) : f.arp /\ f.reply /\ f.sender_ip = ip
               => found = own

ReportsOf(s) ==
    CASE s.of = "arp"  -> Wire!ArpReports(s.frames, s.local_ip)
      [] s.of = "snmp" -> Wire!SnmpReports(s.rows, s.stored)
      [] s.of = "dhcp" -> Wire!DhcpReports(s.packet)
      [] s.of = "ssdp" -> Wire!SsdpReports(s.src, s.packet, s.world)
      [] s.of = "mdns" -> Wire!MdnsReports(s.src, s.packet, s.world)
      [] OTHER -> {}

(* Whatever a packet says, the device a scanner hands to the pipeline is one that
   the model of the store lets that scanner report: a normalised MAC, an address
   and a name of the kind the protocol carries, never an empty name, and a vendor
   and type deduced the way the store expects (common/enrichment.rs:16). *)
ReportsFit ==
    \A r \in ReportsOf(sample) :
        /\ r.mac = Wire!NormalizeMac(r.mac)
        /\ r.ip \in Store!Reported(sample.of).ip
        /\ r.name \in Store!Reported(sample.of).name
        /\ \E vendor \in Store!DeducedVendor(sample.of, r.mac) :
               Wire!EnrichedDevice(r, 1) = Store!BuildDevice(r.ip, vendor, r.name, 1)
-----------------------------------------------------------------------------
(***************************************************************************)
(* The settings.                                                           *)
(***************************************************************************)
Spells(section, key) == section # None /\ key \in DOMAIN section

(* Under every file the program starts with, the delivery has the section its method
   needs, be its texts empty or not; the app offers its push toggle exactly when
   alerts go to the relay, and the relay is the file's if it names one; and the
   router is polled exactly when the file has a section for it that names a target
   and does not switch it off (settings.rs:146, 288). *)
AcceptedIsFollowed ==
    sample.of = "file" =>
        LET settings == Config!Load(sample.file)
            push     == sample.file["push"]
            snmp     == sample.file["snmp_scanner"]
        IN  settings # None =>
                /\ Config!DeliverBy(settings) # "not configured"
                /\ Config!ConfigMethod(settings) = "push"
                       <=> Config!DeliverBy(settings) = "relay"
                /\ Config!RelayUrl(settings) = IF Spells(push, "relay_url")
                                               THEN push["relay_url"]
                                               ELSE Config!default_relay_url
                /\ Config!SnmpPolls(settings) <=>
                       /\ snmp # None
                       /\ snmp["target"] # ""
                       /\ Spells(snmp, "enabled") => snmp["enabled"]
-----------------------------------------------------------------------------
(***************************************************************************)
(* The status of the scanners.                                             *)
(***************************************************************************)
LastOf(calls, op) == SelectLastInSeq(calls, LAMBDA c : c.op = op)

(* A listener's answer counts the devices whose LATEST sighting is within the last
   hour, whoever asked before and however often (passive_status.rs:49). *)
CountsTheLastHour ==
    sample.of = "passive" =>
        LET calls  == sample.calls
            heard  == {c \in ToSet(calls) : c.op = "discover"}
            answer == Scan!PassiveResponse(Scan!PassiveAfter(calls), sample.at)
        IN  /\ answer.devices_seen =
                   Cardinality({c.mac : c \in {h \in heard : sample.at - h.t <= RecentWindow}})
            /\ answer.last_device_ago =
                   IF heard = {} THEN None ELSE sample.at - Max({h.t : h \in heard})
            /\ answer.listening_for # None <=> LastOf(calls, "listen") # 0

(* A scanner's answer says how long the scan has been running, or how long until
   the next one, never both, according to what it did last; and what its last
   finished scan found, each device once (active_status.rs:34). *)
TellsTheScanUnderWay ==
    sample.of = "active" =>
        LET calls   == sample.calls
            run     == LastOf(calls, "run")
            wait    == LastOf(calls, "wait")
            record  == LastOf(calls, "record")
            answer  == Scan!ActiveResponse(Scan!ActiveAfter(calls), sample.at)
        IN  /\ answer.running_for = IF run > wait THEN sample.at - calls[run].t ELSE None
            /\ answer.next_run_in =
                   IF wait > run THEN Max({calls[wait].next - sample.at, 0}) ELSE None
            /\ answer.last_scan_devices =
                   IF record = 0 THEN None ELSE Cardinality(ToSet(calls[record].macs))
-----------------------------------------------------------------------------
(***************************************************************************)
(* The queries.                                                            *)
(***************************************************************************)
(* pages[i]: what SQL allows page i to be.  However it chooses at each request, a row
   is on one line of one page. *)
ShownOnce(pages, row) ==
    \E i \in DOMAIN pages :
        /\ \A page \in pages[i] :
               \E k \in DOMAIN page : \A l \in DOMAIN page : page[l] = row <=> l = k
        /\ \A j \in DOMAIN pages \ {i} : \A page \in pages[j] : row \notin ToSet(page)

(* Whatever stands further down, on the same page or a later one, fits below. *)
ShownInOrder(pages, Fits(_, _)) ==
    \A i, j \in DOMAIN pages : \A page \in pages[i], later \in pages[j] :
        \A k \in DOMAIN page, l \in DOMAIN later :
            i < j \/ (i = j /\ page = later /\ k < l) => Fits(page[k], later[l])

(* Turning the pages of a list that does not change meanwhile shows every row that
   matches the filters once, and no other, from the first page to the last in the
   order asked for, and the total that comes with a page is their number, whatever
   order the database takes for rows that tie on the column sorted by
   (db/devices.rs:110). *)
PagesPartition ==
    sample.of = "devices" =>
        LET filter == Sql!DeviceFilter(sample.query)
            matching == Sql!Filtered(sample.rows, filter)
            total == Sql!CountDevices(sample.rows, filter)
            pages == [i \in 0..(total \div sample.size) |->
                         Sql!ListDevices(sample.rows, filter, sample.sort,
                                         i * sample.size, sample.size)]
            column == Sql!ResolveSortColumn(sample.sort.by)
        IN  /\ total = Cardinality(matching)
            /\ \A row \in matching : ShownOnce(pages, row)
            /\ \A i \in DOMAIN pages : \A page \in pages[i] : ToSet(page) \subseteq matching
            /\ ShownInOrder(pages, LAMBDA a, b : IF sample.sort.order = "asc"
                                                 THEN a[column] <= b[column]
                                                 ELSE a[column] >= b[column])

(* The same of a device's events: newest first, and each is read back as the
   event that was recorded (db/device_events.rs:91, model/device_events.rs:96). *)
EventsReadBack ==
    sample.of = "events" =>
        LET stored == {Sql!InsertEvent(e) : e \in sample.rows}
            wanted == {e \in sample.rows : Sql!EventMatches(e, sample.mac, sample.from)}
            pages == [i \in 0..(Cardinality(wanted) \div sample.size) |->
                         Sql!ListEvents(stored, sample.mac, sample.from,
                                        i * sample.size, sample.size)]
        IN  /\ \A e \in wanted : ShownOnce(pages, e)
            /\ \A i \in DOMAIN pages : \A page \in pages[i] : ToSet(page) \subseteq wanted
            /\ ShownInOrder(pages, LAMBDA a, b : a.created_on >= b.created_on)
-----------------------------------------------------------------------------
(***************************************************************************)
(* The texts.                                                              *)
(***************************************************************************)
Texts(device, existing) ==
    LET ip     == Store!Changed(existing.ipv4_address, device.ipv4_address)
        vendor == Store!Changed(existing.vendor, device.vendor)
    IN  <<Shown!RenderNewDevice(device), Shown!RenderBackOnline(device, "12d"),
          Shown!RenderChanged(existing, device, ip, vendor)>>

(* Alerts leave the network, through the relay and the phone's maker: their texts
   do not depend on the address of a device, nor on its MAC but for the last two
   octets (notifications/render.rs:26, 155). *)
NothingPrivate ==
    sample.of = "alert" =>
        \A o, o2 \in {m \in MacOctets : SubSeq(m, 5, 6) = <<0, 1>>},
          ip, ip2, old, old2 \in {"10.0.0.1", "10.0.0.2"} :
            LET d == sample.device
                Device(mac, address) ==
                    [mac |-> mac, ipv4_address |-> address, name |-> d.name, vendor |-> d.vendor,
                     device_type |-> d.device_type, is_registered |-> d.is_registered,
                     owner |-> d.owner]
                Before(address) == [ipv4_address |-> address, vendor |-> sample.vendor]
            IN  (ip = old <=> ip2 = old2) =>
                    Texts(Device(o, ip), Before(old)) = Texts(Device(o2, ip2), Before(old2))

(* A consolidated alert accounts for all of its devices: those it lists and those
   it only counts are as many as the title says (notifications/render.rs:190). *)
SummaryAccountsForAll ==
    sample.of = "summary text" =>
        LET text   == Shown!RenderSummary("new", sample.devices)
            At(word) == {i \in DOMAIN text.body : text.body[i].says = word}
            listed == Cardinality(At("listed"))
            more   == IF At("more") = {} THEN 0 ELSE text.body[Min(At("more"))].value
        IN  /\ text.title[1].value = Len(sample.devices)
            /\ listed + more = Len(sample.devices)
            /\ listed <= SummaryListLimit
=============================================================================
