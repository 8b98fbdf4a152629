---------------------------- MODULE AlgorithmProofs ----------------------------
(***************************************************************************)
(* Theorems about the code that computes, for inputs of any size: what is  *)
(* read out of a packet cut off anywhere, whose MAC is found for an        *)
(* announcement, the address a scan settles on, how an accepted            *)
(* configuration is followed, what a status tells of the calls made to it, *)
(* what the pages of a list show, and what the alerts tell.  A definition  *)
(* by recursion is unfolded turn by turn, by induction over the numbers    *)
(* (OrderProofs).                                                          *)
(***************************************************************************)
EXTENDS Algorithms, OrderProofs, SequenceTheorems

LEMMA LeastIsIn ==
    ASSUME NEW I \in SUBSET Nat, I # {}
    PROVE  Wire!Min(I) \in I
<1>1. \E x \in I : \A y \in I : x <= y
  BY LeastExists
<1> QED BY <1>1 DEF Wire!Min

-----------------------------------------------------------------------------
(* find on the cache's lines, and on the frames: what is found is the one looked for. *)
LEMMA LineFound ==
    ASSUME NEW S, NEW lines \in Seq(S), NEW ip, Wire!ParseProcNetArp(lines, ip) # None
    PROVE  \E line \in ToSet(lines) :
               /\ line.ip = ip /\ line.flags # "0x0" /\ line.mac.of # Wire!ZeroMac
               /\ Wire!ParseProcNetArp(lines, ip) = line.mac
<1> DEFINE I == {i \in 1..Len(lines) : lines[i].ip = ip}
           line == IF I = {} THEN None ELSE lines[Wire!Min(I)]
<1>1. I # {} => Wire!Min(I) \in I
  <2>1. I \in SUBSET Nat
    OBVIOUS
  <2> HIDE DEF I
  <2> QED BY <2>1, LeastIsIn
<1>2. Wire!ParseProcNetArp(lines, ip)
          = IF line = None THEN None
            ELSE IF line.flags = "0x0" \/ line.mac.of = Wire!ZeroMac THEN None ELSE line.mac
  BY <1>1 DEF Wire!ParseProcNetArp, Wire!FirstIn, Wire!SelectInSeq
<1>3. line # None => line \in ToSet(lines) /\ line.ip = ip
  <2>1. I # {} => Wire!Min(I) \in 1..Len(lines) /\ lines[Wire!Min(I)].ip = ip
    BY <1>1, Zenon
  <2>2. \A i \in 1..Len(lines) : lines[i] \in ToSet(lines)
    BY DEF ToSet
  <2> HIDE DEF I
  <2> QED BY <2>1, <2>2
<1> HIDE DEF line
<1> QED BY <1>2, <1>3

LEMMA ReplyFound ==
    ASSUME NEW S, NEW ip, NEW world, NEW frames \in Seq(S), world.frames = frames,
           Wire!ProbeMac(ip, world) # None
    PROVE  \E reply \in S : /\ reply.sender_ip = ip
                            /\ Wire!ProbeMac(ip, world) = Wire!FormatMac(reply.sender_mac)
<1> DEFINE I == {i \in 1..Len(frames) :
                    frames[i].arp /\ frames[i].reply /\ frames[i].sender_ip = ip}
           reply == IF I = {} THEN None ELSE frames[Wire!Min(I)]
           iface == Wire!SelectInterface(world.interfaces, world.configured)
<1>1. I # {} => Wire!Min(I) \in I
  <2>1. I \in SUBSET Nat
    OBVIOUS
  <2> HIDE DEF I
  <2> QED BY <2>1, LeastIsIn
<1>2. Wire!ProbeMac(ip, world)
          = IF iface = None \/ reply = None THEN None
            ELSE IF iface.mac = None \/ iface.ipv4 = None THEN None
            ELSE Wire!FormatMac(reply.sender_mac)
  BY <1>1 DEF Wire!ProbeMac, Wire!FirstIn, Wire!SelectInSeq
<1>3. \A i \in I : frames[i] \in S /\ frames[i].sender_ip = ip
  <2> TAKE i \in I
  <2>1. i \in 1..Len(frames) /\ frames[i].sender_ip = ip
    BY Zenon
  <2> HIDE DEF I
  <2> QED BY <2>1
<1>4. reply # None => reply \in S /\ reply.sender_ip = ip
  <2> HIDE DEF I
  <2> QED BY <1>1, <1>3
<1> HIDE DEF reply
<1> QED BY <1>2, <1>4

(* A reply that comes is found. *)
LEMMA ReplyIsFound ==
    ASSUME NEW S, None \notin S, NEW ip, NEW world, NEW frames \in Seq(S), world.frames = frames,
           NEW iface, iface = Wire!SelectInterface(world.interfaces, world.configured),
           iface # None, iface.mac # None, iface.ipv4 # None,
           \E f \in ToSet(frames) : f.arp /\ f.reply /\ f.sender_ip = ip
    PROVE  \E reply \in S : /\ reply.sender_ip = ip
                            /\ Wire!ProbeMac(ip, world) = Wire!FormatMac(reply.sender_mac)
<1> DEFINE I == {i \in 1..Len(frames) :
                    frames[i].arp /\ frames[i].reply /\ frames[i].sender_ip = ip}
           reply == frames[Wire!Min(I)]
<1>1. I \in SUBSET Nat /\ I # {}
  <2>1. PICK i \in 1..Len(frames) :
            frames[i].arp /\ frames[i].reply /\ frames[i].sender_ip = ip
    BY DEF ToSet
  <2>2. i \in I
    BY <2>1, Zenon
  <2> QED BY <2>2
<1>2. Wire!Min(I) \in I
  <2> HIDE DEF I
  <2> QED BY <1>1, LeastIsIn
<1>3. Wire!Min(I) \in 1..Len(frames) /\ reply.sender_ip = ip
  BY <1>2, Zenon
<1>4. Wire!SelectInSeq(frames, LAMBDA f : f.arp /\ f.reply /\ f.sender_ip = ip) = Wire!Min(I)
  BY <1>1, Zenon DEF Wire!SelectInSeq
<1>5. reply \in S
  BY <1>3
<1>6. Wire!Min(I) # 0
  BY <1>3
<1> HIDE DEF I
<1>7. Wire!FirstIn(frames, LAMBDA f : f.arp /\ f.reply /\ f.sender_ip = ip) = reply
  BY <1>4, <1>6 DEF Wire!FirstIn
<1> HIDE DEF reply
<1>8. Wire!ProbeMac(ip, world) = Wire!FormatMac(reply.sender_mac)
  BY <1>5, <1>7 DEF Wire!ProbeMac
<1> QED BY <1>3, <1>5, <1>8 DEF reply

(* ResolvedMacIsTheSenders of one request; own: the sender's MAC. *)
Usable(ip, cache) ==
    {l \in ToSet(cache) : l.ip = ip /\ l.flags # "0x0" /\ l.mac.of # Wire!ZeroMac}
CanProbe(iface) == iface # None /\ iface.mac # None /\ iface.ipv4 # None
Answered(ip, frames) == \E f \in ToSet(frames) : f.arp /\ f.reply /\ f.sender_ip = ip

(* resolve_mac: whatever the cache and the frames are, as long as frames tell the truth,
   the MAC found is the sender's or a usable line's, and a reply is found when no line
   can be used. *)
LEMMA ResolvesTruly ==
    ASSUME NEW truth \in Truth, NEW ip \in IpOctets, NEW world,
           NEW cache \in Seq(Lines), NEW frames \in Seq(Frames(truth)),
           world.cache = cache, world.frames = frames,
           NEW iface, iface = Wire!SelectInterface(world.interfaces, world.configured)
    PROVE  /\ Wire!ResolveMac(ip, world) \in {None, Wire!FormatMac(truth[ip])}
                                            \cup {Wire!Lower(l.mac) : l \in Usable(ip, cache)}
           /\ Usable(ip, cache) = {} /\ CanProbe(iface) /\ Answered(ip, frames)
                  => Wire!ResolveMac(ip, world) = Wire!FormatMac(truth[ip])
<1> DEFINE cached == Wire!ParseProcNetArp(cache, ip)
<1>1. CASE cached # None
  <2>1. PICK line \in Usable(ip, cache) : cached = line.mac
    BY <1>1, LineFound DEF Usable
  <2>2. Wire!ResolveMac(ip, world) = Wire!Lower(line.mac)
    BY <1>1, <2>1 DEF Wire!ResolveMac
  <2> QED BY <2>1, <2>2
<1>2. CASE cached = None
  <2>1. Wire!ResolveMac(ip, world) = Wire!ProbeMac(ip, world)
    BY <1>2 DEF Wire!ResolveMac
  <2>2. \A reply \in Frames(truth) : reply.sender_ip = ip => reply.sender_mac = truth[ip]
    BY DEF Frames
  <2>3. Wire!ProbeMac(ip, world) # None => Wire!ProbeMac(ip, world) = Wire!FormatMac(truth[ip])
    BY <2>2, ReplyFound
  <2>4. ASSUME CanProbe(iface), Answered(ip, frames)
        PROVE  Wire!ProbeMac(ip, world) = Wire!FormatMac(truth[ip])
    <3>1. None \notin Frames(truth)
      <4>1. truth \in [IpOctets -> MacOctets]
        BY DEF Truth
      <4>2. ASSUME NEW f \in Frames(truth)
            PROVE  f \in [arp: BOOLEAN, reply: BOOLEAN, sender_ip: IpOctets,
                          sender_mac: MacOctets, target_ip: IpOctets]
        BY <4>1 DEF Frames
      <4> QED BY <4>2, NoneAssumption
    <3>2. \E reply \in Frames(truth) :
              /\ reply.sender_ip = ip
              /\ Wire!ProbeMac(ip, world) = Wire!FormatMac(reply.sender_mac)
      BY <2>4, <3>1, ReplyIsFound DEF CanProbe, Answered
    <3> QED BY <2>2, <3>2
  <2> QED BY <2>1, <2>3, <2>4
<1> QED BY <1>1, <1>2

-----------------------------------------------------------------------------
(* Settings::new: what each section of an accepted file came to. *)
LEMMA SectionsAreLoaded ==
    ASSUME NEW file, NEW settings, settings = Config!Load(file), settings # None
    PROVE  /\ \A n \in DOMAIN Config!SectionOf :
                  /\ settings[n] = Config!Deserialize(n, file[n])
                  /\ settings[n] = None => n \in Config!Optional
           /\ Config!Validate(settings)
BY Zenon DEF Config!Load

(* A key the file gives hides the default, and one it leaves out does not. *)
LEMMA FilledAt ==
    ASSUME NEW given, NEW defaults, NEW k
    PROVE  /\ k \in DOMAIN given => Config!Filled(given, defaults)[k] = given[k]
           /\ k \in (DOMAIN defaults) \ DOMAIN given =>
                  Config!Filled(given, defaults)[k] = defaults[k]
BY DEF Config!Filled

(* AcceptedIsFollowed of one file. *)
RelayIs(settings, push) ==
    Config!RelayUrl(settings) = IF Spells(push, "relay_url") THEN push["relay_url"]
                                ELSE Config!default_relay_url
PollsBy(settings, snmp) ==
    Config!SnmpPolls(settings) <=> /\ snmp # None
                                   /\ snmp["target"] # ""
                                   /\ Spells(snmp, "enabled") => snmp["enabled"]

(* send_to_relay: the file's relay if it names one. *)
LEMMA RelayIsFollowed ==
    ASSUME NEW file, NEW settings, settings = Config!Load(file), settings # None,
           NEW given \in Given({"relay_url"}), file["push"] = given
    PROVE  RelayIs(settings, given)
<1> DEFINE fields == [relay_url |-> Config!default_relay_url]
<1>1. Config!SectionOf["push"] = Config!Section({}, fields, None)
      /\ "push" \in DOMAIN Config!SectionOf
  BY DEF Config!SectionOf
<1>2. /\ Config!SectionOf["push"].required = {} /\ Config!SectionOf["push"].fields = fields
      /\ Config!SectionOf["push"].absent = None
  BY <1>1 DEF Config!Section
<1>3. settings["push"] = IF given = None THEN None ELSE Config!Filled(given, fields)
  BY <1>1, <1>2, SectionsAreLoaded DEF Config!Deserialize
<1>4. CASE given = None
  BY <1>2, <1>3, <1>4 DEF Config!RelayUrl, RelayIs, Spells
<1>5. CASE given # None
  <2> DEFINE filled == Config!Filled(given, fields)
  <2>1. PICK K \in SUBSET {"relay_url"} : given \in [K -> {"", "given"}]
    BY <1>5, Zenon DEF Given
  <2>2. filled["relay_url"] = IF "relay_url" \in DOMAIN given THEN given["relay_url"]
                              ELSE Config!default_relay_url
    <3>1. DOMAIN fields = {"relay_url"} /\ fields["relay_url"] = Config!default_relay_url
      OBVIOUS
    <3> HIDE DEF fields
    <3> QED BY <3>1, FilledAt
  <2>3. filled # None
    <3> DEFINE url == filled["relay_url"]
    <3>1. url \in {"", "given", Config!default_relay_url}
      BY <2>1, <2>2
    <3>2. filled = [k \in {"relay_url"} |-> filled[k]]
      <4>1. (DOMAIN given) \cup (DOMAIN fields) = {"relay_url"}
        BY <2>1
      <4>2. filled = [k \in (DOMAIN given) \cup (DOMAIN fields) |->
                         IF k \in DOMAIN given THEN given[k] ELSE fields[k]]
        BY Zenon DEF Config!Filled
      <4> HIDE DEF filled, fields
      <4> QED BY <4>1, <4>2
    <3> HIDE DEF filled
    <3>3. filled \in [{"relay_url"} -> {"", "given", Config!default_relay_url}]
      BY <3>1, <3>2
    <3> QED BY <3>3, NoneAssumption
  <2>4. settings["push"] = filled
    BY <1>3, <1>5
  <2> HIDE DEF filled
  <2>5. Config!RelayUrl(settings) = filled["relay_url"]
    BY <2>3, <2>4 DEF Config!RelayUrl
  <2> QED BY <1>5, <2>2, <2>5 DEF RelayIs, Spells
<1> QED BY <1>4, <1>5

(* snmp::scan: no section, no poll; the section's switch is on unless it is turned off. *)
LEMMA PollingIsFollowed ==
    ASSUME NEW file, NEW settings, settings = Config!Load(file), settings # None,
           NEW given, file["snmp_scanner"] = given
    PROVE  PollsBy(settings, given)
<1> DEFINE section == Config!SectionOf["snmp_scanner"]
           snmp == settings["snmp_scanner"]
<1>1. section = Config!SnmpSection /\ "snmp_scanner" \in DOMAIN Config!SectionOf
  BY DEF Config!SectionOf
<1>2. /\ section.required = {"target", "community"} /\ section.absent.enabled = FALSE
      /\ section.fields["enabled"] = TRUE
      /\ DOMAIN section.fields = {"enabled", "wait_between_scans", "timeout"}
  <2> HIDE DEF section
  <2>1. section.required = {"target", "community"}
    BY <1>1 DEF Config!SnmpSection, Config!Section
  <2>2. section.absent.enabled = FALSE
    BY <1>1, Zenon DEF Config!SnmpSection, Config!Section
  <2>3. section.fields = [enabled |-> TRUE, wait_between_scans |-> "10m", timeout |-> "5s"]
    BY <1>1, Zenon DEF Config!SnmpSection, Config!Section
  <2> QED BY <2>1, <2>2, <2>3
<1> HIDE DEF section
<1>3. snmp = IF given = None THEN section.absent
             ELSE IF section.required \subseteq DOMAIN given
                  THEN Config!Filled(given, section.fields) ELSE None
  <2>1. snmp = Config!Deserialize("snmp_scanner", given)
    BY <1>1, SectionsAreLoaded
  <2> QED BY <2>1, Zenon DEF Config!Deserialize, section
<1>4. Config!SnmpPolls(settings) <=> snmp.enabled /\ snmp.target # ""
  BY Zenon DEF Config!SnmpPolls
<1>5. snmp # None
  <2>1. "snmp_scanner" \notin Config!Optional
    BY DEF Config!Optional
  <2> QED BY <1>1, <2>1, SectionsAreLoaded
<1> HIDE DEF snmp
<1>6. CASE given = None
  <2>1. ~snmp.enabled
    BY <1>2, <1>3, <1>6, Zenon
  <2> QED BY <1>4, <1>6, <2>1, Zenon DEF PollsBy
<1>7. CASE given # None
  <2>1. section.required \subseteq DOMAIN given /\ snmp = Config!Filled(given, section.fields)
    BY <1>3, <1>5, <1>7
  <2>2. snmp.target = given["target"]
    BY <1>2, <2>1, FilledAt
  <2>3. CASE "enabled" \in DOMAIN given
    <3>1. snmp.enabled = given["enabled"]
      BY <2>1, <2>3, FilledAt
    <3> QED BY <1>4, <1>7, <2>2, <2>3, <3>1, Zenon DEF PollsBy, Spells
  <2>4. CASE "enabled" \notin DOMAIN given
    <3>1. snmp.enabled = TRUE
      BY <1>2, <2>1, <2>4, FilledAt
    <3> QED BY <1>4, <1>7, <2>2, <2>4, <3>1, Zenon DEF PollsBy, Spells
  <2> QED BY <2>3, <2>4
<1> QED BY <1>6, <1>7

(* Settings::new, deliver and send: what is accepted is enough to deliver with, and what
   the file says is followed. *)
LEMMA LoadedIsFollowed ==
    ASSUME NEW file, NEW settings, settings = Config!Load(file), settings # None,
           file["push"] \in Given({"relay_url"})
    PROVE  /\ Config!DeliverBy(settings) # "not configured"
           /\ Config!ConfigMethod(settings) = "push" <=> Config!DeliverBy(settings) = "relay"
           /\ RelayIs(settings, file["push"])
           /\ PollsBy(settings, file["snmp_scanner"])
<1>1. /\ "push" \in DOMAIN Config!SectionOf
      /\ Config!DeliverBy(settings) # "not configured"
      /\ Config!ConfigMethod(settings) = "push" <=> Config!DeliverBy(settings) = "relay"
  BY SectionsAreLoaded
     DEF Config!SectionOf, Config!DeliverBy, Config!ConfigMethod, Config!Validate
<1> QED BY <1>1, RelayIsFollowed, PollingIsFollowed

-----------------------------------------------------------------------------
(* Two devices that differ in their addresses only, and in the octets of the MAC before
   the last two; and rows of which both addresses changed or neither. *)
Alike(d, e, row, row2) ==
    /\ d.name = e.name /\ d.vendor = e.vendor /\ d.device_type = e.device_type
    /\ d.is_registered = e.is_registered /\ d.owner = e.owner /\ row.vendor = row2.vendor
    /\ SubSeq(d.mac, Len(d.mac) - 1, Len(d.mac)) = SubSeq(e.mac, Len(e.mac) - 1, Len(e.mac))
    /\ Store!Changed(row.ipv4_address, d.ipv4_address)
           = Store!Changed(row2.ipv4_address, e.ipv4_address)

(* render.rs: the texts of such devices are the same. *)
LEMMA TextsTellTheSame ==
    ASSUME NEW d, NEW e, NEW row, NEW row2, Alike(d, e, row, row2)
    PROVE  Texts(d, row) = Texts(e, row2)
<1> USE DEF Alike
<1>1. Shown!DisplayName(d) = Shown!DisplayName(e)
  BY DEF Shown!DisplayName
<1>2. Shown!RegistrationLine(d) = Shown!RegistrationLine(e)
  BY Zenon DEF Shown!RegistrationLine
<1>3. Shown!TitleIdentity(d) = Shown!TitleIdentity(e)
  BY Zenon DEF Shown!TitleIdentity
<1>4. Shown!DeviceLines(d) = Shown!DeviceLines(e)
  BY <1>1, Zenon DEF Shown!DeviceLines
<1>5. Shown!RenderNewDevice(d) = Shown!RenderNewDevice(e)
  BY <1>3, <1>4, Zenon DEF Shown!RenderNewDevice
<1>6. Shown!RenderBackOnline(d, "12d") = Shown!RenderBackOnline(e, "12d")
  BY <1>2, <1>3, <1>4, Zenon DEF Shown!RenderBackOnline
<1> DEFINE ip == Store!Changed(row.ipv4_address, d.ipv4_address)
           vendor == Store!Changed(row.vendor, d.vendor)
<1>7. Shown!ChangeLines(row, d, ip, vendor) = Shown!ChangeLines(row2, e, ip, vendor)
  BY Zenon DEF Shown!ChangeLines, Shown!VendorLines
<1>8. Shown!RenderChanged(row, d, ip, vendor) = Shown!RenderChanged(row2, e, ip, vendor)
  <2> HIDE DEF ip, vendor
  <2> QED BY <1>1, <1>2, <1>3, <1>7, Zenon DEF Shown!RenderChanged
<1>9. /\ ip = Store!Changed(row2.ipv4_address, e.ipv4_address)
      /\ vendor = Store!Changed(row2.vendor, e.vendor)
  BY Zenon
<1> HIDE DEF ip, vendor
<1>10. Texts(d, row) = <<Shown!RenderNewDevice(d), Shown!RenderBackOnline(d, "12d"),
                         Shown!RenderChanged(row, d, ip, vendor)>>
  BY Zenon DEF Texts, ip, vendor
<1>11. Texts(e, row2) = <<Shown!RenderNewDevice(e), Shown!RenderBackOnline(e, "12d"),
                           Shown!RenderChanged(row2, e, ip, vendor)>>
  BY <1>9, Zenon DEF Texts
<1> QED BY <1>5, <1>6, <1>8, <1>10, <1>11

(* A MAC has six octets. *)
LEMMA LastOctets ==
    ASSUME NEW o \in MacOctets
    PROVE  SubSeq(o, Len(o) - 1, Len(o)) = SubSeq(o, 5, 6)
<1>1. Len(o) = 6
  BY MacAssumption
<1>2. 6 - 1 = 5
  OBVIOUS
<1> QED BY <1>1, <1>2, Zenon

(* The device of a sample, with a MAC and an address. *)
AlertOf(d, mac, address) ==
    [mac |-> mac, ipv4_address |-> address, name |-> d.name, vendor |-> d.vendor,
     device_type |-> d.device_type, is_registered |-> d.is_registered, owner |-> d.owner]

RowOf(vendor, address) == [ipv4_address |-> address, vendor |-> vendor]

LEMMA AlertsAreAlike ==
    ASSUME NEW s, NEW vendor, NEW o \in MacOctets, NEW o2 \in MacOctets,
           SubSeq(o, 5, 6) = SubSeq(o2, 5, 6),
           NEW ip, NEW ip2, NEW old, NEW old2,
           ip # "", ip2 # "", old # "", old2 # "", ip = old <=> ip2 = old2,
           NEW d, NEW e, d = AlertOf(s, o, ip), e = AlertOf(s, o2, ip2),
           NEW row, NEW row2,
           row = RowOf(vendor, old), row2 = RowOf(vendor, old2)
    PROVE  Alike(d, e, row, row2)
<1>1. /\ d.mac = o /\ d.ipv4_address = ip /\ e.mac = o2 /\ e.ipv4_address = ip2
      /\ d.name = e.name /\ d.vendor = e.vendor /\ d.device_type = e.device_type
      /\ d.owner = e.owner
  BY DEF AlertOf
<1>2. d.is_registered = e.is_registered
  <2>1. d.is_registered = s.is_registered
    BY Zenon DEF AlertOf
  <2>2. e.is_registered = s.is_registered
    BY Zenon DEF AlertOf
  <2> QED BY <2>1, <2>2, Zenon
<1>3. /\ row.ipv4_address = old /\ row2.ipv4_address = old2 /\ row.vendor = row2.vendor
  BY DEF RowOf
<1>4. /\ SubSeq(o, Len(o) - 1, Len(o)) = SubSeq(o, 5, 6)
      /\ SubSeq(o2, Len(o2) - 1, Len(o2)) = SubSeq(o2, 5, 6)
  BY LastOctets, Zenon
<1>5. SubSeq(d.mac, Len(d.mac) - 1, Len(d.mac)) = SubSeq(e.mac, Len(e.mac) - 1, Len(e.mac))
  BY <1>1, <1>4, Zenon
<1>6. Store!Changed(old, ip) = Store!Changed(old2, ip2)
  BY DEF Store!Changed
<1>7. Store!Changed(row.ipv4_address, d.ipv4_address)
          = Store!Changed(row2.ipv4_address, e.ipv4_address)
  BY <1>1, <1>3, <1>6, Zenon
<1> QED BY <1>1, <1>2, <1>3, <1>5, <1>7, Zenon DEF Alike

LEMMA AlikeAlertsTellTheSame ==
    ASSUME NEW s, NEW vendor, NEW o, NEW o2, NEW ip, NEW ip2, NEW old, NEW old2,
           Alike(AlertOf(s, o, ip), AlertOf(s, o2, ip2),
                 RowOf(vendor, old), RowOf(vendor, old2))
    PROVE  Texts(AlertOf(s, o, ip), RowOf(vendor, old))
               = Texts(AlertOf(s, o2, ip2), RowOf(vendor, old2))
BY TextsTellTheSame

LEMMA NothingIsPrivate == NothingPrivate
<1> SUFFICES ASSUME sample.of = "alert",
                    NEW o \in {m \in MacOctets : SubSeq(m, 5, 6) = <<0, 1>>},
                    NEW o2 \in {m \in MacOctets : SubSeq(m, 5, 6) = <<0, 1>>},
                    NEW ip \in {"10.0.0.1", "10.0.0.2"}, NEW ip2 \in {"10.0.0.1", "10.0.0.2"},
                    NEW old \in {"10.0.0.1", "10.0.0.2"}, NEW old2 \in {"10.0.0.1", "10.0.0.2"},
                    ip = old <=> ip2 = old2
             PROVE  Texts(AlertOf(sample.device, o, ip), RowOf(sample.vendor, old))
                      = Texts(AlertOf(sample.device, o2, ip2), RowOf(sample.vendor, old2))
  BY Zenon DEF NothingPrivate, AlertOf, RowOf
<1>1. /\ o \in MacOctets /\ o2 \in MacOctets /\ SubSeq(o, 5, 6) = SubSeq(o2, 5, 6)
      /\ ip # "" /\ ip2 # "" /\ old # "" /\ old2 # ""
  OBVIOUS
<1>2. Alike(AlertOf(sample.device, o, ip), AlertOf(sample.device, o2, ip2),
            RowOf(sample.vendor, old), RowOf(sample.vendor, old2))
  BY <1>1, AlertsAreAlike
<1> QED BY <1>2, AlikeAlertsTellTheSame

-----------------------------------------------------------------------------
LEMMA BoundedSeqsAreSeqs ==
    ASSUME NEW S, NEW n \in Nat, NEW s \in BoundedSeq(S, n)
    PROVE  s \in Seq(S)
<1>1. PICK m \in 0..n : s \in [1..m -> S]
  BY Zenon DEF BoundedSeq, SeqOf
<1> QED BY <1>1, SeqDef

LEMMA BoundedSeqsAreShort ==
    ASSUME NEW S, NEW n \in Nat, NEW s \in BoundedSeq(S, n)
    PROVE  Len(s) \in 0..n
<1>1. PICK m \in 0..n : s \in [1..m -> S]
  BY Zenon DEF BoundedSeq, SeqOf
<1> QED BY <1>1

(* What a behaviour has taken says which inputs it was taken from. *)
LEMMA KindOf ==
    ASSUME Next
    PROVE  \/ DhcpPacket /\ sample'.of = "dhcp"
           \/ SnmpWalk /\ sample'.of = "snmp"
           \/ Resolution /\ sample'.of = "resolve"
           \/ SsdpAnnouncement /\ sample'.of = "ssdp"
           \/ MdnsAnnouncement /\ sample'.of = "mdns"
           \/ ArpScan /\ sample'.of = "arp"
           \/ ConfigFile /\ sample'.of = "file"
           \/ PassiveHistory /\ sample'.of = "passive"
           \/ ActiveHistory /\ sample'.of = "active"
           \/ DeviceListing /\ sample'.of = "devices"
           \/ EventListing /\ sample'.of = "events"
           \/ Alert /\ sample'.of = "alert"
           \/ Consolidation /\ sample'.of = "summary text"
<1>1. ASSUME DhcpPacket PROVE sample'.of = "dhcp"
  <2>1. PICK chunks, cut, packet :
            sample' = [of |-> "dhcp", chunks |-> chunks, cut |-> cut, packet |-> packet]
    BY <1>1, Zenon DEF DhcpPacket, Take
  <2> QED BY <2>1
<1>2. ASSUME SnmpWalk PROVE sample'.of = "snmp"
  BY <1>2 DEF SnmpWalk, Take
<1>3. ASSUME Resolution PROVE sample'.of = "resolve"
  BY <1>3 DEF Resolution, Take
<1>4. ASSUME SsdpAnnouncement PROVE sample'.of = "ssdp"
  BY <1>4 DEF SsdpAnnouncement, Take
<1>5. ASSUME MdnsAnnouncement PROVE sample'.of = "mdns"
  BY <1>5 DEF MdnsAnnouncement, Take
<1>6. ASSUME ArpScan PROVE sample'.of = "arp"
  BY <1>6 DEF ArpScan, Take
<1>7. ASSUME ConfigFile PROVE sample'.of = "file"
  <2>1. PICK file : sample' = [of |-> "file", file |-> file]
    BY <1>7, Zenon DEF ConfigFile, Take
  <2> QED BY <2>1
<1>8. ASSUME PassiveHistory PROVE sample'.of = "passive"
  BY <1>8 DEF PassiveHistory, Take
<1>9. ASSUME ActiveHistory PROVE sample'.of = "active"
  BY <1>9 DEF ActiveHistory, Take
<1>10. ASSUME DeviceListing PROVE sample'.of = "devices"
  BY <1>10 DEF DeviceListing, Take
<1>11. ASSUME EventListing PROVE sample'.of = "events"
  BY <1>11 DEF EventListing, Take
<1>12. ASSUME Alert PROVE sample'.of = "alert"
  <2>1. PICK d, vendor : sample' = [of |-> "alert", device |-> d, vendor |-> vendor]
    BY <1>12, Zenon DEF Alert, Take
  <2> QED BY <2>1
<1>13. ASSUME Consolidation PROVE sample'.of = "summary text"
  <2>1. PICK devices : sample' = [of |-> "summary text", devices |-> devices]
    BY <1>13, Zenon DEF Consolidation, Take
  <2> QED BY <2>1
<1> QED BY <1>1, <1>2, <1>3, <1>4, <1>5, <1>6, <1>7, <1>8, <1>9, <1>10, <1>11, <1>12, <1>13,
           Zenon DEF Next

(* Wherever a sample says what it is for, it is an input of that action. *)
LEMMA SamplesAreInputs ==
    ASSUME Next
    PROVE  /\ sample'.of = "resolve" =>
                  \E truth \in Truth, ip \in IpOctets :
                      /\ sample'.truth = truth /\ sample'.ip = ip
                      /\ sample'.world.cache \in Seq(Lines)
                      /\ sample'.world.frames \in Seq(Frames(truth))
           /\ sample'.of = "file" => sample'.file["push"] \in Given({"relay_url"})
<1>1. CASE Resolution
  <2>1. PICK truth \in Truth, ip \in IpOctets, interfaces \in BoundedSeq(Interface, MaxFew),
             configured \in {None, "eth0"} :
             \E cache \in BoundedSeq(Lines, MaxKnown) :
                 \E frames \in BoundedSeq(Frames(truth), MaxKnown - Len(cache)) :
                     Take([of |-> "resolve", truth |-> truth, ip |-> ip,
                           world |-> [cache |-> cache, frames |-> frames,
                                      interfaces |-> interfaces, configured |-> configured]])
    BY <1>1, Zenon DEF Resolution
  <2>2. PICK cache \in BoundedSeq(Lines, MaxKnown) :
             \E frames \in BoundedSeq(Frames(truth), MaxKnown - Len(cache)) :
                 sample' = [of |-> "resolve", truth |-> truth, ip |-> ip,
                            world |-> [cache |-> cache, frames |-> frames,
                                       interfaces |-> interfaces, configured |-> configured]]
    BY <2>1, Zenon DEF Take
  <2>3. PICK frames \in BoundedSeq(Frames(truth), MaxKnown - Len(cache)) :
            sample' = [of |-> "resolve", truth |-> truth, ip |-> ip,
                       world |-> [cache |-> cache, frames |-> frames,
                                  interfaces |-> interfaces, configured |-> configured]]
    BY <2>2, Zenon
  <2>4. cache \in Seq(Lines) /\ Len(cache) \in 0..MaxKnown
    BY BoundsAssumption, BoundedSeqsAreSeqs, BoundedSeqsAreShort
  <2>5. frames \in Seq(Frames(truth))
    <3> DEFINE left == MaxKnown - Len(cache)
    <3>1. left \in Nat
      <4>1. \A n \in 0..MaxKnown : MaxKnown - n \in Nat
        BY BoundsAssumption
      <4> QED BY <2>4, <4>1, Zenon
    <3>2. frames \in BoundedSeq(Frames(truth), left)
      BY Zenon
    <3> HIDE DEF left
    <3> QED BY <3>1, <3>2, BoundedSeqsAreSeqs
  <2> QED BY <2>3, <2>4, <2>5
<1>2. CASE ConfigFile
  <2> DEFINE File(database, web_server, pushover, push, snmp, notifications) ==
               [n \in DOMAIN Config!SectionOf |->
                   CASE n = "database"      -> database
                     [] n = "web_server"    -> web_server
                     [] n = "pushover"      -> pushover
                     [] n = "push"          -> push
                     [] n = "snmp_scanner"  -> snmp
                     [] n = "notifications" -> notifications
                     [] OTHER -> None]
  <2>1. PICK database \in Given({"path"}), web_server \in Given({"api_key"}),
             pushover \in Given({"token", "user_key"}), push \in Given({"relay_url"}),
             snmp \in Switched({"target", "community"}),
             notifications \in {None, Config!Nothing}
                 \cup {[method |-> m] : m \in {"push", "pushover", "Pushover", "none"}} :
             sample' = [of |-> "file",
                        file |-> File(database, web_server, pushover, push, snmp, notifications)]
    BY <1>2 DEF ConfigFile, Take
  <2>2. "push" \in DOMAIN Config!SectionOf
    BY DEF Config!SectionOf
  <2>3. File(database, web_server, pushover, push, snmp, notifications)["push"] = push
    BY <2>2
  <2> HIDE DEF File
  <2> QED BY <2>1, <2>3
<1>3. ASSUME ~Resolution, ~ConfigFile
      PROVE  sample'.of # "resolve" /\ sample'.of # "file"
  BY <1>3, KindOf
<1> QED BY <1>1, <1>2, <1>3

-----------------------------------------------------------------------------
(* However long the cache, complete lines out of date included, and whatever the frames,
   the MAC found for the sender of an announcement is its own or one a usable line of its
   address tells, and its reply is found when there is no such line (resolve_mac,
   utils/network.rs:34). *)
THEOREM MacsAreTheSenders == Spec => []ResolvedMacIsTheSenders
<1>1. Init => ResolvedMacIsTheSenders
  <2>1. Init => sample.of # "resolve"
    BY DEF Init
  <2> QED BY <2>1, Zenon DEF ResolvedMacIsTheSenders
<1>2. ResolvedMacIsTheSenders /\ [Next]_sample => ResolvedMacIsTheSenders'
  <2> SUFFICES ASSUME ResolvedMacIsTheSenders, [Next]_sample PROVE ResolvedMacIsTheSenders'
    OBVIOUS
  <2>1. CASE UNCHANGED sample
    BY <2>1, Zenon DEF ResolvedMacIsTheSenders
  <2>2. CASE Next
    <3> SUFFICES ASSUME sample'.of = "resolve" PROVE ResolvedMacIsTheSenders'
      BY Zenon DEF ResolvedMacIsTheSenders
    <3>1. PICK truth \in Truth, ip \in IpOctets :
              /\ sample'.truth = truth /\ sample'.ip = ip
              /\ sample'.world.cache \in Seq(Lines)
              /\ sample'.world.frames \in Seq(Frames(truth))
      BY <2>2, SamplesAreInputs
    <3>2. PICK world : world = sample'.world
      OBVIOUS
    <3>3. PICK cache, frames : cache = world.cache /\ frames = world.frames
      OBVIOUS
    <3>4. PICK iface : iface = Wire!SelectInterface(world.interfaces, world.configured)
      OBVIOUS
    <3>5. cache \in Seq(Lines) /\ frames \in Seq(Frames(truth))
      BY <3>1, <3>2, <3>3
    <3>6. /\ Wire!ResolveMac(ip, world) \in {None, Wire!FormatMac(truth[ip])}
                                          \cup {Wire!Lower(l.mac) : l \in Usable(ip, cache)}
          /\ Usable(ip, cache) = {} /\ CanProbe(iface) /\ Answered(ip, frames)
                 => Wire!ResolveMac(ip, world) = Wire!FormatMac(truth[ip])
      BY <3>3, <3>4, <3>5, ResolvesTruly, Zenon
    <3> QED BY <3>1, <3>2, <3>3, <3>4, <3>6, Zenon
            DEF ResolvedMacIsTheSenders, Usable, CanProbe, Answered
  <2> QED BY <2>1, <2>2
<1> QED BY <1>1, <1>2, PTL DEF Spec

(* Under every file the program starts with, the delivery has the section its method
   needs, alerts go to the relay the file names, or to the default one, and the router is
   polled as the file says (Settings::new, settings.rs:288; snmp/scanner.rs:16). *)
THEOREM AcceptedFilesAreFollowed == Spec => []AcceptedIsFollowed
<1>1. Init => AcceptedIsFollowed
  <2>1. Init => sample.of # "file"
    BY DEF Init
  <2> QED BY <2>1, Zenon DEF AcceptedIsFollowed
<1>2. AcceptedIsFollowed /\ [Next]_sample => AcceptedIsFollowed'
  <2> SUFFICES ASSUME AcceptedIsFollowed, [Next]_sample PROVE AcceptedIsFollowed'
    OBVIOUS
  <2>1. CASE UNCHANGED sample
    BY <2>1, Zenon DEF AcceptedIsFollowed
  <2>2. CASE Next
    <3> SUFFICES ASSUME sample'.of = "file" PROVE AcceptedIsFollowed'
      BY Zenon DEF AcceptedIsFollowed
    <3>1. PICK file : file = sample'.file
      OBVIOUS
    <3>2. file["push"] \in Given({"relay_url"})
      BY <2>2, <3>1, SamplesAreInputs
    <3>3. PICK settings : settings = Config!Load(file)
      OBVIOUS
    <3>4. settings # None =>
              /\ Config!DeliverBy(settings) # "not configured"
              /\ Config!ConfigMethod(settings) = "push" <=> Config!DeliverBy(settings) = "relay"
              /\ RelayIs(settings, file["push"])
              /\ PollsBy(settings, file["snmp_scanner"])
      BY <3>2, <3>3, LoadedIsFollowed
    <3> QED BY <3>1, <3>3, <3>4, Zenon DEF AcceptedIsFollowed, RelayIs, PollsBy
  <2> QED BY <2>1, <2>2
<1> QED BY <1>1, <1>2, PTL DEF Spec

(* The texts of an alert do not depend on the device's address, nor on its MAC but for
   the last two octets (notifications/render.rs:26, 155). *)
THEOREM AlertsTellNothingPrivate == Spec => []NothingPrivate
<1>1. NothingPrivate
  BY NothingIsPrivate
<1> QED BY <1>1, PTL

-----------------------------------------------------------------------------
(* The device lines of a summary, and the line that counts the others. *)
LEMMA SummaryIs ==
    ASSUME NEW S, NEW devices \in Seq(S)
    PROVE  LET text == Shown!RenderSummary("new", devices)
               At(word) == {i \in DOMAIN text.body : text.body[i].says = word}
               listed == Cardinality(At("listed"))
               more   == IF At("more") = {} THEN 0 ELSE text.body[Min(At("more"))].value
           IN  /\ text.title[1].value = Len(devices)
               /\ listed + more = Len(devices)
               /\ listed <= SummaryListLimit
<1> DEFINE n == Len(devices)
           over == n > SummaryListLimit
           k == IF over THEN SummaryListLimit ELSE n
           listed == SubSeq(devices, 1, k)
           A == [i \in DOMAIN listed |-> Shown!SummaryDeviceLine(listed[i])]
           B == IF over THEN <<Shown!Line("more", n - SummaryListLimit)>> ELSE <<>>
           text == Shown!RenderSummary("new", devices)
           body == text.body
           At(word) == {i \in DOMAIN body : body[i].says = word}
           more == IF At("more") = {} THEN 0 ELSE body[Min(At("more"))].value
<1>1. n \in Nat /\ SummaryListLimit \in Nat /\ k \in 0..n /\ k <= SummaryListLimit
  BY SummaryAssumption
<1>c. Cardinality(1..k) = k
  <2> HIDE DEF k
  <2> QED BY <1>1, FS_Interval
<1>2. DOMAIN listed = 1..k
  <2> HIDE DEF k
  <2> QED BY <1>1
<1> HIDE DEF listed
<1>3. /\ DOMAIN A = 1..k /\ Len(A) = k /\ A \in Seq({A[i] : i \in 1..k})
      /\ \A i \in 1..k : A[i].says = "listed"
  <2>1. \A i \in 1..k : A[i].says = "listed"
    BY <1>2 DEF Shown!SummaryDeviceLine, Shown!Line
  <2>2. DOMAIN A = 1..k
    BY <1>2
  <2>3. A \in [1..k -> {A[i] : i \in 1..k}]
    BY <1>2
  <2> HIDE DEF A, k
  <2> QED BY <1>1, <2>1, <2>2, <2>3
<1>4. body = A \o B
  BY DEF Shown!RenderSummary, Shown!DeviceSummary, listed
<1>t. text.title[1].value = n
  BY DEF Shown!RenderSummary, Shown!Line
<1> HIDE DEF A, text
<1>5. CASE over
  <2>1. B = <<Shown!Line("more", n - SummaryListLimit)>> /\ k = SummaryListLimit
    BY <1>5
  <2> DEFINE last == Shown!Line("more", n - SummaryListLimit)
  <2>2. last.says = "more" /\ last.value = n - SummaryListLimit
    BY DEF Shown!Line
  <2> HIDE DEF last, k, n
  <2>3. /\ DOMAIN body = 1..(k + 1)
        /\ \A i \in 1..k : body[i] = A[i]
        /\ body[k + 1] = last
    <3>1. body = A \o <<last>>
      BY <1>4, <2>1 DEF last
    <3> QED BY <1>1, <1>3, <3>1
  <2>4. At("listed") = 1..k /\ At("more") = {k + 1}
    BY <1>1, <1>3, <2>2, <2>3
  <2>5. Cardinality(At("listed")) = k
    BY <1>c, <2>4
  <2>6. Min(At("more")) = k + 1
    BY <1>1, <2>4 DEF Min
  <2>7. more = n - SummaryListLimit
    BY <2>2, <2>3, <2>4, <2>6
  <2> HIDE DEF At, more, body
  <2>8. Cardinality(At("listed")) + more = n /\ Cardinality(At("listed")) <= SummaryListLimit
    BY <1>1, <2>1, <2>5, <2>7
  <2> QED BY <1>t, <2>8 DEF At, more, body, n, text
<1>6. CASE ~over
  <2>1. body = A \o <<>> /\ k = n
    BY <1>4, <1>6
  <2> HIDE DEF k, n
  <2>2. body = A
    BY <1>3, <2>1
  <2>3. At("listed") = 1..k /\ At("more") = {}
    BY <1>3, <2>2
  <2>4. Cardinality(At("listed")) = k
    BY <1>c, <2>3
  <2>5. more = 0
    BY <2>3
  <2> HIDE DEF At, more, body
  <2>6. Cardinality(At("listed")) + more = n /\ Cardinality(At("listed")) <= SummaryListLimit
    BY <1>1, <2>1, <2>4, <2>5
  <2> QED BY <1>t, <2>6 DEF At, more, body, n, text
<1>7. over \/ ~over
  OBVIOUS
<1> QED BY <1>5, <1>6, <1>7 DEF text

(* However many devices a consolidated alert is about, those it lists and those it only
   counts are as many as its title says (notifications/render.rs:190). *)
THEOREM SummariesAccountForAll == Spec => []SummaryAccountsForAll
<1>1. Init => SummaryAccountsForAll
  <2>1. Init => sample.of # "summary text"
    BY DEF Init
  <2> QED BY <2>1, Zenon DEF SummaryAccountsForAll
<1>2. SummaryAccountsForAll /\ [Next]_sample => SummaryAccountsForAll'
  <2> SUFFICES ASSUME SummaryAccountsForAll, [Next]_sample PROVE SummaryAccountsForAll'
    OBVIOUS
  <2>1. CASE UNCHANGED sample
    BY <2>1, Zenon DEF SummaryAccountsForAll
  <2>2. CASE Next
    <3> SUFFICES ASSUME sample'.of = "summary text" PROVE SummaryAccountsForAll'
      BY Zenon DEF SummaryAccountsForAll
    <3>1. Consolidation
      BY <2>2, KindOf
    <3> DEFINE S == [name: {None, "nas"}, vendor: {""}, device_type: {""}]
    <3>2. PICK devices \in BoundedSeq(S, MaxListed) :
              sample' = [of |-> "summary text", devices |-> devices]
      BY <3>1, Zenon DEF Consolidation, Take
    <3> HIDE DEF S
    <3>3. devices \in Seq(S)
      BY BoundsAssumption, BoundedSeqsAreSeqs
    <3>4. sample'.devices \in Seq(S)
      BY <3>2, <3>3
    <3> QED BY <3>4, SummaryIs, Zenon DEF SummaryAccountsForAll
  <2> QED BY <2>1, <2>2
<1> QED BY <1>1, <1>2, PTL DEF Spec

-----------------------------------------------------------------------------
(* The status after a history of calls, call by call; by induction on the calls
   there is a function that satisfies the recursion. *)
LEMMA PassiveUnfolds ==
    ASSUME NEW calls, Len(calls) \in Nat
    PROVE  \E s : /\ s[0] = None
                  /\ \A n \in 1..Len(calls) : s[n] = Scan!PassiveCall(s[n - 1], calls[n])
                  /\ Scan!PassiveAfter(calls) = s[Len(calls)]
<1> DEFINE Unfolded(s, k) ==
               s = [n \in 0..k |-> IF n = 0 THEN None ELSE Scan!PassiveCall(s[n - 1], calls[n])]
           P == {k \in Nat : \E s : Unfolded(s, k)}
<1>1. 0 \in P
  <2> DEFINE s == [n \in 0..0 |-> None]
  <2>1. Unfolded(s, 0)
    OBVIOUS
  <2> HIDE DEF s, Unfolded
  <2> QED BY <2>1
<1>2. ASSUME NEW k \in P
      PROVE  k + 1 \in P
  <2>0. k \in Nat
    OBVIOUS
  <2>1. PICK s : Unfolded(s, k)
    OBVIOUS
  <2> DEFINE l == [n \in 0..(k + 1) |-> IF n = k + 1 THEN Scan!PassiveCall(s[k], calls[k + 1])
                                        ELSE s[n]]
  <2>2. ASSUME NEW n \in 0..(k + 1)
        PROVE  l[n] = IF n = 0 THEN None ELSE Scan!PassiveCall(l[n - 1], calls[n])
    <3>1. CASE n = 0
      BY <2>0, <2>1, <3>1
    <3>2. CASE n \in 1..k
      <4>1. l[n] = s[n] /\ l[n - 1] = s[n - 1]
        BY <2>0, <3>2
      <4>2. s[n] = Scan!PassiveCall(s[n - 1], calls[n])
        BY <2>0, <2>1, <3>2
      <4> QED BY <3>2, <4>1, <4>2
    <3>3. CASE n = k + 1
      BY <2>0, <3>3
    <3> QED BY <2>0, <3>1, <3>2, <3>3
  <2>3. Unfolded(l, k + 1)
    BY <2>2
  <2> HIDE DEF l, Unfolded
  <2> QED BY <2>0, <2>3
<1>3. P = Nat
  <2>1. P \in SUBSET Nat
    OBVIOUS
  <2> HIDE DEF P
  <2> QED BY <1>1, <1>2, <2>1, Induction
<1> DEFINE after == CHOOSE s : Unfolded(s, Len(calls))
<1>4. Unfolded(after, Len(calls))
  <2>1. \E s : Unfolded(s, Len(calls))
    BY <1>3
  <2> HIDE DEF Unfolded
  <2> QED BY <2>1
<1>5. Scan!PassiveAfter(calls) = after[Len(calls)]
  BY DEF Scan!PassiveAfter
<1> HIDE DEF after
<1>6. /\ after[0] = None
      /\ \A n \in 1..Len(calls) : after[n] = Scan!PassiveCall(after[n - 1], calls[n])
  BY <1>4
<1> QED BY <1>5, <1>6

LEMMA ActiveUnfolds ==
    ASSUME NEW calls, Len(calls) \in Nat
    PROVE  \E s : /\ s[0] = None
                  /\ \A n \in 1..Len(calls) : s[n] = Scan!ActiveCall(s[n - 1], calls[n])
                  /\ Scan!ActiveAfter(calls) = s[Len(calls)]
<1> DEFINE Unfolded(s, k) ==
               s = [n \in 0..k |-> IF n = 0 THEN None ELSE Scan!ActiveCall(s[n - 1], calls[n])]
           P == {k \in Nat : \E s : Unfolded(s, k)}
<1>1. 0 \in P
  <2> DEFINE s == [n \in 0..0 |-> None]
  <2>1. Unfolded(s, 0)
    OBVIOUS
  <2> HIDE DEF s, Unfolded
  <2> QED BY <2>1
<1>2. ASSUME NEW k \in P
      PROVE  k + 1 \in P
  <2>0. k \in Nat
    OBVIOUS
  <2>1. PICK s : Unfolded(s, k)
    OBVIOUS
  <2> DEFINE l == [n \in 0..(k + 1) |-> IF n = k + 1 THEN Scan!ActiveCall(s[k], calls[k + 1])
                                        ELSE s[n]]
  <2>2. ASSUME NEW n \in 0..(k + 1)
        PROVE  l[n] = IF n = 0 THEN None ELSE Scan!ActiveCall(l[n - 1], calls[n])
    <3>1. CASE n = 0
      BY <2>0, <2>1, <3>1
    <3>2. CASE n \in 1..k
      <4>1. l[n] = s[n] /\ l[n - 1] = s[n - 1]
        BY <2>0, <3>2
      <4>2. s[n] = Scan!ActiveCall(s[n - 1], calls[n])
        BY <2>0, <2>1, <3>2
      <4> QED BY <3>2, <4>1, <4>2
    <3>3. CASE n = k + 1
      BY <2>0, <3>3
    <3> QED BY <2>0, <3>1, <3>2, <3>3
  <2>3. Unfolded(l, k + 1)
    BY <2>2
  <2> HIDE DEF l, Unfolded
  <2> QED BY <2>0, <2>3
<1>3. P = Nat
  <2>1. P \in SUBSET Nat
    OBVIOUS
  <2> HIDE DEF P
  <2> QED BY <1>1, <1>2, <2>1, Induction
<1> DEFINE after == CHOOSE s : Unfolded(s, Len(calls))
<1>4. Unfolded(after, Len(calls))
  <2>1. \E s : Unfolded(s, Len(calls))
    BY <1>3
  <2> HIDE DEF Unfolded
  <2> QED BY <2>1
<1>5. Scan!ActiveAfter(calls) = after[Len(calls)]
  BY DEF Scan!ActiveAfter
<1> HIDE DEF after
<1>6. /\ after[0] = None
      /\ \A n \in 1..Len(calls) : after[n] = Scan!ActiveCall(after[n - 1], calls[n])
  BY <1>4
<1> QED BY <1>5, <1>6

-----------------------------------------------------------------------------
PassiveInput == [op: {"init", "listen", "discover", "get"}, mac: Macs, t: Instants]

(* n calls of a listener, in the order of their times, the first the one that
   initialises its status. *)
PassiveCalls(calls, n) ==
    /\ n \in Nat \ {0} /\ DOMAIN calls = 1..n /\ Len(calls) = n
    /\ calls[1] = [op |-> "init", t |-> 0]
    /\ \A i \in 2..n : calls[i] \in PassiveInput
    /\ \A i, j \in 1..n : i < j => calls[i].t <= calls[j].t

Heard(calls, k) == {j \in 2..k : calls[j].op = "discover"}

(* What a listener's status says of its first k calls. *)
PassiveTold(s, calls, k) ==
    /\ s \in Scan!PassiveStatus(Macs)
    /\ s.is_listening = TRUE <=> \E j \in 2..k : calls[j].op = "listen"
    /\ s.is_listening = TRUE => s.listening_since \in Int
    /\ \A m \in DOMAIN s.recent_sightings :
           \E j \in Heard(calls, k) : calls[j].mac = m /\ calls[j].t = s.recent_sightings[m]
    /\ \A j \in Heard(calls, k) :
           \/ /\ calls[j].mac \in DOMAIN s.recent_sightings
              /\ s.recent_sightings[calls[j].mac] >= calls[j].t
           \/ calls[j].t < calls[k].t - RecentWindow
    /\ s.last_discovery_at = None <=> Heard(calls, k) = {}
    /\ \A j \in Heard(calls, k) : calls[j].t <= s.last_discovery_at
    /\ s.last_discovery_at # None => \E j \in Heard(calls, k) : calls[j].t = s.last_discovery_at

LEMMA PassiveStart ==
    ASSUME NEW calls, NEW n, PassiveCalls(calls, n)
    PROVE  PassiveTold(Scan!PassiveCall(None, calls[1]), calls, 1)
<1>1. Scan!PassiveCall(None, calls[1]) = Scan!NewPassive
  BY DEF PassiveCalls, Scan!PassiveCall
<1> DEFINE s == Scan!NewPassive
<1>2. /\ s.is_listening = FALSE /\ s.listening_since = None
      /\ s.recent_sightings = [m \in {} |-> 0] /\ s.last_discovery_at = None
  BY DEF Scan!NewPassive
<1>3. s \in Scan!PassiveStatus(Macs)
  <2>1. [m \in {} |-> 0] \in UNION {[M -> Int] : M \in SUBSET Macs}
    <3>1. [m \in {} |-> 0] \in [{} -> Int]
      OBVIOUS
    <3> QED BY <3>1
  <2> QED BY <2>1 DEF Scan!PassiveStatus, Scan!NewPassive
<1>4. Heard(calls, 1) = {} /\ 2..1 = {}
  BY DEF Heard
<1> HIDE DEF s
<1> QED BY <1>1, <1>2, <1>3, <1>4 DEF PassiveTold, s

LEMMA PassiveStep ==
    ASSUME NEW calls, NEW n, PassiveCalls(calls, n), NEW k \in 1..n, k < n,
           NEW s, PassiveTold(s, calls, k)
    PROVE  PassiveTold(Scan!PassiveCall(s, calls[k + 1]), calls, k + 1)
<1> DEFINE c == calls[k + 1]
           d == Scan!PassiveCall(s, c)
<1>0. k \in Nat /\ n \in Nat /\ RecentWindow \in Nat /\ k + 1 \in 2..n
  BY StatusAssumption DEF PassiveCalls
<1>1. c \in PassiveInput /\ c.op \in {"init", "listen", "discover", "get"} /\ c.t \in Int
  BY <1>0, BoundsAssumption DEF PassiveCalls, PassiveInput, Instants
<1>2. \A j \in 2..k : calls[j] \in PassiveInput /\ calls[j].t \in Int /\ calls[j].mac \in Macs
  BY <1>0, BoundsAssumption DEF PassiveCalls, PassiveInput, Instants
<1>3. \A j \in 2..k : calls[j].t <= c.t
  BY <1>0 DEF PassiveCalls
<1>4. calls[k].t <= c.t /\ calls[k].t \in Int
  <2>1. CASE k = 1
    BY <1>0, <2>1 DEF PassiveCalls
  <2>2. CASE k \in 2..k
    BY <1>2, <1>3, <2>2
  <2> QED BY <1>0, <2>1, <2>2
<1>5. s # None /\ s \in Scan!PassiveStatus(Macs)
  BY StatusAssumption DEF PassiveTold
<1>6. 2..(k + 1) = (2..k) \cup {k + 1}
  BY <1>0
<1>7. Heard(calls, k + 1) = Heard(calls, k) \cup {j \in {k + 1} : c.op = "discover"}
  BY <1>6 DEF Heard
<1>8. /\ s.is_listening \in BOOLEAN /\ s.listening_since \in Int \cup {None}
      /\ s.last_discovery_at \in Int \cup {None}
      /\ s.recent_sightings \in UNION {[M -> Int] : M \in SUBSET Macs}
  BY <1>5 DEF Scan!PassiveStatus
<1>9. PICK M \in SUBSET Macs : s.recent_sightings \in [M -> Int]
  BY <1>8
<1>p. /\ \A j \in Heard(calls, k) : j \in 2..k
      /\ \A j \in Heard(calls, k) :
           \/ /\ calls[j].mac \in DOMAIN s.recent_sightings
              /\ s.recent_sightings[calls[j].mac] >= calls[j].t
           \/ calls[j].t < c.t - RecentWindow
  <2>1. \A j \in Heard(calls, k) : j \in 2..k
    BY DEF Heard
  <2>2. \A j \in Heard(calls, k) : calls[j].t < calls[k].t - RecentWindow
                                       => calls[j].t < c.t - RecentWindow
    BY <1>0, <1>1, <1>2, <1>4, <2>1
  <2> QED BY <2>1, <2>2 DEF PassiveTold
<1>10. CASE c.op = "init"
  <2>1. d = s
    BY <1>5, <1>10 DEF Scan!PassiveCall
  <2>2. Heard(calls, k + 1) = Heard(calls, k)
    BY <1>7, <1>10
  <2>3. (\E j \in 2..(k + 1) : calls[j].op = "listen") <=> \E j \in 2..k : calls[j].op = "listen"
    BY <1>6, <1>10
  <2> HIDE DEF d, c
  <2> QED BY <1>p, <2>1, <2>2, <2>3 DEF PassiveTold, c, d
<1>11. CASE c.op = "listen"
  <2>1. d = [s EXCEPT !.is_listening = TRUE, !.listening_since = c.t]
    BY <1>5, <1>11 DEF Scan!PassiveCall, Scan!SetListening
  <2>2. Heard(calls, k + 1) = Heard(calls, k)
    BY <1>7, <1>11
  <2>3. \E j \in 2..(k + 1) : calls[j].op = "listen"
    BY <1>6, <1>11
  <2>4. /\ d \in Scan!PassiveStatus(Macs) /\ d.is_listening = TRUE /\ d.listening_since = c.t
        /\ d.recent_sightings = s.recent_sightings /\ d.last_discovery_at = s.last_discovery_at
    BY <1>1, <1>5, <2>1 DEF Scan!PassiveStatus
  <2> HIDE DEF d, c
  <2> QED BY <1>1, <1>p, <2>2, <2>3, <2>4 DEF PassiveTold, c, d
<1>12. CASE c.op = "discover"
  <2> DEFINE r == [m \in M \cup {c.mac} |-> IF m = c.mac THEN c.t ELSE s.recent_sightings[m]]
  <2>1. d = [s EXCEPT !.recent_sightings = r, !.last_discovery_at = c.t]
    BY <1>5, <1>9, <1>12 DEF Scan!PassiveCall, Scan!RecordDiscovery, Scan!PassiveStatus
  <2>2. Heard(calls, k + 1) = Heard(calls, k) \cup {k + 1}
    BY <1>7, <1>12
  <2>3. (\E j \in 2..(k + 1) : calls[j].op = "listen") <=> \E j \in 2..k : calls[j].op = "listen"
    BY <1>6, <1>12
  <2>4. r \in UNION {[N -> Int] : N \in SUBSET Macs}
    <3>1. c.mac \in Macs
      BY <1>1 DEF PassiveInput
    <3>2. r \in [M \cup {c.mac} -> Int]
      BY <1>1, <1>9
    <3> QED BY <3>1, <3>2
  <2>m. /\ DOMAIN s.recent_sightings = M /\ DOMAIN r = M \cup {c.mac} /\ r[c.mac] = c.t
        /\ \A m \in M : m # c.mac => r[m] = s.recent_sightings[m]
    BY <1>9
  <2> HIDE DEF r
  <2>5. /\ d \in Scan!PassiveStatus(Macs) /\ d.is_listening = s.is_listening
        /\ d.listening_since = s.listening_since
        /\ d.recent_sightings = r /\ d.last_discovery_at = c.t
    BY <1>1, <1>5, <2>1, <2>4 DEF Scan!PassiveStatus
  <2>6. \A m \in DOMAIN r : \E j \in Heard(calls, k + 1) : calls[j].mac = m /\ calls[j].t = r[m]
    <3> TAKE m \in DOMAIN r
    <3>1. CASE m = c.mac
      BY <2>2, <2>m, <3>1
    <3>2. CASE m \in M /\ m # c.mac
      <4>1. PICK j \in Heard(calls, k) : calls[j].mac = m /\ calls[j].t = s.recent_sightings[m]
        BY <2>m, <3>2 DEF PassiveTold
      <4> QED BY <2>2, <2>m, <3>2, <4>1
    <3> QED BY <2>m, <3>1, <3>2
  <2>7. \A j \in Heard(calls, k + 1) :
           \/ calls[j].mac \in DOMAIN r /\ r[calls[j].mac] >= calls[j].t
           \/ calls[j].t < c.t - RecentWindow
    <3> TAKE j \in Heard(calls, k + 1)
    <3>1. CASE j = k + 1
      BY <1>1, <2>m, <3>1
    <3>2. CASE j \in Heard(calls, k) /\ calls[j].mac = c.mac
      BY <1>1, <1>p, <1>2, <1>3, <2>m, <3>2
    <3>3. CASE j \in Heard(calls, k) /\ calls[j].mac # c.mac
      BY <1>p, <2>m, <3>3
    <3> QED BY <2>2, <3>1, <3>2, <3>3
  <2>8. \A j \in Heard(calls, k + 1) : calls[j].t <= c.t
    BY <1>1, <1>3, <1>p, <2>2
  <2>9. c.t # None
    BY <1>1, StatusAssumption
  <2> HIDE DEF d
  <2>10. /\ d.is_listening = TRUE <=> \E j \in 2..(k + 1) : calls[j].op = "listen"
         /\ d.is_listening = TRUE => d.listening_since \in Int
    BY <2>3, <2>5 DEF PassiveTold
  <2>11. Heard(calls, k + 1) # {} /\ \E j \in Heard(calls, k + 1) : calls[j].t = c.t
    BY <2>2
  <2> HIDE DEF c
  <2> QED BY <2>5, <2>6, <2>7, <2>8, <2>9, <2>10, <2>11 DEF PassiveTold, c, d
<1>13. CASE c.op = "get"
  <2> DEFINE r == [m \in {h \in M : s.recent_sightings[h] >= c.t - RecentWindow}
                       |-> s.recent_sightings[m]]
  <2>1. d = [s EXCEPT !.recent_sightings = r]
    BY <1>5, <1>9, <1>13 DEF Scan!PassiveCall, Scan!Pruned, Scan!PassiveStatus
  <2>2. Heard(calls, k + 1) = Heard(calls, k)
    BY <1>7, <1>13
  <2>3. (\E j \in 2..(k + 1) : calls[j].op = "listen") <=> \E j \in 2..k : calls[j].op = "listen"
    BY <1>6, <1>13
  <2>4. r \in UNION {[N -> Int] : N \in SUBSET Macs}
    <3>1. r \in [{h \in M : s.recent_sightings[h] >= c.t - RecentWindow} -> Int]
      BY <1>9
    <3> QED BY <3>1
  <2>m. /\ DOMAIN s.recent_sightings = M
        /\ DOMAIN r = {h \in M : s.recent_sightings[h] >= c.t - RecentWindow}
        /\ \A m \in DOMAIN r : r[m] = s.recent_sightings[m]
        /\ \A m \in M : s.recent_sightings[m] \in Int
    BY <1>9
  <2> HIDE DEF r
  <2>5. /\ d \in Scan!PassiveStatus(Macs) /\ d.is_listening = s.is_listening
        /\ d.listening_since = s.listening_since
        /\ d.recent_sightings = r /\ d.last_discovery_at = s.last_discovery_at
    BY <1>5, <2>1, <2>4 DEF Scan!PassiveStatus
  <2>6. \A m \in DOMAIN r : \E j \in Heard(calls, k + 1) : calls[j].mac = m /\ calls[j].t = r[m]
    BY <2>2, <2>m DEF PassiveTold
  <2>7. \A j \in Heard(calls, k + 1) :
           \/ calls[j].mac \in DOMAIN r /\ r[calls[j].mac] >= calls[j].t
           \/ calls[j].t < c.t - RecentWindow
    <3> TAKE j \in Heard(calls, k + 1)
    <3>1. calls[j].t \in Int
      BY <1>2, <1>p, <2>2
    <3>2. CASE calls[j].t < c.t - RecentWindow
      BY <3>2
    <3>3. CASE ~(calls[j].t < c.t - RecentWindow)
      <4>1. calls[j].mac \in M /\ s.recent_sightings[calls[j].mac] >= calls[j].t
        BY <1>p, <2>2, <2>m, <3>3
      <4>2. s.recent_sightings[calls[j].mac] >= c.t - RecentWindow
        BY <1>0, <1>1, <2>m, <3>1, <3>3, <4>1
      <4> QED BY <2>m, <4>1, <4>2
    <3> QED BY <3>2, <3>3
  <2> HIDE DEF d
  <2>10. /\ d.is_listening = TRUE <=> \E j \in 2..(k + 1) : calls[j].op = "listen"
         /\ d.is_listening = TRUE => d.listening_since \in Int
         /\ d.last_discovery_at = None <=> Heard(calls, k + 1) = {}
         /\ \A j \in Heard(calls, k + 1) : calls[j].t <= d.last_discovery_at
         /\ d.last_discovery_at # None =>
                \E j \in Heard(calls, k + 1) : calls[j].t = d.last_discovery_at
    BY <2>2, <2>3, <2>5 DEF PassiveTold
  <2> HIDE DEF c
  <2> QED BY <2>5, <2>6, <2>7, <2>10 DEF PassiveTold, c, d
<1> HIDE DEF c, d
<1> QED BY <1>1, <1>10, <1>11, <1>12, <1>13 DEF c, d

LEMMA PassiveAfterTold ==
    ASSUME NEW calls, NEW n, PassiveCalls(calls, n)
    PROVE  PassiveTold(Scan!PassiveAfter(calls), calls, n)
<1>0. n \in Nat /\ n >= 1 /\ Len(calls) = n
  BY DEF PassiveCalls
<1>1. PICK s : /\ s[0] = None
               /\ \A k \in 1..n : s[k] = Scan!PassiveCall(s[k - 1], calls[k])
               /\ Scan!PassiveAfter(calls) = s[n]
  BY <1>0, PassiveUnfolds
<1> DEFINE P == {k \in Nat : k < n => PassiveTold(s[k + 1], calls, k + 1)}
<1>2. 0 \in P
  <2>1. s[1] = Scan!PassiveCall(None, calls[1])
    BY <1>0, <1>1
  <2> QED BY <2>1, PassiveStart
<1>3. ASSUME NEW k \in P
      PROVE  k + 1 \in P
  <2>1. k \in Nat
    OBVIOUS
  <2>2. ASSUME k + 1 < n PROVE PassiveTold(s[k + 2], calls, k + 2)
    <3>1. PassiveTold(s[k + 1], calls, k + 1)
      BY <1>0, <2>1, <2>2
    <3>2. k + 1 \in 1..n /\ (k + 1) + 1 = k + 2 /\ k + 2 \in 1..n /\ (k + 2) - 1 = k + 1
      BY <1>0, <2>1, <2>2
    <3>3. PassiveTold(Scan!PassiveCall(s[k + 1], calls[(k + 1) + 1]), calls, (k + 1) + 1)
      BY <2>2, <3>1, <3>2, PassiveStep
    <3>4. s[k + 2] = Scan!PassiveCall(s[k + 1], calls[k + 2])
      BY <1>1, <3>2
    <3> QED BY <3>2, <3>3, <3>4
  <2>3. (k + 1) + 1 = k + 2
    BY <2>1
  <2> QED BY <2>1, <2>2, <2>3
<1>4. P = Nat
  <2>1. P \in SUBSET Nat
    OBVIOUS
  <2> HIDE DEF P
  <2> QED BY <1>2, <1>3, <2>1, Induction
<1>5. n - 1 \in Nat /\ n - 1 < n /\ (n - 1) + 1 = n
  BY <1>0
<1>6. PassiveTold(s[(n - 1) + 1], calls, (n - 1) + 1)
  BY <1>4, <1>5
<1> QED BY <1>1, <1>5, <1>6

LEMMA LastOfIs ==
    ASSUME NEW calls, NEW n \in Nat, DOMAIN calls = 1..n, Len(calls) = n, NEW op
    PROVE  /\ LastOf(calls, op) \in 0..n
           /\ LastOf(calls, op) # 0 => calls[LastOf(calls, op)].op = op
           /\ \A i \in 1..n : calls[i].op = op => i <= LastOf(calls, op)
<1> DEFINE I == {i \in 1..n : calls[i].op = op}
<1>1. LastOf(calls, op) = IF I # {} THEN Max(I) ELSE 0
  BY DEF LastOf, SelectLastInSeq
<1>2. CASE I = {}
  BY <1>1, <1>2
<1>3. CASE I # {}
  <2>1. \E i \in I : \A j \in I : j <= i
    <3>1. I \in SUBSET Nat /\ \A i \in I : i <= n
      OBVIOUS
    <3> HIDE DEF I
    <3> QED BY <1>3, <3>1, GreatestExists
  <2>2. \E i \in I : \A j \in I : i >= j
    <3>1. \A i, j \in I : i >= j <=> j <= i
      OBVIOUS
    <3> HIDE DEF I
    <3> QED BY <2>1, <3>1
  <2>3. Max(I) \in I /\ \A j \in I : Max(I) >= j
    <3> HIDE DEF I
    <3> QED BY <2>2 DEF Max
  <2> QED BY <1>1, <1>3, <2>3
<1> QED BY <1>2, <1>3

(* The answer of a listener that was asked after all of its calls. *)
LEMMA PassiveAnswerIs ==
    ASSUME NEW calls, NEW n, PassiveCalls(calls, n), NEW at \in Int,
           \A i \in 1..n : calls[i].t <= at
    PROVE  LET heard  == {c \in ToSet(calls) : c.op = "discover"}
               answer == Scan!PassiveResponse(Scan!PassiveAfter(calls), at)
           IN  /\ answer.devices_seen =
                      Cardinality({c.mac : c \in {h \in heard : at - h.t <= RecentWindow}})
               /\ answer.last_device_ago =
                      IF heard = {} THEN None ELSE at - Max({h.t : h \in heard})
               /\ answer.listening_for # None <=> LastOf(calls, "listen") # 0
<1> DEFINE s == Scan!PassiveAfter(calls)
           heard == {c \in ToSet(calls) : c.op = "discover"}
           answer == Scan!PassiveResponse(s, at)
<1>0. /\ n \in Nat /\ n >= 1 /\ DOMAIN calls = 1..n /\ Len(calls) = n
      /\ RecentWindow \in Nat /\ calls[1].op = "init"
  BY StatusAssumption DEF PassiveCalls
<1>1. PassiveTold(s, calls, n)
  BY PassiveAfterTold
<1> HIDE DEF s
<1>2. s # None /\ s \in Scan!PassiveStatus(Macs)
  BY <1>1, StatusAssumption DEF PassiveTold
<1>3. \A j \in Heard(calls, n) : /\ j \in 2..n /\ calls[j] \in heard /\ calls[j].t \in Int
                                 /\ calls[j].t <= at
  <2> TAKE j \in Heard(calls, n)
  <2>1. j \in 2..n /\ calls[j].op = "discover"
    BY DEF Heard
  <2>2. calls[j] \in PassiveInput
    BY <2>1 DEF PassiveCalls
  <2>3. calls[j].t \in Int
    BY <2>2, BoundsAssumption DEF PassiveInput, Instants
  <2>4. calls[j] \in ToSet(calls)
    BY <1>0, <2>1 DEF ToSet
  <2> QED BY <1>0, <2>1, <2>3, <2>4
<1>4. \A h \in heard : \E j \in Heard(calls, n) : calls[j] = h
  <2> TAKE h \in heard
  <2>1. PICK j \in 1..n : calls[j] = h
    BY <1>0 DEF ToSet
  <2>2. j # 1
    BY <1>0, <2>1
  <2>3. j \in Heard(calls, n)
    BY <1>0, <2>1, <2>2 DEF Heard
  <2> QED BY <2>1, <2>3
<1> DEFINE rs == s.recent_sightings
           live == {m \in DOMAIN rs : rs[m] >= at - RecentWindow}
           last == s.last_discovery_at
<1>5. \A m \in DOMAIN rs : rs[m] \in Int
  <2>1. PICK M \in SUBSET Macs : rs \in [M -> Int]
    BY <1>2 DEF Scan!PassiveStatus
  <2> QED BY <2>1
<1>6. last \in Int \cup {None} /\ s.is_listening \in BOOLEAN
  BY <1>2 DEF Scan!PassiveStatus
<1>7. DOMAIN Scan!Pruned(s, at).recent_sightings = live
  <2>1. Scan!Pruned(s, at).recent_sightings = [m \in live |-> rs[m]]
    BY <1>2 DEF Scan!Pruned, Scan!PassiveStatus
  <2> QED BY <2>1
<1>8. /\ answer.devices_seen = Cardinality(live)
      /\ answer.last_device_ago = IF last = None THEN None ELSE Max({at - last, 0})
      /\ answer.listening_for = IF s.is_listening THEN at - s.listening_since ELSE None
  <2> DEFINE listening == IF s.is_listening THEN at - s.listening_since ELSE None
  <2>1. answer = [listening_for |-> listening,
                  devices_seen |-> Cardinality(DOMAIN Scan!Pruned(s, at).recent_sightings),
                  last_device_ago |-> IF last = None THEN None ELSE Max({at - last, 0})]
    BY <1>2, Zenon
       DEF Scan!PassiveResponse, Scan!Cardinality, Cardinality, Scan!Max, Max
  <2> HIDE DEF listening, answer, live, last
  <2>2. /\ answer.devices_seen = Cardinality(live) /\ answer.listening_for = listening
        /\ answer.last_device_ago = IF last = None THEN None ELSE Max({at - last, 0})
    BY <1>7, <2>1
  <2> QED BY <2>2 DEF listening
<1> HIDE DEF answer
<1> DEFINE recent == {c.mac : c \in {h \in heard : at - h.t <= RecentWindow}}
<1>9. live = recent
  <2>1. ASSUME NEW m \in live PROVE m \in recent
    <3>1. PICK j \in Heard(calls, n) : calls[j].mac = m /\ calls[j].t = rs[m]
      BY <1>1 DEF PassiveTold
    <3>2. at - calls[j].t <= RecentWindow
      BY <1>0, <1>3, <1>5, <3>1
    <3>3. calls[j] \in {h \in heard : at - h.t <= RecentWindow}
      BY <1>3, <3>2
    <3> QED BY <3>1, <3>3
  <2>2. ASSUME NEW m \in recent PROVE m \in live
    <3>1. PICK h \in heard : at - h.t <= RecentWindow /\ h.mac = m
      OBVIOUS
    <3>2. PICK j \in Heard(calls, n) : calls[j] = h
      BY <1>4
    <3>3. calls[j].t \in Int /\ at - calls[j].t <= RecentWindow /\ calls[j].mac = m
      BY <1>3, <3>1, <3>2
    <3>4. calls[n].t <= at /\ calls[n].t \in Int
      <4>1. CASE n = 1
        BY <1>0, <4>1 DEF PassiveCalls
      <4>2. CASE n # 1
        <5>1. calls[n] \in PassiveInput
          BY <1>0, <4>2 DEF PassiveCalls
        <5> QED BY <1>0, <5>1, BoundsAssumption DEF PassiveInput, Instants
      <4> QED BY <4>1, <4>2
    <3>5. ~(calls[j].t < calls[n].t - RecentWindow)
      BY <1>0, <3>3, <3>4
    <3>6. m \in DOMAIN rs /\ rs[m] >= calls[j].t
      BY <1>1, <3>3, <3>5 DEF PassiveTold
    <3>7. rs[m] >= at - RecentWindow
      BY <1>0, <1>5, <3>3, <3>6
    <3> QED BY <3>6, <3>7
  <2> HIDE DEF live, recent
  <2> QED BY <2>1, <2>2
<1>10. answer.last_device_ago = IF heard = {} THEN None ELSE at - Max({h.t : h \in heard})
  <2>1. CASE heard = {}
    <3>1. Heard(calls, n) = {}
      BY <1>3, <2>1
    <3> QED BY <1>1, <1>8, <2>1, <3>1 DEF PassiveTold
  <2>2. CASE heard # {}
    <3>1. Heard(calls, n) # {}
      BY <1>4, <2>2
    <3>2. last # None /\ last \in Int
      BY <1>1, <1>6, <3>1 DEF PassiveTold
    <3>3. PICK j \in Heard(calls, n) : calls[j].t = last
      BY <1>1, <3>2 DEF PassiveTold
    <3> DEFINE T == {h.t : h \in heard}
    <3>4. last \in T /\ last <= at
      BY <1>3, <3>3
    <3>5. \A t \in T : t \in Int /\ t <= last
      <4> TAKE t \in T
      <4>1. PICK h \in heard : h.t = t
        OBVIOUS
      <4>2. PICK i \in Heard(calls, n) : calls[i] = h
        BY <1>4
      <4> QED BY <1>1, <1>3, <4>1, <4>2 DEF PassiveTold
    <3>6. Max(T) = last
      <4> HIDE DEF T
      <4>1. last \in T /\ \A t \in T : last >= t
        BY <3>2, <3>4, <3>5
      <4>2. Max(T) \in T /\ \A t \in T : Max(T) >= t
        BY <4>1 DEF Max
      <4>3. Max(T) <= last /\ Max(T) >= last
        BY <3>5, <4>1, <4>2
      <4> QED BY <3>2, <3>5, <4>2, <4>3
    <3>7. Max({at - last, 0}) = at - last
      <4> DEFINE x == at - last
      <4>1. x \in Int /\ x >= 0
        BY <3>2, <3>4
      <4> HIDE DEF x
      <4>2. Max({x, 0}) = x
        BY <4>1 DEF Max
      <4> QED BY <4>2 DEF x
    <3> HIDE DEF T
    <3> QED BY <1>8, <2>2, <3>2, <3>6, <3>7 DEF T
  <2> QED BY <2>1, <2>2
<1>11. answer.listening_for # None <=> LastOf(calls, "listen") # 0
  <2>1. LastOf(calls, "listen") # 0 <=> \E j \in 2..n : calls[j].op = "listen"
    <3>1. /\ LastOf(calls, "listen") \in 0..n
          /\ LastOf(calls, "listen") # 0 => calls[LastOf(calls, "listen")].op = "listen"
          /\ \A i \in 1..n : calls[i].op = "listen" => i <= LastOf(calls, "listen")
      BY <1>0, LastOfIs
    <3>2. \A i \in 1..n : calls[i].op = "listen" => i \in 2..n
      BY <1>0
    <3> QED BY <1>0, <3>1, <3>2
  <2>2. CASE s.is_listening = TRUE
    <3>1. s.listening_since \in Int
      BY <1>1, <2>2 DEF PassiveTold
    <3>2. at - s.listening_since \in Int
      BY <3>1
    <3>3. answer.listening_for # None
      BY <1>8, <2>2, <3>2, StatusAssumption
    <3> QED BY <1>1, <2>1, <2>2, <3>3 DEF PassiveTold
  <2>3. CASE s.is_listening = FALSE
    <3>1. answer.listening_for = None
      BY <1>8, <2>3
    <3> QED BY <1>1, <2>1, <2>3, <3>1 DEF PassiveTold
  <2> QED BY <1>6, <2>2, <2>3
<1> HIDE DEF live, last, rs, heard, recent
<1>12. answer.devices_seen = Cardinality(recent)
  BY <1>8, <1>9
<1> QED BY <1>10, <1>11, <1>12, Zenon DEF answer, s, heard, recent

LEMMA PassiveHistoriesAreCalls ==
    ASSUME PassiveHistory
    PROVE  /\ \E n : PassiveCalls(sample'.calls, n)
           /\ sample'.at \in Int
           /\ \A i \in DOMAIN sample'.calls : sample'.calls[i].t <= sample'.at
<1>1. PICK h \in BoundedSeq(PassiveInput, MaxLength) : \E at \in Instants :
          /\ InOrder(Append(h, [t |-> at]))
          /\ sample' = [of |-> "passive", at |-> at, calls |-> <<[op |-> "init", t |-> 0]>> \o h]
  BY Zenon DEF PassiveHistory, PassiveInput, Take
<1>2. PICK at \in Instants :
          /\ InOrder(Append(h, [t |-> at]))
          /\ sample' = [of |-> "passive", at |-> at, calls |-> <<[op |-> "init", t |-> 0]>> \o h]
  BY <1>1
<1>3. h \in Seq(PassiveInput)
  BY BoundsAssumption, BoundedSeqsAreSeqs
<1> DEFINE m == Len(h)
           first == [op |-> "init", t |-> 0]
           calls == <<first>> \o h
<1>4. m \in Nat /\ DOMAIN h = 1..m /\ \A i \in 1..m : h[i] \in PassiveInput /\ h[i].t \in Nat
  <2>1. m \in Nat /\ DOMAIN h = 1..m /\ \A i \in 1..m : h[i] \in PassiveInput
    BY <1>3, LenProperties, ElementOfSeq
  <2>2. \A c \in PassiveInput : c.t \in Nat
    BY BoundsAssumption DEF PassiveInput, Instants
  <2> HIDE DEF m
  <2> QED BY <2>1, <2>2
<1>5. /\ DOMAIN calls = 1..(m + 1) /\ Len(calls) = m + 1 /\ calls[1] = first
      /\ \A i \in 2..(m + 1) : calls[i] = h[i - 1]
  <2>1. Len(<<first>>) = 1 /\ <<first>>[1] = first /\ <<first>> \in Seq({first} \cup PassiveInput)
    OBVIOUS
  <2>2. h \in Seq({first} \cup PassiveInput)
    BY <1>3
  <2> HIDE DEF first
  <2> QED BY <1>4, <2>1, <2>2, ConcatProperties
<1>6. at \in Nat
  BY BoundsAssumption DEF Instants
<1>7. /\ \A i, j \in 1..m : i < j => h[i].t <= h[j].t
      /\ \A i \in 1..m : h[i].t <= at
  <2> DEFINE a == Append(h, [t |-> at])
  <2>1. DOMAIN a = 1..(m + 1) /\ a[m + 1] = [t |-> at] /\ \A i \in 1..m : a[i] = h[i]
    BY <1>3
  <2>2. \A i, j \in 1..(m + 1) : i < j => a[i].t <= a[j].t
    BY <1>2, <2>1 DEF InOrder
  <2> HIDE DEF a
  <2>3. \A i \in 1..m : i \in 1..(m + 1) /\ i < m + 1 /\ m + 1 \in 1..(m + 1)
    BY <1>4
  <2> QED BY <2>1, <2>2, <2>3
<1> HIDE DEF calls, m
<1>8. \A i \in 2..(m + 1) : calls[i] \in PassiveInput
  <2>1. \A i \in 2..(m + 1) : i - 1 \in 1..m
    BY <1>4
  <2> QED BY <1>4, <1>5, <2>1
<1>9. \A i, j \in 1..(m + 1) : i < j => calls[i].t <= calls[j].t
  <2> TAKE i \in 1..(m + 1), j \in 1..(m + 1)
  <2> HAVE i < j
  <2>1. j - 1 \in 1..m /\ j \in 2..(m + 1) /\ calls[j] = h[j - 1] /\ h[j - 1].t \in Nat
    BY <1>4, <1>5
  <2>2. CASE i = 1
    BY <1>5, <2>1, <2>2
  <2>3. CASE i # 1
    <3>1. i - 1 \in 1..m /\ calls[i] = h[i - 1] /\ i - 1 < j - 1
      BY <1>4, <1>5, <2>3
    <3> QED BY <1>7, <2>1, <3>1
  <2> QED BY <2>2, <2>3
<1>10. \A i \in 1..(m + 1) : calls[i].t <= at
  <2> TAKE i \in 1..(m + 1)
  <2>1. CASE i = 1
    BY <1>5, <1>6, <2>1
  <2>2. CASE i # 1
    <3>1. i - 1 \in 1..m /\ calls[i] = h[i - 1]
      BY <1>4, <1>5, <2>2
    <3> QED BY <1>7, <3>1
  <2> QED BY <2>1, <2>2
<1>11. PassiveCalls(calls, m + 1)
  BY <1>4, <1>5, <1>8, <1>9 DEF PassiveCalls
<1>12. sample'.calls = calls /\ sample'.at = at
  BY <1>2 DEF calls
<1> QED BY <1>5, <1>6, <1>10, <1>11, <1>12

(* However long a listener has been listening and whoever asked meanwhile, its answer
   counts the devices whose latest sighting is within the window, and says when the last
   one was (passive_status.rs:49). *)
THEOREM ListenersCountTheLastHour == Spec => []CountsTheLastHour
<1>1. Init => CountsTheLastHour
  <2>1. Init => sample.of # "passive"
    BY DEF Init
  <2> QED BY <2>1, Zenon DEF CountsTheLastHour
<1>2. CountsTheLastHour /\ [Next]_sample => CountsTheLastHour'
  <2> SUFFICES ASSUME CountsTheLastHour, [Next]_sample PROVE CountsTheLastHour'
    OBVIOUS
  <2>1. CASE UNCHANGED sample
    BY <2>1, Zenon DEF CountsTheLastHour
  <2>2. CASE Next
    <3> SUFFICES ASSUME sample'.of = "passive" PROVE CountsTheLastHour'
      BY Zenon DEF CountsTheLastHour
    <3>1. PassiveHistory
      BY <2>2, KindOf
    <3>2. PICK n : PassiveCalls(sample'.calls, n)
      BY <3>1, PassiveHistoriesAreCalls
    <3>3. /\ sample'.at \in Int
          /\ \A i \in 1..n : sample'.calls[i].t <= sample'.at
      BY <3>1, <3>2, PassiveHistoriesAreCalls DEF PassiveCalls
    <3> QED BY <3>2, <3>3, PassiveAnswerIs, Zenon DEF CountsTheLastHour
  <2> QED BY <2>1, <2>2
<1> QED BY <1>1, <1>2, PTL DEF Spec

-----------------------------------------------------------------------------
ActiveInput ==
    [op: {"run"}, t: Instants] \cup [op: {"wait"}, t: Instants, next: Instants]
        \cup [op: {"record"}, t: Instants, macs: BoundedSeq(Macs, MaxKnown)]

(* n calls of a scanner, the first the one that initialises its status. *)
ActiveCalls(calls, n) ==
    /\ n \in Nat \ {0} /\ DOMAIN calls = 1..n /\ Len(calls) = n
    /\ calls[1] = [op |-> "init", t |-> 0]
    /\ \A i \in 2..n : calls[i] \in ActiveInput

(* Call j is the last of the first k with the operation op; 0 where none is. *)
LastIn(calls, op, k, j) ==
    /\ j \in 0..k
    /\ j # 0 => calls[j].op = op
    /\ \A i \in 1..k : calls[i].op = op => i <= j

(* What a scanner's status says of its first k calls. *)
ActiveTold(s, calls, k) ==
    /\ s \in Scan!ActiveStatus
    /\ \E run, wait, record \in 0..k :
           /\ LastIn(calls, "run", k, run) /\ LastIn(calls, "wait", k, wait)
           /\ LastIn(calls, "record", k, record)
           /\ s.is_running = TRUE <=> run > wait
           /\ run > wait => s.scan_started_at = calls[run].t
           /\ s.next_scan_at = IF wait > run THEN calls[wait].next ELSE None
           /\ s.last_scan_devices_seen =
                  IF record = 0 THEN None ELSE Cardinality(ToSet(calls[record].macs))

LEMMA ActiveStart ==
    ASSUME NEW calls, NEW n, ActiveCalls(calls, n)
    PROVE  ActiveTold(Scan!ActiveCall(None, calls[1]), calls, 1)
<1>1. Scan!ActiveCall(None, calls[1]) = Scan!NewActive
  BY DEF ActiveCalls, Scan!ActiveCall
<1> DEFINE s == Scan!NewActive
<1>2. /\ s.is_running = FALSE /\ s.next_scan_at = None /\ s.last_scan_devices_seen = None
      /\ s \in Scan!ActiveStatus
  BY DEF Scan!NewActive, Scan!ActiveStatus
<1> HIDE DEF s
<1>3. /\ LastIn(calls, "run", 1, 0) /\ LastIn(calls, "wait", 1, 0)
      /\ LastIn(calls, "record", 1, 0)
  BY DEF LastIn, ActiveCalls
<1>4. 0 \in 0..1 /\ ~(0 > 0)
  OBVIOUS
<1> QED BY <1>1, <1>2, <1>3, <1>4 DEF ActiveTold, s

LEMMA MacsAreCounted ==
    ASSUME NEW macs \in BoundedSeq(Macs, MaxKnown)
    PROVE  Cardinality(ToSet(macs)) \in Nat
<1>1. macs \in Seq(Macs)
  BY BoundsAssumption, BoundedSeqsAreSeqs
<1>2. Len(macs) \in Nat /\ DOMAIN macs = 1..Len(macs)
  BY <1>1
<1>3. ToSet(macs) = {macs[i] : i \in 1..Len(macs)}
  BY <1>2 DEF ToSet
<1> DEFINE m == Len(macs)
           T == {macs[i] : i \in 1..m}
<1>4. IsFiniteSet(1..m)
  BY <1>2, FS_Interval
<1>5. IsFiniteSet(T)
  <2>1. \E f \in Surjection(1..m, T) : TRUE
    <3>1. [i \in 1..m |-> macs[i]] \in Surjection(1..m, T)
      BY DEF Surjection
    <3> QED BY <3>1
  <2>2. Surjection(1..m, T) # {}
    BY <2>1
  <2> HIDE DEF T, m
  <2> QED BY <1>4, <2>2, FS_Surjection
<1> HIDE DEF T
<1> QED BY <1>3, <1>5, FS_CardinalityType DEF T

LEMMA ActiveStep ==
    ASSUME NEW calls, NEW n, ActiveCalls(calls, n), NEW k \in 1..n, k < n,
           NEW s, ActiveTold(s, calls, k)
    PROVE  ActiveTold(Scan!ActiveCall(s, calls[k + 1]), calls, k + 1)
<1> DEFINE c == calls[k + 1]
           d == Scan!ActiveCall(s, c)
<1>0. k \in Nat /\ n \in Nat /\ k + 1 \in 2..n
  BY DEF ActiveCalls
<1>1. s # None /\ s \in Scan!ActiveStatus
  BY StatusAssumption DEF ActiveTold
<1>2. PICK run, wait, record \in 0..k :
           /\ LastIn(calls, "run", k, run) /\ LastIn(calls, "wait", k, wait)
           /\ LastIn(calls, "record", k, record)
           /\ s.is_running = TRUE <=> run > wait
           /\ run > wait => s.scan_started_at = calls[run].t
           /\ s.next_scan_at = IF wait > run THEN calls[wait].next ELSE None
           /\ s.last_scan_devices_seen =
                  IF record = 0 THEN None ELSE Cardinality(ToSet(calls[record].macs))
  BY Zenon DEF ActiveTold
<1>3. ASSUME NEW op, NEW j, LastIn(calls, op, k, j), c.op # op
      PROVE  LastIn(calls, op, k + 1, j)
  <2>1. \A i \in 1..(k + 1) : i \in 1..k \/ i = k + 1
    BY <1>0
  <2>2. j \in 0..(k + 1)
    BY <1>0, <1>3 DEF LastIn
  <2> QED BY <1>3, <2>1, <2>2 DEF LastIn
<1>4. ASSUME NEW op, c.op = op
      PROVE  LastIn(calls, op, k + 1, k + 1)
  BY <1>0, <1>4 DEF LastIn
<1>5. c \in ActiveInput
  BY <1>0 DEF ActiveCalls
<1>6. /\ run \in 0..(k + 1) /\ wait \in 0..(k + 1) /\ record \in 0..(k + 1)
      /\ k + 1 \in 0..(k + 1) /\ run < k + 1 /\ wait < k + 1
  BY <1>0
<1>7. CASE c.op = "run"
  <2>1. c.t \in Int
    BY <1>5, <1>7, BoundsAssumption DEF ActiveInput, Instants
  <2>2. d = [s EXCEPT !.is_running = TRUE, !.scan_started_at = c.t, !.next_scan_at = None]
    BY <1>1, <1>7 DEF Scan!ActiveCall, Scan!SetRunning
  <2>3. /\ d \in Scan!ActiveStatus /\ d.is_running = TRUE /\ d.scan_started_at = c.t
        /\ d.next_scan_at = None /\ d.last_scan_devices_seen = s.last_scan_devices_seen
    BY <1>1, <2>1, <2>2 DEF Scan!ActiveStatus
  <2>4. /\ LastIn(calls, "run", k + 1, k + 1) /\ LastIn(calls, "wait", k + 1, wait)
        /\ LastIn(calls, "record", k + 1, record)
    BY <1>2, <1>3, <1>4, <1>7
  <2>5. k + 1 > wait /\ ~(wait > k + 1)
    BY <1>0, <1>6
  <2> HIDE DEF d
  <2>6. /\ d.is_running = TRUE <=> k + 1 > wait
        /\ k + 1 > wait => d.scan_started_at = calls[k + 1].t
        /\ d.next_scan_at = IF wait > k + 1 THEN calls[wait].next ELSE None
        /\ d.last_scan_devices_seen =
               IF record = 0 THEN None ELSE Cardinality(ToSet(calls[record].macs))
    BY <1>2, <2>3, <2>5
  <2> QED BY <1>6, <2>3, <2>4, <2>6, Zenon DEF ActiveTold, d, c
<1>8. CASE c.op = "wait"
  <2>1. c.next \in Int
    BY <1>5, <1>8, BoundsAssumption DEF ActiveInput, Instants
  <2>2. d = [s EXCEPT !.is_running = FALSE, !.scan_started_at = None, !.next_scan_at = c.next]
    BY <1>1, <1>8 DEF Scan!ActiveCall, Scan!SetWaiting
  <2>3. /\ d \in Scan!ActiveStatus /\ d.is_running = FALSE
        /\ d.next_scan_at = c.next /\ d.last_scan_devices_seen = s.last_scan_devices_seen
    BY <1>1, <2>1, <2>2 DEF Scan!ActiveStatus
  <2>4. /\ LastIn(calls, "run", k + 1, run) /\ LastIn(calls, "wait", k + 1, k + 1)
        /\ LastIn(calls, "record", k + 1, record)
    BY <1>2, <1>3, <1>4, <1>8
  <2>5. k + 1 > run /\ ~(run > k + 1)
    BY <1>0, <1>6
  <2> HIDE DEF d
  <2>6. /\ d.is_running = TRUE <=> run > k + 1
        /\ run > k + 1 => d.scan_started_at = calls[run].t
        /\ d.next_scan_at = IF k + 1 > run THEN calls[k + 1].next ELSE None
        /\ d.last_scan_devices_seen =
               IF record = 0 THEN None ELSE Cardinality(ToSet(calls[record].macs))
    BY <1>2, <2>3, <2>5
  <2> QED BY <1>6, <2>3, <2>4, <2>6, Zenon DEF ActiveTold, d, c
<1>9. CASE c.op = "record"
  <2>1. c.t \in Int /\ c.macs \in BoundedSeq(Macs, MaxKnown)
    BY <1>5, <1>9, BoundsAssumption DEF ActiveInput, Instants
  <2>2. d = Scan!RecordScan(s, c.macs, c.t)
    BY <1>1, <1>9 DEF Scan!ActiveCall
  <2>3. d = [s EXCEPT !.last_scan_devices_seen = Cardinality(ToSet(c.macs)),
                      !.last_scan_at = c.t]
    BY <2>2, Zenon DEF Scan!RecordScan, Scan!Cardinality, Cardinality, Scan!ToSet, ToSet
  <2>4. Cardinality(ToSet(c.macs)) \in Int
    BY <2>1, MacsAreCounted
  <2> DEFINE counted == Cardinality(ToSet(c.macs))
  <2> HIDE DEF counted, c
  <2>5. d = [s EXCEPT !.last_scan_devices_seen = counted, !.last_scan_at = c.t]
    BY <2>3 DEF counted
  <2>6. counted \in Int
    BY <2>4 DEF counted
  <2> HIDE DEF d
  <2>7. /\ d \in Scan!ActiveStatus /\ d.is_running = s.is_running
        /\ d.scan_started_at = s.scan_started_at
        /\ d.next_scan_at = s.next_scan_at /\ d.last_scan_devices_seen = counted
    BY <1>1, <2>1, <2>5, <2>6 DEF Scan!ActiveStatus
  <2>8. /\ LastIn(calls, "run", k + 1, run) /\ LastIn(calls, "wait", k + 1, wait)
        /\ LastIn(calls, "record", k + 1, k + 1)
    BY <1>2, <1>3, <1>4, <1>9 DEF c
  <2>9. k + 1 # 0
    BY <1>0
  <2>10. /\ d.is_running = TRUE <=> run > wait
         /\ run > wait => d.scan_started_at = calls[run].t
         /\ d.next_scan_at = IF wait > run THEN calls[wait].next ELSE None
         /\ d.last_scan_devices_seen =
                IF k + 1 = 0 THEN None ELSE Cardinality(ToSet(calls[k + 1].macs))
    BY <1>2, <2>7, <2>9 DEF c, counted
  <2> QED BY <1>6, <2>7, <2>8, <2>10, Zenon DEF ActiveTold, d, c
<1>10. c.op \in {"run", "wait", "record"}
  BY <1>5 DEF ActiveInput
<1> QED BY <1>7, <1>8, <1>9, <1>10

LEMMA ActiveAfterTold ==
    ASSUME NEW calls, NEW n, ActiveCalls(calls, n)
    PROVE  ActiveTold(Scan!ActiveAfter(calls), calls, n)
<1>0. n \in Nat /\ n >= 1 /\ Len(calls) = n
  BY DEF ActiveCalls
<1>1. PICK s : /\ s[0] = None
               /\ \A k \in 1..n : s[k] = Scan!ActiveCall(s[k - 1], calls[k])
               /\ Scan!ActiveAfter(calls) = s[n]
  BY <1>0, ActiveUnfolds
<1> DEFINE P == {k \in Nat : k < n => ActiveTold(s[k + 1], calls, k + 1)}
<1>2. 0 \in P
  <2>1. s[1] = Scan!ActiveCall(None, calls[1])
    BY <1>0, <1>1
  <2> QED BY <2>1, ActiveStart
<1>3. ASSUME NEW k \in P
      PROVE  k + 1 \in P
  <2>1. k \in Nat
    OBVIOUS
  <2>2. ASSUME k + 1 < n PROVE ActiveTold(s[k + 2], calls, k + 2)
    <3>1. ActiveTold(s[k + 1], calls, k + 1)
      BY <1>0, <2>1, <2>2
    <3>2. k + 1 \in 1..n /\ (k + 1) + 1 = k + 2 /\ k + 2 \in 1..n /\ (k + 2) - 1 = k + 1
      BY <1>0, <2>1, <2>2
    <3>3. ActiveTold(Scan!ActiveCall(s[k + 1], calls[(k + 1) + 1]), calls, (k + 1) + 1)
      BY <2>2, <3>1, <3>2, ActiveStep
    <3>4. s[k + 2] = Scan!ActiveCall(s[k + 1], calls[k + 2])
      BY <1>1, <3>2
    <3> QED BY <3>2, <3>3, <3>4
  <2>3. (k + 1) + 1 = k + 2
    BY <2>1
  <2> QED BY <2>1, <2>2, <2>3
<1>4. P = Nat
  <2>1. P \in SUBSET Nat
    OBVIOUS
  <2> HIDE DEF P
  <2> QED BY <1>2, <1>3, <2>1, Induction
<1>5. n - 1 \in Nat /\ n - 1 < n /\ (n - 1) + 1 = n
  BY <1>0
<1>6. ActiveTold(s[(n - 1) + 1], calls, (n - 1) + 1)
  BY <1>4, <1>5
<1> QED BY <1>1, <1>5, <1>6

(* The answer of a scanner, whenever it is asked. *)
LEMMA ActiveAnswerIs ==
    ASSUME NEW calls, NEW n, ActiveCalls(calls, n), NEW at \in Int
    PROVE  LET run    == LastOf(calls, "run")
               wait   == LastOf(calls, "wait")
               record == LastOf(calls, "record")
               answer == Scan!ActiveResponse(Scan!ActiveAfter(calls), at)
           IN  /\ answer.running_for = IF run > wait THEN at - calls[run].t ELSE None
               /\ answer.next_run_in =
                      IF wait > run THEN Max({calls[wait].next - at, 0}) ELSE None
               /\ answer.last_scan_devices =
                      IF record = 0 THEN None ELSE Cardinality(ToSet(calls[record].macs))
<1> DEFINE s == Scan!ActiveAfter(calls)
           answer == Scan!ActiveResponse(s, at)
<1>0. n \in Nat /\ n >= 1 /\ DOMAIN calls = 1..n /\ Len(calls) = n /\ calls[1].op = "init"
  BY DEF ActiveCalls
<1>1. ActiveTold(s, calls, n)
  BY ActiveAfterTold
<1> HIDE DEF s
<1>2. s # None /\ s \in Scan!ActiveStatus
  BY <1>1, StatusAssumption DEF ActiveTold
<1>3. PICK run, wait, record \in 0..n :
           /\ LastIn(calls, "run", n, run) /\ LastIn(calls, "wait", n, wait)
           /\ LastIn(calls, "record", n, record)
           /\ s.is_running = TRUE <=> run > wait
           /\ run > wait => s.scan_started_at = calls[run].t
           /\ s.next_scan_at = IF wait > run THEN calls[wait].next ELSE None
           /\ s.last_scan_devices_seen =
                  IF record = 0 THEN None ELSE Cardinality(ToSet(calls[record].macs))
  BY <1>1, Zenon DEF ActiveTold
<1>4. ASSUME NEW op, NEW j, LastIn(calls, op, n, j)
      PROVE  j = LastOf(calls, op)
  <2>1. /\ LastOf(calls, op) \in 0..n
        /\ LastOf(calls, op) # 0 => calls[LastOf(calls, op)].op = op
        /\ \A i \in 1..n : calls[i].op = op => i <= LastOf(calls, op)
    BY <1>0, LastOfIs
  <2> DEFINE l == LastOf(calls, op)
  <2> HIDE DEF l
  <2>2. l \in 0..n /\ (l # 0 => calls[l].op = op) /\ \A i \in 1..n : calls[i].op = op => i <= l
    BY <2>1 DEF l
  <2>3. j \in 0..n /\ (j # 0 => calls[j].op = op) /\ \A i \in 1..n : calls[i].op = op => i <= j
    BY <1>4 DEF LastIn
  <2>4. (l # 0 => l <= j) /\ (j # 0 => j <= l)
    BY <1>0, <2>2, <2>3
  <2>5. j = l
    BY <1>0, <2>2, <2>3, <2>4
  <2> QED BY <2>5 DEF l
<1>5. run = LastOf(calls, "run") /\ wait = LastOf(calls, "wait") /\ record = LastOf(calls, "record")
  BY <1>3, <1>4
<1>6. run # 0 => calls[run].t \in Int
  <2>1. ASSUME run # 0 PROVE calls[run].t \in Int
    <3>1. calls[run].op = "run" /\ run \in 2..n
      BY <1>0, <1>3, <2>1 DEF LastIn
    <3>2. calls[run] \in ActiveInput
      BY <3>1 DEF ActiveCalls
    <3> QED BY <3>1, <3>2, BoundsAssumption DEF ActiveInput, Instants
  <2> QED BY <2>1
<1>7. wait # 0 => calls[wait].next \in Int
  <2>1. ASSUME wait # 0 PROVE calls[wait].next \in Int
    <3>1. calls[wait].op = "wait" /\ wait \in 2..n
      BY <1>0, <1>3, <2>1 DEF LastIn
    <3>2. calls[wait] \in ActiveInput
      BY <3>1 DEF ActiveCalls
    <3> QED BY <3>1, <3>2, BoundsAssumption DEF ActiveInput, Instants
  <2> QED BY <2>1
<1> DEFINE running == IF s.is_running /\ s.scan_started_at # None
                      THEN at - s.scan_started_at ELSE None
           next == IF ~s.is_running /\ s.next_scan_at # None
                   THEN Max({s.next_scan_at - at, 0}) ELSE None
           ago == IF s.last_scan_at = None THEN None ELSE Max({at - s.last_scan_at, 0})
<1>8. answer.running_for = running /\ answer.next_run_in = next
      /\ answer.last_scan_devices = s.last_scan_devices_seen
  <2>1. answer = [is_running |-> s.is_running, running_for |-> running, next_run_in |-> next,
                  last_scan_devices |-> s.last_scan_devices_seen, last_scan_ago |-> ago]
    BY <1>2, Zenon DEF Scan!ActiveResponse, Scan!Max, Max
  <2> HIDE DEF answer, running, next, ago
  <2> QED BY <2>1
<1>9. s.is_running \in BOOLEAN
  BY <1>2 DEF Scan!ActiveStatus
<1>10. run \in Nat /\ wait \in Nat /\ None \notin Int
  BY StatusAssumption
<1>11. running = IF run > wait THEN at - calls[run].t ELSE None
  <2>1. CASE run > wait
    <3>1. s.scan_started_at = calls[run].t /\ s.scan_started_at # None
      BY <1>3, <1>6, <1>10, <2>1
    <3>2. s.is_running
      BY <1>3, <2>1, Zenon
    <3> QED BY <2>1, <3>1, <3>2, Zenon
  <2>2. CASE ~(run > wait)
    <3>1. ~s.is_running
      BY <1>3, <1>9, <2>2, Zenon
    <3> QED BY <2>2, <3>1, Zenon
  <2> QED BY <2>1, <2>2, Zenon
<1>12. next = IF wait > run THEN Max({calls[wait].next - at, 0}) ELSE None
  <2>1. CASE wait > run
    <3>1. s.next_scan_at = calls[wait].next /\ s.next_scan_at # None /\ ~(run > wait)
      BY <1>3, <1>7, <1>10, <2>1
    <3>2. ~s.is_running
      BY <1>3, <1>9, <3>1, Zenon
    <3> QED BY <2>1, <3>1, <3>2, Zenon
  <2>2. CASE ~(wait > run)
    <3>1. s.next_scan_at = None
      BY <1>3, <2>2
    <3> QED BY <2>2, <3>1, Zenon
  <2> QED BY <2>1, <2>2, Zenon
<1> HIDE DEF answer, running, next
<1>13. /\ answer.running_for = IF run > wait THEN at - calls[run].t ELSE None
       /\ answer.next_run_in = IF wait > run THEN Max({calls[wait].next - at, 0}) ELSE None
       /\ answer.last_scan_devices =
              IF record = 0 THEN None ELSE Cardinality(ToSet(calls[record].macs))
  BY <1>3, <1>8, <1>11, <1>12, Zenon
<1> QED BY <1>5, <1>13, Zenon DEF answer, s

LEMMA ActiveHistoriesAreCalls ==
    ASSUME ActiveHistory
    PROVE  (\E n : ActiveCalls(sample'.calls, n)) /\ sample'.at \in Int
<1>1. PICK h \in BoundedSeq(ActiveInput, MaxLength) : \E at \in Instants :
          sample' = [of |-> "active", at |-> at, calls |-> <<[op |-> "init", t |-> 0]>> \o h]
  BY Zenon DEF ActiveHistory, ActiveInput, Take
<1>2. PICK at \in Instants :
          sample' = [of |-> "active", at |-> at, calls |-> <<[op |-> "init", t |-> 0]>> \o h]
  BY <1>1
<1>3. h \in Seq(ActiveInput)
  BY BoundsAssumption, BoundedSeqsAreSeqs
<1> DEFINE m == Len(h)
           first == [op |-> "init", t |-> 0]
           calls == <<first>> \o h
<1>4. m \in Nat /\ \A i \in 1..m : h[i] \in ActiveInput
  BY <1>3, LenProperties, ElementOfSeq
<1>5. /\ DOMAIN calls = 1..(m + 1) /\ Len(calls) = m + 1 /\ calls[1] = first
      /\ \A i \in 2..(m + 1) : calls[i] = h[i - 1]
  <2>1. Len(<<first>>) = 1 /\ <<first>>[1] = first /\ <<first>> \in Seq({first} \cup ActiveInput)
    OBVIOUS
  <2>2. h \in Seq({first} \cup ActiveInput)
    BY <1>3
  <2> HIDE DEF first
  <2> QED BY <1>4, <2>1, <2>2, ConcatProperties
<1> HIDE DEF calls, m
<1>6. \A i \in 2..(m + 1) : calls[i] \in ActiveInput
  <2>1. \A i \in 2..(m + 1) : i - 1 \in 1..m
    BY <1>4
  <2> QED BY <1>4, <1>5, <2>1
<1>7. ActiveCalls(calls, m + 1)
  BY <1>4, <1>5, <1>6 DEF ActiveCalls
<1>8. sample'.calls = calls /\ sample'.at = at
  BY <1>2 DEF calls
<1> QED BY <1>7, <1>8, BoundsAssumption DEF Instants

(* Whatever a scanner did before, its answer is about what it did last: the scan under
   way or the wait for the next one, and what its last finished scan found, each device
   once (active_status.rs:34). *)
THEOREM ScannersTellTheScan == Spec => []TellsTheScanUnderWay
<1>1. Init => TellsTheScanUnderWay
  <2>1. Init => sample.of # "active"
    BY DEF Init
  <2> QED BY <2>1, Zenon DEF TellsTheScanUnderWay
<1>2. TellsTheScanUnderWay /\ [Next]_sample => TellsTheScanUnderWay'
  <2> SUFFICES ASSUME TellsTheScanUnderWay, [Next]_sample PROVE TellsTheScanUnderWay'
    OBVIOUS
  <2>1. CASE UNCHANGED sample
    BY <2>1, Zenon DEF TellsTheScanUnderWay
  <2>2. CASE Next
    <3> SUFFICES ASSUME sample'.of = "active" PROVE TellsTheScanUnderWay'
      BY Zenon DEF TellsTheScanUnderWay
    <3>1. ActiveHistory
      BY <2>2, KindOf
    <3>2. PICK n : ActiveCalls(sample'.calls, n)
      BY <3>1, ActiveHistoriesAreCalls
    <3>3. sample'.at \in Int
      BY <3>1, ActiveHistoriesAreCalls
    <3> QED BY <3>2, <3>3, ActiveAnswerIs, Zenon DEF TellsTheScanUnderWay
  <2> QED BY <2>1, <2>2
<1> QED BY <1>1, <1>2, PTL DEF Spec

-----------------------------------------------------------------------------
Address == [1..4 -> 0..255]

(* An IPv4 address as the number whose order is Ipv4Addr's. *)
Code(a) == ((a[1] * 256 + a[2]) * 256 + a[3]) * 256 + a[4]

LEMMA CodesAreOrdered ==
    ASSUME NEW a \in Address, NEW b \in Address
    PROVE  /\ Code(a) \in Nat
           /\ Code(a) < Code(b) => Wire!Below(a, b)
           /\ Code(a) = Code(b) => a = b
<1> DEFINE Octets(x1, x2, x3, x4) == ((x1 * 256 + x2) * 256 + x3) * 256 + x4
<1>1. DOMAIN a = 1..4 /\ DOMAIN b = 1..4
  BY DEF Address
<1> DEFINE a1 == a[1] a2 == a[2] a3 == a[3] a4 == a[4]
           b1 == b[1] b2 == b[2] b3 == b[3] b4 == b[4]
<1>2. /\ a1 \in 0..255 /\ a2 \in 0..255 /\ a3 \in 0..255 /\ a4 \in 0..255
      /\ b1 \in 0..255 /\ b2 \in 0..255 /\ b3 \in 0..255 /\ b4 \in 0..255
      /\ Code(a) = Octets(a1, a2, a3, a4) /\ Code(b) = Octets(b1, b2, b3, b4)
  BY DEF Address, Code
<1> HIDE DEF a1, a2, a3, a4, b1, b2, b3, b4
<1>o. /\ Code(a) \in Nat
      /\ Code(a) < Code(b) =>
             \/ a1 < b1
             \/ a1 = b1 /\ a2 < b2
             \/ a1 = b1 /\ a2 = b2 /\ a3 < b3
             \/ a1 = b1 /\ a2 = b2 /\ a3 = b3 /\ a4 < b4
      /\ Code(a) = Code(b) => a1 = b1 /\ a2 = b2 /\ a3 = b3 /\ a4 = b4
  BY <1>2
<1>3. /\ Code(a) \in Nat
      /\ Code(a) < Code(b) =>
             \/ a[1] < b[1]
             \/ a[1] = b[1] /\ a[2] < b[2]
             \/ a[1] = b[1] /\ a[2] = b[2] /\ a[3] < b[3]
             \/ a[1] = b[1] /\ a[2] = b[2] /\ a[3] = b[3] /\ a[4] < b[4]
      /\ Code(a) = Code(b) => a[1] = b[1] /\ a[2] = b[2] /\ a[3] = b[3] /\ a[4] = b[4]
  BY <1>o, Zenon DEF a1, a2, a3, a4, b1, b2, b3, b4
<1>4. ASSUME Code(a) < Code(b) PROVE Wire!Below(a, b)
  <2>1. \A j \in 1..(1 - 1) : FALSE
    OBVIOUS
  <2>2. (\A j \in 1..(2 - 1) : j = 1) /\ (\A j \in 1..(3 - 1) : j = 1 \/ j = 2)
        /\ (\A j \in 1..(4 - 1) : j = 1 \/ j = 2 \/ j = 3)
    OBVIOUS
  <2>3. 1 \in DOMAIN a /\ 2 \in DOMAIN a /\ 3 \in DOMAIN a /\ 4 \in DOMAIN a
    BY <1>1
  <2> QED BY <1>3, <1>4, <2>1, <2>2, <2>3, Zenon DEF Wire!Below
<1>5. ASSUME Code(a) = Code(b) PROVE a = b
  <2>1. \A i \in 1..4 : i = 1 \/ i = 2 \/ i = 3 \/ i = 4
    OBVIOUS
  <2>2. \A i \in 1..4 : a[i] = b[i]
    BY <1>3, <1>5, <2>1, Zenon
  <2> QED BY <2>2 DEF Address
<1> QED BY <1>3, <1>4, <1>5

(* One of any addresses is the lowest. *)
LEMMA LowestIsIn ==
    ASSUME NEW ips \in SUBSET Address, ips # {}
    PROVE  Wire!Lowest(ips) \in ips
<1> DEFINE Codes == {Code(ip) : ip \in ips}
<1>1. Codes \in SUBSET Nat /\ Codes # {}
  BY CodesAreOrdered
<1>2. PICK c \in Codes : \A e \in Codes : c <= e
  <2> HIDE DEF Codes
  <2> QED BY <1>1, LeastExists
<1>3. PICK ip \in ips : Code(ip) = c
  OBVIOUS
<1>4. \A other \in ips \ {ip} : Wire!Below(ip, other)
  <2> TAKE other \in ips \ {ip}
  <2>1. ip \in Address /\ other \in Address /\ other # ip
    OBVIOUS
  <2>2. Code(other) \in Codes
    OBVIOUS
  <2>3. Code(ip) <= Code(other) /\ Code(ip) # Code(other)
    BY <1>2, <1>3, <2>1, <2>2, CodesAreOrdered
  <2>4. Code(ip) \in Nat /\ Code(other) \in Nat
    BY <2>1, CodesAreOrdered
  <2>5. Code(ip) < Code(other)
    BY <2>3, <2>4
  <2> QED BY <2>1, <2>5, CodesAreOrdered
<1>5. Wire!Lowest(ips) = CHOOSE x \in ips : \A other \in ips \ {x} : Wire!Below(x, other)
  BY Zenon DEF Wire!Lowest
<1> QED BY <1>4, <1>5, Zenon

(* What a text is read from; octets that read as a text that is not empty. *)
Sources == IpOctets \cup Chunk \cup {r.suffix : r \in {q \in Row : q.suffix # None}}
Told(octets) == Wire!Text(octets) \in STRING \ {""}

LEMMA PartsAreTold ==
    ASSUME NEW s \in Sources, NEW i \in DOMAIN s, NEW j \in DOMAIN s, i <= j,
           SubSeq(s, i, j) # <<>>
    PROVE  Told(SubSeq(s, i, j))
<1>1. Display(SubSeq(s, i, j)) \in STRING \ {""}
  BY TextAssumption, Zenon DEF Sources
<1> QED BY <1>1, Zenon DEF Told, Wire!Text

(* parse_arp_table: rows that are not of a device of the network do not come through. *)
LEMMA ArpTableIs ==
    ASSUME NEW rows \in Seq(Row)
    PROVE  \E n \in Nat : /\ Wire!ParseArpTable(rows) \in [1..n -> [mac: Macs, ip: Address]]
                          /\ \A i \in 1..n : Told(Wire!ParseArpTable(rows)[i].ip)
<1> DEFINE Index(r) == SubSeq(r.suffix, Len(r.suffix) - 3, Len(r.suffix))
           Fits(r)  == /\ r.suffix # None
                       /\ Len(r.suffix) >= 4
                       /\ \A i \in 1..4 : Index(r)[i] <= 255
                       /\ r.value # None
                       /\ Len(r.value) = 6
           n == Len(rows)
           I == {i \in 1..n : Fits(rows[i])}
           c == Cardinality(I)
           at == Ascending(I)
           read == [k \in 1..c |-> rows[at[k]]]
           pairs == [i \in 1..c |-> [mac |-> Wire!FormatMac(read[i].value), ip |-> Index(read[i])]]
<1>1. n \in Nat /\ DOMAIN rows = 1..n /\ \A i \in 1..n : rows[i] \in Row
  BY LenProperties, ElementOfSeq
<1>2. c \in Nat /\ at \in [1..c -> I]
  <2>1. I \in SUBSET (1..n)
    OBVIOUS
  <2> HIDE DEF I, n
  <2> QED BY <1>1, <2>1, AscendingIs
<1>3. Wire!ParseArpTable(rows) = pairs
  <2>1. Wire!Elements(rows, I) = read
    BY Zenon DEF Wire!Elements, Wire!Ascending, Ascending, Wire!Cardinality, Cardinality
  <2>2. I = {i \in DOMAIN rows : Fits(rows[i])}
    BY <1>1
  <2>3. DOMAIN read = 1..c
    OBVIOUS
  <2>4. Wire!ParseArpTable(rows)
            = LET table == Wire!Elements(rows, {i \in DOMAIN rows : Fits(rows[i])})
              IN  [i \in DOMAIN table |->
                      [mac |-> Wire!FormatMac(table[i].value), ip |-> Index(table[i])]]
    BY Zenon DEF Wire!ParseArpTable, Wire!Where
  <2> HIDE DEF I, c, read, Fits, Index
  <2> QED BY <2>1, <2>2, <2>3, <2>4, Zenon
<1>4. ASSUME NEW r \in Row, Fits(r)
      PROVE  Wire!FormatMac(r.value) \in Macs /\ Index(r) \in Address /\ Told(Index(r))
  <2>1. r.value \in MacOctets
    BY <1>4, RowAssumption
  <2>2. r.suffix \in Seq(Nat) /\ Len(r.suffix) >= 4
    BY <1>4, RowAssumption
  <2>i. \A i \in 1..4 : Index(r)[i] <= 255
    BY <1>4, Zenon
  <2> DEFINE l == Len(r.suffix)
             f == l - 3
  <2>3. l \in Nat /\ f \in Nat /\ f >= 1 /\ l - f + 1 = 4 /\ f <= l
    BY <2>2
  <2> DEFINE suffix == r.suffix
             ip == Index(r)
  <2>4. ip = SubSeq(suffix, f, l)
    BY Zenon
  <2>5. suffix \in Seq(Nat) /\ l = Len(suffix) /\ \A i \in 1..4 : ip[i] <= 255
    BY <2>2, <2>i, Zenon
  <2> HIDE DEF l, f, Index, suffix, ip
  <2>6. \A i \in f..l : suffix[i] \in Nat
    <3>1. \A i \in f..l : i \in 1..l
      BY <2>3
    <3> QED BY <2>5, <3>1, ElementOfSeq
  <2>7. ip \in [1..4 -> Nat] /\ ip # <<>>
    <3>1. ip \in Seq(Nat) /\ Len(ip) = 4
      BY <2>3, <2>4, <2>6, SubSeqProperties
    <3>2. ip # <<>>
      BY <3>1
    <3> QED BY <3>1, <3>2, LenProperties
  <2>8. ip \in Address
    <3>1. ASSUME NEW i \in 1..4 PROVE ip[i] \in 0..255
      <4> DEFINE octet == ip[i]
      <4>1. octet \in Nat /\ octet <= 255
        BY <2>5, <2>7
      <4> HIDE DEF octet
      <4>2. octet \in 0..255
        BY <4>1
      <4> QED BY <4>2 DEF octet
    <3> QED BY <2>7, <3>1 DEF Address
  <2>9. Told(ip)
    <3>1. f \in DOMAIN suffix /\ l \in DOMAIN suffix
      BY <2>3, <2>5, LenProperties
    <3>2. suffix \in Sources
      BY <1>4, Zenon DEF Sources, suffix
    <3> QED BY <2>3, <2>4, <2>7, <3>1, <3>2, PartsAreTold
  <2> QED BY <2>1, <2>8, <2>9 DEF Macs, ip
<1>5. ASSUME NEW i \in 1..c PROVE pairs[i] \in [mac: Macs, ip: Address] /\ Told(pairs[i].ip)
  <2>1. at[i] \in I
    <3> HIDE DEF I, c, at
    <3> QED BY <1>2
  <2>2. read[i] = rows[at[i]] /\ rows[at[i]] \in Row /\ Fits(rows[at[i]])
    BY <1>1, <2>1, Zenon
  <2> DEFINE mac == Wire!FormatMac(read[i].value)
             ip == Index(read[i])
  <2>3. mac \in Macs /\ ip \in Address /\ Told(ip)
    <3> HIDE DEF Fits, Index, read
    <3> QED BY <1>4, <2>2
  <2>4. pairs[i] = [mac |-> mac, ip |-> ip]
    BY Zenon
  <2> HIDE DEF mac, ip, pairs
  <2> QED BY <2>3, <2>4
<1> HIDE DEF c, pairs
<1>6. pairs \in [1..c -> [mac: Macs, ip: Address]]
  <2> DEFINE Pair(i) == [mac |-> Wire!FormatMac(read[i].value), ip |-> Index(read[i])]
  <2>1. pairs = [i \in 1..c |-> Pair(i)]
    BY Zenon DEF pairs
  <2> HIDE DEF Pair
  <2>2. \A i \in 1..c : Pair(i) = pairs[i]
    BY <2>1
  <2>3. \A i \in 1..c : pairs[i] \in [mac: Macs, ip: Address]
    BY <1>5
  <2> QED BY <2>1, <2>2, <2>3
<1> QED BY <1>2, <1>3, <1>5, <1>6

Found(pairs) == {pairs[i] : i \in DOMAIN pairs}
AddressesOf(found, mac) == {p.ip : p \in {q \in found : q.mac = mac}}
Settled(found, stored) ==
    [mac \in {p.mac : p \in found} |-> Wire!ChooseIp(AddressesOf(found, mac), stored[mac])]

LEMMA DedupIs ==
    ASSUME NEW pairs, NEW stored
    PROVE  Wire!DedupByMac(pairs, stored) = Settled(Found(pairs), stored)
BY Zenon DEF Wire!DedupByMac, Wire!ToSet, Settled, Found, AddressesOf

(* A MAC settles on one of the addresses listed for it. *)
LEMMA SettledAreListed ==
    ASSUME NEW found \in SUBSET [mac: Macs, ip: Address], NEW stored,
           NEW m \in DOMAIN Settled(found, stored)
    PROVE  m \in Macs /\ Settled(found, stored)[m] \in AddressesOf(found, m)
<1>1. PICK p \in found : p.mac = m
  BY DEF Settled
<1>2. p \in [mac: Macs, ip: Address]
  OBVIOUS
<1>3. m \in Macs
  BY <1>1, <1>2
<1>4. p.ip \in AddressesOf(found, m)
  BY <1>1 DEF AddressesOf
<1>5. AddressesOf(found, m) \in SUBSET Address
  BY DEF AddressesOf
<1>6. Wire!Lowest(AddressesOf(found, m)) \in AddressesOf(found, m)
  BY <1>4, <1>5, LowestIsIn
<1>7. Settled(found, stored)[m] = Wire!ChooseIp(AddressesOf(found, m), stored[m])
  BY DEF Settled
<1>8. Settled(found, stored)[m] \in AddressesOf(found, m)
  BY <1>6, <1>7, Zenon DEF Wire!ChooseIp
<1> QED BY <1>3, <1>8

(* SnmpSettles of one scan: what it settled on is listed, and is settled on again, on
   record now, by a scan that lists it still. *)
SettlesOn(pairs, settled, later, m) ==
    LET at == [mac |-> m, ip |-> settled[m]]
    IN  /\ at \in ToSet(pairs)
        /\ \A again : at \in ToSet(again) => Wire!DedupByMac(again, later)[m] = settled[m]

LEMMA DedupSettles ==
    ASSUME NEW n \in Nat, NEW pairs \in [1..n -> [mac: Macs, ip: Address]], NEW stored,
           NEW settled, settled = Wire!DedupByMac(pairs, stored),
           NEW later, later = [m \in Macs |-> IF m \in DOMAIN settled THEN settled[m]
                                             ELSE stored[m]],
           NEW m \in DOMAIN settled
    PROVE  SettlesOn(pairs, settled, later, m)
<1> DEFINE found == Found(pairs)
           at    == [mac |-> m, ip |-> settled[m]]
<1>1. settled = Settled(found, stored)
  BY DedupIs
<1>2. found \in SUBSET [mac: Macs, ip: Address]
  BY DEF Found
<1> HIDE DEF found
<1>3. m \in Macs /\ settled[m] \in AddressesOf(found, m)
  BY <1>1, <1>2, SettledAreListed
<1>4. later[m] = settled[m]
  BY <1>3
<1>5. at \in ToSet(pairs)
  <2>1. PICK p \in found : p.mac = m /\ p.ip = settled[m]
    BY <1>3 DEF AddressesOf
  <2>2. p \in [mac: Macs, ip: Address]
    BY <1>2
  <2>3. p = at
    BY <2>1, <2>2
  <2> QED BY <2>1, <2>3, Zenon DEF found, Found, ToSet
<1>6. ASSUME NEW again, at \in ToSet(again)
      PROVE  Wire!DedupByMac(again, later)[m] = settled[m]
  <2> DEFINE listed == Found(again)
  <2>1. at \in listed
    BY <1>6, Zenon DEF Found, ToSet
  <2> HIDE DEF listed
  <2>2. m \in {p.mac : p \in listed} /\ settled[m] \in AddressesOf(listed, m)
    BY <2>1 DEF AddressesOf
  <2>3. Settled(listed, later)[m] = Wire!ChooseIp(AddressesOf(listed, m), later[m])
    BY <2>2 DEF Settled
  <2>4. Wire!DedupByMac(again, later) = Settled(listed, later)
    BY DedupIs DEF listed
  <2> QED BY <1>4, <2>2, <2>3, <2>4, Zenon DEF Wire!ChooseIp
<1> HIDE DEF at
<1>7. \A again : at \in ToSet(again) => Wire!DedupByMac(again, later)[m] = settled[m]
  BY <1>6
<1> QED BY <1>5, <1>7, Zenon DEF SettlesOn, at

(* However long the router's cache, a scan settles on an address listed for the MAC, and
   the next one keeps it for as long as it is listed, whatever else is
   (snmp/finder.rs:56). *)
THEOREM ScansSettle == Spec => []SnmpSettles
<1>1. Init => SnmpSettles
  <2>1. Init => sample.of # "snmp"
    BY DEF Init
  <2> QED BY <2>1, Zenon DEF SnmpSettles
<1>2. SnmpSettles /\ [Next]_sample => SnmpSettles'
  <2> SUFFICES ASSUME SnmpSettles, [Next]_sample PROVE SnmpSettles'
    OBVIOUS
  <2>1. CASE UNCHANGED sample
    BY <2>1, Zenon DEF SnmpSettles
  <2>2. CASE Next
    <3> SUFFICES ASSUME sample'.of = "snmp" PROVE SnmpSettles'
      BY Zenon DEF SnmpSettles
    <3>1. SnmpWalk
      BY <2>2, KindOf
    <3>2. PICK rows \in BoundedSeq(Row, MaxLength) : \E stored \in [Macs -> IpOctets \cup {None}] :
              sample' = [of |-> "snmp", rows |-> rows, stored |-> stored]
      BY <3>1, Zenon DEF SnmpWalk, Take
    <3>3. rows \in Seq(Row) /\ sample'.rows = rows
      BY <3>2, BoundsAssumption, BoundedSeqsAreSeqs
    <3>4. PICK n \in Nat : Wire!ParseArpTable(rows) \in [1..n -> [mac: Macs, ip: Address]]
      BY <3>3, ArpTableIs, Zenon
    <3> DEFINE pairs   == Wire!ParseArpTable(sample'.rows)
               settled == Wire!DedupByMac(pairs, sample'.stored)
               later   == [m \in Macs |-> IF m \in DOMAIN settled THEN settled[m]
                                         ELSE sample'.stored[m]]
    <3>5. pairs \in [1..n -> [mac: Macs, ip: Address]]
      BY <3>3, <3>4, Zenon
    <3> HIDE DEF pairs
    <3>6. \A m \in DOMAIN settled : SettlesOn(pairs, settled, later, m)
      BY <3>5, DedupSettles, Zenon
    <3> HIDE DEF settled, later
    <3>7. \A m \in DOMAIN settled :
              /\ [mac |-> m, ip |-> settled[m]] \in ToSet(pairs)
              /\ \A walk \in BoundedSeq(Row, MaxKnown) :
                     [mac |-> m, ip |-> settled[m]] \in ToSet(Wire!ParseArpTable(walk)) =>
                         Wire!DedupByMac(Wire!ParseArpTable(walk), later)[m] = settled[m]
      BY <3>6, Zenon DEF SettlesOn
    <3> QED BY <3>7, Zenon DEF SnmpSettles, pairs, settled, later
  <2> QED BY <2>1, <2>2
<1> QED BY <1>1, <1>2, PTL DEF Spec

-----------------------------------------------------------------------------
(* The rows on page i, when c rows are shown size at a time. *)
RowsOn(i, size, c) ==
    IF i * size >= c THEN 0 ELSE IF i * size + size <= c THEN size ELSE c - i * size

(* page holds what is on page i of s, c rows shown size at a time. *)
IsPage(page, s, i, size, c) ==
    /\ DOMAIN page = 1..RowsOn(i, size, c)
    /\ \A k \in 1..RowsOn(i, size, c) : i * size + k \in 1..c /\ page[k] = s[i * size + k]

ArePages(pages, s, size, c) ==
    /\ DOMAIN pages = 0..(c \div size)
    /\ \A i \in 0..(c \div size) : \A page \in pages[i] : IsPage(page, s, i, size, c)

(* apply_paging: one page of a listing. *)
LEMMA PageIs ==
    ASSUME NEW S, NEW c \in Nat, NEW s \in [1..c -> S], NEW size \in 1..2, NEW i \in Nat
    PROVE  IsPage(Sql!ApplyPaging(s, i * size, size), s, i, size, c)
<1> DEFINE o == i * size
           m == IF o >= c THEN 0 ELSE IF o + size <= c THEN size ELSE c - o
           last == Min({o + size, Len(s)})
           page == SubSeq(s, o + 1, last)
<1>1. o \in Nat /\ size \in Nat \ {0}
  <2>1. size = 1 \/ size = 2
    OBVIOUS
  <2> QED BY <2>1
<1>2. RowsOn(i, size, c) = m
  BY DEF RowsOn
<1> HIDE DEF o
<1>3. m \in Nat /\ (o < c => m = (IF o + size <= c THEN o + size ELSE c) - o)
  BY <1>1
<1>4. s \in Seq(S) /\ Len(s) = c
  OBVIOUS
<1>5. Max({o, 0}) = o
  BY <1>1 DEF Max
<1>6. last = IF o + size <= c THEN o + size ELSE c
  <2> DEFINE x == o + size
  <2>1. x \in Nat
    BY <1>1
  <2>2. last = Min({x, c})
    BY <1>4
  <2> HIDE DEF x, last
  <2>3. Min({x, c}) = IF x <= c THEN x ELSE c
    BY <2>1 DEF Min
  <2> QED BY <2>2, <2>3 DEF x
<1>7. Sql!ApplyPaging(s, o, size) = page
  <2>1. None \notin {o, size}
    BY <1>1, StatusAssumption
  <2>2. ~(size < 0)
    BY <1>1
  <2>3. Sql!ApplyPaging(s, o, size)
            = SubSeq(s, Max({o, 0}) + 1,
                     IF size < 0 THEN Len(s) ELSE Min({Max({o, 0}) + size, Len(s)}))
    BY <2>1, Zenon DEF Sql!ApplyPaging, Sql!Max, Max, Sql!Min, Min
  <2> QED BY <1>5, <2>2, <2>3, Zenon
<1> HIDE DEF last
<1>8. /\ last \in Nat /\ last <= c
      /\ \A k \in (o + 1)..last : s[k] \in S
  <2>1. last \in Nat /\ last <= c
    BY <1>1, <1>6
  <2>2. \A k \in (o + 1)..last : k \in 1..c
    BY <1>1, <2>1
  <2> QED BY <2>1, <2>2
<1>9. /\ page \in Seq(S) /\ Len(page) = (IF o + 1 <= last THEN last - (o + 1) + 1 ELSE 0)
      /\ \A k \in 1..(last - (o + 1) + 1) : page[k] = s[o + 1 + k - 1]
  <2>1. o + 1 \in Int /\ last \in Int
    BY <1>1, <1>8
  <2> QED BY <1>8, <2>1, SubSeqProperties
<1>10. Len(page) = m
  BY <1>1, <1>3, <1>6, <1>9
<1>11. DOMAIN page = 1..m
  <2> HIDE DEF page, m
  <2> QED BY <1>9, <1>10
<1>12. \A k \in 1..m : o + k \in 1..c /\ page[k] = s[o + k]
  <2> TAKE k \in 1..m
  <2>1. o < c /\ k <= last - o /\ last - (o + 1) + 1 = last - o /\ o + 1 + k - 1 = o + k
    BY <1>1, <1>3, <1>6, <1>8
  <2>2. k \in 1..(last - (o + 1) + 1)
    BY <1>1, <1>8, <2>1
  <2>3. page[k] = s[o + k]
    <3> HIDE DEF page, m
    <3> QED BY <1>9, <2>1, <2>2
  <2>4. o + k \in 1..c
    BY <1>1, <1>8, <2>1
  <2> QED BY <2>3, <2>4
<1> HIDE DEF m, page
<1>13. /\ m \in Nat /\ DOMAIN Sql!ApplyPaging(s, o, size) = 1..m
       /\ \A k \in 1..m : o + k \in 1..c /\ Sql!ApplyPaging(s, o, size)[k] = s[o + k]
  BY <1>3, <1>7, <1>11, <1>12
<1> QED BY <1>2, <1>13 DEF o, IsPage

(* Every place of a listing is on one line of one page. *)
LEMMA PlacesAreOnPages ==
    ASSUME NEW c \in Nat, NEW size \in 1..2, NEW x \in 1..c
    PROVE  \E i \in 0..(c \div size) : \E k \in 1..RowsOn(i, size, c) :
               /\ i * size + k = x
               /\ \A j \in Nat : \A l \in 1..RowsOn(j, size, c) :
                      j * size + l = x => j = i /\ l = k
<1>1. CASE size = 1
  <2>1. x - 1 \in 0..(c \div size) /\ x - 1 \in Nat
    BY <1>1
  <2>2. \A j \in Nat : RowsOn(j, size, c) = IF j >= c THEN 0 ELSE 1
    <3> TAKE j \in Nat
    <3>1. j * size = j
      BY <1>1
    <3> QED BY <1>1, <3>1 DEF RowsOn
  <2>3. 1 \in 1..RowsOn(x - 1, size, c) /\ (x - 1) * size + 1 = x
    BY <1>1, <2>1, <2>2
  <2>4. \A j \in Nat : \A l \in 1..RowsOn(j, size, c) :
            j * size + l = x => j = x - 1 /\ l = 1
    BY <1>1, <2>2
  <2> QED BY <2>1, <2>3, <2>4
<1>2. CASE size = 2
  <2> DEFINE i == (x - 1) \div 2
             k == x - i * 2
  <2>1. i \in Nat /\ k \in 1..2 /\ i * 2 + k = x /\ i <= c \div 2 /\ c \div 2 \in Nat
    OBVIOUS
  <2>2. \A j \in Nat : RowsOn(j, size, c)
                           = IF j * 2 >= c THEN 0 ELSE IF j * 2 + 2 <= c THEN 2 ELSE c - j * 2
    BY <1>2 DEF RowsOn
  <2> HIDE DEF i, k
  <2>3. i \in 0..(c \div size)
    BY <1>2, <2>1
  <2>4. k \in 1..RowsOn(i, size, c)
    BY <2>1, <2>2
  <2>5. i * size + k = x
    BY <1>2, <2>1
  <2>6. ASSUME NEW j \in Nat, NEW l \in 1..RowsOn(j, size, c), j * size + l = x
        PROVE  j = i /\ l = k
    <3>1. l \in 1..2
      BY <2>2
    <3> QED BY <1>2, <2>1, <2>6, <3>1
  <2> QED BY <2>3, <2>4, <2>5, <2>6
<1> QED BY <1>1, <1>2

(* The pages of a listing that shows every row of S once show every row of S once. *)
LEMMA PagesShowOnce ==
    ASSUME NEW S, NEW c \in Nat, NEW before, NEW s, Enumerates(s, c, S, before),
           NEW size \in 1..2, NEW pages, ArePages(pages, s, size, c)
    PROVE  /\ \A row \in S : ShownOnce(pages, row)
           /\ \A i \in DOMAIN pages : \A page \in pages[i] : ToSet(page) \subseteq S
<1>0. \A i \in 0..(c \div size) : i \in Nat
  OBVIOUS
<1>l. /\ s \in [1..c -> S]
      /\ \A i, j \in 1..c : i # j => s[i] # s[j]
      /\ \A row \in S : \E i \in 1..c : s[i] = row
  BY DEF Enumerates
<1>d. /\ DOMAIN pages = 0..(c \div size)
      /\ \A i \in 0..(c \div size) : \A page \in pages[i] : IsPage(page, s, i, size, c)
  BY DEF ArePages
<1>p. ASSUME NEW i \in 0..(c \div size), NEW page \in pages[i], NEW k \in DOMAIN page
      PROVE  k \in 1..RowsOn(i, size, c) /\ i * size + k \in 1..c /\ page[k] = s[i * size + k]
  BY <1>d, Zenon DEF IsPage
<1> USE <1>l, <1>d
<1>1. ASSUME NEW row \in S PROVE ShownOnce(pages, row)
  <2>1. PICK x \in 1..c : s[x] = row
    OBVIOUS
  <2>2. PICK i \in 0..(c \div size) : \E k \in 1..RowsOn(i, size, c) :
            /\ i * size + k = x
            /\ \A j \in Nat : \A l \in 1..RowsOn(j, size, c) :
                   j * size + l = x => j = i /\ l = k
    BY PlacesAreOnPages
  <2>3. PICK k \in 1..RowsOn(i, size, c) :
            /\ i * size + k = x
            /\ \A j \in Nat : \A l \in 1..RowsOn(j, size, c) :
                   j * size + l = x => j = i /\ l = k
    BY <2>2
  <2>4. ASSUME NEW j \in 0..(c \div size), NEW page \in pages[j], NEW l \in DOMAIN page,
               page[l] = row
        PROVE  j = i /\ l = k
    <3>1. l \in 1..RowsOn(j, size, c) /\ j * size + l \in 1..c /\ s[j * size + l] = row
      BY <1>p, <2>4, Zenon
    <3>2. j * size + l = x
      BY <2>1, <3>1
    <3> QED BY <1>0, <2>3, <3>1, <3>2
  <2>5. ASSUME NEW page \in pages[i] PROVE k \in DOMAIN page /\ page[k] = row
    BY <2>1, <2>3 DEF IsPage
  <2>6. ASSUME NEW page \in pages[i]
        PROVE  \E m \in DOMAIN page : \A l \in DOMAIN page : page[l] = row <=> l = m
    BY <2>4, <2>5
  <2>7. ASSUME NEW j \in DOMAIN pages \ {i}, NEW page \in pages[j]
        PROVE  row \notin ToSet(page)
    BY <2>4 DEF ToSet
  <2> QED BY <2>6, <2>7 DEF ShownOnce
<1>2. ASSUME NEW i \in DOMAIN pages, NEW page \in pages[i] PROVE ToSet(page) \subseteq S
  <2>1. \A k \in DOMAIN page : page[k] \in S
    <3> TAKE k \in DOMAIN page
    <3>1. i * size + k \in 1..c /\ page[k] = s[i * size + k]
      BY <1>p, Zenon
    <3> QED BY <3>1
  <2> QED BY <2>1 DEF ToSet
<1> QED BY <1>1, <1>2

(* Of two rows on the pages, the one further down does not come before the other. *)
Follows(pages, S, before) ==
    ShownInOrder(pages, LAMBDA a, b : a \in S /\ b \in S /\ <<b, a>> \notin before)

LEMMA PagesFollow ==
    ASSUME NEW S, NEW c \in Nat, NEW before, NEW s, Enumerates(s, c, S, before),
           NEW size \in 1..2, NEW pages, ArePages(pages, s, size, c)
    PROVE  Follows(pages, S, before)
<1>1. \A i \in 0..(c \div size) : i \in Nat
  OBVIOUS
<1>2. s \in [1..c -> S] /\ \A i, j \in 1..c : i < j => <<s[j], s[i]>> \notin before
  BY Zenon DEF Enumerates
<1>3. /\ DOMAIN pages = 0..(c \div size)
      /\ \A i \in 0..(c \div size) : \A page \in pages[i] : IsPage(page, s, i, size, c)
  BY Zenon DEF ArePages
<1>4. ASSUME NEW i \in DOMAIN pages, NEW j \in DOMAIN pages, NEW page \in pages[i],
             NEW later \in pages[j], NEW k \in DOMAIN page, NEW l \in DOMAIN later,
             i < j \/ (i = j /\ page = later /\ k < l)
      PROVE  page[k] \in S /\ later[l] \in S /\ <<later[l], page[k]>> \notin before
  <2>1. i \in Nat /\ j \in Nat /\ IsPage(page, s, i, size, c) /\ IsPage(later, s, j, size, c)
    BY <1>1, <1>3
  <2> DEFINE x == i * size + k
             y == j * size + l
  <2>2. /\ k \in 1..RowsOn(i, size, c) /\ x \in 1..c /\ page[k] = s[x]
        /\ l \in 1..RowsOn(j, size, c) /\ y \in 1..c /\ later[l] = s[y]
    BY <2>1, Zenon DEF IsPage
  <2>3. k \in 1..size /\ l \in 1..size
    BY <2>1, <2>2 DEF RowsOn
  <2>4. x < y
    <3>1. size = 1 \/ size = 2
      OBVIOUS
    <3> QED BY <1>4, <2>1, <2>3, <3>1
  <2> HIDE DEF x, y
  <2> QED BY <1>2, <2>2, <2>4
<1> QED BY <1>4, Zenon DEF Follows, ShownInOrder

-----------------------------------------------------------------------------
(* A table of devices: finitely many rows, told apart by their key. *)
LEMMA TableIs ==
    ASSUME NEW rows \in Table(DeviceRow)
    PROVE  /\ IsFiniteSet(rows)
           /\ \A a, b \in rows : a.mac_address = b.mac_address => a = b
           /\ \A a \in rows : \A column \in Sql!SortColumn \cup {"last_seen"} : a[column] \in Int
<1>1. PICK f \in UNION {[S -> DeviceRow] : S \in SUBSET (1..MaxRows)} :
          rows = {[f[i] EXCEPT !.mac_address = i] : i \in DOMAIN f}
  BY Zenon DEF Table
<1>2. PICK S \in SUBSET (1..MaxRows) : f \in [S -> DeviceRow]
  BY <1>1
<1> DEFINE Row1(i) == [f[i] EXCEPT !.mac_address = i]
<1>3. rows = {Row1(i) : i \in S}
  BY <1>1, <1>2
<1>4. \A i \in S : f[i] \in DeviceRow /\ i \in Int
  BY <1>2
<1>5. ASSUME NEW i \in S
      PROVE  /\ Row1(i).mac_address = i
             /\ \A column \in Sql!SortColumn \cup {"last_seen"} : Row1(i)[column] \in Int
  <2> DEFINE r == f[i]
  <2>1. r \in [mac_address: Int, name: Int, owner: Int, ipv4_address: Int, vendor: Int,
               device_type: Int, is_registered: Int, last_seen: Int]
    BY <1>4, TableAssumption
  <2> HIDE DEF r
  <2>3. /\ r.name \in Int /\ r.owner \in Int /\ r.ipv4_address \in Int /\ r.vendor \in Int
        /\ r.device_type \in Int /\ r.is_registered \in Int /\ r.last_seen \in Int
        /\ r = [mac_address |-> r.mac_address, name |-> r.name, owner |-> r.owner,
                ipv4_address |-> r.ipv4_address, vendor |-> r.vendor,
                device_type |-> r.device_type, is_registered |-> r.is_registered,
                last_seen |-> r.last_seen]
    BY <2>1
  <2> DEFINE q == [r EXCEPT !.mac_address = i]
  <2>4. /\ q["mac_address"] = i /\ q["name"] = r.name /\ q["owner"] = r.owner
        /\ q["ipv4_address"] = r.ipv4_address /\ q["vendor"] = r.vendor
        /\ q["device_type"] = r.device_type /\ q["is_registered"] = r.is_registered
        /\ q["last_seen"] = r.last_seen
    BY <2>3
  <2>5. Row1(i) = q
    BY DEF r
  <2> HIDE DEF q, Row1
  <2>6. \A column \in Sql!SortColumn \cup {"last_seen"} : q[column] \in Int
    BY <1>4, <2>3, <2>4 DEF Sql!SortColumn
  <2> QED BY <2>4, <2>5, <2>6
<1>6. IsFiniteSet(rows)
  <2>1. IsFiniteSet(S)
    <3>1. IsFiniteSet(1..MaxRows)
      BY BoundsAssumption, FS_Interval
    <3> QED BY <1>2, <3>1, FS_Subset
  <2> DEFINE g == [i \in S |-> Row1(i)]
  <2>2. g \in Surjection(S, rows)
    <3> HIDE DEF Row1
    <3> QED BY <1>3 DEF Surjection
  <2> HIDE DEF g
  <2> QED BY <2>1, <2>2, FS_Surjection
<1> HIDE DEF Row1
<1> QED BY <1>3, <1>5, <1>6

(* ORDER BY the column, then the key: of two rows, one comes first. *)
LEMMA DevicesAreOrdered ==
    ASSUME NEW rows \in Table(DeviceRow), NEW sort, NEW a \in rows, NEW b \in rows, a # b
    PROVE  Sql!DeviceBefore(a, b, sort) \/ Sql!DeviceBefore(b, a, sort)
<1> DEFINE column == Sql!ResolveSortColumn(sort.by)
<1>1. column \in Sql!SortColumn \cup {"last_seen"}
  BY DEF Sql!ResolveSortColumn
<1>2. a.mac_address # b.mac_address
  BY TableIs
<1>3. a["mac_address"] \in Int /\ b["mac_address"] \in Int
  BY TableIs DEF Sql!SortColumn
<1> DEFINE x == a[column]
           y == b[column]
           m == a.mac_address
           n == b.mac_address
<1>4. x \in Int /\ y \in Int
  <2> HIDE DEF column
  <2> QED BY <1>1, TableIs
<1> HIDE DEF x, y, m, n
<1>5. x < y \/ x > y \/ (x = y /\ (m < n \/ n < m))
  <2>1. m \in Int /\ n \in Int /\ m # n
    BY <1>2, <1>3 DEF m, n
  <2> QED BY <1>4, <2>1
<1>6. /\ Sql!DeviceBefore(a, b, sort) <=>
             \/ IF sort.order = "asc" THEN x < y ELSE x > y
             \/ x = y /\ m < n
      /\ Sql!DeviceBefore(b, a, sort) <=>
             \/ IF sort.order = "asc" THEN y < x ELSE y > x
             \/ y = x /\ n < m
  BY Zenon DEF Sql!DeviceBefore, x, y, m, n
<1> QED BY <1>4, <1>5, <1>6

(* Of two rows, the one that does not come first is no further in the column. *)
Fits(a, b, sort) ==
    LET column == Sql!ResolveSortColumn(sort.by)
    IN  IF sort.order = "asc" THEN a[column] <= b[column] ELSE a[column] >= b[column]

LEMMA LaterDevicesFit ==
    ASSUME NEW rows \in Table(DeviceRow), NEW sort, NEW a \in rows, NEW b \in rows,
           ~Sql!DeviceBefore(b, a, sort)
    PROVE  Fits(a, b, sort)
<1> DEFINE column == Sql!ResolveSortColumn(sort.by)
           x == a[column]
           y == b[column]
<1>1. column \in Sql!SortColumn \cup {"last_seen"}
  BY DEF Sql!ResolveSortColumn
<1>2. x \in Int /\ y \in Int
  <2> HIDE DEF column
  <2> QED BY <1>1, TableIs
<1>3. Fits(a, b, sort) <=> IF sort.order = "asc" THEN x <= y ELSE x >= y
  BY Zenon DEF Fits
<1>4. ~(IF sort.order = "asc" THEN y < x ELSE y > x)
  BY Zenon DEF Sql!DeviceBefore
<1> HIDE DEF x, y
<1> QED BY <1>2, <1>3, <1>4

(* ORDER BY a total order leaves SQL no choice. *)
LEMMA OneOrder ==
    ASSUME NEW R, IsFiniteSet(R), NEW before, Complete(R, before)
    PROVE  \A s, t \in Sql!Orders(R, before) :
               Enumerates(s, Cardinality(R), R, before) /\ s = t
<1> DEFINE c == Cardinality(R)
<1>1. c \in Nat
  BY FS_CardinalityType
<1>2. ASSUME NEW u \in Sql!Orders(R, before)
      PROVE  /\ u \in [1..c -> R]
             /\ \A i, j \in 1..c : i # j => u[i] # u[j]
             /\ \A i, j \in DOMAIN u : i < j => <<u[j], u[i]>> \notin before
  BY Zenon DEF Sql!Orders, Sql!SetToSeqs, Sql!Cardinality, Cardinality
<1> HIDE DEF c
<1>3. ASSUME NEW u \in Sql!Orders(R, before)
      PROVE  Enumerates(u, c, R, before)
  <2>1. u \in [1..c -> R] /\ \A i, j \in 1..c : i # j => u[i] # u[j]
    BY <1>2, Zenon
  <2>2. \A i, j \in 1..c : i < j => <<u[j], u[i]>> \notin before
    BY <1>2, <2>1
  <2>3. \A x \in R : \E i \in 1..c : u[i] = x
    BY <1>1, <2>1, AllAreListed DEF c
  <2> QED BY <2>1, <2>2, <2>3, Zenon DEF Enumerates
<1>4. ASSUME NEW s \in Sql!Orders(R, before), NEW t \in Sql!Orders(R, before)
      PROVE  s = t
  <2>1. Enumerates(s, c, R, before) /\ Enumerates(t, c, R, before)
    BY <1>3
  <2> QED BY <1>1, <2>1, OrderIsUnique
<1> QED BY <1>3, <1>4, Zenon DEF c

(* Paging through a table that is listed in one order. *)
LEMMA TurningPages ==
    ASSUME NEW R, IsFiniteSet(R), NEW c, c = Cardinality(R), NEW before, Complete(R, before),
           NEW size \in 1..2, NEW pages, DOMAIN pages = 0..(c \div size),
           \A i \in 0..(c \div size) :
               pages[i] = {Sql!ApplyPaging(s, i * size, size) : s \in Sql!Orders(R, before)}
    PROVE  \/ \A i \in 0..(c \div size) : pages[i] = {}
           \/ \E s : Enumerates(s, c, R, before) /\ ArePages(pages, s, size, c)
<1>1. c \in Nat
  BY FS_CardinalityType
<1>2. \A s, t \in Sql!Orders(R, before) : Enumerates(s, c, R, before) /\ s = t
  BY OneOrder, Zenon
<1>0. \A i \in 0..(c \div size) : i \in Nat
  OBVIOUS
<1>3. CASE Sql!Orders(R, before) = {}
  BY <1>3, Zenon
<1>4. CASE Sql!Orders(R, before) # {}
  <2>1. PICK s : s \in Sql!Orders(R, before)
    BY <1>4, Zenon
  <2>2. Enumerates(s, c, R, before)
    BY <1>2, <2>1, Zenon
  <2>3. ASSUME NEW i \in 0..(c \div size), NEW page \in pages[i]
        PROVE  IsPage(page, s, i, size, c)
    <3>0. PICK t \in Sql!Orders(R, before) : page = Sql!ApplyPaging(t, i * size, size)
      <4>1. page \in {Sql!ApplyPaging(t, i * size, size) : t \in Sql!Orders(R, before)}
        OBVIOUS
      <4> QED BY <4>1
    <3>1. page = Sql!ApplyPaging(s, i * size, size)
      BY <1>2, <2>1, <3>0
    <3>2. i \in Nat /\ s \in [1..c -> R]
      BY <1>0, <2>2 DEF Enumerates
    <3> QED BY <1>1, <3>1, <3>2, PageIs
  <2>4. ArePages(pages, s, size, c)
    BY <2>3, Zenon DEF ArePages
  <2> QED BY <2>2, <2>4, Zenon
<1> QED BY <1>3, <1>4

(* PagesPartition of one request. *)
DevicesShown(rows, query, sort, size) ==
    LET filter == Sql!DeviceFilter(query)
        matching == Sql!Filtered(rows, filter)
        total == Sql!CountDevices(rows, filter)
        pages == [i \in 0..(total \div size) |->
                     Sql!ListDevices(rows, filter, sort, i * size, size)]
    IN  /\ total = Cardinality(matching)
        /\ \A row \in matching : ShownOnce(pages, row)
        /\ \A i \in DOMAIN pages : \A page \in pages[i] : ToSet(page) \subseteq matching
        /\ ShownInOrder(pages, LAMBDA a, b : Fits(a, b, sort))

LEMMA DevicePagesPartition ==
    ASSUME NEW rows \in Table(DeviceRow), NEW query, NEW sort, NEW size \in 1..2
    PROVE  DevicesShown(rows, query, sort, size)
<1> DEFINE filter == Sql!DeviceFilter(query)
           R == Sql!Filtered(rows, filter)
           c == Sql!CountDevices(rows, filter)
           pages == [i \in 0..(c \div size) |->
                        Sql!ListDevices(rows, filter, sort, i * size, size)]
           before == {p \in rows \X rows : Sql!DeviceBefore(p[1], p[2], sort)}
<1> HIDE DEF filter
<1>1. c = Cardinality(R)
  BY Zenon DEF Sql!CountDevices, Sql!Cardinality, Cardinality
<1>2. R \in SUBSET rows
  BY DEF Sql!Filtered
<1>3. \A i \in 0..(c \div size) :
          pages[i] = {Sql!ApplyPaging(s, i * size, size) : s \in Sql!Orders(R, before)}
  BY Zenon DEF Sql!ListDevices
<1>4. DOMAIN pages = 0..(c \div size)
  OBVIOUS
<1> HIDE DEF pages, R, c
<1>5. IsFiniteSet(R)
  BY <1>2, TableIs, FS_Subset
<1>6. ASSUME NEW x \in R, NEW y \in R, x # y
      PROVE  <<x, y>> \in before \/ <<y, x>> \in before
  <2>1. x \in rows /\ y \in rows
    BY <1>2
  <2>2. Sql!DeviceBefore(x, y, sort) \/ Sql!DeviceBefore(y, x, sort)
    BY <1>6, <2>1, DevicesAreOrdered
  <2> QED BY <2>1, <2>2
<1> HIDE DEF before
<1>7. Complete(R, before)
  BY <1>6, Zenon DEF Complete
<1>8. c \in Nat /\ 0 \in 0..(c \div size)
  <2>1. size = 1 \/ size = 2
    OBVIOUS
  <2>2. c \in Nat /\ c \div 1 \in Nat /\ c \div 2 \in Nat
    BY <1>1, <1>5, FS_CardinalityType
  <2> QED BY <2>1, <2>2
<1> DEFINE Once == \A row \in R : ShownOnce(pages, row)
           Only == \A i \in DOMAIN pages : \A page \in pages[i] : ToSet(page) \subseteq R
<1>9. \A a, b \in R : <<b, a>> \notin before => Fits(a, b, sort)
  <2>1. ASSUME NEW a \in R, NEW b \in R, <<b, a>> \notin before PROVE Fits(a, b, sort)
    <3>1. a \in rows /\ b \in rows
      BY <1>2
    <3>2. ~Sql!DeviceBefore(b, a, sort)
      BY <2>1, <3>1 DEF before
    <3> QED BY <3>1, <3>2, LaterDevicesFit
  <2> QED BY <2>1
<1>10. Once /\ Only /\ Follows(pages, R, before)
  <2>1. CASE \A i \in 0..(c \div size) : pages[i] = {}
    <3>1. Once /\ Only
      BY <1>4, <1>8, <2>1, Zenon DEF ShownOnce
    <3>2. Follows(pages, R, before)
      BY <1>4, <2>1, Zenon DEF Follows, ShownInOrder
    <3> QED BY <3>1, <3>2
  <2>2. ASSUME NEW s, Enumerates(s, c, R, before), ArePages(pages, s, size, c)
        PROVE  Once /\ Only /\ Follows(pages, R, before)
    BY <1>8, <2>2, PagesShowOnce, PagesFollow
  <2>3. \/ \A i \in 0..(c \div size) : pages[i] = {}
        \/ \E s : Enumerates(s, c, R, before) /\ ArePages(pages, s, size, c)
    BY <1>1, <1>3, <1>4, <1>5, <1>7, TurningPages
  <2> HIDE DEF Once, Only
  <2> QED BY <2>1, <2>2, <2>3
<1>11. ShownInOrder(pages, LAMBDA a, b : Fits(a, b, sort))
  BY <1>9, <1>10, Zenon DEF Follows, ShownInOrder
<1> QED BY <1>1, <1>10, <1>11, Zenon DEF DevicesShown, filter, R, c, pages

(* Whatever the rows, the filters and the column sorted by, turning the pages shows each
   row that matches once and no other, in the order asked for (db/devices.rs:110). *)
THEOREM PagesShowEveryDevice == Spec => []PagesPartition
<1> DEFINE Listed == sample.of = "devices" => /\ sample.rows \in Table(DeviceRow)
                                              /\ sample.size \in 1..2
<1>1. Init => Listed
  BY DEF Init
<1>2. Listed /\ [Next]_sample => Listed'
  <2> SUFFICES ASSUME Listed, [Next]_sample PROVE Listed'
    OBVIOUS
  <2>1. CASE UNCHANGED sample
    BY <2>1, Zenon
  <2>2. CASE Next
    <3> SUFFICES ASSUME sample'.of = "devices" PROVE Listed'
      BY Zenon
    <3>1. DeviceListing
      BY <2>2, KindOf
    <3>2. PICK rows \in Table(DeviceRow) : \E query, sort : \E size \in 1..2 :
              sample' = [of |-> "devices", rows |-> rows, query |-> query, sort |-> sort,
                         size |-> size]
      BY <3>1, Zenon DEF DeviceListing, Take
    <3> QED BY <3>2
  <2> QED BY <2>1, <2>2
<1>3. Listed => PagesPartition
  <2> SUFFICES ASSUME sample.of = "devices", Listed PROVE PagesPartition
    BY Zenon DEF PagesPartition
  <2>1. DevicesShown(sample.rows, sample.query, sample.sort, sample.size)
    BY DevicePagesPartition
  <2> QED BY <2>1, Zenon DEF PagesPartition, DevicesShown, ShownInOrder, Fits
<1> QED BY <1>1, <1>2, <1>3, PTL DEF Spec

-----------------------------------------------------------------------------
(* What ingestion records; an event's id is its row's. *)
Recorded == [id: Int, mac_address: Int, created_on: Int, scanner: DOMAIN Sql!DisplayScanner,
             event_type: DOMAIN Sql!DisplayType]

(* The row of an event, read back. *)
Read(r) == [r EXCEPT !.event_type = Sql!ParseType(@), !.scanner = Sql!ParseScanner(@)]

(* Display and FromStr of the two enumerations agree (model/device_events.rs:96). *)
LEMMA TextsAreReadBack ==
    /\ \A t \in DOMAIN Sql!DisplayType : Sql!ParseType(Sql!DisplayType[t]) = t
    /\ \A t \in DOMAIN Sql!DisplayScanner : Sql!ParseScanner(Sql!DisplayScanner[t]) = t
<1>1. ASSUME NEW t \in DOMAIN Sql!DisplayType PROVE Sql!ParseType(Sql!DisplayType[t]) = t
  <2>1. t \in {"new_device", "device_seen", "device_changed", "device_back_online"}
    BY DEF Sql!DisplayType
  <2> QED BY <2>1 DEF Sql!DisplayType, Sql!ParseType
<1>2. ASSUME NEW t \in DOMAIN Sql!DisplayScanner PROVE Sql!ParseScanner(Sql!DisplayScanner[t]) = t
  <2>1. t \in {"arp", "mdns", "ssdp", "dhcp", "snmp"}
    BY DEF Sql!DisplayScanner
  <2> QED BY <2>1 DEF Sql!DisplayScanner, Sql!ParseScanner
<1> QED BY <1>1, <1>2

(* An event is read back as it was recorded, and its row has its key and its instant. *)
LEMMA EventIsReadBack ==
    ASSUME NEW e \in Recorded
    PROVE  /\ Read(Sql!InsertEvent(e)) = e
           /\ Sql!InsertEvent(e).id = e.id
           /\ Sql!InsertEvent(e).mac_address = e.mac_address
           /\ Sql!InsertEvent(e).created_on = e.created_on
<1> DEFINE type == Sql!DisplayType[e.event_type]
           scanner == Sql!DisplayScanner[e.scanner]
           x == [e EXCEPT !.event_type = type, !.scanner = scanner]
           a == Sql!ParseType(type)
           b == Sql!ParseScanner(scanner)
<1>1. e = [id |-> e.id, mac_address |-> e.mac_address, created_on |-> e.created_on,
           scanner |-> e.scanner, event_type |-> e.event_type]
  BY DEF Recorded
<1>2. Sql!InsertEvent(e) = x
  BY Zenon DEF Sql!InsertEvent
<1>3. a = e.event_type /\ b = e.scanner
  BY TextsAreReadBack DEF Recorded
<1>4. Read(x) = [x EXCEPT !.event_type = Sql!ParseType(x.event_type),
                          !.scanner = Sql!ParseScanner(x.scanner)]
  BY DEF Read
<1> HIDE DEF type, scanner
<1>5. /\ x = [id |-> e.id, mac_address |-> e.mac_address, created_on |-> e.created_on,
              scanner |-> scanner, event_type |-> type]
      /\ x.event_type = type /\ x.scanner = scanner /\ x.id = e.id
      /\ x.mac_address = e.mac_address /\ x.created_on = e.created_on
  <2> DEFINE i == e.id
             m == e.mac_address
             c == e.created_on
             s == e.scanner
             t == e.event_type
  <2>1. e = [id |-> i, mac_address |-> m, created_on |-> c, scanner |-> s, event_type |-> t]
    BY <1>1
  <2> HIDE DEF i, m, c, s, t
  <2>2. x = [id |-> i, mac_address |-> m, created_on |-> c, scanner |-> scanner,
             event_type |-> type]
    <3> DEFINE q == [id |-> i, mac_address |-> m, created_on |-> c, scanner |-> s,
                     event_type |-> t]
    <3>1. x = [q EXCEPT !.event_type = type, !.scanner = scanner]
      BY <2>1, Zenon
    <3>2. [q EXCEPT !.event_type = type, !.scanner = scanner]
              \in [id: {i}, mac_address: {m}, created_on: {c}, scanner: {scanner},
                   event_type: {type}]
      OBVIOUS
    <3> HIDE DEF q, x
    <3>3. x \in [id: {i}, mac_address: {m}, created_on: {c}, scanner: {scanner},
                 event_type: {type}]
      BY <3>1, <3>2
    <3> QED BY <3>3
  <2> HIDE DEF x
  <2> QED BY <2>2 DEF i, m, c
<1> HIDE DEF x
<1>6. Read(x) = [x EXCEPT !.event_type = a, !.scanner = b]
  BY <1>4, <1>5
<1> HIDE DEF a, b
<1>7. Read(x) = [id |-> e.id, mac_address |-> e.mac_address, created_on |-> e.created_on,
                 scanner |-> b, event_type |-> a]
  BY <1>5, <1>6
<1> QED BY <1>1, <1>2, <1>3, <1>5, <1>7

(* A table of events: finitely many, told apart by their ids. *)
EventTable(rows) ==
    /\ IsFiniteSet(rows)
    /\ rows \in SUBSET Recorded
    /\ \A a, b \in rows : a.id = b.id => a = b

LEMMA TheEventTable ==
    ASSUME NEW ids \in SUBSET (1..MaxRows), NEW f \in [ids -> EventRow]
    PROVE  EventTable({[id |-> i, mac_address |-> f[i].mac_address,
                        created_on |-> f[i].created_on, scanner |-> f[i].scanner,
                        event_type |-> f[i].event_type] : i \in ids})
<1> DEFINE Event(i) == [id |-> i, mac_address |-> f[i].mac_address,
                        created_on |-> f[i].created_on, scanner |-> f[i].scanner,
                        event_type |-> f[i].event_type]
           rows == {Event(i) : i \in ids}
<1>1. ASSUME NEW i \in ids PROVE Event(i) \in Recorded /\ Event(i).id = i
  <2>1. f[i] \in [mac_address: Int, created_on: Int, scanner: DOMAIN Sql!DisplayScanner,
                  event_type: DOMAIN Sql!DisplayType]
    BY TableAssumption
  <2>2. i \in Int
    OBVIOUS
  <2> QED BY <2>1, <2>2 DEF Recorded
<1>2. IsFiniteSet(rows)
  <2>1. IsFiniteSet(ids)
    <3>1. IsFiniteSet(1..MaxRows)
      BY BoundsAssumption, FS_Interval
    <3> QED BY <3>1, FS_Subset
  <2> DEFINE g == [i \in ids |-> Event(i)]
  <2>2. g \in Surjection(ids, rows)
    <3> HIDE DEF Event
    <3> QED BY DEF Surjection
  <2> HIDE DEF g
  <2> QED BY <2>1, <2>2, FS_Surjection
<1> HIDE DEF Event
<1>3. rows \in SUBSET Recorded /\ \A a, b \in rows : a.id = b.id => a = b
  BY <1>1
<1>4. EventTable(rows)
  BY <1>2, <1>3, Zenon DEF EventTable
<1> QED BY <1>4, Zenon DEF Event

(* ORDER BY created_on, id: of two rows, one comes first. *)
LEMMA EventsAreOrdered ==
    ASSUME NEW a, NEW b, a.id \in Int, b.id \in Int, a.created_on \in Int,
           b.created_on \in Int, a.id # b.id
    PROVE  Sql!EventBefore(a, b) \/ Sql!EventBefore(b, a)
<1> DEFINE x == a.created_on
           y == b.created_on
           m == a.id
           n == b.id
<1>1. x \in Int /\ y \in Int /\ m \in Int /\ n \in Int /\ m # n
  OBVIOUS
<1>2. /\ Sql!EventBefore(a, b) <=> x > y \/ (x = y /\ m > n)
      /\ Sql!EventBefore(b, a) <=> y > x \/ (y = x /\ n > m)
  BY DEF Sql!EventBefore
<1> HIDE DEF x, y, m, n
<1> QED BY <1>1, <1>2

Wanted(rows, mac, from) == {e \in rows : Sql!EventMatches(e, mac, from)}
Stored(rows) == {Sql!InsertEvent(e) : e \in rows}
Newer(rows) == {p \in rows \X rows : Sql!EventBefore(p[1], p[2])}

(* The rows that match are the rows of the events that match. *)
LEMMA StoredIs ==
    ASSUME NEW rows, EventTable(rows), NEW mac, NEW from, NEW R, NEW before,
           R = Wanted(Stored(rows), mac, from), before = Newer(Stored(rows))
    PROVE  /\ \A r \in R : Read(r) \in Wanted(rows, mac, from) /\ Sql!InsertEvent(Read(r)) = r
           /\ \A e \in Wanted(rows, mac, from) :
                  Sql!InsertEvent(e) \in R /\ Read(Sql!InsertEvent(e)) = e
           /\ IsFiniteSet(R) /\ IsFiniteSet(Wanted(rows, mac, from))
           /\ Cardinality(R) = Cardinality(Wanted(rows, mac, from))
           /\ Complete(R, before)
<1> DEFINE stored == {Sql!InsertEvent(e) : e \in rows}
           wanted == {e \in rows : Sql!EventMatches(e, mac, from)}
<1>d. /\ R = {r \in stored : Sql!EventMatches(r, mac, from)}
      /\ before = {p \in stored \X stored : Sql!EventBefore(p[1], p[2])}
  BY DEF Wanted, Stored, Newer
<1>0. /\ IsFiniteSet(rows) /\ rows \in SUBSET Recorded
      /\ \A a, b \in rows : a.id = b.id => a = b
  BY DEF EventTable
<1>1. ASSUME NEW e \in rows
      PROVE  Sql!EventMatches(Sql!InsertEvent(e), mac, from) <=> Sql!EventMatches(e, mac, from)
  <2>1. /\ Sql!InsertEvent(e).mac_address = e.mac_address
        /\ Sql!InsertEvent(e).created_on = e.created_on
    BY <1>0, EventIsReadBack
  <2> QED BY <2>1, Zenon DEF Sql!EventMatches
<1>2. ASSUME NEW e \in wanted
      PROVE  Sql!InsertEvent(e) \in R /\ Read(Sql!InsertEvent(e)) = e
  BY <1>0, <1>1, <1>d, EventIsReadBack
<1>3. ASSUME NEW r \in R PROVE \E e \in wanted : r = Sql!InsertEvent(e)
  BY <1>1, <1>d
<1>4. ASSUME NEW r \in R PROVE Read(r) \in wanted /\ Sql!InsertEvent(Read(r)) = r
  BY <1>2, <1>3, Zenon
<1>5. IsFiniteSet(wanted)
  BY <1>0, FS_Subset
<1>6. IsFiniteSet(R) /\ Cardinality(R) = Cardinality(wanted)
  <2> DEFINE g == [e \in wanted |-> Sql!InsertEvent(e)]
  <2> HIDE DEF wanted
  <2>1. g \in [wanted -> R]
    BY <1>2
  <2>2. \A d, e \in wanted : g[d] = g[e] => d = e
    <3>1. ASSUME NEW d \in wanted, NEW e \in wanted, g[d] = g[e] PROVE d = e
      <4>1. Sql!InsertEvent(d) = Sql!InsertEvent(e)
        BY <3>1
      <4> QED BY <1>2, <4>1
    <3> QED BY <3>1
  <2>3. \A r \in R : \E e \in wanted : g[e] = r
    BY <1>3
  <2> HIDE DEF g
  <2>4. g \in Bijection(wanted, R)
    BY <2>1, <2>2, <2>3 DEF Bijection, Injection, Surjection, IsInjective
  <2>5. ExistsBijection(wanted, R)
    BY <2>4 DEF ExistsBijection
  <2> QED BY <1>5, <2>5, FS_Bijection
<1>7. ASSUME NEW x \in R, NEW y \in R, x # y
      PROVE  <<x, y>> \in before \/ <<y, x>> \in before
  <2>1. PICK d \in wanted : x = Sql!InsertEvent(d)
    BY <1>3
  <2>2. PICK e \in wanted : y = Sql!InsertEvent(e)
    BY <1>3
  <2>3. d.id # e.id /\ d \in Recorded /\ e \in Recorded
    BY <1>0, <1>7, <2>1, <2>2
  <2>4. /\ x.id = d.id /\ x.created_on = d.created_on
        /\ y.id = e.id /\ y.created_on = e.created_on
    BY <2>1, <2>2, <2>3, EventIsReadBack
  <2>5. x.id \in Int /\ y.id \in Int /\ x.created_on \in Int /\ y.created_on \in Int
    BY <2>3, <2>4 DEF Recorded
  <2>6. Sql!EventBefore(x, y) \/ Sql!EventBefore(y, x)
    BY <2>3, <2>4, <2>5, EventsAreOrdered
  <2>7. x \in stored /\ y \in stored
    BY <1>d
  <2> QED BY <1>d, <2>6, <2>7
<1> HIDE DEF wanted
<1>8. Complete(R, before)
  BY <1>7, Zenon DEF Complete
<1> QED BY <1>2, <1>4, <1>5, <1>6, <1>8, Zenon DEF wanted, Wanted

(* read_events: a page of rows is read as a page of the events. *)
LEMMA ReadPage ==
    ASSUME NEW p, NEW s, NEW i, NEW size, NEW c, IsPage(p, s, i, size, c),
           \A k \in 1..c : Read(s[k]) \in Recorded
    PROVE  IsPage(Sql!ReadEvents(p), [k \in 1..c |-> Read(s[k])], i, size, c)
<1> DEFINE read == [k \in DOMAIN p |-> Read(p[k])]
           u == [k \in 1..c |-> Read(s[k])]
<1>1. /\ DOMAIN p = 1..RowsOn(i, size, c)
      /\ \A k \in DOMAIN p : i * size + k \in 1..c /\ p[k] = s[i * size + k]
  BY Zenon DEF IsPage
<1>2. Sql!ReadEvents(p) = IF \E k \in DOMAIN read : None \in {read[k].event_type, read[k].scanner}
                          THEN None ELSE read
  BY Zenon DEF Sql!ReadEvents, Read
<1> HIDE DEF u
<1>3. DOMAIN read = 1..RowsOn(i, size, c)
  BY <1>1
<1>4. ASSUME NEW k \in DOMAIN p
      PROVE  /\ i * size + k \in 1..c /\ read[k] = u[i * size + k]
             /\ None \notin {read[k].event_type, read[k].scanner}
  <2>1. i * size + k \in 1..c /\ p[k] = s[i * size + k]
    BY <1>1
  <2>2. u[i * size + k] = Read(s[i * size + k])
    BY <2>1 DEF u
  <2>3. read[k] = Read(s[i * size + k]) /\ read[k] \in Recorded
    BY <2>1
  <2>4. None # read[k].event_type /\ None # read[k].scanner
    <3> HIDE DEF read
    <3> QED BY <2>3, EventAssumption DEF Recorded
  <2> QED BY <2>1, <2>2, <2>3, <2>4
<1> HIDE DEF read
<1>5. Sql!ReadEvents(p) = read
  BY <1>1, <1>2, <1>3, <1>4
<1>6. IsPage(read, u, i, size, c)
  BY <1>1, <1>3, <1>4 DEF IsPage
<1> QED BY <1>5, <1>6 DEF u

(* EventsReadBack of one request. *)
EventsShown(rows, mac, from, size) ==
    LET stored == {Sql!InsertEvent(e) : e \in rows}
        wanted == {e \in rows : Sql!EventMatches(e, mac, from)}
        pages == [i \in 0..(Cardinality(wanted) \div size) |->
                     Sql!ListEvents(stored, mac, from, i * size, size)]
    IN  /\ \A e \in wanted : ShownOnce(pages, e)
        /\ \A i \in DOMAIN pages : \A page \in pages[i] : ToSet(page) \subseteq wanted
        /\ ShownInOrder(pages, LAMBDA a, b : a.created_on >= b.created_on)

(* The pages of a device's events. *)
LEMMA EventPages ==
    ASSUME NEW rows, EventTable(rows), NEW mac, NEW from, NEW size \in 1..2
    PROVE  EventsShown(rows, mac, from, size)
<1> DEFINE stored == {Sql!InsertEvent(e) : e \in rows}
           wanted == {e \in rows : Sql!EventMatches(e, mac, from)}
           R == {r \in stored : Sql!EventMatches(r, mac, from)}
           before == {p \in stored \X stored : Sql!EventBefore(p[1], p[2])}
           c == Cardinality(wanted)
           pages == [i \in 0..(c \div size) |->
                        Sql!ListEvents(stored, mac, from, i * size, size)]
           raw == [i \in 0..(c \div size) |->
                      {Sql!ApplyPaging(s, i * size, size) : s \in Sql!Orders(R, before)}]
           newer == {p \in wanted \X wanted : Sql!EventBefore(p[1], p[2])}
<1>1. /\ \A r \in R : Read(r) \in wanted /\ Sql!InsertEvent(Read(r)) = r
      /\ \A e \in wanted : Sql!InsertEvent(e) \in R /\ Read(Sql!InsertEvent(e)) = e
      /\ IsFiniteSet(R) /\ IsFiniteSet(wanted) /\ Cardinality(R) = c
      /\ Complete(R, before)
  <2>1. /\ wanted = Wanted(rows, mac, from)
        /\ R = Wanted(Stored(rows), mac, from) /\ before = Newer(Stored(rows))
    BY Zenon DEF Wanted, Stored, Newer
  <2> HIDE DEF wanted, R, before
  <2> QED BY <2>1, StoredIs
<1>2. wanted \in SUBSET Recorded /\ R \in SUBSET stored
  BY DEF EventTable
<1>3. DOMAIN pages = 0..(c \div size) /\ DOMAIN raw = 0..(c \div size)
  OBVIOUS
<1>4. ASSUME NEW i \in 0..(c \div size), NEW page \in pages[i]
      PROVE  \E p \in raw[i] : page = Sql!ReadEvents(p)
  <2>1. page \in {Sql!ReadEvents(Sql!ApplyPaging(s, i * size, size)) : s \in Sql!Orders(R, before)}
    BY Zenon DEF Sql!ListEvents
  <2>2. PICK s \in Sql!Orders(R, before) :
            page = Sql!ReadEvents(Sql!ApplyPaging(s, i * size, size))
    BY <2>1
  <2>3. Sql!ApplyPaging(s, i * size, size) \in raw[i]
    BY <2>2
  <2> QED BY <2>2, <2>3
<1>5. \A i \in 0..(c \div size) :
          raw[i] = {Sql!ApplyPaging(s, i * size, size) : s \in Sql!Orders(R, before)}
  OBVIOUS
<1>6. \A x, y \in R : <<x, y>> \notin before => ~Sql!EventBefore(x, y)
  BY <1>2
<1>7. \A x, y \in wanted : <<x, y>> \in newer => Sql!EventBefore(x, y)
  OBVIOUS
<1>7a. \A a, b \in wanted : <<b, a>> \notin newer => a.created_on >= b.created_on
  <2>1. ASSUME NEW a \in wanted, NEW b \in wanted, <<b, a>> \notin newer
        PROVE  a.created_on >= b.created_on
    <3>1. a.created_on \in Int /\ b.created_on \in Int
      BY <1>2 DEF Recorded
    <3>2. ~Sql!EventBefore(b, a)
      BY <2>1
    <3>3. ~(b.created_on > a.created_on)
      BY <3>2, Zenon DEF Sql!EventBefore
    <3> QED BY <3>1, <3>3
  <2> QED BY <2>1
<1> HIDE DEF pages, raw, before, newer, R
<1>8. c \in Nat /\ 0 \in 0..(c \div size) /\ \A i \in 0..(c \div size) : i \in Nat
  <2>1. size = 1 \/ size = 2
    OBVIOUS
  <2>2. c \in Nat
    BY <1>1, FS_CardinalityType
  <2> HIDE DEF c
  <2>3. c \div 1 \in Nat /\ c \div 2 \in Nat
    BY <2>2
  <2> QED BY <2>1, <2>2, <2>3
<1> HIDE DEF c, wanted
<1> DEFINE Once == \A e \in wanted : ShownOnce(pages, e)
           Only == \A i \in DOMAIN pages : \A page \in pages[i] : ToSet(page) \subseteq wanted
           Sorted == ShownInOrder(pages, LAMBDA a, b : a.created_on >= b.created_on)
<1>9. ASSUME \A i \in 0..(c \div size) : raw[i] = {} PROVE Once /\ Only /\ Sorted
  <2>1. \A i \in 0..(c \div size) : pages[i] = {}
    BY <1>4, <1>9
  <2>2. Once
    BY <1>3, <1>8, <2>1 DEF ShownOnce
  <2>3. Only
    BY <1>3, <2>1
  <2>4. Sorted
    BY <1>3, <2>1, Zenon DEF ShownInOrder
  <2> QED BY <2>2, <2>3, <2>4
<1>10. ASSUME NEW s, Enumerates(s, c, R, before), ArePages(raw, s, size, c)
       PROVE  Once /\ Only /\ Sorted
  <2> DEFINE u == [k \in 1..c |-> Read(s[k])]
  <2>1. /\ s \in [1..c -> R]
        /\ \A i, j \in 1..c : i # j => s[i] # s[j]
        /\ \A x \in R : \E i \in 1..c : s[i] = x
        /\ \A i, j \in 1..c : i < j => <<s[j], s[i]>> \notin before
    BY <1>10, Zenon DEF Enumerates
  <2>2. \A k \in 1..c : s[k] \in R /\ Read(s[k]) \in wanted /\ Read(s[k]) \in Recorded
    BY <1>1, <1>2, <2>1
  <2>3. ASSUME NEW i \in 0..(c \div size), NEW page \in pages[i]
        PROVE  IsPage(page, u, i, size, c)
    <3>1. PICK p \in raw[i] : page = Sql!ReadEvents(p)
      BY <1>4
    <3>2. IsPage(p, s, i, size, c)
      BY <1>10 DEF ArePages
    <3> QED BY <2>2, <3>1, <3>2, ReadPage, Zenon
  <2>4. u \in [1..c -> wanted] /\ \A k \in 1..c : u[k] = Read(s[k])
    BY <2>2
  <2> HIDE DEF u
  <2>5. ArePages(pages, u, size, c)
    BY <1>3, <2>3, Zenon DEF ArePages
  <2>6. \A k \in 1..c : u[k] \in wanted /\ s[k] = Sql!InsertEvent(u[k])
    BY <1>1, <2>2, <2>4
  <2>7. \A k, l \in 1..c : k < l => ~Sql!EventBefore(u[l], u[k])
    <3>1. ASSUME NEW k \in 1..c, NEW l \in 1..c, k < l PROVE ~Sql!EventBefore(u[l], u[k])
      <4>1. ~Sql!EventBefore(s[l], s[k])
        BY <1>6, <2>1, <2>2, <3>1
      <4>2. /\ s[l].id = u[l].id /\ s[l].created_on = u[l].created_on
            /\ s[k].id = u[k].id /\ s[k].created_on = u[k].created_on
        BY <1>2, <2>6, EventIsReadBack
      <4> QED BY <4>1, <4>2, Zenon DEF Sql!EventBefore
    <3> QED BY <3>1
  <2>8. Enumerates(u, c, wanted, newer)
    <3>1. \A i, j \in 1..c : i # j => u[i] # u[j]
      BY <2>1, <2>6
    <3>2. ASSUME NEW e \in wanted PROVE \E k \in 1..c : u[k] = e
      <4>1. PICK k \in 1..c : s[k] = Sql!InsertEvent(e)
        BY <1>1, <2>1
      <4> QED BY <1>1, <2>4, <4>1
    <3>3. \A k, l \in 1..c : k < l => <<u[l], u[k]>> \notin newer
      BY <1>7, <2>6, <2>7
    <3> QED BY <2>4, <3>1, <3>2, <3>3, Zenon DEF Enumerates
  <2>9. Once /\ Only
    BY <1>8, <2>5, <2>8, PagesShowOnce
  <2>10. Follows(pages, wanted, newer)
    BY <1>8, <2>5, <2>8, PagesFollow
  <2>11. Sorted
    BY <1>7a, <2>10, Zenon DEF Follows, ShownInOrder
  <2> HIDE DEF Once, Only, Sorted
  <2> QED BY <2>9, <2>11
<1>11. Once /\ Only /\ Sorted
  <2>1. \/ \A i \in 0..(c \div size) : raw[i] = {}
        \/ \E s : Enumerates(s, c, R, before) /\ ArePages(raw, s, size, c)
    BY <1>1, <1>3, <1>5, TurningPages
  <2>2. ASSUME NEW s, Enumerates(s, c, R, before) /\ ArePages(raw, s, size, c)
        PROVE  Once /\ Only /\ Sorted
    BY <1>10, <2>2
  <2> HIDE DEF Once, Only, Sorted
  <2> QED BY <1>9, <2>1, <2>2
<1> QED BY <1>11, Zenon DEF EventsShown, pages, c, wanted

(* Whatever the events, the pages show each event that matches once, newest first, and
   as it was recorded (db/device_events.rs:91). *)
THEOREM EventsAreReadBack == Spec => []EventsReadBack
<1> DEFINE Listed == sample.of = "events" => EventTable(sample.rows) /\ sample.size \in 1..2
<1>1. Init => Listed
  BY DEF Init
<1>2. Listed /\ [Next]_sample => Listed'
  <2> SUFFICES ASSUME Listed, [Next]_sample PROVE Listed'
    OBVIOUS
  <2>1. CASE UNCHANGED sample
    BY <2>1 DEF EventTable
  <2>2. CASE Next
    <3> SUFFICES ASSUME sample'.of = "events" PROVE Listed'
      BY Zenon
    <3>1. EventListing
      BY <2>2, KindOf
    <3>2. PICK ids \in SUBSET (1..MaxRows) : \E f \in [ids -> EventRow] :
              \E mac, from : \E size \in 1..2 :
                  sample' = [of |-> "events", mac |-> mac, from |-> from, size |-> size,
                             rows |-> {[id |-> i, mac_address |-> f[i].mac_address,
                                        created_on |-> f[i].created_on,
                                        scanner |-> f[i].scanner,
                                        event_type |-> f[i].event_type] : i \in ids}]
      BY <3>1, Zenon DEF EventListing, Take
    <3>3. PICK f \in [ids -> EventRow] : \E mac, from : \E size \in 1..2 :
              sample' = [of |-> "events", mac |-> mac, from |-> from, size |-> size,
                         rows |-> {[id |-> i, mac_address |-> f[i].mac_address,
                                    created_on |-> f[i].created_on,
                                    scanner |-> f[i].scanner,
                                    event_type |-> f[i].event_type] : i \in ids}]
      BY <3>2
    <3> DEFINE rows == {[id |-> i, mac_address |-> f[i].mac_address,
                         created_on |-> f[i].created_on, scanner |-> f[i].scanner,
                         event_type |-> f[i].event_type] : i \in ids}
    <3>4. EventTable(rows)
      BY TheEventTable
    <3>5. \E mac, from : \E size \in 1..2 :
              sample' = [of |-> "events", mac |-> mac, from |-> from, size |-> size,
                         rows |-> rows]
      BY <3>3
    <3> HIDE DEF rows
    <3>6. sample'.rows = rows /\ sample'.size \in 1..2
      BY <3>5
    <3>7. EventTable(sample'.rows)
      BY <3>4, <3>6
    <3> QED BY <3>6, <3>7 DEF EventTable
  <2> QED BY <2>1, <2>2
<1>3. Listed => EventsReadBack
  <2> SUFFICES ASSUME sample.of = "events", Listed PROVE EventsReadBack
    BY Zenon DEF EventsReadBack
  <2>1. EventsShown(sample.rows, sample.mac, sample.from, sample.size)
    BY EventPages
  <2> QED BY <2>1, Zenon DEF EventsReadBack, EventsShown
<1> QED BY <1>1, <1>2, <1>3, PTL DEF Spec

-----------------------------------------------------------------------------
(* The TLV walk, turn by turn. *)
LEMMA WalkUnfolds ==
    ASSUME NEW buf, Len(buf) \in Nat
    PROVE  \E w : /\ w[0] = [i |-> 1, read |-> <<>>]
                  /\ \A n \in 1..Len(buf) : w[n] = Wire!NextOption(buf, w[n - 1])
                  /\ Wire!Options(buf) = w[Len(buf)].read
<1> DEFINE start == [i |-> 1, read |-> <<>>]
           Unfolded(w, k) ==
               w = [n \in 0..k |-> IF n = 0 THEN start ELSE Wire!NextOption(buf, w[n - 1])]
           P == {k \in Nat : \E w : Unfolded(w, k)}
<1>0. Wire!Options(buf) = (CHOOSE w : Unfolded(w, Len(buf)))[Len(buf)].read
  BY Zenon DEF Wire!Options
<1> HIDE DEF start
<1>1. 0 \in P
  <2> DEFINE w == [n \in 0..0 |-> start]
  <2>1. Unfolded(w, 0)
    OBVIOUS
  <2> HIDE DEF w, Unfolded
  <2> QED BY <2>1
<1>2. ASSUME NEW k \in P
      PROVE  k + 1 \in P
  <2>0. k \in Nat
    OBVIOUS
  <2>1. PICK w : Unfolded(w, k)
    OBVIOUS
  <2> DEFINE l == [n \in 0..(k + 1) |-> IF n = k + 1 THEN Wire!NextOption(buf, w[k]) ELSE w[n]]
  <2>2. ASSUME NEW n \in 0..(k + 1)
        PROVE  l[n] = IF n = 0 THEN start ELSE Wire!NextOption(buf, l[n - 1])
    <3>1. CASE n = 0
      BY <2>0, <2>1, <3>1
    <3>2. CASE n \in 1..k
      <4>1. l[n] = w[n] /\ l[n - 1] = w[n - 1]
        BY <2>0, <3>2
      <4>2. w[n] = Wire!NextOption(buf, w[n - 1])
        BY <2>0, <2>1, <3>2
      <4> QED BY <3>2, <4>1, <4>2
    <3>3. CASE n = k + 1
      BY <2>0, <3>3
    <3> QED BY <2>0, <3>1, <3>2, <3>3
  <2>3. Unfolded(l, k + 1)
    BY <2>2
  <2> HIDE DEF l, Unfolded
  <2> QED BY <2>0, <2>3
<1>3. P = Nat
  <2>1. P \in SUBSET Nat
    OBVIOUS
  <2> HIDE DEF P
  <2> QED BY <1>1, <1>2, <2>1, Induction
<1> DEFINE walk == CHOOSE w : Unfolded(w, Len(buf))
<1>4. Unfolded(walk, Len(buf))
  <2>1. \E w : Unfolded(w, Len(buf))
    BY <1>3
  <2> HIDE DEF Unfolded
  <2> QED BY <2>1
<1>5. Wire!Options(buf) = walk[Len(buf)].read
  BY <1>0
<1> HIDE DEF walk
<1>6. /\ walk[0] = start
      /\ \A n \in 1..Len(buf) : walk[n] = Wire!NextOption(buf, walk[n - 1])
  BY <1>4
<1> QED BY <1>5, <1>6 DEF start

(* The chunks laid end to end: f[n] is the first n of them. *)
LaidOut(f, chunks, S) ==
    /\ f \in [0..Len(chunks) -> Seq(S)]
    /\ f[0] = <<>>
    /\ \A n \in 1..Len(chunks) : f[n] = f[n - 1] \o chunks[n]

LEMMA LayoutExists ==
    ASSUME NEW S, NEW chunks \in Seq(Seq(S))
    PROVE  \E f : LaidOut(f, chunks, S)
<1> DEFINE N == Len(chunks)
           Good(f, m) == /\ f \in [0..m -> Seq(S)]
                         /\ f[0] = <<>>
                         /\ \A n \in 1..m : f[n] = f[n - 1] \o chunks[n]
           P == {m \in Nat : m <= N => \E f : Good(f, m)}
<1>0. N \in Nat /\ \A n \in 1..N : chunks[n] \in Seq(S)
  OBVIOUS
<1> HIDE DEF N
<1>1. 0 \in P
  <2> DEFINE f == [n \in 0..0 |-> <<>>]
  <2>1. Good(f, 0)
    OBVIOUS
  <2> HIDE DEF f, Good
  <2> QED BY <2>1
<1>2. ASSUME NEW m \in P PROVE m + 1 \in P
  <2>0. m \in Nat
    OBVIOUS
  <2>1. ASSUME m + 1 <= N PROVE \E f : Good(f, m + 1)
    <3>1. PICK f : Good(f, m)
      <4>1. m <= N
        BY <1>0, <2>0, <2>1
      <4> HIDE DEF Good
      <4> QED BY <4>1
    <3> DEFINE new == f[m] \o chunks[m + 1]
               l == [n \in 0..(m + 1) |-> IF n = m + 1 THEN new ELSE f[n]]
    <3>2. f[m] \in Seq(S) /\ chunks[m + 1] \in Seq(S)
      BY <1>0, <2>0, <2>1, <3>1
    <3>3. new \in Seq(S)
      BY <3>2, ConcatProperties
    <3>4. \A n \in 0..m : f[n] \in Seq(S) /\ l[n] = f[n]
      BY <2>0, <3>1
    <3> HIDE DEF new
    <3>5. l[m + 1] = new
      BY <2>0
    <3>6. l \in [0..(m + 1) -> Seq(S)]
      <4>1. \A n \in 0..(m + 1) : n = m + 1 \/ n \in 0..m
        BY <2>0
      <4>2. \A n \in 0..(m + 1) : l[n] \in Seq(S)
        <5> HIDE DEF l
        <5> QED BY <3>3, <3>4, <3>5, <4>1
      <4> QED BY <4>2
    <3>7. l[0] = <<>>
      BY <2>0, <3>1, <3>4
    <3>8. ASSUME NEW n \in 1..(m + 1) PROVE l[n] = l[n - 1] \o chunks[n]
      <4>1. CASE n = m + 1
        <5>1. n - 1 = m /\ n - 1 \in 0..m
          BY <2>0, <4>1
        <5> HIDE DEF l
        <5> QED BY <3>4, <3>5, <4>1, <5>1 DEF new
      <4>2. CASE n # m + 1
        <5>1. n \in 1..m /\ n \in 0..m /\ n - 1 \in 0..m
          BY <2>0, <4>2
        <5>2. f[n] = f[n - 1] \o chunks[n]
          BY <3>1, <5>1
        <5> HIDE DEF l
        <5> QED BY <3>4, <5>1, <5>2
      <4> QED BY <4>1, <4>2
    <3>9. Good(l, m + 1)
      <4> HIDE DEF l
      <4> QED BY <3>6, <3>7, <3>8
    <3> HIDE DEF Good, l
    <3> QED BY <3>9
  <2> HIDE DEF Good
  <2> QED BY <2>0, <2>1
<1>3. P = Nat
  <2>1. P \in SUBSET Nat
    OBVIOUS
  <2> HIDE DEF P
  <2> QED BY <1>1, <1>2, <2>1, Induction
<1>4. \E f : Good(f, N)
  <2> HIDE DEF Good
  <2>1. N \in P
    <3> HIDE DEF P
    <3> QED BY <1>0, <1>3
  <2>2. N <= N
    BY <1>0
  <2> QED BY <2>1, <2>2
<1> QED BY <1>4, Zenon DEF LaidOut, N

LEMMA FlattenIs ==
    ASSUME NEW S, NEW chunks \in Seq(Seq(S)), NEW f, LaidOut(f, chunks, S),
           NEW n \in 0..Len(chunks)
    PROVE  FlattenSeq(SubSeq(chunks, 1, n)) = f[n]
<1> DEFINE N == Len(chunks)
           s == SubSeq(chunks, 1, n)
<1>1. /\ N \in Nat /\ n \in Nat /\ n <= N /\ Len(s) = n
      /\ \A i \in 1..n : s[i] = chunks[i]
  <2>1. N \in Nat /\ n \in Nat /\ n <= N
    OBVIOUS
  <2>2. Len(s) = n /\ \A i \in 1..n : s[i] = chunks[i]
    BY <2>1, SubSeqProperties
  <2> QED BY <2>1, <2>2
<1>2. /\ f \in [0..N -> Seq(S)] /\ f[0] = <<>>
      /\ \A i \in 1..N : f[i] = f[i - 1] \o chunks[i]
  BY DEF LaidOut
<1>c. \A i \in 1..N : chunks[i] \in Seq(S)
  OBVIOUS
<1>3. CASE n = 0
  <2>1. s = <<>>
    BY <1>3
  <2> QED BY <1>1, <1>2, <1>3, <2>1 DEF FlattenSeq
<1>4. CASE n # 0
  <2> DEFINE Flat(h) == h = [i \in 1..n |-> IF i = 1 THEN s[i] ELSE h[i - 1] \o s[i]]
             flatten == CHOOSE h : Flat(h)
  <2>1. FlattenSeq(s) = flatten[n]
    <3> HIDE DEF s
    <3>1. FlattenSeq(s) = (CHOOSE h : h = [i \in 1..Len(s) |-> IF i = 1 THEN s[i]
                                                              ELSE h[i - 1] \o s[i]])[Len(s)]
      BY <1>1, <1>4 DEF FlattenSeq
    <3> QED BY <1>1, <3>1
  <2> HIDE DEF s, N
  <2> DEFINE g == [i \in 1..n |-> f[i]]
  <2>2. Flat(g)
    <3>1. ASSUME NEW i \in 1..n PROVE g[i] = IF i = 1 THEN s[i] ELSE g[i - 1] \o s[i]
      <4>1. i \in 1..N /\ g[i] = f[i - 1] \o s[i] /\ s[i] \in Seq(S)
        <5>1. i \in 1..N
          BY <1>1
        <5>2. f[i] = f[i - 1] \o chunks[i] /\ s[i] = chunks[i] /\ chunks[i] \in Seq(S)
          BY <1>1, <1>2, <1>c, <5>1
        <5> QED BY <5>1, <5>2
      <4>2. CASE i = 1
        <5>1. f[i - 1] = <<>>
          BY <1>2, <4>2
        <5> HIDE DEF g
        <5> QED BY <4>1, <4>2, <5>1
      <4>3. CASE i # 1
        <5>1. g[i - 1] = f[i - 1]
          BY <1>1, <4>3
        <5> HIDE DEF g
        <5> QED BY <4>1, <4>3, <5>1
      <4> QED BY <4>2, <4>3
    <3> QED BY <3>1
  <2>3. Flat(flatten)
    <3> HIDE DEF g, Flat
    <3> QED BY <2>2
  <2> HIDE DEF flatten
  <2>4. \A i \in 1..n : flatten[i] = IF i = 1 THEN s[i] ELSE flatten[i - 1] \o s[i]
    BY <2>3
  <2>5. \A i \in 1..n : f[i] = IF i = 1 THEN s[i] ELSE f[i - 1] \o s[i]
    <3> TAKE i \in 1..n
    <3>1. g[i] = IF i = 1 THEN s[i] ELSE g[i - 1] \o s[i]
      BY <2>2
    <3>2. g[i] = f[i] /\ (i # 1 => g[i - 1] = f[i - 1])
      BY <1>1
    <3> HIDE DEF g
    <3> QED BY <3>1, <3>2
  <2> HIDE DEF g, Flat
  <2> DEFINE P == {k \in Nat : k + 1 <= n => flatten[k + 1] = f[k + 1]}
  <2>6. 0 \in P
    BY <1>1, <2>4, <2>5
  <2>7. ASSUME NEW k \in P PROVE k + 1 \in P
    <3>1. k \in Nat
      OBVIOUS
    <3>2. ASSUME (k + 1) + 1 <= n PROVE flatten[(k + 1) + 1] = f[(k + 1) + 1]
      <4>1. flatten[k + 1] = f[k + 1]
        BY <1>1, <3>1, <3>2
      <4>2. (k + 1) + 1 \in 1..n /\ (k + 1) + 1 # 1 /\ ((k + 1) + 1) - 1 = k + 1
        BY <1>1, <3>1, <3>2
      <4> HIDE DEF P
      <4> QED BY <2>4, <2>5, <4>1, <4>2
    <3> QED BY <3>1, <3>2
  <2>8. P = Nat
    <3>1. P \in SUBSET Nat
      OBVIOUS
    <3> HIDE DEF P
    <3> QED BY <2>6, <2>7, <3>1, Induction
  <2>9. n - 1 \in P
    <3>1. n - 1 \in Nat
      BY <1>1, <1>4
    <3> HIDE DEF P
    <3> QED BY <2>8, <3>1
  <2>10. flatten[n] = f[n]
    <3>1. (n - 1) + 1 = n /\ n <= n
      BY <1>1
    <3> QED BY <2>9, <3>1
  <2> QED BY <2>1, <2>10 DEF s
<1> QED BY <1>3, <1>4

(* What a chunk says stands at its place, however many follow. *)
Stand(f, chunks) ==
    /\ \A n \in 1..Len(chunks) : Len(f[n]) = Len(f[n - 1]) + Len(chunks[n])
    /\ \A n \in 0..Len(chunks) : \A m \in n..Len(chunks) : Len(f[n]) <= Len(f[m])
    /\ \A n \in 1..Len(chunks) : \A k \in 1..Len(chunks[n]) :
           f[Len(chunks)][Len(f[n - 1]) + k] = chunks[n][k]

LEMMA ChunksStand ==
    ASSUME NEW S, NEW chunks \in Seq(Seq(S)), NEW f, LaidOut(f, chunks, S)
    PROVE  Stand(f, chunks)
<1> DEFINE N == Len(chunks)
<1>1. N \in Nat /\ \A n \in 1..N : chunks[n] \in Seq(S) /\ Len(chunks[n]) \in Nat
  OBVIOUS
<1>2. /\ f \in [0..N -> Seq(S)] /\ f[0] = <<>>
      /\ \A i \in 1..N : f[i] = f[i - 1] \o chunks[i]
  BY DEF LaidOut
<1> HIDE DEF N
<1>3. \A n \in 0..N : f[n] \in Seq(S) /\ Len(f[n]) \in Nat
  BY <1>2
<1>4. ASSUME NEW n \in 1..N
      PROVE  /\ Len(f[n]) = Len(f[n - 1]) + Len(chunks[n])
             /\ \A j \in 1..Len(f[n]) : f[n][j] = IF j <= Len(f[n - 1]) THEN f[n - 1][j]
                                                  ELSE chunks[n][j - Len(f[n - 1])]
  <2>0. n - 1 \in 0..N
    BY <1>1
  <2>1. f[n] = f[n - 1] \o chunks[n] /\ f[n - 1] \in Seq(S) /\ chunks[n] \in Seq(S)
    BY <1>1, <1>2, <1>3, <2>0
  <2> DEFINE a == f[n - 1]
             b == chunks[n]
  <2> HIDE DEF a, b
  <2>2. /\ Len(a \o b) = Len(a) + Len(b)
        /\ \A j \in 1..(Len(a) + Len(b)) :
               (a \o b)[j] = IF j <= Len(a) THEN a[j] ELSE b[j - Len(a)]
    BY <2>1, ConcatProperties DEF a, b
  <2>3. f[n] = a \o b
    BY <2>1 DEF a, b
  <2> QED BY <2>2, <2>3 DEF a, b
<1>5. ASSUME NEW n \in 0..N
      PROVE  \A m \in n..N : /\ Len(f[n]) <= Len(f[m])
                             /\ \A j \in 1..Len(f[n]) : f[m][j] = f[n][j]
  <2> DEFINE Keeps(m) == /\ Len(f[n]) <= Len(f[m])
                         /\ \A j \in 1..Len(f[n]) : f[m][j] = f[n][j]
             P == {d \in Nat : n + d <= N => Keeps(n + d)}
  <2>1. 0 \in P
    <3>1. Len(f[n]) <= Len(f[n]) /\ n + 0 = n
      BY <1>3
    <3> QED BY <3>1
  <2>2. ASSUME NEW d \in P PROVE d + 1 \in P
    <3>1. d \in Nat
      OBVIOUS
    <3>2. ASSUME n + (d + 1) <= N PROVE Keeps(n + (d + 1))
      <4> DEFINE m == n + d
      <4>1. m \in 0..N /\ m + 1 \in 1..N /\ n + (d + 1) = m + 1 /\ (m + 1) - 1 = m
        BY <1>1, <3>1, <3>2
      <4>2. Keeps(m)
        BY <1>1, <3>1, <3>2
      <4> HIDE DEF m
      <4> DEFINE a == Len(f[n])
                 b == Len(f[m])
                 e == Len(f[m + 1])
      <4>3. a \in Nat /\ b \in Nat /\ e \in Nat /\ a <= b
        BY <1>3, <4>1, <4>2
      <4>4. e = b + Len(chunks[m + 1]) /\ Len(chunks[m + 1]) \in Nat
        BY <1>1, <1>4, <4>1
      <4>5. \A j \in 1..e : f[m + 1][j] = IF j <= b THEN f[m][j] ELSE chunks[m + 1][j - b]
        BY <1>4, <4>1
      <4>6. \A j \in 1..a : f[m][j] = f[n][j]
        BY <4>2
      <4> HIDE DEF a, b, e
      <4>7. a <= e
        BY <4>3, <4>4
      <4>8. ASSUME NEW j \in 1..a PROVE f[m + 1][j] = f[n][j]
        <5>1. j \in 1..e /\ j <= b
          BY <4>3, <4>7
        <5> QED BY <4>5, <4>6, <5>1
      <4> QED BY <4>1, <4>7, <4>8 DEF a, e
    <3> HIDE DEF Keeps
    <3> QED BY <3>1, <3>2
  <2>3. P = Nat
    <3>1. P \in SUBSET Nat
      OBVIOUS
    <3> HIDE DEF P
    <3> QED BY <2>1, <2>2, <3>1, Induction
  <2>4. ASSUME NEW m \in n..N PROVE Keeps(m)
    <3>1. m - n \in Nat /\ n + (m - n) = m /\ m <= N
      BY <1>1
    <3>2. m - n \in P
      <4> HIDE DEF P
      <4> QED BY <2>3, <3>1
    <3> HIDE DEF Keeps
    <3> QED BY <3>1, <3>2
  <2> QED BY <2>4
<1>6. ASSUME NEW n \in 1..N, NEW k \in 1..Len(chunks[n])
      PROVE  f[N][Len(f[n - 1]) + k] = chunks[n][k]
  <2> DEFINE a == Len(f[n - 1])
             l == Len(chunks[n])
             j == a + k
  <2>1. a \in Nat /\ l \in Nat /\ Len(f[n]) = a + l
    <3>1. n - 1 \in 0..N
      BY <1>1
    <3> QED BY <1>1, <1>3, <1>4, <3>1
  <2> HIDE DEF a, l
  <2>2. k \in 1..l
    BY DEF l
  <2>3. j \in 1..Len(f[n]) /\ ~(j <= a) /\ j - a = k
    BY <2>1, <2>2
  <2> HIDE DEF j
  <2>4. f[n][j] = chunks[n][k]
    BY <1>4, <2>3 DEF a
  <2>5. n \in 0..N /\ N \in n..N
    BY <1>1
  <2>6. f[N][j] = f[n][j]
    BY <1>5, <2>3, <2>5
  <2> QED BY <2>4, <2>6 DEF a, j
<1> QED BY <1>4, <1>5, <1>6 DEF N, Stand

(* A PAD, an END, or an option with its length. *)
IsChunk(c) ==
    \/ c = <<Wire!OPTION_PAD>> \/ c = <<Wire!OPTION_END>>
    \/ /\ c \in Seq(0..255)
       /\ Len(c) >= 2 /\ Len(c) = 2 + c[2]
       /\ c[1] \notin {Wire!OPTION_PAD, Wire!OPTION_END}

OptionOf(c) == [code |-> c[1], value |-> SubSeq(c, 3, Len(c))]

LEMMA ChunkIs ==
    ASSUME NEW c, IsChunk(c)
    PROVE  /\ c \in Seq(0..255) /\ Len(c) \in Nat \ {0}
           /\ c = <<Wire!OPTION_PAD>> <=> c[1] = 0
           /\ c = <<Wire!OPTION_END>> <=> c[1] = 255
           /\ c[1] \in {0, 255} => Len(c) = 1
           /\ c[1] \notin {0, 255} => Len(c) >= 2 /\ Len(c) = 2 + c[2] /\ c[2] \in Nat
<1>1. CASE c = <<Wire!OPTION_PAD>>
  BY <1>1 DEF Wire!OPTION_PAD, Wire!OPTION_END
<1>2. CASE c = <<Wire!OPTION_END>>
  BY <1>2 DEF Wire!OPTION_PAD, Wire!OPTION_END
<1>3. CASE /\ c \in Seq(0..255)
           /\ Len(c) >= 2 /\ Len(c) = 2 + c[2]
           /\ c[1] \notin {Wire!OPTION_PAD, Wire!OPTION_END}
  <2>1. c[1] \notin {0, 255} /\ Len(c) \in Nat /\ 2 \in 1..Len(c)
    BY <1>3 DEF Wire!OPTION_PAD, Wire!OPTION_END
  <2>2. c[2] \in 0..255
    BY <1>3, <2>1, ElementOfSeq
  <2>3. c # <<0>> /\ c # <<255>>
    BY <2>1
  <2>4. Len(c) \in Nat \ {0} /\ c[2] \in Nat
    <3>1. Len(c) >= 2
      BY <1>3
    <3> DEFINE l == Len(c)
               o == c[2]
    <3>2. l \in Nat /\ l >= 2 /\ o \in 0..255
      BY <2>1, <2>2, <3>1
    <3> HIDE DEF l, o
    <3>3. l \in Nat \ {0} /\ o \in Nat
      BY <3>2
    <3> QED BY <3>3 DEF l, o
  <2> QED BY <1>3, <2>1, <2>3, <2>4 DEF Wire!OPTION_PAD, Wire!OPTION_END
<1> QED BY <1>1, <1>2, <1>3 DEF IsChunk

(* The chunk is in the packet as a whole, a octets after its start. *)
IsThere(c, buf, a) == a + Len(c) <= Len(buf) /\ \A k \in 1..Len(c) : buf[a + k] = c[k]

Takes(c, buf, a, r) ==
    Wire!NextOption(buf, [i |-> a + 1, read |-> r])
        = [i |-> a + Len(c) + 1,
           read |-> IF c = <<Wire!OPTION_PAD>> THEN r ELSE Append(r, OptionOf(c))]

(* A turn of the walk at a chunk that is there as a whole takes it. *)
LEMMA TakesTheChunk ==
    ASSUME NEW buf \in Seq(0..255), NEW a \in Nat, NEW c, IsChunk(c),
           c # <<Wire!OPTION_END>>, IsThere(c, buf, a), NEW r
    PROVE  Takes(c, buf, a, r)
<1> DEFINE l == Len(c)
           n == Len(buf)
<1>1. /\ c \in Seq(0..255) /\ l \in Nat \ {0} /\ n \in Nat /\ a + l <= n
      /\ c[1] # 255 /\ (c = <<Wire!OPTION_PAD>> <=> c[1] = 0)
      /\ (c[1] = 0 => l = 1)
      /\ (c[1] # 0 => l >= 2 /\ l = 2 + c[2] /\ c[2] \in Nat)
  BY ChunkIs DEF IsThere
<1>2. \A k \in 1..l : buf[a + k] = c[k]
  BY DEF IsThere
<1> DEFINE w == [i |-> a + 1, read |-> r]
<1>3. Wire!NextOption(buf, w)
          = IF a + 1 > n \/ buf[a + 1] = 255 THEN w
            ELSE IF buf[a + 1] = 0 THEN [i |-> (a + 1) + 1, read |-> r]
            ELSE IF (a + 1) + 1 > n \/ (a + 1) + 1 + buf[(a + 1) + 1] > n THEN w
            ELSE [i |-> (a + 1) + 1 + buf[(a + 1) + 1] + 1,
                  read |-> Append(r, [code |-> buf[a + 1],
                                      value |-> SubSeq(buf, (a + 1) + 2,
                                                       (a + 1) + 1 + buf[(a + 1) + 1])])]
  BY DEF Wire!NextOption, Wire!OPTION_PAD, Wire!OPTION_END
<1> HIDE DEF w, n, l
<1>4. buf[a + 1] = c[1] /\ ~(a + 1 > n)
  BY <1>1, <1>2
<1>5. CASE c[1] = 0
  <2>1. Wire!NextOption(buf, w) = [i |-> (a + 1) + 1, read |-> r]
    BY <1>3, <1>4, <1>5
  <2>2. (a + 1) + 1 = a + l + 1
    BY <1>1, <1>5
  <2> QED BY <1>1, <1>5, <2>1, <2>2 DEF w, l, Takes
<1>6. CASE c[1] # 0
  <2>0. l >= 2 /\ l = 2 + c[2] /\ c[2] \in Nat
    BY <1>1, <1>6
  <2>1. (a + 1) + 1 = a + 2 /\ (a + 1) + 2 = a + 3 /\ ~(a + 2 > n) /\ 2 \in 1..l
    BY <1>1, <2>0
  <2>2. buf[a + 2] = c[2]
    BY <1>2, <2>1
  <2>x. a + 2 + c[2] = a + l /\ ~(a + l > n)
    BY <1>1, <2>0
  <2> DEFINE v == SubSeq(buf, a + 3, a + l)
             u == SubSeq(c, 3, l)
  <2>3. v = u
    <3>1. /\ u \in Seq(0..255) /\ Len(u) = l - 2
          /\ \A k \in 1..(l - 2) : u[k] = c[3 + k - 1]
      <4>1. l \in Int /\ 3 \in Int /\ l - 3 + 1 = l - 2 /\ (IF 3 <= l THEN l - 3 + 1 ELSE 0) = l - 2
        BY <1>1, <2>0
      <4>2. \A i \in 3..l : c[i] \in 0..255
        <5> TAKE i \in 3..l
        <5>1. i \in 1..Len(c)
          BY <1>1 DEF l
        <5>2. c \in Seq(0..255)
          BY <1>1
        <5> QED BY <5>1, <5>2, ElementOfSeq
      <4> QED BY <4>1, <4>2, SubSeqProperties
    <3>2. /\ v \in Seq(0..255) /\ Len(v) = l - 2
          /\ \A k \in 1..(l - 2) : v[k] = buf[(a + 3) + k - 1]
      <4> DEFINE m == a + 3
                 o == a + l
      <4>1. /\ m \in Int /\ o \in Int /\ o - m + 1 = l - 2
            /\ (IF m <= o THEN o - m + 1 ELSE 0) = l - 2
        <5>1. l \in Nat
          BY <1>1
        <5> QED BY <2>0, <5>1
      <4>2. \A i \in m..o : buf[i] \in 0..255
        <5> TAKE i \in m..o
        <5>1. i \in 1..Len(buf)
          BY <1>1 DEF n
        <5> QED BY <5>1, ElementOfSeq
      <4> HIDE DEF m, o
      <4>3. /\ SubSeq(buf, m, o) \in Seq(0..255) /\ Len(SubSeq(buf, m, o)) = l - 2
            /\ \A k \in 1..(l - 2) : SubSeq(buf, m, o)[k] = buf[m + k - 1]
        BY <4>1, <4>2, SubSeqProperties
      <4> QED BY <4>3 DEF m, o
    <3>3. \A k \in 1..(l - 2) : u[k] = v[k]
      <4> TAKE k \in 1..(l - 2)
      <4>1. (a + 3) + k - 1 = a + (k + 2) /\ 3 + k - 1 = k + 2 /\ k + 2 \in 1..l
        BY <1>1
      <4>2. buf[a + (k + 2)] = c[k + 2]
        BY <1>2, <4>1
      <4> HIDE DEF u, v
      <4> QED BY <3>1, <3>2, <4>1, <4>2
    <3> HIDE DEF u, v
    <3>4. u = [k \in 1..Len(u) |-> u[k]] /\ v = [k \in 1..Len(v) |-> v[k]]
      BY <3>1, <3>2
    <3> QED BY <3>1, <3>2, <3>3, <3>4
  <2>4. OptionOf(c) = [code |-> c[1], value |-> v]
    BY <2>3 DEF OptionOf, l
  <2>5. Wire!NextOption(buf, w)
            = [i |-> (a + 1) + 1 + buf[(a + 1) + 1] + 1,
               read |-> Append(r, [code |-> buf[a + 1],
                                   value |-> SubSeq(buf, (a + 1) + 2,
                                                    (a + 1) + 1 + buf[(a + 1) + 1])])]
    <3>1. ~(a + 1 > n \/ buf[a + 1] = 255) /\ ~(buf[a + 1] = 0)
      BY <1>1, <1>4, <1>6
    <3>2. ~((a + 1) + 1 > n \/ (a + 1) + 1 + buf[(a + 1) + 1] > n)
      BY <2>1, <2>2, <2>x
    <3> QED BY <1>3, <3>1, <3>2, Zenon
  <2>6. (a + 1) + 1 + buf[(a + 1) + 1] = a + l
    BY <2>1, <2>2, <2>x
  <2>7. Wire!NextOption(buf, w)
            = [i |-> a + l + 1, read |-> Append(r, [code |-> c[1], value |-> v])]
    BY <1>4, <2>1, <2>5, <2>6
  <2> HIDE DEF v, u
  <2> QED BY <1>1, <1>6, <2>4, <2>7 DEF l, w, Takes
<1> QED BY <1>5, <1>6

(* At the end of the packet, at an END and at a chunk that is cut off it stops. *)
LEMMA StopsThere ==
    ASSUME NEW buf \in Seq(0..255), NEW a \in Nat, NEW r,
           \/ a = Len(buf)
           \/ \E c : /\ IsChunk(c) /\ a < Len(buf)
                     /\ c = <<Wire!OPTION_END>> \/ a + Len(c) > Len(buf)
                     /\ \A k \in 1..Len(c) : a + k <= Len(buf) => buf[a + k] = c[k]
    PROVE  Wire!NextOption(buf, [i |-> a + 1, read |-> r]) = [i |-> a + 1, read |-> r]
<1> DEFINE n == Len(buf)
           w == [i |-> a + 1, read |-> r]
<1>0. n \in Nat
  OBVIOUS
<1>1. Wire!NextOption(buf, w)
          = IF a + 1 > n \/ buf[a + 1] = 255 THEN w
            ELSE IF buf[a + 1] = 0 THEN [i |-> (a + 1) + 1, read |-> r]
            ELSE IF (a + 1) + 1 > n \/ (a + 1) + 1 + buf[(a + 1) + 1] > n THEN w
            ELSE [i |-> (a + 1) + 1 + buf[(a + 1) + 1] + 1,
                  read |-> Append(r, [code |-> buf[a + 1],
                                      value |-> SubSeq(buf, (a + 1) + 2,
                                                       (a + 1) + 1 + buf[(a + 1) + 1])])]
  BY DEF Wire!NextOption, Wire!OPTION_PAD, Wire!OPTION_END
<1> HIDE DEF w, n
<1>2. CASE a = n
  BY <1>0, <1>1, <1>2 DEF w
<1>3. CASE a < n
  <2>1. PICK c : /\ IsChunk(c)
                 /\ c = <<Wire!OPTION_END>> \/ a + Len(c) > n
                 /\ \A k \in 1..Len(c) : a + k <= n => buf[a + k] = c[k]
    BY <1>0, <1>3 DEF n
  <2> DEFINE l == Len(c)
  <2>2. /\ l \in Nat \ {0} /\ (c = <<Wire!OPTION_END>> <=> c[1] = 255)
        /\ (c[1] \in {0, 255} => l = 1)
        /\ (c[1] \notin {0, 255} => l >= 2 /\ l = 2 + c[2] /\ c[2] \in Nat)
    BY <2>1, ChunkIs
  <2>3. c[1] = 255 \/ a + l > n
    BY <2>1, <2>2
  <2>4. \A k \in 1..l : a + k <= n => buf[a + k] = c[k]
    BY <2>1
  <2> HIDE DEF l
  <2>5. buf[a + 1] = c[1]
    BY <1>0, <1>3, <2>2, <2>4
  <2>6. CASE c[1] = 255
    BY <1>1, <2>5, <2>6 DEF w
  <2>7. CASE c[1] # 255
    <3>1. c[1] # 0 /\ l >= 2 /\ l = 2 + c[2] /\ c[2] \in Nat /\ a + l > n
      BY <1>0, <1>3, <2>2, <2>3, <2>7
    <3>2. (a + 1) + 1 > n \/ (a + 1) + 1 + buf[(a + 1) + 1] > n
      <4>1. CASE (a + 1) + 1 > n
        BY <4>1
      <4>2. CASE ~((a + 1) + 1 > n)
        <5>1. (a + 1) + 1 = a + 2 /\ a + 2 <= n /\ 2 \in 1..l
          BY <1>0, <3>1, <4>2
        <5>2. buf[a + 2] = c[2]
          BY <2>4, <5>1
        <5>3. a + 2 + c[2] > n
          BY <1>0, <3>1
        <5> QED BY <5>1, <5>2, <5>3
      <4> QED BY <4>1, <4>2
    <3> QED BY <1>1, <2>5, <2>7, <3>1, <3>2 DEF w
  <2> QED BY <2>6, <2>7
<1> QED BY <1>0, <1>2, <1>3 DEF n, w

(* The options among the first m chunks. *)
Reals(chunks, m) == {i \in 1..m : chunks[i] # <<Wire!OPTION_PAD>>}
OptionsIn(chunks, m) ==
    [k \in 1..Cardinality(Reals(chunks, m)) |->
        OptionOf(Elements(chunks, Reals(chunks, m))[k])]

LEMMA OptionsGrow ==
    ASSUME NEW n \in Nat, NEW S, NEW chunks \in [1..n -> S], NEW m \in Nat, m < n
    PROVE  OptionsIn(chunks, m + 1)
               = IF chunks[m + 1] = <<Wire!OPTION_PAD>> THEN OptionsIn(chunks, m)
                 ELSE Append(OptionsIn(chunks, m), OptionOf(chunks[m + 1]))
<1> DEFINE I == Reals(chunks, m)
           c == Cardinality(I)
           e == Elements(chunks, I)
           new == OptionOf(chunks[m + 1])
<1>1. I \in SUBSET (1..m)
  BY DEF Reals
<1>2. CASE chunks[m + 1] = <<Wire!OPTION_PAD>>
  <2>1. Reals(chunks, m + 1) = I
    BY <1>2 DEF Reals
  <2> QED BY <1>2, <2>1 DEF OptionsIn
<1>3. CASE chunks[m + 1] # <<Wire!OPTION_PAD>>
  <2> DEFINE J == I \cup {m + 1}
  <2>1. Reals(chunks, m + 1) = J
    BY <1>3 DEF Reals
  <2>2. /\ c \in Nat /\ Cardinality(J) = c + 1 /\ DOMAIN e = 1..c
        /\ Elements(chunks, J) = [k \in 1..(c + 1) |-> IF k = c + 1 THEN chunks[m + 1] ELSE e[k]]
    <3> HIDE DEF I
    <3>1. Grown(chunks, I, m + 1)
      BY <1>1, ElementsGrow
    <3> QED BY <3>1, Zenon DEF Grown
  <2>3. OptionsIn(chunks, m + 1) = [k \in 1..(c + 1) |-> OptionOf(Elements(chunks, J)[k])]
    <3> HIDE DEF J
    <3> QED BY <2>1, <2>2, Zenon DEF OptionsIn
  <2> DEFINE o == [k \in 1..c |-> OptionOf(e[k])]
             T == {OptionOf(e[k]) : k \in 1..c} \cup {new}
  <2>4. OptionsIn(chunks, m) = o
    BY Zenon DEF OptionsIn
  <2> HIDE DEF I, c, e, J
  <2>5. o \in [1..c -> T] /\ new \in T
    <3> HIDE DEF new
    <3> QED OBVIOUS
  <2> HIDE DEF T
  <2>6. o \in Seq(T) /\ Len(o) = c
    <3> HIDE DEF o
    <3> QED BY <2>2, <2>5
  <2>7. Append(o, new) = [k \in 1..(c + 1) |-> IF k = c + 1 THEN new ELSE o[k]]
    <3> HIDE DEF o, new
    <3>1. /\ Append(o, new) \in Seq(T) /\ Len(Append(o, new)) = c + 1
          /\ \A k \in 1..c : Append(o, new)[k] = o[k]
          /\ Append(o, new)[c + 1] = new
      BY <2>2, <2>5, <2>6, AppendProperties
    <3>3. \A k \in 1..(c + 1) : Append(o, new)[k] = IF k = c + 1 THEN new ELSE o[k]
      BY <2>2, <3>1
    <3> DEFINE p == Append(o, new)
    <3> HIDE DEF p
    <3>2. p = [k \in 1..(c + 1) |-> p[k]]
      <4>1. p \in Seq(T) /\ Len(p) = c + 1
        BY <3>1 DEF p
      <4> QED BY <2>2, <4>1
    <3>4. [k \in 1..(c + 1) |-> p[k]] = [k \in 1..(c + 1) |-> IF k = c + 1 THEN new ELSE o[k]]
      BY <3>3 DEF p
    <3> QED BY <3>2, <3>4 DEF p
  <2>8. \A k \in 1..(c + 1) : OptionOf(Elements(chunks, J)[k])
                                  = IF k = c + 1 THEN new ELSE o[k]
    <3> TAKE k \in 1..(c + 1)
    <3>1. Elements(chunks, J)[k] = IF k = c + 1 THEN chunks[m + 1] ELSE e[k]
      BY <2>2
    <3>2. k # c + 1 => k \in 1..c
      BY <2>2
    <3> QED BY <3>1, <3>2
  <2> HIDE DEF o, new
  <2>9. OptionsIn(chunks, m + 1) = Append(o, new)
    BY <2>3, <2>7, <2>8
  <2> QED BY <1>3, <2>4, <2>9 DEF new
<1> QED BY <1>2, <1>3

LEMMA NoOptionsFirst ==
    ASSUME NEW chunks
    PROVE  OptionsIn(chunks, 0) = <<>>
<1>1. Reals(chunks, 0) = {}
  BY DEF Reals
<1>2. Cardinality({}) = 0
  BY FS_EmptySet
<1> DEFINE Option(k) == OptionOf(Elements(chunks, Reals(chunks, 0))[k])
<1>3. OptionsIn(chunks, 0) = [k \in 1..0 |-> Option(k)]
  BY <1>1, <1>2, Zenon DEF OptionsIn
<1> HIDE DEF Option
<1>4. [k \in 1..0 |-> Option(k)] = <<>>
  OBVIOUS
<1> QED BY <1>3, <1>4

(* The turns of the walk; a packet that holds the first e chunks whole, with no
   END among them. *)
Turns(w, buf, n) == \A k \in 1..n : w[k] = Wire!NextOption(buf, w[k - 1])

Holds(buf, chunks, f, e) ==
    /\ \A n \in 1..Len(chunks) : IsChunk(chunks[n])
    /\ \A n \in 1..e : chunks[n] # <<Wire!OPTION_END>>
    /\ Len(f[e]) <= Len(buf)
    /\ \A j \in 1..Len(buf) : buf[j] = f[Len(chunks)][j]

(* The walk has read the first m chunks when it comes to the next one. *)
LEMMA WalkReads ==
    ASSUME NEW chunks \in Seq(Seq(0..255)), NEW f, LaidOut(f, chunks, 0..255),
           NEW buf \in Seq(0..255), NEW walk, NEW e \in 0..Len(chunks),
           Holds(buf, chunks, f, e),
           walk[0] = [i |-> 1, read |-> <<>>],
           Turns(walk, buf, Len(buf))
    PROVE  /\ e <= Len(buf)
           /\ walk[e] = [i |-> Len(f[e]) + 1, read |-> OptionsIn(chunks, e)]
<1> USE DEF Holds, Turns
<1> DEFINE N == Len(chunks)
           l == Len(buf)
           At(m) == /\ m <= Len(f[m])
                    /\ walk[m] = [i |-> Len(f[m]) + 1, read |-> OptionsIn(chunks, m)]
           P == {m \in Nat : m <= e => At(m)}
<1>1. N \in Nat /\ l \in Nat /\ e \in Nat /\ e <= N /\ chunks \in [1..N -> Seq(0..255)]
  OBVIOUS
<1>2. /\ f \in [0..N -> Seq(0..255)] /\ f[0] = <<>>
  BY DEF LaidOut
<1>3. /\ \A n \in 1..N : Len(f[n]) = Len(f[n - 1]) + Len(chunks[n])
      /\ \A n \in 0..N : \A m \in n..N : Len(f[n]) <= Len(f[m])
      /\ \A n \in 1..N : \A k \in 1..Len(chunks[n]) :
             f[N][Len(f[n - 1]) + k] = chunks[n][k]
  <2>1. Stand(f, chunks)
    BY ChunksStand
  <2> QED BY <2>1, Zenon DEF Stand
<1>4. \A n \in 0..N : Len(f[n]) \in Nat
  BY <1>1, <1>2
<1> HIDE DEF N, l
<1>5. 0 \in P
  <2>1. Len(f[0]) = 0
    BY <1>2
  <2>2. walk[0] = [i |-> Len(f[0]) + 1, read |-> OptionsIn(chunks, 0)]
    BY <2>1, NoOptionsFirst
  <2> QED BY <2>1, <2>2
<1>6. ASSUME NEW m \in P PROVE m + 1 \in P
  <2>0. m \in Nat
    OBVIOUS
  <2>1. ASSUME m + 1 <= e PROVE At(m + 1)
    <3> DEFINE a == Len(f[m])
               b == Len(f[m + 1])
               c == chunks[m + 1]
               r == OptionsIn(chunks, m)
    <3>1. m <= a /\ walk[m] = [i |-> a + 1, read |-> r]
      BY <1>1, <2>0, <2>1
    <3>2. /\ m \in 0..N /\ m + 1 \in 1..N /\ m + 1 \in 1..e /\ (m + 1) - 1 = m /\ m < N
          /\ m + 1 \in 0..N /\ e \in (m + 1)..N
      BY <1>1, <2>0, <2>1
    <3>3. IsChunk(c) /\ c # <<Wire!OPTION_END>>
      BY <3>2 DEF N
    <3>4. Len(c) \in Nat \ {0}
      BY <3>3, ChunkIs
    <3>5. a \in Nat /\ b = a + Len(c) /\ b <= Len(f[e]) /\ Len(f[e]) \in Nat
      <4>1. a \in Nat /\ b = a + Len(c)
        BY <1>3, <1>4, <3>2
      <4>2. e \in 0..N
        BY <1>1
      <4>3. b <= Len(f[e]) /\ Len(f[e]) \in Nat
        BY <1>3, <1>4, <3>2, <4>2
      <4> QED BY <4>1, <4>3
    <3> DEFINE d == Len(c)
    <3> HIDE DEF a, b, d
    <3>6. a + d <= l
      <4>1. Len(f[e]) <= l
        BY DEF l
      <4>2. d \in Nat
        BY <3>4 DEF d
      <4> DEFINE h == Len(f[e])
      <4>3. a \in Nat /\ b = a + d /\ b <= h /\ h \in Nat /\ h <= l
        BY <3>5, <4>1 DEF d
      <4> HIDE DEF h
      <4> QED BY <1>1, <4>2, <4>3
    <3>7. \A k \in 1..Len(c) : buf[a + k] = c[k]
      <4> TAKE k \in 1..Len(c)
      <4>1. f[N][a + k] = c[k]
        BY <1>3, <3>2 DEF a
      <4>2. a + k \in 1..l
        <5>1. d \in Nat /\ k \in 1..d /\ a \in Nat
          BY <3>4, <3>5 DEF d
        <5> QED BY <1>1, <3>6, <5>1
      <4> QED BY <4>1, <4>2 DEF N, l
    <3> DEFINE w == [i |-> a + 1, read |-> r]
               next == [i |-> a + Len(c) + 1,
                        read |-> IF c = <<Wire!OPTION_PAD>> THEN r ELSE Append(r, OptionOf(c))]
    <3>8. Wire!NextOption(buf, w) = next
      <4> HIDE DEF a, b, c, r
      <4>1. a + Len(c) <= Len(buf)
        BY <3>6 DEF l, d
      <4>2. a \in Nat
        BY <3>5
      <4>3. IsThere(c, buf, a)
        BY <3>7, <4>1, Zenon DEF IsThere
      <4>4. Takes(c, buf, a, r)
        BY <3>3, <4>2, <4>3, TakesTheChunk
      <4> QED BY <4>4, Zenon DEF Takes
    <3>9. m + 1 \in 1..Len(buf) /\ m + 1 <= b
      <4> HIDE DEF a, b, c
      <4>1. m + 1 <= b
        BY <2>0, <3>1, <3>4, <3>5 DEF a
      <4>2. b <= l
        BY <3>5, <3>6 DEF d
      <4> QED BY <1>1, <2>0, <3>4, <3>5, <4>1, <4>2 DEF l
    <3>10. walk[m + 1] = Wire!NextOption(buf, walk[m])
      BY <3>2, <3>9
    <3>11. OptionsIn(chunks, m + 1) = IF c = <<Wire!OPTION_PAD>> THEN r
                                      ELSE Append(r, OptionOf(c))
      <4> HIDE DEF Holds, Turns
      <4> QED BY <1>1, <2>0, <3>2, OptionsGrow
    <3>12. next = [i |-> b + 1, read |-> OptionsIn(chunks, m + 1)]
      <4> HIDE DEF a, b, c, r
      <4> QED BY <3>5, <3>11
    <3> HIDE DEF next, a, r, c
    <3> QED BY <3>1, <3>8, <3>9, <3>10, <3>12 DEF a, b, r
  <2> HIDE DEF At
  <2> QED BY <2>0, <2>1
<1>7. P = Nat
  <2>1. P \in SUBSET Nat
    OBVIOUS
  <2> HIDE DEF P
  <2> QED BY <1>5, <1>6, <2>1, Induction
<1>8. At(e)
  <2>1. e \in P
    <3> HIDE DEF P
    <3> QED BY <1>1, <1>7
  <2>2. e <= e
    BY <1>1
  <2> HIDE DEF At
  <2> QED BY <2>1, <2>2
<1>9. e <= Len(buf)
  <2>1. e <= Len(f[e]) /\ Len(f[e]) \in Nat /\ Len(f[e]) <= l
    BY <1>1, <1>4, <1>8 DEF l
  <2> QED BY <1>1, <2>1 DEF l
<1> QED BY <1>8, <1>9

(* WholeOptionsOnly of one packet. *)
WholeIn(chunks, cut, buf) ==
    LET Size(n) == Len(FlattenSeq(SubSeq(chunks, 1, n)))
        whole == Max({n \in 0..Len(chunks) : Size(n) <= cut})
        ends  == {n \in 1..whole : chunks[n] = <<Wire!OPTION_END>>}
        sent  == SubSeq(chunks, 1, IF ends = {} THEN whole ELSE Min(ends) - 1)
        real  == Elements(sent, {i \in DOMAIN sent : sent[i] # <<Wire!OPTION_PAD>>})
    IN  Wire!Options(buf) = [i \in DOMAIN real |-> [code  |-> real[i][1],
                                                    value |-> SubSeq(real[i], 3, Len(real[i]))]]

(* A walk that stops stays where it stopped. *)
LEMMA WalkRests ==
    ASSUME NEW n \in Nat, NEW e \in 0..n, NEW buf, NEW w,
           Turns(w, buf, n),
           Wire!NextOption(buf, w[e]) = w[e]
    PROVE  w[n] = w[e]
<1> USE DEF Turns
<1> DEFINE P == {d \in Nat : e + d <= n => w[e + d] = w[e]}
<1>1. 0 \in P
  OBVIOUS
<1>2. ASSUME NEW d \in P PROVE d + 1 \in P
  <2>1. d \in Nat
    OBVIOUS
  <2>2. ASSUME e + (d + 1) <= n PROVE w[e + (d + 1)] = w[e]
    <3>1. e + d <= n /\ e + (d + 1) \in 1..n /\ (e + (d + 1)) - 1 = e + d
      BY <2>1, <2>2
    <3>2. w[e + d] = w[e]
      BY <3>1
    <3>3. w[e + (d + 1)] = Wire!NextOption(buf, w[e + d])
      BY <3>1
    <3> QED BY <3>2, <3>3
  <2> QED BY <2>1, <2>2
<1>3. P = Nat
  <2>1. P \in SUBSET Nat
    OBVIOUS
  <2> HIDE DEF P
  <2> QED BY <1>1, <1>2, <2>1, Induction
<1>4. n - e \in P
  <2>1. n - e \in Nat
    OBVIOUS
  <2> HIDE DEF P
  <2> QED BY <1>3, <2>1
<1>5. e + (n - e) = n /\ n <= n
  OBVIOUS
<1> QED BY <1>4, <1>5

(* The options that are read are the ones among the first e chunks. *)
OptionsSent(chunks, e) ==
    LET sent == SubSeq(chunks, 1, e)
        real == Elements(sent, {i \in DOMAIN sent : sent[i] # <<Wire!OPTION_PAD>>})
    IN  [i \in DOMAIN real |-> [code  |-> real[i][1],
                                value |-> SubSeq(real[i], 3, Len(real[i]))]]

LEMMA TheOptionsSent ==
    ASSUME NEW S, NEW chunks \in Seq(S), NEW e \in 0..Len(chunks)
    PROVE  OptionsIn(chunks, e) = OptionsSent(chunks, e)
<1> DEFINE sent == SubSeq(chunks, 1, e)
           I == {i \in DOMAIN sent : sent[i] # <<Wire!OPTION_PAD>>}
           real == Elements(sent, I)
<1>1. e \in Nat /\ e <= Len(chunks) /\ Len(chunks) \in Nat
  OBVIOUS
<1>2. DOMAIN sent = 1..e /\ \A i \in 1..e : sent[i] = chunks[i]
  <2>1. Len(sent) = e /\ sent \in Seq(S)
    BY <1>1
  <2>2. \A i \in 1..e : sent[i] = chunks[i]
    BY <1>1
  <2> HIDE DEF sent
  <2> QED BY <2>1, <2>2
<1> HIDE DEF sent
<1>3. I = Reals(chunks, e)
  BY <1>2 DEF Reals
<1> DEFINE at == Ascending(I)
           c == Cardinality(I)
<1>4. at \in [1..c -> I] /\ c \in Nat
  <2>1. I \in SUBSET (1..e)
    BY <1>2
  <2> HIDE DEF I
  <2> QED BY <1>1, <2>1, AscendingIs
<1>5. real = [k \in 1..c |-> sent[at[k]]] /\ Elements(chunks, I) = [k \in 1..c |-> chunks[at[k]]]
  BY DEF Elements
<1>6. I \in SUBSET (1..e)
  BY <1>2
<1> HIDE DEF I, at, c
<1>7. \A k \in 1..c : sent[at[k]] = chunks[at[k]]
  BY <1>2, <1>4, <1>6
<1>8. real = Elements(chunks, I)
  BY <1>5, <1>7
<1>9. DOMAIN real = 1..c
  BY <1>5
<1> HIDE DEF real
<1>10. OptionsIn(chunks, e) = [k \in 1..c |-> OptionOf(real[k])]
  BY <1>3, <1>8 DEF OptionsIn, c
<1> QED BY <1>9, <1>10 DEF OptionOf, real, I, sent, OptionsSent

LEMMA WholePacket ==
    ASSUME NEW chunks \in Seq(Chunk), NEW cut \in 0..Len(FlattenSeq(chunks))
    PROVE  /\ WholeIn(chunks, cut, SubSeq(FlattenSeq(chunks), 1, cut))
           /\ \E e \in 0..Len(chunks) : Wire!Options(SubSeq(FlattenSeq(chunks), 1, cut))
                                           = OptionsIn(chunks, e)
<1> DEFINE N == Len(chunks)
           F == FlattenSeq(chunks)
           buf == SubSeq(F, 1, cut)
           Size(n) == Len(FlattenSeq(SubSeq(chunks, 1, n)))
           W == {n \in 0..N : Size(n) <= cut}
           whole == Max(W)
           ends == {n \in 1..whole : chunks[n] = <<Wire!OPTION_END>>}
           e == IF ends = {} THEN whole ELSE Min(ends) - 1
<1>1. N \in Nat /\ \A n \in 1..N : IsChunk(chunks[n])
  <2>1. N \in Nat /\ \A n \in 1..N : chunks[n] \in Chunk
    OBVIOUS
  <2>2. \A c \in Chunk : IsChunk(c)
    BY ChunkAssumption, Zenon DEF IsChunk
  <2> QED BY <2>1, <2>2
<1>2. chunks \in Seq(Seq(0..255))
  <2>1. \A n \in 1..N : chunks[n] \in Seq(0..255)
    BY <1>1, ChunkIs
  <2> QED BY <1>1, <2>1
<1>3. PICK f : LaidOut(f, chunks, 0..255)
  BY <1>2, LayoutExists
<1>4. /\ f \in [0..N -> Seq(0..255)]
      /\ \A n \in 0..N : Len(f[n]) \in Nat
  BY <1>3 DEF LaidOut
<1>5. \A n \in 0..N : Size(n) = Len(f[n])
  BY <1>2, <1>3, FlattenIs
<1>6. F = f[N]
  <2>1. SubSeq(chunks, 1, N) = chunks
    OBVIOUS
  <2>2. N \in 0..N
    BY <1>1
  <2>3. FlattenSeq(SubSeq(chunks, 1, N)) = f[N]
    BY <1>2, <1>3, <2>2, FlattenIs
  <2> QED BY <2>1, <2>3
<1>7. /\ cut \in Nat /\ cut <= Len(f[N]) /\ buf \in Seq(0..255) /\ Len(buf) = cut
      /\ \A j \in 1..cut : buf[j] = f[N][j]
  <2>1. cut \in Nat /\ cut <= Len(F) /\ F \in Seq(0..255) /\ Len(F) \in Nat
    BY <1>1, <1>4, <1>6
  <2> HIDE DEF F
  <2>2. buf \in Seq(0..255) /\ Len(buf) = cut /\ \A j \in 1..cut : buf[j] = F[j]
    <3>1. \A i \in 1..cut : F[i] \in 0..255
      <4> TAKE i \in 1..cut
      <4>1. i \in 1..Len(F)
        BY <2>1
      <4> QED BY <2>1, <4>1, ElementOfSeq
    <3>2. cut + 1 - 1 = cut /\ \A j \in 1..cut : 1 + j - 1 = j
      BY <2>1
    <3>3. 1 \in 1..(cut + 1) /\ cut + 1 - 1 = cut
      BY <2>1
    <3> QED BY <2>1, <3>1, <3>2, <3>3, SubSeqProperties
  <2> QED BY <1>6, <2>1, <2>2
<1>8. /\ \A n \in 1..N : Len(f[n]) = Len(f[n - 1]) + Len(chunks[n])
      /\ \A n \in 0..N : \A m \in n..N : Len(f[n]) <= Len(f[m])
      /\ \A n \in 1..N : \A k \in 1..Len(chunks[n]) :
             f[N][Len(f[n - 1]) + k] = chunks[n][k]
  <2>1. Stand(f, chunks)
    BY <1>2, <1>3, ChunksStand
  <2> QED BY <2>1, Zenon DEF Stand
<1>9. W = {n \in 0..N : Len(f[n]) <= cut}
  BY <1>5
<1> HIDE DEF W, F, buf, Size
<1>10. whole \in W /\ \A n \in W : n <= whole
  <2>1. 0 \in W
    <3>1. f[0] = <<>>
      BY <1>3 DEF LaidOut
    <3> QED BY <1>1, <1>7, <1>9, <3>1
  <2>2. W \in SUBSET Nat /\ \A n \in W : n <= N
    BY <1>1, <1>9
  <2>3. PICK x \in W : \A y \in W : y <= x
    BY <1>1, <2>1, <2>2, GreatestExists
  <2>4. \E x_1 \in W : \A y \in W : x_1 >= y
    BY <2>2, <2>3
  <2>5. whole \in W /\ \A y \in W : whole >= y
    BY <2>4 DEF Max
  <2> QED BY <2>2, <2>5
<1>11. whole \in 0..N /\ Len(f[whole]) <= cut
  BY <1>9, <1>10
<1> HIDE DEF whole
<1>12. /\ e \in 0..whole
       /\ \A n \in 1..e : chunks[n] # <<Wire!OPTION_END>>
       /\ e = whole \/ (e + 1 \in 1..whole /\ chunks[e + 1] = <<Wire!OPTION_END>>)
  <2>1. CASE ends = {}
    BY <1>11, <2>1
  <2>2. CASE ends # {}
    <3> DEFINE m == Min(ends)
    <3>1. m \in ends /\ \A n \in ends : m <= n
      <4>1. ends \in SUBSET Nat
        OBVIOUS
      <4> HIDE DEF ends
      <4>2. \E x \in ends : \A y \in ends : x <= y
        BY <2>2, <4>1, LeastExists
      <4> QED BY <4>2 DEF Min
    <3>2. e = m - 1
      BY <2>2
    <3>3. m \in 1..whole /\ chunks[m] = <<Wire!OPTION_END>>
      BY <3>1
    <3> HIDE DEF m, e
    <3>4. e \in 0..whole /\ e + 1 = m
      BY <1>11, <3>2, <3>3
    <3>5. \A n \in 1..e : chunks[n] # <<Wire!OPTION_END>>
      <4>1. ASSUME NEW n \in 1..e, chunks[n] = <<Wire!OPTION_END>> PROVE FALSE
        <5>1. n \in 1..whole /\ n < m
          BY <1>11, <3>2, <3>3, <3>4
        <5>2. m <= n
          BY <3>1, <4>1, <5>1
        <5> QED BY <3>3, <5>1, <5>2
      <4> QED BY <4>1
    <3> QED BY <3>3, <3>4, <3>5
  <2> QED BY <2>1, <2>2
<1> HIDE DEF e
<1>13. /\ e \in 0..N /\ e \in Nat /\ whole \in e..N /\ Len(f[e]) \in Nat /\ Len(f[e]) <= cut
  <2>1. e \in 0..N /\ e \in Nat /\ whole \in e..N
    BY <1>1, <1>11, <1>12
  <2>2. Len(f[e]) <= Len(f[whole]) /\ Len(f[e]) \in Nat /\ Len(f[whole]) \in Nat
    BY <1>4, <1>8, <1>11, <2>1
  <2> QED BY <1>7, <1>11, <2>1, <2>2
<1>14. PICK w : /\ w[0] = [i |-> 1, read |-> <<>>]
                /\ \A n \in 1..cut : w[n] = Wire!NextOption(buf, w[n - 1])
                /\ Wire!Options(buf) = w[cut].read
  BY <1>7, WalkUnfolds
<1>15. e <= cut /\ w[e] = [i |-> Len(f[e]) + 1, read |-> OptionsIn(chunks, e)]
  <2>1. Holds(buf, chunks, f, e)
    BY <1>1, <1>7, <1>12, <1>13 DEF Holds
  <2>2. Turns(w, buf, Len(buf))
    BY <1>7, <1>14 DEF Turns
  <2>3. e \in 0..Len(chunks) /\ buf \in Seq(0..255)
    BY <1>7, <1>13
  <2> QED BY <1>2, <1>3, <1>7, <1>14, <2>1, <2>2, <2>3, WalkReads
<1>16. Wire!NextOption(buf, w[e]) = w[e]
  <2> DEFINE a == Len(f[e])
             c == chunks[e + 1]
  <2>1. a \in Nat /\ a <= cut
    BY <1>13
  <2>2. \/ a = Len(buf)
        \/ \E d : /\ IsChunk(d) /\ a < Len(buf)
                  /\ d = <<Wire!OPTION_END>> \/ a + Len(d) > Len(buf)
                  /\ \A k \in 1..Len(d) : a + k <= Len(buf) => buf[a + k] = d[k]
    <3>1. CASE a = cut
      BY <1>7, <3>1
    <3>2. CASE a # cut
      <4>1. a < cut
        BY <1>7, <2>1, <3>2
      <4>2. e < N
        <5>1. e # N
          BY <1>7, <4>1, <2>1
        <5> QED BY <1>1, <1>13, <5>1
      <4>3. e + 1 \in 1..N /\ (e + 1) - 1 = e
        BY <1>1, <1>13, <4>2
      <4>4. IsChunk(c) /\ Len(f[e + 1]) = a + Len(c)
        BY <1>1, <1>8, <4>3
      <4>5. c = <<Wire!OPTION_END>> \/ a + Len(c) > cut
        <5>1. CASE e = whole
          <6>1. e + 1 \notin W
            BY <1>10, <1>13, <5>1
          <6>2. ~(Len(f[e + 1]) <= cut) /\ Len(f[e + 1]) \in Nat
            BY <1>1, <1>4, <1>9, <4>3, <6>1
          <6> DEFINE b == Len(f[e + 1])
          <6> HIDE DEF b
          <6>3. b > cut
            BY <1>7, <6>2 DEF b
          <6> QED BY <4>4, <6>3 DEF b
        <5>2. CASE e # whole
          BY <1>12, <5>2
        <5> QED BY <5>1, <5>2
      <4>6. \A k \in 1..Len(c) : a + k <= cut => buf[a + k] = c[k]
        <5> TAKE k \in 1..Len(c)
        <5> HAVE a + k <= cut
        <5>1. f[N][a + k] = c[k]
          BY <1>8, <4>3
        <5>2. a + k \in 1..cut
          BY <1>7, <2>1
        <5> HIDE DEF a, c
        <5> QED BY <1>7, <5>1, <5>2
      <4> HIDE DEF a, c
      <4> QED BY <1>7, <4>1, <4>4, <4>5, <4>6
    <3> QED BY <3>1, <3>2
  <2> DEFINE r == OptionsIn(chunks, e)
  <2>3. w[e] = [i |-> a + 1, read |-> r]
    BY <1>15
  <2> HIDE DEF a, r
  <2>4. Wire!NextOption(buf, [i |-> a + 1, read |-> r]) = [i |-> a + 1, read |-> r]
    BY <1>7, <2>1, <2>2, StopsThere, Zenon
  <2> QED BY <2>3, <2>4
<1>17. w[cut] = w[e]
  <2>1. e \in 0..cut
    BY <1>7, <1>13, <1>15
  <2>2. Turns(w, buf, cut)
    BY <1>14, Zenon DEF Turns
  <2>3. cut \in Nat
    BY <1>7
  <2> QED BY <1>16, <2>1, <2>2, <2>3, WalkRests, Zenon
<1>18. Wire!Options(buf) = OptionsIn(chunks, e)
  BY <1>14, <1>15, <1>17
<1>19. OptionsIn(chunks, e) = OptionsSent(chunks, e)
  BY <1>13, TheOptionsSent
<1>20. WholeIn(chunks, cut, buf)
  BY <1>18, <1>19, Zenon DEF WholeIn, OptionsSent, e, whole, W, Size
<1> QED BY <1>13, <1>18, <1>20, Zenon DEF F, buf
(* What a sample of a packet holds: chunks, and the bytes up to the cut. *)
Cut(chunks, cut, buf) ==
    /\ chunks \in Seq(Chunk)
    /\ cut \in 0..Len(FlattenSeq(chunks))
    /\ buf = SubSeq(FlattenSeq(chunks), 1, cut)

(* Whatever the chunks and wherever the packet is cut off, the walk reads the options
   that were sent whole before the first END, and nothing else (dhcp/finder.rs:101). *)
THEOREM PacketsAreReadWhole == Spec => []WholeOptionsOnly
<1> DEFINE Listed == sample.of = "dhcp" => Cut(sample.chunks, sample.cut, sample.packet.options)
<1>1. Init => Listed
  BY DEF Init
<1>2. Listed /\ [Next]_sample => Listed'
  <2> SUFFICES ASSUME Listed, [Next]_sample PROVE Listed'
    OBVIOUS
  <2>1. CASE UNCHANGED sample
    BY <2>1 DEF Cut
  <2>2. CASE Next
    <3> SUFFICES ASSUME sample'.of = "dhcp" PROVE Listed'
      BY Zenon
    <3>1. DhcpPacket
      BY <2>2, KindOf
    <3>2. PICK chunks \in BoundedSeq(Chunk, MaxLength) :
              \E cut \in 0..Len(FlattenSeq(chunks)) : \E header, mac, ciaddr :
                  sample' = [of |-> "dhcp", chunks |-> chunks, cut |-> cut,
                             packet |-> [header |-> header, chaddr |-> mac, ciaddr |-> ciaddr,
                                         options |-> SubSeq(FlattenSeq(chunks), 1, cut)]]
      BY <3>1, Zenon DEF DhcpPacket, Take
    <3>3. chunks \in Seq(Chunk)
      BY BoundsAssumption, BoundedSeqsAreSeqs
    <3> DEFINE F == FlattenSeq(chunks)
    <3>4. \E cut \in 0..Len(F) : \E header, mac, ciaddr :
              sample' = [of |-> "dhcp", chunks |-> chunks, cut |-> cut,
                         packet |-> [header |-> header, chaddr |-> mac, ciaddr |-> ciaddr,
                                     options |-> SubSeq(F, 1, cut)]]
      BY <3>2
    <3> HIDE DEF F
    <3>5. /\ sample'.chunks = chunks /\ sample'.cut \in 0..Len(F)
          /\ sample'.packet.options = SubSeq(F, 1, sample'.cut)
      BY <3>4
    <3>6. Cut(sample'.chunks, sample'.cut, sample'.packet.options)
      BY <3>3, <3>5 DEF Cut, F
    <3> QED BY <3>6 DEF Cut
  <2> QED BY <2>1, <2>2
<1>3. Listed => WholeOptionsOnly
  <2> SUFFICES ASSUME sample.of = "dhcp", Listed PROVE WholeOptionsOnly
    BY Zenon DEF WholeOptionsOnly
  <2>1. WholeIn(sample.chunks, sample.cut, sample.packet.options)
    BY WholePacket, Zenon DEF Cut
  <2> QED BY <2>1, Zenon DEF WholeOptionsOnly, WholeIn
<1> QED BY <1>1, <1>2, <1>3, PTL DEF Spec

-----------------------------------------------------------------------------
LEMMA AddressesAreTold ==
    ASSUME NEW ip \in IpOctets
    PROVE  Told(ip)
<1>1. ip \in Seq(0..255) /\ ip # <<>>
  BY PacketAssumption
<1>2. Len(ip) \in Nat /\ Len(ip) # 0 /\ DOMAIN ip = 1..Len(ip) /\ SubSeq(ip, 1, Len(ip)) = ip
  BY <1>1
<1>3. 1 \in DOMAIN ip /\ Len(ip) \in DOMAIN ip /\ 1 <= Len(ip)
  BY <1>2
<1>4. ip \in Sources
  BY DEF Sources
<1> QED BY <1>1, <1>2, <1>3, <1>4, PartsAreTold

LEMMA GreatestIsIn ==
    ASSUME NEW n \in Nat, NEW I \in SUBSET (1..n), I # {}
    PROVE  Wire!Max(I) \in I
<1>1. PICK x \in I : \A y \in I : y <= x
  <2>1. I \in SUBSET Nat /\ \A y \in I : y <= n
    OBVIOUS
  <2> QED BY <2>1, GreatestExists
<1>2. \E x_1 \in I : \A y \in I : x_1 >= y
  <2>1. \A y \in I : x >= y
    BY <1>1
  <2> QED BY <2>1
<1> QED BY <1>2 DEF Wire!Max

-----------------------------------------------------------------------------
(* mac_vendor_finder::find and service_vendor_finder::find: a vendor of the databases,
   or none. *)
LEMMA VendorFound ==
    ASSUME NEW prefix
    PROVE  Wire!MacVendor(prefix) \in Vendor \cup {""}
<1> DEFINE n == Len(MacRecord)
           I == {i \in 1..n : Wire!Upper(MacRecord[i].prefix) = Wire!Upper(prefix)}
           m == Wire!Max(I)
           place == IF I # {} THEN m ELSE 0
           r == IF place = 0 THEN None ELSE MacRecord[place]
<1>1. n \in Nat
  BY DatabaseAssumption
<1>v. \A i \in 1..n : MacRecord[i].vendor \in Vendor \cup {""}
  BY DatabaseAssumption
<1>2. Wire!MacVendor(prefix) = IF r = None THEN "" ELSE r.vendor
  BY Zenon DEF Wire!MacVendor, Wire!LastIn, Wire!SelectLastInSeq
<1>3. I \in SUBSET (1..n)
  OBVIOUS
<1> HIDE DEF I, n
<1>4. I # {} => m \in I
  <2> HAVE I # {}
  <2> QED BY <1>1, <1>3, GreatestIsIn
<1> HIDE DEF m
<1>5. place = 0 \/ place \in 1..n
  BY <1>3, <1>4
<1> HIDE DEF place
<1>6. CASE r = None
  BY <1>2, <1>6, Zenon
<1>7. CASE r # None
  <2>1. place # 0 /\ r = MacRecord[place]
    BY <1>7, Zenon
  <2>2. MacRecord[place].vendor \in Vendor \cup {""}
    BY <1>v, <1>5, <2>1, Zenon
  <2> QED BY <1>2, <1>7, <2>1, <2>2, Zenon
<1> QED BY <1>6, <1>7

LEMMA HintFound ==
    ASSUME NEW S, NEW hints \in Seq(S)
    PROVE  /\ Wire!ServiceVendor(hints) \in Vendor \cup {""}
           /\ hints = <<>> => Wire!ServiceVendor(hints) = ""
<1> DEFINE known == {Wire!Normalize(r.service) : r \in ServiceRecord}
           n == Len(hints)
           I == {i \in 1..n : Wire!Normalize(hints[i]) \in known}
           m == Wire!Min(I)
           place == IF I # {} THEN m ELSE 0
           hint == IF place = 0 THEN None ELSE hints[place]
           choice == CHOOSE r \in ServiceRecord :
                         Wire!Normalize(r.service) = Wire!Normalize(hint)
<1>1. n \in Nat
  OBVIOUS
<1>2. Wire!ServiceVendor(hints) = IF hint = None THEN "" ELSE choice.vendor
  BY Zenon DEF Wire!ServiceVendor, Wire!FirstIn, Wire!SelectInSeq
<1>3. \A i \in I : i \in 1..n /\ Wire!Normalize(hints[i]) \in known
  OBVIOUS
<1>6. hints = <<>> => I = {}
  OBVIOUS
<1> HIDE DEF I, n
<1>4. I # {} => m \in I
  <2> HAVE I # {}
  <2>1. I \in SUBSET Nat
    BY <1>1, <1>3
  <2> QED BY <2>1, LeastIsIn
<1> HIDE DEF m
<1>5. CASE hint = None
  BY <1>2, <1>5, Zenon
<1>7. CASE hint # None
  <2>1. place # 0 /\ I # {} /\ place = m /\ hint = hints[place]
    BY <1>7, Zenon
  <2>2. Wire!Normalize(hint) \in known
    BY <1>3, <1>4, <2>1, Zenon
  <2>3. \E r \in ServiceRecord : Wire!Normalize(r.service) = Wire!Normalize(hint)
    BY <2>2, Zenon
  <2> HIDE DEF hint
  <2>4. choice \in ServiceRecord
    BY <2>3, Zenon
  <2>5. choice.vendor \in Vendor \cup {""}
    BY <2>4, DatabaseAssumption, Zenon
  <2> QED BY <1>2, <1>6, <1>7, <2>1, <2>5, Zenon
<1> QED BY <1>5, <1>7

-----------------------------------------------------------------------------
(* build_device on a report: the row the store's model builds of it. *)
Fit(r, scanner) ==
    /\ r.mac = Wire!NormalizeMac(r.mac)
    /\ r.ip \in Store!Reported(scanner).ip
    /\ r.name \in Store!Reported(scanner).name
    /\ \E vendor \in Store!DeducedVendor(scanner, r.mac) :
           Wire!EnrichedDevice(r, 1) = Store!BuildDevice(r.ip, vendor, r.name, 1)

LEMMA VendorDeduced ==
    ASSUME NEW mac \in Macs, NEW scanner, NEW S, NEW hints \in Seq(S),
           scanner \in {"mdns", "ssdp"} \/ hints = <<>>
    PROVE  /\ Wire!DeduceVendor(mac, hints) \in Store!DeducedVendor(scanner, mac)
           /\ Wire!DeduceVendor(mac, hints) \in Vendor \cup {""}
<1> DEFINE oui == Wire!MacVendor(Wire!Prefix(mac))
           local == Wire!IsLocallyAdministered(mac)
           hinted == Wire!ServiceVendor(hints)
<1>1. oui \in Vendor \cup {""}
  BY VendorFound, Zenon
<1>2. hinted \in Vendor \cup {""} /\ (hints = <<>> => hinted = "")
  BY HintFound, Zenon
<1>3. Wire!DeduceVendor(mac, hints) = IF oui # "" \/ ~local THEN oui ELSE hinted
  BY Zenon DEF Wire!DeduceVendor
<1>4. Store!DeducedVendor(scanner, mac)
          = IF oui # "" THEN {oui}
            ELSE IF local /\ scanner \in {"mdns", "ssdp"} THEN Vendor \cup {""} ELSE {""}
  <2>1. [m \in Macs |-> Wire!MacVendor(Wire!Prefix(m))][mac] = oui
    BY Zenon
  <2>2. mac \in {m \in Macs : Wire!IsLocallyAdministered(m)} <=> local
    BY Zenon
  <2> QED BY <2>1, <2>2, Zenon DEF Store!DeducedVendor, Store!OptVendor
<1> HIDE DEF oui, local, hinted
<1>5. CASE oui # ""
  BY <1>1, <1>3, <1>4, <1>5, Zenon
<1>6. CASE oui = "" /\ ~local
  BY <1>3, <1>4, <1>6, Zenon
<1>7. CASE oui = "" /\ local
  BY <1>2, <1>3, <1>4, <1>7, Zenon
<1> QED BY <1>5, <1>6, <1>7, Zenon

LEMMA ReportFits ==
    ASSUME NEW mac \in Macs, NEW scanner, NEW S, NEW hints \in Seq(S),
           scanner \in {"mdns", "ssdp"} \/ hints = <<>>,
           NEW ip \in Store!Reported(scanner).ip, NEW name \in Store!Reported(scanner).name
    PROVE  Fit(Wire!Report(mac, ip, hints, name), scanner)
<1> DEFINE r == Wire!Report(mac, ip, hints, name)
           vendor == Wire!DeduceVendor(mac, hints)
<1>1. r.mac = mac /\ r.ip = ip /\ r.hints = hints /\ r.name = name
  BY Zenon DEF Wire!Report
<1> HIDE DEF r
<1>2. mac = Wire!NormalizeMac(mac)
  BY DEF Macs, Wire!FormatMac, Wire!NormalizeMac, Wire!Lower
<1>3. vendor \in Store!DeducedVendor(scanner, mac) /\ vendor \in Vendor \cup {""}
  BY VendorDeduced, Zenon
<1> HIDE DEF vendor
<1>4. Wire!VendorDeviceType(vendor)
          = IF vendor = "" THEN "" ELSE [v \in Vendor |-> Wire!VendorDeviceType(v)][vendor]
  <2>1. CASE vendor = ""
    BY <2>1, DatabaseAssumption, Zenon DEF Wire!VendorDeviceType
  <2>2. CASE vendor # ""
    BY <1>3, <2>2, Zenon
  <2> QED BY <2>1, <2>2
<1>5. Wire!EnrichedDevice(r, 1) = Store!BuildDevice(ip, vendor, name, 1)
  BY <1>1, <1>4, Zenon DEF Wire!EnrichedDevice, Store!BuildDevice, vendor
<1> QED BY <1>1, <1>2, <1>3, <1>5, Zenon DEF Fit, r

LEMMA ReportedAre ==
    /\ Store!Reported("arp").ip = STRING \ {""} /\ Store!Reported("arp").name = {None}
    /\ Store!Reported("snmp").ip = STRING \ {""} /\ Store!Reported("snmp").name = {None}
    /\ Store!Reported("mdns").ip = STRING \ {""} /\ Store!Reported("mdns").name = STRING \ {""}
    /\ Store!Reported("ssdp").ip = STRING \ {""}
    /\ Store!Reported("ssdp").name = (STRING \ {""}) \cup {None}
    /\ Store!Reported("dhcp").ip = (STRING \ {""}) \cup {""}
    /\ Store!Reported("dhcp").name = (STRING \ {""}) \cup {None}
<1>1. Store!Reported("arp") = Store!ArpReport /\ Store!Reported("snmp") = Store!ArpReport
  BY DEF Store!Reported, Store!ActiveScanner
<1>2. Store!Reported("mdns") = Store!MdnsReport
  BY DEF Store!Reported, Store!ActiveScanner
<1>3. Store!Reported("ssdp") = Store!SsdpReport
  BY DEF Store!Reported, Store!ActiveScanner
<1>4. Store!Reported("dhcp") = Store!DhcpReport
  BY DEF Store!Reported, Store!ActiveScanner
<1>5. Store!ArpReport.ip = STRING \ {""} /\ Store!ArpReport.name = {None}
  BY Zenon DEF Store!ArpReport
<1>6. Store!MdnsReport.ip = STRING \ {""} /\ Store!MdnsReport.name = STRING \ {""}
  BY Zenon DEF Store!MdnsReport
<1>7. Store!SsdpReport.ip = STRING \ {""} /\ Store!SsdpReport.name = (STRING \ {""}) \cup {None}
  BY Zenon DEF Store!SsdpReport, Store!OptName
<1>8. /\ Store!DhcpReport.ip = (STRING \ {""}) \cup {""}
      /\ Store!DhcpReport.name = (STRING \ {""}) \cup {None}
  BY Zenon DEF Store!DhcpReport, Store!OptIp, Store!OptName
<1> QED BY <1>1, <1>2, <1>3, <1>4, <1>5, <1>6, <1>7, <1>8, Zenon

LEMMA ArpReportsFit ==
    ASSUME NEW truth \in Truth, NEW frames \in Seq(Frames(truth)), NEW local_ip,
           NEW r \in Wire!ArpReports(frames, local_ip)
    PROVE  Fit(r, "arp")
<1>1. PICK f \in Wire!ToSet(frames) :
          r = Wire!Report(Wire!FormatMac(f.sender_mac), Wire!Text(f.sender_ip), <<>>, None)
  BY Zenon DEF Wire!ArpReports
<1>2. f \in Frames(truth)
  <2>1. PICK i \in DOMAIN frames : f = frames[i]
    BY DEF Wire!ToSet
  <2> QED BY <2>1, ElementOfSeq
<1>3. f.sender_mac \in MacOctets /\ f.sender_ip \in IpOctets
  BY <1>2 DEF Frames, Truth
<1>4. Wire!FormatMac(f.sender_mac) \in Macs
  BY <1>3 DEF Macs
<1>5. Wire!Text(f.sender_ip) \in STRING \ {""}
  BY <1>3, AddressesAreTold DEF Told
<1>6. <<>> \in Seq({}) 
  OBVIOUS
<1> QED BY <1>1, <1>4, <1>5, <1>6, ReportedAre, ReportFits, Zenon

LEMMA SnmpReportsFit ==
    ASSUME NEW rows \in Seq(Row), NEW stored, NEW r \in Wire!SnmpReports(rows, stored)
    PROVE  Fit(r, "snmp")
<1> DEFINE pairs == Wire!ParseArpTable(rows)
           found == Found(pairs)
           chosen == Settled(found, stored)
<1>1. PICK n \in Nat : pairs \in [1..n -> [mac: Macs, ip: Address]] /\ \A i \in 1..n : Told(pairs[i].ip)
  BY ArpTableIs, Zenon
<1>2. PICK mac \in DOMAIN chosen : r = Wire!Report(mac, Wire!Text(chosen[mac]), <<>>, None)
  BY DedupIs, Zenon DEF Wire!SnmpReports
<1> HIDE DEF pairs
<1>3. found \in SUBSET [mac: Macs, ip: Address] /\ \A p \in found : Told(p.ip)
  BY <1>1 DEF Found
<1> HIDE DEF found
<1>4. mac \in Macs /\ chosen[mac] \in AddressesOf(found, mac)
  BY <1>3, SettledAreListed
<1>5. Told(chosen[mac])
  <2>1. PICK p \in found : chosen[mac] = p.ip
    BY <1>4, Zenon DEF AddressesOf
  <2> QED BY <1>3, <2>1, Zenon
<1>6. Wire!Text(chosen[mac]) \in STRING \ {""}
  BY <1>5, Zenon DEF Told
<1>7. <<>> \in Seq({})
  OBVIOUS
<1> QED BY <1>2, <1>4, <1>6, <1>7, ReportedAre, ReportFits, Zenon
-----------------------------------------------------------------------------
(* Trimming, and cutting an option's value out, take a part of what was sent. *)
PartOf(t, s) == \E i, j \in DOMAIN s : i <= j /\ t = SubSeq(s, i, j)

LEMMA PartIs ==
    ASSUME NEW S, NEW s \in Seq(S), NEW i \in DOMAIN s, NEW j \in DOMAIN s, i <= j
    PROVE  /\ SubSeq(s, i, j) \in [1..(j - i + 1) -> S]
           /\ SubSeq(s, i, j) \in Seq(S) /\ Len(SubSeq(s, i, j)) = j - i + 1
           /\ \A k \in 1..(j - i + 1) : SubSeq(s, i, j)[k] = s[i + k - 1]
<1>1. i \in Nat \ {0} /\ j \in Nat /\ Len(s) \in Nat /\ j <= Len(s) /\ DOMAIN s = 1..Len(s)
  BY LenProperties
<1>2. i \in 1..(Len(s) + 1) /\ j \in (i - 1)..Len(s) /\ \A k \in i..j : s[k] \in S
  <2>1. \A k \in i..j : k \in 1..Len(s)
    BY <1>1
  <2>2. i \in 1..(Len(s) + 1) /\ j \in (i - 1)..Len(s)
    BY <1>1
  <2> QED BY <2>1, <2>2, ElementOfSeq
<1>3. /\ SubSeq(s, i, j) \in Seq(S) /\ Len(SubSeq(s, i, j)) = j - i + 1
      /\ \A k \in 1..(j - i + 1) : SubSeq(s, i, j)[k] = s[i + k - 1]
  BY <1>1, <1>2, SubSeqProperties
<1> DEFINE t == SubSeq(s, i, j)
           n == j - i + 1
<1>4. t \in Seq(S) /\ Len(t) = n
  BY <1>3
<1> HIDE DEF t, n
<1>5. t \in [1..n -> S]
  BY <1>4, LenProperties
<1> QED BY <1>3, <1>5 DEF t, n

LEMMA SameFunctions ==
    ASSUME NEW D, NEW S, NEW t \in [D -> S], NEW u \in [D -> S], \A k \in D : t[k] = u[k]
    PROVE  t = u
OBVIOUS

LEMMA PartsOfParts ==
    ASSUME NEW S, NEW c \in Seq(S), NEW s, NEW t, PartOf(s, c), PartOf(t, s)
    PROVE  PartOf(t, c)
<1>1. PICK i, j \in DOMAIN c : i <= j /\ s = SubSeq(c, i, j)
  BY DEF PartOf
<1>2. PICK a, b \in DOMAIN s : a <= b /\ t = SubSeq(s, a, b)
  BY DEF PartOf
<1>3. /\ i \in Nat \ {0} /\ j \in Nat /\ Len(c) \in Nat /\ DOMAIN c = 1..Len(c) /\ j <= Len(c)
  BY LenProperties
<1>4. /\ s \in Seq(S) /\ Len(s) = j - i + 1 /\ DOMAIN s = 1..(j - i + 1)
      /\ \A k \in 1..(j - i + 1) : s[k] = c[i + k - 1]
  <2>1. /\ s \in [1..(j - i + 1) -> S] /\ s \in Seq(S) /\ Len(s) = j - i + 1
        /\ \A k \in 1..(j - i + 1) : s[k] = c[i + k - 1]
    BY <1>1, PartIs, Zenon
  <2> QED BY <2>1, Zenon
<1>5. a \in 1..(j - i + 1) /\ b \in 1..(j - i + 1)
  BY <1>2, <1>4
<1>6. /\ t \in [1..(b - a + 1) -> S]
      /\ \A k \in 1..(b - a + 1) : t[k] = s[a + k - 1]
  <2>1. s \in Seq(S)
    BY <1>4
  <2> QED BY <1>2, <2>1, PartIs, Zenon
<1> DEFINE f == i + a - 1
           l == i + b - 1
           n == b - a + 1
           u == SubSeq(c, f, l)
<1>7. f \in 1..Len(c) /\ l \in 1..Len(c) /\ f <= l /\ l - f + 1 = n
  BY <1>1, <1>2, <1>3, <1>5
<1>8. u \in [1..n -> S] /\ \A k \in 1..n : u[k] = c[f + k - 1]
  <2> HIDE DEF f, l
  <2> HIDE DEF n
  <2>1. f \in DOMAIN c /\ l \in DOMAIN c
    BY <1>3, <1>7
  <2> QED BY <1>7, <2>1, PartIs
<1>9. \A k \in 1..n : t[k] = c[f + k - 1]
  <2> TAKE k \in 1..n
  <2>1. a + k - 1 \in 1..(j - i + 1) /\ i + (a + k - 1) - 1 = f + k - 1
    BY <1>3, <1>5
  <2>2. t[k] = s[a + k - 1]
    BY <1>6
  <2> DEFINE m == a + k - 1
  <2> HIDE DEF f, n
  <2>3. s[m] = c[i + m - 1]
    BY <1>4, <2>1
  <2> QED BY <2>1, <2>2, <2>3
<1>10. t = u
  <2>1. t \in [1..n -> S]
    BY <1>6
  <2> HIDE DEF u, n, f, l
  <2>2. \A k \in 1..n : t[k] = u[k]
    BY <1>8, <1>9, Zenon
  <2>3. u \in [1..n -> S]
    BY <1>8
  <2>4. \A D, R : \A g, h \in [D -> R] : (\A k \in D : g[k] = h[k]) => g = h
    BY SameFunctions, Zenon
  <2>5. \A g, h \in [1..n -> S] : (\A k \in 1..n : g[k] = h[k]) => g = h
    BY <2>4, Zenon
  <2> QED BY <2>1, <2>2, <2>3, <2>5, Zenon
<1> QED BY <1>3, <1>7, <1>10 DEF PartOf

LEMMA KeptIs ==
    ASSUME NEW S, NEW s \in Seq(S), NEW I \in SUBSET DOMAIN s, I # {}
    PROVE  PartOf(SubSeq(s, Wire!Min(I), Wire!Max(I)), s)
<1>1. Len(s) \in Nat /\ DOMAIN s = 1..Len(s)
  BY LenProperties
<1>2. I \in SUBSET (1..Len(s)) /\ I \in SUBSET Nat
  BY <1>1
<1>3. Wire!Min(I) \in I /\ Wire!Max(I) \in I
  BY <1>1, <1>2, LeastIsIn, GreatestIsIn
<1>4. \E x \in I : \A y \in I : x <= y
  BY <1>2, LeastExists
<1>5. \A y \in I : Wire!Min(I) <= y
  BY <1>4 DEF Wire!Min
<1> QED BY <1>3, <1>5, Zenon DEF PartOf

(* A host name that is read is a part of the option's value. *)
LEMMA HostNameIs ==
    ASSUME NEW S, NEW v \in Seq(S), Wire!HostName(v) # <<>>
    PROVE  PartOf(Wire!HostName(v), v)
<1> DEFINE A == {i \in DOMAIN v : v[i] # 0}
           s == IF A = {} THEN <<>> ELSE SubSeq(v, Wire!Min(A), Wire!Max(A))
           B == {i \in DOMAIN s : s[i] \notin {9, 10, 13, 32}}
           t == IF B = {} THEN <<>> ELSE SubSeq(s, Wire!Min(B), Wire!Max(B))
<1>1. Wire!HostName(v) = t
  <2>1. {i \in DOMAIN v : ~(v[i] = 0)} = A /\ {i \in DOMAIN s : ~(s[i] \in {9, 10, 13, 32})} = B
    BY Zenon
  <2> HIDE DEF A, B
  <2>2. Wire!HostName(v)
            = IF \E i \in DOMAIN v : v[i] > 127 THEN <<>>
              ELSE IF {i \in DOMAIN s : ~(s[i] \in {9, 10, 13, 32})} = {} THEN <<>>
                   ELSE SubSeq(s, Wire!Min({i \in DOMAIN s : ~(s[i] \in {9, 10, 13, 32})}),
                                  Wire!Max({i \in DOMAIN s : ~(s[i] \in {9, 10, 13, 32})}))
    BY <2>1, Zenon DEF Wire!HostName, Wire!Trim
  <2> QED BY <2>1, <2>2, Zenon
<1>2. A \in SUBSET DOMAIN v /\ B \in SUBSET DOMAIN s
  OBVIOUS
<1> HIDE DEF A, B
<1>3. B # {} /\ t = SubSeq(s, Wire!Min(B), Wire!Max(B))
  BY <1>1, Zenon
<1>4. A # {} /\ s = SubSeq(v, Wire!Min(A), Wire!Max(A))
  <2>1. s # <<>>
    <3>1. DOMAIN s # {}
      BY <1>2, <1>3, Zenon
    <3> HIDE DEF s
    <3> QED BY <3>1
  <2> QED BY <2>1, Zenon
<1>5. PartOf(s, v)
  BY <1>2, <1>4, KeptIs
<1>6. s \in Seq(S)
  <2>1. PICK i, j \in DOMAIN v : i <= j /\ s = SubSeq(v, i, j)
    BY <1>5, Zenon DEF PartOf
  <2> HIDE DEF s
  <2> QED BY <2>1, PartIs
<1> HIDE DEF s
<1>7. PartOf(t, s)
  BY <1>2, <1>3, <1>6, KeptIs, Zenon
<1> HIDE DEF t
<1> QED BY <1>1, <1>5, <1>7, PartsOfParts

LEMMA ChunkPartsAreTold ==
    ASSUME NEW c \in Chunk, c \in Seq(0..255), NEW t, PartOf(t, c)
    PROVE  Told(t)
<1>1. PICK i, j \in DOMAIN c : i <= j /\ t = SubSeq(c, i, j)
  BY Zenon DEF PartOf
<1>2. t # <<>>
  <2>1. i \in Nat /\ j \in Nat /\ i <= j
    BY <1>1, LenProperties
  <2>2. Len(t) = j - i + 1
    BY <1>1, PartIs
  <2> QED BY <2>1, <2>2
<1>3. c \in Sources
  BY Zenon DEF Sources
<1> QED BY <1>1, <1>2, <1>3, PartsAreTold, Zenon

(* What the walk reads are options of the packet. *)
OptionRead == {OptionOf(c) : c \in {d \in Chunk : d # <<Wire!OPTION_PAD>>}}

LEMMA OptionsAreChunks ==
    ASSUME NEW chunks \in Seq(Chunk), NEW cut \in 0..Len(FlattenSeq(chunks))
    PROVE  Wire!Options(SubSeq(FlattenSeq(chunks), 1, cut)) \in Seq(OptionRead)
<1>1. PICK e \in 0..Len(chunks) :
          Wire!Options(SubSeq(FlattenSeq(chunks), 1, cut)) = OptionsIn(chunks, e)
  BY WholePacket, Zenon
<1>2. e \in Nat /\ e <= Len(chunks) /\ Len(chunks) \in Nat /\ DOMAIN chunks = 1..Len(chunks)
  BY LenProperties
<1> DEFINE I == Reals(chunks, e)
           c == Cardinality(I)
           at == Ascending(I)
<1>3. I \in SUBSET (1..e)
  BY DEF Reals
<1>4. c \in Nat /\ at \in [1..c -> I]
  <2> HIDE DEF I
  <2> QED BY <1>2, <1>3, AscendingIs
<1>5. \A i \in I : chunks[i] \in Chunk /\ chunks[i] # <<Wire!OPTION_PAD>>
  <2> TAKE i \in I
  <2>1. i \in 1..Len(chunks)
    BY <1>2, <1>3
  <2> QED BY <2>1, ElementOfSeq DEF Reals
<1>6. OptionsIn(chunks, e) = [k \in 1..c |-> OptionOf(chunks[at[k]])]
  BY DEF OptionsIn, Elements
<1> HIDE DEF I, c, at
<1>7. \A k \in 1..c : OptionOf(chunks[at[k]]) \in OptionRead
  BY <1>4, <1>5, Zenon DEF OptionRead
<1> DEFINE o == OptionsIn(chunks, e)
<1>8. o \in [1..c -> OptionRead]
  BY <1>6, <1>7, Zenon
<1> HIDE DEF o
<1>9. o \in Seq(OptionRead)
  BY <1>4, <1>8, SeqDef
<1> QED BY <1>1, <1>9, Zenon DEF o

LEMMA ValueIs ==
    ASSUME NEW o \in OptionRead, o.value # <<>>
    PROVE  o.value \in Seq(0..255) /\ \E c \in Chunk : c \in Seq(0..255) /\ PartOf(o.value, c)
<1>1. PICK c \in Chunk : o = OptionOf(c)
  BY DEF OptionRead
<1>2. c \in Seq(0..255) /\ Len(c) \in Nat
  <2>1. IsChunk(c)
    BY ChunkAssumption, Zenon DEF IsChunk
  <2> QED BY <2>1, ChunkIs
<1>3. o.value = SubSeq(c, 3, Len(c))
  BY <1>1 DEF OptionOf
<1>4. 3 <= Len(c)
  <2>1. ASSUME Len(c) < 3 PROVE FALSE
    <3>1. SubSeq(c, 3, Len(c)) = <<>>
      BY <1>2, <2>1, SubSeqEmpty
    <3> QED BY <1>3, <3>1
  <2> QED BY <1>2, <2>1
<1>5. 3 \in DOMAIN c /\ Len(c) \in DOMAIN c
  BY <1>2, <1>4
<1>6. o.value \in Seq(0..255)
  <2> DEFINE l == Len(c)
  <2>1. l \in DOMAIN c /\ 3 <= l /\ o.value = SubSeq(c, 3, l)
    BY <1>3, <1>4, <1>5
  <2> HIDE DEF l
  <2>2. SubSeq(c, 3, l) \in Seq(0..255)
    BY <1>2, <1>5, <2>1, PartIs, Zenon
  <2> QED BY <2>1, <2>2, Zenon
<1> QED BY <1>2, <1>3, <1>4, <1>5, <1>6, Zenon DEF PartOf

(* parse_packet: the MAC is the client's; a host name, and an address that is asked
   for, are read from a part of an option. *)
LEMMA ParsedIs ==
    ASSUME NEW p, NEW options \in Seq(OptionRead), Wire!Options(p.options) = options,
           p.ciaddr \in IpOctets \cup {Wire!UNSPECIFIED}, Wire!ParsePacket(p) # None
    PROVE  LET d == Wire!ParsePacket(p)
           IN  /\ d.mac = Wire!FormatMac(p.chaddr)
               /\ d.hostname \in (STRING \ {""}) \cup {None}
               /\ d.ip_hint # None => Told(d.ip_hint)
<1> DEFINE n == Len(options)
           H == {i \in 1..n : /\ options[i].code = Wire!OPTION_HOSTNAME
                              /\ Wire!HostName(options[i].value) # <<>>}
           A == {i \in 1..n : /\ options[i].code = Wire!OPTION_REQUESTED_IP
                              /\ Len(options[i].value) = 4}
           h == IF H # {} THEN Wire!Max(H) ELSE 0
           a == IF A # {} THEN Wire!Max(A) ELSE 0
           host == IF h = 0 THEN None ELSE options[h]
           asked == IF a = 0 THEN None ELSE options[a]
           hostname == IF host = None THEN None ELSE Wire!Text(Wire!HostName(host.value))
           ip_hint == IF p.ciaddr # Wire!UNSPECIFIED THEN p.ciaddr
                      ELSE IF asked = None THEN None ELSE asked.value
           d == [mac |-> Wire!FormatMac(p.chaddr), hostname |-> hostname, ip_hint |-> ip_hint]
<1>1. Wire!ParsePacket(p) = d
  BY Zenon DEF Wire!ParsePacket, Wire!LastIn, Wire!SelectLastInSeq
<1>2. n \in Nat /\ \A i \in 1..n : options[i] \in OptionRead
  BY ElementOfSeq
<1>3. H \in SUBSET (1..n) /\ \A i \in H : Wire!HostName(options[i].value) # <<>>
  OBVIOUS
<1>4. A \in SUBSET (1..n) /\ \A i \in A : Len(options[i].value) = 4
  OBVIOUS
<1> HIDE DEF H, A, n
<1>5. H # {} => h \in H
  <2> HAVE H # {}
  <2>1. Wire!Max(H) \in H
    BY <1>2, <1>3, GreatestIsIn
  <2> QED BY <2>1
<1>6. A # {} => a \in A
  <2> HAVE A # {}
  <2>1. Wire!Max(A) \in A
    BY <1>2, <1>4, GreatestIsIn
  <2> QED BY <2>1
<1>7. ASSUME host # None PROVE hostname \in STRING \ {""}
  <2>1. h \in H /\ host = options[h]
    BY <1>5, <1>7, Zenon
  <2> DEFINE o == options[h]
             name == Wire!HostName(o.value)
  <2>2. o \in OptionRead /\ name # <<>>
    BY <1>2, <1>3, <2>1, Zenon
  <2>3. hostname = Wire!Text(name)
    BY <1>7, <2>1, Zenon
  <2> HIDE DEF o
  <2>4. o.value # <<>>
    <3>1. Wire!HostName(<<>>) = <<>>
      BY DEF Wire!HostName, Wire!Trim
    <3> QED BY <2>2, <3>1, Zenon
  <2>5. PICK c \in Chunk : c \in Seq(0..255) /\ PartOf(o.value, c)
    BY <2>2, <2>4, ValueIs, Zenon
  <2>6. PartOf(name, o.value)
    BY <2>2, <2>4, ValueIs, HostNameIs, Zenon
  <2> HIDE DEF name
  <2>7. PartOf(name, c)
    BY <2>5, <2>6, PartsOfParts
  <2>8. Told(name)
    BY <2>5, <2>7, ChunkPartsAreTold
  <2> QED BY <2>3, <2>8, Zenon DEF Told
<1>8. ASSUME ip_hint # None PROVE Told(ip_hint)
  <2>1. CASE p.ciaddr # Wire!UNSPECIFIED
    <3>1. ip_hint = p.ciaddr
      BY <2>1, Zenon
    <3>2. p.ciaddr \in IpOctets
      BY <2>1
    <3> QED BY <3>1, <3>2, AddressesAreTold
  <2>2. CASE p.ciaddr = Wire!UNSPECIFIED
    <3>1. asked # None /\ ip_hint = asked.value
      BY <1>8, <2>2, Zenon
    <3>2. a \in A /\ asked = options[a]
      BY <1>6, <3>1, Zenon
    <3> DEFINE o == options[a]
    <3>3. o \in OptionRead /\ Len(o.value) = 4
      BY <1>2, <1>4, <3>2, Zenon
    <3>4. ip_hint = o.value
      BY <3>1, <3>2, Zenon
    <3> HIDE DEF o
    <3>5. o.value # <<>>
      <4> DEFINE v == o.value
      <4>1. Len(v) = 4
        BY <3>3
      <4> HIDE DEF v
      <4>2. v # <<>>
        BY <4>1
      <4> QED BY <4>2 DEF v
    <3>6. PICK c \in Chunk : c \in Seq(0..255) /\ PartOf(o.value, c)
      BY <3>3, <3>5, ValueIs, Zenon
    <3>7. Told(o.value)
      BY <3>6, ChunkPartsAreTold
    <3> QED BY <3>4, <3>7, Zenon
  <2> QED BY <2>1, <2>2
<1>9. hostname \in (STRING \ {""}) \cup {None}
  <2>1. CASE host = None
    BY <2>1, Zenon
  <2>2. CASE host # None
    BY <1>7, <2>2, Zenon
  <2> QED BY <2>1, <2>2
<1> HIDE DEF hostname, ip_hint
<1>10. d.mac = Wire!FormatMac(p.chaddr) /\ d.hostname = hostname /\ d.ip_hint = ip_hint
  BY Zenon
<1> QED BY <1>1, <1>8, <1>9, <1>10, Zenon

LEMMA DhcpReportsFit ==
    ASSUME NEW p, NEW chunks \in Seq(Chunk), NEW cut \in 0..Len(FlattenSeq(chunks)),
           p.options = SubSeq(FlattenSeq(chunks), 1, cut), p.chaddr \in MacOctets,
           p.ciaddr \in IpOctets \cup {Wire!UNSPECIFIED}, NEW r \in Wire!DhcpReports(p)
    PROVE  Fit(r, "dhcp")
<1> DEFINE d == Wire!ParsePacket(p)
           ip == IF d.ip_hint = None THEN "" ELSE Wire!Text(d.ip_hint)
           options == Wire!Options(p.options)
<1>1. d # None /\ r = Wire!Report(d.mac, ip, <<>>, d.hostname)
  BY Zenon DEF Wire!DhcpReports
<1>2. options \in Seq(OptionRead)
  BY OptionsAreChunks, Zenon
<1>3. /\ d.mac = Wire!FormatMac(p.chaddr)
      /\ d.hostname \in (STRING \ {""}) \cup {None}
      /\ d.ip_hint # None => Told(d.ip_hint)
  BY <1>1, <1>2, ParsedIs, Zenon
<1>4. ip \in (STRING \ {""}) \cup {""}
  <2>1. CASE d.ip_hint = None
    BY <2>1, Zenon
  <2>2. CASE d.ip_hint # None
    BY <1>3, <2>2, Zenon DEF Told
  <2> QED BY <2>1, <2>2
<1> HIDE DEF d, ip, options
<1>5. d.mac \in Macs
  BY <1>3, Zenon DEF Macs
<1>6. <<>> \in Seq({})
  OBVIOUS
<1> QED BY <1>1, <1>3, <1>4, <1>5, <1>6, ReportedAre, ReportFits, Zenon

-----------------------------------------------------------------------------
(* The elements that pass a test, as the scanners pick them. *)
LEMMA PickedAre ==
    ASSUME NEW S, NEW s \in Seq(S), NEW I \in SUBSET DOMAIN s
    PROVE  \E c \in Nat : Wire!Elements(s, I) \in [1..c -> {s[i] : i \in I}]
<1> DEFINE n == Len(s)
           R == {s[i] : i \in I}
<1>1. n \in Nat /\ DOMAIN s = 1..n
  BY LenProperties
<1>2. I \in SUBSET (1..n)
  BY <1>1
<1> HIDE DEF n
<1> DEFINE c == Cardinality(I)
           at == Ascending(I)
<1>3. c \in Nat /\ at \in [1..c -> I]
  BY <1>1, <1>2, AscendingIs
<1>4. Wire!Elements(s, I) = [k \in 1..c |-> s[at[k]]]
  BY Zenon DEF Wire!Elements, Wire!Ascending, Ascending, Wire!Cardinality, Cardinality
<1> HIDE DEF c, at
<1>5. \A k \in 1..c : s[at[k]] \in R
  BY <1>3, Zenon
<1> HIDE DEF R
<1>6. [k \in 1..c |-> s[at[k]]] \in [1..c -> R]
  BY <1>5
<1> QED BY <1>3, <1>4, <1>6, Zenon DEF R

(* The header lines of a key that have a value. *)
HeadersOf(headers, key) ==
    Wire!Elements(headers, {i \in DOMAIN headers :
        headers[i].key = key /\ headers[i].value # None /\ headers[i].value.of # ""})

LEMMA HeadersAre ==
    ASSUME NEW headers \in Seq(SsdpHeader), NEW key
    PROVE  \E c \in Nat :
               HeadersOf(headers, key)
                   \in [1..c -> {h \in SsdpHeader : h.value # None /\ h.value.of # ""}]
<1> DEFINE I == {i \in DOMAIN headers :
                    headers[i].key = key /\ headers[i].value # None /\ headers[i].value.of # ""}
           R == {h \in SsdpHeader : h.value # None /\ h.value.of # ""}
           e == HeadersOf(headers, key)
<1>1. I \in SUBSET DOMAIN headers
  OBVIOUS
<1>2. \A i \in I : headers[i] \in R
  <2> TAKE i \in I
  <2>1. headers[i] \in SsdpHeader
    BY ElementOfSeq, LenProperties
  <2> QED BY <2>1, Zenon
<1>3. e = Wire!Elements(headers, I)
  BY Zenon DEF HeadersOf
<1> HIDE DEF I, R, e
<1>4. PICK c \in Nat : e \in [1..c -> {headers[i] : i \in I}]
  BY <1>1, <1>3, PickedAre
<1>5. {headers[i] : i \in I} \subseteq R
  BY <1>2, Zenon
<1>6. e \in [1..c -> R]
  BY <1>4, <1>5
<1> QED BY <1>6, Zenon DEF e, R

LEMMA SsdpIs ==
    ASSUME NEW p, NEW headers \in Seq(SsdpHeader), p.headers = headers,
           Wire!ParseSsdp(p) # None
    PROVE  /\ Wire!ParseSsdp(p).server \in (STRING \ {""}) \cup {None}
           /\ \E S : Wire!ParseSsdp(p).device_types \in Seq(S)
<1> DEFINE servers == HeadersOf(headers, "server")
           types == HeadersOf(headers, "nt")
           server == IF servers = <<>> THEN None ELSE Last(servers).value.of
           device_types == [i \in DOMAIN types |-> types[i].value]
           a == [server |-> server, device_types |-> device_types]
<1>1. Wire!ParseSsdp(p) = a
  BY Zenon DEF Wire!ParseSsdp, Wire!Where, Wire!MapSeq, HeadersOf, Last, Wire!Last
<1>2. PICK c \in Nat :
          servers \in [1..c -> {h \in SsdpHeader : h.value # None /\ h.value.of # ""}]
  BY HeadersAre
<1>3. PICK d \in Nat : types \in [1..d -> {h \in SsdpHeader : h.value # None /\ h.value.of # ""}]
  BY HeadersAre
<1> HIDE DEF servers, types
<1>4. server \in (STRING \ {""}) \cup {None}
  <2>1. CASE servers = <<>>
    BY <2>1, Zenon
  <2>2. CASE servers # <<>>
    <3>1. Len(servers) = c /\ c # 0
      <4> DEFINE R == {h \in SsdpHeader : h.value # None /\ h.value.of # ""}
      <4>1. servers \in [1..c -> R]
        BY <1>2
      <4> HIDE DEF R
      <4>2. servers \in Seq(R) /\ Len(servers) = c
        BY <4>1
      <4> QED BY <2>2, <4>2
    <3>2. c \in 1..c
      <4>1. c \in Nat /\ c # 0
        BY <1>2, <3>1
      <4> QED BY <4>1
    <3> DEFINE h == servers[c]
    <3>3. h \in SsdpHeader /\ h.value # None /\ h.value.of # ""
      BY <1>2, <3>2
    <3>4. server = h.value.of
      BY <2>2, <3>1, Zenon DEF Last
    <3> HIDE DEF h, server
    <3> QED BY <3>3, <3>4, PacketAssumption
  <2> QED BY <2>1, <2>2
<1>5. \E S : device_types \in Seq(S)
  <2> DEFINE S == {types[i].value : i \in 1..d}
  <2>1. DOMAIN types = 1..d
    BY <1>3
  <2>2. device_types \in [1..d -> S]
    BY <2>1, Zenon
  <2> HIDE DEF device_types, S
  <2>3. device_types \in Seq(S)
    BY <1>3, <2>2, SeqDef
  <2> QED BY <2>3
<1> HIDE DEF server, device_types
<1>6. a.server = server /\ a.device_types = device_types
  BY Zenon
<1> QED BY <1>1, <1>4, <1>5, <1>6, Zenon

(* A line's MAC, once it is normalised, is one on the network. *)
LEMMA ToldMacs ==
    ASSUME NEW ip, NEW world \in World, Wire!ResolveMac(ip, world) # None
    PROVE  Wire!ResolveMac(ip, world) \in Macs
<1>1. PICK cache \in BoundedSeq(Lines, MaxFew) :
          world = [cache |-> cache, frames |-> <<>>, interfaces |-> <<>>, configured |-> None]
  BY Zenon DEF World
<1>2. world.cache = cache /\ world.frames = <<>>
  BY <1>1
<1>3. cache \in Seq(Lines)
  BY BoundsAssumption, BoundedSeqsAreSeqs
<1>s. PICK S : S = {}
  OBVIOUS
<1>4. <<>> \in Seq(S)
  BY EmptySeq
<1>5. Wire!ProbeMac(ip, world) = None
  <2>1. ASSUME Wire!ProbeMac(ip, world) # None
        PROVE  \E reply \in S : reply.sender_ip = ip
    BY <1>2, <1>4, <2>1, ReplyFound, Zenon
  <2> QED BY <1>s, <2>1
<1> DEFINE cached == Wire!ParseProcNetArp(cache, ip)
<1>6. cached # None /\ Wire!ResolveMac(ip, world) = Wire!Lower(cached)
  BY <1>2, <1>5, Zenon DEF Wire!ResolveMac
<1>7. PICK line \in ToSet(cache) : line.mac.of # Wire!ZeroMac /\ cached = line.mac
  BY <1>3, <1>6, LineFound
<1>8. line \in Lines
  BY <1>3, <1>7 DEF ToSet
<1>9. PICK o \in MacOctets \cup {Wire!ZeroMac} : line.mac = Wire!Upper(Wire!FormatMac(o))
  BY <1>8 DEF Lines
<1>10. Wire!Upper(Wire!FormatMac(o)) = [of |-> o, case |-> "upper"]
  BY DEF Wire!Upper, Wire!FormatMac
<1>11. o \in MacOctets
  BY <1>7, <1>9, <1>10
<1>12. Wire!Lower(cached) = Wire!FormatMac(o)
  BY <1>7, <1>9, <1>10 DEF Wire!Lower, Wire!FormatMac
<1> QED BY <1>6, <1>11, <1>12, Zenon DEF Macs

LEMMA AnnouncedFit ==
    ASSUME NEW src \in IpOctets, NEW world \in World,
           NEW scanner \in {"mdns", "ssdp"}, NEW S, NEW hints \in Seq(S),
           NEW name \in Store!Reported(scanner).name,
           NEW r \in Wire!Announced(src, world, hints, name)
    PROVE  Fit(r, scanner)
<1> DEFINE mac == Wire!ResolveMac(src, world)
<1>1. mac # None /\ r = Wire!Report(mac, Wire!Text(src), hints, name)
  BY Zenon DEF Wire!Announced
<1>4. mac \in Macs
  BY <1>1, ToldMacs, Zenon
<1>5. Wire!Text(src) \in STRING \ {""}
  BY AddressesAreTold DEF Told
<1>6. Wire!Text(src) \in Store!Reported(scanner).ip
  <2>1. CASE scanner = "mdns"
    BY <1>5, <2>1, ReportedAre, Zenon
  <2>2. CASE scanner = "ssdp"
    BY <1>5, <2>2, ReportedAre, Zenon
  <2> QED BY <2>1, <2>2
<1> HIDE DEF mac
<1> QED BY <1>1, <1>4, <1>6, ReportFits, Zenon

LEMMA SsdpReportsFit ==
    ASSUME NEW src \in IpOctets \cup {None}, NEW world \in World,
           NEW p, NEW headers \in Seq(SsdpHeader), p.headers = headers,
           NEW r \in Wire!SsdpReports(src, p, world)
    PROVE  Fit(r, "ssdp")
<1> DEFINE a == Wire!ParseSsdp(p)
<1>1. src # None /\ a # None /\ r \in Wire!Announced(src, world, a.device_types, a.server)
  BY Zenon DEF Wire!SsdpReports
<1>2. src \in IpOctets
  BY <1>1
<1>3. a.server \in (STRING \ {""}) \cup {None} /\ \E S : a.device_types \in Seq(S)
  BY <1>1, SsdpIs, Zenon
<1> HIDE DEF a
<1>4. PICK S : a.device_types \in Seq(S)
  BY <1>3
<1>5. a.server \in Store!Reported("ssdp").name
  BY <1>3, ReportedAre, Zenon
<1> QED BY <1>1, <1>2, <1>4, <1>5, AnnouncedFit, Zenon

(* Resource records of a kind that have a name. *)
RecordsOf(records, rdata) ==
    Wire!Elements(records, {i \in DOMAIN records :
        records[i].rdata = rdata /\ records[i].name.of # ""})

LEMMA RecordsAre ==
    ASSUME NEW records \in Seq(MdnsRecord), NEW rdata
    PROVE  \E c \in Nat :
               RecordsOf(records, rdata) \in [1..c -> {q \in MdnsRecord : q.name.of # ""}]
<1> DEFINE I == {i \in DOMAIN records : records[i].rdata = rdata /\ records[i].name.of # ""}
           R == {q \in MdnsRecord : q.name.of # ""}
           e == RecordsOf(records, rdata)
<1>1. I \in SUBSET DOMAIN records
  OBVIOUS
<1>2. \A i \in I : records[i] \in R
  <2> TAKE i \in I
  <2>1. records[i] \in MdnsRecord
    BY ElementOfSeq, LenProperties
  <2> QED BY <2>1, Zenon
<1>3. e = Wire!Elements(records, I)
  BY Zenon DEF RecordsOf
<1> HIDE DEF I, R, e
<1>4. PICK c \in Nat : e \in [1..c -> {records[i] : i \in I}]
  BY <1>1, <1>3, PickedAre
<1>5. {records[i] : i \in I} \subseteq R
  BY <1>2, Zenon
<1>6. e \in [1..c -> R]
  BY <1>4, <1>5
<1> QED BY <1>6, Zenon DEF e, R

LEMMA MdnsReportsFit ==
    ASSUME NEW src \in IpOctets \cup {None}, NEW world \in World,
           NEW p, p # None => p.answers \in Seq(MdnsRecord) /\ p.additional \in Seq(MdnsRecord),
           NEW r \in Wire!MdnsReports(src, p, world)
    PROVE  Fit(r, "mdns")
<1> DEFINE a == Wire!ParseMdns(p)
           records == p.answers \o p.additional
           named == RecordsOf(records, "A")
           pointed == RecordsOf(records, "PTR")
           hostnames == [i \in DOMAIN named |-> named[i].name.of]
           types == [i \in DOMAIN pointed |-> pointed[i].name]
<1>1. /\ src # None /\ a.hostnames # <<>>
      /\ r \in Wire!Announced(src, world, a.service_types, Head(a.hostnames))
  BY Zenon DEF Wire!MdnsReports
<1>2. src \in IpOctets
  BY <1>1
<1>3. p # None
  <2>1. ASSUME p = None PROVE a.hostnames = <<>>
    <3>1. a = [hostnames |-> <<>>, service_types |-> <<>>]
      BY <2>1, Zenon DEF Wire!ParseMdns
    <3> HIDE DEF a
    <3> QED BY <3>1
  <2> QED BY <1>1, <2>1
<1>4. a.hostnames = hostnames /\ a.service_types = types
  <2> DEFINE names == [i \in DOMAIN named |-> named[i].name]
  <2>1. Wire!MdnsNames(p, "A") = names /\ Wire!MdnsNames(p, "PTR") = types
    BY Zenon DEF Wire!MdnsNames, Wire!Where, Wire!MapSeq, RecordsOf
  <2>2. [i \in DOMAIN names |-> names[i].of] = hostnames
    BY Zenon
  <2>3. a = [hostnames |-> [i \in DOMAIN names |-> names[i].of], service_types |-> types]
    BY <1>3, <2>1, Zenon DEF Wire!ParseMdns, Wire!MapSeq
  <2> HIDE DEF a, names, hostnames, types
  <2> QED BY <2>2, <2>3
<1>5. records \in Seq(MdnsRecord)
  BY <1>3, ConcatProperties
<1> HIDE DEF records
<1>6. PICK c \in Nat : named \in [1..c -> {q \in MdnsRecord : q.name.of # ""}]
  BY <1>5, RecordsAre
<1>7. PICK d \in Nat : pointed \in [1..d -> {q \in MdnsRecord : q.name.of # ""}]
  BY <1>5, RecordsAre
<1> HIDE DEF named, pointed
<1>8. Head(hostnames) \in STRING \ {""}
  <2> DEFINE R == {q \in MdnsRecord : q.name.of # ""}
             T == STRING \ {""}
  <2>1. \A q \in R : q.name.of \in T
    BY PacketAssumption
  <2>2. named \in [1..c -> R]
    BY <1>6
  <2> HIDE DEF R, T
  <2>3. hostnames \in [1..c -> T]
    BY <2>1, <2>2
  <2>4. hostnames # <<>>
    BY <1>1, <1>4
  <2> HIDE DEF hostnames
  <2>5. hostnames \in Seq(T)
    BY <2>3, SeqDef
  <2>6. Head(hostnames) \in T
    BY <2>4, <2>5, HeadTailProperties
  <2> QED BY <2>6 DEF T
<1>9. \E S : types \in Seq(S)
  <2> DEFINE S == {pointed[i].name : i \in 1..d}
  <2>1. DOMAIN pointed = 1..d
    BY <1>7
  <2>2. types \in [1..d -> S]
    BY <2>1, Zenon
  <2> HIDE DEF types, S
  <2>3. types \in Seq(S)
    BY <1>7, <2>2, SeqDef
  <2> QED BY <2>3
<1>10. PICK S : a.service_types \in Seq(S)
  BY <1>4, <1>9, Zenon
<1>11. Head(a.hostnames) \in Store!Reported("mdns").name
  BY <1>4, <1>8, ReportedAre, Zenon
<1> HIDE DEF a
<1> QED BY <1>1, <1>2, <1>10, <1>11, AnnouncedFit, Zenon

LEMMA ReportsBy ==
    ASSUME NEW s
    PROVE  /\ s.of = "arp" => ReportsOf(s) = Wire!ArpReports(s.frames, s.local_ip)
           /\ s.of = "snmp" => ReportsOf(s) = Wire!SnmpReports(s.rows, s.stored)
           /\ s.of = "dhcp" => ReportsOf(s) = Wire!DhcpReports(s.packet)
           /\ s.of = "ssdp" => ReportsOf(s) = Wire!SsdpReports(s.src, s.packet, s.world)
           /\ s.of = "mdns" => ReportsOf(s) = Wire!MdnsReports(s.src, s.packet, s.world)
           /\ s.of \notin {"arp", "snmp", "dhcp", "ssdp", "mdns"} => ReportsOf(s) = {}
BY DEF ReportsOf

AllFit(s) == \A r \in ReportsOf(s) : Fit(r, s.of)

LEMMA InputsFit ==
    ASSUME Next
    PROVE  AllFit(sample')
<1> USE BoundsAssumption
<1>1. CASE ArpScan
  <2>0. PICK truth \in Truth, local_ip \in IpOctets :
            \E frames \in BoundedSeq(Frames(truth), MaxKnown) :
                sample' = [of |-> "arp", frames |-> frames, local_ip |-> local_ip]
    BY <1>1, Zenon DEF ArpScan, Take
  <2>1. PICK frames \in BoundedSeq(Frames(truth), MaxKnown) :
            sample' = [of |-> "arp", frames |-> frames, local_ip |-> local_ip]
    BY <2>0
  <2>2. frames \in Seq(Frames(truth))
    BY BoundedSeqsAreSeqs
  <2>3. sample'.of = "arp" /\ sample'.frames = frames /\ sample'.local_ip = local_ip
    BY <2>1
  <2>4. ReportsOf(sample') = Wire!ArpReports(frames, local_ip)
    BY <2>3, ReportsBy, Zenon
  <2> QED BY <2>2, <2>3, <2>4, ArpReportsFit, Zenon DEF AllFit
<1>2. CASE SnmpWalk
  <2>1. PICK rows \in BoundedSeq(Row, MaxLength), stored \in [Macs -> IpOctets \cup {None}] :
            sample' = [of |-> "snmp", rows |-> rows, stored |-> stored]
    BY <1>2, Zenon DEF SnmpWalk, Take
  <2>2. rows \in Seq(Row)
    BY BoundedSeqsAreSeqs
  <2>3. sample'.of = "snmp" /\ sample'.rows = rows /\ sample'.stored = stored
    BY <2>1
  <2>4. ReportsOf(sample') = Wire!SnmpReports(rows, stored)
    BY <2>3, ReportsBy, Zenon
  <2> QED BY <2>2, <2>3, <2>4, SnmpReportsFit, Zenon DEF AllFit
<1>3. CASE DhcpPacket
  <2>1. PICK header \in {"request", "short", "not a request", "not Ethernet", "no cookie"},
             mac \in MacOctets, ciaddr \in IpOctets \cup {Wire!UNSPECIFIED},
             chunks \in BoundedSeq(Chunk, MaxLength) :
             \E cut \in 0..Len(FlattenSeq(chunks)) :
                 sample' = [of |-> "dhcp", chunks |-> chunks, cut |-> cut,
                            packet |-> [header |-> header, chaddr |-> mac, ciaddr |-> ciaddr,
                                        options |-> SubSeq(FlattenSeq(chunks), 1, cut)]]
    BY <1>3, Zenon DEF DhcpPacket, Take
  <2>2. PICK cut \in 0..Len(FlattenSeq(chunks)) :
             sample' = [of |-> "dhcp", chunks |-> chunks, cut |-> cut,
                        packet |-> [header |-> header, chaddr |-> mac, ciaddr |-> ciaddr,
                                    options |-> SubSeq(FlattenSeq(chunks), 1, cut)]]
    BY <2>1
  <2> DEFINE buf == SubSeq(FlattenSeq(chunks), 1, cut)
             p == [header |-> header, chaddr |-> mac, ciaddr |-> ciaddr, options |-> buf]
  <2>3. sample'.of = "dhcp" /\ sample'.packet = p
    BY <2>2, Zenon
  <2>4. p.options = buf /\ p.chaddr = mac /\ p.ciaddr = ciaddr
    BY Zenon
  <2>5. chunks \in Seq(Chunk)
    BY BoundedSeqsAreSeqs
  <2>6. ReportsOf(sample') = Wire!DhcpReports(p)
    BY <2>3, ReportsBy, Zenon
  <2> HIDE DEF p
  <2> QED BY <2>3, <2>4, <2>5, <2>6, DhcpReportsFit, Zenon DEF AllFit
<1>4. CASE SsdpAnnouncement
  <2>1. PICK src \in IpOctets \cup {None}, utf8 \in BOOLEAN, notify \in BOOLEAN,
             headers \in BoundedSeq(SsdpHeader, MaxLength), world \in World :
             sample' = [of |-> "ssdp", src |-> src, world |-> world,
                        packet |-> [utf8 |-> utf8, notify |-> notify, headers |-> headers]]
    BY <1>4, Zenon DEF SsdpAnnouncement, Take
  <2> DEFINE p == [utf8 |-> utf8, notify |-> notify, headers |-> headers]
  <2>2. sample'.of = "ssdp" /\ sample'.src = src /\ sample'.world = world /\ sample'.packet = p
    BY <2>1, Zenon
  <2>3. p.headers = headers
    BY Zenon
  <2>4. headers \in Seq(SsdpHeader)
    BY BoundedSeqsAreSeqs
  <2>6. ReportsOf(sample') = Wire!SsdpReports(src, p, world)
    BY <2>2, ReportsBy, Zenon
  <2> HIDE DEF p
  <2> QED BY <2>2, <2>3, <2>4, <2>6, SsdpReportsFit, Zenon DEF AllFit
<1>5. CASE MdnsAnnouncement
  <2> DEFINE Packets == [answers: BoundedSeq(MdnsRecord, MaxKnown), additional: BoundedSeq(MdnsRecord, MaxFew)]
  <2>1. PICK src \in IpOctets \cup {None}, p \in Packets \cup {None}, world \in World :
             sample' = [of |-> "mdns", src |-> src, world |-> world, packet |-> p]
    BY <1>5, Zenon DEF MdnsAnnouncement, Take
  <2>2. sample'.of = "mdns" /\ sample'.src = src /\ sample'.world = world /\ sample'.packet = p
    BY <2>1, Zenon
  <2>3. p # None => p.answers \in Seq(MdnsRecord) /\ p.additional \in Seq(MdnsRecord)
    <3> HAVE p # None
    <3>1. p.answers \in BoundedSeq(MdnsRecord, MaxKnown) /\ p.additional \in BoundedSeq(MdnsRecord, MaxFew)
      OBVIOUS
    <3> QED BY <3>1, BoundedSeqsAreSeqs
  <2>6. ReportsOf(sample') = Wire!MdnsReports(src, p, world)
    BY <2>2, ReportsBy, Zenon
  <2>7. ASSUME NEW r \in Wire!MdnsReports(src, p, world) PROVE Fit(r, "mdns")
    <3> HIDE DEF Packets
    <3>1. p # None => p.answers \in Seq(MdnsRecord) /\ p.additional \in Seq(MdnsRecord)
      BY <2>3
    <3> QED BY <3>1, MdnsReportsFit, Zenon
  <2> QED BY <2>2, <2>6, <2>7, Zenon DEF AllFit
<1>6. CASE sample'.of \notin {"arp", "snmp", "dhcp", "ssdp", "mdns"}
  BY <1>6, ReportsBy, Zenon DEF AllFit
<1>7. ArpScan \/ SnmpWalk \/ DhcpPacket \/ SsdpAnnouncement \/ MdnsAnnouncement
          \/ sample'.of \notin {"arp", "snmp", "dhcp", "ssdp", "mdns"}
  BY KindOf
<1> QED BY <1>1, <1>2, <1>3, <1>4, <1>5, <1>6, <1>7, Zenon

(* However long the packets, tables and caches are, and whatever the network's
   addresses, what a scanner hands to build_device is a sighting that the store's
   model lets it report, and the row built of it the store's model builds too
   (common/enrichment.rs:16). *)
THEOREM ReportsAreFit == Spec => []ReportsFit
<1>1. Init => ReportsFit
  <2> SUFFICES ASSUME Init PROVE ReportsFit
    OBVIOUS
  <2>1. ReportsOf(sample) = {}
    <3>1. sample.of = "none"
      BY DEF Init
    <3> QED BY <3>1, ReportsBy
  <2> QED BY <2>1, Zenon DEF ReportsFit
<1>2. ReportsFit /\ [Next]_sample => ReportsFit'
  <2> SUFFICES ASSUME ReportsFit, [Next]_sample PROVE ReportsFit'
    OBVIOUS
  <2>1. CASE UNCHANGED sample
    BY <2>1, Zenon DEF ReportsFit
  <2>2. CASE Next
    BY <2>2, InputsFit, Zenon DEF AllFit, Fit, ReportsFit
  <2> QED BY <2>1, <2>2
<1> QED BY <1>1, <1>2, PTL DEF Spec
=============================================================================
