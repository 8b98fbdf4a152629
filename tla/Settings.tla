-------------------------------- MODULE Settings --------------------------------
(***************************************************************************)
(* The configuration file, read once at start.  A file is a function from  *)
(* the sections to None (left out) or to the function of the keys it       *)
(* spells out.  The defaults are written twice in the code: once for a key *)
(* that a section leaves out (serde), once for a section that is left out  *)
(* (impl Default).  Durations stand for themselves.                        *)
(***************************************************************************)
CONSTANT None       \* a section left out; also: the file is refused

Nothing == [k \in {} |-> None]

(* What a section spells out, and the defaults of the rest. *)
Filled(given, defaults) ==
    [k \in DOMAIN given \cup DOMAIN defaults |->
        IF k \in DOMAIN given THEN given[k] ELSE defaults[k]]

(* The keys without which a section is refused, the defaults of the others,
   and what stands for the section when it is left out (None: refused). *)
Section(required, fields, absent) ==
    [required |-> required, fields |-> fields, absent |-> absent]

(* The same default functions serve both. *)
AllDefaults(d) == Section({}, d, d)

default_arp == [enabled |-> TRUE, wait_between_scans |-> "30m",
                sender_timeout |-> "1m", scan_duration |-> "10m"]

default_log  == [level |-> "warn"]
default_mdns == [enabled |-> TRUE, probe_timeout |-> "2s"]
default_ssdp == [enabled |-> TRUE, probe_timeout |-> "2s"]
default_dhcp == [enabled |-> TRUE]

(* No universal target exists: without a section the scanner stays off. *)
SnmpSection ==
    Section({"target", "community"},
            [enabled |-> TRUE, wait_between_scans |-> "10m", timeout |-> "5s"],
            [enabled |-> FALSE, target |-> "", community |-> "",
             wait_between_scans |-> "10m", timeout |-> "5s"])

default_relay_url == "the project's relay"

SectionOf ==
    [database      |-> Section({"path"}, Nothing, None),
     networking    |-> AllDefaults([interface |-> None]),
     log           |-> AllDefaults(default_log),
     arp_scanner   |-> AllDefaults(default_arp),
     notifications |-> Section({"method"}, [notify_when_not_seen_for |-> "1w"], None),
     pushover      |-> Section({"token", "user_key"}, Nothing, None),
     push          |-> Section({}, [relay_url |-> default_relay_url], None),
     web_server    |-> Section({"api_key"}, [ip_address |-> "0.0.0.0", port |-> "3000"], None),
     retention     |-> Section({"window"}, Nothing, [window |-> "365d"]),
     device_events |-> Section({"deduplication_window"}, Nothing,
                               [deduplication_window |-> "1m"]),
     mdns_scanner  |-> AllDefaults(default_mdns),
     ssdp_scanner  |-> AllDefaults(default_ssdp),
     dhcp_scanner  |-> AllDefaults(default_dhcp),
     snmp_scanner  |-> SnmpSection]

(* The two sections of Notifications that are Options. *)
Optional == {"pushover", "push"}

(* try_deserialize, one section: None if a required key is missing. *)
Deserialize(name, given) ==
    LET section == SectionOf[name]
    IN  IF given = None THEN section.absent
        ELSE IF section.required \subseteq DOMAIN given THEN Filled(given, section.fields)
        ELSE None

(* Mutant: nothing is checked across the sections. *)
ValidateNothing(settings) == TRUE

Validate(settings) ==
    settings.notifications.method = "pushover" => settings.pushover # None

(* Settings::new: None when the file is refused and the process panics. *)
Load(file) ==
    LET settings == [n \in DOMAIN SectionOf |-> Deserialize(n, file[n])]
        complete == \A n \in DOMAIN SectionOf :
                        settings[n] = None => n \in Optional /\ file[n] = None
    IN  IF complete /\ (complete => Validate(settings)) THEN settings ELSE None

(* What deliver() makes of a request under these settings. *)
DeliverBy(settings) ==
    CASE settings.notifications.method = "pushover" ->
            IF settings.pushover # None THEN "pushover" ELSE "not configured"
      [] settings.notifications.method = "push" -> "relay"
      [] OTHER -> "log"

RelayUrl(settings) ==
    IF settings.push = None THEN SectionOf.push.fields.relay_url
    ELSE settings.push.relay_url

(* What snmp/scanner.rs does at its start: without a target it ends there. *)
SnmpPolls(settings) ==
    settings.snmp_scanner.enabled /\ settings.snmp_scanner.target # ""

(* GET /api/config: what the app offers its push toggle for. *)
ConfigMethod(settings) == settings.notifications.method
=============================================================================
