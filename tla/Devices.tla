------------------------------- MODULE Devices -------------------------------
(***************************************************************************)
(* One row of the "devices" table, and what each SQL statement of          *)
(* db/devices.rs and each pure step of the sighting pipeline makes of it.  *)
(* The module has no state: Sightings keeps the table and steps through    *)
(* the statements.  "" is the empty string the code stores for an unknown  *)
(* address, vendor, type or owner; None is Rust's None (no name, no row).  *)
(***************************************************************************)
EXTENDS Integers

CONSTANTS
    Mac,                    \* normalised MAC addresses: the key of the table
    Ip,                     \* non-empty IPv4 addresses
    Vendor,                 \* non-empty vendors
    DeviceType,             \* non-empty device types
    Name,                   \* host names
    Owner,                  \* non-empty owners
    None,                   \* Option::None
    Oui,                    \* [Mac -> Vendor or ""]: vendor of the OUI prefix
    LocallyAdministered,    \* privacy MACs: their OUI means nothing
    TypeOf,                 \* [Vendor -> DeviceType or ""]: vendor's usual type
    AbsenceThreshold        \* notifications.notify_when_not_seen_for

ASSUME DeviceAssumption ==
    /\ None \notin Mac /\ None \notin Name
    /\ "" \notin Ip /\ "" \notin Vendor /\ "" \notin DeviceType /\ "" \notin Owner
    /\ Oui \in [Mac -> Vendor \cup {""}]
    /\ LocallyAdministered \subseteq Mac
    /\ TypeOf \in [Vendor -> DeviceType \cup {""}]
    /\ AbsenceThreshold \in Nat

OptIp     == Ip \cup {""}
OptVendor == Vendor \cup {""}
OptType   == DeviceType \cup {""}
OptName   == Name \cup {None}
OptOwner  == Owner \cup {""}

(* The columns of a row besides its key; a sighting is built as one too. *)
Device == [ipv4_address: OptIp, vendor: OptVendor, last_seen: Nat,
           is_registered: BOOLEAN, owner: OptOwner, device_type: OptType,
           name: OptName]

ASSUME NoneIsNoDevice == None \notin Device

(***************************************************************************)
(* Discovery: what a scanner can report.                                   *)
(***************************************************************************)
ActiveScanner == {"arp", "snmp"}

(* The IPv4 addresses and names each protocol carries: an ARP reply or a row of
   the router's ARP cache, an mDNS or SSDP announcement, a DHCP DISCOVER. *)
ArpReport  == [ip |-> Ip,    name |-> {None}]
MdnsReport == [ip |-> Ip,    name |-> Name]
SsdpReport == [ip |-> Ip,    name |-> OptName]
DhcpReport == [ip |-> OptIp, name |-> OptName]

Reported(scanner) ==
    CASE scanner \in ActiveScanner -> ArpReport
      [] scanner = "mdns"          -> MdnsReport
      [] scanner = "ssdp"          -> SsdpReport
      [] OTHER                     -> DhcpReport

(* The OUI decides; only a privacy MAC may take its vendor from the service
   hints, which only mDNS and SSDP advertise. *)
DeducedVendor(scanner, mac) ==
    IF Oui[mac] # "" THEN {Oui[mac]}
    ELSE IF mac \in LocallyAdministered /\ scanner \in {"mdns", "ssdp"}
         THEN OptVendor
         ELSE {""}

(* Mutant: an unknown host name is stored as an empty one. *)
BuildDeviceNamed(ip, vendor, name, t) ==
    [ipv4_address |-> ip, vendor |-> vendor, last_seen |-> t,
     is_registered |-> FALSE, owner |-> "", device_type |-> "",
     name |-> IF name = None THEN "" ELSE name]

BuildDevice(ip, vendor, name, t) ==
    [ipv4_address |-> ip, vendor |-> vendor, last_seen |-> t,
     is_registered |-> FALSE, owner |-> "",
     device_type |-> IF vendor = "" THEN "" ELSE TypeOf[vendor],
     name |-> name]

(***************************************************************************)
(* The reconciliation of a sighting with the stored row.                   *)
(***************************************************************************)
Reconcile(device, recorded) ==
    [device EXCEPT
        !.name          = IF recorded.name # None THEN recorded.name ELSE @,
        !.ipv4_address  = IF @ = "" THEN recorded.ipv4_address ELSE @,
        !.is_registered = recorded.is_registered,
        !.owner         = recorded.owner,
        !.vendor        = IF @ = "" THEN recorded.vendor ELSE @,
        !.device_type   = IF recorded.device_type # ""
                          THEN recorded.device_type ELSE @]

(***************************************************************************)
(* The UPDATE statements: the row as the statement leaves it.              *)
(***************************************************************************)
(* Mutants: last_seen is only written along with the vendor; the registration
   read before is written back; the type, or the name, is always written. *)
SeenWithVendor(row, device, t) ==
    [row EXCEPT !.ipv4_address = device.ipv4_address,
                !.last_seen    = IF device.vendor # "" THEN t ELSE @]

SeenWithRegistration(row, device, t) ==
    [row EXCEPT !.last_seen     = t,
                !.is_registered = device.is_registered,
                !.owner         = device.owner]

SeenWithType(row, device, t) ==
    [row EXCEPT !.last_seen   = t,
                !.vendor      = IF device.vendor # "" THEN device.vendor ELSE @,
                !.device_type = device.device_type]

SeenWithName(row, device, t) ==
    [row EXCEPT !.last_seen = t, !.name = device.name]

Seen(row, device, t) ==
    [row EXCEPT
        !.ipv4_address = device.ipv4_address,
        !.last_seen    = t,
        !.vendor       = IF device.vendor # "" THEN device.vendor ELSE @,
        !.device_type  = IF device.vendor # "" /\ @ = ""
                         THEN device.device_type ELSE @,
        !.name         = IF device.name # None THEN device.name ELSE @]

Register(row, arg) ==
    [row EXCEPT !.is_registered = TRUE,
                !.owner         = arg.owner,
                !.device_type   = arg.device_type,
                !.name          = IF arg.name # None THEN arg.name ELSE @]

Update(row, arg) ==
    [row EXCEPT !.owner       = arg.owner,
                !.device_type = arg.device_type,
                !.vendor      = arg.vendor,
                !.name        = arg.name]

Unregister(row) == [row EXCEPT !.is_registered = FALSE, !.owner = ""]

(***************************************************************************)
(* Detection of what is worth an alert.                                    *)
(***************************************************************************)
Changed(old, new) == old # "" /\ new # "" /\ old # new

DetectedChanges(existing, device, t) ==
    {c \in {"device_back_online", "device_changed"} :
        IF c = "device_back_online"
        THEN t - existing.last_seen >= AbsenceThreshold
        ELSE \/ Changed(existing.ipv4_address, device.ipv4_address)
             \/ Changed(existing.vendor, device.vendor)}
=============================================================================
