------------------------------- MODULE Rendering -------------------------------
(***************************************************************************)
(* The texts of the notifications.  A text is a title and the lines of a   *)
(* body, each line what it says and the value it shows; the wording is     *)
(* left out.  A device's MAC is the sequence of its octets.                *)
(***************************************************************************)
EXTENDS Integers, SequencesExt

CONSTANTS
    None,
    SummaryListLimit    \* SUMMARY_LIST_LIMIT

Line(says, value) == [says |-> says, value |-> value]

DisplayName(d) == IF d.name \in {None, ""} THEN "-" ELSE d.name
OrPlaceholder(value) == IF value = "" THEN "-" ELSE value

(* The name, else the vendor, else the last two octets of the MAC. *)
TitleIdentity(d) ==
    IF d.name \notin {None, ""} THEN Line("name", d.name)
    ELSE IF d.vendor # "" THEN Line("vendor", d.vendor)
    ELSE Line("device", ToString(SubSeq(d.mac, Len(d.mac) - 1, Len(d.mac))))

RegistrationLine(d) ==
    IF ~d.is_registered THEN Line("not registered", "")
    ELSE IF d.owner = "" THEN Line("registered", "")
    ELSE Line("registered to", d.owner)

DeviceLines(d) ==
    <<Line("Name", DisplayName(d)), Line("Vendor", OrPlaceholder(d.vendor)),
      Line("Type", OrPlaceholder(d.device_type))>>

RenderNewDevice(d) ==
    [title |-> <<Line("new device", ""), TitleIdentity(d)>>, body |-> DeviceLines(d)]

RenderBackOnline(d, absent_for) ==
    [title |-> <<Line("back online after", absent_for), TitleIdentity(d)>>,
     body  |-> DeviceLines(d) \o <<RegistrationLine(d), Line("Absent for", absent_for)>>]

VendorLines(existing, new) ==
    <<Line("Vendor was", existing.vendor), Line("Vendor is", new.vendor)>>

(* Mutant: the new address is shown. *)
ChangesWithAddress(existing, new, ip_changed, vendor_changed) ==
    (IF ip_changed THEN <<Line("IP address changed", new.ipv4_address)>> ELSE <<>>)
        \o (IF vendor_changed THEN VendorLines(existing, new) ELSE <<>>)

(* That the address changed, never the address. *)
ChangeLines(existing, new, ip_changed, vendor_changed) ==
    (IF ip_changed THEN <<Line("IP address changed", "")>> ELSE <<>>)
        \o (IF vendor_changed THEN VendorLines(existing, new) ELSE <<>>)

RenderChanged(existing, new, ip_changed, vendor_changed) ==
    [title |-> <<Line("changed", IF ~ip_changed THEN "vendor"
                                 ELSE IF ~vendor_changed THEN "IP" ELSE "IP and vendor"),
                 TitleIdentity(new)>>,
     body  |-> <<Line("Name", DisplayName(new)), Line("Type", OrPlaceholder(new.device_type)),
                 RegistrationLine(new)>>
                   \o ChangeLines(existing, new, ip_changed, vendor_changed)]

SummaryDeviceLine(d) ==
    Line("listed", <<DisplayName(d), d.vendor, d.device_type>>)

(* Mutant: one device too many is listed. *)
DeviceSummaryOneMore(devices) ==
    LET listed == SubSeq(devices, 1, IF Len(devices) > SummaryListLimit
                                     THEN SummaryListLimit + 1 ELSE Len(devices))
    IN  [i \in DOMAIN listed |-> SummaryDeviceLine(listed[i])]
        \o (IF Len(devices) > SummaryListLimit
            THEN <<Line("more", Len(devices) - SummaryListLimit)>> ELSE <<>>)

DeviceSummary(devices) ==
    LET listed == SubSeq(devices, 1, IF Len(devices) > SummaryListLimit
                                     THEN SummaryListLimit ELSE Len(devices))
    IN  [i \in DOMAIN listed |-> SummaryDeviceLine(listed[i])]
        \o (IF Len(devices) > SummaryListLimit
            THEN <<Line("more", Len(devices) - SummaryListLimit)>> ELSE <<>>)

(* One summary for each kind of change; they differ in their wording. *)
RenderSummary(kind, devices) ==
    [title |-> <<Line(kind, Len(devices))>>, body |-> DeviceSummary(devices)]
=============================================================================
