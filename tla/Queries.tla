-------------------------------- MODULE Queries --------------------------------
(***************************************************************************)
(* What the list requests read from the tables.  A column's values are     *)
(* ranks, in SQLite's order (NULL is the least); instants are numbers, and *)
(* a row's instants are written with nine digits of fraction, a bound's    *)
(* with as few as it needs.  SQL fixes the order of the rows only as far   *)
(* as ORDER BY does, so a listing is a SET of sequences.                   *)
(***************************************************************************)
EXTENDS Integers, FiniteSetsExt, SequencesExt

CONSTANTS
    None,               \* a parameter that was not given, or not understood
    Like,               \* pairs <<owner, pattern>>: owner LIKE '%pattern%'
    Microsecond         \* instants in a microsecond
-----------------------------------------------------------------------------
(***************************************************************************)
(* Query parameters.                                                       *)
(***************************************************************************)
(* FromStr fails on what is not a value of the type. *)
ParseParameter(raw, values) == IF raw \in values THEN raw ELSE None

(* `Z' is appended to whatever does not end with it; what is then not RFC 3339
   is dropped, and with it the filter. *)
ParseDate(raw) ==
    IF raw # None /\ raw.zone \in {"Z", "none"} THEN raw.instant ELSE None

(* Comparing the texts: of two equal instants, the shorter text is the lesser,
   and only a bound with nanoseconds is written as long as a stored instant. *)
AtOrAfter(stored, bound)  == stored >= bound
AtOrBefore(stored, bound) ==
    stored < bound \/ (stored = bound /\ bound % Microsecond # 0)
-----------------------------------------------------------------------------
(***************************************************************************)
(* Devices.                                                                *)
(***************************************************************************)
SortColumn == {"name", "owner", "mac_address", "ipv4_address", "vendor",
               "is_registered", "device_type"}

ResolveSortColumn(sort_by) == IF sort_by \in SortColumn THEN sort_by ELSE "last_seen"

(* f: the filters of the request. *)
Matches(row, f) ==
    /\ f.is_registered # None  => row.is_registered = f.is_registered
    /\ f.last_seen_from # None => AtOrAfter(row.last_seen, f.last_seen_from)
    /\ f.last_seen_to # None   => AtOrBefore(row.last_seen, f.last_seen_to)
    /\ f.owner # None          => <<row.owner, f.owner>> \in Like
    /\ f.device_type # None    => row.device_type = f.device_type
    /\ f.vendor # None         => row.vendor = f.vendor

(* The handler's reading of the query string. *)
DeviceFilter(query) ==
    [is_registered  |-> ParseParameter(query.is_registered, {0, 1}),
     last_seen_from |-> ParseDate(query.last_seen_from),
     last_seen_to   |-> ParseDate(query.last_seen_to),
     owner |-> query.owner, device_type |-> query.device_type, vendor |-> query.vendor]

Filtered(rows, f) == {r \in rows : Matches(r, f)}

(* Mutant: rows that tie on the column come in any order. *)
DeviceBeforeByColumn(a, b, sort) ==
    LET column == ResolveSortColumn(sort.by)
    IN  IF sort.order = "asc" THEN a[column] < b[column] ELSE a[column] > b[column]

DeviceBefore(a, b, sort) ==
    LET column == ResolveSortColumn(sort.by)
    IN  \/ IF sort.order = "asc" THEN a[column] < b[column] ELSE a[column] > b[column]
        \/ (a[column] = b[column] /\ a.mac_address < b.mac_address)

(* The orders of the rows that ORDER BY leaves open; before: pairs it has an order for. *)
Orders(rows, before) ==
    {s \in SetToSeqs(rows) : \A i, j \in DOMAIN s : i < j => <<s[j], s[i]>> \notin before}

(* LIMIT and OFFSET, only when both are given; SQLite takes a negative offset
   for 0 and a negative limit for none. *)
ApplyPaging(s, page_offset, page_limit) ==
    IF None \in {page_offset, page_limit} THEN s
    ELSE LET first == Max({page_offset, 0})
         IN  SubSeq(s, first + 1,
                    IF page_limit < 0 THEN Len(s) ELSE Min({first + page_limit, Len(s)}))

ListDevices(rows, f, sort, page_offset, page_limit) ==
    {ApplyPaging(s, page_offset, page_limit) :
        s \in Orders(Filtered(rows, f), {p \in rows \X rows : DeviceBefore(p[1], p[2], sort)})}

CountDevices(rows, f) == Cardinality(Filtered(rows, f))
-----------------------------------------------------------------------------
(***************************************************************************)
(* Device events: one device's, newest first.  An event is written with    *)
(* the texts of its type and scanner, which are read back by their own     *)
(* tables; one row of a page that is not understood fails the page.        *)
(***************************************************************************)
DisplayType == [new_device |-> "NewDevice", device_seen |-> "DeviceSeen",
                device_changed |-> "DeviceChanged",
                device_back_online |-> "DeviceBackOnline"]

(* Mutant: a device that came back is read as one that was merely seen. *)
ParseTypeConfused(text) ==
    CASE text = "NewDevice"     -> "new_device"
      [] text \in {"DeviceSeen", "DeviceBackOnline"} -> "device_seen"
      [] text = "DeviceChanged" -> "device_changed"
      [] OTHER -> None

ParseType(text) ==
    CASE text = "NewDevice"        -> "new_device"
      [] text = "DeviceSeen"       -> "device_seen"
      [] text = "DeviceChanged"    -> "device_changed"
      [] text = "DeviceBackOnline" -> "device_back_online"
      [] OTHER -> None

DisplayScanner == [arp |-> "ARP", mdns |-> "mDNS", ssdp |-> "SSDP",
                   dhcp |-> "DHCP", snmp |-> "SNMP"]

ParseScanner(text) ==
    CASE text = "ARP"  -> "arp"
      [] text = "mDNS" -> "mdns"
      [] text = "SSDP" -> "ssdp"
      [] text = "DHCP" -> "dhcp"
      [] text = "SNMP" -> "snmp"
      [] OTHER -> None

InsertEvent(e) ==
    [e EXCEPT !.event_type = DisplayType[@], !.scanner = DisplayScanner[@]]

EventBefore(a, b) ==
    a.created_on > b.created_on \/ (a.created_on = b.created_on /\ a.id > b.id)

EventMatches(row, mac, created_from) ==
    /\ mac # None => row.mac_address = mac
    /\ created_from # None => AtOrAfter(row.created_on, created_from)

ReadEvents(page) ==
    LET read == [i \in DOMAIN page |->
                    [page[i] EXCEPT !.event_type = ParseType(@), !.scanner = ParseScanner(@)]]
    IN  IF \E i \in DOMAIN read : None \in {read[i].event_type, read[i].scanner}
        THEN None ELSE read

ListEvents(rows, mac, created_from, page_offset, page_limit) ==
    {ReadEvents(ApplyPaging(s, page_offset, page_limit)) :
        s \in Orders({r \in rows : EventMatches(r, mac, created_from)},
                     {p \in rows \X rows : EventBefore(p[1], p[2])})}
=============================================================================
