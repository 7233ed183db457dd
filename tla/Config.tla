-------------------------------- MODULE Config --------------------------------
(***************************************************************************)
(* The reading of device.ini, adv.ini and ps_filter.ini at start-up        *)
(* (read_config.c), one line after the other.  main calls the functions in *)
(* turn and stops at the first that refuses; they share no state, so that  *)
(* a behaviour here is one of the calls.  The addresses of the interfaces  *)
(* are in IpTable.                                                         *)
(*                                                                         *)
(* A line has been trimmed and is neither blank nor a comment.  A value is *)
(* the name of a port or a number as its variable takes it; what is no     *)
(* address, such as the 0 of a filter rule, is NoIp.                       *)
(***************************************************************************)
EXTENDS Integers, FiniteSets, SequencesExt

CONSTANTS
    Files,      \* for each reader the files it may find
    PortMax,    \* CAPTURE_INTERFACE_SIZE
    DevMax,     \* MAX_DEV_NUM
    RuleMax,    \* MAX_PS_RULE_NUM
    Word,       \* the values of a sb_u16
    CpuCounts,  \* what tmc_cpus_count may say of a set nobody has filled
    Names,      \* names of ports
    NoIp        \* an address in_write_ip_int cannot read

Readers == {"device", "adv", "filter"}

\* The keys of device.ini that list something, and those that give a number.
Numbers == {"device_id", "lb_exist", "xdr_server_port", "dpi_flag", "ql_flag", "psql_flag"}
Ports == {"cap_interface", "gb_interface", "iups_interface", "gn_interface", "s1mme_interface",
          "s1u_interface", "s6a_interface", "s10_interface", "s11_interface", "s5_interface"}
DataPorts == {"dpi_data_interface", "ql_data_interface", "psql_data_interface"}
Ids == {"ql_devid", "psql_devid"}
ListKeys == Ports \cup DataPorts \cup Ids \cup {"dpi_devip"}

\* What a line of device.ini or adv.ini, and one of ps_filter.ini, consists of.
PortsText == [key : Ports \cup DataPorts, values : Seq(Names)]
NumbersText == [key : STRING \ (Ports \cup DataPorts), values : Seq(Int \cup {NoIp})]
RuleText == [fields : Seq(Nat \cup {NoIp}), cell : Seq(Nat)]

ASSUME ConfigAssumption ==
    /\ DOMAIN Files = Readers
    /\ Files["device"] \subseteq Seq(PortsText \cup NumbersText)
    /\ Files["adv"] \subseteq Seq(NumbersText)
    /\ Files["filter"] \subseteq Seq(RuleText)
    /\ {PortMax, DevMax, RuleMax, Word} \subseteq Nat \ {0}
    /\ CpuCounts \subseteq Int /\ NoIp \notin Int

VARIABLES
    reading,    \* the reader
    file, place,\* its file, the lines read
    result,     \* "reading", "accepted", "refused", "crashed"
    device,     \* g_device_config
    adv,        \* g_adv_config
    rules,      \* the g_ps_filter_num rules of g_ps_filter
    slot        \* the element after them, that the next line is read into

configVars == <<reading, file, place, result, device, adv, rules, slot>>

Line == file[place + 1]
NextLine(reader) == reading = reader /\ result = "reading" /\ place < Len(file)
AtEnd(reader) == reading = reader /\ result = "reading" /\ place = Len(file)

\* A number with no digits is 0, as atoi has it; an address that cannot be read changes nothing.
NumberOf(v) == IF v = NoIp THEN 0 ELSE v
IpOf(v, old) == IF v = NoIp THEN old ELSE v

-----------------------------------------------------------------------------
(* device.ini                                                              *)

DeviceKeys == Numbers \cup ListKeys \cup {"xdr_server_ip", "dpi_devid"}

NoDevice ==
    [number |-> [key \in Numbers \cup {"xdr_server_ip"} |-> 0],
     list |-> [key \in ListKeys |-> << >>],
     dpi_devid |-> [i \in 1..DevMax |-> 0]]

\* Mutant of the next definition: it looks before it counts.
StopsLate(n, max) == n > max

\* Each list is left once its array is full; it is asked after an entry was written.
Stops(n, max) == n >= max

\* Has the line that found "list" filled the array?
Filled(list, grown, max) == grown # list /\ Stops(Len(grown), max)

\* One more entry of the line, behind those that are there.  Of "once" the list takes none
\* that it has already.
Entry(list, grown, v, max, once) ==
    IF Filled(list, grown, max) \/ v \in once \cap ToSet(grown) THEN grown ELSE Append(grown, v)

\* All entries of a line, one after the other.
Entries(list, values, max, once) ==
    LET after[n \in 0..Len(values)] ==
            IF n = 0 THEN list ELSE Entry(list, after[n - 1], values[n], max, once)
    IN  after[Len(values)]

\* Identities and addresses, and ports.
AddTo(list, values, max) == Entries(list, values, max, {})
AddPorts(list, values, max) == Entries(list, values, max, ToSet(values))

ReadOn == place' = place + 1 /\ UNCHANGED <<reading, file, result>>

Store(key, v) == device' = [device EXCEPT !.number[key] = v]
Keep(key, list) == device' = [device EXCEPT !.list[key] = list]

DeviceLine(keys) ==
    /\ NextLine("device") /\ Line.key \in keys
    /\ UNCHANGED <<adv, rules, slot>>

\* A port number has sixteen bits.
NumberLine ==
    /\ DeviceLine(Numbers) /\ Line.values # << >>
    /\ Store(Line.key, IF Line.key = "xdr_server_port" THEN NumberOf(Line.values[1]) % Word
                       ELSE NumberOf(Line.values[1]))
    /\ ReadOn

ServerIpLine ==
    /\ DeviceLine({"xdr_server_ip"}) /\ Line.values # << >>
    /\ Store(Line.key, IpOf(Line.values[1], device.number[Line.key]))
    /\ ReadOn

\* in_parse_if
PortsLine ==
    /\ DeviceLine(Ports) /\ Line.values # << >>
    /\ Keep(Line.key, AddPorts(device.list[Line.key], Line.values, PortMax))
    /\ ReadOn

\* in_parse_if splits a value that is not there.
PortsLineEmpty ==
    /\ DeviceLine(Ports) /\ Line.values = << >>
    /\ result' = "crashed"
    /\ UNCHANGED <<reading, file, place, device>>

\* Not the value is split at its commas but the line: the first port goes by the name of the
\* key, cut to MAX_LINK_NAME, which no line's whole text is equal to.
DataPortsLine ==
    /\ DeviceLine(DataPorts)
    /\ LET first == Append(device.list[Line.key], Line.key)
       IN  Keep(Line.key, IF Stops(Len(first), DevMax) \/ Line.values = << >> THEN first
                          ELSE AddPorts(first, Tail(Line.values), DevMax))
    /\ ReadOn

IdsLine ==
    /\ DeviceLine(Ids)
    /\ Keep(Line.key, AddTo(device.list[Line.key], [i \in DOMAIN Line.values |-> NumberOf(Line.values[i])], DevMax))
    /\ ReadOn

\* A device whose address cannot be read counts all the same.
DeviceIpsLine ==
    /\ DeviceLine({"dpi_devip"})
    /\ Keep(Line.key, AddTo(device.list[Line.key], [i \in DOMAIN Line.values |-> IpOf(Line.values[i], 0)], DevMax))
    /\ ReadOn

\* Ids for the devices known so far, one at least.
DeviceIdsLine ==
    /\ DeviceLine({"dpi_devid"})
    /\ LET known == Len(device.list["dpi_devip"])
           Written(i) == i <= Len(Line.values) /\ (i = 1 \/ i <= known)
       IN  device' = [device EXCEPT !.dpi_devid =
                        [i \in DOMAIN @ |-> IF Written(i) THEN NumberOf(Line.values[i]) ELSE @[i]]]
    /\ ReadOn

\* A key the reader does not know, or a number or address without its value.
DeviceLineIgnored ==
    /\ \/ NextLine("device") /\ Line.key \notin DeviceKeys /\ UNCHANGED <<adv, rules, slot>>
       \/ DeviceLine(Numbers \cup {"xdr_server_ip"}) /\ Line.values = << >>
    /\ ReadOn
    /\ UNCHANGED device

\* What a flag asks for, in devices and in ports.
Needs == {<<"dpi_flag", "dpi_devip", "dpi_data_interface">>,
          <<"ql_flag", "ql_devid", "ql_data_interface">>,
          <<"psql_flag", "psql_devid", "psql_data_interface">>}

DeviceComplete ==
    /\ device.list["cap_interface"] # << >>
    /\ device.number["xdr_server_ip"] # 0 /\ device.number["xdr_server_port"] # 0
    /\ \A need \in Needs : device.number[need[1]] > 0 =>
          device.list[need[2]] # << >> /\ device.list[need[3]] # << >>

DeviceEnd ==
    /\ AtEnd("device")
    /\ result' = IF DeviceComplete THEN "accepted" ELSE "refused"
    /\ UNCHANGED <<reading, file, place, device, adv, rules, slot>>

-----------------------------------------------------------------------------
(* adv.ini                                                                 *)

Defaults ==
    [dataplane_cpu_start |-> 0, sig_parser_cpus |-> 1, data_parser_cpus |-> 15,
     xdr_sender_cpus |-> 1, log_level |-> 0,
     mpipe_iqueue_size |-> 65536, mpipe_equeue_size |-> 65536, mpipe_queue_buffer_size |-> 131072,
     sig_xdr_queue_size |-> 3000, data_xdr_queue_size |-> 3000, sig_user_queue_size |-> 100,
     sig_data_queue_size |-> 1000, dpi_user_queue_size |-> 100,
     user_timeout |-> 86400, xdr_timeout |-> 60, xdr_event_timeslice |-> 600,
     tcp_udp_timeout |-> 120, tcp_udp_inactive_gap |-> 60, attach_request_timeout |-> 15,
     rau_request_timeout |-> 8, pdp_request_timeout |-> 8, detach_request_timeout |-> 8,
     wtp_transaction_inactive_gap |-> 60, wtp_inactive_gap |-> 10]

AdvLine ==
    /\ NextLine("adv")
    /\ adv' = IF Line.key \in DOMAIN Defaults /\ Line.values # << >>
              THEN [adv EXCEPT ![Line.key] = NumberOf(Line.values[1])] ELSE adv
    /\ ReadOn
    /\ UNCHANGED <<device, rules, slot>>

\* Zero is refused, a negative number is not.
CpusFit(count) ==
    /\ \A key \in {"sig_parser_cpus", "data_parser_cpus", "xdr_sender_cpus"} : adv[key] # 0
    /\ count - adv.dataplane_cpu_start
          >= adv.sig_parser_cpus + adv.data_parser_cpus + adv.xdr_sender_cpus

AdvEnd ==
    /\ AtEnd("adv")
    /\ \E count \in CpuCounts : result' = IF CpusFit(count) THEN "accepted" ELSE "refused"
    /\ UNCHANGED <<reading, file, place, device, adv, rules, slot>>

-----------------------------------------------------------------------------
(* ps_filter.ini                                                           *)

\* The fields of a rule up to its cell; "cell" holds the parts of the ninth.
FieldOrder == <<"id", "user_ip", "imsi", "imei", "msisdn", "rn_ip1", "rn_ip2", "cid_type">>
IpFields == {"user_ip", "rn_ip1", "rn_ip2"}

\* Mutant of the next definition: a TD-SCDMA cell is taken for a GPRS one.
CellOrderOfTwo(type) ==
    IF type < 2 THEN <<"mcc", "mnc", "lac", "rac", "ci">> ELSE <<"mcc", "mnc", "ci">>

\* The parts of a cell by its type: GPRS, TD-SCDMA, TD-LTE.
CellOrder(type) ==
    IF type = 0 THEN <<"mcc", "mnc", "lac", "rac", "ci">>
    ELSE IF type = 1 THEN <<"mcc", "mnc", "lac", "ci">>
    ELSE IF type = 2 THEN <<"mcc", "mnc", "ci">>
    ELSE <<"mcc", "mnc", "lac">>

RuleFields == ToSet(FieldOrder) \cup {"mcc", "mnc", "lac", "rac", "ci"}
NoRule == [f \in RuleFields |-> 0]

NineFields(line) == Len(line.fields) = Len(FieldOrder) /\ line.cell # << >>

\* Where a field stands in an order, 0 if it does not.
PlaceOf(f, order) == SelectInSeq(order, LAMBDA g : g = f)

\* in_read_rule: the fields are stored as they come, whether the line turns out whole or not.
Stored(rule, line) ==
    LET upto == [f \in RuleFields |->
                    LET i == PlaceOf(f, FieldOrder)
                    IN  IF i \notin 1..Len(line.fields) THEN rule[f]
                        ELSE IF f \in IpFields THEN IpOf(line.fields[i], rule[f])
                        ELSE NumberOf(line.fields[i])]
        order == CellOrder(upto.cid_type)
    IN  [f \in RuleFields |->
            LET i == PlaceOf(f, order)
            IN  IF i \notin 1..Len(line.cell) THEN upto[f]
                ELSE IF f = "ci" THEN line.cell[i] ELSE line.cell[i] % Word]

\* A rule that was read takes the slot, and the next is empty.  The last one ends the reading.
RuleLine ==
    /\ NextLine("filter") /\ NineFields(Line)
    /\ rules' = Append(rules, Stored(slot, Line))
    /\ slot' = NoRule
    /\ place' = place + 1
    /\ result' = IF Stops(Len(rules) + 1, RuleMax) THEN "accepted" ELSE result
    /\ UNCHANGED <<reading, file, device, adv>>

\* A line with too few fields leaves in the slot what it has.
RuleLineRefused ==
    /\ NextLine("filter") /\ ~NineFields(Line)
    /\ slot' = Stored(slot, Line)
    /\ ReadOn
    /\ UNCHANGED <<device, adv, rules>>

FilterEnd ==
    /\ AtEnd("filter")
    /\ result' = "accepted"
    /\ UNCHANGED <<reading, file, place, device, adv, rules, slot>>

-----------------------------------------------------------------------------
ConfigInit ==
    /\ reading \in Readers
    /\ file \in Files[reading]
    /\ place = 0 /\ result = "reading"
    /\ device = NoDevice /\ adv = Defaults
    /\ rules = << >> /\ slot = NoRule

\* The file is not there.
CannotOpen ==
    /\ result = "reading" /\ place = 0
    /\ result' = "refused"
    /\ UNCHANGED <<reading, file, place, device, adv, rules, slot>>

ConfigNext ==
    \/ CannotOpen
    \/ NumberLine \/ ServerIpLine \/ PortsLine \/ PortsLineEmpty \/ DataPortsLine
    \/ IdsLine \/ DeviceIpsLine \/ DeviceIdsLine \/ DeviceLineIgnored \/ DeviceEnd
    \/ AdvLine \/ AdvEnd
    \/ RuleLine \/ RuleLineRefused \/ FilterEnd

ConfigSpec == ConfigInit /\ [][ConfigNext]_configVars

-----------------------------------------------------------------------------
(* Properties.                                                             *)

\* The lines of a key that have a value, and whether there is no line of it, or one only.
LinesOf(key) == {n \in 1..place : file[n].key = key /\ file[n].values # << >>}
None(key) == \A n \in 1..place : file[n].key # key
Once(key) == \E n \in 1..place : \A m \in 1..place : file[m].key = key <=> m = n
Values(key) == file[CHOOSE n \in 1..place : file[n].key = key].values

\* No array is written past its end, as long as no key that lists something comes twice: the
\* test for a full array is behind the write, so that a second line writes before it looks.
ArraysInBounds ==
    reading = "device" => \A key \in DOMAIN device.list :
        Once(key) => Len(device.list[key]) <= IF key \in Ports THEN PortMax ELSE DevMax

\* The arrays hold what is written to them ("配置中capture_interface数组大小", the size of the
\* array, and "最大数", the largest number, sb_defines.h), whatever the file.  The second line of
\* a key with a full array writes once more.
ArraysHold ==
    reading = "device" => \A key \in DOMAIN device.list :
        Len(device.list[key]) <= IF key \in Ports THEN PortMax ELSE DevMax

\* A number is that of the last line that gives one, else what it was at first.
LastWins(key, value, default) ==
    LET given == {n \in LinesOf(key) : key # "xdr_server_ip" \/ file[n].values[1] # NoIp}
    IN  value = IF given = {} THEN default
                ELSE NumberOf(file[CHOOSE n \in given : \A m \in given : m <= n].values[1])

\* The different ones of the first n values in their order, as far as there is room: what
\* comes before a value in the line comes before it in the list.
Different(list, values, n, max) ==
    /\ Len(list) <= max
    /\ \A k \in 1..Len(list) : \E i \in 1..n :
          /\ list[k] = values[i]
          /\ \A j \in 1..(i - 1) : \E l \in 1..(k - 1) : list[l] = values[j]
          /\ \A l \in 1..(k - 1) : list[l] # list[k]
    /\ Len(list) = max \/ \A i \in 1..n : \E k \in 1..Len(list) : list[k] = values[i]

\* The numbers of the first n values, as far as there is room.
Counted(list, values, n, max) ==
    /\ Len(list) = IF n < max THEN n ELSE max
    /\ \A i \in 1..Len(list) : list[i] = NumberOf(values[i])

\* What the one line of a key makes of its list.  The ports for data are a property of their own.
ListAsWritten(key, list, values) ==
    /\ key \in Ports => Different(list, values, Len(values), PortMax)
    /\ key \in Ids \cup {"dpi_devip"} => Counted(list, values, Len(values), DevMax)

\* Each DPI device has the identity at its place, if its line comes behind that of the addresses.
IdsAsWritten ==
    Once("dpi_devip") /\ Once("dpi_devid")
      /\ (\A m \in LinesOf("dpi_devid"), n \in LinesOf("dpi_devip") : n < m) =>
    \A i \in 1..Len(device.list["dpi_devip"]) : i <= Len(Values("dpi_devid")) =>
        device.dpi_devid[i] = NumberOf(Values("dpi_devid")[i])

\* What has been read of device.ini and adv.ini is what the lines say: the last number, the
\* different ports in their order, the devices and their identities.  It says nothing of the
\* ports for data.
AsWritten ==
    /\ reading = "device" =>
         /\ \A key \in DOMAIN device.number \ {"xdr_server_port"} :
               LastWins(key, device.number[key], 0)
         /\ \A key \in DOMAIN device.list : Once(key) =>
               ListAsWritten(key, device.list[key], Values(key))
         /\ IdsAsWritten
    /\ reading = "adv" => \A key \in DOMAIN Defaults : LastWins(key, adv[key], Defaults[key])

\* The names of the ports for data (dpi_interface_name and its like) are those the line lists.
\* The readers do not meet it: the key stands in the place of the first port.
DataPortsAsWritten ==
    reading = "device" => \A key \in DataPorts : Once(key) /\ Values(key) # << >> =>
        Different(device.list[key], Values(key), Len(Values(key)), DevMax)

\* The number of rules in the first n lines.
RulesIn(n) == Cardinality({m \in 1..n : NineFields(file[m])})

\* A rule is what a line says, 0 where that names no address; a cell has five, four or three
\* parts, by its type.
Says(rule, line) ==
    /\ \A i \in 1..Len(FieldOrder) : rule[FieldOrder[i]] = NumberOf(line.fields[i])
    /\ rule.cid_type < 3 /\ Len(line.cell) = 5 - rule.cid_type =>
         /\ rule.mcc = line.cell[1] % Word /\ rule.mnc = line.cell[2] % Word
         /\ rule.lac = IF rule.cid_type < 2 THEN line.cell[3] % Word ELSE 0
         /\ rule.rac = IF rule.cid_type = 0 THEN line.cell[4] % Word ELSE 0
         /\ rule.ci = Last(line.cell)

\* Each whole line makes a rule, in their order, and the rule holds what its line says.  Only
\* a line that was refused just before may show through.
RulesAsWritten ==
    reading = "filter" =>
        /\ Len(rules) = RulesIn(place) /\ Len(rules) <= RuleMax
        /\ \A n \in 1..place : NineFields(file[n]) /\ (n = 1 \/ NineFields(file[n - 1])) =>
              Says(rules[RulesIn(n)], file[n])

\* A rule is what its own line says of its fields (ps_filter.ini tells them in their order).
\* What a refused line has left in the slot is part of the next rule, where that one's
\* addresses cannot be read or its cell has fewer parts.
RulesOfTheirLine ==
    reading = "filter" => \A n \in 1..place : NineFields(file[n]) =>
        Says(rules[RulesIn(n)], file[n])
=============================================================================
