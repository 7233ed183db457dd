------------------------------- MODULE MCConfig -------------------------------
(* Files of up to four lines out of a handful, behind the lines a file needs  *)
(* to be accepted; arrays of two and three elements.                          *)
EXTENDS Config

CONSTANTS gbe1, gbe2, gbe3, gbe4, gbe5, gbe6

MCNames == {gbe1, gbe2, gbe3, gbe4, gbe5, gbe6}

\* All sequences of up to n members of S.
UpTo(S, n) == UNION {[1..k -> S] : k \in 0..n}

L(key, values) == [key |-> key, values |-> values]

Needed == <<L("cap_interface", <<gbe1>>), L("xdr_server_ip", <<5>>), L("xdr_server_port", <<9>>)>>

PortLines == {
    L("cap_interface", <<gbe1, gbe1, gbe2, gbe3>>), L("cap_interface", <<gbe3>>),
    L("gb_interface", <<gbe2>>), L("gb_interface", << >>),
    L("xdr_server_ip", <<NoIp>>), L("xdr_server_ip", <<7>>), L("xdr_server_port", <<16>>),
    L("lb_exist", <<1>>), L("lb_exist", << >>), L("ps_ql_flag", <<1>>)}

DeviceLines == {
    L("dpi_flag", <<1>>), L("dpi_flag", <<NoIp>>),
    L("dpi_devip", <<11, 12>>), L("dpi_devip", <<NoIp, 12, 13, 14>>),
    L("dpi_devid", <<1, 2>>), L("dpi_devid", <<3>>),
    L("dpi_data_interface", <<gbe4, gbe5, gbe5, gbe6>>), L("dpi_data_interface", << >>),
    L("ql_flag", <<1>>), L("ql_devid", <<1, NoIp, 2, 3>>)}

AdvLines == {
    L("sig_parser_cpus", <<0>>), L("sig_parser_cpus", <<6>>), L("data_parser_cpus", <<-3>>),
    L("data_parser_cpus", <<2>>), L("xdr_sender_cpus", << >>), L("dataplane_cpu_start", <<2>>),
    L("xdr_timeout", <<20>>), L("log_levels", <<1>>)}

R(fields, cell) == [fields |-> fields, cell |-> cell]

RuleLines == {
    R(<<1, 10, 0, 0, 0, NoIp, NoIp, 0>>, <<0>>),
    R(<<8, NoIp, 3, 4, 5, 6, 7, 0>>, <<460, 0, 17, 1, 99>>),
    R(<<9, NoIp, 0, 0, 0, NoIp, NoIp, 1>>, <<460, 0, 18, 98>>),
    R(<<10, NoIp, 0, 0, 0, NoIp, 11, 2>>, <<460, 0, 97>>),
    R(<<11, NoIp, 0, 0, 0, NoIp, NoIp, 3>>, <<460, 0, 96>>),
    R(<<12, 10, 3>>, << >>),
    R(<<13, NoIp, 3, 4, 5, 6, 7, 1>>, << >>)}

MCFiles == [device |-> UpTo(PortLines, 3) \cup {Needed \o s : s \in UpTo(DeviceLines, 4)},
            adv |-> UpTo(AdvLines, 4), filter |-> UpTo(RuleLines, 4)]
=============================================================================
