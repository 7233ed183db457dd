------------------------------- MODULE IpTable -------------------------------
(***************************************************************************)
(* The table of addresses by which the sig_parser tells the interface of a *)
(* packet: filled from nine files at start-up (in_read_ip and              *)
(* read_ips_config, read_config.c), searched for every packet              *)
(* (sp_get_l5_proto, sig_packet.c).  A chain is an array with a fill mark. *)
(***************************************************************************)
EXTENDS Naturals, FiniteSets, SequencesExt

CONSTANTS
    LinkNum,    \* MAX_PRO_IP_LINK_NUM, the chains
    NodeNum     \* MAX_PRO_IP_NODE_NUM, the nodes of a chain

ASSUME TableAssumption == LinkNum \in Nat \ {0} /\ NodeNum \in Nat

Interfaces == {"gb", "iups", "gn", "s1mme", "s1u", "s6a", "s10", "s11", "s5"}

\* The order in which the files are read.
FileOrder == <<"gb", "iups", "gn", "s1mme", "s1u", "s6a", "s10", "s11", "s5">>

\* A line that is neither blank nor a comment; "ok" if in_write_ip_int can read it.
Lines == [ok : BOOLEAN, ip : Nat]

Link(ip) == ip % LinkNum

EmptyTable == [link \in 0..(LinkNum - 1) |-> << >>]

\* A full chain takes no more; the address is left out without a word.
AddIp(table, ip, protocol) ==
    IF Len(table[Link(ip)]) >= NodeNum THEN table
    ELSE [table EXCEPT ![Link(ip)] = Append(@, [ip |-> ip, proto_id |-> protocol])]

\* What a line of the file does to the table.
Line(table, line, protocol) == IF line.ok THEN AddIp(table, line.ip, protocol) ELSE table

\* The table after all lines of a file, one after the other.
in_read_ip(table, file, protocol) ==
    LET after[n \in 0..Len(file)] ==
            IF n = 0 THEN table ELSE Line(after[n - 1], file[n], protocol)
    IN  after[Len(file)]

\* "files" gives the lines of each interface's file; one that cannot be opened has none.
read_ips_config(files) ==
    LET after[i \in 0..Len(FileOrder)] ==
            IF i = 0 THEN EmptyTable
            ELSE in_read_ip(after[i - 1], files[FileOrder[i]], FileOrder[i])
    IN  after[Len(FileOrder)]

\* Mutant of the next definition: the chain's first node only.
FindHead(table, ip) ==
    IF table[Link(ip)] # << >> /\ table[Link(ip)][1].ip = ip THEN 1 ELSE 0

\* The first node of the chain that holds the address, 0 if none does.
Find(table, ip) == SelectInSeq(table[Link(ip)], LAMBDA node : node.ip = ip)

\* The interface by address: the destination's, else the source's, else what the port says.
ByAddress(table, dst, src, default) ==
    LET Proto(ip) == table[Link(ip)][Find(table, ip)].proto_id
    IN  IF Find(table, dst) > 0 THEN Proto(dst)
        ELSE IF Find(table, src) > 0 THEN Proto(src)
        ELSE default

-----------------------------------------------------------------------------
(* What the table is for, without chains.                                  *)

\* The files that list an address, by their place in the order.
ListedIn(files, ip) ==
    {i \in 1..Len(FileOrder) : \E n \in 1..Len(files[FileOrder[i]]) :
        files[FileOrder[i]][n] = [ok |-> TRUE, ip |-> ip]}

\* The places of the lines: a file by its place in the order, and a line of it.
LinesOf(files) == UNION {{i} \X (1..Len(files[FileOrder[i]])) : i \in 1..Len(FileOrder)}
LineAt(files, at) == files[FileOrder[at[1]]][at[2]]

\* Those of a set of places whose lines go to a chain.
InLink(files, places, link) ==
    {at \in places : LineAt(files, at).ok /\ Link(LineAt(files, at).ip) = link}

\* Do all the lines fit, however they are spread over the chains?
AllFit(files) == \A link \in 0..(LinkNum - 1) :
    Cardinality(InLink(files, LinesOf(files), link)) <= NodeNum

\* The interface by the files: of the first that lists the destination, else the source.
ByFiles(files, dst, src, default) ==
    LET First(ip) == FileOrder[CHOOSE i \in ListedIn(files, ip) :
                                   \A j \in ListedIn(files, ip) : i <= j]
    IN  IF ListedIn(files, dst) # {} THEN First(dst)
        ELSE IF ListedIn(files, src) # {} THEN First(src)
        ELSE default
=============================================================================
