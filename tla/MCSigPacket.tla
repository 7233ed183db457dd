----------------------------- MODULE MCSigPacket -----------------------------
(* A packet for every way through the layers, and files whose lines collide. *)
EXTENDS SigPacket

Plain == [idesc |-> "ok", l2 |-> "ip", l3 |-> "ok", frag |-> "none", chain |-> 1, id |-> 0,
          l4 |-> "udp", port |-> "gb", dst |-> 0, src |-> 0, tag |-> "none", gb |-> FALSE]

MCPackets == {
    [Plain EXCEPT !.idesc = "error"],
    [Plain EXCEPT !.l2 = "other"],
    [Plain EXCEPT !.l3 = "bad"],
    [Plain EXCEPT !.gb = TRUE, !.tag = "s1u"],
    [Plain EXCEPT !.port = "gtpu", !.dst = 3, !.src = 2, !.tag = "s11"],
    [Plain EXCEPT !.port = "gtpc", !.dst = 5, !.src = 1],
    [Plain EXCEPT !.frag = "more", !.id = 1, !.gb = TRUE],
    [Plain EXCEPT !.frag = "last", !.id = 1, !.l4 = "sctp"],
    [Plain EXCEPT !.frag = "last", !.id = 2, !.port = "gtpu", !.dst = 1]}

Files(lists) == [name \in Interfaces |->
    IF name \in DOMAIN lists
    THEN [n \in 1..Len(lists[name]) |-> [ok |-> lists[name][n] # 0, ip |-> lists[name][n]]]
    ELSE << >>]

\* 3 is listed twice, 1 and 3 are in one chain, 2 is behind a line that cannot be read.
MixedFiles == Files([gn |-> <<1>>, s11 |-> <<3>>, s10 |-> <<0, 2>>, s5 |-> <<3>>])
\* 5 finds its chain full.
FullFiles == Files([gb |-> <<1, 7>>, s1u |-> <<3, 2>>, s5 |-> <<5>>])

MCConfigs == {[lb |-> FALSE, files |-> MixedFiles], [lb |-> TRUE, files |-> FullFiles]}
=============
