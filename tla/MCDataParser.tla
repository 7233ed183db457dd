---------------------------- MODULE MCDataParser ----------------------------
(* Packets of user a: three segments; two with the same number (the other  *)
(* direction's); four with the next one, which are too many; compressed    *)
(* ones with each of the two numbers, whose first segments are refused and *)
(* whose second ones are stored; of user b: a whole one, one whose header  *)
(* is no IPv4 header, and a confirmed one.                                 *)
EXTENDS DataParser

CONSTANTS a, b

Pkt(u, n, lens, ip_len, kind) ==
    [user |-> u, n_pdu |-> n, lens |-> lens, ip_len |-> ip_len, kind |-> kind]

MCUsers == {a, b}

MCPackets ==
    { Pkt(a, 0, <<2, 1, 1>>, 4, "plain"),
      Pkt(a, 0, <<1, 2>>, 3, "plain"),
      Pkt(a, 1, <<1, 1, 1, 1>>, 4, "plain"),
      Pkt(a, 0, <<2, 2>>, NotIp, "compressed"),
      Pkt(a, 1, <<1, 1>>, NotIp, "compressed"),
      Pkt(b, 0, <<1>>, 1, "plain"),
      Pkt(b, 0, <<1, 1>>, NotIp, "plain"),
      Pkt(b, 1, <<1>>, 1, "confirmed") }

\* One packet is enough to hand on what is not an N-PDU.
DoubledPackets == { Pkt(a, 0, <<2, 1, 1>>, 4, "plain") }
=============================================================================
