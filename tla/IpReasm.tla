------------------------------- MODULE IpReasm -------------------------------
(***************************************************************************)
(* Reassembly of IP fragments by the data_parser (parse_tup_head, dp_tup.c *)
(* 28-266): one record for each user, dp_ip_packet_t.  Fragments of a      *)
(* user's datagrams arrive in any order, are lost or come twice; one call  *)
(* of parse_tup_head is an action.  A datagram that is complete goes on to *)
(* layer 4, where get_tcp_session and get_udp_session refuse it, because   *)
(* they refuse an empty list and nothing else fills it: what is behind     *)
(* them (valid = 0 among it) is never reached.                             *)
(***************************************************************************)
EXTENDS Naturals, FiniteSets, Sequences, Functions

CONSTANTS
    Datagrams,      \* the datagrams of a user
    MaxSize,        \* MAX_REAS_L4_SIZE, in the unit of the offsets
    MaxArrivals,    \* bound on the packets that arrive
    Nothing         \* no datagram

Bytes == 0..255

\* The identification as its two bytes in the order of the header; "sizes" are those of its
\* fragments, a single one for a datagram that is whole, "offsets" those in their headers,
\* and where the datagram ends; "no" tells equal ones apart.
Datagram == [no : Nat, id : Bytes \X Bytes, sizes : Seq(Nat \ {0}), offsets : Seq(Nat)]

ASSUME DatagramAssumption ==
    /\ Datagrams \subseteq Datagram /\ Nothing \notin Datagrams
    /\ \A d \in Datagrams :
          /\ d.sizes # << >> /\ Len(d.offsets) = Len(d.sizes) + 1
          /\ d.offsets[1] = 0
          /\ \A i \in 1..Len(d.sizes) : d.offsets[i + 1] = d.offsets[i] + d.sizes[i]
    /\ MaxSize \in Nat /\ MaxArrivals \in Nat

Fragments == UNION {{d} \X (1..Len(d.sizes)) : d \in Datagrams}

Of(f) == f[1]
FragmentsOf(d) == {d} \X (1..Len(d.sizes))

Total(d) == d.offsets[Len(d.sizes) + 1]

Offset(f) == Of(f).offsets[f[2]]
l4_size(f) == Of(f).sizes[f[2]]
MoreFragments(f) == f[2] < Len(Of(f).sizes)
ip_id(f) == Of(f).id

VARIABLES
    ip_packet,  \* valid, id, nr, reas_len and len of the record
    data,       \* per unit of the record's buffer: the datagram whose bytes are there
    out,        \* what the last packet handed to layer 4
    arrived,    \* per fragment: how often it arrived
    run,        \* fragments of one datagram, with no other datagram's between them
    handed      \* the datagrams that were handed to layer 4

vars == <<ip_packet, data, out, arrived, run, handed>>

\* check_malloc clears the record.
Init ==
    /\ ip_packet = [valid |-> 0, id |-> <<0, 0>>, nr |-> 0, reas_len |-> 0, len |-> 0]
    /\ data = [i \in 0..(MaxSize - 1) |-> Nothing]
    /\ out = Nothing
    /\ arrived = [f \in Fragments |-> 0]
    /\ run = [of |-> Nothing, fragments |-> {}, first |-> FALSE]
    /\ handed = {}

-----------------------------------------------------------------------------
(* parse_tup_head.                                                         *)

\* ntohs on the little-endian TILE-Gx.
ntohs(id) == <<id[2], id[1]>>

Restarted(id) == [valid |-> 1, id |-> id, nr |-> 0, reas_len |-> 0, len |-> 0]

\* Mutant: an unfinished datagram is not given up when another one comes.
StartedKeeping(f) == IF ip_packet.valid = 0 THEN Restarted(ntohs(ip_id(f)))
                     ELSE [ip_packet EXCEPT !.id = ip_id(f)]

\* The record when the fragment is looked at: started by the first one, with its
\* identification in host order, and again by each whose identification differs.
Started(f) ==
    IF ip_packet.valid = 0 THEN Restarted(ntohs(ip_id(f)))
    ELSE IF ip_id(f) # ip_packet.id THEN Restarted(ip_id(f))
    ELSE ip_packet

\* Mutant: the length is that of the last fragment alone.
LengthOfLast(r, f) == IF MoreFragments(f) THEN r.len ELSE l4_size(f)

\* The last fragment tells the length.
Length(r, f) == IF MoreFragments(f) THEN r.len ELSE Offset(f) + l4_size(f)

Counted(f) ==
    LET r == Started(f)
    IN  [r EXCEPT !.len = Length(r, f), !.reas_len = @ + l4_size(f), !.nr = @ + 1]

BytesOf(f) == Offset(f) .. (Offset(f) + l4_size(f) - 1)

\* memcpy does not ask where the buffer ends: only the test before it does.
Copied(f) == [i \in DOMAIN data \cup BytesOf(f) |-> IF i \in BytesOf(f) THEN Of(f) ELSE data[i]]

IsFragment(f) == MoreFragments(f) \/ Offset(f) > 0
Fits(f) == Offset(f) + l4_size(f) <= MaxSize

Arrivals == FoldFunction(LAMBDA a, b : a + b, 0, arrived)

\* What is kept for the properties.
Arrive(f) ==
    /\ Arrivals < MaxArrivals
    /\ arrived[f] < 2
    /\ arrived' = [arrived EXCEPT ![f] = @ + 1]

FollowRun(f) ==
    run' = IF Of(f) = run.of THEN [run EXCEPT !.fragments = @ \cup {f}]
           ELSE [of |-> Of(f), fragments |-> {f}, first |-> ip_packet.valid = 0]

\* No IPv4, or a length that the packet does not have.
Broken(f) ==
    /\ out # Nothing
    /\ out' = Nothing
    /\ UNCHANGED <<ip_packet, data, arrived, run, handed>>

HandOn(f, contents, length, nr) ==
    /\ out' = [of |-> Of(f), data |-> contents, len |-> length, nr |-> nr]
    /\ handed' = handed \cup {Of(f)}

\* Not fragmented: it goes on as it is, and the record is left alone.
NotFragmented(f) ==
    /\ ~IsFragment(f)
    /\ Arrive(f)
    /\ HandOn(f, [i \in 0..(l4_size(f) - 1) |-> Of(f)], l4_size(f), 1)
    /\ UNCHANGED <<ip_packet, data, run>>

\* The buffer ends before the fragment does: the record is given up.
TooBig(f) ==
    /\ IsFragment(f) /\ ~Fits(f)
    /\ Arrive(f) /\ FollowRun(f)
    /\ ip_packet' = [Counted(f) EXCEPT !.valid = 0, !.nr = Started(f).nr]
    /\ out' = Nothing
    /\ UNCHANGED <<data, handed>>

\* Counted and copied; handed on when the bytes counted are as many as the datagram has.
Reassemble(f) ==
    /\ IsFragment(f) /\ Fits(f)
    /\ Arrive(f) /\ FollowRun(f)
    /\ LET r == Counted(f)
       IN  /\ ip_packet' = r
           /\ data' = Copied(f)
           /\ IF r.len = r.reas_len THEN HandOn(f, Copied(f), r.len, r.nr)
              ELSE out' = Nothing /\ UNCHANGED handed

parse_tup_head(f) == Broken(f) \/ NotFragmented(f) \/ TooBig(f) \/ Reassemble(f)

Next == \E f \in Fragments : parse_tup_head(f)

Spec == Init /\ [][Next]_vars

-----------------------------------------------------------------------------
(* Properties.                                                             *)

\* Every variable has its type; no byte of "data" is behind the buffer, where one copied
\* without parse_tup_head's test of the size would be.
TypeOK ==
    /\ ip_packet \in [valid : 0..1, id : Bytes \X Bytes, nr : Nat, reas_len : Nat, len : Nat]
    /\ data \in [0..(MaxSize - 1) -> Datagrams \cup {Nothing}]
    /\ out = Nothing \/ (out.of \in Datagrams /\ out.len \in Nat /\ out.nr \in Nat)
    /\ arrived \in [Fragments -> 0..2]
    /\ run \in [of : Datagrams \cup {Nothing}, fragments : SUBSET Fragments, first : BOOLEAN]
    /\ handed \subseteq Datagrams

\* None of the datagram's fragments came twice.
Once(d) == \A f \in FragmentsOf(d) : arrived[f] <= 1

\* No other datagram of the user has its identification, in either order of the bytes: not
\* even one of another host or of the other direction, which share the record.
Unique(d) == \A e \in Datagrams \ {d} : e.id \notin {d.id, ntohs(d.id)}

\* What is handed on is a whole datagram, counted in its fragments (parse_tup_head counts
\* bytes and does not look which), unless fragments come twice or identifications clash.
WholeDatagram ==
    out # Nothing /\ Once(out.of) /\ Unique(out.of) =>
        /\ out.len = Total(out.of)
        /\ \A i \in 0..(out.len - 1) : out.data[i] = out.of
        /\ out.nr = Len(out.of.sizes)

\* A datagram is handed on when its fragments come one after the other, in any order, each
\* once: but not a user's first, nor the next after one too big, because its identification
\* is kept in host order and compared in network order (dp_tup.c:91, 96), unless both orders
\* are the same.
DatagramComesOut ==
    LET d == run.of
    IN  /\ d # Nothing /\ run.fragments = FragmentsOf(d)
        /\ Once(d) /\ Unique(d) /\ Total(d) <= MaxSize
        /\ run.first => d.id = ntohs(d.id)
        => d \in handed

\* "new ip fragment but old ones NOT reassembled" (parse_tup_head): the record starts again
\* when a fragment of another datagram comes.  It also does with the second one of the
\* datagram it is at, when that one's first set it to the other order of the bytes.
RestartMeansNew ==
    [][\A f \in Fragments :
          Reassemble(f) /\ arrived[f] = 0 /\ arrived'[f] = 1 /\ ip_packet.valid = 1 /\ Of(f) = run.of
            => ip_packet'.nr = ip_packet.nr + 1]_vars

\* "ip packet reassembled" (parse_tup_head): what is handed on is a whole datagram, at least
\* where no identifications clash.  A fragment that comes twice stands for one that is missing.
Reassembled ==
    out # Nothing /\ Unique(out.of) =>
        out.len = Total(out.of) /\ \A i \in 0..(out.len - 1) : out.data[i] = out.of
=============================================================================
