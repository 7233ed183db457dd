----------------------------- MODULE DataParser -----------------------------
(***************************************************************************)
(* A data_parser: the loop that polls a queue of user information and a    *)
(* queue of Gb packets in turn, the table of users, and the reassembly of  *)
(* SNDCP segments.  The sig_parser puts users and packets; packets come    *)
(* from the network, so segments may be lost, doubled or out of order.     *)
(*                                                                         *)
(* An N-PDU is an IP packet that the sender has cut into segments.  The    *)
(* parser keeps one record per user for the segments of one N-PDU: their   *)
(* bytes, and what is missing from the length in the IP header.  When      *)
(* nothing is missing it hands the packet on, to the DPI interface and to  *)
(* parse_tup_head, which do not touch the state below.                     *)
(***************************************************************************)
EXTENDS Integers, Sequences

CONSTANTS
    Users,      \* user ids
    Packets,    \* N-PDUs of the users, what is left of them in segments
    MaxSegSize, \* MAX_SNDCP_SEG_SIZE
    QueueSize,  \* items in each of the two queues
    DpiSize,    \* items in the dp_user_info queue
    MaxPuts     \* bound: items put into the queues

NrSeg == 3      \* NR_SNDCP_SEG
NotIp == -1     \* get_sndcp_packet_size fails

(***************************************************************************)
(* A packet's lens are the lengths of its segments and its ip_len is their *)
(* sum (or it is no IPv4 packet).  Its kind is "confirmed" also when the   *)
(* heads of its segments are broken; of a "compressed" one only the first  *)
(* segment says so.  N-PDU numbers are those of one direction and NSAPI:   *)
(* two packets of a user may have the same.                                *)
(***************************************************************************)
ASSUME PacketsAssumption ==
    \A p \in Packets :
        /\ p.user \in Users /\ p.n_pdu \in Nat
        /\ p.kind \in {"plain", "compressed", "confirmed"}
        /\ p.lens \in Seq(Nat \ {0}) /\ p.lens # <<>>
        /\ p.ip_len \in Nat \cup {NotIp}
        /\ p.ip_len # NotIp =>
              /\ Len(p.lens) = 1 => p.ip_len = p.lens[1]
              /\ Len(p.lens) = 2 => p.ip_len = p.lens[1] + p.lens[2]
              /\ Len(p.lens) = 3 => p.ip_len = p.lens[1] + p.lens[2] + p.lens[3]
              /\ Len(p.lens) > 3 => p.ip_len > p.lens[1] + p.lens[2] + p.lens[3]

ASSUME SizesAssumption ==
    /\ MaxSegSize \in Nat /\ MaxPuts \in Nat
    /\ QueueSize \in Nat \ {0} /\ DpiSize \in Nat

VARIABLES
    pc,         \* which queue the loop polls next
    userQ,      \* sp_user queue
    packetQ,    \* sp_packet queue
    puts,       \* items put so far
    users,      \* dp_hash_user: what is known of a user
    dpi,        \* items in the dp_user_info queue
    sndcp,      \* sndcp_packet of each user's dp_packet
    handed,     \* the packet the last poll handed on, if it did
    run         \* history: segments with the N-PDU number of the record

queues == <<userQ, packetQ, puts>>
vars == <<pc, queues, users, dpi, sndcp, handed, run>>

Segments == UNION { {p} \X (1 .. Len(p.lens)) : p \in Packets }
SegmentsOf(p) == [i \in 1 .. Len(p.lens) |-> <<p, i>>]

User(s) == s[1].user
NPdu(s) == s[1].n_pdu
SegNo(s) == s[2] - 1
SegLen(s) == s[1].lens[s[2]]
IsFirst(s) == s[2] = 1
IsMore(s) == s[2] < Len(s[1].lens)
IsSegment(s) == SegNo(s) # 0 \/ IsMore(s)

Unused == <<>>  \* seg_len = 0
Nothing == [segs |-> <<>>]

Cleared ==
    [valid |-> FALSE, n_pdu |-> 0, remain |-> 0,
     frag |-> [k \in 0 .. NrSeg - 1 |-> Unused]]

Known(u) == users[u] = "known"

TypeOK ==
    /\ pc \in {"user", "packet"}
    /\ userQ \in Seq(Users) /\ Len(userQ) <= QueueSize
    /\ packetQ \in Seq([seg : Segments, inTime : BOOLEAN]) /\ Len(packetQ) <= QueueSize
    /\ puts \in 0 .. MaxPuts
    /\ users \in [Users -> {"absent", "empty", "known"}]
    /\ dpi \in 0 .. DpiSize
    /\ sndcp \in [Users -> [valid : BOOLEAN, n_pdu : Nat, remain : Int,
                            frag : [0 .. NrSeg - 1 -> Segments \cup {Unused}]]]
    /\ run \in [Users -> [segs : SUBSET Segments, clean : BOOLEAN]]
    /\ handed = Nothing \/
       handed \in [segs : Seq(Segments), known : BOOLEAN, inTime : BOOLEAN, clean : BOOLEAN]

Init ==
    /\ pc = "user"
    /\ userQ = <<>> /\ packetQ = <<>> /\ puts = 0
    /\ users = [u \in Users |-> "absent"]
    /\ dpi = 0
    /\ sndcp = [u \in Users |-> Cleared]
    /\ handed = Nothing
    /\ run = [u \in Users |-> [segs |-> {}, clean |-> TRUE]]

-----------------------------------------------------------------------------
(* The sig_parser.                                                         *)

\* Does the loop take the user's information before the k-th packet ?
WillKnow(u, k) ==
    \/ Known(u)
    \/ \E j \in 1 .. Len(userQ) :
          userQ[j] = u /\ (IF pc = "user" THEN j <= k ELSE j < k)

\* add_to_ui_queue with room in the queue.
PutUser(u) ==
    /\ puts < MaxPuts /\ Len(userQ) < QueueSize
    /\ userQ' = Append(userQ, u)
    /\ puts' = puts + 1
    /\ UNCHANGED <<pc, packetQ, users, dpi, sndcp, handed, run>>

\* add_to_pack_queue with room in the queue, for any segment, any time.
PutPacket(s) ==
    /\ puts < MaxPuts /\ Len(packetQ) < QueueSize
    /\ packetQ' = Append(packetQ,
          [seg |-> s, inTime |-> WillKnow(User(s), Len(packetQ) + 1)])
    /\ puts' = puts + 1
    /\ UNCHANGED <<pc, userQ, users, dpi, sndcp, handed, run>>

-----------------------------------------------------------------------------
(* process_user_queue.                                                     *)

\* is_queue_full of the dp_user_info queues.
DpiHasRoom == dpi < DpiSize

\* Mutant: the poll returns when the DPI queues are full.
UserQAfterFull == IF DpiHasRoom THEN Tail(userQ) ELSE userQ

\* Full or not, the item leaves the sp_user queue.
UserQAfter == Tail(userQ)

PollUser ==
    /\ pc = "user" /\ userQ # <<>>
    /\ users' = [users EXCEPT ![Head(userQ)] = "known"]
    /\ dpi' = IF DpiHasRoom THEN dpi + 1 ELSE dpi
    /\ userQ' = UserQAfter
    /\ pc' = "packet"
    /\ handed' = Nothing
    /\ UNCHANGED <<packetQ, puts, sndcp, run>>

PollNoUser ==
    /\ pc = "user" /\ userQ = <<>>
    /\ pc' = "packet"
    /\ handed' = Nothing
    /\ UNCHANGED <<queues, users, dpi, sndcp, run>>

-----------------------------------------------------------------------------
(* process_packet_queue and parse_gb_packet.                               *)

\* Mutant: of the old N-PDU only the number is replaced.
BeginKeeping(r, s) == [r EXCEPT !.valid = TRUE, !.n_pdu = NPdu(s)]

\* The record when a segment comes: cleared when another N-PDU was under way.
Begin(r, s) ==
    IF r.valid /\ r.n_pdu # NPdu(s)
    THEN [Cleared EXCEPT !.valid = TRUE, !.n_pdu = NPdu(s)]
    ELSE [r EXCEPT !.valid = TRUE, !.n_pdu = NPdu(s)]

\* Mutant: the length is set when the first segment comes, not added.
RemainSet(r, s) ==
    (IF IsFirst(s) THEN s[1].ip_len ELSE r.remain) - SegLen(s)

\* The first segment brings the length, each one takes its own from it.
Remain(r, s) ==
    r.remain + (IF IsFirst(s) THEN s[1].ip_len ELSE 0) - SegLen(s)

Stored(r, s) ==
    [r EXCEPT !.remain = Remain(r, s), !.frag[SegNo(s)] = s]

\* The segments of a record from the first on, up to one that is not used.
Gathered(frag) ==
    CASE frag[0] = Unused -> <<>>
      [] frag[0] # Unused /\ frag[1] = Unused -> <<frag[0]>>
      [] frag[0] # Unused /\ frag[1] # Unused /\ frag[2] = Unused ->
            <<frag[0], frag[1]>>
      [] OTHER -> <<frag[0], frag[1], frag[2]>>

\* history: what came with the N-PDU number at hand; it is clean while it
\* all belongs to one packet and nothing came twice.
RunWith(f, s) ==
    IF \E t \in f.segs : NPdu(t) = NPdu(s)
    THEN [segs |-> f.segs \cup {s},
          clean |-> f.clean /\ s \notin f.segs /\ \A t \in f.segs : t[1] = s[1]]
    ELSE [segs |-> {s}, clean |-> TRUE]

NoRun == [segs |-> {}, clean |-> TRUE]

\* What every poll of a packet does: its buffer is dropped, head moves.
Take ==
    /\ pc = "packet" /\ packetQ # <<>>
    /\ packetQ' = Tail(packetQ)
    /\ pc' = "user"
    /\ UNCHANGED <<userQ, puts, dpi>>

\* get_hash_dp_user creates the user, without information.
HandOn(s, segs, clean) ==
    /\ users' = [users EXCEPT ![User(s)] = IF @ = "absent" THEN "empty" ELSE @]
    /\ handed' = [segs |-> segs, known |-> Known(User(s)),
                  inTime |-> Head(packetQ).inTime, clean |-> clean]

HandsOnNothing == handed' = Nothing /\ users' = users

Clear(u) ==
    /\ sndcp' = [sndcp EXCEPT ![u] = Cleared]
    /\ run' = [run EXCEPT ![u] = NoRun]

PollNoPacket ==
    /\ pc = "packet" /\ packetQ = <<>>
    /\ pc' = "user"
    /\ HandsOnNothing
    /\ UNCHANGED <<queues, dpi, sndcp, run>>

\* The head is broken or the packet a confirmed one, or it is a compressed
\* one and the segment its first: the head of a later segment does not tell
\* (is_compressed = 0), which is stored as if it were not compressed.
Refused(s) ==
    \/ s[1].kind = "confirmed"
    \/ s[1].kind = "compressed" /\ IsFirst(s)

Refuse(s) ==
    /\ Refused(s)
    /\ HandsOnNothing
    /\ UNCHANGED <<sndcp, run>>

\* Neither a seg_no nor more to come: no reassembly.
Unsegmented(s) ==
    /\ ~Refused(s) /\ ~IsSegment(s)
    /\ HandOn(s, <<s>>, TRUE)
    /\ UNCHANGED <<sndcp, run>>

TooBig(s) == SegNo(s) >= NrSeg \/ SegLen(s) > MaxSegSize

\* The first segment has no IPv4 header.
HasNoSize(s) == IsFirst(s) /\ s[1].ip_len = NotIp

GiveUp(s) ==
    /\ ~Refused(s) /\ IsSegment(s)
    /\ TooBig(s) \/ HasNoSize(s)
    /\ Clear(User(s))
    /\ HandsOnNothing

Reassemble(s) ==
    /\ ~Refused(s) /\ IsSegment(s)
    /\ ~TooBig(s) /\ ~HasNoSize(s)
    /\ LET u == User(s)
           r == Stored(Begin(sndcp[u], s), s)
           f == RunWith(run[u], s)
       IN  IF r.remain = 0
           THEN /\ Clear(u)
                /\ HandOn(s, Gathered(r.frag), f.clean)
           ELSE /\ sndcp' = [sndcp EXCEPT ![u] = r]
                /\ run' = [run EXCEPT ![u] = f]
                /\ HandsOnNothing

Parse(s) == Refuse(s) \/ Unsegmented(s) \/ GiveUp(s) \/ Reassemble(s)

PollPacket == Take /\ Parse(Head(packetQ).seg)

Loop == PollUser \/ PollNoUser \/ PollPacket \/ PollNoPacket

Next ==
    \/ \E u \in Users : PutUser(u)
    \/ \E s \in Segments : PutPacket(s)
    \/ Loop

Spec == Init /\ [][Next]_vars

\* The loop of process_queues has a core of its own; nothing obliges the
\* sig_parser to put.
FairSpec == Spec /\ WF_vars(Loop)

-----------------------------------------------------------------------------
(* Properties.                                                             *)

\* A packet made of segments is one N-PDU, whole and in order, whatever got
\* lost or came late, unless one of its segments came twice or it got one of
\* another N-PDU with the same number, a compressed one's later segment
\* included (parse_gb_packet).
Whole ==
    handed # Nothing /\ handed.clean => handed.segs = SegmentsOf(handed.segs[1][1])

\* No N-PDU is held back: when its segments have all come, in any order but
\* with none of another number in between (there is one record per user),
\* the packet has been made (parse_gb_packet).
NoneHeldBack ==
    \A u \in Users : \A s \in run[u].segs :
        run[u].clean => run[u].segs # {s[1]} \X (1 .. Len(s[1].lens))

\* "if remain_size == 0, all sndcp segments are reassembled" (dp_sndcp_packet):
\* what is handed on is an N-PDU, whatever came.  The code does not achieve
\* it: a segment that comes twice, or one of another N-PDU with the same
\* number, is taken from the length like a new one.
AllReassembled ==
    handed # Nothing => \E p \in Packets : handed.segs = SegmentsOf(p)

\* "put before process_packet_queue we need user info" (process_queues): what
\* the order of the polls achieves.  A packet finds its user when at the
\* time it was put no more users than packets were in front.
UserInTime == handed # Nothing /\ handed.inTime => handed.known

\* A user's information reaches the table, also when the DPI queue is full.
InfoArrives ==
    \A u \in Users : (\E j \in 1 .. Len(userQ) : userQ[j] = u) ~> Known(u)
=============================================================================
