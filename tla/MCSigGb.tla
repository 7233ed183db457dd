------------------------------- MODULE MCSigGb -------------------------------
(***************************************************************************)
(* The packets of the run: every fault, every order of BSSGP heads, every  *)
(* message with each choice of its optional IEs in the order of the        *)
(* standard, the same short of one to three bytes, and every combination   *)
(* of fields of a radio capability.                                        *)
(***************************************************************************)
EXTENDS SigGb, SequencesExt

\* With bytes 0, 1 and 2 a wrong length ends the loop early, on time and late.
MCStrayBytes == {0, 3, 37}
MCWrap == 1024

MCCapabilities ==
    {c \in Capability({<<1, 0, 1, 1, 0>>}, {<<1, 0, 0, 1>>}) :
        /\ "multislot" \in c.has \/ c.has \cap {"hscsd", "gprs", "sms", "ecsd", "egprs", "dtm"} = {}
        /\ "dtm" \in c.has \/ "dtmEgprs" \notin c.has}

PlainCapability == CHOOSE c \in MCCapabilities : c.has = {"multislot", "gprs"}

PduOnly == << [type |-> "llc_pdu", long |-> TRUE] >>

\* Bytes from each IE to the end.
Left(opt) == FoldRight(LAMBDA e, rest : <<e.size + rest[1]>> \o rest, opt, <<0>>)

\* Bytes of the fixed parts, with identities, addresses and a capability of common lengths.
MCHead == [attach_request |-> 40, auth_response |-> 3, attach_accept |-> 11, attach_complete |-> 2,
           attach_reject |-> 3, detach_request |-> 3, detach_accept |-> 2, rau_request |-> 17,
           rau_accept |-> 10, rau_complete |-> 2, rau_reject |-> 4, pdp_request |-> 18,
           pdp_accept |-> 16, pdp_reject |-> 3, deact_request |-> 3, deact_accept |-> 2,
           unknown |-> 2]

Make(m, opt) ==
    [head |-> MCHead[m], size |-> MCHead[m] + Left(opt)[1],
     fault |-> "none", dir |-> "up", ies |-> PduOnly, sapi |-> "gmm", msg |-> m, who |-> "imsi",
     update |-> "ra", cap |-> PlainCapability, apn |-> "whole", opt |-> opt, left |-> Left(opt)]

Ie(iei, size, second) == [iei |-> iei, size |-> size, second |-> second]

\* Every choice among optional IEs, in order.
Selections(seq) == {SelectSeq(seq, LAMBDA e : e \in S) : S \in SUBSET Range(seq)}

OptionalIes(m) ==
    CASE m = "attach_accept" ->
            UNION {Selections(<<Ie(25, 4, 1), Ie(23, 2, 5), Ie(24, 7, 5), Ie(35, 7, 5), Ie(37, 2, c), Ie(42, 2, 3)>>)
                   : c \in {0, 5, 16}}
      [] m = "rau_accept" ->
            UNION {Selections(<<Ie(25, 4, 1), Ie(24, 7, 5), Ie(35, 7, 5), Ie(38, 4, n), Ie(23, 2, 5), Ie(37, 2, c)>>)
                   : c \in {0, 16}, n \in {2}}
      [] m = "rau_request" -> Selections(<<Ie(25, 4, 1), Ie(23, 2, 5), Ie(39, 3, 0), Ie(144, 1, 24),
                                        Ie(9, 1, 24), Ie(24, 7, 5), Ie(49, 4, 2)>>)
      [] m = "pdp_accept" -> Selections(<<Ie(43, 8, 6), Ie(39, 6, 4), Ie(52, 3, 1), Ie(57, 3, 1), Ie(60, 2, 0)>>)
      [] m = "auth_response" -> Selections(<<Ie(34, 5, 1), Ie(35, 11, 9), Ie(41, 3, 1)>>)
      [] m = "detach_request" -> Selections(<<Ie(37, 2, 7)>>)
      [] OTHER -> {<< >>}

ByMessage == UNION {{Make(m, opt) : opt \in OptionalIes(m)} : m \in Messages}

ByFault == {[Make(m, << >>) EXCEPT !.fault = f] : m \in Messages, f \in
               Faults \ {"identity_length", "qos_length"}}
           \cup {[Make("attach_request", << >>) EXCEPT !.fault = "identity_length"],
                 [Make("pdp_request", << >>) EXCEPT !.fault = "qos_length"]}

\* Messages that lack their last n bytes, but not the first of an IE; and addresses and
\* identities of other lengths.
CutBy(p, n) == [p EXCEPT !.size = p.size - n]
Reaches(p) == p.opt # << >> => p.size > p.head + p.left[1] - p.opt[Len(p.opt)].size

ByCut == {p \in {CutBy(q, n) : q \in {q \in ByMessage : q.size > 3}, n \in 1..3} : Reaches(p)}
         \cup {[Make(m, << >>) EXCEPT !.size = MinSize[m] - 1] : m \in Messages \ {"unknown", "auth_response"}}
         \cup {[Make("attach_request", << >>) EXCEPT !.size = 23],
               CutBy(Make("auth_response", << Ie(34, 5, 1), Ie(34, 5, 1), Ie(34, 5, 1) >>), 1)}
         \cup {[Make("rau_request", << >>) EXCEPT !.size = 12]}

ByLength == {Make("pdp_accept", << Ie(43, 4, 2) >>), Make("auth_response", << Ie(34, 5, 1), Ie(35, 6, 4) >>),
             Make("auth_response", << Ie(35, 12, 10) >>)}
            \cup {[Make("auth_response", << Ie(35, 11, 9) >>) EXCEPT !.who = w] : w \in {"imei", "tmsi", "other"}}

ByContent == {[Make(m, << >>) EXCEPT !.who = w] : m \in {"attach_request"}, w \in {"imsi", "imei", "tmsi", "other"}}
             \cup {[Make("rau_request", << >>) EXCEPT !.update = u] : u \in {"ra", "periodic", "other"}}
             \cup {[Make("pdp_request", << >>) EXCEPT !.apn = a] : a \in {"none", "cut", "whole"}}
             \cup {[Make("detach_accept", << >>) EXCEPT !.sapi = "sndcp"]}

\* BSSGP heads with up to two IEs before the LLC PDU, or without one.
ByHead == {[Make("detach_accept", << >>) EXCEPT !.dir = d, !.ies = h \o tail] :
              d \in {"up", "down"}, tail \in {PduOnly, << >>},
              h \in {s \in UNION {[1..n -> BssgpIes] : n \in 0..2} :
                        \A i \in 1..Len(s) : s[i].type # "llc_pdu"}}

ByCapability == {[Make(m, << >>) EXCEPT !.cap = c] : m \in {"attach_request", "rau_request"},
                                                     c \in MCCapabilities}

MCPackets == {p \in ByMessage \cup ByFault \cup ByCut \cup ByLength \cup ByContent \cup ByHead \cup ByCapability : TRUE}
=============================================================================
