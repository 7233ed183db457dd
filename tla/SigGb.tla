-------------------------------- MODULE SigGb --------------------------------
(***************************************************************************)
(* The decoding of one Gb packet after another into the global g_gb_info:  *)
(* NS, BSSGP, LLC and the sixteen GMM and SM messages (sig_gb.c,           *)
(* sig_gb_bssgp.c, sig_gb_llc.c, sig_gb_gmm.c).  BSSGP and the messages    *)
(* end in a list of information elements (IEs); a step of the walk over    *)
(* such a list is an action.  What an IE holds is "sent" in every field it *)
(* is stored in, "unset" is the zero of the memset, and "stray" is what    *)
(* lies behind the IE or the message; the radio capability is a string of  *)
(* bits and is decoded by MsRadioCap.                                      *)
(***************************************************************************)
EXTENDS Naturals, Sequences, MsRadioCap

CONSTANTS
    Packets,    \* the packets that may arrive
    NoPacket,   \* there is none at hand
    StrayBytes, \* what the byte behind a message may be
    Wrap        \* the modulus of the unsigned length, 2^32 in the code

\* IE identifiers the handlers of sig_gb_gmm.c test for.
TMSI_STATUS == 9
READY_TIMER == 23
P_TMSI == 24
SIGNATURE == 25
AUTH_RESPONSE == 34
IDENTITY == 35          \* MS identity, IMEISV
GMM_CAUSE == 37
N_PDU_LIST == 38
DRX_OR_OPTIONS == 39    \* DRX parameter, protocol configuration options
PDP_ADDRESS == 43
FLOW_ID == 52
SM_CAUSE == 57

Messages == {"attach_request", "auth_response", "attach_accept", "attach_complete",
             "attach_reject", "detach_request", "detach_accept", "rau_request",
             "rau_accept", "rau_complete", "rau_reject", "pdp_request", "pdp_accept",
             "pdp_reject", "deact_request", "deact_accept", "unknown"}

\* What may be wrong with a packet, in the order in which the layers would notice.
Faults == {"none", "ns_short", "ns_type", "bssgp_short", "pdu_type", "cut", "llc_short",
           "llc_pd", "llc_format", "discriminator", "identity_length", "qos_length"}

\* A BSSGP IE: its type and whether it is long enough for what is read of it.
BssgpIes == [type : {"cell", "msrac", "imsi", "tlli", "llc_pdu", "other"}, long : BOOLEAN]

\* An optional IE of a message: identifier, bytes, and its second byte.
GmmIes == [iei : 0..255, size : Nat \ {0}, second : 0..255]

\* "size" is the number of bytes of the message.  "head", the bytes of its fixed part, the IEs
\* behind that part and their sizes are as the length bytes in memory tell, which the code does
\* not compare with "size" everywhere: a message may be shorter than they say.  "left[i]" is
\* the number of bytes from the i-th optional IE to the end of the last.
Packet == [fault : Faults, dir : {"down", "up"}, ies : Seq(BssgpIes), sapi : {"gmm", "sndcp"},
           msg : Messages, who : {"imsi", "imei", "tmsi", "other"}, update : {"ra", "periodic", "other"},
           cap : Capability([1..5 -> Bit], [1..4 -> Bit]), apn : {"none", "cut", "whole"},
           head : Nat, opt : Seq(GmmIes), left : Seq(Nat), size : Nat]

\* Sizes that the standard fixes, and the code with it.
FixedSizes == {<<TMSI_STATUS, 1>>, <<READY_TIMER, 2>>, <<FLOW_ID, 3>>, <<SIGNATURE, 4>>,
               <<AUTH_RESPONSE, 5>>, <<P_TMSI, 7>>, <<GMM_CAUSE, 2>>, <<SM_CAUSE, 3>>}

\* Fixed parts without a length byte.
FixedHeads == {<<"auth_response", 3>>, <<"attach_accept", 11>>, <<"detach_request", 3>>,
               <<"rau_accept", 10>>}

\* Does the message have all the bytes its length bytes tell?
Whole(p) == p.size = p.head + p.left[1]

\* The least number of bytes each handler asks for.
MinSize == [attach_request |-> 23, auth_response |-> 14, attach_accept |-> 8,
            attach_complete |-> 1, attach_reject |-> 3, detach_request |-> 3,
            detach_accept |-> 1, rau_request |-> 12, rau_accept |-> 7, rau_complete |-> 1,
            rau_reject |-> 4, pdp_request |-> 18, pdp_accept |-> 15, pdp_reject |-> 3,
            deact_request |-> 3, deact_accept |-> 1]

ASSUME PacketsAssumption ==
    /\ Packets \subseteq Packet /\ NoPacket \notin Packets
    /\ Wrap \in Nat /\ Wrap > 0
    /\ StrayBytes \subseteq 0..255 /\ StrayBytes # {}
    /\ \A p \in Packets :
          /\ Len(p.left) = Len(p.opt) + 1
          /\ p.left[Len(p.opt) + 1] = 0
          /\ \A i \in 1..Len(p.opt) : p.left[i] = p.opt[i].size + p.left[i + 1]
          /\ \A i \in 1..Len(p.left) : p.head + p.left[i] < Wrap
          /\ \A h \in FixedHeads : p.msg = h[1] => p.head = h[2]
          /\ p.size <= p.head + p.left[1]
          /\ p.opt # << >> => p.size > p.head + p.left[1] - p.opt[Len(p.opt)].size
          /\ \A i \in 1..Len(p.opt) :
                /\ \A s \in FixedSizes : p.opt[i].iei = s[1] => p.opt[i].size = s[2]
                /\ p.msg = "rau_request" /\ p.opt[i].iei = DRX_OR_OPTIONS => p.opt[i].size = 3

Values == {"unset", "sent", "stray"}

\* The fields of g_gb_info that are copied from the packet.
Fields == {"cell", "imsiB", "oldTlli", "tmsi", "imsi", "imei", "ra", "nsapi", "ip",
           "apn", "qosR", "qosN", "gmmCause", "smCause"}

VARIABLES
    pkt,    \* the packet at hand
    layer,  \* where its decoding stands
    at,     \* the IE that is looked at next
    len,    \* bytes left, as the code counts them
    value,  \* g_gb_info: the fields that are copied
    cdr,    \* g_gb_info: cdr_type, cdr_result
    msc,    \* g_gb_info: the radio capability, of its parts bssgp and gmm
    stray,  \* has the walk left the message
    ret     \* what sp_process_gb returns

vars == <<pkt, layer, at, len, value, cdr, msc, stray, ret>>

Layers == {"idle", "ns", "bssgp", "bssgp_ies", "llc", "gmm", "message", "gmm_ies", "done"}
Types == {"none", "attach", "detach", "rau", "periodic", "activate", "deactivate"}
Results == {"incomplete", "success", "failure"}

Cleared == [f \in Fields |-> "unset"]
NoCdr == [type |-> "none", result |-> "incomplete"]
NoMsc == [part \in {"bssgp", "gmm"} |-> [gprs |-> None, egprs |-> None, umts |-> <<0, 0, 0, 0>>]]

Init ==
    /\ pkt = NoPacket
    /\ layer = "idle"
    /\ at = 1 /\ len = 0 /\ stray = FALSE
    /\ value = Cleared /\ cdr = NoCdr /\ msc = NoMsc
    /\ ret = "fail"

-----------------------------------------------------------------------------
(* The ends of a decoding, and the parts the handlers are made of.         *)

Return(r) == /\ layer' = "done"
             /\ ret' = r
             /\ UNCHANGED <<pkt, at, len, stray>>

Fail == Return("fail") /\ UNCHANGED <<value, cdr, msc>>

Goto(l) == layer' = l /\ UNCHANGED <<pkt, at, len, value, cdr, msc, stray, ret>>

StoreAs(fields, v) == value' = [f \in Fields |-> IF f \in fields THEN v ELSE value[f]]
Store(fields) == StoreAs(fields, "sent")
Keep == UNCHANGED value

Report(t, r) == cdr' = [type |-> t, result |-> r]
Result(r) == cdr' = [cdr EXCEPT !.result = r]

\* The field a mobile identity goes to.
IdentityField == CASE pkt.who = "imsi" -> {"imsi"}
                   [] pkt.who = "imei" -> {"imei"}
                   [] pkt.who = "tmsi" -> {"tmsi"}
                   [] OTHER -> {}

-----------------------------------------------------------------------------
(* sp_process_gb down to the message.                                      *)

\* Mutant: the record of the packet before is not cleared.
ClearedNot == value

\* memset of g_gb_info.
ClearInfo == Cleared

\* The next packet; g_gb_info is cleared for it.
Receive(p) ==
    /\ layer = "idle"
    /\ pkt' = p
    /\ layer' = "ns"
    /\ at' = 1 /\ len' = 0 /\ stray' = FALSE
    /\ value' = ClearInfo /\ cdr' = NoCdr /\ msc' = NoMsc
    /\ ret' = "fail"

\* Only NS-UNITDATA goes on.
ParseNs ==
    /\ layer = "ns"
    /\ IF pkt.fault \in {"ns_short", "ns_type"} THEN Fail ELSE Goto("bssgp")

\* The minimum length differs by direction; both then skip eight bytes to the IEs.
BssgpHead ==
    /\ layer = "bssgp"
    /\ IF pkt.fault \in {"bssgp_short", "pdu_type"} THEN Fail ELSE Goto("bssgp_ies")

\* get_iei finds no further IE, or one that is longer than the packet.
NoFurtherIe == at > Len(pkt.ies) \/ (pkt.fault = "cut" /\ at = Len(pkt.ies))

\* The list ends without an LLC PDU.
BssgpNoPdu == layer = "bssgp_ies" /\ NoFurtherIe /\ Fail

\* Fields set by a BSSGP IE: the cell uplink, the capability downlink, the others both ways.
BssgpStores(ie) ==
    CASE ie.type = "cell" /\ ie.long /\ pkt.dir = "up" -> {"cell"}
      [] ie.type = "imsi" /\ ie.long -> {"imsiB"}
      [] ie.type = "tlli" -> {"oldTlli"}
      [] OTHER -> {}

\* Mutant: the walk looks at the same IE again.
NextIeSame(i) == i

NextIe(i) == i + 1

BssgpIe ==
    /\ layer = "bssgp_ies" /\ ~NoFurtherIe
    /\ LET ie == pkt.ies[at] IN
          /\ ie.type # "llc_pdu"
          /\ Store(BssgpStores(ie))
          /\ msc' = IF ie.type = "msrac" /\ ie.long /\ pkt.dir = "down"
                    THEN [msc EXCEPT !["bssgp"] = sp_get_msc(Encode(pkt.cap))] ELSE msc
    /\ at' = NextIe(at)
    /\ UNCHANGED <<pkt, layer, len, cdr, stray, ret>>

\* The LLC PDU ends the list, whatever follows it.
BssgpPdu ==
    /\ layer = "bssgp_ies" /\ ~NoFurtherIe
    /\ pkt.ies[at].type = "llc_pdu"
    /\ Goto("llc")

\* Head and FCS are taken off; user data ends here, signalling goes on.
LlcHead ==
    /\ layer = "llc"
    /\ IF pkt.fault \in {"llc_short", "llc_pd", "llc_format"} THEN Fail
       ELSE IF pkt.sapi = "gmm" THEN Goto("gmm")
       ELSE Return("succ") /\ UNCHANGED <<value, cdr, msc>>

-----------------------------------------------------------------------------
(* sp_get_gmm_head and the messages without a list of IEs.                 *)

\* gmm_cause is 0 and sm_cause 0x48 until a handler stores another.
ClearCauses == [value EXCEPT !["gmmCause"] = "unset", !["smCause"] = "unset"]

\* Too short for a header, or neither mobility nor session management; else the dispatch.
GmmHead ==
    /\ layer = "gmm"
    /\ IF pkt.size < 2 \/ pkt.fault = "discriminator" THEN Fail
       ELSE /\ layer' = "message"
            /\ value' = ClearCauses
            /\ UNCHANGED <<pkt, at, len, cdr, msc, stray, ret>>

UnknownMessage == layer = "message" /\ pkt.msg = "unknown" /\ Fail

\* Every handler asks for a minimum length before it stores anything.
MessageTooShort ==
    layer = "message" /\ pkt.msg # "unknown" /\ pkt.size < MinSize[pkt.msg] /\ Fail

\* The handler of m is called, and its length test has passed.
Called(m) == layer = "message" /\ pkt.msg = m /\ ~(pkt.size < MinSize[m])

\* A handler that stores these fields and returns.
Stores(fields) == Return("succ") /\ Store(fields) /\ UNCHANGED msc

\* What is left behind the fixed part by the unsigned count, and whether that part is there.
LeftOf(p) == (p.size + Wrap - p.head) % Wrap
Beheaded(p) == p.size < p.head

\* Go on with the optional IEs, whose bytes are what is left.
Walk ==
    /\ layer' = "gmm_ies" /\ at' = 1 /\ len' = LeftOf(pkt)
    /\ stray' = Beheaded(pkt)
    /\ UNCHANGED <<pkt, ret>>

\* An accept's routing area is the end of its fixed part.
WalkBehindArea == StoreAs({"ra"}, IF Beheaded(pkt) THEN "stray" ELSE "sent") /\ Walk

DecodeCapability == msc' = [msc EXCEPT !["gmm"] = sp_get_msc(Encode(pkt.cap))]

\* Nothing behind the 23 bytes is tested: identity, routing area and capability, in this order,
\* may lie behind the message from one of them on.
sp_parse_attach_request ==
    /\ Called("attach_request")
    /\ Report("attach", "incomplete")
    /\ IF pkt.fault = "identity_length"
       THEN Return("fail") /\ Keep /\ UNCHANGED msc
       ELSE /\ Return("succ") /\ DecodeCapability
            /\ \E S \in {{}} \cup (IF Beheaded(pkt) THEN {{"ra"}, IdentityField \cup {"ra"}} ELSE {}) :
                  value' = [f \in Fields |-> CASE f \in S -> "stray"
                                              [] f \in (IdentityField \cup {"ra"}) \ S -> "sent"
                                              [] OTHER -> value[f]]

sp_parse_attach_complete ==
    Called("attach_complete") /\ Report("attach", "success") /\ Stores({})

sp_parse_attach_reject ==
    Called("attach_reject") /\ Report("attach", "failure") /\ Stores({"gmmCause"})

\* The cause is looked for at one place only: of a detach by the network.
sp_parse_detach_request ==
    /\ Called("detach_request")
    /\ Report("detach", "incomplete")
    /\ Stores(IF pkt.size >= 5 /\ pkt.opt # << >> /\ pkt.opt[1].iei = GMM_CAUSE
              THEN {"gmmCause"} ELSE {})

sp_parse_detach_accept ==
    Called("detach_accept") /\ Report("detach", "success") /\ Stores({})

\* The type tells a periodic update; a combined one is refused.  The length of the capability is
\* taken as it is.
sp_parse_rau_request ==
    /\ Called("rau_request")
    /\ IF pkt.update = "other"
       THEN Fail
       ELSE /\ Report(IF pkt.update = "ra" THEN "rau" ELSE "periodic", "incomplete")
            /\ Store({"ra"}) /\ Walk /\ DecodeCapability

sp_parse_rau_complete ==
    Called("rau_complete") /\ Report("rau", "success") /\ Stores({})

sp_parse_rau_reject ==
    Called("rau_reject") /\ Report("rau", "failure") /\ Stores({"gmmCause"})

\* QoS, PDP address and the access point name, which comes last, are measured against what is
\* left; the lengths inside the name are not followed.
sp_parse_pdp_request ==
    /\ Called("pdp_request")
    /\ Report("activate", "incomplete")
    /\ UNCHANGED msc
    /\ IF pkt.fault = "qos_length" \/ pkt.apn = "cut"
       THEN Return("fail") /\ Store({"nsapi"} \cup (IF pkt.apn = "cut" THEN {"qosR"} ELSE {}))
       ELSE Return("succ") /\ Store({"nsapi", "qosR"} \cup
                                    (IF pkt.apn = "whole" THEN {"apn"} ELSE {}))

sp_parse_pdp_reject ==
    Called("pdp_reject") /\ Report("activate", "failure") /\ Stores({"smCause"})

sp_parse_deact_request ==
    Called("deact_request") /\ Report("deactivate", "incomplete") /\ Stores({"smCause"})

sp_parse_deact_accept ==
    Called("deact_accept") /\ Report("deactivate", "success") /\ Stores({})

-----------------------------------------------------------------------------
(* The messages with a list of IEs.  A loop ends when no byte is left, at  *)
(* an IE it does not know, and at the one it looks for last.               *)

KnownIes == [
    auth_response |-> {AUTH_RESPONSE, IDENTITY},
    attach_accept |-> {SIGNATURE, READY_TIMER, P_TMSI, IDENTITY, GMM_CAUSE},
    rau_request |-> {SIGNATURE, READY_TIMER, DRX_OR_OPTIONS, TMSI_STATUS, P_TMSI},
    rau_accept |-> {SIGNATURE, P_TMSI, IDENTITY, N_PDU_LIST, READY_TIMER, GMM_CAUSE},
    pdp_accept |-> {PDP_ADDRESS, DRX_OR_OPTIONS, FLOW_ID, SM_CAUSE}]

Accepts == {"attach_accept", "rau_accept"}

\* The IEs of an accept that the mobile answers by a complete.
Allocates == {P_TMSI, N_PDU_LIST}

\* The standard's order of IEs: only such as the loops know, and not the cause, come before
\* one that asks for a complete; no address comes behind the cause of a PDP context accept.
ASSUME OrderAssumption == \A p \in Packets :
    \A i \in 1..Len(p.opt), j \in 1..Len(p.opt) : j <= i =>
        /\ p.msg \in Accepts /\ p.opt[i].iei \in Allocates
               => p.opt[j].iei \in KnownIes[p.msg] \ {GMM_CAUSE}
        /\ p.msg = "pdp_accept" /\ p.opt[i].iei = PDP_ADDRESS => p.opt[j].iei # SM_CAUSE

Known(iei) == at <= Len(pkt.opt) /\ pkt.opt[at].iei = iei
Walking(m) == layer = "gmm_ies" /\ pkt.msg = m /\ len # 0

\* Does the i-th IE reach behind the message?
CutIe(i) == i = Len(pkt.opt) /\ ~Whole(pkt)

\* Mutant: the length is not unsigned.
MoveBySigned(n, taken) ==
    /\ at' = at + 1 /\ len' = len - taken
    /\ stray' = (stray \/ n # pkt.opt[at].size \/ CutIe(at))
    /\ UNCHANGED <<pkt, layer, ret>>

\* data += n, len -= taken.  "n" is the size the handler gives the IE.
MoveBy(n, taken) ==
    /\ at' = at + 1
    /\ len' = (len + Wrap - (taken % Wrap)) % Wrap
    /\ stray' = (stray \/ n # pkt.opt[at].size \/ CutIe(at))
    /\ UNCHANGED <<pkt, layer, ret>>

\* Mutant: a byte too far.
SkipOneMore(n) == MoveBy(n + 1, n + 1) /\ UNCHANGED <<value, cdr, msc>>

Skip(n) == MoveBy(n, n) /\ UNCHANGED <<value, cdr, msc>>

\* The second byte of an IE, or what lies behind the message.
SecondByte(i) == IF i <= Len(pkt.opt) THEN {pkt.opt[i].second} ELSE StrayBytes

\* What the length byte says is taken from len after data has moved on: it is read from the
\* IE that follows.
TakenByList == {2 + b : b \in SecondByte(at + 1)}

\* An IE with a length byte, in the two accept messages.
SkipList == \E n \in TakenByList :
    MoveBy(pkt.opt[at].size, n) /\ UNCHANGED <<value, msc>>

\* The loop has seen the last byte, or an IE it does not know.
Ended(m) ==
    /\ layer = "gmm_ies" /\ pkt.msg = m /\ len = 0
    /\ Return("succ") /\ UNCHANGED <<value, cdr, msc>>

Unknown(m) ==
    /\ Walking(m) /\ at <= Len(pkt.opt) /\ pkt.opt[at].iei \notin KnownIes[m]
    /\ Return("succ") /\ UNCHANGED <<value, cdr, msc>>

\* Bytes are left by the count although the message is over: the loop takes what lies there
\* for IEs.  What it may store, one of the sets of fields, is stored at once, and it is assumed
\* to end.  Of the accepts an address or a list found there makes the result incomplete.
Stray(m, stored) ==
    /\ Walking(m) /\ at > Len(pkt.opt)
    /\ \E S \in stored :
          /\ StoreAs(S, "stray")
          /\ \/ cdr' = cdr /\ ("tmsi" \in S => m \notin Accepts)
             \/ m \in Accepts /\ ("tmsi" \in S \/ m = "rau_accept") /\ Result("incomplete")
          /\ ret' = "succ" \/ (m = "auth_response" /\ S = {} /\ ret' = "fail")
    /\ stray' = TRUE
    /\ layer' = "done"
    /\ UNCHANGED <<pkt, at, len, msc>>

\* The bytes of the i-th IE that are in the message, and those its value is read from: of an
\* address or a TMSI its place is fixed, whatever length the IE gives itself.
Present(i) ==
    pkt.opt[i].size - (IF i = Len(pkt.opt) THEN pkt.head + pkt.left[1] - pkt.size ELSE 0)

Reach(ie) ==
    CASE ie.iei = PDP_ADDRESS -> 8
      [] ie.iei = IDENTITY /\ pkt.who = "tmsi" -> 7
      [] OTHER -> ie.size

StoreIe(fields) ==
    StoreAs(fields, IF Present(at) < Reach(pkt.opt[at]) THEN "stray" ELSE "sent")

\* An IE that is stored, with the loop going on or ending there.
StoreAndSkip(fields, n) == StoreIe(fields) /\ MoveBy(n, n) /\ UNCHANGED msc
StoreAndEnd(fields) == Return("succ") /\ StoreIe(fields) /\ UNCHANGED <<cdr, msc>>

sp_parse_auth_response ==
    \/ /\ Called("auth_response")
       /\ Report("attach", "incomplete") /\ Keep /\ Walk /\ UNCHANGED msc
    \/ Walking("auth_response") /\ Known(AUTH_RESPONSE) /\ Skip(5)
    \/ /\ Walking("auth_response") /\ Known(IDENTITY)
       /\ IF pkt.opt[at].size \in 7..11 THEN StoreAndEnd(IdentityField) ELSE Fail
    \/ Unknown("auth_response")
    \/ Ended("auth_response")
    \/ Stray("auth_response", {{}, {"imsi"}, {"imei"}, {"tmsi"}})

\* Mutant: the accept counts as the end although a P-TMSI is allocated.
StoreTmsiSuccess == StoreAndSkip({"tmsi"}, 7) /\ UNCHANGED cdr

\* An accept that allocates a P-TMSI is answered by a complete, and incomplete till then.
StoreTmsi == StoreIe({"tmsi"}) /\ Result("incomplete") /\ MoveBy(7, 7) /\ UNCHANGED msc

sp_parse_attach_accept ==
    \/ /\ Called("attach_accept")
       /\ Report("attach", "success") /\ WalkBehindArea /\ UNCHANGED msc
    \/ /\ Walking("attach_accept")
       /\ \/ Known(SIGNATURE) /\ Skip(4)
          \/ Known(READY_TIMER) /\ Skip(2)
          \/ Known(P_TMSI) /\ StoreTmsi
          \/ Known(IDENTITY) /\ SkipList /\ UNCHANGED cdr
          \/ Known(GMM_CAUSE) /\ StoreAndEnd({"gmmCause"})
    \/ Unknown("attach_accept")
    \/ Ended("attach_accept")
    \/ Stray("attach_accept", SUBSET {"tmsi", "gmmCause"})

\* The loop behind the fixed part of a routing area update request.
RauRequestIes ==
    \/ /\ Walking("rau_request")
       /\ \/ Known(SIGNATURE) /\ Skip(4)
          \/ Known(READY_TIMER) /\ Skip(2)
          \/ Known(DRX_OR_OPTIONS) /\ Skip(3)
          \/ Known(TMSI_STATUS) /\ Skip(1)
          \/ Known(P_TMSI) /\ StoreAndEnd({"tmsi"})
    \/ Unknown("rau_request")
    \/ Ended("rau_request")
    \/ Stray("rau_request", {{}, {"tmsi"}})

\* A list of N-PDU numbers asks for a complete as well.
sp_parse_rau_accept ==
    \/ /\ Called("rau_accept")
       /\ Report("rau", "success") /\ WalkBehindArea /\ UNCHANGED msc
    \/ /\ Walking("rau_accept")
       /\ \/ Known(SIGNATURE) /\ Skip(4)
          \/ Known(P_TMSI) /\ StoreTmsi
          \/ Known(IDENTITY) /\ SkipList /\ UNCHANGED cdr
          \/ Known(N_PDU_LIST) /\ SkipList /\ Result("incomplete")
          \/ Known(READY_TIMER) /\ Skip(2)
          \/ Known(GMM_CAUSE) /\ StoreAndEnd({"gmmCause"})
    \/ Unknown("rau_accept")
    \/ Ended("rau_accept")
    \/ Stray("rau_accept", SUBSET {"tmsi", "gmmCause"})

\* QoS first, measured against what is left, but for the radio priority behind it, which len is
\* then reduced by as well; a single byte is not looked at.  The length bytes of the IEs are
\* read before data moves, and not compared with len.
sp_parse_pdp_accept ==
    \/ /\ Called("pdp_accept")
       /\ Report("activate", "success") /\ UNCHANGED msc
       /\ \/ pkt.size + 1 < pkt.head /\ Return("fail") /\ Keep
          \/ /\ ~(pkt.size + 1 < pkt.head) /\ Store({"qosN"})
             /\ IF LeftOf(pkt) <= 1 THEN Return("succ") ELSE Walk
    \/ /\ Walking("pdp_accept")
       /\ \/ Known(PDP_ADDRESS) /\ StoreAndSkip({"ip"}, pkt.opt[at].size) /\ UNCHANGED cdr
          \/ Known(DRX_OR_OPTIONS) /\ Skip(pkt.opt[at].size)
          \/ Known(FLOW_ID) /\ Skip(3)
          \/ Known(SM_CAUSE) /\ StoreAndEnd({"smCause"})
    \/ Unknown("pdp_accept")
    \/ Ended("pdp_accept")
    \/ Stray("pdp_accept", SUBSET {"ip", "smCause"})

-----------------------------------------------------------------------------
\* The records g_xdr and g_ui, or g_pack, are put into their queues; nothing was copied into
\* them from g_gb_info.
Finish ==
    /\ layer = "done"
    /\ layer' = "idle" /\ pkt' = NoPacket
    /\ at' = 1 /\ len' = 0 /\ stray' = FALSE
    /\ UNCHANGED <<value, cdr, msc, ret>>

HeadStep == ParseNs \/ BssgpHead \/ BssgpNoPdu \/ BssgpIe \/ BssgpPdu \/ LlcHead
            \/ GmmHead \/ UnknownMessage \/ MessageTooShort

MessageStep ==
    \/ sp_parse_attach_request \/ sp_parse_attach_accept \/ sp_parse_attach_complete
    \/ sp_parse_attach_reject \/ sp_parse_auth_response
    \/ sp_parse_detach_request \/ sp_parse_detach_accept
    \/ sp_parse_rau_request \/ RauRequestIes \/ sp_parse_rau_accept
    \/ sp_parse_rau_complete \/ sp_parse_rau_reject
    \/ sp_parse_pdp_request \/ sp_parse_pdp_accept \/ sp_parse_pdp_reject
    \/ sp_parse_deact_request \/ sp_parse_deact_accept

sp_process_gb == HeadStep \/ MessageStep \/ Finish

Next == (\E p \in Packets : Receive(p)) \/ sp_process_gb

\* The process keeps running inside sp_process_gb; packets may stop coming.
Spec == Init /\ [][Next]_vars /\ WF_vars(sp_process_gb)

-----------------------------------------------------------------------------
(* Properties.                                                             *)

\* Every variable has its type.
TypeOK ==
    /\ pkt = NoPacket \/ pkt \in Packet
    /\ layer \in Layers
    /\ (layer = "idle") <=> (pkt = NoPacket)
    /\ at \in Nat \ {0}
    /\ len \in 0..(Wrap - 1)
    /\ value \in [Fields -> Values]
    /\ cdr \in [type : Types, result : Results]
    /\ stray \in BOOLEAN
    /\ ret \in {"succ", "fail"}

\* Does an accept hold one of these IEs?
Holds(p, ieis) == \E i \in 1..Len(p.opt) : p.opt[i].iei \in ieis
Lists(p) == p.msg \in Accepts /\ Holds(p, {IDENTITY, N_PDU_LIST})

\* The loops over IEs stay inside a message that has all the bytes its length bytes tell, FCS
\* left out (sig_gb_llc.c:77), except behind an MS identity or a list of N-PDU numbers of an
\* accept, whose length is taken from the wrong byte (sig_gb_gmm.c:468-469, 744-745, 751-752).
\* A shorter message is not noticed where the handler asks for fewer bytes than its fixed part
\* takes (lines 412-440, 695-722), takes a length byte as it is (634-635, 972-984), reduces len
\* by one more than it has tested (962-967), or takes off the size of an IE that is cut.
InMessage == stray => Lists(pkt) \/ ~Whole(pkt)

Decoded == layer = "done" /\ ret = "succ" /\ pkt.sapi = "gmm"

\* What the network waits for decides whether a procedure is over: not a request, nor an
\* accept that is answered by a complete.
Over(p) ==
    \/ p.msg \in {"attach_complete", "attach_reject", "rau_complete", "rau_reject", "detach_accept",
                  "pdp_accept", "pdp_reject", "deact_accept"}
    \/ p.msg \in Accepts /\ ~Holds(p, Allocates)

\* A message is reported as incomplete exactly when its procedure goes on, so that success is
\* not reported early or twice.  With an MS identity, and in an accept that is cut, the count is
\* lost before that is known.
ResultTells ==
    Decoded /\ ~(pkt.msg \in Accepts /\ (Holds(pkt, {IDENTITY}) \/ ~Whole(pkt)))
        => (cdr.result = "incomplete" <=> ~Over(pkt))

\* The fields of each message that lie at a fixed place.
FixedFields(p) ==
    CASE p.msg \in {"attach_reject", "rau_reject"} -> {"gmmCause"}
      [] p.msg \in {"pdp_reject", "deact_request"} -> {"smCause"}
      [] p.msg = "attach_request" -> {"ra", p.who} \ {"other"}
      [] p.msg \in Accepts \cup {"rau_request"} -> {"ra"}
      [] p.msg = "pdp_request" -> {"nsapi", "qosR"} \cup (IF p.apn = "whole" THEN {"apn"} ELSE {})
      [] p.msg = "pdp_accept" -> {"qosN"}
      [] OTHER -> {}

\* An IE is found when the handler knows all before it.
Found(p, iei) == \E i \in 1..Len(p.opt) :
    p.opt[i].iei = iei /\ \A j \in 1..(i - 1) : p.opt[j].iei \in KnownIes[p.msg]

OptionalFields(p) ==
    LET From(iei, f) == IF Found(p, iei) THEN {f} ELSE {}
    IN  CASE p.msg \in Accepts -> From(P_TMSI, "tmsi") \cup From(GMM_CAUSE, "gmmCause")
          [] p.msg = "rau_request" -> From(P_TMSI, "tmsi")
          [] p.msg = "pdp_accept" -> From(PDP_ADDRESS, "ip") \cup From(SM_CAUSE, "smCause")
          [] p.msg = "auth_response" -> From(IDENTITY, p.who) \ {"other"}
          [] p.msg = "detach_request" ->
                IF p.opt # << >> /\ p.opt[1].iei = GMM_CAUSE THEN {"gmmCause"} ELSE {}
          [] OTHER -> {}

\* Is there such an IE before the LLC PDU, long enough where its length is tested?
InHead(p, type) == \E i \in 1..Len(p.ies) :
    /\ p.ies[i].type = type /\ (type # "tlli" => p.ies[i].long)
    /\ \A j \in 1..i : p.ies[j].type # "llc_pdu"

\* The fields of the BSSGP head.
HeadFields(p) == {f \in {"cell", "imsiB", "oldTlli"} :
    \/ f = "cell" /\ p.dir = "up" /\ InHead(p, "cell")
    \/ f = "imsiB" /\ InHead(p, "imsi")
    \/ f = "oldTlli" /\ InHead(p, "tlli")}

\* A whole message, with addresses of the length that is read whatever theirs is.
Consistent(p) ==
    /\ Whole(p)
    /\ p.msg = "pdp_accept" =>
          \A i \in 1..Len(p.opt) : p.opt[i].iei = PDP_ADDRESS => p.opt[i].size >= 8

\* What a decoded message that is consistent leaves in g_gb_info is what it carries: nothing of
\* the message before, nothing lost, nothing from behind its end.
DecodedAsSent ==
    Decoded /\ ~Lists(pkt) /\ Consistent(pkt)
        => \A f \in Fields : value[f] =
               (IF f \in HeadFields(pkt) \cup FixedFields(pkt) \cup OptionalFields(pkt)
                THEN "sent" ELSE "unset")

\* The capability of a whole attach or routing area update request, and that of a downlink BSSGP
\* head, is decoded as the mobile sent it, in every combination of fields in which the tree of
\* tests is right.
CapabilityDecoded ==
    LET Right(part) == /\ TreeRight(pkt.cap) => msc[part] = Sent(pkt.cap)
                       /\ msc[part].gprs = Sent(pkt.cap).gprs
    IN  /\ Decoded /\ Whole(pkt) /\ pkt.msg \in {"attach_request", "rau_request"} => Right("gmm")
        /\ Decoded /\ pkt.dir = "down" /\ InHead(pkt, "msrac") => Right("bssgp")

\* Every decoding comes to its end.
DecodingEnds == (layer # "idle") ~> (layer = "idle")
=============================================================================
