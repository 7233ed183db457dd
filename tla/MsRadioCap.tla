----------------------------- MODULE MsRadioCap -----------------------------
(***************************************************************************)
(* The MS radio access capability: a string of bits in which a presence    *)
(* bit says whether a field follows, so that where a field lies depends on *)
(* everything before it.  sp_get_msc (sig_gb_bssgp.c:146-689) is a tree of *)
(* tests with every position written out, get_umts reads what comes last.  *)
(* Both are operators here, over bits numbered from 0 as the code numbers  *)
(* them: bit 8*i+j is mask 0x80 >> j of data[i].                           *)
(***************************************************************************)
EXTENDS Naturals, Sequences

Bit == {0, 1}

\* What an optional field is when it is absent; the code stores 0.
None == <<0, 0, 0, 0, 0>>

-----------------------------------------------------------------------------
(* The mobile's side: the string it sends for a capability.                *)

\* The optional fields of the string, in their order.
Optional == {"a5", "multislot", "hscsd", "gprs", "sms", "ecsd", "egprs",
             "dtm", "dtmEgprs", "psk8"}

\* A capability: the fields that are present, the two multislot classes
\* and the bits that name the other radio technologies.
Capability(classes, radios) ==
    [has : SUBSET Optional, gprs : classes, egprs : classes, umts : radios]

Zeros(n) == [i \in 1..n |-> 0]
Ones(n) == [i \in 1..n |-> 1]

Field(present, content) == IF present THEN <<1>> \o content ELSE <<0>>

\* The bits of a capability.  What no field of the code looks at is 1.
Encode(c) ==
    LET Has(f) == f \in c.has
        dtm == Ones(3) \o Field(Has("dtmEgprs"), Ones(2))
        slots == Field(Has("hscsd"), Ones(5))
                 \o Field(Has("gprs"), c.gprs \o Ones(1))
                 \o Field(Has("sms"), Ones(8))
                 \o Field(Has("ecsd"), Ones(5))
                 \o Field(Has("egprs"), c.egprs \o Ones(1))
                 \o Field(Has("dtm"), dtm)
    IN  Ones(14) \o Field(Has("a5"), Ones(7)) \o Ones(4)
        \o Field(Has("multislot"), slots)
        \o Field(Has("psk8"), Ones(2)) \o Ones(2) \o c.umts \o Zeros(24)

-----------------------------------------------------------------------------
(* The code's side.                                                        *)

At(b, i) == b[i + 1]
Five(b, i) == SubSeq(b, i + 1, i + 5)

\* The bit behind the field of n bits whose presence bit is i.
After(b, i, n) == IF At(b, i) = 1 THEN i + 1 + n ELSE i + 1

\* A mutant of the next definition: the presence bit is not tested.
ClassPresent(b, i) == Five(b, i + 1)

\* A class of five bits behind its presence bit.
Class(b, i) == IF At(b, i) = 1 THEN Five(b, i + 1) ELSE None

\* The four bits for UMTS FDD, UMTS TDD, CDMA 2000 and UMTS 1.28, behind DTM and 8PSK.
get_umts(b, i) ==
    LET psk8 == IF At(b, i) = 0 THEN i + 1
                ELSE IF At(b, i + 4) = 0 THEN i + 5 ELSE i + 7
        fdd == IF At(b, psk8) = 1 THEN psk8 + 5 ELSE psk8 + 3
    IN  SubSeq(b, fdd + 1, fdd + 4)

\* The tests from the SMS bit on, at i: SMS and SM values, ECSD, EGPRS.
FromSms(b, i) ==
    LET ecsd == After(b, i, 8)
        egprs == After(b, ecsd, 5)
    IN  [egprs |-> Class(b, egprs), umts |-> get_umts(b, After(b, egprs, 6))]

\* The same tests where neither HSCSD nor GPRS is present: what is tested for SMS is the GPRS
\* bit again, and is 0 once more, so that every later test is one bit early.  The class of
\* EGPRS is taken where it would be right with ECSD, and else right behind the tested bit
\* ("skew" 1), a byte further (9) in the half without A5 bits.
FromSmsNoGprs(b, gprs, skew) ==
    LET ecsd == gprs + 1
        egprs == After(b, ecsd, 5)
        class == IF At(b, ecsd) = 1 THEN egprs + 2 ELSE egprs + skew
    IN  [egprs |-> IF At(b, egprs) = 1 THEN Five(b, class) ELSE None,
         umts |-> get_umts(b, After(b, egprs, 6))]

\* HSCSD at i, then GPRS.
Slots(b, i, skew) ==
    LET gprs == After(b, i, 5)
        tail == IF At(b, i) = 0 /\ At(b, gprs) = 0
                THEN FromSmsNoGprs(b, gprs, skew)
                ELSE FromSms(b, After(b, gprs, 6))
    IN  [gprs |-> Class(b, gprs), egprs |-> tail.egprs, umts |-> tail.umts]

\* No multislot capability: no class, and get_umts expects DTM although it is a part of it.
NoSlots(b, i) == [gprs |-> None, egprs |-> None, umts |-> get_umts(b, i)]

\* The two halves of the tree, with the A5 bits and without them.
WithA5(b) == IF At(b, 26) = 1 THEN Slots(b, 27, 1) ELSE NoSlots(b, 27)
WithoutA5(b) == IF At(b, 19) = 1 THEN Slots(b, 20, 9) ELSE NoSlots(b, 20)

sp_get_msc(b) == IF At(b, 14) = 1 THEN WithA5(b) ELSE WithoutA5(b)

-----------------------------------------------------------------------------
\* Where the tree is right: HSCSD or GPRS is present in a multislot capability.
TreeRight(c) == "multislot" \in c.has /\ c.has \cap {"hscsd", "gprs"} # {}

\* The capability as it was sent, which is what the tree should return.
Sent(c) == LET Shown(f, class) == IF {"multislot", f} \subseteq c.has THEN class ELSE None
           IN  [gprs |-> Shown("gprs", c.gprs), egprs |-> Shown("egprs", c.egprs),
                umts |-> c.umts]
=============================================================================
