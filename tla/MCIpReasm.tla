------------------------------ MODULE MCIpReasm ------------------------------
(* Datagrams in one to three fragments: one whose identification reads the *)
(* same both ways, two that clash, one that is too big.                    *)
EXTENDS IpReasm

D(no, id, sizes, offsets) == [no |-> no, id |-> id, sizes |-> sizes, offsets |-> offsets]

MCDatagrams == {
    D(1, <<7, 7>>, <<1, 2>>, <<0, 1, 3>>),
    D(2, <<0, 3>>, <<1, 1, 1>>, <<0, 1, 2, 3>>),
    D(3, <<0, 9>>, <<2, 1>>, <<0, 2, 3>>),
    D(4, <<9, 0>>, <<1, 1>>, <<0, 1, 2>>),
    D(5, <<0, 5>>, <<2, 2>>, <<0, 2, 4>>),
    D(6, <<0, 6>>, <<3>>, <<0, 3>>)}
=============================================================================
