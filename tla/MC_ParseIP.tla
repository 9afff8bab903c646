----------------------------- MODULE MC_ParseIP -----------------------------
(* Every name of up to four characters over '0', '1', '2', '9', '.' and  *)
(* 'x', and longer names that reach the four-part, hex, octal, range and *)
(* 32-bit truncation cases.                                               *)
EXTENDS ParseIP

Code == [c \in {"0","1","2","3","4","5","6","7","8","9",".","x"} |->
           CASE c = "." -> Dot [] c = "x" -> X
             [] OTHER -> 48 + CHOOSE d \in 0..9 :
                          c = <<"0","1","2","3","4","5","6","7","8","9">>[d + 1]]

C(t) == [k \in DOMAIN t |-> Code[t[k]]]

Alphabet == {48, 49, 50, 57, Dot, X}

MCNames ==
  UNION {[1..n -> Alphabet] : n \in 0..4}
  \cup {C(t) : t \in {<<"1",".","2",".","3",".","4">>,
                      <<"2","0","0",".","1",".","2",".","3">>,
                      <<"1",".","2",".","3",".","4",".","5">>,
                      <<"0","x","1","0",".","0","1","7",".","9">>,
                      <<"2","5","6",".","1">>,
                      <<"4","2","9","4","9","6","7","2","9","6">>,
                      <<"4","2","9","4","9","6","7","2","9","6",".","1">>,
                      <<"1","9","2",".","1","6","8",".","1",".","1">>}}
=============================================================================
