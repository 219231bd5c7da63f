------------------------------ MODULE MCUpload ------------------------------
(* Instances of Upload for TLC: short contents, and contents that come     *)
(* close to the final boundary of the boundary "b".                        *)
EXTENDS Upload

MCBoundary == <<"b">>
MCFinal == <<"cr", "lf", "-", "-", "b", "-", "-", "cr", "lf">>
Short == UNION {[1..n -> {"cr", "lf", "-", "b"}] : n \in 0..3}
Near == {SubSeq(MCFinal, 1, n) \o <<x>> : n \in 4..8, x \in {"cr", "b"}}
          \cup {<<x>> \o SubSeq(MCFinal, n, 9) : n \in 2..6, x \in {"cr", "b"}}
          \cup {SubSeq(MCFinal, 1, n) \o SubSeq(MCFinal, 1, m) :
                  n \in 5..8, m \in 1..8}
MCContents == {c \in Short \cup Near :
                 \A p \in 1..Len(c) : ~OccursAt(Body(c, <<>>), p)}
MCEpilogues == {<<>>, <<"cr", "lf">>}
=============================================================================
