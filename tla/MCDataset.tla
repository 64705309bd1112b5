----------------------------- MODULE MCDataset -----------------------------
(* Small datasets for TLC: names with and without a blank, up to three deep. *)
EXTENDS Dataset, TLC

MCMembers == {<<"t.csv">>, <<"a b.csv">>, <<"a_b.csv">>, <<"notes">>, <<"input">>,
              <<"d", "t.csv">>, <<"d", "a b.csv">>, <<"e", "u.csv">>,
              <<"d", "f", "t.csv">>, <<"input", "t.csv">>, <<"input", "d">>, <<"input", "t.csv", "notes">>}

MCDataNames == {"t.csv", "u.csv", "a b.csv", "a_b.csv"}

MCSafe == [n \in {"t.csv", "u.csv", "a_b.csv", "notes", "input", "d", "e", "f",
                 "dataset"} |-> n]
          @@ "a b.csv" :> "a_b.csv"
=============================================================================
