------------------------------- MODULE MCLayout -------------------------------
(* Columns with even cells, with one long cell, with empty cells, without  *)
(* cells, and with the two kinds of limit the tables of the panes use.     *)
EXTENDS Layout
Column(head, cells, min, max) == [head |-> head, cells |-> cells, min |-> min, max |-> max]
SomeColumns ==
  {Column(2, <<3, 3>>, 0, 0), Column(1, <<1, 6>>, 0, 0), Column(0, <<0, 4>>, 0, 0),
   Column(3, <<>>, 0, 0), Column(1, <<0, 0>>, 0, 0), Column(2, <<1, 7>>, 5, 0),
   Column(2, <<2>>, 3, 0), Column(1, <<8, 2>>, 0, 4), Column(0, <<>>, 0, 0)}
=============================================================================
