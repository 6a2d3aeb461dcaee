------------------------------ MODULE MCDataTab -------------------------------
(* Three rows, two to a page, one filter that leaves out the first.        *)
EXTENDS DataTab

MCWheres == {AllKeys, AllKeys \ {1}}
=============================================================================
