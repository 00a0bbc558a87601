----------------------------- MODULE MCController -----------------------------
(***************************************************************************)
(* A small network for TLC: the spine, one leaf and a host.                *)
(***************************************************************************)
EXTENDS Controller

OneHost == {<<1, 1>>}

\* The spine alone.
NoHost == {}
=============================================================================
