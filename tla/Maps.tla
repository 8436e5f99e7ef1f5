-------------------------------- MODULE Maps --------------------------------
(***************************************************************************)
(* Dictionaries of the code are functions whose domain grows.              *)
(***************************************************************************)

(* f[k] = v                                                                 *)
With(f, k, v) == [ x \in DOMAIN f \cup {k} |-> IF x = k THEN v ELSE f[x] ]
=============================================================================
