-------------------------------- MODULE Tables --------------------------------
(***************************************************************************)
(* Tables are functions; a table may be put together from several.         *)
(***************************************************************************)

\* The entries of both; f's where both have one.
f ++ g == [x \in DOMAIN f \cup DOMAIN g |-> IF x \in DOMAIN f THEN f[x] ELSE g[x]]

=============================================================================
