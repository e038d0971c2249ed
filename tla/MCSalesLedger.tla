---------------------------- MODULE MCSalesLedger ----------------------------
(* Small instances of SalesLedger: callers, companies and drafts are            *)
(* exchangeable.                                                                 *)
EXTENDS SalesLedger, TLC

Exchangeable == Permutations(Callers) \cup Permutations(Keys) \cup Permutations(Drafts)
=============================================================================
