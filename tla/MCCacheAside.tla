---------------------------- MODULE MCCacheAside ----------------------------
(* Small instances of CacheAside for TLC: one write that evicts by name, one  *)
(* that evicts by pattern and one that forgets to evict a key it changes.     *)
EXTENDS CacheAside, TLC

CONSTANTS k1, k2, delete, scan, forget

MCKeys == {k1, k2}

MCWrites == {delete, scan, forget}

MCTouches == (delete :> {k1}) @@ (scan :> {k1, k2}) @@ (forget :> {k2})

MCDels == (delete :> {k1}) @@ (scan :> {}) @@ (forget :> {})

MCScans == (delete :> {}) @@ (scan :> {k1, k2}) @@ (forget :> {})
=============================================================================
