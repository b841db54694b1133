-------------------------- MODULE MCRwLockStrategy --------------------------
(* Small instances of RwLockStrategy. *)
EXTENDS RwLockStrategy, TLC

CONSTANTS t1, t2

(* The first thread has a cache. *)
ClientScript ==
  (t1 :> <<{"cache_load"}, {"rcu", "store", "cache_load"},
           {"cache_load", "drop_cache"}>>)
  @@ (t2 :> <<{"store", "rcu"}, {"store", "rcu", "load"}>>)
=============================================================================
