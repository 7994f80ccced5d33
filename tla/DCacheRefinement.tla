-------------------------- MODULE DCacheRefinement --------------------------
(***************************************************************************)
(* The data cache of DCache.tla, with its buffers and the memory behind    *)
(* them, implements the memory of DataMemory.tla.                          *)
(***************************************************************************)
EXTENDS DCache

CONSTANT PreciseFaults

(* A store takes effect when the cache sends it.                           *)
Memory1 == INSTANCE DataMemory
             WITH M <- memView,
                  open <- IF pending THEN rg ELSE [op |-> "none"],
                  stored <- pending /\ rg_state = "WRITE_RESPONSE",
                  answer <- ans

(* Every load is answered with the last store to each of its bytes,        *)
(* whether it hits or misses, while other stores are still on their way;   *)
(* every store happens once.                                               *)
ImplementsMemory == Memory1!Spec
=============================================================================
