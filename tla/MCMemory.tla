------------------------------ MODULE MCMemory ------------------------------
(***************************************************************************)
(* Two lines of two words in memory, 0 of data and 1 of code, the line of  *)
(* the UART, whose words are the transmit register and rg_lcr, and a line  *)
(* with nothing, which competes with line 1 for one set of the cache.      *)
(***************************************************************************)
EXTENDS Memory

McInitiators == 0 .. 2
McTargets == {0, 2, 3}
McLines == {0, 1, 8, 9}
McMemLines == 0 .. 1
McDeviceLines == {8}
McOff == 0 .. 1
McLane == 0 .. 1
McByte == (McMemLines \X McOff \X McLane) \cup {<<"new">>}
McHighBit == McByte \ {<<"new">>}
McThr == <<8, 0, 0>>
McLcr == <<8, 1, 0>>
McRegisters == {McThr, McLcr}
McContents == [l \in McMemLines |-> [w \in McOff |-> [k \in McLane |-> <<l, w, k>>]]]

McCSet == {0}
Mcset == [l \in McLines |-> 0]
McFetches == {<<1, 1>>, <<9, 0>>}

Word(b) == [k \in McLane |-> <<b>>]
Load(addr) == [initiator |-> 0, op |-> "LD", burst |-> FALSE, addr |-> addr,
               lanes |-> McLane, word |-> << >>]
Store(addr, lane, b) == [initiator |-> 0, op |-> "ST", burst |-> FALSE, addr |-> addr,
                         lanes |-> {lane}, word |-> Word(b)]

(* The SoC controller stores to memory, as for the loader; the data cache  *)
(* reads it and writes to the UART: characters, rg_lcr without bit 7, and  *)
(* a byte without a register.                                              *)
McClientRequests == Store(<<0, 1>>, 1, "new") :> {0} @@ Load(<<0, 1>>) :> {2}
                    @@ Store(<<8, 0>>, 0, "new") :> {2} @@ Store(<<8, 1>>, 0, "new") :> {2}
                    @@ Store(<<8, 1>>, 1, "new") :> {2}

McAtATime == 0 :> 2 @@ 2 :> 1
=============================================================================
