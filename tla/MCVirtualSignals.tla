-------------------------- MODULE MCVirtualSignals --------------------------
(***************************************************************************)
(* Instances of VirtualSignals: a waveform with the signal clk, the names  *)
(* v1, v2 and v3, and the tool calls of each run.                          *)
(***************************************************************************)
EXTENDS VirtualSignals

CONSTANTS a1, a2, v1, v2, v3, clk

MCNames == {v1, v2, v3, clk}
MCReal == {clk}
MCServer(a) == a
MCRealWidth(n) == 1
MCWidths == 1..2

(* ~clk, clk | 2'b00, and references to one and to two signals; a slice of  *)
(* bit 0 of v1, as a bus tool writes it.                                   *)
MCExprs == {"clk", "wide", "v1", "v2", "v3v1", "slice"}
MCRefs(e) ==
    CASE e \in {"clk", "wide"} -> <<clk>>
      [] e \in {"v1", "slice"} -> <<v1>>
      [] e = "v2" -> <<v2>>
      [] e = "v3v1" -> <<v3, v1>>

MCWidth(e, w) ==
    CASE e = "slice" -> 1
      [] e = "wide" -> 2
      [] OTHER -> w[MCRefs(e)[1]]
MCBusExprs == {"slice"}

Do(op, n) == [op |-> op, name |-> n]
New(n, e) == [op |-> "create", new |-> [m \in {n} |-> e]]
Change(n, e) == [op |-> "update", name |-> n, expr |-> e]

(* Chains, cycles and slices.                                              *)
ChainRequests ==
    {New(v1, "clk"), New(v2, "v1"), New(v3, "v2"), Change(v1, "wide"), Change(v1, "v2"),
     [op |-> "create", new |-> [m \in {v2, v3} |-> "slice"]],
     Do("delete", v1), Do("delete", v2), Do("eval", v1), Do("eval", v3), Do("value", v3)}

TwoAgents == Permutations({a1, a2})
=============================================================================
