--------------------------- MODULE MCExplorerPages ---------------------------
(* Two channels; the network as it is configured, with fewer peers.        *)
EXTENDS ExplorerPages

TheNames == [orderers |-> {"o1", "o2"}, peers |-> {"p1", "p2"}, cas |-> {"ca1"},
             channels |-> {"honeypots", "nids", "gtmw"}]

TheBlocks == [c \in Channels |-> IF c = Default THEN <<1>> ELSE <<1, 2>>]
===============================================================================
