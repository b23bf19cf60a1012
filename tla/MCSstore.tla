------------------------------ MODULE MCSstore ------------------------------
(* Sstore with the gas prices of ethereumjs-common.                        *)
EXTENDS Sstore

MCPrices(noop, init, clean, dirty, clearRefund, initRefund, cleanRefund) ==
  [noop |-> noop, init |-> init, clean |-> clean, dirty |-> dirty,
   clearRefund |-> clearRefund, initRefund |-> initRefund, cleanRefund |-> cleanRefund]

MCFee == [f \in Fork |->
  CASE f = "petersburg" -> MCPrices(0, 20000, 5000, 0, 15000, 0, 0)
    [] f = "constantinople" -> MCPrices(200, 20000, 5000, 200, 15000, 19800, 4800)
    [] f = "istanbul" -> MCPrices(800, 20000, 5000, 800, 15000, 19200, 4200)]
=============================================================================
