------------------------- MODULE MCRelayRegistrar -------------------------
(* A small instance of RelayRegistrar for TLC.                             *)
EXTENDS RelayRegistrar

CONSTANTS m1, m2, hubA, hubB, tokA, own, burn, dev, sm, zero, zeroToken,
          w1, pm1, hubDev

Config(delay) ==
    [maxWorkerCount |-> 1, minimumUnstakeDelay |-> delay, devFee |-> 0,
     baseRelayFee |-> 0, pctRelayFee |-> 0, gasOverhead |-> 0,
     devAddress |-> hubDev]

(* Nothing is charged; the hub owner switches between two delays.          *)
StakeConfigs == {Config(1), Config(2)}
===========================================================================
