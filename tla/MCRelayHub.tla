---------------------------- MODULE MCRelayHub ----------------------------
(* A small instance of RelayHub for TLC. *)
EXTENDS RelayHub

CONSTANTS m1, m2, hubA, hubB, tokA, own, ben, burn, dev, sm, zero, zeroToken,
          w1, w2, pm1, hubDev

Config(workers, delay, fee, base, pct, overhead) ==
    [maxWorkerCount |-> workers, minimumUnstakeDelay |-> delay, devFee |-> fee,
     baseRelayFee |-> base, pctRelayFee |-> pct, gasOverhead |-> overhead,
     devAddress |-> hubDev]

(* Ledger: base fee, percentage, overhead and dev fee all matter.          *)
LedgerConfigs == {Config(2, 0, 50, 1, 100, 0), Config(1, 0, 0, 0, 0, 1)}
===========================================================================
