-------------------------- MODULE MCServerProcess --------------------------
(***************************************************************************)
(* The instance of ServerProcess that TLC checks: one aggclient and one    *)
(* other caller.  "eth" is configured twice, once with what has no factory *)
(* and then with two sources, one of them listed twice; "btc" has one      *)
(* source; "bad" has one with a factory and one without; "xrp" is unknown. *)
(***************************************************************************)
EXTENDS ServerProcess

CONSTANTS binance, bitstamp, kraken, cli, other

Pair(k, v) == [key |-> k, value |-> v]

MCInstruments ==
    << [symbol |-> "eth", sources |-> <<Pair(kraken, "ETH")>>],
       [symbol |-> "btc", sources |-> <<Pair(bitstamp, "btcusd")>>],
       [symbol |-> "bad", sources |-> <<Pair(binance, "BAD"), Pair(kraken, "BAD")>>],
       [symbol |-> "eth", sources |-> <<Pair(bitstamp, "eth"), Pair(binance, "ETHBTC"),
                                        Pair(bitstamp, "ethbtc")>>] >>

MCFactories == <<Pair(binance, FALSE), Pair(bitstamp, TRUE), Pair(binance, TRUE)>>

MCProcessOf == [r \in Receivers |-> IF r = cli THEN cli ELSE Server]

\* The later definitions count, in the maps as in the properties.
ASSUME MCMapsAgree == MapsAgree

=============================================================================
