----------------------------- MODULE PriceFeed ------------------------------
(***************************************************************************)
(* The ETH price (price.ts): two sources behind a cache that every request  *)
(* handler shares.  A price is represented by the time it was read at its   *)
(* source, NoPrice by 0.  A source answers or fails within Timeout, and     *)
(* other handlers run while one waits.                                     *)
(***************************************************************************)
EXTENDS Naturals

CONSTANTS
    Caller,     \* handlers that may ask for the price
    TTL,        \* ttlMs
    Timeout     \* of one source

ASSUME PriceAssumption == TTL \in Nat \ {0} /\ Timeout \in Nat

VARIABLES clock, cached, at, call

priceVars == <<clock, cached, at, call>>

NoPrice == 0
NoCall == [phase |-> "idle", start |-> 0, price |-> NoPrice, source |-> "none"]

PriceInit ==
    /\ clock = 1
    /\ cached = NoPrice
    /\ at = 0
    /\ call = [c \in Caller |-> NoCall]

\* Nobody waits for a source longer than its time-out.
Tick ==
    /\ \A c \in Caller :
         /\ call[c].phase = "pyth" => clock < call[c].start + Timeout
         /\ call[c].phase = "coingecko" => clock < call[c].start + 2 * Timeout
    /\ clock' = clock + 1
    /\ UNCHANGED <<cached, at, call>>

Return(c, price, source) ==
    call' = [call EXCEPT ![c] = [phase |-> "answered", price |-> price, source |-> source,
                                 start |-> IF @.phase = "idle" THEN clock ELSE @.start]]

\* getEthUsd up to its first await: the cache, or the first source.
AskPrice(c) ==
    /\ call[c].phase = "idle"
    /\ \/ /\ cached # NoPrice /\ clock < at + TTL
          /\ Return(c, cached, "hit")
       \/ /\ ~(cached # NoPrice /\ clock < at + TTL)
          /\ call' = [call EXCEPT ![c].phase = "pyth", ![c].start = clock]
    /\ UNCHANGED <<clock, cached, at>>

\* Mutant of SourceAnswers: stamped with the time of the answer.
MutSourceAnswers(c) ==
    /\ call[c].phase \in {"pyth", "coingecko"}
    /\ \E price \in call[c].start .. clock :
         /\ cached' = price
         /\ Return(c, price, call[c].phase)
    /\ at' = clock
    /\ UNCHANGED clock

\* fromPyth or fromCoinGecko answers; `at` is the time getEthUsd was called.
SourceAnswers(c) ==
    /\ call[c].phase \in {"pyth", "coingecko"}
    /\ \E price \in call[c].start .. clock :
         /\ cached' = price
         /\ Return(c, price, call[c].phase)
    /\ at' = call[c].start
    /\ UNCHANGED clock

\* A source fails: the next one, or what there is.
SourceFails(c) ==
    /\ \/ /\ call[c].phase = "pyth"
          /\ call' = [call EXCEPT ![c].phase = "coingecko"]
       \/ /\ call[c].phase = "coingecko"
          /\ Return(c, cached, IF cached # NoPrice THEN "cache" ELSE "fallback")
    /\ UNCHANGED <<clock, cached, at>>
=============================================================================
