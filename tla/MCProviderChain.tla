--------------------------- MODULE MCProviderChain ---------------------------
(* Small instances of the provider chain. *)
EXTENDS ProviderChain, TLC

CONSTANTS t1, t2, p1, p2

TwoProviders == <<p1, p2>>

\* a run with a deadline and a thread that has none bound
OneRun == t1 :> 1 @@ t2 :> None
=============================================================================
