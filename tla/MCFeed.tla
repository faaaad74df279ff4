------------------------------- MODULE MCFeed -------------------------------
(* Small instances of Feed for TLC. *)
EXTENDS Feed

\* Each exchange by itself, and a pair: one of each kind of protocol.
MCTogether == {{e} : e \in Exchanges} \cup {{"kraken", "htx"}}

\* One connector is enough to run out of back-off.
One == {{"kraken"}}
=============================================================================
