---------------------------- MODULE BroadcastOnce ----------------------------
(***************************************************************************)
(* What a deployment run promises whoever confirms it: a script is started *)
(* only after an explicit confirmation, always with a key of its own, and  *)
(* never again once a transaction has been handed to the network.          *)
(***************************************************************************)
CONSTANTS Keys, Txs  \* each member of Txs is a pair of a key and a number

VARIABLES confirmed, started, sent

Init == confirmed = FALSE /\ started = {} /\ sent = {}

Confirm ==
  /\ confirmed' = TRUE
  /\ UNCHANGED <<started, sent>>

Start ==
  /\ confirmed /\ sent = {}
  /\ \E k \in Keys \ started : started' = started \cup {k}
  /\ UNCHANGED <<confirmed, sent>>

Send ==
  /\ \E t \in Txs \ sent : t[1] \in started /\ sent' = sent \cup {t}
  /\ UNCHANGED <<confirmed, started>>

Next == Confirm \/ Start \/ Send

Spec == Init /\ [][Next]_<<confirmed, started, sent>>
=============================================================================
