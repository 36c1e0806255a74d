----------------------------- MODULE MCWebhook ------------------------------
(***************************************************************************)
(* Two callers, and two subscribers of which one filters on transactions.  *)
(***************************************************************************)
EXTENDS Webhook

CONSTANTS c1, c2, s1, s2

MCCallers     == {c1, c2}
MCSubscribers == {s1, s2}
MCWants == [s \in MCSubscribers |->
              IF s = s1 THEN {"transaction", "checkpoint"} ELSE {"transaction"}]

=============================================================================
