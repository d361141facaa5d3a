----------------------------- MODULE MCDelivery -----------------------------
(* Instances of Delivery for TLC.  Accounts are numbered in sorted() order.  *)
EXTENDS DeliveryMailbox

MCUsers == 1..2
MCTrio == 1..3
AllSites == Sites
FinishSites == {"dirs", "link", "mark"}
NoSites == {}
DirsSite == {"dirs"}
=============================================================================
