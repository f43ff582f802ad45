--------------------------- MODULE MCWorkshopJobs ---------------------------
(* One job, as many baskets as finalizations can make of it, two requests.  *)
EXTENDS WorkshopJobs, TLC

MCSymmetry == Permutations(Req) \cup Permutations(Basket)
=============================================================================
