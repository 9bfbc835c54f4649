--------------------------- MODULE MCCrawlRequests ---------------------------
(* Instances of CrawlRequests for TLC. *)
EXTENDS CrawlRequests
=============================================================================
