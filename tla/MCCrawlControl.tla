---------------------------- MODULE MCCrawlControl ----------------------------
(* CrawlControl with two processes, or one.                                  *)
EXTENDS CrawlControl

CONSTANTS p1, p2

MCProcs == {p1, p2}
MCAlone == {p1}

MCJobs == {"crawl", "bulk"}
MCAnyCrawl == {"crawl", "filtered"}

=============================================================================
