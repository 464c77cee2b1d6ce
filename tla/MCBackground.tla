--------------------------- MODULE MCBackground ---------------------------
(* What goes on behind the requests and must get somewhere: the events and *)
(* the fetches that keep a page up to date, and the jobs and the sweep     *)
(* that close auctions. A behaviour is one of the two at work.             *)
EXTENDS Realtime, AuctionJobs

VARIABLE part

\* While the jobs are at work, no page asks for an auction.
BackgroundInit ==
    /\ RealtimeInit /\ AuctionJobsInit
    /\ part \in {"realtime", "jobs"}
    /\ part = "jobs" => ~polled

BackgroundNext ==
    \/ part = "realtime" /\ RealtimeNext /\ UNCHANGED <<auctionJobsVars, part>>
    \/ part = "jobs" /\ AuctionJobsNext /\ UNCHANGED <<realtimeVars, part>>

BackgroundSpec ==
    /\ BackgroundInit /\ [][BackgroundNext]_<<realtimeVars, auctionJobsVars, part>>
    /\ \/ part = "realtime" /\ RealtimeFairness
       \/ part = "jobs" /\ AuctionJobsFairness

===========================================================================
