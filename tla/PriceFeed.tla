------------------------------ MODULE PriceFeed ------------------------------
(***************************************************************************)
(* What contracts/interfaces/IPricer.sol promises to a reader of prices: a *)
(* list of prices that only grows, whose entries keep their place and time *)
(* (a price may be corrected), and a latest entry of which nothing in the  *)
(* list is newer.  How an implementation keeps the list, and which of two  *)
(* prices of the same time is the latest, is left open.                    *)
(***************************************************************************)
EXTENDS Integers, Sequences

CONSTANTS FeedPrices, FeedTimestamps  \* the prices and timestamps there are

VARIABLES feed,   \* the prices published, in the order of their ids
          latest  \* the place of the latest of them, 0 if there are none

feedVars == <<feed, latest>>

FeedEntries == [price : FeedPrices \ {0}, timestamp : FeedTimestamps]

FeedInit == \/ feed = <<>> /\ latest = 0
            \/ (\E entry \in FeedEntries : feed = <<entry>>) /\ latest = 1

LatestTimestamp == IF latest = 0 THEN 0 ELSE feed[latest].timestamp

\* A newer price becomes the latest; one of the same time may; an older one never does.
Publish(entry) ==
  /\ feed' = Append(feed, entry)
  /\ \/ entry.timestamp >= LatestTimestamp /\ latest' = Len(feed) + 1
     \/ entry.timestamp <= LatestTimestamp /\ latest' = latest

Correct(id, price) == /\ feed' = [feed EXCEPT ![id].price = price]
                      /\ UNCHANGED latest

FeedNext == \/ \E entry \in FeedEntries : Publish(entry)
            \/ \E id \in DOMAIN feed, price \in FeedPrices \ {0} : Correct(id, price)

FeedSpec == FeedInit /\ [][FeedNext]_feedVars
=============================================================================
