---------------------------- MODULE MCScraping -----------------------------
EXTENDS Scraping

CONSTANTS thread, stub, bare, ad, tweet, quote

\* Two queries on each of two platforms.  Both of Reddit's searches can show
\* posts that come without an id, and both of Twitter's the same tweet.
MCTargets == <<"reddit", "reddit", "twitter", "twitter">>

MCShows == <<{thread, stub}, {bare, ad}, {tweet, quote}, {quote}>>
=============================================================================
